----------------------------- MODULE MCListSort -----------------------------
(* ListSort on lists of up to four items: two pairs of payloads that tie,  *)
(* and one without data.                                                   *)
EXTENDS ListSort

CONSTANTS p1, p2, p3, p4, none

MCPayloads == {p1, p2, p3, p4, none}

MCRank == [p \in MCPayloads |->
             CASE p \in {p1, p2} -> 1
               [] p = p3 -> 2
               [] OTHER -> 3]
=============================================================================
