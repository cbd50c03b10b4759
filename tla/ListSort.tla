------------------------------ MODULE ListSort ------------------------------
(***************************************************************************)
(* ListOrderByData and ListOrderByItem of src/list.c, one comparison a     *)
(* step.  The items stay where they are in the ring; what they carry (Data,*)
(* Key, DataType, FreeData: all of a TListItem behind its two links) is    *)
(* exchanged.  An item is its position counted from Last->SortNext, and b or a *)
(* back at the head is position Len(row) + 1.                              *)
(***************************************************************************)
EXTENDS Naturals, Sequences

CONSTANTS
    Payloads,   \* what an item carries
    NoData,     \* the payloads whose Data is NULL, which are never compared
    Rank,       \* the order the comparator sorts by
    TiesSwap,   \* TRUE for the comparators that answer 1 on equal items
    MaxItems    \* bound on the length of a list

ASSUME SortAssumption ==
    /\ NoData \subseteq Payloads
    /\ Rank \in [Payloads -> Nat]
    /\ TiesSwap \in BOOLEAN
    /\ MaxItems \in Nat

VARIABLES
    row,        \* the payloads by position
    a, b,       \* the loops' items
    pc,         \* "call", "inner", "outer", "done" or "crashed"
    row0, perm  \* history: row when the sort began, and where each payload came from

sortVars == <<row, a, b, pc, row0, perm>>

Rows == UNION {[1 .. n -> Payloads] : n \in 0 .. MaxItems}

SortInit ==
    /\ row \in Rows
    /\ a = 1 /\ b = 1
    /\ pc = "call"
    /\ row0 = row
    /\ perm = [k \in 1 .. Len(row) |-> k]

(* The guard in front of the loops joins its tests by && and so returns    *)
(* for no list at all: an empty one is dereferenced.                       *)
Call ==
    /\ pc = "call"
    /\ pc' = IF Len(row) = 0 THEN "crashed" ELSE "inner"
    /\ UNCHANGED <<row, a, b, row0, perm>>

(* comparator(x, y) > 0 *)
Greater(x, y) ==
    \/ Rank[x] > Rank[y]
    \/ Rank[x] = Rank[y] /\ TiesSwap

(* Mutant: the comparison is the other way round. *)
OutOfOrderBack(s, i, j) == s[i] \notin NoData /\ s[j] \notin NoData /\ Greater(s[j], s[i])

OutOfOrder(s, i, j) == s[i] \notin NoData /\ s[j] \notin NoData /\ Greater(s[i], s[j])

(* Mutant: only the Data pointers are copied, one over the other. *)
ExchangeLost(s, i, j) == [s EXCEPT ![i] = s[j]]

Exchange(s, i, j) == [s EXCEPT ![i] = s[j], ![j] = s[i]]

(* Mutant: b is left on a. *)
CompareStuck ==
    /\ pc = "inner"
    /\ UNCHANGED <<row, perm, b, a, row0>>
    /\ pc' = IF b = Len(row) THEN "outer" ELSE "inner"

Compare ==
    /\ pc = "inner"
    /\ IF OutOfOrder(row, a, b)
       THEN row' = Exchange(row, a, b) /\ perm' = Exchange(perm, a, b)
       ELSE UNCHANGED <<row, perm>>
    /\ b' = b + 1
    /\ pc' = IF b = Len(row) THEN "outer" ELSE "inner"
    /\ UNCHANGED <<a, row0>>

(* Mutant: the loop goes once round too often. *)
AdvanceLate ==
    /\ pc = "outer"
    /\ a' = a + 1
    /\ b' = a + 1
    /\ pc' = IF a = Len(row) + 1 THEN "done" ELSE "inner"
    /\ UNCHANGED <<row, row0, perm>>

Advance ==
    /\ pc = "outer"
    /\ a' = a + 1
    /\ b' = a + 1
    /\ pc' = IF a = Len(row) THEN "done" ELSE "inner"
    /\ UNCHANGED <<row, row0, perm>>

SortNext == Call \/ Compare \/ Advance

SortSpec == SortInit /\ [][SortNext]_sortVars

(* The function runs to its end once called. *)
SortFairSpec == SortSpec /\ WF_sortVars(SortNext)

-----------------------------------------------------------------------------
(* Type invariant: positions are within the ring, or one past it. *)
SortTypeOK ==
    /\ row \in Rows
    /\ a \in 1 .. Len(row) + 1 /\ b \in 1 .. Len(row) + 1
    /\ pc \in {"call", "inner", "outer", "done", "crashed"}
    /\ pc = "inner" => a <= Len(row) /\ b <= Len(row)
    /\ pc = "outer" => a <= Len(row)
    /\ row0 \in Rows /\ Len(row0) = Len(row)

(* x may stand before y. *)
InOrder(x, y) == x \in NoData \/ y \in NoData \/ Rank[x] <= Rank[y]

Ordered(s) == \A i, j \in 1 .. Len(s) : i < j => InOrder(s[i], s[j])

(* When ListOrderByData returns, any two items that carry data are in      *)
(* order, also across items that carry none and with comparators that      *)
(* never answer 0.                                                         *)
SortedAtReturn == pc = "done" => Ordered(row)

(* No payload is lost or doubled by the exchanges, at any moment: row is   *)
(* row0 rearranged.                                                        *)
IsRearranged ==
    /\ perm \in [1 .. Len(row) -> 1 .. Len(row)]
    /\ \A i, j \in 1 .. Len(row) : perm[i] = perm[j] => i = j
    /\ \A i \in 1 .. Len(row) : row[i] = row0[perm[i]]

(* What the outer loop has settled: nothing behind a position before a is  *)
(* smaller than it, and row[a] is smallest of what b has passed.           *)
Settled ==
    /\ \A i, j \in 1 .. Len(row) : i < a /\ i < j => InOrder(row[i], row[j])
    /\ \A j \in 1 .. Len(row) :
          (pc \in {"inner", "outer"} /\ a < j /\ (j < b \/ pc = "outer")) => InOrder(row[a], row[j])
    /\ pc = "done" => a = Len(row) + 1
    /\ pc = "call" => a = 1 /\ b = 1
    /\ pc = "inner" => a <= b

(* The sort ends. *)
Terminates == <>(pc \in {"done", "crashed"})
=============================================================================
