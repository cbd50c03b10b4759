------------------------------ MODULE ListLinks -----------------------------
(***************************************************************************)
(* The pointer updates of include/list.h and src/list.c.  A list header    *)
(* holds one pointer, Last; the head is Last->Next.  The memory a list     *)
(* works on is one record:                                                 *)
(*    last   the header's pointer, or NULL                                 *)
(*    next   Next of every item block, prev its Prev                       *)
(* An operation is an operator from such a record to such a record, so     *)
(* that the modules of the list's clients can compose them.                *)
(***************************************************************************)
EXTENDS Naturals, Sequences

CONSTANT NULL           \* the null pointer

Memories(T) == [last : T \cup {NULL}, next : [T -> T \cup {NULL}], prev : [T -> T \cup {NULL}]]

LinkAlone(m, i) ==
    [last |-> i,
     next |-> [m.next EXCEPT ![i] = i],
     prev |-> [m.prev EXCEPT ![i] = i]]

(* Mutant: n is not told of its new neighbour. *)
LinkBetweenForward(m, p, i, n) ==
    [last |-> m.last,
     next |-> [m.next EXCEPT ![i] = n, ![p] = i],
     prev |-> [m.prev EXCEPT ![i] = p]]

(* i goes between p and n, two neighbours of the ring (p = n if it has one *)
(* member only).                                                           *)
LinkBetween(m, p, i, n) ==
    [last |-> m.last,
     next |-> [m.next EXCEPT ![i] = n, ![p] = i],
     prev |-> [m.prev EXCEPT ![i] = p, ![n] = i]]

LinkEnd(m, i) ==
    IF m.last = NULL
    THEN LinkAlone(m, i)
    ELSE [LinkBetween(m, m.last, i, m.next[m.last]) EXCEPT !.last = i]

(* In front of b; Last is not touched, so in front of the head means a new *)
(* head.  A null b appends.                                                *)
LinkBefore(m, i, b) ==
    IF m.last # NULL /\ b # NULL
    THEN LinkBetween(m, m.prev[b], i, b)
    ELSE LinkEnd(m, i)

(* Mutant: Last still names the item that was taken out. *)
UnlinkKeepLast(m, i) ==
    IF m.next[i] = i
    THEN [m EXCEPT !.last = NULL]
    ELSE [last |-> m.last,
          next |-> [m.next EXCEPT ![m.prev[i]] = m.next[i]],
          prev |-> [m.prev EXCEPT ![m.next[i]] = m.prev[i]]]

(* i's own pointers keep pointing at its former neighbours. *)
Unlink(m, i) ==
    IF m.next[i] = i
    THEN [m EXCEPT !.last = NULL]
    ELSE [last |-> IF m.last = i THEN m.prev[i] ELSE m.last,
          next |-> [m.next EXCEPT ![m.prev[i]] = m.next[i]],
          prev |-> [m.prev EXCEPT ![m.next[i]] = m.prev[i]]]

(* The drop of a dragged row b on row a of a list view: after a, or before *)
(* it when the pointer is in a's upper half.                               *)
MoveRow(m, b, a, upper) ==
    LET u == Unlink(m, b) IN
    IF upper THEN LinkBefore(u, b, a)
    ELSE LinkBefore(IF a = u.last THEN [u EXCEPT !.last = b] ELSE u, b, u.next[a])

(* The loops that callers write by hand: the first k blocks met from a     *)
(* along g, which is Next or Prev.                                         *)
WalkAlong(a, g, k) ==
    LET at[j \in 1 .. k] == IF j = 1 THEN a ELSE g[at[j - 1]]
    IN  at

-----------------------------------------------------------------------------
(* m holds exactly the sequence s: its links lead from each member to the  *)
(* next one and back, and close the ring at Last.                          *)
Chained(m, s) ==
    \A k \in 1 .. (Len(s) - 1) : m.next[s[k]] = s[k + 1] /\ m.prev[s[k + 1]] = s[k]

Linked(m, s) ==
    IF s = <<>> THEN m.last = NULL
    ELSE /\ m.last = s[Len(s)]
         /\ m.next[s[Len(s)]] = s[1]
         /\ m.prev[s[1]] = s[Len(s)]
         /\ Chained(m, s)

Distinct(s) == \A j, k \in 1 .. Len(s) : s[j] = s[k] => j = k
=============================================================================
