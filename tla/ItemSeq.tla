------------------------------- MODULE ItemSeq -------------------------------
(***************************************************************************)
(* What list.h and list.c promise their callers: a list is a sequence of   *)
(* distinct items that is appended to, inserted into, removed from,        *)
(* reordered, and finally emptied from its end.  No pointers here; module  *)
(* CircList is shown to implement this one.                                *)
(***************************************************************************)
EXTENDS Naturals, Sequences, SequencesExt

CONSTANT Items          \* the item blocks a list can hold

VARIABLES
    seq,                \* the members, in the order a walk from the head meets them
    open                \* FALSE from the moment FreeList or KickList starts

vars == <<seq, open>>

Member(i) == \E k \in 1 .. Len(seq) : seq[k] = i

Init == seq = <<>> /\ open = TRUE

(* A new last member. *)
AddLast(i) ==
    /\ open /\ ~ Member(i)
    /\ seq' = Append(seq, i)
    /\ UNCHANGED open

(* A new member in front of the k-th one. *)
AddBefore(i, k) ==
    /\ open /\ ~ Member(i)
    /\ seq' = InsertAt(seq, k, i)
    /\ UNCHANGED open

TakeOut(k) ==
    /\ open
    /\ seq' = RemoveAt(seq, k)
    /\ UNCHANGED open

(* The k-th member is taken out and put back: at the end, or in front of   *)
(* the j-th member of what is left.                                        *)
MoveToEnd(k) ==
    /\ open
    /\ seq' = Append(RemoveAt(seq, k), seq[k])
    /\ UNCHANGED open

MoveBefore(k, j) ==
    /\ open
    /\ seq' = InsertAt(RemoveAt(seq, k), j, seq[k])
    /\ UNCHANGED open

Close ==
    /\ open
    /\ open' = FALSE
    /\ UNCHANGED seq

(* A closed list only loses members, the last one first. *)
Drop ==
    /\ ~ open /\ seq # <<>>
    /\ seq' = Front(seq)
    /\ UNCHANGED open

Next ==
    \/ \E i \in Items : AddLast(i)
    \/ \E i \in Items, k \in 1 .. Len(seq) : AddBefore(i, k)
    \/ \E k \in 1 .. Len(seq) :
          \/ TakeOut(k)
          \/ MoveToEnd(k)
          \/ \E j \in 1 .. (Len(seq) - 1) : MoveBefore(k, j)
    \/ Close
    \/ Drop

Spec == Init /\ [][Next]_vars
=============================================================================
