------------------------------ MODULE CircList ------------------------------
(***************************************************************************)
(* The circular doubly linked list of include/list.h and src/list.c, the   *)
(* container under every table of the kernel: timers, applications,        *)
(* symbols, registry keys, widgets, codecs.  The pointer updates are the   *)
(* operators of module ListLinks; here they are called in any order a      *)
(* caller may call them, on blocks that are allocated and freed.           *)
(***************************************************************************)
EXTENDS ListLinks, Naturals, FiniteSets, SequencesExt

CONSTANTS
    Items,      \* item blocks
    Values,     \* values of an item's Data pointer
    Word        \* 2^32: an index is an unsigned long

ASSUME NullAssumption == NULL \notin Items

ASSUME WordAssumption == Word \in Nat /\ IsFiniteSet(Items) /\ Cardinality(Items) + 1 < Word

VARIABLES
    list,       \* the memory of the list: last, next, prev
    data,       \* the Data pointer of every item
    alloc,      \* the blocks malloc has handed out and nobody has freed
    phase,      \* "open", then "freeing" inside FreeList, then "closed"
    cur, stop,  \* a and b of FreeList's loop
    ring        \* history: the members in list order

vars == <<list, data, alloc, phase, cur, stop, ring>>

Pointer == Items \cup {NULL}

-----------------------------------------------------------------------------
(* The searches, all one loop: a from Last->Next until it is back there.   *)

WalkBound == Cardinality(Items) + 1

Walk == WalkAlong(list.next[list.last], list.next, WalkBound)

(* How often the loop's body runs. *)
WalkLen ==
    IF list.last = NULL THEN 0
    ELSE CHOOSE n \in 1 .. WalkBound :
            /\ n = WalkBound \/ Walk[n + 1] = Walk[1]
            /\ \A k \in 2 .. n : Walk[k] # Walk[1]

Hits(d) == {k \in 1 .. WalkLen : data[Walk[k]] = d}

FirstHit(d) == CHOOSE k \in Hits(d) : \A j \in Hits(d) : k <= j

ListFoundItem(d) == IF Hits(d) = {} THEN NULL ELSE Walk[FirstHit(d)]

(* Indices are one-based; an empty list answers 0, a miss answers -1. *)
ListFoundIndex(d) ==
    IF list.last = NULL THEN 0
    ELSE IF Hits(d) = {} THEN Word - 1 ELSE FirstHit(d)

(* Index is decremented before the loop and on every turn, unsigned. *)
ListAtItem(index) ==
    LET found == {k \in 1 .. WalkLen : (index + Word - k) % Word = 0}
    IN IF found = {} THEN NULL ELSE Walk[CHOOSE k \in found : TRUE]

-----------------------------------------------------------------------------
Init ==
    /\ list = [last |-> NULL,
               next |-> [i \in Items |-> NULL],
               prev |-> [i \in Items |-> NULL]]
    /\ data \in [Items -> Values]
    /\ alloc = {}
    /\ phase = "open"
    /\ cur = NULL /\ stop = NULL
    /\ ring = <<>>

Loose(i) == i \in alloc /\ \A k \in 1 .. Len(ring) : ring[k] # i

(* A new block is zeroed. *)
NewListItem(i, d) ==
    /\ phase = "open"
    /\ i \notin alloc
    /\ alloc' = alloc \cup {i}
    /\ data' = [data EXCEPT ![i] = d]
    /\ list' = [list EXCEPT !.next[i] = NULL, !.prev[i] = NULL]
    /\ UNCHANGED <<phase, cur, stop, ring>>

ListAddItem(i) ==
    /\ phase = "open"
    /\ Loose(i)
    /\ list' = LinkEnd(list, i)
    /\ ring' = Append(ring, i)
    /\ UNCHANGED <<data, alloc, phase, cur, stop>>

ListAddItemBefore(i, k) ==
    /\ phase = "open"
    /\ Loose(i)
    /\ list' = LinkBefore(list, i, ring[k])
    /\ ring' = InsertAt(ring, k, i)
    /\ UNCHANGED <<data, alloc, phase, cur, stop>>

(* Taken out, still the caller's. *)
ListRemoveItemEx(k) ==
    /\ phase = "open"
    /\ list' = Unlink(list, ring[k])
    /\ ring' = RemoveAt(ring, k)
    /\ UNCHANGED <<data, alloc, phase, cur, stop>>

(* Taken out and freed. *)
ListRemoveItem(k) ==
    /\ phase = "open"
    /\ list' = Unlink(list, ring[k])
    /\ ring' = RemoveAt(ring, k)
    /\ alloc' = alloc \ {ring[k]}
    /\ UNCHANGED <<data, phase, cur, stop>>

(* The k-th member is dropped on the j-th of the others. *)
Moved(s, k, j, upper) ==
    LET others == RemoveAt(s, k)
    IN IF upper THEN InsertAt(others, j, s[k])
       ELSE IF j = Len(others) THEN Append(others, s[k])
       ELSE InsertAt(others, j + 1, s[k])

MoveListRow(k, j, upper) ==
    /\ phase = "open"
    /\ list' = MoveRow(list, ring[k], RemoveAt(ring, k)[j], upper)
    /\ ring' = Moved(ring, k, j, upper)
    /\ UNCHANGED <<data, alloc, phase, cur, stop>>

(* Mutant: the test for an empty list is dropped. *)
FreeListBeginBlind ==
    /\ phase = "open"
    /\ phase' = "freeing"
    /\ cur' = list.last
    /\ stop' = list.last
    /\ UNCHANGED <<list, data, alloc, ring>>

(* FreeList and KickList walk Prev from Last; b keeps the address of the   *)
(* first block they free.                                                  *)
FreeListBegin ==
    /\ phase = "open"
    /\ phase' = IF list.last = NULL THEN "closed" ELSE "freeing"
    /\ cur' = list.last
    /\ stop' = list.last
    /\ UNCHANGED <<list, data, alloc, ring>>

(* Mutant: the loop walks Next. *)
FreeListStepForward ==
    LET n == list.next[cur] IN
    /\ phase = "freeing"
    /\ alloc' = alloc \ {cur}
    /\ cur' = n
    /\ phase' = IF n = stop THEN "closed" ELSE "freeing"
    /\ ring' = Front(ring)
    /\ UNCHANGED <<list, data, stop>>

FreeListStep ==
    LET n == list.prev[cur] IN
    /\ phase = "freeing"
    /\ alloc' = alloc \ {cur}
    /\ cur' = n
    /\ phase' = IF n = stop THEN "closed" ELSE "freeing"
    /\ ring' = Front(ring)
    /\ UNCHANGED <<list, data, stop>>

Next ==
    \/ \E i \in Items, d \in Values : NewListItem(i, d)
    \/ \E i \in Items : ListAddItem(i)
    \/ \E i \in Items, k \in 1 .. Len(ring) : ListAddItemBefore(i, k)
    \/ \E k \in 1 .. Len(ring) : ListRemoveItemEx(k) \/ ListRemoveItem(k)
    \/ \E k \in 1 .. Len(ring), j \in 1 .. (Len(ring) - 1), upper \in BOOLEAN :
          MoveListRow(k, j, upper)
    \/ FreeListBegin
    \/ FreeListStep

Spec == Init /\ [][Next]_vars

-----------------------------------------------------------------------------
(* Type invariant: the program's pointers are item blocks or NULL, and the *)
(* loop of FreeList (list.c) never runs on a null pointer.                 *)
TypeOK ==
    /\ list \in Memories(Items)
    /\ data \in [Items -> Values]
    /\ alloc \subseteq Items
    /\ phase \in {"open", "freeing", "closed"}
    /\ cur \in Pointer /\ stop \in Pointer
    /\ phase = "freeing" => cur \in Items /\ stop \in Items
    /\ ring \in Seq(Items)

(* What FreeList's loop relies on: cur is the last member not yet freed,   *)
(* Prev still leads from it through the others, and the first one points   *)
(* back to the block that was freed first, which ends the loop.            *)
Draining ==
    /\ ring # <<>>
    /\ cur = ring[Len(ring)]
    /\ list.prev[ring[1]] = stop
    /\ \A k \in 1 .. (Len(ring) - 1) : list.prev[ring[k + 1]] = ring[k]
    /\ stop \in Items
    /\ \A k \in 1 .. (Len(ring) - 1) : ring[k] # stop

(* The list's memory and the history agree through every order of adding,  *)
(* inserting, removing, re-adding, moving and freeing; no member is twice  *)
(* in the ring, none is a freed block, and a closed list has freed them    *)
(* all (FreeList neither misses a member nor frees one twice).             *)
ListInv ==
    /\ Distinct(ring)
    /\ \A k \in 1 .. Len(ring) : ring[k] \in alloc
    /\ phase = "open" => Linked(list, ring)
    /\ phase = "freeing" => Draining
    /\ phase = "closed" => ring = <<>>

BackWalk == WalkAlong(list.last, list.prev, WalkLen)

(* The two walks the callers write by hand, forward from Last->Next (every *)
(* search) and backward from Last (FreeList, FreeSList), meet each member  *)
(* once, in list order and in its reverse.  So do the walks that count:    *)
(* looking a datum up by the index that was found for it gives the item    *)
(* that ListFoundItem finds, and neither index that means "not here"       *)
(* (0 and -1) leads to an item (list.c:117-128, 207-235).                  *)
WalksAgree ==
    phase = "open" =>
       /\ WalkLen = Len(ring)
       /\ \A k \in 1 .. Len(ring) :
             Walk[k] = ring[k] /\ BackWalk[k] = ring[Len(ring) + 1 - k] /\ ListAtItem(k) = ring[k]
       /\ \A d \in Values : ListAtItem(ListFoundIndex(d)) = ListFoundItem(d)

(* What a program that walks the list sees of it.  Inside FreeList that is *)
(* what its loop will still free: back along Prev from cur up to stop.     *)
DrainWalk == WalkAlong(cur, list.prev, WalkBound)

DrainLen == CHOOSE n \in 1 .. WalkBound :
               /\ n = WalkBound \/ DrainWalk[n + 1] = stop
               /\ \A k \in 2 .. n : DrainWalk[k] # stop

Contents ==
    CASE phase = "open"    -> [k \in 1 .. WalkLen |-> Walk[k]]
      [] phase = "freeing" -> [k \in 1 .. DrainLen |-> DrainWalk[DrainLen + 1 - k]]
      [] phase = "closed"  -> <<>>

(* The linked list, seen through these walks alone, implements the         *)
(* sequence of module ItemSeq: every operation changes what a walk finds   *)
(* the way it is documented to, and FreeList drops one member at a time.   *)
AsSequence == INSTANCE ItemSeq WITH seq <- Contents, open <- (phase = "open")

ImplementsSequence == AsSequence!Spec
=============================================================================
