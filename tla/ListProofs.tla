--------------------------- MODULE ListProofs -------------------------------
(***************************************************************************)
(* Proofs about CircList, for any set of item blocks: the pointer          *)
(* operations keep Linked, hence ListInv is an invariant, and the list's   *)
(* history is a behaviour of ItemSeq. And about ListSort: the sort ends     *)
(* with the items it began with, in order.                                 *)
(***************************************************************************)
EXTENDS CircList, ListSort, ListLinksProofs

(* The drop of a list view row, Last set before the insertion included,    *)
(* leaves the ring linked.                                                 *)
LEMMA MoveRowLinks ==
    ASSUME NEW m \in Memories(Items), NEW s \in Seq(Items), NEW k \in 1 .. Len(s),
           NEW j \in 1 .. (Len(s) - 1), NEW upper \in BOOLEAN,
           Linked(m, s), Distinct(s)
    PROVE  /\ MoveRow(m, s[k], RemoveAt(s, k)[j], upper) \in Memories(Items)
           /\ Linked(MoveRow(m, s[k], RemoveAt(s, k)[j], upper), Moved(s, k, j, upper))
           /\ Moved(s, k, j, upper) \in Seq(Items)
           /\ Distinct(Moved(s, k, j, upper))
           /\ \A l \in 1 .. Len(Moved(s, k, j, upper)) : \E q \in 1 .. Len(s) : Moved(s, k, j, upper)[l] = s[q]
<1> DEFINE o == RemoveAt(s, k)
           x == s[k]
           u == Unlink(m, x)
           r == MoveRow(m, x, o[j], upper)
           t == Moved(s, k, j, upper)
<1>0. Len(s) \in Nat /\ x \in Items
  BY LenProperties, ElementOfSeq
<1>1. u \in Memories(Items) /\ Linked(u, o)
  BY UnlinkLinks, NullAssumption
<1>2. /\ o \in Seq(Items) /\ Distinct(o)
      /\ \A l \in 1 .. Len(o) : o[l] # x /\ \E q \in 1 .. Len(s) : o[l] = s[q]
  BY RemoveAtDistinct
<1>3. Len(o) = Len(s) - 1
  BY RemoveAtProps
<1>4. r = IF upper THEN LinkBefore(u, x, o[j])
          ELSE LinkBefore(IF o[j] = u.last THEN [u EXCEPT !.last = x] ELSE u, x, u.next[o[j]])
  BY DEF MoveRow
<1>5. t = IF upper THEN InsertAt(o, j, x)
          ELSE IF j = Len(o) THEN Append(o, x) ELSE InsertAt(o, j + 1, x)
  BY DEF Moved
<1> HIDE DEF o, x, u, r, t
<1>6. j \in 1 .. Len(o) /\ Len(o) \in Nat BY <1>0, <1>3
<1>7. CASE upper
  <2>1. r = LinkBefore(u, x, o[j]) /\ t = InsertAt(o, j, x) BY <1>4, <1>5, <1>7
  <2>2. r \in Memories(Items) /\ Linked(r, t)
    BY <2>1, <1>0, <1>1, <1>2, <1>6, LinkBeforeLinks, NullAssumption
  <2>3. /\ t \in Seq(Items) /\ Distinct(t)
        /\ \A l \in 1 .. Len(t) : t[l] = x \/ \E q \in 1 .. Len(o) : t[l] = o[q]
    BY <2>1, <1>0, <1>2, <1>6, InsertAtDistinct
  <2> QED BY <2>2, <2>3, <1>2 DEF o, x, r, t
<1>8. CASE ~ upper /\ j = Len(o)
  <2>1. t = Append(o, x) BY <1>5, <1>8
  <2>2. o # <<>> /\ u.last = o[j] /\ u.next[o[j]] = o[1]
    <3>1. o # <<>> BY <1>6, EmptySeq
    <3> QED BY <3>1, <1>1, <1>8 DEF Linked
  <2>3. r = LinkBefore([u EXCEPT !.last = x], x, o[1])
    BY <2>2, <1>4, <1>8
  <2>4. o[1] \in Items /\ o[j] \in Items /\ u.prev[o[1]] = o[j]
    <3>1. o[1] \in Items /\ o[j] \in Items BY <1>2, <1>6, ElementOfSeq
    <3> QED BY <3>1, <2>2, <1>1, <1>8 DEF Linked
  <2>5. r = LinkEnd(u, x)
    BY <2>2, <2>3, <2>4, <1>0, <1>1, NullAssumption DEF LinkBefore, LinkEnd, LinkBetween, Memories
  <2>6. r \in Memories(Items) /\ Linked(r, t)
    BY <2>1, <2>5, <1>0, <1>1, <1>2, LinkEndLinks, NullAssumption
  <2>7. /\ t \in Seq(Items) /\ Distinct(t)
        /\ \A l \in 1 .. Len(t) : t[l] = x \/ \E q \in 1 .. Len(o) : t[l] = o[q]
    BY <2>1, <1>0, <1>2, AppendDistinct
  <2> QED BY <2>6, <2>7, <1>2 DEF o, x, r, t
<1>9. CASE ~ upper /\ j # Len(o)
  <2>0. j + 1 \in 1 .. Len(o) /\ j \in 1 .. (Len(o) - 1) BY <1>6, <1>9
  <2>1. t = InsertAt(o, j + 1, x) BY <1>5, <1>9
  <2>2. o # <<>> /\ u.last = o[Len(o)] /\ u.next[o[j]] = o[j + 1]
    <3>1. o # <<>> BY <1>6, EmptySeq
    <3> QED BY <3>1, <2>0, <1>1 DEF Linked, Chained
  <2>3. o[j] # u.last BY <2>0, <2>2, <1>2, <1>6, <1>9 DEF Distinct
  <2>4. r = LinkBefore(u, x, o[j + 1]) BY <2>2, <2>3, <1>4, <1>9
  <2>5. r \in Memories(Items) /\ Linked(r, t)
    BY <2>0, <2>1, <2>4, <1>0, <1>1, <1>2, LinkBeforeLinks, NullAssumption
  <2>6. j + 1 \in 1 .. (Len(o) + 1) BY <2>0, <1>6
  <2>7. /\ t \in Seq(Items) /\ Distinct(t)
        /\ \A l \in 1 .. Len(t) : t[l] = x \/ \E q \in 1 .. Len(o) : t[l] = o[q]
    BY <2>1, <2>6, <1>0, <1>2, InsertAtDistinct
  <2> QED BY <2>5, <2>7, <1>2 DEF o, x, r, t
<1> QED BY <1>7, <1>8, <1>9

-----------------------------------------------------------------------------
(* TypeOK and ListInv are inductive together: the links are needed to know *)
(* that what an operation reads is a member, Distinct to know which one.   *)
IInv == TypeOK /\ ListInv

LEMMA InitIInv == Init => IInv
<1> SUFFICES ASSUME Init PROVE IInv OBVIOUS
<1>1. ring = <<>> /\ Len(ring) = 0 /\ ring \in Seq(Items) BY EmptySeq DEF Init
<1>2. TypeOK BY <1>1 DEF Init, TypeOK, Memories, Pointer
<1>3. ListInv BY <1>1 DEF Init, ListInv, Distinct, Linked
<1> QED BY <1>2, <1>3 DEF IInv

(* One step per operation. *)
LEMMA NextIInv == IInv /\ [Next]_vars => IInv'
<1> SUFFICES ASSUME IInv, [Next]_vars PROVE IInv' OBVIOUS
<1> USE DEF IInv
<1>0. /\ list \in Memories(Items) /\ ring \in Seq(Items) /\ Distinct(ring)
      /\ Len(ring) \in Nat
      /\ \A k \in 1 .. Len(ring) : ring[k] \in Items
  BY LenProperties, ElementOfSeq DEF TypeOK, ListInv
<1>1. ASSUME NEW i \in Items, NEW d \in Values, NewListItem(i, d)
      PROVE  IInv'
  <2>1. TypeOK'
    BY <1>1 DEF NewListItem, TypeOK, Memories, Pointer
  <2>2. \A k \in 1 .. Len(ring) : ring[k] # i
    BY <1>1 DEF NewListItem, ListInv
  <2>3. Linked(list, ring) BY <1>1 DEF NewListItem, ListInv
  <2>4. /\ list'.last = list.last
        /\ \A k \in 1 .. Len(ring) : list'.next[ring[k]] = list.next[ring[k]]
        /\ \A k \in 1 .. Len(ring) : list'.prev[ring[k]] = list.prev[ring[k]]
    BY <1>0, <1>1, <2>2 DEF NewListItem, Memories
  <2>5. Linked(list', ring)
    <3>1. CASE ring = <<>> BY <3>1, <2>3, <2>4 DEF Linked
    <3>2. CASE ring # <<>>
      <4>1. 1 \in 1 .. Len(ring) /\ Len(ring) \in 1 .. Len(ring) BY <3>2, <1>0, EmptySeq
      <4>2. \A k \in 1 .. (Len(ring) - 1) : k \in 1 .. Len(ring) /\ k + 1 \in 1 .. Len(ring)
        BY <1>0
      <4> QED BY <3>2, <4>1, <4>2, <2>3, <2>4 DEF Linked, Chained
    <3> QED BY <3>1, <3>2
  <2> QED BY <1>1, <2>1, <2>5 DEF NewListItem, ListInv
<1>2. ASSUME NEW i \in Items, ListAddItem(i)
      PROVE  IInv'
  <2>1. Linked(list, ring) /\ \A k \in 1 .. Len(ring) : ring[k] # i
    BY <1>2 DEF ListAddItem, Loose, ListInv
  <2>2. list' \in Memories(Items) /\ Linked(list', ring')
    BY <1>0, <1>2, <2>1, LinkEndLinks, NullAssumption DEF ListAddItem
  <2>3. /\ ring' \in Seq(Items) /\ Distinct(ring')
        /\ \A k \in 1 .. Len(ring') : ring'[k] = i \/ \E j \in 1 .. Len(ring) : ring'[k] = ring[j]
    BY <1>0, <1>2, <2>1, AppendDistinct DEF ListAddItem
  <2>4. \A k \in 1 .. Len(ring') : ring'[k] \in alloc'
    BY <1>2, <2>3 DEF ListAddItem, Loose, ListInv
  <2> QED BY <1>2, <2>2, <2>3, <2>4 DEF ListAddItem, TypeOK, ListInv
<1>3. ASSUME NEW i \in Items, NEW k \in 1 .. Len(ring), ListAddItemBefore(i, k)
      PROVE  IInv'
  <2>1. Linked(list, ring) /\ \A j \in 1 .. Len(ring) : ring[j] # i
    BY <1>3 DEF ListAddItemBefore, Loose, ListInv
  <2>2. list' \in Memories(Items) /\ Linked(list', ring')
    BY <1>0, <1>3, <2>1, LinkBeforeLinks, NullAssumption DEF ListAddItemBefore
  <2>3. k \in 1 .. (Len(ring) + 1) BY <1>0
  <2>4. /\ ring' \in Seq(Items) /\ Distinct(ring')
        /\ \A j \in 1 .. Len(ring') : ring'[j] = i \/ \E l \in 1 .. Len(ring) : ring'[j] = ring[l]
    BY <1>0, <1>3, <2>1, <2>3, InsertAtDistinct DEF ListAddItemBefore
  <2>5. \A j \in 1 .. Len(ring') : ring'[j] \in alloc'
    BY <1>3, <2>4 DEF ListAddItemBefore, Loose, ListInv
  <2> QED BY <1>3, <2>2, <2>4, <2>5 DEF ListAddItemBefore, TypeOK, ListInv
<1>4. ASSUME NEW k \in 1 .. Len(ring), ListRemoveItemEx(k) \/ ListRemoveItem(k)
      PROVE  IInv'
  <2>0. /\ phase = "open" /\ list' = Unlink(list, ring[k]) /\ ring' = RemoveAt(ring, k)
        /\ alloc' = alloc \/ alloc' = alloc \ {ring[k]}
        /\ UNCHANGED <<data, phase, cur, stop>>
    BY <1>4 DEF ListRemoveItemEx, ListRemoveItem
  <2>1. list' \in Memories(Items) /\ Linked(list', ring')
    BY <1>0, <2>0, UnlinkLinks, NullAssumption DEF ListInv
  <2>2. /\ ring' \in Seq(Items) /\ Distinct(ring')
        /\ \A j \in 1 .. Len(ring') : ring'[j] # ring[k] /\ \E l \in 1 .. Len(ring) : ring'[j] = ring[l]
    BY <1>0, <2>0, RemoveAtDistinct
  <2>3. \A j \in 1 .. Len(ring') : ring'[j] \in alloc'
    BY <2>0, <2>2 DEF ListInv
  <2> QED BY <2>0, <2>1, <2>2, <2>3 DEF TypeOK, ListInv
<1>5. ASSUME NEW k \in 1 .. Len(ring), NEW j \in 1 .. (Len(ring) - 1), NEW upper \in BOOLEAN,
             MoveListRow(k, j, upper)
      PROVE  IInv'
  <2>1. Linked(list, ring) BY <1>5 DEF MoveListRow, ListInv
  <2>2. /\ list' \in Memories(Items) /\ Linked(list', ring')
        /\ ring' \in Seq(Items) /\ Distinct(ring')
        /\ \A l \in 1 .. Len(ring') : \E q \in 1 .. Len(ring) : ring'[l] = ring[q]
    <3>1. /\ k \in 1 .. Len(ring) /\ j \in 1 .. (Len(ring) - 1) /\ upper \in BOOLEAN
          /\ list \in Memories(Items) /\ ring \in Seq(Items) /\ Distinct(ring)
          /\ list' = MoveRow(list, ring[k], RemoveAt(ring, k)[j], upper)
          /\ ring' = Moved(ring, k, j, upper)
      BY <1>0, <1>5 DEF MoveListRow, ListInv, TypeOK
    <3> QED BY <2>1, <3>1, MoveRowLinks, SMTT(30)
  <2>3. \A l \in 1 .. Len(ring') : ring'[l] \in alloc'
    BY <1>5, <2>2 DEF MoveListRow, ListInv
  <2> QED BY <1>5, <2>2, <2>3 DEF MoveListRow, TypeOK, ListInv
<1>6. CASE FreeListBegin
  <2>1. TypeOK'
    BY <1>6, NullAssumption DEF FreeListBegin, TypeOK, Memories, Pointer
  <2>2. Linked(list, ring) BY <1>6 DEF FreeListBegin, ListInv
  <2>3. CASE ring = <<>>
    BY <1>6, <2>1, <2>2, <2>3 DEF FreeListBegin, ListInv, Linked
  <2>4. CASE ring # <<>>
    <3>1. Len(ring) >= 1 BY <2>4, <1>0, EmptySeq
    <3>2. list.last = ring[Len(ring)] /\ list.prev[ring[1]] = ring[Len(ring)] /\ Chained(list, ring)
      BY <2>2, <2>4 DEF Linked
    <3>3. list.last \in Items /\ list.last # NULL
      BY <1>0, <3>1, <3>2, NullAssumption
    <3>4. \A k \in 1 .. (Len(ring) - 1) : ring[k] # ring[Len(ring)]
      BY <1>0, <3>1 DEF Distinct
    <3>5. phase' = "freeing" /\ cur' = list.last /\ stop' = list.last /\ UNCHANGED <<list, data, alloc, ring>>
      BY <1>6, <3>3 DEF FreeListBegin
    <3>6. Draining' BY <2>4, <3>2, <3>3, <3>4, <3>5 DEF Draining, Chained
    <3> QED BY <2>1, <3>5, <3>6 DEF ListInv, Distinct
  <2> QED BY <2>3, <2>4
<1>7. CASE FreeListStep
  <2>0. /\ phase = "freeing" /\ Draining /\ cur' = list.prev[cur] /\ alloc' = alloc \ {cur}
        /\ phase' = (IF list.prev[cur] = stop THEN "closed" ELSE "freeing")
        /\ ring' = Front(ring) /\ UNCHANGED <<list, data, stop>>
    BY <1>7 DEF FreeListStep, ListInv
  <2>1. /\ ring # <<>> /\ Len(ring) >= 1 /\ cur = ring[Len(ring)] /\ cur \in Items
    BY <2>0, <1>0, EmptySeq DEF Draining
  <2>2. /\ ring' \in Seq(Items) /\ Len(ring') = Len(ring) - 1
        /\ \A k \in 1 .. (Len(ring) - 1) : ring'[k] = ring[k]
    BY <1>0, <2>0, <2>1, FrontProps
  <2>3. TypeOK'
    <3>1. list.prev[cur] \in Pointer BY <1>0, <2>1 DEF Memories, Pointer
    <3>2. CASE list.prev[cur] = stop BY <2>0, <2>2, <3>1, <3>2 DEF TypeOK
    <3>3. CASE list.prev[cur] # stop
      <4>1. Len(ring) = 1 \/ Len(ring) > 1
        <5>1. \A n \in Nat : n >= 1 => n = 1 \/ n > 1 OBVIOUS
        <5> QED BY <5>1, <2>1, <1>0, Zenon
      <4>2. Len(ring) > 1 BY <4>1, <2>0, <2>1, <3>3 DEF Draining
      <4>3. Len(ring) - 1 \in 1 .. (Len(ring) - 1) /\ (Len(ring) - 1) + 1 = Len(ring) BY <4>2, <1>0
      <4>4. list.prev[cur] = ring[Len(ring) - 1] BY <2>0, <2>1, <4>3 DEF Draining
      <4>5. list.prev[cur] \in Items BY <1>0, <4>3, <4>4
      <4> QED BY <2>0, <2>2, <3>1, <4>5 DEF TypeOK, Draining
    <3> QED BY <3>2, <3>3
  <2>4. Distinct(ring') BY <1>0, <2>1, <2>2 DEF Distinct
  <2>5. \A k \in 1 .. Len(ring') : ring'[k] \in alloc'
    <3> SUFFICES ASSUME NEW k \in 1 .. Len(ring') PROVE ring'[k] \in alloc' OBVIOUS
    <3>1. k \in 1 .. Len(ring) /\ k # Len(ring) /\ Len(ring) \in 1 .. Len(ring) /\ ring'[k] = ring[k]
      BY <1>0, <2>1, <2>2
    <3>2. ring[k] # ring[Len(ring)] BY <1>0, <3>1 DEF Distinct
    <3> QED BY <2>0, <2>1, <3>1, <3>2 DEF ListInv
  <2>6. CASE Len(ring) = 1
    <3>1. ring' = <<>> BY <2>2, <2>6, EmptySeq
    <3>2. phase' = "closed" BY <2>0, <2>1, <2>6 DEF Draining
    <3> QED BY <2>3, <2>4, <2>5, <3>1, <3>2 DEF ListInv
  <2>7. CASE Len(ring) > 1
    <3>1. Len(ring) - 1 \in 1 .. (Len(ring) - 1) /\ (Len(ring) - 1) + 1 = Len(ring) BY <2>7, <1>0
    <3>2. list.prev[cur] = ring[Len(ring) - 1] /\ ring[Len(ring) - 1] # stop
      BY <2>0, <2>1, <3>1 DEF Draining
    <3>3. phase' = "freeing" BY <2>0, <3>2
    <3>4. ring' # <<>> BY <2>2, <2>7, <1>0
    <3>5. cur' = ring'[Len(ring')] BY <2>0, <2>2, <3>1, <3>2
    <3>6. 1 \in 1 .. (Len(ring) - 1) /\ ring'[1] = ring[1] BY <2>2, <2>7, <1>0
    <3>7. ASSUME NEW k \in 1 .. (Len(ring') - 1)
          PROVE  list'.prev[ring'[k + 1]] = ring'[k] /\ ring'[k] # stop'
      <4>1. k \in 1 .. (Len(ring) - 1) /\ k + 1 \in 1 .. (Len(ring) - 1) BY <2>2, <2>7, <1>0
      <4> QED BY <4>1, <2>0, <2>2 DEF Draining
    <3>8. Draining' BY <2>0, <3>4, <3>5, <3>6, <3>7 DEF Draining
    <3> QED BY <2>3, <2>4, <2>5, <3>3, <3>8 DEF ListInv
  <2>8. Len(ring) = 1 \/ Len(ring) > 1
    <3>1. \A n \in Nat : n >= 1 => n = 1 \/ n > 1 OBVIOUS
    <3> QED BY <3>1, <2>1, <1>0, Zenon
  <2> QED BY <2>6, <2>7, <2>8
<1>8. CASE UNCHANGED vars
  BY <1>8 DEF vars, TypeOK, ListInv, Linked, Chained, Distinct, Draining
<1> QED
  BY <1>1, <1>2, <1>3, <1>4, <1>5, <1>6, <1>7, <1>8 DEF Next

(* Every pointer is an item block or NULL, whatever the order of calls. *)
THEOREM TypeCorrect == Spec => []TypeOK
<1>1. IInv => TypeOK BY DEF IInv
<1> QED BY <1>1, InitIInv, NextIInv, PTL DEF Spec

(* The links and the history agree for any number of items, no member is a *)
(* freed block, and FreeList frees each member once.                       *)
THEOREM ListIntegrity == Spec => []ListInv
<1>1. IInv => ListInv BY DEF IInv
<1> QED BY <1>1, InitIInv, NextIInv, PTL DEF Spec

-----------------------------------------------------------------------------
(* The history variable behaves like the list of module ItemSeq.  With     *)
(* what the walks return, this is the refinement for any number of items.  *)
History == INSTANCE ItemSeq WITH seq <- ring, open <- (phase = "open")

LEMMA MoveIsMove ==
    ASSUME NEW k \in 1 .. Len(ring), NEW j \in 1 .. (Len(ring) - 1), NEW upper \in BOOLEAN,
           ring \in Seq(Items), MoveListRow(k, j, upper)
    PROVE  History!Next
<1>0. Len(ring) \in Nat BY LenProperties
<1>1. Len(RemoveAt(ring, k)) = Len(ring) - 1 BY RemoveAtProps
<1>2. phase = "open" /\ phase' = phase /\ ring' = Moved(ring, k, j, upper)
  BY DEF MoveListRow
<1>3. CASE upper
  <2>1. ring' = InsertAt(RemoveAt(ring, k), j, ring[k]) BY <1>2, <1>3 DEF Moved
  <2>2. History!MoveBefore(k, j) BY <1>2, <2>1 DEF History!MoveBefore, InsertAt, RemoveAt, History!InsertAt, History!RemoveAt
  <2> QED BY <2>2 DEF History!Next
<1>4. CASE ~ upper /\ j = Len(ring) - 1
  <2>1. ring' = Append(RemoveAt(ring, k), ring[k]) BY <1>1, <1>2, <1>4 DEF Moved
  <2>2. History!MoveToEnd(k) BY <1>2, <2>1 DEF History!MoveToEnd, RemoveAt, History!RemoveAt
  <2> QED BY <2>2 DEF History!Next
<1>5. CASE ~ upper /\ j # Len(ring) - 1
  <2>1. ring' = InsertAt(RemoveAt(ring, k), j + 1, ring[k]) BY <1>1, <1>2, <1>5 DEF Moved
  <2>2. j + 1 \in 1 .. (Len(ring) - 1) BY <1>0, <1>5
  <2>3. History!MoveBefore(k, j + 1) BY <1>2, <2>1 DEF History!MoveBefore, InsertAt, RemoveAt, History!InsertAt, History!RemoveAt
  <2> QED BY <2>2, <2>3 DEF History!Next
<1> QED BY <1>3, <1>4, <1>5

LEMMA StepIsStep == IInv /\ [Next]_vars => [History!Next]_(History!vars)
<1> SUFFICES ASSUME IInv, [Next]_vars PROVE [History!Next]_(History!vars) OBVIOUS
<1>0. ring \in Seq(Items) BY DEF IInv, TypeOK
<1>1. ASSUME NEW i \in Items, NEW d \in Values, NewListItem(i, d)
      PROVE  UNCHANGED History!vars
  BY <1>1 DEF NewListItem, History!vars
<1>2. ASSUME NEW i \in Items, ListAddItem(i)
      PROVE  History!Next
  <2>1. History!AddLast(i) BY <1>2 DEF ListAddItem, Loose, History!AddLast, History!Member
  <2> QED BY <2>1 DEF History!Next
<1>3. ASSUME NEW i \in Items, NEW k \in 1 .. Len(ring), ListAddItemBefore(i, k)
      PROVE  History!Next
  <2>1. History!AddBefore(i, k)
    BY <1>3 DEF ListAddItemBefore, Loose, History!AddBefore, History!Member, InsertAt, History!InsertAt
  <2> QED BY <2>1 DEF History!Next
<1>4. ASSUME NEW k \in 1 .. Len(ring), ListRemoveItemEx(k) \/ ListRemoveItem(k)
      PROVE  History!Next
  <2>1. History!TakeOut(k) BY <1>4 DEF ListRemoveItemEx, ListRemoveItem, History!TakeOut, RemoveAt, History!RemoveAt
  <2> QED BY <2>1 DEF History!Next
<1>5. CASE FreeListBegin
  BY <1>5 DEF FreeListBegin, History!Next, History!Close
<1>6. CASE FreeListStep
  <2>1. ring # <<>> BY <1>6 DEF FreeListStep, IInv, ListInv, Draining
  <2>2. History!Drop BY <1>6, <2>1 DEF FreeListStep, History!Drop, Front, History!Front
  <2> QED BY <2>2 DEF History!Next
<1>7. CASE UNCHANGED vars BY <1>7 DEF vars, History!vars
<1> QED
  BY <1>0, <1>1, <1>2, <1>3, <1>4, <1>5, <1>6, <1>7, MoveIsMove DEF Next

(* The list implements the sequence of distinct items, step by step. *)
THEOREM HistoryIsItemSeq == Spec => History!Spec
<1>1. Init => History!Init BY DEF Init, History!Init
<1> QED BY <1>1, InitIInv, NextIInv, StepIsStep, PTL DEF Spec, History!Spec
-----------------------------------------------------------------------------
(* What the walks return.  A list that is Linked to its history has fewer  *)
(* members than the walks have turns, so each of them ends by itself.      *)
LEMMA Bound == IInv => /\ Cardinality(Items) \in Nat /\ Len(ring) \in Nat
                       /\ Len(ring) + 1 <= WalkBound /\ WalkBound \in Nat
                       /\ WalkBound < Word /\ Word \in Nat
<1> SUFFICES ASSUME IInv PROVE /\ Cardinality(Items) \in Nat /\ Len(ring) \in Nat
                               /\ Len(ring) + 1 <= WalkBound /\ WalkBound \in Nat
                               /\ WalkBound < Word /\ Word \in Nat
  OBVIOUS
<1>1. ring \in Seq(Items) /\ Distinct(ring) BY DEF IInv, TypeOK, ListInv
<1>2. Len(ring) <= Cardinality(Items) /\ Cardinality(Items) \in Nat /\ Len(ring) \in Nat
  BY <1>1, DistinctFits, WordAssumption
<1> QED BY <1>2, WordAssumption DEF WalkBound

(* Forward from Last->Next. *)
LEMMA ForwardWalk ==
    IInv /\ phase = "open" => WalkLen = Len(ring) /\ \A k \in 1 .. Len(ring) : Walk[k] = ring[k]
<1> SUFFICES ASSUME IInv, phase = "open"
             PROVE  WalkLen = Len(ring) /\ \A k \in 1 .. Len(ring) : Walk[k] = ring[k]
  OBVIOUS
<1> DEFINE L == Len(ring)
<1>0. /\ list \in Memories(Items) /\ ring \in Seq(Items) /\ Distinct(ring) /\ Linked(list, ring)
      /\ L \in Nat /\ L + 1 <= WalkBound /\ WalkBound \in Nat
  BY Bound DEF IInv, TypeOK, ListInv
<1>1. CASE ring = <<>>
  <2>1. list.last = NULL /\ L = 0 BY <1>0, <1>1, EmptySeq DEF Linked
  <2> QED BY <2>1 DEF WalkLen
<1>2. CASE ring # <<>>
  <2>1. /\ L \in 1 .. WalkBound /\ L + 1 \in 1 .. WalkBound
        /\ list.last = ring[L] /\ list.next[ring[L]] = ring[1] /\ Chained(list, ring)
    BY <1>0, <1>2, EmptySeq DEF Linked
  <2>2. list.last # NULL
    <3>1. ring[L] \in Items BY <2>1, <1>0, ElementOfSeq
    <3> QED BY <3>1, <2>1, NullAssumption
  <2> DEFINE s == [k \in 1 .. (L + 1) |-> IF k = L + 1 THEN ring[1] ELSE ring[k]]
  <2>3. /\ s[1] = ring[1] /\ s[L + 1] = ring[1] /\ \A k \in 1 .. L : s[k] = ring[k]
    BY <2>1
  <2>4. \A j \in 1 .. ((L + 1) - 1) : list.next[s[j]] = s[j + 1]
    <3> SUFFICES ASSUME NEW j \in 1 .. L PROVE list.next[s[j]] = s[j + 1] BY <2>1
    <3>1. CASE j = L BY <3>1, <2>1, <2>3
    <3>2. CASE j # L
      <4>1. j \in 1 .. (L - 1) /\ j + 1 \in 1 .. L BY <3>2, <2>1
      <4> QED BY <4>1, <2>1, <2>3 DEF Chained
    <3> QED BY <3>1, <3>2
  <2> HIDE DEF s
  <2>5. \A j \in 1 .. (L + 1) : Walk[j] = s[j]
    <3>1. LeadThrough(list.next[list.last], list.next, s, L + 1)
      BY <2>1, <2>3, <2>4 DEF LeadThrough
    <3>2. Meets(Walk, s, L + 1) BY <3>1, <2>1, <1>0, WalkMeets DEF Walk
    <3> QED BY <3>2 DEF Meets
  <2>6. Walk[L + 1] = Walk[1] /\ \A k \in 1 .. L : Walk[k] = ring[k]
    BY <2>1, <2>3, <2>5
  <2>7. \A k \in 2 .. L : Walk[k] # Walk[1]
    BY <2>1, <2>6, <1>0 DEF Distinct
  <2>8. (CHOOSE n \in 1 .. WalkBound : /\ n = WalkBound \/ Walk[n + 1] = Walk[1]
                                       /\ \A k \in 2 .. n : Walk[k] # Walk[1]) = L
    BY <2>1, <2>6, <2>7, <1>0, WalkEnds
  <2> QED BY <2>2, <2>6, <2>8 DEF WalkLen
<1> QED BY <1>1, <1>2

(* Backward from Last. *)
LEMMA BackwardWalk ==
    IInv /\ phase = "open" => \A k \in 1 .. Len(ring) : BackWalk[k] = ring[Len(ring) + 1 - k]
<1> SUFFICES ASSUME IInv, phase = "open", ring # <<>>
             PROVE  \A k \in 1 .. Len(ring) : BackWalk[k] = ring[Len(ring) + 1 - k]
  <2>1. ring = <<>> => Len(ring) = 0 OBVIOUS
  <2> QED BY <2>1
<1> DEFINE L == Len(ring)
           s == [k \in 1 .. L |-> ring[L + 1 - k]]
<1>1. L \in Nat /\ L \in 1 .. L /\ list.last = ring[L] /\ Chained(list, ring) /\ WalkLen = L
  BY Bound, ForwardWalk, EmptySeq DEF IInv, TypeOK, ListInv, Linked
<1>2. list.last = s[1] BY <1>1
<1>3. \A j \in 1 .. (L - 1) : list.prev[s[j]] = s[j + 1]
  <2> SUFFICES ASSUME NEW j \in 1 .. (L - 1) PROVE list.prev[s[j]] = s[j + 1] OBVIOUS
  <2>1. s[j] = ring[(L - j) + 1] /\ s[j + 1] = ring[L - j] /\ L - j \in 1 .. (L - 1) BY <1>1
  <2> QED BY <2>1, <1>1 DEF Chained
<1> HIDE DEF s
<1>4. \A j \in 1 .. L : BackWalk[j] = s[j]
  <2>1. LeadThrough(list.last, list.prev, s, L) BY <1>2, <1>3 DEF LeadThrough
  <2>2. Meets(BackWalk, s, L) BY <2>1, <1>1, WalkMeets DEF BackWalk
  <2> QED BY <2>2 DEF Meets
<1> QED BY <1>4 DEF s

(* What FreeList will still free. *)
LEMMA DrainingWalk ==
    IInv /\ phase = "freeing" =>
        DrainLen = Len(ring) /\ \A k \in 1 .. Len(ring) : DrainWalk[k] = ring[Len(ring) + 1 - k]
<1> SUFFICES ASSUME IInv, phase = "freeing"
             PROVE  DrainLen = Len(ring) /\ \A k \in 1 .. Len(ring) : DrainWalk[k] = ring[Len(ring) + 1 - k]
  OBVIOUS
<1> DEFINE L == Len(ring)
           s == [k \in 1 .. (L + 1) |-> IF k = L + 1 THEN stop ELSE ring[L + 1 - k]]
<1>0. Draining /\ ring \in Seq(Items) BY DEF IInv, TypeOK, ListInv
<1>1. /\ L \in 1 .. WalkBound /\ L + 1 \in 1 .. WalkBound /\ WalkBound \in Nat
      /\ cur = ring[L] /\ list.prev[ring[1]] = stop
  BY <1>0, Bound, EmptySeq DEF Draining
<1>2. cur = s[1] /\ s[L + 1] = stop /\ \A k \in 1 .. L : s[k] = ring[L + 1 - k] BY <1>1
<1>3. \A j \in 1 .. ((L + 1) - 1) : list.prev[s[j]] = s[j + 1]
  <2>0. (L + 1) - 1 = L BY <1>1
  <2> SUFFICES ASSUME NEW j \in 1 .. L PROVE list.prev[s[j]] = s[j + 1]
    <3> HIDE DEF L
    <3> QED BY <2>0
  <2>1. CASE j = L BY <2>1, <1>1
  <2>2. CASE j # L
    <3>1. s[j] = ring[(L - j) + 1] /\ s[j + 1] = ring[L - j] /\ L - j \in 1 .. (L - 1) BY <2>2, <1>1
    <3> QED BY <3>1, <1>0 DEF Draining
  <2> QED BY <2>1, <2>2
<1> HIDE DEF s
<1>4. \A j \in 1 .. (L + 1) : DrainWalk[j] = s[j]
  <2>1. LeadThrough(cur, list.prev, s, L + 1) BY <1>2, <1>3 DEF LeadThrough
  <2>2. Meets(DrainWalk, s, L + 1) BY <2>1, <1>1, WalkMeets DEF DrainWalk
  <2> QED BY <2>2 DEF Meets
<1>5. \A k \in 2 .. L : DrainWalk[k] # stop
  <2> SUFFICES ASSUME NEW k \in 2 .. L PROVE DrainWalk[k] # stop OBVIOUS
  <2>1. DrainWalk[k] = ring[L + 1 - k] /\ L + 1 - k \in 1 .. (L - 1) BY <1>1, <1>2, <1>4
  <2> QED BY <2>1, <1>0 DEF Draining
<1>6. DrainWalk[L + 1] = stop BY <1>1, <1>2, <1>4
<1>7. DrainLen = L BY <1>1, <1>5, <1>6, WalkEnds DEF DrainLen
<1> QED BY <1>1, <1>2, <1>4, <1>7

(* Counting down from an index, unsigned, reaches zero at that member.     *)
LEMMA CountDown ==
    ASSUME NEW W \in Nat, NEW L \in Nat, L + 1 < W, NEW k \in 1 .. L
    PROVE  /\ \A i \in 0 .. L : (i + W - k) % W = 0 <=> i = k
           /\ ((W - 1) + W - k) % W # 0
<1>1. ASSUME NEW i \in 0 .. L PROVE (i + W - k) % W = 0 <=> i = k
  <2>1. CASE i >= k
    <3>1. i - k \in 0 .. (W - 1) /\ i + W - k = (i - k) + W BY <2>1
    <3>2. ((i - k) + W) % W = i - k BY <3>1
    <3> QED BY <3>1, <3>2
  <2>2. CASE i < k
    <3>1. i + W - k \in 1 .. (W - 1) BY <2>2
    <3>2. (i + W - k) % W = i + W - k BY <3>1
    <3> QED BY <3>1, <3>2, <2>2
  <2> QED BY <2>1, <2>2
<1>2. (W - 1) - k \in 1 .. (W - 1) /\ (W - 1) + W - k = ((W - 1) - k) + W OBVIOUS
<1>3. (((W - 1) - k) + W) % W = (W - 1) - k BY <1>2
<1> QED BY <1>1, <1>2, <1>3

(* Every walk of an open list, for any number of items. *)
LEMMA WalksReturn == IInv => WalksAgree
<1> SUFFICES ASSUME IInv, phase = "open"
             PROVE  /\ WalkLen = Len(ring)
                    /\ \A k \in 1 .. Len(ring) :
                          Walk[k] = ring[k] /\ BackWalk[k] = ring[Len(ring) + 1 - k] /\ ListAtItem(k) = ring[k]
                    /\ \A d \in Values : ListAtItem(ListFoundIndex(d)) = ListFoundItem(d)
  BY DEF WalksAgree
<1> DEFINE L == Len(ring)
           found(index) == {k \in 1 .. WalkLen : (index + Word - k) % Word = 0}
<1>1. WalkLen = L /\ \A k \in 1 .. L : Walk[k] = ring[k] BY ForwardWalk
<1>2. L \in Nat /\ L + 1 < Word /\ Word \in Nat BY Bound
<1>3. \A k \in 1 .. L : \A i \in 0 .. L : (i + Word - k) % Word = 0 <=> i = k
  BY <1>2, CountDown
<1>4. \A k \in 1 .. L : ((Word - 1) + Word - k) % Word # 0
  BY <1>2, CountDown
<1>5. ASSUME NEW i \in 1 .. L PROVE ListAtItem(i) = ring[i]
  <2>1. found(i) = {i} BY <1>1, <1>3, <1>5
  <2>2. (CHOOSE k \in found(i) : TRUE) = i BY <2>1
  <2> QED BY <2>1, <2>2, <1>1 DEF ListAtItem
<1>6. ListAtItem(0) = NULL
  <2>1. 0 \in 0 .. L BY <1>2
  <2>2. found(0) = {} BY <1>1, <1>3, <2>1
  <2> QED BY <2>2 DEF ListAtItem
<1>7. ListAtItem(Word - 1) = NULL
  <2>1. \A k \in 1 .. WalkLen : ((Word - 1) + Word - k) % Word # 0 BY <1>1, <1>4
  <2>2. found(Word - 1) = {} BY <2>1
  <2> QED BY <2>2 DEF ListAtItem
<1>8. ASSUME NEW d \in Values PROVE ListAtItem(ListFoundIndex(d)) = ListFoundItem(d)
  <2>1. CASE Hits(d) = {}
    BY <2>1, <1>6, <1>7 DEF ListFoundIndex, ListFoundItem
  <2>2. CASE Hits(d) # {}
    <3>1. Hits(d) \subseteq 1 .. L BY <1>1 DEF Hits
    <3>2. list.last # NULL
      <4>1. WalkLen # 0 BY <2>2, <3>1, <1>1
      <4> QED BY <4>1 DEF WalkLen
    <3>3. \E k \in Hits(d) : \A j \in Hits(d) : k <= j
      <4>1. Hits(d) \subseteq Nat BY <3>1
      <4>2. IsWellFoundedOn(OpToRel(<, Nat), Nat) BY NatLessThanWellFounded
      <4>3. PICK k \in Hits(d) : \A j \in Hits(d) : ~ (<<j, k>> \in OpToRel(<, Nat))
        BY <4>1, <4>2, <2>2, WFMin, Zenon
      <4>4. \A j \in Hits(d) : ~ (j < k) BY <4>1, <4>3 DEF OpToRel
      <4> QED BY <4>1, <4>4
    <3>4. FirstHit(d) \in Hits(d) BY <3>3, Zenon DEF FirstHit
    <3>5. ListFoundIndex(d) = FirstHit(d) /\ FirstHit(d) \in 1 .. L
      BY <2>2, <3>1, <3>2, <3>4 DEF ListFoundIndex
    <3>6. ListFoundItem(d) = Walk[FirstHit(d)] BY <2>2 DEF ListFoundItem
    <3> QED BY <3>5, <3>6, <1>1, <1>5
  <2> QED BY <2>1, <2>2
<1> QED BY <1>1, <1>5, <1>8, BackwardWalk

(* The searches of list.c and the walks that callers write by hand meet    *)
(* every member once and in order, and the indices they return lead back   *)
(* to what they found, for any number of items up to what an unsigned long *)
(* can count.                                                              *)
THEOREM WalksMeetAll == Spec => []WalksAgree
<1> QED BY WalksReturn, InitIInv, NextIInv, PTL DEF Spec

-----------------------------------------------------------------------------
(* What a program sees of the list by walking it is the history.           *)
LEMMA ContentsIsRing == IInv => Contents = ring
<1> SUFFICES ASSUME IInv PROVE Contents = ring OBVIOUS
<1>0. ring \in Seq(Items) /\ Len(ring) \in Nat /\ ring = [k \in 1 .. Len(ring) |-> ring[k]]
  BY LenProperties DEF IInv, TypeOK
<1>1. CASE phase = "open"
  BY <1>0, <1>1, ForwardWalk DEF Contents
<1>2. CASE phase = "freeing"
  <2>1. /\ DrainLen = Len(ring)
        /\ \A k \in 1 .. Len(ring) : DrainWalk[k] = ring[Len(ring) + 1 - k]
    BY <1>2, DrainingWalk
  <2>2. \A k \in 1 .. Len(ring) : DrainWalk[DrainLen + 1 - k] = ring[k]
    <3> SUFFICES ASSUME NEW k \in 1 .. Len(ring) PROVE DrainWalk[DrainLen + 1 - k] = ring[k]
      OBVIOUS
    <3>1. Len(ring) + 1 - k \in 1 .. Len(ring) /\ Len(ring) + 1 - (Len(ring) + 1 - k) = k BY <1>0
    <3> QED BY <3>1, <2>1
  <2> QED BY <1>0, <1>2, <2>1, <2>2 DEF Contents
<1>3. CASE phase = "closed"
  BY <1>3 DEF Contents, IInv, ListInv
<1>4. phase \in {"open", "freeing", "closed"} BY DEF IInv, TypeOK
<1> QED BY <1>1, <1>2, <1>3, <1>4, Zenon

(* A step of the history is that step of what is seen.                     *)
LEMMA SeenStep ==
    ASSUME Contents = ring, Contents' = ring', [History!Next]_(History!vars)
    PROVE  [AsSequence!Next]_(AsSequence!vars)
BY ZenonT(60) DEF History!Next, History!vars, History!AddLast, History!AddBefore, History!TakeOut,
       History!MoveToEnd, History!MoveBefore, History!Close, History!Drop, History!Member,
       History!InsertAt, History!RemoveAt, History!Front,
       AsSequence!Next, AsSequence!vars, AsSequence!AddLast, AsSequence!AddBefore, AsSequence!TakeOut,
       AsSequence!MoveToEnd, AsSequence!MoveBefore, AsSequence!Close, AsSequence!Drop,
       AsSequence!Member, AsSequence!InsertAt, AsSequence!RemoveAt, AsSequence!Front

(* The linked list, seen through the walks alone, implements the sequence  *)
(* of module ItemSeq for any number of items.                              *)
THEOREM ListImplementsSequence == Spec => ImplementsSequence
<1>1. IInv => Contents = ring BY ContentsIsRing
<1>2. Init => AsSequence!Init
  <2>1. Init => IInv BY InitIInv
  <2> QED BY <1>1, <2>1 DEF Init, AsSequence!Init
<1>3. IInv /\ IInv' /\ [Next]_vars => [AsSequence!Next]_(AsSequence!vars)
  <2>1. IInv' => (Contents = ring)' BY <1>1, PTL
  <2> QED BY <1>1, <2>1, StepIsStep, SeenStep
<1> QED BY <1>2, <1>3, InitIInv, NextIInv, PTL DEF Spec, ImplementsSequence, AsSequence!Spec

-----------------------------------------------------------------------------
(* ListOrderByData, module ListSort: it sorts lists of any length, with    *)
(* any comparator that ranks its items, and loses nothing.                 *)
SortIInv == SortTypeOK /\ IsRearranged /\ Settled

(* A list of at most MaxItems items is a function on 1 .. Len. *)
LEMMA RowLen ==
    ASSUME NEW s \in Rows
    PROVE  /\ Len(s) \in 0 .. MaxItems
           /\ s \in [1 .. Len(s) -> Payloads]
           /\ s \in Seq(Payloads)
<1>1. PICK n \in 0 .. MaxItems : s \in [1 .. n -> Payloads]
  BY DEF Rows
<1>2. n \in Nat BY SortAssumption
<1>3. s \in Seq(Payloads)
  BY <1>1, <1>2, SeqDef
<1>4. Len(s) = n
  BY <1>1, <1>2, <1>3, LenProperties
<1> QED BY <1>1, <1>3, <1>4

(* Exchanging two positions keeps the length and the set of positions. *)
LEMMA ExchangeRow ==
    ASSUME NEW s \in Rows, NEW i \in 1 .. Len(s), NEW j \in 1 .. Len(s)
    PROVE  /\ Exchange(s, i, j) \in Rows
           /\ Len(Exchange(s, i, j)) = Len(s)
           /\ \A k \in 1 .. Len(s) :
                 Exchange(s, i, j)[k] = IF k = j THEN s[i] ELSE IF k = i THEN s[j] ELSE s[k]
<1> DEFINE t == Exchange(s, i, j)
           n == Len(s)
<1>1. n \in 0 .. MaxItems /\ s \in [1 .. n -> Payloads] /\ n \in Nat
  BY RowLen, SortAssumption
<1>2. t = [[s EXCEPT ![i] = s[j]] EXCEPT ![j] = s[i]]
  BY DEF Exchange
<1> HIDE DEF n, t
<1>3. i \in 1 .. n /\ j \in 1 .. n BY DEF n
<1>4. /\ t \in [1 .. n -> Payloads]
      /\ \A k \in 1 .. n : t[k] = IF k = j THEN s[i] ELSE IF k = i THEN s[j] ELSE s[k]
  BY <1>1, <1>2, <1>3
<1>5. t \in Rows
  BY <1>1, <1>4 DEF Rows
<1>6. t \in Seq(Payloads)
  BY <1>5, RowLen
<1>7. Len(t) = n
  BY <1>1, <1>4, <1>6, LenProperties
<1> QED BY <1>4, <1>5, <1>7 DEF n, t

LEMMA InitSorted == SortInit => SortIInv
<1> SUFFICES ASSUME SortInit PROVE SortIInv OBVIOUS
<1>1. Len(row) \in Nat /\ row \in Rows
  BY RowLen, SortAssumption DEF SortInit
<1>2. SortTypeOK BY <1>1 DEF SortInit, SortTypeOK
<1>3. IsRearranged BY <1>1 DEF SortInit, IsRearranged
<1>4. Settled BY <1>1 DEF SortInit, Settled
<1> QED BY <1>2, <1>3, <1>4 DEF SortIInv

LEMMA NextSorted == SortIInv /\ [SortNext]_sortVars => SortIInv'
<1> SUFFICES ASSUME SortIInv, [SortNext]_sortVars PROVE SortIInv' OBVIOUS
<1> USE DEF SortIInv
<1>0. /\ row \in Rows /\ Len(row) \in Nat /\ a \in 1 .. Len(row) + 1 /\ b \in 1 .. Len(row) + 1
      /\ row \in [1 .. Len(row) -> Payloads]
  BY RowLen, SortAssumption DEF SortTypeOK
<1>1. CASE Call
  <2>1. SortTypeOK' BY <1>0, <1>1 DEF Call, SortTypeOK, Settled
  <2>2. IsRearranged' BY <1>1 DEF Call, IsRearranged
  <2>3. Settled' BY <1>0, <1>1 DEF Call, Settled
  <2> QED BY <2>1, <2>2, <2>3
<1>2. CASE Compare
  <2>0. /\ pc = "inner" /\ a' = a /\ row0' = row0 /\ b' = b + 1
        /\ pc' = (IF b = Len(row) THEN "outer" ELSE "inner")
        /\ a \in 1 .. Len(row) /\ b \in 1 .. Len(row) /\ a <= b
    <3>1. /\ pc = "inner" /\ a' = a /\ row0' = row0 /\ b' = b + 1
          /\ pc' = (IF b = Len(row) THEN "outer" ELSE "inner")
      BY <1>2 DEF Compare
    <3>2. a <= Len(row) /\ b <= Len(row) BY <3>1 DEF SortTypeOK
    <3>3. a <= b BY <3>1 DEF Settled
    <3> DEFINE n == Len(row)
    <3>4. a \in 1 .. n + 1 /\ b \in 1 .. n + 1 /\ n \in Nat /\ a <= n /\ b <= n BY <1>0, <3>2
    <3> HIDE DEF n
    <3>5. a \in 1 .. n /\ b \in 1 .. n BY <3>4
    <3> QED BY <3>1, <3>3, <3>5 DEF n
  <2>1. /\ row' \in Rows /\ Len(row') = Len(row)
        /\ \A k \in 1 .. Len(row) :
              row'[k] = IF OutOfOrder(row, a, b)
                        THEN IF k = b THEN row[a] ELSE IF k = a THEN row[b] ELSE row[k]
                        ELSE row[k]
    <3>1. CASE OutOfOrder(row, a, b)
      <4>1. row' = Exchange(row, a, b) BY <3>1, <1>2 DEF Compare
      <4>2. /\ Exchange(row, a, b) \in Rows
            /\ Len(Exchange(row, a, b)) = Len(row)
            /\ \A k \in 1 .. Len(row) :
                  Exchange(row, a, b)[k] = IF k = b THEN row[a] ELSE IF k = a THEN row[b] ELSE row[k]
        <5>1. row \in Rows /\ a \in 1 .. Len(row) /\ b \in 1 .. Len(row) BY <2>0, <1>0
        <5> QED BY <5>1, ExchangeRow
      <4> QED BY <3>1, <4>1, <4>2
    <3>2. CASE ~ OutOfOrder(row, a, b)
      <4>1. row' = row BY <3>2, <1>2 DEF Compare
      <4> QED BY <3>2, <4>1, <1>0
    <3> QED BY <3>1, <3>2
  <2>2. SortTypeOK' BY <2>0, <2>1, <1>0 DEF SortTypeOK
  <2>3. IsRearranged'
    <3>1. CASE OutOfOrder(row, a, b)
      <4>1. perm' = [[perm EXCEPT ![a] = perm[b]] EXCEPT ![b] = perm[a]]
        BY <3>1, <1>2 DEF Compare, Exchange
      <4>2. /\ perm' \in [1 .. Len(row) -> 1 .. Len(row)]
            /\ \A k \in 1 .. Len(row) :
                  perm'[k] = IF k = b THEN perm[a] ELSE IF k = a THEN perm[b] ELSE perm[k]
        BY <4>1, <2>0 DEF IsRearranged
      <4>3. \A i, j \in 1 .. Len(row) : perm'[i] = perm'[j] => i = j
        BY <4>2, <2>0 DEF IsRearranged
      <4>4. \A i \in 1 .. Len(row) : row'[i] = row0[perm'[i]]
        BY <4>2, <3>1, <2>0, <2>1 DEF IsRearranged
      <4> QED BY <4>2, <4>3, <4>4, <2>0, <2>1 DEF IsRearranged
    <3>2. CASE ~ OutOfOrder(row, a, b)
      BY <3>2, <1>2, <2>0 DEF Compare, IsRearranged
    <3> QED BY <3>1, <3>2
  <2>4. Settled'
    <3>0. \A k \in 1 .. Len(row) : row[k] \in Payloads /\ Rank[row[k]] \in Nat
      BY <1>0, SortAssumption
    <3>1. InOrder(row'[a], row'[b])
      BY <2>0, <2>1, <3>0 DEF OutOfOrder, Greater, InOrder
    <3>2. \A j \in 1 .. Len(row) : a < j /\ j < b => InOrder(row'[a], row'[j])
      <4> SUFFICES ASSUME NEW j \in 1 .. Len(row), a < j, j < b PROVE InOrder(row'[a], row'[j])
        OBVIOUS
      <4>1. InOrder(row[a], row[j]) BY <2>0 DEF Settled
      <4>2. row'[j] = row[j] BY <2>0, <2>1, <1>0
      <4>3. CASE OutOfOrder(row, a, b)
        <5>1. row'[a] = row[b] BY <4>3, <2>0, <2>1, <1>0
        <5>2. Rank[row[b]] <= Rank[row[a]] /\ row[a] \notin NoData
          BY <4>3, <2>0, <3>0 DEF OutOfOrder, Greater
        <5> QED BY <4>1, <4>2, <5>1, <5>2, <2>0, <3>0 DEF InOrder
      <4>4. CASE ~ OutOfOrder(row, a, b)
        BY <4>1, <4>2, <4>4, <2>0, <2>1
      <4> QED BY <4>3, <4>4
    <3>3. \A i, j \in 1 .. Len(row) : i < a /\ i < j => InOrder(row'[i], row'[j])
      <4> SUFFICES ASSUME NEW i \in 1 .. Len(row), NEW j \in 1 .. Len(row), i < a, i < j
                   PROVE  InOrder(row'[i], row'[j])
        OBVIOUS
      <4>1. row'[i] = row[i] BY <2>0, <2>1, <1>0
      <4>2. InOrder(row[i], row[j]) /\ InOrder(row[i], row[a]) /\ InOrder(row[i], row[b])
        <5>1. i < b BY <2>0
        <5> QED BY <5>1, <2>0 DEF Settled
      <4>3. row'[j] = row[j] \/ row'[j] = row[a] \/ row'[j] = row[b] BY <2>1
      <4> QED BY <4>1, <4>2, <4>3
    <3>4. \A j \in 1 .. Len(row') :
             (pc' \in {"inner", "outer"} /\ a' < j /\ (j < b' \/ pc' = "outer")) => InOrder(row'[a'], row'[j])
      <4> SUFFICES ASSUME NEW j \in 1 .. Len(row), a < j, j < b + 1 \/ pc' = "outer"
                   PROVE  InOrder(row'[a], row'[j])
        BY <2>0, <2>1
      <4>1. j < b \/ j = b
        <5>1. CASE b = Len(row) BY <5>1, <1>0
        <5>2. CASE b # Len(row) BY <5>2, <2>0
        <5> QED BY <5>1, <5>2
      <4> QED BY <4>1, <3>1, <3>2
    <3> QED BY <2>0, <2>1, <3>3, <3>4, <1>0 DEF Settled
  <2> QED BY <2>2, <2>3, <2>4
<1>3. CASE Advance
  <2>0. /\ pc = "outer" /\ a' = a + 1 /\ b' = a + 1
        /\ pc' = (IF a = Len(row) THEN "done" ELSE "inner")
        /\ UNCHANGED <<row, row0, perm>> /\ a \in 1 .. Len(row)
    BY <1>0, <1>3 DEF Advance, SortTypeOK
  <2>1. SortTypeOK' BY <1>0, <2>0 DEF SortTypeOK
  <2>2. IsRearranged' BY <2>0 DEF IsRearranged
  <2>3. \A i, j \in 1 .. Len(row) : i < a + 1 /\ i < j => InOrder(row[i], row[j])
    <3> SUFFICES ASSUME NEW i \in 1 .. Len(row), NEW j \in 1 .. Len(row), i < a + 1, i < j
                 PROVE  InOrder(row[i], row[j])
      OBVIOUS
    <3>1. i < a \/ i = a BY <1>0
    <3> QED BY <3>1, <2>0 DEF Settled
  <2>4. Settled'
    <3>1. \A j \in 1 .. Len(row) : ~ (a + 1 < j /\ j < a + 1) BY <1>0
    <3>2. CASE a = Len(row)
      <4>1. pc' = "done" /\ a' = Len(row') + 1 BY <3>2, <2>0
      <4> QED BY <4>1, <2>0, <2>3 DEF Settled
    <3>3. CASE a # Len(row)
      <4>1. pc' = "inner" /\ a' <= b' BY <3>3, <2>0
      <4> QED BY <4>1, <2>0, <2>3, <3>1 DEF Settled
    <3> QED BY <3>2, <3>3
  <2> QED BY <2>1, <2>2, <2>4
<1>4. CASE UNCHANGED sortVars
  BY <1>4 DEF sortVars, SortTypeOK, IsRearranged, Settled
<1> QED BY <1>1, <1>2, <1>3, <1>4 DEF SortNext

(* Whatever ranks the comparator sorts by, the list is in order when       *)
(* ListOrderByData returns.                                                *)
THEOREM Sorts == SortSpec => []SortedAtReturn
<1>1. SortIInv => SortedAtReturn
  <2> SUFFICES ASSUME SortIInv, pc = "done", NEW i \in 1 .. Len(row), NEW j \in 1 .. Len(row), i < j
               PROVE  InOrder(row[i], row[j])
    BY DEF SortedAtReturn, Ordered
  <2>1. Len(row) \in Nat BY RowLen, SortAssumption DEF SortIInv, SortTypeOK
  <2>2. i < a BY <2>1 DEF SortIInv, Settled
  <2> QED BY <2>2 DEF SortIInv, Settled
<1> QED BY <1>1, InitSorted, NextSorted, PTL DEF SortSpec

(* Nothing is lost or doubled, at any moment of the sort. *)
THEOREM Rearranges == SortSpec => []IsRearranged
<1>1. SortIInv => IsRearranged BY DEF SortIInv
<1> QED BY <1>1, InitSorted, NextSorted, PTL DEF SortSpec

(* The loops' positions stay within the ring. *)
THEOREM SortTypeCorrect == SortSpec => []SortTypeOK
<1>1. SortIInv => SortTypeOK BY DEF SortIInv
<1> QED BY <1>1, InitSorted, NextSorted, PTL DEF SortSpec
=============================================================================
