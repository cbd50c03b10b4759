-------------------------- MODULE WidgetEventsProofs -------------------------
(***************************************************************************)
(* Proofs about WidgetTree and WidgetEvents, for any number of widgets and *)
(* applications, any depth of calls, and any order in which handlers       *)
(* insert, dispose, select and focus.                                      *)
(***************************************************************************)
EXTENDS WidgetEvents, ListLinksProofs

-----------------------------------------------------------------------------
(* The tree.  Shape is what every operation on it relies on; out are the   *)
(* widgets that were taken out of their rings and are not freed yet.       *)
HasRing(S, o) == RingOn(Ring(S, o), Children(S, o), Widgets)

Rooted(S, out) ==
    /\ DeskTop \in S.live /\ S.parent[DeskTop] = NULL
    /\ \A w \in S.live \ {DeskTop} : w \notin out => S.parent[w] \in S.live
    /\ \A w \in out : S.parent[w] = NULL

(* No more than three levels. *)
Levels(S) ==
    \A w \in S.live : S.parent[w] # NULL => S.parent[S.parent[w]] \in {NULL, DeskTop}

NothingLeft(S) ==
    /\ \A w \in Widgets \ S.live : S.parent[w] = NULL /\ S.last[w] = NULL
    /\ S.fresh \cap S.live = {}

Shape(S, out) ==
    /\ Rooted(S, out) /\ Levels(S) /\ NothingLeft(S)
    /\ \A o \in S.live : HasRing(S, o)

(* The references that are kept, and the one flag. *)
Refs(S) ==
    /\ S.top \in S.live \cup {NULL}
    /\ S.master \in S.live \cup {NULL}
    /\ S.focused \in S.live \cup {NULL}
    /\ S.focusFlag = {S.focused} \ {NULL}

(* All but the tree, who is selected, and bad. *)
SameWidgets(S, R) ==
    /\ R.live = S.live /\ R.fresh = S.fresh
    /\ R.top = S.top /\ R.master = S.master /\ R.focused = S.focused
    /\ R.focusFlag = S.focusFlag

(* What disposal does to the references: they are kept as long as their    *)
(* widget is.                                                              *)
Shrinks(S, R) ==
    /\ R.live \subseteq S.live
    /\ R.top = IF S.top \in R.live THEN S.top ELSE NULL
    /\ R.master = IF S.master \in R.live THEN S.master ELSE NULL
    /\ R.focused = IF S.focused \in R.live THEN S.focused ELSE NULL
    /\ R.focusFlag = S.focusFlag \cap R.live

LEMMA Fields ==
    ASSUME NEW S \in Systems
    PROVE  /\ S.live \subseteq Widgets /\ S.fresh \subseteq Widgets
           /\ S.parent \in [Widgets -> Pointers] /\ S.last \in [Widgets -> Pointers]
           /\ S.next \in [Widgets -> Pointers] /\ S.prev \in [Widgets -> Pointers]
           /\ S.selected \subseteq Windows /\ S.focusFlag \subseteq Widgets
           /\ S.top \in Pointers /\ S.master \in Pointers /\ S.focused \in Pointers
           /\ S.dragging \in BOOLEAN /\ S.caller \in Pointers /\ S.bad \in {"none", "freed", "null"}
BY DEF Systems

LEMMA RingType ==
    ASSUME NEW S \in Systems, NEW o \in Widgets
    PROVE  /\ Ring(S, o) \in Memories(Widgets)
           /\ Ring(S, o).last = S.last[o] /\ Ring(S, o).next = S.next /\ Ring(S, o).prev = S.prev
BY Fields DEF Ring, Memories, Pointers

(* R is S with the ring of o replaced by m, and the parents by f.          *)
RingPut(S, R, o, m, f) ==
    /\ R \in Systems /\ SameWidgets(S, R)
    /\ R.last = [S.last EXCEPT ![o] = m.last] /\ R.next = m.next /\ R.prev = m.prev
    /\ R.parent = f /\ R.selected = S.selected /\ R.bad = S.bad
    /\ Ring(R, o) = m

LEMMA WithRingIs ==
    ASSUME NEW S \in Systems, NEW o \in Widgets, NEW m \in Memories(Widgets),
           NEW f \in [Widgets -> Pointers]
    PROVE  RingPut(S, [WithRing(S, o, m) EXCEPT !.parent = f], o, m, f)
<1> DEFINE R == [WithRing(S, o, m) EXCEPT !.parent = f]
<1>1. m.last \in Pointers /\ m.next \in [Widgets -> Pointers] /\ m.prev \in [Widgets -> Pointers]
  BY DEF Memories, Pointers
<1>2. [S.last EXCEPT ![o] = m.last] \in [Widgets -> Pointers] BY <1>1, Fields
<1>3. R = [S EXCEPT !.last = [S.last EXCEPT ![o] = m.last], !.next = m.next, !.prev = m.prev, !.parent = f]
  BY DEF WithRing
<1> HIDE DEF R
<1>4. /\ R \in Systems /\ SameWidgets(S, R)
      /\ R.last = [S.last EXCEPT ![o] = m.last] /\ R.next = m.next /\ R.prev = m.prev
      /\ R.parent = f /\ R.selected = S.selected /\ R.bad = S.bad
  BY <1>1, <1>2, <1>3 DEF Systems, SameWidgets
<1>5. Ring(R, o) = m BY <1>4, Fields DEF Ring, Memories
<1>6. RingPut(S, R, o, m, f) BY <1>4, <1>5 DEF RingPut
<1> QED BY <1>6 DEF R

LEMMA RemoveWidgetExIs ==
    ASSUME NEW S \in Systems, NEW o \in Widgets, NEW i \in Widgets,
           Unlink(Ring(S, o), i) \in Memories(Widgets)
    PROVE  RingPut(S, RemoveWidgetEx(S, o, i), o, Unlink(Ring(S, o), i), [S.parent EXCEPT ![i] = NULL])
<1> DEFINE m == Unlink(Ring(S, o), i)
           f == [S.parent EXCEPT ![i] = NULL]
           R == RemoveWidgetEx(S, o, i)
<1>1. f \in [Widgets -> Pointers] BY Fields DEF Pointers
<1>2. R = [WithRing(S, o, m) EXCEPT !.parent = f] BY DEF RemoveWidgetEx, WithRing
<1>3. m \in Memories(Widgets) OBVIOUS
<1> HIDE DEF m, f, R
<1>4. RingPut(S, R, o, m, f) BY <1>1, <1>2, <1>3, WithRingIs
<1> QED BY <1>4 DEF m, f, R

LEMMA InsertBeforeIs ==
    ASSUME NEW S \in Systems, NEW o \in Widgets, NEW i \in Widgets, NEW b,
           LinkBefore(Ring(S, o), i, b) \in Memories(Widgets)
    PROVE  RingPut(S, _WidgetInsertBefore(S, o, i, b), o, LinkBefore(Ring(S, o), i, b),
                   [S.parent EXCEPT ![i] = o])
<1> DEFINE m == LinkBefore(Ring(S, o), i, b)
           f == [S.parent EXCEPT ![i] = o]
           R == _WidgetInsertBefore(S, o, i, b)
<1>1. f \in [Widgets -> Pointers] BY Fields DEF Pointers
<1>2. R = [WithRing(S, o, m) EXCEPT !.parent = f] BY DEF _WidgetInsertBefore, WithRing
<1>3. m \in Memories(Widgets) OBVIOUS
<1> HIDE DEF m, f, R
<1>4. RingPut(S, R, o, m, f) BY <1>1, <1>2, <1>3, WithRingIs
<1> QED BY <1>4 DEF m, f, R

(* The rings of others stay as they are. *)
LEMMA OtherRings ==
    ASSUME NEW S \in Systems, NEW R \in Systems, NEW q \in Widgets, HasRing(S, q),
           R.last[q] = S.last[q], \A j \in Children(S, q) : R.next[j] = S.next[j] /\ R.prev[j] = S.prev[j],
           Children(R, q) = Children(S, q)
    PROVE  HasRing(R, q)
<1>1. Ring(R, q).last = Ring(S, q).last /\ \A j \in Children(S, q) : SameAt(Ring(S, q), Ring(R, q), j)
  BY RingType DEF SameAt
<1> QED BY <1>1, RingFrame DEF HasRing

LEMMA SameShape ==
    ASSUME NEW S, NEW R, NEW out, Shape(S, out), R.live = S.live, R.fresh = S.fresh,
           R.parent = S.parent, R.last = S.last, R.next = S.next, R.prev = S.prev
    PROVE  Shape(R, out)
<1>1. \A q : Ring(R, q) = Ring(S, q) /\ Children(R, q) = Children(S, q) BY DEF Ring, Children
<1>2. Rooted(R, out) BY DEF Shape, Rooted
<1>3. Levels(R) BY DEF Shape, Levels
<1>4. NothingLeft(R) BY DEF Shape, NothingLeft
<1>5. \A q \in R.live : HasRing(R, q) BY <1>1 DEF Shape, HasRing
<1> QED BY <1>2, <1>3, <1>4, <1>5 DEF Shape

-----------------------------------------------------------------------------
(* To the front, for a child o of p: there it is, or it is the only child. *)
(* Nothing else of the tree changes.                                       *)
LEMMA SetFirstEx ==
    ASSUME NEW S \in Systems, NEW out, Shape(S, out), NEW p \in S.live, NEW o \in Children(S, p),
           S.bad = "none"
    PROVE  LET R == _WidgetSetFirstEx(S, p, o)
           IN  /\ R \in Systems /\ SameWidgets(S, R)
               /\ R.bad = "null" \/ (R.bad = "none" /\ R.parent = S.parent /\ Shape(R, out))
<1> DEFINE C == Children(S, p)
           A == RemoveWidgetEx(S, p, o)
           m1 == Unlink(Ring(S, p), o)
           R == _WidgetSetFirstEx(S, p, o)
<1>0. /\ p \in Widgets /\ o \in Widgets /\ o \in S.live /\ S.parent[o] = p /\ NULL \notin Widgets
      /\ Ring(S, p) \in Memories(Widgets) /\ RingOn(Ring(S, p), C, Widgets)
  BY Fields, RingType, WidgetAssumption DEF Children, Shape, HasRing
<1> HIDE DEF C
<1>a. o \in C BY DEF C
<1>1. /\ m1 \in Memories(Widgets) /\ RingOn(m1, C \ {o}, Widgets)
      /\ \A j \in Widgets \ C : SameAt(Ring(S, p), m1, j)
  BY <1>0, <1>a, RingUnlink
<1>2. RingPut(S, A, p, m1, [S.parent EXCEPT ![o] = NULL])
  BY <1>0, <1>1, RemoveWidgetExIs
<1> HIDE DEF A, m1
<1>3. A \in Systems /\ SameWidgets(S, A) /\ Ring(A, p) = m1 /\ A.last[p] = m1.last /\ A.next = m1.next
  BY <1>0, <1>2, Fields DEF RingPut
<1>4. CASE A.last[p] = NULL
  <2>1. R = [A EXCEPT !.bad = "null"] BY <1>4 DEF _WidgetSetFirstEx, A
  <2> QED BY <2>1, <1>3 DEF Systems, SameWidgets
<1>5. CASE A.last[p] # NULL
  <2> DEFINE b == A.next[A.last[p]]
             m2 == LinkBefore(m1, o, b)
  <2>1. R = _WidgetInsertBefore(A, p, o, b) BY <1>5 DEF _WidgetSetFirstEx, A
  <2>2. b = IF m1.last = NULL THEN NULL ELSE m1.next[m1.last] BY <1>3, <1>5
  <2>3. o \in Widgets \ (C \ {o}) /\ (C \ {o}) \cup {o} = C BY <1>0, <1>a
  <2> HIDE DEF R, b
  <2>4. /\ m2 \in Memories(Widgets) /\ RingOn(m2, (C \ {o}) \cup {o}, Widgets)
        /\ \A j \in Widgets \ ((C \ {o}) \cup {o}) : SameAt(m1, m2, j)
    BY <1>0, <1>1, <2>2, <2>3, RingInFront
  <2>5. /\ m2 \in Memories(Widgets) /\ RingOn(m2, C, Widgets)
        /\ \A j \in Widgets \ C : SameAt(m1, m2, j)
    BY <2>3, <2>4
  <2>6. RingPut(A, R, p, m2, [A.parent EXCEPT ![o] = p])
    BY <2>1, <2>4, <1>0, <1>3, InsertBeforeIs
  <2> HIDE DEF m2
  <2>7. /\ R \in Systems /\ SameWidgets(S, R) /\ R.bad = "none" /\ Ring(R, p) = m2
        /\ R.next = m2.next /\ R.prev = m2.prev
    BY <1>2, <1>3, <2>6 DEF RingPut, SameWidgets
  <2>8. R.parent = S.parent
    BY <1>0, <1>2, <2>6, Fields DEF RingPut
  <2>9. \A q \in Widgets \ {p} : R.last[q] = S.last[q]
    <3>1. A.last = [S.last EXCEPT ![p] = m1.last] /\ R.last = [A.last EXCEPT ![p] = m2.last]
      BY <1>2, <2>6 DEF RingPut
    <3>2. S.last \in [Widgets -> Pointers] /\ A.last \in [Widgets -> Pointers] BY <1>3, Fields
    <3> QED BY <3>1, <3>2, <1>0
  <2>10. \A q : Children(R, q) = Children(S, q) BY <2>7, <2>8 DEF Children, SameWidgets
  <2>11. ASSUME NEW j \in Widgets \ C PROVE R.next[j] = S.next[j] /\ R.prev[j] = S.prev[j]
    <3>1. SameAt(Ring(S, p), m1, j) /\ SameAt(m1, m2, j) BY <1>1, <2>5
    <3>2. Ring(S, p).next = S.next /\ Ring(S, p).prev = S.prev BY <1>0, RingType
    <3> QED BY <3>1, <3>2, <2>7 DEF SameAt
  <2>12. ASSUME NEW q \in S.live PROVE HasRing(R, q)
    <3>1. CASE q = p BY <3>1, <2>5, <2>7, <2>10 DEF HasRing, C
    <3>2. CASE q # p
      <4>1. q \in Widgets /\ HasRing(S, q) BY Fields DEF Shape
      <4>2. \A j \in Children(S, q) : j \in Widgets \ C BY <3>2, Fields DEF Children, C
      <4> QED BY <3>2, <4>1, <4>2, <2>7, <2>9, <2>10, <2>11, OtherRings
    <3> QED BY <3>1, <3>2
  <2>13. Shape(R, out)
    <3>1. R.live = S.live /\ R.fresh = S.fresh BY <2>7 DEF SameWidgets
    <3>2. Rooted(R, out)
      <4>1. Rooted(S, out) BY DEF Shape
      <4> QED BY <4>1, <2>8, <3>1, Zenon DEF Rooted
    <3>3. Levels(R) BY <2>8, <3>1 DEF Shape, Levels
    <3>4. NothingLeft(R) BY <2>8, <2>9, <3>1 DEF Shape, NothingLeft
    <3> QED BY <2>12, <3>1, <3>2, <3>3, <3>4 DEF Shape
  <2> QED BY <2>7, <2>8, <2>13 DEF R
<1> QED BY <1>4, <1>5

(* Selecting one widget of the path. *)
LEMMA SelectOneKeeps ==
    ASSUME NEW S \in Systems, NEW out, Shape(S, out), NEW o \in S.live, S.bad = "none"
    PROVE  LET R == SelectOne(S, o)
           IN  /\ R \in Systems /\ SameWidgets(S, R)
               /\ R.bad = "null" \/ (R.bad = "none" /\ R.parent = S.parent /\ Shape(R, out))
<1> DEFINE p == S.parent[o]
           S1 == [S EXCEPT !.selected = @ \cup {o}]
           A == IF o \in Windows /\ o \notin S.selected
                THEN _WidgetSetFirstEx(S1, p, o) ELSE S
           R == SelectOne(S, o)
<1>1. CASE p = NULL
  <2>1. R = S BY <1>1 DEF SelectOne
  <2> QED BY <2>1 DEF SameWidgets
<1>2. CASE p # NULL
  <2>1. o \in Widgets /\ p \in S.live /\ o \in Children(S, p)
    BY <1>2, Fields DEF Shape, Rooted, Children
  <2>2. R = [A EXCEPT !.selected = @ \ (Children(S, p) \ {o})]
    BY <1>2 DEF SelectOne
  <2>3. /\ A \in Systems /\ SameWidgets(S, A)
        /\ A.bad = "null" \/ (A.bad = "none" /\ A.parent = S.parent /\ Shape(A, out))
    <3>1. CASE ~ (o \in Windows /\ o \notin S.selected)
      <4>1. A = S BY <3>1
      <4> HIDE DEF A
      <4> QED BY <4>1 DEF SameWidgets
    <3>2. CASE o \in Windows /\ o \notin S.selected
      <4>1. S1 \in Systems /\ S1.bad = "none" /\ SameWidgets(S, S1) /\ S1.parent = S.parent
            /\ S1.last = S.last /\ S1.next = S.next /\ S1.prev = S.prev
        BY <3>2 DEF Systems, SameWidgets
      <4> HIDE DEF S1
      <4>2. Children(S1, p) = Children(S, p) /\ \A q : Ring(S1, q) = Ring(S, q) /\ Children(S1, q) = Children(S, q)
        BY <4>1 DEF Children, SameWidgets, Ring
      <4>3. Shape(S1, out)
        BY <4>1, SameShape DEF SameWidgets
      <4>4. p \in S1.live /\ o \in Children(S1, p) BY <4>1, <4>2, <2>1 DEF SameWidgets
      <4> DEFINE B == _WidgetSetFirstEx(S1, p, o)
      <4> HIDE DEF p
      <4>5. /\ B \in Systems /\ SameWidgets(S1, B)
            /\ B.bad = "null" \/ (B.bad = "none" /\ B.parent = S1.parent /\ Shape(B, out))
        BY <4>1, <4>3, <4>4, SetFirstEx
      <4>6. A = B BY <3>2 DEF p
      <4> HIDE DEF A, B
      <4> QED BY <4>1, <4>5, <4>6 DEF SameWidgets
    <3> QED BY <3>1, <3>2
  <2> HIDE DEF A, R
  <2>4. /\ R \in Systems /\ SameWidgets(A, R) /\ R.bad = A.bad /\ R.parent = A.parent
        /\ R.last = A.last /\ R.next = A.next /\ R.prev = A.prev
    BY <2>2, <2>3 DEF Systems, SameWidgets
  <2>6. Shape(A, out) => Shape(R, out)
    BY <2>4, SameShape DEF SameWidgets
  <2>7. SameWidgets(S, R) BY <2>3, <2>4 DEF SameWidgets
  <2> QED BY <2>3, <2>4, <2>6, <2>7 DEF R
<1> QED BY <1>1, <1>2

LEMMA WidgetSelectKeeps ==
    ASSUME NEW S \in Systems, NEW out, Shape(S, out), NEW o \in S.live, S.bad = "none"
    PROVE  LET R == WidgetSelect(S, o)
           IN  /\ R \in Systems /\ SameWidgets(S, R)
               /\ R.bad = "null" \/ (R.bad = "none" /\ R.parent = S.parent /\ Shape(R, out))
<1> DEFINE p == S.parent[o]
           A == SelectOne(S, o)
           B == SelectOne(A, p)
           R == WidgetSelect(S, o)
<1>1. R = IF p = NULL THEN A ELSE B BY DEF WidgetSelect
<1>2. /\ A \in Systems /\ SameWidgets(S, A)
      /\ A.bad = "null" \/ (A.bad = "none" /\ A.parent = S.parent /\ Shape(A, out))
  BY SelectOneKeeps
<1> HIDE DEF A, R
<1>3. CASE p = NULL BY <1>1, <1>2, <1>3 DEF R
<1>4. CASE p # NULL /\ A.bad = "null"
  <2>1. B = A BY <1>4 DEF SelectOne
  <2> QED BY <1>1, <1>2, <1>4, <2>1 DEF R
<1>5. CASE p # NULL /\ A.bad # "null"
  <2>1. p \in A.live BY <1>2, <1>5, Fields DEF Shape, Rooted, SameWidgets
  <2> HIDE DEF p
  <2>2. /\ B \in Systems /\ SameWidgets(A, B)
        /\ B.bad = "null" \/ (B.bad = "none" /\ B.parent = A.parent /\ Shape(B, out))
    BY <1>2, <1>5, <2>1, SelectOneKeeps
  <2> HIDE DEF B
  <2>3. SameWidgets(S, B) BY <1>2, <2>2 DEF SameWidgets
  <2> QED BY <1>1, <1>2, <1>5, <2>2, <2>3 DEF R
<1> QED BY <1>3, <1>4, <1>5

-----------------------------------------------------------------------------
(* The walk over the children of o returns its ring. *)
LEMMA KidsAre ==
    ASSUME NEW S \in Systems, NEW o \in Widgets, HasRing(S, o)
    PROVE  /\ Kids(S, o) \in Seq(Widgets) /\ Distinct(Kids(S, o))
           /\ Range(Kids(S, o)) = Children(S, o) /\ Linked(Ring(S, o), Kids(S, o))
<1> DEFINE m == Ring(S, o)
<1>1. m.last = S.last[o] /\ m.next = S.next BY RingType
<1>2. Kids(S, o) = WalkAlong(m.next[m.last], m.next, Cardinality(Children(S, o)))
  BY <1>1 DEF Kids
<1> HIDE DEF m
<1>3. RingOn(m, Children(S, o), Widgets) BY DEF HasRing, m
<1>4. NULL \notin Widgets BY WidgetAssumption
<1> QED BY <1>2, <1>3, <1>4, RingWalk DEF m

LEMMA FirstInIs ==
    ASSUME NEW U, NEW s \in Seq(U), NEW T, FirstIn(s, T) # NULL
    PROVE  \E k \in 1 .. Len(s) : s[k] \in T /\ FirstIn(s, T) = s[k]
<1> DEFINE hits == {k \in DOMAIN s : s[k] \in T}
<1>1. DOMAIN s = 1 .. Len(s) /\ Len(s) \in Nat BY LenProperties
<1>2. hits # {} /\ FirstIn(s, T) = s[Min(hits)] BY DEF FirstIn
<1>3. hits \subseteq Nat BY <1>1
<1>4. PICK k \in hits : \A j \in hits : k <= j
  <2>1. IsWellFoundedOn(OpToRel(<, Nat), Nat) BY NatLessThanWellFounded
  <2> HIDE DEF hits
  <2>2. PICK k \in hits : \A j \in hits : ~ (<<j, k>> \in OpToRel(<, Nat))
    BY <1>2, <1>3, <2>1, WFMin, Zenon
  <2>3. \A j \in hits : ~ (j < k) BY <1>3, <2>2 DEF OpToRel
  <2>4. \A j \in hits : k <= j BY <1>3, <2>3
  <2> QED BY <2>4
<1> HIDE DEF hits
<1>5. Min(hits) \in hits BY <1>4, Zenon DEF Min
<1> QED BY <1>1, <1>2, <1>5 DEF hits

(* Taken out of its parent: another window may have been selected and have *)
(* come to the front.                                                      *)
LEMMA WidgetRemoveKeeps ==
    ASSUME NEW S \in Systems, Shape(S, {}), NEW i \in S.live, i # DeskTop, S.bad = "none"
    PROVE  LET R == _WidgetRemove(S, S.parent[i], i)
           IN  /\ R \in Systems /\ SameWidgets(S, R)
               /\ \/ R.bad = "null"
                  \/ R.bad = "none" /\ R.parent = [S.parent EXCEPT ![i] = NULL] /\ Shape(R, {i})
<1> DEFINE o == S.parent[i]
           C == Children(S, o)
           m1 == Unlink(Ring(S, o), i)
           A == RemoveWidgetEx(S, o, i)
           w == FirstIn(Kids(A, o), Windows)
           R == _WidgetRemove(S, o, i)
<1>0. /\ o \in S.live /\ o \in Widgets /\ i \in Widgets /\ i \in C /\ NULL \notin Widgets /\ o # NULL
      /\ Ring(S, o) \in Memories(Widgets) /\ RingOn(Ring(S, o), C, Widgets)
      /\ S.live \subseteq Widgets
  <2>1. o \in S.live /\ i \in Widgets /\ S.live \subseteq Widgets /\ NULL \notin Widgets
    BY Fields, WidgetAssumption DEF Shape, Rooted
  <2>2. i \in C BY DEF Children
  <2>3. HasRing(S, o) BY <2>1 DEF Shape
  <2> QED BY <2>1, <2>2, <2>3, RingType DEF HasRing
<1>1. R = IF i \in S.selected /\ w # NULL THEN WidgetSelect(A, w) ELSE A
  BY DEF _WidgetRemove
<1> HIDE DEF C
<1>2. /\ m1 \in Memories(Widgets) /\ RingOn(m1, C \ {i}, Widgets)
      /\ \A j \in Widgets \ C : SameAt(Ring(S, o), m1, j)
  BY <1>0, RingUnlink
<1>3. RingPut(S, A, o, m1, [S.parent EXCEPT ![i] = NULL])
  BY <1>0, <1>2, RemoveWidgetExIs
<1> HIDE DEF A, m1, w, R
<1>4. /\ A \in Systems /\ SameWidgets(S, A) /\ Ring(A, o) = m1 /\ A.next = m1.next /\ A.prev = m1.prev
      /\ A.bad = "none" /\ A.parent = [S.parent EXCEPT ![i] = NULL]
      /\ A.last = [S.last EXCEPT ![o] = m1.last]
  BY <1>3 DEF RingPut
<1>5. /\ A.parent[i] = NULL /\ \A q \in Widgets \ {i} : A.parent[q] = S.parent[q]
      /\ \A q \in Widgets \ {o} : A.last[q] = S.last[q]
      /\ A.live = S.live /\ A.fresh = S.fresh
  BY <1>0, <1>4, Fields DEF SameWidgets
<1>6. Children(A, o) = C \ {i} /\ \A q \in Widgets \ {o} : Children(A, q) = Children(S, q)
  <2>1. Children(A, o) = C \ {i} BY <1>0, <1>5 DEF Children, C
  <2>2. ASSUME NEW q \in Widgets \ {o} PROVE Children(A, q) = Children(S, q)
    BY <1>0, <1>5 DEF Children
  <2> QED BY <2>1, <2>2
<1>7. ASSUME NEW q \in S.live PROVE HasRing(A, q)
  <2>1. CASE q = o BY <2>1, <1>2, <1>4, <1>6 DEF HasRing
  <2>2. CASE q # o
    <3>1. q \in Widgets \ {o} /\ HasRing(S, q) BY <1>0, <2>2 DEF Shape
    <3>2. ASSUME NEW j \in Children(S, q) PROVE A.next[j] = S.next[j] /\ A.prev[j] = S.prev[j]
      <4>1. j \in Widgets \ C BY <1>0, <2>2 DEF Children, C
      <4>2. SameAt(Ring(S, o), m1, j) BY <4>1, <1>2
      <4>3. Ring(S, o).next = S.next /\ Ring(S, o).prev = S.prev BY <1>0, RingType
      <4> QED BY <4>2, <4>3, <1>4 DEF SameAt
    <3>3. A.last[q] = S.last[q] /\ Children(A, q) = Children(S, q) BY <3>1, <1>5, <1>6
    <3> QED BY <3>1, <3>2, <3>3, <1>4, OtherRings
  <2> QED BY <2>1, <2>2
<1>8. Shape(A, {i})
  <2>1. Rooted(S, {}) /\ Levels(S) /\ NothingLeft(S) BY DEF Shape
  <2>2. Rooted(A, {i}) BY <2>1, <1>0, <1>5 DEF Rooted
  <2>3. Levels(A)
    <3> SUFFICES ASSUME NEW v \in S.live, A.parent[v] # NULL
                 PROVE  A.parent[A.parent[v]] \in {NULL, DeskTop}
      BY <1>5 DEF Levels
    <3>1. v # i /\ v \in Widgets /\ A.parent[v] = S.parent[v] BY <1>0, <1>5
    <3>2. S.parent[S.parent[v]] \in {NULL, DeskTop} BY <3>1, <2>1 DEF Levels
    <3>3. S.parent[v] \in Widgets
      BY <3>1, <1>0, Fields DEF Pointers
    <3> QED BY <3>1, <3>2, <3>3, <1>5
  <2>4. NothingLeft(A) BY <2>1, <1>0, <1>5 DEF NothingLeft
  <2> QED BY <2>2, <2>3, <2>4, <1>5, <1>7 DEF Shape
<1>9. CASE ~ (i \in S.selected /\ w # NULL)
  <2>1. R = A BY <1>1, <1>9
  <2> QED BY <2>1, <1>4, <1>8 DEF R, o
<1>10. CASE i \in S.selected /\ w # NULL
  <2>1. R = WidgetSelect(A, w) BY <1>1, <1>10
  <2>2. w \in A.live
    <3>1. Kids(A, o) \in Seq(Widgets) /\ Range(Kids(A, o)) = Children(A, o)
      BY <1>0, <1>4, <1>7, KidsAre
    <3>2. PICK k \in 1 .. Len(Kids(A, o)) : w = Kids(A, o)[k]
      BY <1>10, <3>1, FirstInIs DEF w
    <3>3. w \in Children(A, o) BY <3>1, <3>2, RangeIs
    <3> QED BY <3>3 DEF Children
  <2>3. /\ R \in Systems /\ SameWidgets(A, R)
        /\ R.bad = "null" \/ (R.bad = "none" /\ R.parent = A.parent /\ Shape(R, {i}))
    BY <2>1, <2>2, <1>4, <1>8, WidgetSelectKeeps
  <2>4. SameWidgets(S, R) BY <2>3, <1>4 DEF SameWidgets
  <2> QED BY <2>3, <2>4, <1>4 DEF R, o
<1> QED BY <1>9, <1>10

(* What is freed with a widget that was taken out. *)
LEMMA WidgetDisposeExKeeps ==
    ASSUME NEW S \in Systems, NEW i \in S.live, i # DeskTop, Shape(S, {i}), Refs(S), S.bad = "none"
    PROVE  LET R == WidgetDisposeEx(S, i)
           IN  R \in Systems /\ R.bad = "none" /\ Shape(R, {}) /\ Shrinks(S, R) /\ R.fresh = S.fresh
<1> DEFINE gone == {w \in S.live : w = i \/ S.parent[w] = i}
           kept(p) == IF p \in gone THEN NULL ELSE p
           without(f) == [w \in Widgets |-> IF w \in gone THEN NULL ELSE f[w]]
           R == WidgetDisposeEx(S, i)
<1>0. i \in Widgets /\ gone \subseteq Widgets /\ gone \subseteq S.live /\ S.live \subseteq Widgets
      /\ S.parent[i] = NULL /\ NULL \notin Widgets
  BY Fields, WidgetAssumption DEF Shape, Rooted
<1>1. R = [S EXCEPT !.live = S.live \ gone, !.selected = S.selected \ gone,
                    !.focusFlag = S.focusFlag \ gone,
                    !.parent = without(S.parent), !.last = without(S.last),
                    !.next = without(S.next), !.prev = without(S.prev),
                    !.top = kept(S.top), !.master = kept(S.master), !.focused = kept(S.focused)]
  BY DEF WidgetDisposeEx, Cleared
<1>2. /\ without(S.parent) \in [Widgets -> Pointers] /\ without(S.last) \in [Widgets -> Pointers]
      /\ without(S.next) \in [Widgets -> Pointers] /\ without(S.prev) \in [Widgets -> Pointers]
  BY Fields DEF Pointers
<1>3. kept(S.top) \in Pointers /\ kept(S.master) \in Pointers /\ kept(S.focused) \in Pointers
  BY Fields DEF Pointers
<1> HIDE DEF R
<1>4. /\ R \in Systems /\ R.bad = "none" /\ R.fresh = S.fresh /\ R.live = S.live \ gone
      /\ R.parent = without(S.parent) /\ R.last = without(S.last)
      /\ R.next = without(S.next) /\ R.prev = without(S.prev)
      /\ R.focusFlag = S.focusFlag \ gone
      /\ R.top = kept(S.top) /\ R.master = kept(S.master) /\ R.focused = kept(S.focused)
  <2> HIDE DEF gone, kept, without
  <2> QED BY <1>0, <1>1, <1>2, <1>3 DEF Systems
<1>5. Shrinks(S, R)
  <2> HIDE DEF gone
  <2> QED BY <1>0, <1>4 DEF Shrinks, Refs
<1>6. /\ \A w \in gone : R.parent[w] = NULL /\ R.last[w] = NULL
      /\ \A w \in Widgets \ gone : /\ R.parent[w] = S.parent[w] /\ R.last[w] = S.last[w]
                                   /\ R.next[w] = S.next[w] /\ R.prev[w] = S.prev[w]
  <2>1. ASSUME NEW f PROVE \A w \in Widgets : without(f)[w] = IF w \in gone THEN NULL ELSE f[w]
    <3> HIDE DEF gone
    <3> QED OBVIOUS
  <2> HIDE DEF gone, without, kept
  <2> QED BY <1>0, <1>4, <2>1
<1>7. ASSUME NEW w \in R.live PROVE w \in S.live /\ w \notin gone /\ w # i /\ S.parent[w] # i
                                    /\ R.parent[w] = S.parent[w]
  BY <1>0, <1>4, <1>6
<1>8. Rooted(S, {i}) /\ Levels(S) /\ NothingLeft(S) BY DEF Shape
<1>9. ASSUME NEW w \in R.live, w # DeskTop PROVE S.parent[w] \in R.live
  <2>1. S.parent[w] \in S.live BY <1>7, <1>8, <1>9 DEF Rooted
  <2>2. S.parent[w] # i BY <1>7
  <2>3. S.parent[S.parent[w]] # i
    <3>1. S.parent[w] # NULL BY <2>1, <1>0
    <3>2. S.parent[S.parent[w]] \in {NULL, DeskTop} BY <3>1, <1>7, <1>8 DEF Levels
    <3> QED BY <3>2, <1>0
  <2> QED BY <2>1, <2>2, <2>3, <1>4
<1>10. Rooted(R, {})
  <2>1. DeskTop \in R.live /\ R.parent[DeskTop] = NULL
    <3>1. DeskTop \in S.live /\ S.parent[DeskTop] = NULL BY <1>8 DEF Rooted
    <3>2. DeskTop \in R.live BY <3>1, <1>0, <1>4
    <3> QED BY <3>1, <3>2, <1>7
  <2> QED BY <2>1, <1>7, <1>9 DEF Rooted
<1>11. Levels(R)
  <2> SUFFICES ASSUME NEW w \in R.live, R.parent[w] # NULL
               PROVE  R.parent[R.parent[w]] \in {NULL, DeskTop}
    BY DEF Levels
  <2>1. R.parent[w] = S.parent[w] /\ w \in S.live BY <1>7
  <2>2. S.parent[S.parent[w]] \in {NULL, DeskTop} BY <2>1, <1>8 DEF Levels
  <2>3. w # DeskTop BY <2>1, <1>8 DEF Rooted
  <2>4. R.parent[S.parent[w]] = S.parent[S.parent[w]] BY <2>3, <1>7, <1>9
  <2> QED BY <2>1, <2>2, <2>4
<1>12. NothingLeft(R)
  <2>1. \A w \in Widgets \ R.live : R.parent[w] = NULL /\ R.last[w] = NULL
    <3> SUFFICES ASSUME NEW w \in Widgets, w \notin R.live PROVE R.parent[w] = NULL /\ R.last[w] = NULL
      OBVIOUS
    <3>1. CASE w \in gone BY <3>1, <1>6
    <3>2. CASE w \notin gone
      <4>1. w \notin S.live
        <5> HIDE DEF gone
        <5> QED BY <3>2, <1>4
      <4>2. S.parent[w] = NULL /\ S.last[w] = NULL BY <4>1, <1>8 DEF NothingLeft
      <4>3. w \in Widgets \ gone BY <3>2
      <4> HIDE DEF gone
      <4> QED BY <4>2, <4>3, <1>6
    <3> QED BY <3>1, <3>2
  <2>2. R.fresh \cap R.live = {}
    <3> HIDE DEF gone
    <3> QED BY <1>4, <1>8 DEF NothingLeft
  <2> QED BY <2>1, <2>2 DEF NothingLeft
<1>13. ASSUME NEW q \in R.live PROVE HasRing(R, q)
  <2>1. q \in S.live /\ q \in Widgets /\ HasRing(S, q) /\ q \notin gone BY <1>7, <1>0 DEF Shape
  <2>2. \A j \in Children(S, q) : j \in S.live /\ S.parent[j] = q /\ j \notin gone
    BY <1>0, <1>7, <2>1 DEF Children
  <2>3. Children(R, q) = Children(S, q)
    <3>1. ASSUME NEW j \in Children(S, q) PROVE j \in Children(R, q)
      <4>1. j \in R.live
        <5> HIDE DEF gone
        <5> QED BY <2>2, <1>4
      <4> QED BY <4>1, <2>2, <1>7 DEF Children
    <3>2. ASSUME NEW j \in Children(R, q) PROVE j \in Children(S, q)
      BY <1>7 DEF Children
    <3> QED BY <3>1, <3>2
  <2>4. \A j \in Children(S, q) : R.next[j] = S.next[j] /\ R.prev[j] = S.prev[j]
    <3> HIDE DEF gone
    <3> QED BY <2>2, <1>0, <1>6
  <2>5. R.last[q] = S.last[q]
    <3> HIDE DEF gone
    <3> QED BY <2>1, <1>6
  <2> QED BY <2>1, <2>3, <2>4, <2>5, <1>4, OtherRings
<1>14. Shape(R, {}) BY <1>10, <1>11, <1>12, <1>13 DEF Shape
<1> QED BY <1>4, <1>5, <1>14 DEF R

-----------------------------------------------------------------------------
(* Disposal.  R is what a disposal may make of S. *)
Disposed(S, R) ==
    /\ R \in Systems /\ Shrinks(S, R)
    /\ R.bad = "none" => Shape(R, {}) /\ Refs(R)

LEMMA ShrinksSame ==
    ASSUME NEW S \in Systems, NEW R \in Systems, SameWidgets(S, R), Refs(S)
    PROVE  Shrinks(S, R) /\ Refs(R)
<1>1. NULL \notin S.live BY Fields, WidgetAssumption
<1> QED BY <1>1 DEF SameWidgets, Refs, Shrinks

LEMMA ShrinksRefs ==
    ASSUME NEW S \in Systems, NEW R \in Systems, Shrinks(S, R), Refs(S)
    PROVE  Refs(R)
<1>1. NULL \notin R.live BY Fields, WidgetAssumption
<1> QED BY <1>1 DEF Refs, Shrinks

LEMMA ShrinksAgain ==
    ASSUME NEW S \in Systems, NEW R \in Systems, NEW U \in Systems, Shrinks(S, R), Shrinks(R, U)
    PROVE  Shrinks(S, U)
<1>1. NULL \notin U.live /\ NULL \notin R.live BY Fields, WidgetAssumption
<1> QED BY <1>1 DEF Shrinks

LEMMA DisposedAgain ==
    ASSUME NEW S \in Systems, NEW R, NEW U, Disposed(S, R), Disposed(R, U)
    PROVE  Disposed(S, U)
BY ShrinksAgain DEF Disposed

LEMMA DisposedNothing ==
    ASSUME NEW S \in Systems, Shape(S, {}), Refs(S)
    PROVE  Disposed(S, S)
<1>1. SameWidgets(S, S) BY DEF SameWidgets
<1> QED BY <1>1, ShrinksSame DEF Disposed

LEMMA WidgetDisposeKeeps ==
    ASSUME NEW S \in Systems, Shape(S, {}), Refs(S), NEW o \in S.live, o # DeskTop, S.bad = "none"
    PROVE  Disposed(S, WidgetDispose(S, o)) /\ WidgetDispose(S, o).bad # "freed"
<1> DEFINE A == _WidgetRemove(S, S.parent[o], o)
           B == WidgetDisposeEx(A, o)
           R == WidgetDispose(S, o)
<1>1. R = IF A.bad # "none" THEN A ELSE B BY DEF WidgetDispose
<1>2. /\ A \in Systems /\ SameWidgets(S, A)
      /\ A.bad = "null" \/ (A.bad = "none" /\ Shape(A, {o}))
  BY WidgetRemoveKeeps
<1> HIDE DEF A, R
<1>3. Shrinks(S, A) /\ Refs(A) BY <1>2, ShrinksSame
<1>4. CASE A.bad = "null"
  BY <1>1, <1>2, <1>3, <1>4 DEF Disposed, R
<1>5. CASE A.bad = "none"
  <2>1. o \in A.live BY <1>2 DEF SameWidgets
  <2>2. B \in Systems /\ B.bad = "none" /\ Shape(B, {}) /\ Shrinks(A, B)
    BY <2>1, <1>2, <1>3, <1>5, WidgetDisposeExKeeps
  <2> HIDE DEF B
  <2>3. Shrinks(S, B) /\ Refs(B) BY <2>2, <1>2, <1>3, ShrinksAgain, ShrinksRefs
  <2> QED BY <1>1, <1>5, <2>2, <2>3 DEF Disposed, R
<1> QED BY <1>2, <1>4, <1>5

(* A walk along g stays where g does not lead out. *)
LEMMA WalkStays ==
    ASSUME NEW J, NEW a \in J, NEW g, \A x \in J : g[x] \in J, NEW k \in Nat
    PROVE  \A j \in 1 .. k : WalkAlong(a, g, k)[j] \in J
<1> DEFINE w == WalkAlong(a, g, k)
           A == {j \in Nat : j \in 1 .. k => w[j] \in J}
<1>1. \A j \in 1 .. k : w[j] = IF j = 1 THEN a ELSE g[w[j - 1]]
  <2>1. w = [j \in 1 .. k |-> IF j = 1 THEN a ELSE g[w[j - 1]]] BY WalkAlongDef
  <2> HIDE DEF w
  <2> QED BY <2>1
<1> HIDE DEF w
<1>2. 0 \in A OBVIOUS
<1>3. ASSUME NEW j \in Nat, j \in A PROVE j + 1 \in A
  <2> SUFFICES ASSUME j + 1 \in 1 .. k PROVE w[j + 1] \in J OBVIOUS
  <2>1. CASE j = 0 BY <2>1, <1>1
  <2>2. CASE j # 0
    <3>1. j \in 1 .. k /\ j + 1 # 1 /\ (j + 1) - 1 = j BY <2>2
    <3>2. w[j] \in J BY <3>1, <1>3
    <3>3. w[j + 1] = g[w[j]] BY <3>1, <1>1
    <3> QED BY <3>2, <3>3
  <2> QED BY <2>1, <2>2
<1> HIDE DEF A
<1>4. Nat \subseteq A BY <1>2, <1>3, SetInduction
<1> QED BY <1>4 DEF A, w

(* The walk of _DisposeAllAppWidgets, whatever it does to a child. *)
DisposalStates(S) == {X \in DisposalWalks : Disposed(S, X.s)}

LEMMA DisposalStepKeeps ==
    ASSUME NEW S \in Systems, NEW o \in Widgets, NEW X \in DisposalStates(S), NEW R, NEW Y,
           X.s.bad = "none" /\ X.a \in X.s.live => Disposed(X.s, R),
           Y = IF ~ X.on \/ X.s.bad # "none" THEN X
               ELSE IF X.a \notin X.s.live THEN [X EXCEPT !.s.bad = "freed"]
               ELSE [s |-> R, a |-> X.s.next[X.a], on |-> X.s.next[X.a] # R.last[o]]
    PROVE  Y \in DisposalStates(S)
<1>0. X \in DisposalWalks /\ X.s \in Systems /\ Disposed(S, X.s) BY DEF DisposalStates, DisposalWalks
<1>1. CASE ~ X.on \/ X.s.bad # "none" BY <1>1
<1>2. CASE ~ (~ X.on \/ X.s.bad # "none") /\ X.a \notin X.s.live
  <2> DEFINE T == [X.s EXCEPT !.bad = "freed"]
  <2>1. T \in Systems /\ T.bad = "freed" /\ Shrinks(S, T)
    BY <1>0 DEF Systems, Disposed, Shrinks
  <2>2. Y = [X EXCEPT !.s = T] BY <1>2
  <2> HIDE DEF T
  <2>3. Y \in DisposalWalks /\ Y.s = T BY <2>1, <2>2, <1>0 DEF DisposalWalks
  <2> QED BY <2>1, <2>3 DEF DisposalStates, Disposed
<1>3. CASE ~ (~ X.on \/ X.s.bad # "none") /\ X.a \in X.s.live
  <2>1. Disposed(X.s, R) /\ R \in Systems BY <1>3 DEF Disposed
  <2>2. Disposed(S, R) BY <2>1, <1>0, DisposedAgain
  <2>3. X.a \in Widgets /\ X.s.next[X.a] \in Pointers BY <1>0, <1>3, Fields
  <2>4. Y = [s |-> R, a |-> X.s.next[X.a], on |-> X.s.next[X.a] # R.last[o]] BY <1>3
  <2> DEFINE n == X.s.next[X.a]
             on == n # R.last[o]
  <2>5. Y = [s |-> R, a |-> n, on |-> on] /\ on \in BOOLEAN BY <2>4
  <2> HIDE DEF on
  <2>6. Y \in DisposalWalks /\ Y.s = R BY <2>1, <2>3, <2>5 DEF DisposalWalks
  <2> QED BY <2>2, <2>6 DEF DisposalStates
<1> QED BY <1>1, <1>2, <1>3

LEMMA DisposalWalkEnds ==
    ASSUME NEW S \in Systems, Shape(S, {}), Refs(S), NEW o \in Widgets, NEW g,
           \A X \in DisposalStates(S) : g[X] \in DisposalStates(S)
    PROVE  Disposed(S, WalkAlong([s |-> S, a |-> S.last[o], on |-> TRUE], g, Turns + 1)[Turns + 1].s)
<1> DEFINE J == DisposalStates(S)
           a == [s |-> S, a |-> S.last[o], on |-> TRUE]
           w == WalkAlong(a, g, Turns + 1)
<1>1. a \in DisposalWalks BY Fields DEF DisposalWalks
<1>2. Disposed(S, S) BY DisposedNothing
<1>3. a \in J BY <1>1, <1>2 DEF DisposalStates
<1>4. Cardinality(Widgets) \in Nat BY WidgetAssumption, FS_CardinalityType
<1>5. Turns + 1 \in Nat /\ Turns + 1 \in 1 .. (Turns + 1)
  <2> DEFINE c == Cardinality(Widgets)
  <2> HIDE DEF c
  <2>1. c \in Nat /\ Turns = c * c BY <1>4 DEF c, Turns
  <2>2. c * c \in Nat BY <2>1
  <2> QED BY <2>1, <2>2
<1> HIDE DEF J, a, w
<1>6. \A X \in J : g[X] \in J BY DEF J
<1>7. w[Turns + 1] \in J BY <1>3, <1>5, <1>6, WalkStays DEF w
<1>8. Disposed(S, w[Turns + 1].s) BY <1>7 DEF J, DisposalStates
<1> QED BY <1>8 DEF w, a

LEMMA CloseAppKeeps ==
    ASSUME NEW S \in Systems, Shape(S, {}), Refs(S), NEW app \in Apps
    PROVE  Disposed(S, DisposeAllAppWidgets(S, app))
<1> DEFINE owned(w) == AppOwner[w] = app
           part(R, w) == IF owned(w) THEN WidgetDispose(R, w) ELSE R
           child(R, w) == IF owned(w) THEN WidgetDispose(R, w) ELSE DisposalWalk(R, w, part)
<1>0. \A w : owned(w) => w # DeskTop BY WidgetAssumption
<1>1. ASSUME NEW R \in Systems, Shape(R, {}), Refs(R), R.bad = "none", NEW w \in R.live
      PROVE  Disposed(R, part(R, w))
  <2>1. CASE owned(w)
    <3>1. w # DeskTop BY <1>0, <2>1
    <3>2. Disposed(R, WidgetDispose(R, w)) BY <3>1, <1>1, WidgetDisposeKeeps
    <3> QED BY <2>1, <3>2
  <2>2. CASE ~ owned(w)
    <3>1. Disposed(R, R) BY <1>1, DisposedNothing
    <3> QED BY <2>2, <3>1
  <2> QED BY <2>1, <2>2
<1> HIDE DEF owned
<1>2. ASSUME NEW R \in Systems, Shape(R, {}), Refs(R), NEW o \in Widgets
      PROVE  Disposed(R, DisposalWalk(R, o, part))
  <2>1. CASE R.last[o] = NULL
    <3>1. DisposalWalk(R, o, part) = R BY <2>1 DEF DisposalWalk
    <3> QED BY <3>1, <1>2, DisposedNothing
  <2>2. CASE R.last[o] # NULL
    <3> DEFINE g == [X \in DisposalWalks |-> DisposalStep(X, o, part)]
    <3>1. ASSUME NEW X \in DisposalStates(R) PROVE g[X] \in DisposalStates(R)
      <4>0. X \in DisposalWalks /\ X.s \in Systems /\ Disposed(R, X.s) BY DEF DisposalStates, DisposalWalks
      <4> DEFINE P == part(X.s, X.a)
                 Y == DisposalStep(X, o, part)
      <4>1. X.s.bad = "none" /\ X.a \in X.s.live => Disposed(X.s, P)
        <5> HIDE DEF part
        <5> QED BY <1>1, <4>0 DEF Disposed
      <4>2. Y = IF ~ X.on \/ X.s.bad # "none" THEN X
                ELSE IF X.a \notin X.s.live THEN [X EXCEPT !.s.bad = "freed"]
                ELSE [s |-> P, a |-> X.s.next[X.a], on |-> X.s.next[X.a] # P.last[o]]
        BY DEF DisposalStep
      <4>3. g[X] = Y BY <4>0
      <4> HIDE DEF P, Y, g
      <4>4. Y \in DisposalStates(R) BY <4>1, <4>2, DisposalStepKeeps
      <4> QED BY <4>3, <4>4
    <3>2. DisposalWalk(R, o, part) =
            WalkAlong([s |-> R, a |-> R.last[o], on |-> TRUE], g, Turns + 1)[Turns + 1].s
      BY <2>2 DEF DisposalWalk
    <3> HIDE DEF g
    <3>3. Disposed(R, WalkAlong([s |-> R, a |-> R.last[o], on |-> TRUE], g, Turns + 1)[Turns + 1].s)
      BY <3>1, <1>2, DisposalWalkEnds
    <3> QED BY <3>2, <3>3
  <2> QED BY <2>1, <2>2
<1>3. ASSUME NEW R \in Systems, Shape(R, {}), Refs(R), R.bad = "none", NEW w \in R.live
      PROVE  Disposed(R, child(R, w))
  <2>0. w \in Widgets BY Fields
  <2>1. CASE owned(w)
    <3>1. w # DeskTop BY <1>0, <2>1
    <3>2. Disposed(R, WidgetDispose(R, w)) BY <3>1, <1>3, WidgetDisposeKeeps
    <3> QED BY <2>1, <3>2
  <2>2. CASE ~ owned(w)
    <3>1. child(R, w) = DisposalWalk(R, w, part) BY <2>2
    <3> HIDE DEF child
    <3>2. Disposed(R, DisposalWalk(R, w, part)) BY <1>2, <1>3, <2>0
    <3> QED BY <3>1, <3>2
  <2> QED BY <2>1, <2>2
<1>4. CASE S.last[DeskTop] = NULL
  <2>1. DisposeAllAppWidgets(S, app) = S BY <1>4 DEF DisposeAllAppWidgets, DisposalWalk
  <2> QED BY <2>1, DisposedNothing
<1>5. CASE S.last[DeskTop] # NULL
  <2> DEFINE g == [X \in DisposalWalks |-> DisposalStep(X, DeskTop, child)]
             a == [s |-> S, a |-> S.last[DeskTop], on |-> TRUE]
  <2>1. ASSUME NEW X \in DisposalStates(S) PROVE g[X] \in DisposalStates(S)
    <3>0. X \in DisposalWalks /\ X.s \in Systems /\ Disposed(S, X.s) BY DEF DisposalStates, DisposalWalks
    <3> DEFINE P == child(X.s, X.a)
               Y == DisposalStep(X, DeskTop, child)
    <3>1. X.s.bad = "none" /\ X.a \in X.s.live => Disposed(X.s, P)
      <4> HIDE DEF child
      <4> QED BY <1>3, <3>0 DEF Disposed
    <3>2. Y = IF ~ X.on \/ X.s.bad # "none" THEN X
              ELSE IF X.a \notin X.s.live THEN [X EXCEPT !.s.bad = "freed"]
              ELSE [s |-> P, a |-> X.s.next[X.a], on |-> X.s.next[X.a] # P.last[DeskTop]]
      BY DEF DisposalStep
    <3>3. g[X] = Y BY <3>0
    <3>4. DeskTop \in Widgets BY WidgetAssumption
    <3> HIDE DEF P, Y, g
    <3>5. Y \in DisposalStates(S) BY <3>1, <3>2, <3>4, DisposalStepKeeps
    <3> QED BY <3>3, <3>5
  <2>2. DisposeAllAppWidgets(S, app) = WalkAlong(a, g, Turns + 1)[Turns + 1].s
    BY <1>5 DEF DisposeAllAppWidgets, DisposalWalk, owned
  <2> HIDE DEF g
  <2>3. DeskTop \in Widgets BY WidgetAssumption
  <2>4. Disposed(S, WalkAlong(a, g, Turns + 1)[Turns + 1].s)
    BY <2>1, <2>3, DisposalWalkEnds
  <2> QED BY <2>2, <2>4
<1> QED BY <1>4, <1>5

-----------------------------------------------------------------------------
(* Insertion of i, which was not in the tree. *)
Inserted(S, R, i) ==
    /\ R \in Systems /\ R.bad = "none" /\ Shape(R, {})
    /\ R.live = S.live \cup {i} /\ R.fresh = S.fresh \ {i}
    /\ R.top = S.top /\ R.master = S.master /\ R.focused = S.focused
    /\ R.focusFlag = S.focusFlag

LEMMA WidgetInsertKeeps ==
    ASSUME NEW S \in Systems, Shape(S, {}), S.bad = "none", NEW o \in S.live, NEW i \in S.fresh,
           o = DeskTop \/ S.parent[o] = DeskTop
    PROVE  Inserted(S, _WidgetInsert(S, o, i), i)
<1> DEFINE C == Children(S, o)
           b == IF S.last[o] = NULL THEN NULL ELSE S.next[S.last[o]]
           A == [S EXCEPT !.selected = (@ \ Children(S, o)) \cup ({o} \cap Windows),
                          !.live = @ \cup {i}, !.fresh = @ \ {i}]
           m == LinkBefore(Ring(S, o), i, b)
           R == _WidgetInsert(S, o, i)
<1>0. /\ o \in Widgets /\ i \in Widgets /\ i \notin S.live /\ i # o /\ i # DeskTop
      /\ DeskTop \in S.live /\ S.live \subseteq Widgets /\ NULL \notin Widgets
      /\ S.parent[i] = NULL /\ S.last[i] = NULL
      /\ Ring(S, o) \in Memories(Widgets) /\ RingOn(Ring(S, o), C, Widgets)
  <2>1. o \in Widgets /\ i \in Widgets /\ i \notin S.live /\ DeskTop \in S.live
    BY Fields DEF Shape, NothingLeft, Rooted
  <2>2. HasRing(S, o) BY DEF Shape
  <2>3. S.parent[i] = NULL /\ S.last[i] = NULL BY <2>1 DEF Shape, NothingLeft
  <2> QED BY <2>1, <2>2, <2>3, RingType, Fields, WidgetAssumption DEF HasRing
<1>1. R = _WidgetInsertBefore(A, o, i, b) BY DEF _WidgetInsert
<1>2. /\ A \in Systems /\ A.live = S.live \cup {i} /\ A.fresh = S.fresh \ {i} /\ A.bad = "none"
      /\ A.parent = S.parent /\ A.last = S.last /\ A.next = S.next /\ A.prev = S.prev
      /\ A.top = S.top /\ A.master = S.master /\ A.focused = S.focused /\ A.focusFlag = S.focusFlag
  BY <1>0 DEF Systems
<1>3. b = IF Ring(S, o).last = NULL THEN NULL ELSE Ring(S, o).next[Ring(S, o).last]
  BY <1>0, RingType
<1>4. Ring(A, o) = Ring(S, o) BY <1>2 DEF Ring
<1>5. i \in Widgets \ C BY <1>0 DEF Children
<1> HIDE DEF A, b, C, R
<1>6. /\ m \in Memories(Widgets) /\ RingOn(m, C \cup {i}, Widgets)
      /\ \A j \in Widgets \ (C \cup {i}) : SameAt(Ring(S, o), m, j)
  <2> DEFINE r == Ring(S, o)
  <2>1. /\ r \in Memories(Widgets) /\ RingOn(r, C, Widgets)
        /\ b = IF r.last = NULL THEN NULL ELSE r.next[r.last]
    BY <1>0, <1>3
  <2> HIDE DEF r
  <2>2. /\ LinkBefore(r, i, b) \in Memories(Widgets) /\ RingOn(LinkBefore(r, i, b), C \cup {i}, Widgets)
        /\ \A j \in Widgets \ (C \cup {i}) : SameAt(r, LinkBefore(r, i, b), j)
    BY <2>1, <1>0, <1>5, RingInFront
  <2> QED BY <2>2 DEF r
<1>7. RingPut(A, R, o, m, [A.parent EXCEPT ![i] = o])
  BY <1>0, <1>1, <1>2, <1>4, <1>6, InsertBeforeIs
<1> HIDE DEF m
<1>8. /\ R \in Systems /\ R.bad = "none" /\ R.live = S.live \cup {i} /\ R.fresh = S.fresh \ {i}
      /\ R.top = S.top /\ R.master = S.master /\ R.focused = S.focused /\ R.focusFlag = S.focusFlag
      /\ Ring(R, o) = m /\ R.next = m.next /\ R.prev = m.prev
      /\ R.parent = [S.parent EXCEPT ![i] = o] /\ R.last = [S.last EXCEPT ![o] = m.last]
  BY <1>2, <1>7 DEF RingPut, SameWidgets
<1>9. /\ R.parent[i] = o /\ \A q \in Widgets \ {i} : R.parent[q] = S.parent[q]
      /\ \A q \in Widgets \ {o} : R.last[q] = S.last[q]
  BY <1>8, <1>0, Fields
<1>10. Rooted(S, {}) /\ Levels(S) /\ NothingLeft(S) BY DEF Shape
<1>11. \A q \in S.live : S.parent[q] # i
  <2>1. \A q \in S.live : S.parent[q] \in S.live \cup {NULL} BY <1>10 DEF Rooted
  <2> QED BY <2>1, <1>0
<1>12. Children(R, o) = C \cup {i} /\ Children(R, i) = {}
       /\ \A q \in Widgets \ {o, i} : Children(R, q) = Children(S, q)
  <2>1. Children(R, o) = C \cup {i} BY <1>0, <1>8, <1>9 DEF Children, C
  <2>2. Children(R, i) = {} BY <1>0, <1>8, <1>9, <1>11 DEF Children
  <2>3. ASSUME NEW q \in Widgets \ {o, i} PROVE Children(R, q) = Children(S, q)
    BY <1>0, <1>8, <1>9 DEF Children
  <2> QED BY <2>1, <2>2, <2>3
<1>13. ASSUME NEW q \in R.live PROVE HasRing(R, q)
  <2>1. CASE q = o BY <2>1, <1>6, <1>8, <1>12 DEF HasRing
  <2>2. CASE q = i
    <3>1. R.last[i] = NULL BY <1>0, <1>9
    <3>a. Ring(R, i).last = NULL BY <3>1 DEF Ring
    <3>2. <<>> \in Seq(Widgets) /\ Len(<<>>) = 0 BY EmptySeq
    <3>3. Range(<<>>) = {} BY <3>2, RangeOfEmpty
    <3>4. Distinct(<<>>) BY <3>2 DEF Distinct
    <3> QED BY <2>2, <3>a, <3>2, <3>3, <3>4, <1>12 DEF HasRing, RingOn, Linked
  <2>3. CASE q # o /\ q # i
    <3>1. q \in S.live /\ q \in Widgets \ {o, i} /\ HasRing(S, q) BY <2>3, <1>0, <1>8 DEF Shape
    <3>2. ASSUME NEW j \in Children(S, q) PROVE R.next[j] = S.next[j] /\ R.prev[j] = S.prev[j]
      <4>1. j \in Widgets \ (C \cup {i}) BY <1>0, <2>3 DEF Children, C
      <4>2. SameAt(Ring(S, o), m, j) BY <4>1, <1>6
      <4>3. Ring(S, o).next = S.next /\ Ring(S, o).prev = S.prev BY <1>0, RingType
      <4> QED BY <4>2, <4>3, <1>8 DEF SameAt
    <3>3. R.last[q] = S.last[q] /\ Children(R, q) = Children(S, q) BY <3>1, <1>9, <1>12
    <3> QED BY <3>1, <3>2, <3>3, <1>8, OtherRings
  <2> QED BY <2>1, <2>2, <2>3
<1>14. Rooted(R, {}) BY <1>0, <1>8, <1>9, <1>10 DEF Rooted
<1>15. Levels(R)
  <2> SUFFICES ASSUME NEW v \in S.live \cup {i}, R.parent[v] # NULL
               PROVE  R.parent[R.parent[v]] \in {NULL, DeskTop}
    BY <1>8 DEF Levels
  <2>1. CASE v = i
    <3>1. S.parent[o] \in {NULL, DeskTop} BY <1>10 DEF Rooted
    <3> QED BY <2>1, <3>1, <1>0, <1>9
  <2>2. CASE v # i
    <3>1. v \in S.live /\ v \in Widgets /\ R.parent[v] = S.parent[v] BY <2>2, <1>0, <1>9
    <3>2. S.parent[S.parent[v]] \in {NULL, DeskTop} BY <3>1, <1>10 DEF Levels
    <3>3. S.parent[v] \in Widgets \ {i} BY <3>1, <1>0, <1>11, Fields DEF Pointers
    <3> QED BY <3>1, <3>2, <3>3, <1>9
  <2> QED BY <2>1, <2>2
<1>16. NothingLeft(R) BY <1>0, <1>8, <1>9, <1>10 DEF NothingLeft
<1>17. Shape(R, {}) BY <1>13, <1>14, <1>15, <1>16 DEF Shape
<1> QED BY <1>8, <1>17 DEF Inserted, R

(* The desktop with the first k widgets of s on it. *)
FilledWith(s, k, R) ==
    /\ R \in Systems /\ R.bad = "none" /\ Shape(R, {})
    /\ R.live = {DeskTop} \cup {s[j] : j \in 1 .. k} /\ R.fresh = Widgets \ R.live
    /\ R.top = NULL /\ R.master = NULL /\ R.focused = NULL /\ R.focusFlag = {}

LEMMA BareFilled ==
    ASSUME NEW s
    PROVE  FilledWith(s, 0, Bare)
<1>0. DeskTop \in Widgets /\ NULL \notin Widgets BY WidgetAssumption
<1>1. Alone \in [Widgets -> Pointers] /\ \A w \in Widgets : Alone[w] = NULL BY DEF Alone, Pointers
<1> HIDE DEF Alone
<1>2. Bare \in Systems BY <1>0, <1>1 DEF Bare, Systems, Pointers
<1>3. /\ Bare.live = {DeskTop} /\ Bare.fresh = Widgets \ {DeskTop} /\ Bare.bad = "none"
      /\ Bare.parent = Alone /\ Bare.last = Alone
      /\ Bare.top = NULL /\ Bare.master = NULL /\ Bare.focused = NULL /\ Bare.focusFlag = {}
  BY DEF Bare
<1> HIDE DEF Bare
<1>4. HasRing(Bare, DeskTop)
  <2>1. Ring(Bare, DeskTop).last = NULL BY <1>0, <1>1, <1>3 DEF Ring
  <2>2. Children(Bare, DeskTop) = {} BY <1>0, <1>1, <1>3 DEF Children
  <2>3. <<>> \in Seq(Widgets) /\ Len(<<>>) = 0 BY EmptySeq
  <2>4. Range(<<>>) = {} BY <2>3, RangeOfEmpty
  <2>5. Distinct(<<>>) BY <2>3 DEF Distinct
  <2> QED BY <2>1, <2>2, <2>3, <2>4, <2>5 DEF HasRing, RingOn, Linked
<1>5. Shape(Bare, {})
  BY <1>0, <1>1, <1>3, <1>4 DEF Shape, Rooted, Levels, NothingLeft
<1>6. {s[j] : j \in 1 .. 0} = {} OBVIOUS
<1> QED BY <1>2, <1>3, <1>5, <1>6 DEF FilledWith

LEMMA FilledOneMore ==
    ASSUME NEW s \in Seq(Widgets \ {DeskTop}), Distinct(s), NEW k \in Nat, k + 1 \in 1 .. Len(s),
           NEW R, FilledWith(s, k, R)
    PROVE  FilledWith(s, k + 1, _WidgetInsert(R, DeskTop, s[k + 1]))
<1> DEFINE i == s[k + 1]
           U == _WidgetInsert(R, DeskTop, i)
<1>0. Len(s) \in Nat /\ \A j \in 1 .. Len(s) : s[j] \in Widgets \ {DeskTop} BY LenProperties, ElementOfSeq
<1>1. i \in Widgets \ {DeskTop} /\ \A j \in 1 .. k : s[j] # i
  BY <1>0 DEF Distinct
<1>2. i \in R.fresh BY <1>1 DEF FilledWith
<1>3. DeskTop \in R.live BY DEF FilledWith
<1>4. {s[j] : j \in 1 .. (k + 1)} = {s[j] : j \in 1 .. k} \cup {i}
  <2>1. 1 .. (k + 1) = (1 .. k) \cup {k + 1} OBVIOUS
  <2> QED BY <2>1
<1> HIDE DEF i, U
<1>5. Inserted(R, U, i)
  BY <1>2, <1>3, WidgetInsertKeeps DEF FilledWith, U
<1>6. FilledWith(s, k + 1, U)
  <2>1. U.live = {DeskTop} \cup {s[j] : j \in 1 .. (k + 1)} BY <1>4, <1>5 DEF FilledWith, Inserted
  <2>2. U.fresh = Widgets \ U.live BY <1>5 DEF FilledWith, Inserted
  <2> QED BY <2>1, <2>2, <1>5 DEF FilledWith, Inserted
<1> QED BY <1>6 DEF U, i

LEMMA FilledIs ==
    ASSUME NEW s \in Seq(Widgets \ {DeskTop}), Distinct(s)
    PROVE  FilledWith(s, Len(s), Filled(s))
<1> DEFINE ins(R, x) == _WidgetInsert(R, DeskTop, x)
           Def(n, w) == w = [k \in 0 .. n |-> IF k = 0 THEN Bare ELSE ins(w[k - 1], s[k])]
           A == {n \in Nat : \E w : Def(n, w)}
           n0 == Len(s)
           f == CHOOSE w : Def(n0, w)
<1>0. n0 \in Nat BY LenProperties
<1>1. Filled(s) = f[n0] BY Zenon DEF Filled
<1> HIDE DEF ins, n0
<1>2. 0 \in A
  <2>1. Def(0, [k \in 0 .. 0 |-> Bare]) OBVIOUS
  <2> HIDE DEF Def
  <2> QED BY <2>1
<1>3. ASSUME NEW n \in Nat, n \in A PROVE n + 1 \in A
  <2>1. PICK w : Def(n, w) BY <1>3
  <2> DEFINE v == [k \in 0 .. (n + 1) |-> IF k = n + 1 THEN ins(w[n], s[n + 1]) ELSE w[k]]
  <2>2. \A k \in 0 .. n : w[k] = IF k = 0 THEN Bare ELSE ins(w[k - 1], s[k]) BY <2>1
  <2>3. \A k \in 0 .. n : v[k] = w[k] OBVIOUS
  <2>4. ASSUME NEW k \in 0 .. (n + 1) PROVE v[k] = IF k = 0 THEN Bare ELSE ins(v[k - 1], s[k])
    <3>1. CASE k = n + 1
      <4>1. n \in 0 .. n /\ k - 1 = n /\ k # 0 BY <3>1
      <4>2. v[n] = w[n] BY <2>3, <4>1
      <4>3. v[k] = ins(w[n], s[k]) BY <3>1
      <4> QED BY <4>1, <4>2, <4>3
    <3>2. CASE k # n + 1 /\ k = 0 BY <2>2, <2>3, <3>2
    <3>3. CASE k # n + 1 /\ k # 0
      <4>1. k \in 0 .. n /\ k - 1 \in 0 .. n BY <3>3
      <4>2. v[k] = w[k] /\ v[k - 1] = w[k - 1] BY <2>3, <4>1
      <4>3. w[k] = ins(w[k - 1], s[k]) BY <2>2, <3>3, <4>1
      <4> QED BY <3>3, <4>2, <4>3
    <3> QED BY <3>1, <3>2, <3>3
  <2>5. Def(n + 1, v) BY <2>4
  <2> HIDE DEF Def, v
  <2> QED BY <2>5
<1>4. n0 \in A
  <2> HIDE DEF A
  <2> QED BY <1>0, <1>2, <1>3, SetInduction
<1>5. Def(n0, f)
  <2>1. \E w : Def(n0, w) BY <1>4
  <2> HIDE DEF Def
  <2> QED BY <2>1, Zenon
<1> HIDE DEF f
<1>6. f[0] = Bare /\ \A k \in 0 .. n0 : k # 0 => f[k] = ins(f[k - 1], s[k])
  BY <1>0, <1>5
<1> HIDE DEF Def
<1> DEFINE B == {k \in Nat : k \in 0 .. n0 => FilledWith(s, k, f[k])}
<1>7. 0 \in B BY <1>6, BareFilled
<1>8. ASSUME NEW k \in Nat, k \in B PROVE k + 1 \in B
  <2> SUFFICES ASSUME k + 1 \in 0 .. n0 PROVE FilledWith(s, k + 1, f[k + 1]) OBVIOUS
  <2>1. k \in 0 .. n0 /\ k + 1 # 0 /\ (k + 1) - 1 = k /\ k + 1 \in 1 .. Len(s) BY <1>0 DEF n0
  <2>2. FilledWith(s, k, f[k]) BY <1>8, <2>1
  <2>3. f[k + 1] = _WidgetInsert(f[k], DeskTop, s[k + 1])
    <3>1. f[k + 1] = ins(f[k], s[k + 1]) BY <2>1, <1>6
    <3> QED BY <3>1 DEF ins
  <2> QED BY <2>1, <2>2, <2>3, FilledOneMore
<1> HIDE DEF B
<1>9. n0 \in B BY <1>0, <1>7, <1>8, SetInduction
<1>10. FilledWith(s, n0, f[n0]) BY <1>0, <1>9 DEF B
<1> QED BY <1>1, <1>10 DEF n0

-----------------------------------------------------------------------------
(* The calls under way.  A call of WidgetSetFocus, and the handling of a   *)
(* key, do not look at TopWidget.                                          *)
OfFocus(c) == c.pc \in {"focused", "end"}

Leaving == {"left", "dragleft"}

(* Only the innermost call can be about to tell OldTopWidget that the      *)
(* mouse leaves it; and WidgetSetFocus is one call more than MaxDepth when *)
(* a mouse event makes it.                                                 *)
Framed(st) ==
    /\ st \in Seq(Calls) /\ Len(st) <= MaxDepth + 1
    /\ Len(st) > MaxDepth => OfFocus(st[1])
    /\ \A k \in 1 .. Len(st) : st[k].pc \in Leaving => k = 1 /\ st[k].at = NULL
    /\ \A k \in 1 .. Len(st) : st[k].how = "mouse" => ~ OfFocus(st[k])

(* With no TopWidget, all calls that use it have lost it. *)
TopLost(S, st) ==
    S.top = NULL => \A k \in 1 .. Len(st) : ~ OfFocus(st[k]) => st[k].lost

(* The widget that was entered and not left. *)
OverAt(S, st, ov) ==
    ov \subseteq IF st # <<>> /\ st[1].pc \in Leaving THEN {st[1].old} ELSE {S.top}

Agrees(S, st, ov, tl) ==
    /\ Shape(S, {}) /\ Refs(S) /\ tl \subseteq {S.focused}
    /\ TopLost(S, st) /\ OverAt(S, st, ov)

IInv ==
    /\ TypeOK /\ Framed(stack) /\ FatalOnlyIf
    /\ Fine => Agrees(ws, stack, over, told)

LEMMA CallFields ==
    ASSUME NEW c \in Calls
    PROVE  /\ c.pc \in Places /\ c.old \in Pointers /\ c.at \in Pointers
           /\ c.how \in {"mouse", "message", "call"} /\ c.lost \in BOOLEAN
BY DEF Calls

LEMMA CallMade ==
    ASSUME NEW pc \in Places, NEW old \in Pointers
    PROVE  /\ Call(pc, old) \in Calls /\ Call(pc, old).pc = pc /\ Call(pc, old).how = "call"
           /\ Call(pc, old).at = NULL /\ Call(pc, old).old = old
BY DEF Call, Calls, Pointers

LEMMA PopStack ==
    ASSUME NEW st, Framed(st), st # <<>>
    PROVE  /\ Framed(Tail(st))
           /\ Tail(st) # <<>> => Tail(st)[1].pc \notin Leaving
           /\ \A S : TopLost(S, st) => TopLost(S, Tail(st))
<1> DEFINE t == Tail(st)
<1>0. MaxDepth \in Nat \ {0} BY WidgetEventsAssumption
<1>1. /\ st \in Seq(Calls) /\ t \in Seq(Calls) /\ Len(t) = Len(st) - 1 /\ Len(st) \in Nat \ {0}
      /\ \A k \in 1 .. Len(t) : t[k] = st[k + 1]
  BY EmptySeq, LenProperties, HeadTailProperties DEF Framed
<1> HIDE DEF t
<1>2. \A k \in 1 .. Len(t) : k + 1 \in 1 .. Len(st) /\ k + 1 # 1 BY <1>1
<1>3. \A k \in 1 .. Len(t) : t[k].pc \notin Leaving BY <1>1, <1>2 DEF Framed
<1>4. Framed(t)
  <2>1. Len(t) <= MaxDepth + 1 /\ ~ (Len(t) > MaxDepth) BY <1>0, <1>1 DEF Framed
  <2>2. \A k \in 1 .. Len(t) : t[k].how = "mouse" => ~ OfFocus(t[k])
    BY <1>1, <1>2 DEF Framed
  <2> QED BY <1>1, <1>3, <2>1, <2>2 DEF Framed
<1>5. t # <<>> => t[1].pc \notin Leaving
  <2>1. t # <<>> => 1 \in 1 .. Len(t) BY <1>1, EmptySeq
  <2> QED BY <2>1, <1>3
<1>6. ASSUME NEW S, TopLost(S, st) PROVE TopLost(S, t)
  BY <1>1, <1>2, <1>6 DEF TopLost
<1> QED BY <1>4, <1>5, <1>6 DEF t

(* The calls st become t: the innermost one goes on as c. *)
Turned(st, t, c) ==
    /\ Framed(st) /\ st # <<>> /\ c \in Calls /\ c.pc \notin Leaving
    /\ OfFocus(c) <=> OfFocus(st[1])
    /\ c.how = "mouse" => ~ OfFocus(c)
    /\ c.lost = st[1].lost /\ t = [st EXCEPT ![1] = c]

(* What the calls st and t share when the innermost one of t is c. *)
TurnsTo(st, t, c) ==
    /\ Framed(t) /\ t # <<>> /\ t[1] = c
    /\ \A S : TopLost(S, st) => TopLost(S, t)

(* The innermost call goes on as c. *)
LEMMA TurnStack ==
    ASSUME NEW st, NEW c, NEW t, Turned(st, t, c) PROVE TurnsTo(st, t, c)
<1> USE DEF Turned
<1>1. st \in Seq(Calls) /\ Len(st) \in Nat \ {0} /\ 1 \in 1 .. Len(st) BY EmptySeq, LenProperties DEF Framed
<1>2. /\ t \in Seq(Calls) /\ Len(t) = Len(st) /\ t[1] = c /\ t # <<>>
      /\ \A k \in 1 .. Len(st) : k # 1 => t[k] = st[k]
  BY <1>1, EmptySeq
<1>3. Framed(t) BY <1>1, <1>2 DEF Framed
<1>4. ASSUME NEW S, TopLost(S, st) PROVE TopLost(S, t)
  BY <1>1, <1>2, <1>4 DEF TopLost
<1> QED BY <1>2, <1>3, <1>4 DEF TurnsTo

(* A call c is made. *)
LEMMA PushStack ==
    ASSUME NEW st, Framed(st), st # <<>> => st[1].pc \notin Leaving, NEW c \in Calls,
           Len(st) < MaxDepth \/ (OfFocus(c) /\ Len(st) <= MaxDepth),
           c.pc \in Leaving => c.at = NULL, c.how = "mouse" => ~ OfFocus(c),
           NEW t, t = <<c>> \o st
    PROVE  /\ Framed(t) /\ t # <<>> /\ t[1] = c
           /\ \A S : TopLost(S, st) /\ (S.top = NULL => OfFocus(c)) => TopLost(S, t)
<1>0. MaxDepth \in Nat \ {0} BY WidgetEventsAssumption
<1>1. st \in Seq(Calls) /\ Len(st) \in Nat BY LenProperties DEF Framed
<1>2. <<c>> \in Seq(Calls) /\ Len(<<c>>) = 1 /\ <<c>>[1] = c OBVIOUS
<1>3. /\ t \in Seq(Calls) /\ Len(t) = Len(st) + 1 /\ t[1] = c
      /\ \A k \in 1 .. Len(t) : k # 1 => k - 1 \in 1 .. Len(st) /\ t[k] = st[k - 1]
  BY <1>1, <1>2, ConcatProperties
<1>4. t # <<>> BY <1>1, <1>3, EmptySeq
<1>5. \A k \in 1 .. Len(st) : st[k].pc \notin Leaving
  <2>1. Len(st) # 0 => st # <<>> BY EmptySeq
  <2> QED BY <2>1, <1>1 DEF Framed
<1>6. Framed(t)
  <2>1. Len(t) <= MaxDepth + 1 /\ (Len(t) > MaxDepth => OfFocus(t[1])) BY <1>0, <1>1, <1>3
  <2>2. \A k \in 1 .. Len(t) : t[k].pc \in Leaving => k = 1 /\ t[k].at = NULL BY <1>3, <1>5
  <2>3. \A k \in 1 .. Len(t) : t[k].how = "mouse" => ~ OfFocus(t[k]) BY <1>1, <1>3 DEF Framed
  <2> QED BY <1>3, <2>1, <2>2, <2>3 DEF Framed
<1>7. ASSUME NEW S, TopLost(S, st), S.top = NULL => OfFocus(c) PROVE TopLost(S, t)
  BY <1>1, <1>3, <1>7 DEF TopLost
<1> QED BY <1>3, <1>4, <1>6, <1>7

-----------------------------------------------------------------------------
(* What every step comes to. *)
Causes == {"none", "own", "drag", "top", "caller", "first", "insert", "close"}

LEMMA Holds ==
    ASSUME IInv
    PROVE  /\ ws \in Systems /\ ops \in 0 .. MaxOps /\ over \subseteq Widgets /\ told \subseteq Widgets
           /\ cause \in Causes /\ Framed(stack)
           /\ Fine => /\ Shape(ws, {}) /\ Refs(ws) /\ told \subseteq {ws.focused}
                      /\ TopLost(ws, stack) /\ OverAt(ws, stack, over)
BY DEF IInv, TypeOK, Causes, Agrees

LEMMA FineStep ==
    ASSUME ws' \in Systems, ws'.bad = "none", Framed(stack'), Agrees(ws', stack', over', told'),
           ops' \in 0 .. MaxOps, over' \subseteq Widgets, told' \subseteq Widgets, cause' \in Causes
    PROVE  IInv'
<1>0. MaxDepth \in Nat \ {0} BY WidgetEventsAssumption
<1>1. stack' \in Seq(Calls) /\ Len(stack') <= 2 * MaxDepth
  BY <1>0, LenProperties DEF Framed
<1>2. TypeOK' BY <1>1 DEF TypeOK, Causes
<1>3. FatalOnlyIf' BY DEF FatalOnlyIf
<1>4. (Fine => Agrees(ws, stack, over, told))' OBVIOUS
<1> QED BY <1>2, <1>3, <1>4 DEF IInv

LEMMA FatalStep ==
    ASSUME ws' \in Systems, ws'.bad # "none", Framed(stack'),
           ops' \in 0 .. MaxOps, over' \subseteq Widgets, told' \subseteq Widgets, cause' \in Causes,
           ws'.bad = "freed" => cause' \in {"own", "drag", "caller", "close"},
           ws'.bad = "null" /\ cause' = "top" => stack'[1].lost
    PROVE  IInv'
<1>0. MaxDepth \in Nat \ {0} BY WidgetEventsAssumption
<1>1. stack' \in Seq(Calls) /\ Len(stack') <= 2 * MaxDepth
  BY <1>0, LenProperties DEF Framed
<1>2. TypeOK' BY <1>1 DEF TypeOK, Causes
<1>3. FatalOnlyIf' BY DEF FatalOnlyIf
<1>4. (Fine => Agrees(ws, stack, over, told))' BY DEF Fine
<1> QED BY <1>2, <1>3, <1>4 DEF IInv

(* The tree and the references stay as they are. *)
LEMMA QuietStep ==
    ASSUME IInv, Fine, UNCHANGED <<ws, ops, cause>>, Framed(stack'), TopLost(ws, stack'),
           OverAt(ws, stack', over'), over' \subseteq Widgets,
           told' \subseteq Widgets, told' \subseteq {ws.focused}
    PROVE  IInv'
<1>1. Agrees(ws', stack', over', told') BY Holds DEF Agrees
<1>2. ws'.bad = "none" BY DEF Fine
<1> QED BY <1>1, <1>2, Holds, FineStep

(* The innermost call goes on as c. *)
LEMMA TurnStep ==
    ASSUME IInv, Fine, stack # <<>>, UNCHANGED <<ws, ops, cause>>,
           NEW c, c \in Calls, c.pc \notin Leaving, OfFocus(c) <=> OfFocus(stack[1]),
           c.how = "mouse" => ~ OfFocus(c), c.lost = stack[1].lost, stack' = [stack EXCEPT ![1] = c],
           over' \subseteq {ws.top}, over' \subseteq Widgets,
           told' \subseteq {ws.focused}, told' \subseteq Widgets
    PROVE  IInv'
<1>1. Framed(stack') /\ stack' # <<>> /\ stack'[1] = c /\ \A S : TopLost(S, stack) => TopLost(S, stack')
  <2>1. Turned(stack, stack', c) BY Holds DEF Turned
  <2>2. TurnsTo(stack, stack', c) BY <2>1, TurnStack, Zenon
  <2> QED BY <2>2 DEF TurnsTo
<1>2. OverAt(ws, stack', over') BY <1>1 DEF OverAt
<1>3. TopLost(ws, stack') BY <1>1, Holds
<1>4. Framed(stack') BY <1>1
<1> QED BY <1>2, <1>3, <1>4, QuietStep, Zenon

LEMMA OverTop ==
    ASSUME IInv, Fine, stack # <<>> => stack[1].pc \notin Leaving
    PROVE  over \subseteq {ws.top} /\ over \subseteq Widgets /\ told \subseteq {ws.focused} /\ told \subseteq Widgets
BY Holds DEF OverAt

(* The innermost call ends. *)
LEMMA EndStep ==
    ASSUME IInv, Fine, stack # <<>>, stack[1].pc \notin Leaving, Ends, UNCHANGED <<ws, ops, over, told, cause>>
    PROVE  IInv'
<1>1. /\ Framed(stack')
      /\ stack' # <<>> => stack'[1].pc \notin Leaving
      /\ \A S : TopLost(S, stack) => TopLost(S, stack')
  BY Holds, PopStack DEF Ends
<1>2. OverAt(ws, stack', over') BY <1>1, OverTop DEF OverAt
<1>3. TopLost(ws, stack') BY <1>1, Holds
<1> QED BY <1>1, <1>2, <1>3, OverTop, QuietStep

(* A pointer that leads nowhere is used. *)
LEMMA BreakStep ==
    ASSUME IInv, NEW w, NEW why, Breaks(w, why), why \in {"own", "drag", "caller"}
    PROVE  IInv'
<1>1. ws' \in Systems /\ ws'.bad # "none" BY Holds DEF Breaks, Systems
<1>2. UNCHANGED <<stack, ops, over, told>> /\ cause' = why /\ why \in Causes /\ why # "top"
  BY DEF Breaks, Causes
<1> QED BY <1>1, <1>2, Holds, FatalStep

LEMMA TopBreakStep ==
    ASSUME IInv, Fine, stack # <<>>, ~ OfFocus(stack[1]), Breaks(ws.top, "top")
    PROVE  IInv'
<1>1. ws.top = NULL /\ ws' = [ws EXCEPT !.bad = "null"] BY Holds DEF Breaks, Refs
<1>2. ws' \in Systems /\ ws'.bad = "null" BY <1>1, Holds DEF Systems
<1>3. 1 \in 1 .. Len(stack) BY Holds, EmptySeq, LenProperties DEF Framed
<1>4. stack[1].lost BY <1>1, <1>3, Holds DEF TopLost
<1>5. UNCHANGED <<stack, ops, over, told>> /\ cause' = "top" /\ "top" \in Causes
  BY DEF Breaks, Causes
<1> QED BY <1>2, <1>4, <1>5, Holds, FatalStep

LEMMA ShortSeqs ==
    ASSUME NEW U, NEW a \in U, NEW b \in U, NEW c \in U
    PROVE  <<a>> \in Seq(U) /\ <<a, b>> \in Seq(U) /\ <<a, b, c>> \in Seq(U)
OBVIOUS

(* What gets the focus is there. *)
LEMMA FocusTargetThere ==
    ASSUME ws \in Systems, Shape(ws, {}), NEW o \in ws.live
    PROVE  FocusTarget(o) \in ws.live \cup {NULL}
<1> DEFINE s == Path(ws, o)
<1>1. /\ ws.live \subseteq Widgets /\ NULL \notin Widgets
      /\ \A w \in ws.live : ws.parent[w] \in ws.live \cup {NULL}
  BY Fields, WidgetAssumption DEF Shape, Rooted
<1>2. s \in Seq(ws.live)
  <2> DEFINE p == ws.parent[o]
             q == ws.parent[p]
  <2>1. p \in ws.live \cup {NULL} /\ NULL \notin ws.live BY <1>1
  <2>2. s = IF p = NULL THEN <<o>> ELSE IF q = NULL THEN <<o, p>> ELSE <<o, p, q>> BY DEF Path
  <2>3. p # NULL => p \in ws.live /\ q \in ws.live \cup {NULL} BY <1>1, <2>1
  <2> HIDE DEF s, p, q
  <2>4. CASE p = NULL BY <2>2, <2>4, ShortSeqs
  <2>5. CASE p # NULL /\ q = NULL
    <3>1. p \in ws.live /\ o \in ws.live /\ s = <<o, p>> BY <2>2, <2>3, <2>5
    <3> QED BY <3>1, ShortSeqs
  <2>6. CASE p # NULL /\ q # NULL
    <3>1. p \in ws.live /\ o \in ws.live /\ q \in ws.live /\ s = <<o, p, q>> BY <2>2, <2>3, <2>6
    <3> QED BY <3>1, ShortSeqs
  <2> QED BY <2>4, <2>5, <2>6
<1>3. FocusTarget(o) = FirstIn(s, Focusable) BY DEF FocusTarget
<1> HIDE DEF s
<1>4. CASE FirstIn(s, Focusable) # NULL
  <2>1. PICK k \in 1 .. Len(s) : FirstIn(s, Focusable) = s[k] BY <1>2, <1>4, FirstInIs
  <2> QED BY <1>2, <1>3, <2>1, ElementOfSeq
<1> QED BY <1>3, <1>4

(* WidgetSetFocus; the stack below it is rest. *)
LEMMA SetFocusStep ==
    ASSUME IInv, Fine, stack # <<>> => stack[1].pc \notin Leaving,
           NEW o \in ws.live, NEW rest, SetFocus(o, rest), UNCHANGED <<over, cause>>,
           Framed(rest), Len(rest) <= MaxDepth, TopLost(ws, rest),
           rest # <<>> => rest[1].pc \notin Leaving, ops' \in 0 .. MaxOps
    PROVE  IInv'
<1> DEFINE f == FocusTarget(o)
           sent(pc) == [Call(pc, f) EXCEPT !.at = ws.focused, !.how = "message"]
<1>0. /\ ws \in Systems /\ Shape(ws, {}) /\ Refs(ws) /\ NULL \notin Widgets /\ ws.live \subseteq Widgets
      /\ ws.bad = "none" /\ cause \in Causes
      /\ over \subseteq {ws.top} /\ over \subseteq Widgets /\ told \subseteq {ws.focused} /\ told \subseteq Widgets
  BY Holds, OverTop, WidgetAssumption, Fields DEF Fine
<1>1. f \in ws.live \cup {NULL} /\ f \in Pointers BY <1>0, FocusTargetThere DEF Pointers
<1>2. ASSUME NEW c \in Calls, OfFocus(c), c.how # "mouse", stack' = <<c>> \o rest
      PROVE  Framed(stack') /\ TopLost(ws, stack') /\ OverAt(ws, stack', over)
  <2>1. c.pc \notin Leaving BY <1>2 DEF OfFocus, Leaving
  <2>2. /\ Framed(stack') /\ stack'[1] = c
        /\ \A S : TopLost(S, rest) /\ (S.top = NULL => OfFocus(c)) => TopLost(S, stack')
    BY <1>2, <2>1, PushStack
  <2> QED BY <1>0, <1>2, <2>1, <2>2 DEF OverAt
<1>3. ASSUME stack' = rest PROVE Framed(stack') /\ TopLost(ws, stack') /\ OverAt(ws, stack', over)
  BY <1>0, <1>3 DEF OverAt
<1>4. \A pc \in {"end", "focused"} : /\ sent(pc) \in Calls /\ OfFocus(sent(pc)) /\ sent(pc).how # "mouse"
                                     /\ Call(pc, f) \in Calls /\ OfFocus(Call(pc, f)) /\ Call(pc, f).how # "mouse"
  <2> SUFFICES ASSUME NEW pc \in {"end", "focused"}
               PROVE  /\ sent(pc) \in Calls /\ OfFocus(sent(pc)) /\ sent(pc).how # "mouse"
                      /\ Call(pc, f) \in Calls /\ OfFocus(Call(pc, f)) /\ Call(pc, f).how # "mouse"
    OBVIOUS
  <2> HIDE DEF f
  <2>1. ws.focused \in Pointers /\ pc \in Places BY <1>0, Fields DEF Places
  <2>2. Call(pc, f) \in Calls /\ Call(pc, f).pc = pc /\ Call(pc, f).how = "call"
    BY <1>1, <2>1, CallMade
  <2>3. sent(pc) \in Calls /\ sent(pc).pc = pc /\ sent(pc).how = "message"
    <3> DEFINE c == Call(pc, f)
    <3>1. c \in Calls /\ c.pc = pc BY <2>2
    <3>2. sent(pc) = [c EXCEPT !.at = ws.focused, !.how = "message"] OBVIOUS
    <3> HIDE DEF c, sent
    <3> QED BY <2>1, <3>1, <3>2 DEF Calls
  <2> HIDE DEF sent
  <2> QED BY <2>2, <2>3 DEF OfFocus
<1>5. \/ stack' = rest
      \/ \E pc \in {"end", "focused"} : stack' = <<sent(pc)>> \o rest \/ stack' = <<Call(pc, f)>> \o rest
  BY DEF SetFocus
<1>6. Framed(stack') /\ TopLost(ws, stack') /\ OverAt(ws, stack', over)
  <2> HIDE DEF f, sent
  <2> QED BY <1>2, <1>3, <1>4, <1>5
<1>7. CASE f = NULL \/ f = ws.focused
  <2>1. ws' = ws /\ told' = told BY <1>7 DEF SetFocus
  <2> QED BY <2>1, <1>0, <1>6, FineStep DEF Agrees
<1>8. CASE ~ (f = NULL \/ f = ws.focused)
  <2>1. ws' = Focused(f) /\ told' = told \ {ws.focused} BY <1>8 DEF SetFocus
  <2>2. f \in ws.live /\ f \in Widgets BY <1>0, <1>1, <1>8
  <2> HIDE DEF f, sent
  <2>3. ws' = [ws EXCEPT !.focused = f, !.focusFlag = (ws.focusFlag \ {ws.focused}) \cup {f}]
    BY <2>1 DEF Focused
  <2>4. (ws.focusFlag \ {ws.focused}) \cup {f} = {f} BY <1>0 DEF Refs
  <2>5. /\ ws' \in Systems /\ ws'.bad = "none" /\ ws'.focused = f /\ ws'.focusFlag = {f}
        /\ ws'.live = ws.live /\ ws'.fresh = ws.fresh /\ ws'.parent = ws.parent /\ ws'.last = ws.last
        /\ ws'.next = ws.next /\ ws'.prev = ws.prev /\ ws'.top = ws.top /\ ws'.master = ws.master
    BY <1>0, <2>2, <2>3, <2>4 DEF Systems, Pointers
  <2>6. Shape(ws', {}) BY <1>0, <2>5, SameShape
  <2>7. Refs(ws') BY <1>0, <2>2, <2>5 DEF Refs
  <2>8. told' = {} BY <1>0, <2>1
  <2>9. TopLost(ws', stack') /\ OverAt(ws', stack', over) BY <1>6, <2>5 DEF TopLost, OverAt
  <2> QED BY <2>5, <2>6, <2>7, <2>8, <2>9, <1>0, <1>6, FineStep DEF Agrees
<1> QED BY <1>7, <1>8

(* What applications do to the tree. *)
LEMMA BecomeStep ==
    ASSUME IInv, Does, NEW S \in Systems, NEW why \in Causes \ {"top"}, Become(S, why),
           S.bad = "freed" => why = "close",
           S.bad = "none" => Shape(S, {}) /\ Refs(S),
           ws.top \in S.live => S.top = ws.top,
           ws.focused \in S.live => S.focused = ws.focused
    PROVE  IInv'
<1>0. /\ stack # <<>> => stack[1].pc \notin Leaving
      /\ Fine /\ ops' \in 0 .. MaxOps /\ ws' = S /\ Framed(stack)
  <2>1. Fine BY DEF Does, Acts
  <2>2. stack \in Seq(Calls) BY Holds DEF Framed
  <2>3. stack # <<>> => 1 \in 1 .. Len(stack) BY <2>2, EmptySeq, LenProperties
  <2>4. stack # <<>> => stack[1].pc \notin Leaving BY <2>3, Holds DEF Does, Acts, Framed
  <2>5. ops' \in 0 .. MaxOps BY Holds, WidgetEventsAssumption DEF Does
  <2>6. ws' = S BY DEF Become
  <2> QED BY <2>1, <2>4, <2>5, <2>6, Holds
<1> DEFINE gone == ws.top # NULL /\ S.top = NULL
<1>1. /\ stack' \in Seq(Calls) /\ Len(stack') = Len(stack)
      /\ \A k \in 1 .. Len(stack) :
            /\ stack'[k].pc = stack[k].pc /\ stack'[k].at = stack[k].at
            /\ stack'[k].how = stack[k].how /\ (gone \/ stack[k].lost => stack'[k].lost)
  <2> DEFINE g(k) == [stack[k] EXCEPT !.lost = @ \/ gone]
  <2>1. stack \in Seq(Calls) /\ DOMAIN stack = 1 .. Len(stack) /\ Len(stack) \in Nat
    BY <1>0, LenProperties DEF Framed
  <2>2. stack' = [k \in 1 .. Len(stack) |-> g(k)] BY <2>1 DEF Become
  <2>3. ASSUME NEW k \in 1 .. Len(stack)
        PROVE  /\ g(k) \in Calls /\ g(k).pc = stack[k].pc /\ g(k).at = stack[k].at
               /\ g(k).how = stack[k].how /\ (gone \/ stack[k].lost => g(k).lost)
    <3> DEFINE c == stack[k]
               b == c.lost \/ gone
    <3>1. c \in Calls BY <2>1, ElementOfSeq
    <3>2. c.lost \in BOOLEAN BY <3>1, CallFields
    <3>3. b \in BOOLEAN OBVIOUS
    <3>4. g(k) = [c EXCEPT !.lost = b] OBVIOUS
    <3>5. gone \/ c.lost => b OBVIOUS
    <3> HIDE DEF c, b, g, gone
    <3>6. /\ g(k) \in Calls /\ g(k).pc = c.pc /\ g(k).at = c.at /\ g(k).how = c.how /\ g(k).lost = b
      BY <3>1, <3>3, <3>4 DEF Calls
    <3>7. gone \/ c.lost => g(k).lost BY <3>5, <3>6
    <3> QED BY <3>6, <3>7 DEF c
  <2> HIDE DEF g, gone
  <2>4. \A k \in 1 .. Len(stack) : stack'[k] = g(k) BY <2>2
  <2>5. stack' \in Seq(Calls) /\ Len(stack') = Len(stack)
    <3> DEFINE n == Len(stack)
    <3>1. n \in Nat /\ stack' = [k \in 1 .. n |-> g(k)] /\ \A k \in 1 .. n : g(k) \in Calls
      BY <2>1, <2>2, <2>3
    <3> HIDE DEF n
    <3>2. stack' \in [1 .. n -> Calls] BY <3>1
    <3>3. stack' \in Seq(Calls) BY <3>1, <3>2, SeqDef
    <3>4. Len(stack') = n BY <3>1, <3>2, <3>3, LenProperties
    <3> QED BY <3>3, <3>4 DEF n
  <2> QED BY <2>3, <2>4, <2>5
<1>2. Framed(stack')
  <2>1. 1 \in 1 .. Len(stack) \/ Len(stack) = 0 BY <1>0, LenProperties DEF Framed
  <2>2. MaxDepth \in Nat BY WidgetEventsAssumption
  <2>3. Len(stack') > MaxDepth => OfFocus(stack'[1])
    BY <1>0, <1>1, <2>1, <2>2, LenProperties DEF Framed, OfFocus
  <2> QED BY <1>0, <1>1, <2>3 DEF Framed, OfFocus
<1>3. over' \subseteq Widgets /\ told' \subseteq Widgets /\ cause' \in Causes
  BY Holds DEF Become
<1>4. CASE S.bad # "none"
  <2>1. cause' = why BY <1>4 DEF Become
  <2>2. S.bad \in {"none", "freed", "null"} BY Fields
  <2> QED BY <1>0, <1>2, <1>3, <1>4, <2>1, <2>2, FatalStep
<1>5. CASE S.bad = "none"
  <2>1. /\ over \subseteq {ws.top} /\ told \subseteq {ws.focused} /\ NULL \notin S.live
        /\ over' = over \cap S.live /\ told' = told \cap S.live
    BY <1>0, OverTop, Fields, WidgetAssumption DEF Become
  <2>2. over' \subseteq {S.top} /\ told' \subseteq {S.focused} BY <2>1
  <2>3. OverAt(S, stack', over')
    <3>1. stack' # <<>> => 1 \in 1 .. Len(stack') BY <1>1, EmptySeq, LenProperties
    <3>2. stack' # <<>> => stack # <<>> /\ stack'[1].pc = stack[1].pc
      BY <3>1, <1>1, EmptySeq
    <3> QED BY <3>2, <1>0, <2>2 DEF OverAt
  <2>4. TopLost(S, stack')
    <3> SUFFICES ASSUME S.top = NULL, NEW k \in 1 .. Len(stack), ~ OfFocus(stack'[k])
                 PROVE  stack'[k].lost
      BY <1>1 DEF TopLost
    <3>1. ~ OfFocus(stack[k]) BY <1>1 DEF OfFocus
    <3>2. CASE ws.top # NULL BY <3>2, <1>1
    <3>3. CASE ws.top = NULL
      <4>1. stack[k].lost BY <3>1, <3>3, <1>0, Holds DEF TopLost
      <4> QED BY <4>1, <1>1
    <3> QED BY <3>2, <3>3
  <2>5. Agrees(ws', stack', over', told') BY <1>0, <1>5, <2>2, <2>3, <2>4 DEF Agrees
  <2> QED BY <1>0, <1>2, <1>3, <1>5, <2>5, FineStep
<1> QED BY <1>4, <1>5

(* A notice is sent, or the call goes on without one. *)
LEMMA FrameIs ==
    ASSUME IInv, stack # <<>>
    PROVE  /\ Frame \in Calls /\ Frame = stack[1] /\ 1 \in 1 .. Len(stack) /\ 1 \in DOMAIN stack
           /\ stack \in Seq(Calls)
<1>1. stack \in Seq(Calls) BY Holds DEF Framed
<1>2. 1 \in 1 .. Len(stack) BY <1>1, EmptySeq, LenProperties
<1> QED BY <1>1, <1>2, ElementOfSeq DEF Frame

LEMMA SendStep ==
    ASSUME IInv, Fine, stack # <<>>, UNCHANGED <<ws, ops, cause>>,
           NEW w, w \in Pointers, NEW how \in {"mouse", "message", "call"}, NEW pc \in Places,
           Sends(w, how, pc), pc \notin Leaving, pc \in {"focused", "end"} <=> OfFocus(Frame),
           how = "mouse" => ~ OfFocus(Frame),
           over' \subseteq {ws.top}, over' \subseteq Widgets,
           told' \subseteq {ws.focused}, told' \subseteq Widgets
    PROVE  IInv'
<1> DEFINE b == stack[1]
           c == [b EXCEPT !.pc = pc, !.at = w, !.how = how]
<1>1. b \in Calls /\ b = Frame /\ stack \in Seq(Calls) /\ 1 \in DOMAIN stack BY FrameIs
<1>2. stack' = [stack EXCEPT ![1] = c] BY <1>1 DEF Sends
<1> HIDE DEF b
<1>3. c \in Calls /\ c.pc = pc /\ c.how = how /\ c.lost = b.lost BY <1>1 DEF Calls
<1> HIDE DEF c
<1>4. OfFocus(c) <=> OfFocus(b) BY <1>1, <1>3 DEF OfFocus
<1>5. c.how = "mouse" => ~ OfFocus(c) BY <1>1, <1>3, <1>4
<1> QED BY <1>2, <1>3, <1>4, <1>5, TurnStep DEF b

LEMMA GoStep ==
    ASSUME IInv, Fine, stack # <<>>, UNCHANGED <<ws, ops, over, told, cause>>,
           NEW pc \in Places, GoesTo(pc), pc \notin Leaving \cup {"focused", "end"},
           Frame.pc \notin Leaving, ~ OfFocus(Frame)
    PROVE  IInv'
<1> DEFINE b == stack[1]
           c == [b EXCEPT !.pc = pc]
<1>1. b \in Calls /\ b = Frame /\ stack \in Seq(Calls) /\ 1 \in DOMAIN stack BY FrameIs
<1>2. stack' = [stack EXCEPT ![1] = c] BY <1>1 DEF GoesTo
<1>3. /\ over \subseteq {ws.top} /\ over \subseteq Widgets
      /\ told \subseteq {ws.focused} /\ told \subseteq Widgets
  BY <1>1, OverTop
<1> HIDE DEF b
<1>4. c \in Calls /\ c.pc = pc /\ c.lost = b.lost BY <1>1 DEF Calls
<1> HIDE DEF c
<1>5. (OfFocus(c) <=> OfFocus(b)) /\ ~ OfFocus(c) BY <1>1, <1>4 DEF OfFocus
<1> QED BY <1>2, <1>3, <1>4, <1>5, TurnStep DEF b

-----------------------------------------------------------------------------
(* One lemma for every action. *)
LEMMA RunsIs ==
    ASSUME IInv, NEW pc, Runs(pc), pc \notin Leaving
    PROVE  /\ Fine /\ stack # <<>> /\ Frame.pc = pc /\ Frame.pc \notin Leaving /\ stack[1].pc \notin Leaving
           /\ pc \notin {"focused", "end"} => ~ OfFocus(Frame) /\ ~ OfFocus(stack[1])
           /\ over \subseteq {ws.top} /\ over \subseteq Widgets
           /\ told \subseteq {ws.focused} /\ told \subseteq Widgets
           /\ ws \in Systems /\ Shape(ws, {}) /\ Refs(ws) /\ ws.live \subseteq Pointers
<1>1. Fine /\ stack # <<>> /\ Frame.pc = pc /\ stack[1].pc = pc BY DEF Runs, Frame
<1>2. pc \notin {"focused", "end"} => ~ OfFocus(Frame) /\ ~ OfFocus(stack[1]) BY <1>1 DEF OfFocus
<1> QED BY <1>1, <1>2, OverTop, Holds, Fields DEF Pointers

LEMMA NotifyFocusedStep ==
    ASSUME IInv, NotifyFocused PROVE IInv'
<1>1. Runs("focused") /\ "focused" \notin Leaving BY DEF NotifyFocused, Leaving
<1>2. CASE ws.focused = NULL BY <1>1, <1>2, RunsIs, EndStep DEF NotifyFocused
<1>3. CASE ws.focused # NULL
  <2>1. /\ Sends(ws.focused, "message", "end") /\ told' = told \cup {ws.focused}
        /\ UNCHANGED <<ws, ops, over, cause>>
    BY <1>3 DEF NotifyFocused
  <2>2. ws.focused \in Widgets /\ ws.focused \in Pointers BY <1>1, <1>3, RunsIs, Fields DEF Pointers
  <2>3. OfFocus(Frame) BY <1>1, RunsIs DEF OfFocus
  <2> QED BY <1>1, <2>1, <2>2, <2>3, RunsIs, SendStep DEF Places, Leaving
<1> QED BY <1>2, <1>3

LEMMA KeyEventStep ==
    ASSUME IInv, KeyEvent PROVE IInv'
<1> DEFINE c == [Call("end", NULL) EXCEPT !.at = ws.focused, !.how = "message"]
<1>1. /\ Fine /\ Len(stack) < MaxDepth /\ ws.focused # NULL /\ stack' = <<c>> \o stack
      /\ UNCHANGED <<ws, ops, over, told, cause>>
  BY DEF KeyEvent, Acts
<1>2. stack # <<>> => stack[1].pc \notin Leaving
  BY FrameIs, Holds DEF KeyEvent, Acts, Framed
<1>3. c \in Calls /\ c.pc = "end" /\ c.how = "message"
  <2> DEFINE b == Call("end", NULL)
  <2>1. b \in Calls /\ b.pc = "end" BY CallMade DEF Places, Pointers
  <2>2. ws.focused \in Pointers BY Holds, Fields
  <2> HIDE DEF b
  <2>3. /\ [b EXCEPT !.at = ws.focused, !.how = "message"] \in Calls
        /\ [b EXCEPT !.at = ws.focused, !.how = "message"].pc = "end"
        /\ [b EXCEPT !.at = ws.focused, !.how = "message"].how = "message"
    BY <2>1, <2>2 DEF Calls
  <2> QED BY <2>3 DEF b
<1> HIDE DEF c
<1>4. OfFocus(c) /\ c.pc \notin Leaving /\ c.how # "mouse" BY <1>3 DEF OfFocus, Leaving
<1>5. /\ Framed(stack') /\ stack' # <<>> /\ stack'[1] = c
      /\ \A S : TopLost(S, stack) /\ (S.top = NULL => OfFocus(c)) => TopLost(S, stack')
  BY <1>1, <1>2, <1>3, <1>4, Holds, PushStack
<1>6. OverAt(ws, stack', over') BY <1>1, <1>2, <1>4, <1>5, OverTop DEF OverAt
<1>7. TopLost(ws, stack') BY <1>1, <1>4, <1>5, Holds
<1> QED BY <1>1, <1>2, <1>5, <1>6, <1>7, OverTop, QuietStep

LEMMA ReturnsStep ==
    ASSUME IInv, NEW taken \in BOOLEAN, Returns(taken) PROVE IInv'
<1>1. /\ Fine /\ stack # <<>> /\ Frame.at # NULL /\ Frame = stack[1] /\ Frame \in Calls
      /\ Frame.pc \notin Leaving /\ stack[1].pc \notin Leaving
      /\ stack \in Seq(Calls) /\ 1 \in DOMAIN stack
  BY FrameIs, Holds DEF Returns, Framed
<1>2. /\ over \subseteq {ws.top} /\ over \subseteq Widgets
      /\ told \subseteq {ws.focused} /\ told \subseteq Widgets
  BY <1>1, OverTop
<1>3. CASE Frame.how # "call" /\ ~ taken /\ Frame.at \notin ws.live
  BY <1>3, BreakStep DEF Returns
<1>4. CASE ~ (Frame.how # "call" /\ ~ taken /\ Frame.at \notin ws.live)
  <2>1. stack' = Back(taken) /\ UNCHANGED <<ws, ops, over, told, cause>> BY <1>4 DEF Returns
  <2> DEFINE b == stack[1]
             pc == IF b.pc = "data" /\ ~ taken THEN "cancel" ELSE b.pc
             up == [b EXCEPT !.at = ws.parent[b.at]]
             on == [b EXCEPT !.pc = pc, !.at = NULL, !.how = "call"]
  <2>2. \/ b.how = "message" /\ ~ taken /\ stack' = [stack EXCEPT ![1] = up]
        \/ stack' = Tail(stack)
        \/ stack' = [stack EXCEPT ![1] = on]
    BY <1>1, <2>1 DEF Back
  <2>3. b \in Calls /\ b = Frame /\ b.pc \notin Leaving /\ b.at \in Widgets
    BY <1>1, CallFields DEF Pointers
  <2>4. b.how = "mouse" => ~ OfFocus(b)
    BY <1>1, Holds DEF Framed
  <2>5. pc \in Places /\ pc \notin Leaving /\ (pc \in {"focused", "end"} <=> OfFocus(b))
    BY <2>3, CallFields DEF Places, Leaving, OfFocus
  <2>6. ws.parent[b.at] \in Pointers BY <2>3, Holds, Fields
  <2> HIDE DEF b, pc
  <2>7. CASE b.how = "message" /\ ~ taken /\ stack' = [stack EXCEPT ![1] = up]
    <3>1. up \in Calls /\ up.pc = b.pc /\ up.how = b.how /\ up.lost = b.lost
      BY <2>3, <2>6 DEF Calls
    <3> HIDE DEF up
    <3>2. OfFocus(up) <=> OfFocus(b) BY <3>1 DEF OfFocus
    <3>3. up.how = "mouse" => ~ OfFocus(up) BY <3>1, <3>2, <2>4
    <3> QED BY <1>1, <1>2, <2>1, <2>3, <2>7, <3>1, <3>2, <3>3, TurnStep
  <2>8. CASE stack' = Tail(stack)
    BY <1>1, <2>1, <2>8, EndStep DEF Ends
  <2>9. CASE stack' = [stack EXCEPT ![1] = on]
    <3>1. on \in Calls /\ on.pc = pc /\ on.how = "call" /\ on.lost = b.lost
      BY <2>3, <2>5 DEF Calls, Pointers
    <3> HIDE DEF on
    <3>2. OfFocus(on) <=> OfFocus(b) BY <2>5, <3>1 DEF OfFocus
    <3>3. on.how # "mouse" /\ on.pc \notin Leaving BY <3>1, <2>5
    <3> QED BY <1>1, <1>2, <2>1, <2>3, <2>9, <3>1, <3>2, <3>3, TurnStep
  <2> QED BY <2>2, <2>7, <2>8, <2>9
<1> QED BY <1>3, <1>4

LEMMA MouseEventStep ==
    ASSUME IInv, NEW t \in Widgets, MouseEvent(t) PROVE IInv'
<1> DEFINE top == IF ws.master # NULL THEN ws.master ELSE t
           old == IF top = ws.top THEN NULL ELSE ws.top
           pc == FirstPlace(top)
           c == Call(pc, old)
<1>1. /\ Fine /\ Len(stack) < MaxDepth /\ t \in ws.live
      /\ ws' = [ws EXCEPT !.top = top] /\ stack' = <<c>> \o stack
      /\ UNCHANGED <<ops, over, told, cause>>
  BY DEF MouseEvent, Acts
<1>2. stack # <<>> => stack[1].pc \notin Leaving
  BY FrameIs, Holds DEF MouseEvent, Acts, Framed
<1>3. /\ ws \in Systems /\ ws.bad = "none" /\ Shape(ws, {}) /\ Refs(ws)
      /\ ws.live \subseteq Widgets /\ NULL \notin Widgets /\ ws.top \in Pointers
      /\ over \subseteq {ws.top} /\ over \subseteq Widgets
      /\ told \subseteq {ws.focused} /\ told \subseteq Widgets
  BY <1>1, <1>2, OverTop, Holds, Fields, WidgetAssumption DEF Fine
<1>4. top \in ws.live BY <1>1, <1>3 DEF Refs
<1>5. /\ pc \in {"dragmove", "notices", "dragenter", "enter"} \cup Leaving
      /\ pc \in Leaving => old = ws.top
      /\ pc \notin Leaving => top = ws.top \/ ws.top = NULL
  BY DEF FirstPlace, Leaving
<1>6. pc \in Places /\ old \in Pointers BY <1>3, <1>5 DEF Places, Leaving, Pointers
<1> HIDE DEF top, old, pc
<1>7. c \in Calls /\ c.pc = pc /\ c.how = "call" /\ c.at = NULL /\ c.old = old
  BY <1>6, CallMade
<1> HIDE DEF c
<1>8. /\ ws' \in Systems /\ ws'.bad = "none" /\ ws'.top = top
      /\ ws'.live = ws.live /\ ws'.fresh = ws.fresh /\ ws'.parent = ws.parent /\ ws'.last = ws.last
      /\ ws'.next = ws.next /\ ws'.prev = ws.prev /\ ws'.master = ws.master
      /\ ws'.focused = ws.focused /\ ws'.focusFlag = ws.focusFlag
  BY <1>1, <1>3, <1>4 DEF Systems, Pointers
<1>9. Shape(ws', {}) BY <1>3, <1>8, SameShape
<1>10. Refs(ws') BY <1>3, <1>4, <1>8 DEF Refs
<1>11. Framed(stack') /\ stack' # <<>> /\ stack'[1] = c
  BY <1>1, <1>2, <1>7, Holds, PushStack
<1>12. TopLost(ws', stack') BY <1>3, <1>4, <1>8 DEF TopLost
<1>13. OverAt(ws', stack', over') BY <1>1, <1>3, <1>5, <1>7, <1>8, <1>11 DEF OverAt
<1>14. Agrees(ws', stack', over', told') BY <1>1, <1>3, <1>8, <1>9, <1>10, <1>12, <1>13 DEF Agrees
<1> QED BY <1>1, <1>3, <1>8, <1>11, <1>14, Holds, FineStep

LEMMA LeftStep ==
    ASSUME IInv, Left PROVE IInv'
<1> DEFINE pc == IF Frame.pc = "left" THEN "enter" ELSE "dragenter"
<1>1. /\ Fine /\ stack # <<>> /\ Frame.pc \in Leaving /\ Frame = stack[1] /\ Frame \in Calls
      /\ Sends(Frame.old, "mouse", pc) /\ over' = over \ {Frame.old} /\ UNCHANGED <<ws, ops, told, cause>>
  BY FrameIs DEF Left, Runs, Known, Leaving
<1>2. over' = {} BY <1>1, Holds DEF OverAt
<1>3. pc \in Places \ Leaving /\ pc \notin {"focused", "end"} BY DEF Places, Leaving
<1>4. ~ OfFocus(Frame) BY <1>1 DEF OfFocus, Leaving
<1>5. Frame.old \in Pointers BY <1>1, CallFields
<1> HIDE DEF pc
<1> QED BY <1>1, <1>2, <1>3, <1>4, <1>5, Holds, SendStep

LEMMA LeftFlagStep ==
    ASSUME IInv, LeftFlag PROVE IInv'
<1>1. Breaks(Frame.old, "drag") BY DEF LeftFlag
<1> QED BY <1>1, BreakStep

LEMMA EnterStep ==
    ASSUME IInv, Enter PROVE IInv'
<1>1. PICK pc \in {"enter", "dragenter"} : Runs(pc) BY DEF Enter
<1>2. pc \notin Leaving /\ pc \notin {"focused", "end"} BY DEF Leaving
<1>3. /\ Fine /\ stack # <<>> /\ Frame.pc = pc /\ ~ OfFocus(Frame) /\ ~ OfFocus(stack[1])
      /\ over \subseteq {ws.top} /\ over \subseteq Widgets
      /\ told \subseteq {ws.focused} /\ told \subseteq Widgets
  BY <1>1, <1>2, RunsIs
<1>4. CASE ws.top \notin ws.live
  BY <1>3, <1>4, TopBreakStep DEF Enter
<1>5. CASE ws.top \in ws.live
  <2> DEFINE b == Frame
             to == IF b.pc = "enter" THEN "notices" ELSE "drop"
             c == [b EXCEPT !.pc = to, !.old = NULL, !.at = ws.top, !.how = "mouse"]
  <2>1. stack' = [stack EXCEPT ![1] = c] /\ over' = over \cup {ws.top} /\ UNCHANGED <<ws, ops, told, cause>>
    BY <1>5 DEF Enter, Known
  <2>2. b \in Calls /\ b = stack[1] BY <1>3, FrameIs
  <2>3. ws.top \in Widgets /\ ws.top \in Pointers BY <1>5, Holds, Fields DEF Pointers
  <2>4. to \in Places /\ to \notin Leaving /\ to \notin {"focused", "end"} BY DEF Places, Leaving
  <2> HIDE DEF to, b
  <2>5. c \in Calls /\ c.pc = to /\ c.lost = b.lost BY <2>2, <2>3, <2>4 DEF Calls, Pointers
  <2> HIDE DEF c
  <2>6. ~ OfFocus(c) BY <2>4, <2>5 DEF OfFocus
  <2> QED BY <1>3, <2>1, <2>2, <2>3, <2>4, <2>5, <2>6, TurnStep
<1> QED BY <1>4, <1>5

LEMMA NoticeStep ==
    ASSUME IInv, Notice PROVE IInv'
<1> DEFINE pc == IF Frame.pc = "notices" THEN "notices" ELSE "drop"
<1>1. PICK at \in {"notices", "dragmove"} : Runs(at) BY DEF Notice
<1>2. at \notin Leaving /\ at \notin {"focused", "end"} BY DEF Leaving
<1>3. CASE ws.top \notin ws.live BY <1>1, <1>2, <1>3, RunsIs, TopBreakStep DEF Notice
<1>4. CASE ws.top \in ws.live
  <2>1. Sends(ws.top, "mouse", pc) /\ UNCHANGED <<ws, ops, over, told, cause>> BY <1>4 DEF Notice, Known
  <2>2. ws.top \in Pointers BY Holds, Fields
  <2>3. pc \in Places /\ pc \notin Leaving /\ pc \notin {"focused", "end"} BY DEF Places, Leaving
  <2> HIDE DEF pc
  <2> QED BY <1>1, <1>2, <2>1, <2>2, <2>3, RunsIs, SendStep
<1> QED BY <1>3, <1>4

LEMMA NoButtonStep ==
    ASSUME IInv, NoButton PROVE IInv'
BY RunsIs, EndStep DEF NoButton, Known, Leaving

LEMMA PressStep ==
    ASSUME IInv, Press PROVE IInv'
<1>1. Runs("notices") /\ "notices" \notin Leaving BY DEF Press, Leaving
<1>2. CASE ws.top \notin ws.live BY <1>1, <1>2, RunsIs, TopBreakStep DEF Press
<1>3. CASE ws.top \in ws.live
  <2> DEFINE b == stack[1]
             c == [b EXCEPT !.pc = "select"]
             rest == [stack EXCEPT ![1].pc = "select"]
  <2>1. SetFocus(ws.top, rest) /\ UNCHANGED <<ops, over, cause>> BY <1>3 DEF Press
  <2>2. /\ Fine /\ stack # <<>> /\ b \in Calls /\ ~ OfFocus(b) /\ b.pc \notin Leaving
        /\ stack \in Seq(Calls) /\ 1 \in DOMAIN stack /\ 1 \in 1 .. Len(stack)
    BY <1>1, RunsIs, FrameIs
  <2>3. rest = [stack EXCEPT ![1] = c] BY <2>2
  <2> HIDE DEF b
  <2>4. c \in Calls /\ c.pc = "select" /\ c.lost = b.lost BY <2>2 DEF Calls, Places
  <2> HIDE DEF c, rest
  <2>5. ~ OfFocus(c) /\ c.pc \notin Leaving BY <2>4 DEF OfFocus, Leaving
  <2>6. Framed(rest) /\ rest # <<>> /\ rest[1] = c /\ \A S : TopLost(S, stack) => TopLost(S, rest)
    <3>1. Framed(stack) BY Holds
    <3>2. Turned(stack, rest, c) BY <2>2, <2>3, <2>4, <2>5, <3>1 DEF Turned, b
    <3>3. TurnsTo(stack, rest, c) BY <3>2, TurnStack, Zenon
    <3> QED BY <3>3 DEF TurnsTo
  <2>7. Len(rest) <= MaxDepth
    BY <2>5, <2>6, WidgetEventsAssumption, LenProperties DEF Framed
  <2>8. TopLost(ws, rest) BY <2>2, <2>6, Holds
  <2>9. ops' \in 0 .. MaxOps /\ stack[1].pc \notin Leaving /\ rest[1].pc \notin Leaving
    BY <2>1, <2>2, <2>5, <2>6, Holds DEF b
  <2> QED BY <1>3, <2>1, <2>2, <2>6, <2>7, <2>8, <2>9, SetFocusStep
<1> QED BY <1>2, <1>3

LEMMA SelectStep ==
    ASSUME IInv, Select PROVE IInv'
<1>1. Runs("select") /\ "select" \notin Leaving BY DEF Select, Leaving
<1>2. CASE ws.top \notin ws.live BY <1>1, <1>2, RunsIs, TopBreakStep DEF Select
<1>3. CASE ws.top \in ws.live
  <2> DEFINE b == stack[1]
             c == [b EXCEPT !.pc = "button"]
             R == WidgetSelect(ws, ws.top)
  <2>1. /\ ws' = R /\ cause' = IF ws'.bad # "none" THEN "first" ELSE cause
        /\ GoesTo("button") /\ UNCHANGED <<ops, over, told>>
    BY <1>3 DEF Select
  <2>2. /\ stack # <<>> /\ b \in Calls /\ ~ OfFocus(b) /\ b.pc \notin Leaving
        /\ stack \in Seq(Calls) /\ 1 \in DOMAIN stack
        /\ ws \in Systems /\ Shape(ws, {}) /\ Refs(ws) /\ ws.bad = "none"
        /\ over \subseteq {ws.top} /\ over \subseteq Widgets
        /\ told \subseteq {ws.focused} /\ told \subseteq Widgets
    BY <1>1, RunsIs, FrameIs DEF Fine
  <2>3. stack' = [stack EXCEPT ![1] = c] BY <2>1, <2>2 DEF GoesTo
  <2>4. /\ R \in Systems /\ SameWidgets(ws, R)
        /\ R.bad = "null" \/ (R.bad = "none" /\ Shape(R, {}))
    BY <1>3, <2>2, WidgetSelectKeeps
  <2> HIDE DEF b, R
  <2>5. c \in Calls /\ c.pc = "button" /\ c.lost = b.lost BY <2>2 DEF Calls, Places
  <2> HIDE DEF c
  <2>6. ~ OfFocus(c) /\ c.pc \notin Leaving BY <2>5 DEF OfFocus, Leaving
  <2>7. Framed(stack') /\ stack' # <<>> /\ stack'[1] = c /\ \A S : TopLost(S, stack) => TopLost(S, stack')
    <3>1. Framed(stack) BY Holds
    <3>2. Turned(stack, stack', c) BY <2>2, <2>3, <2>5, <2>6, <3>1 DEF Turned, b
    <3>3. TurnsTo(stack, stack', c) BY <3>2, TurnStack, Zenon
    <3> QED BY <3>3 DEF TurnsTo
  <2>8. ops' \in 0 .. MaxOps /\ over' \subseteq Widgets /\ told' \subseteq Widgets /\ cause' \in Causes
    BY <2>1, <2>2, Holds DEF Causes
  <2>9. CASE R.bad = "null"
    <3>1. ws'.bad = "null" /\ cause' = "first" BY <2>1, <2>9
    <3> QED BY <3>1, <2>1, <2>4, <2>7, <2>8, FatalStep
  <2>10. CASE R.bad = "none"
    <3>1. Refs(R) BY <2>2, <2>4, ShrinksSame
    <3>2. R.top = ws.top /\ R.focused = ws.focused BY <2>4 DEF SameWidgets
    <3>3. OverAt(R, stack', over') BY <2>1, <2>2, <2>6, <2>7, <3>2 DEF OverAt
    <3>4. TopLost(R, stack')
      <4>1. R.top # NULL BY <1>3, <2>2, <3>2, Fields, WidgetAssumption
      <4> QED BY <4>1 DEF TopLost
    <3>5. Agrees(R, stack', over', told') BY <2>1, <2>2, <2>4, <2>10, <3>1, <3>2, <3>3, <3>4 DEF Agrees
    <3> QED BY <3>5, <2>1, <2>4, <2>7, <2>8, <2>10, FineStep
  <2> QED BY <2>4, <2>9, <2>10
<1> QED BY <1>2, <1>3

LEMMA ReleaseStep ==
    ASSUME IInv, Release PROVE IInv'
<1>1. Runs("notices") /\ "notices" \notin Leaving BY DEF Release, Leaving
<1>2. UNCHANGED <<ws, ops, over, told, cause>> /\ (Ends \/ GoesTo("button")) BY DEF Release, Known
<1>3. CASE Ends BY <1>1, <1>2, <1>3, RunsIs, EndStep
<1>4. CASE GoesTo("button") BY <1>1, <1>2, <1>4, RunsIs, GoStep DEF Places, Leaving
<1> QED BY <1>2, <1>3, <1>4

LEMMA ButtonStep ==
    ASSUME IInv, Button PROVE IInv'
<1>1. Runs("button") /\ "button" \notin Leaving BY DEF Button, Leaving
<1>2. CASE ws.top \notin ws.live BY <1>1, <1>2, RunsIs, TopBreakStep DEF Button
<1>3. CASE ws.top \in ws.live
  <2>1. Sends(ws.top, "mouse", "button") /\ UNCHANGED <<ws, ops, over, told, cause>>
    BY <1>3 DEF Button, Known
  <2>2. ws.top \in Pointers BY Holds, Fields
  <2> QED BY <1>1, <2>1, <2>2, RunsIs, SendStep DEF Places
<1> QED BY <1>2, <1>3

LEMMA NoMoreButtonsStep ==
    ASSUME IInv, NoMoreButtons PROVE IInv'
BY RunsIs, EndStep DEF NoMoreButtons, Known, Leaving

LEMMA NoDropStep ==
    ASSUME IInv, NoDrop PROVE IInv'
<1>1. PICK pc \in {"dragmove", "drop"} : Runs(pc) BY DEF NoDrop
<1>2. pc \notin Leaving BY DEF Leaving
<1> QED BY <1>1, <1>2, RunsIs, EndStep DEF NoDrop, Known

LEMMA DropStep ==
    ASSUME IInv, NEW accepted \in BOOLEAN, Drop(accepted) PROVE IInv'
<1>1. PICK pc \in {"dragmove", "drop"} : Runs(pc) BY DEF Drop
<1>2. pc \notin Leaving /\ pc \notin {"focused", "end"} BY DEF Leaving
<1>3. CASE ws.top \notin ws.live BY <1>1, <1>2, <1>3, RunsIs, TopBreakStep DEF Drop
<1>4. CASE ws.top \in ws.live /\ accepted /\ ws.caller \notin ws.live
  BY <1>4, BreakStep DEF Drop
<1>5. CASE ws.top \in ws.live /\ accepted /\ ws.caller \in ws.live
  <2>1. Sends(ws.caller, "call", "data") /\ UNCHANGED <<ws, ops, over, told, cause>>
    BY <1>5 DEF Drop, Known
  <2>2. ws.caller \in Pointers BY Holds, Fields
  <2> QED BY <1>1, <1>2, <2>1, <2>2, RunsIs, SendStep DEF Places, Leaving
<1>6. CASE ws.top \in ws.live /\ ~ accepted
  <2>1. GoesTo("cancel") /\ UNCHANGED <<ws, ops, over, told, cause>> BY <1>6 DEF Drop, Known
  <2> QED BY <1>1, <1>2, <2>1, RunsIs, GoStep DEF Places, Leaving
<1> QED BY <1>3, <1>4, <1>5, <1>6

LEMMA CancelStep ==
    ASSUME IInv, Cancel PROVE IInv'
<1>1. Runs("cancel") /\ "cancel" \notin Leaving BY DEF Cancel, Leaving
<1>2. CASE ws.caller \notin ws.live BY <1>2, BreakStep DEF Cancel
<1>3. CASE ws.caller \in ws.live
  <2>1. Sends(ws.caller, "mouse", "stop") /\ UNCHANGED <<ws, ops, over, told, cause>>
    BY <1>3 DEF Cancel, Known
  <2>2. ws.caller \in Pointers BY Holds, Fields
  <2> QED BY <1>1, <2>1, <2>2, RunsIs, SendStep DEF Places, Leaving
<1> QED BY <1>2, <1>3

LEMMA DropDataStep ==
    ASSUME IInv, DropData PROVE IInv'
<1>1. Runs("data") /\ "data" \notin Leaving BY DEF DropData, Leaving
<1>2. CASE ws.top \notin ws.live BY <1>1, <1>2, RunsIs, TopBreakStep DEF DropData
<1>3. CASE ws.top \in ws.live
  <2>1. Sends(ws.top, "call", "after") /\ UNCHANGED <<ws, ops, over, told, cause>>
    BY <1>3 DEF DropData, Known
  <2>2. ws.top \in Pointers BY Holds, Fields
  <2> QED BY <1>1, <2>1, <2>2, RunsIs, SendStep DEF Places, Leaving
<1> QED BY <1>2, <1>3

LEMMA DragAfterDropStep ==
    ASSUME IInv, DragAfterDrop PROVE IInv'
<1>1. Runs("after") /\ "after" \notin Leaving BY DEF DragAfterDrop, Leaving
<1>2. CASE ws.caller \notin ws.live BY <1>2, BreakStep DEF DragAfterDrop
<1>3. CASE ws.caller \in ws.live
  <2>1. Sends(ws.caller, "call", "stop") /\ UNCHANGED <<ws, ops, over, told, cause>>
    BY <1>3 DEF DragAfterDrop, Known
  <2>2. ws.caller \in Pointers BY Holds, Fields
  <2> QED BY <1>1, <2>1, <2>2, RunsIs, SendStep DEF Places, Leaving
<1> QED BY <1>2, <1>3

(* The drag is over, or goes to another widget: the tree is not touched.   *)
LEMMA FieldsStep ==
    ASSUME IInv, Fine, stack # <<>> => stack[1].pc \notin Leaving, ws' \in Systems, ws'.bad = "none",
           SameWidgets([ws EXCEPT !.master = ws'.master], ws'), ws'.master \in ws.live \cup {NULL},
           ws'.parent = ws.parent, ws'.last = ws.last, ws'.next = ws.next, ws'.prev = ws.prev,
           UNCHANGED <<over, told, cause>>, ops' \in 0 .. MaxOps,
           Framed(stack'), TopLost(ws, stack'), stack' # <<>> => stack'[1].pc \notin Leaving
    PROVE  IInv'
<1>1. /\ ws'.live = ws.live /\ ws'.fresh = ws.fresh /\ ws'.top = ws.top
      /\ ws'.focused = ws.focused /\ ws'.focusFlag = ws.focusFlag
  BY Holds DEF SameWidgets, Systems
<1>2. Shape(ws', {}) BY <1>1, Holds, SameShape
<1>3. Refs(ws') BY <1>1, Holds DEF Refs
<1>4. TopLost(ws', stack') /\ OverAt(ws', stack', over') BY <1>1, OverTop DEF TopLost, OverAt
<1>5. Agrees(ws', stack', over', told') BY <1>1, <1>2, <1>3, <1>4, OverTop DEF Agrees
<1> QED BY <1>5, Holds, FineStep

LEMMA DragStopStep ==
    ASSUME IInv, DragStop PROVE IInv'
<1>1. Runs("stop") /\ "stop" \notin Leaving BY DEF DragStop, Leaving
<1>2. /\ Fine /\ stack # <<>> /\ stack[1].pc \notin Leaving /\ ws \in Systems /\ Refs(ws) /\ ws.bad = "none"
  BY <1>1, RunsIs DEF Fine
<1>3. stack' = Tail(stack) /\ UNCHANGED <<ops, over, told, cause>>
      /\ (ws' = ws \/ ws' = [ws EXCEPT !.dragging = FALSE, !.caller = NULL])
  BY DEF DragStop, Dropped, Ends
<1>4. /\ ws' \in Systems /\ ws'.bad = "none" /\ ws'.master = ws.master
      /\ SameWidgets([ws EXCEPT !.master = ws'.master], ws')
      /\ ws'.parent = ws.parent /\ ws'.last = ws.last /\ ws'.next = ws.next /\ ws'.prev = ws.prev
  <2>1. ws' \in Systems
    <3>1. CASE ws' = ws BY <3>1, <1>2
    <3>2. CASE ws' = [ws EXCEPT !.dragging = FALSE, !.caller = NULL] BY <3>2, <1>2 DEF Systems, Pointers
    <3> QED BY <3>1, <3>2, <1>3
  <2>2. SameWidgets([ws EXCEPT !.master = ws'.master], ws')
    <3>1. CASE ws' = ws BY <3>1, <1>2 DEF Systems, SameWidgets
    <3>2. CASE ws' = [ws EXCEPT !.dragging = FALSE, !.caller = NULL] BY <3>2, <1>2 DEF Systems, SameWidgets
    <3> QED BY <3>1, <3>2, <1>3
  <2>3. /\ ws'.bad = "none" /\ ws'.master = ws.master
        /\ ws'.parent = ws.parent /\ ws'.last = ws.last /\ ws'.next = ws.next /\ ws'.prev = ws.prev
    <3>1. CASE ws' = ws BY <3>1, <1>2
    <3>2. CASE ws' = [ws EXCEPT !.dragging = FALSE, !.caller = NULL] BY <3>2, <1>2 DEF Systems
    <3> QED BY <3>1, <3>2, <1>3
  <2> QED BY <2>1, <2>2, <2>3
<1>5. /\ Framed(stack')
      /\ stack' # <<>> => stack'[1].pc \notin Leaving
      /\ \A S : TopLost(S, stack) => TopLost(S, stack')
  BY <1>2, <1>3, Holds, PopStack
<1>6. ws'.master \in ws.live \cup {NULL} /\ ops' \in 0 .. MaxOps /\ TopLost(ws, stack')
  BY <1>2, <1>3, <1>4, <1>5, Holds DEF Refs
<1> QED BY <1>2, <1>3, <1>4, <1>5, <1>6, FieldsStep

LEMMA DoesIs ==
    ASSUME IInv, Does
    PROVE  /\ Fine /\ ws.bad = "none" /\ ws \in Systems /\ Shape(ws, {}) /\ Refs(ws)
           /\ stack # <<>> => stack[1].pc \notin Leaving
           /\ ops' \in 0 .. MaxOps
<1>1. stack # <<>> => stack[1].pc \notin Leaving BY FrameIs, Holds DEF Does, Acts, Framed
<1>2. ops' \in 0 .. MaxOps BY Holds, WidgetEventsAssumption DEF Does
<1> QED BY <1>1, <1>2, Holds DEF Does, Acts, Fine

LEMMA InsertStep ==
    ASSUME IInv, NEW o \in Widgets, NEW i \in Widgets, Insert(o, i) PROVE IInv'
<1> DEFINE S == _WidgetInsert(ws, o, i)
<1>1. /\ Does /\ o \in ws.live /\ i \in ws.fresh /\ Become(S, "insert")
      /\ o = DeskTop \/ ws.parent[o] = DeskTop
  BY DEF Insert
<1>2. Inserted(ws, S, i) BY <1>1, DoesIs, WidgetInsertKeeps
<1> HIDE DEF S
<1>3. /\ S \in Systems /\ S.bad = "none" /\ Shape(S, {})
      /\ S.top = ws.top /\ S.focused = ws.focused
  BY <1>2 DEF Inserted
<1>4. Refs(S) BY <1>1, <1>2, DoesIs DEF Inserted, Refs
<1> QED BY <1>1, <1>3, <1>4, BecomeStep DEF Causes

LEMMA DisposedStep ==
    ASSUME IInv, Does, NEW S, NEW why \in Causes \ {"top"}, Become(S, why), Disposed(ws, S),
           S.bad = "freed" => why = "close"
    PROVE  IInv'
<1>1. /\ S \in Systems /\ Shrinks(ws, S)
      /\ S.bad = "none" => Shape(S, {}) /\ Refs(S)
  BY DEF Disposed
<1>2. /\ ws.top \in S.live => S.top = ws.top
      /\ ws.focused \in S.live => S.focused = ws.focused
  BY <1>1 DEF Shrinks
<1> QED BY <1>1, <1>2, BecomeStep

LEMMA DisposeStep ==
    ASSUME IInv, NEW o \in Widgets, Dispose(o) PROVE IInv'
<1>1. Does /\ o \in ws.live /\ o # DeskTop /\ Become(WidgetDispose(ws, o), "first") BY DEF Dispose
<1>2. Disposed(ws, WidgetDispose(ws, o)) /\ WidgetDispose(ws, o).bad # "freed"
  BY <1>1, DoesIs, WidgetDisposeKeeps
<1> QED BY <1>1, <1>2, DisposedStep DEF Causes

LEMMA CloseAppStep ==
    ASSUME IInv, NEW app \in Apps, CloseApp(app) PROVE IInv'
<1>1. Does /\ Become(DisposeAllAppWidgets(ws, app), "close") BY DEF CloseApp
<1>2. Disposed(ws, DisposeAllAppWidgets(ws, app)) BY <1>1, DoesIs, CloseAppKeeps
<1> QED BY <1>1, <1>2, DisposedStep DEF Causes

LEMMA WidgetSetFirstStep ==
    ASSUME IInv, NEW o \in Widgets, WidgetSetFirst(o) PROVE IInv'
<1> DEFINE p == ws.parent[o]
           A == _WidgetSetFirstEx(ws, p, o)
           S == IF A.bad # "none" THEN A ELSE WidgetSelect(A, o)
<1>1. Does /\ o \in ws.live /\ o \in Windows /\ Become(S, "first") BY DEF WidgetSetFirst
<1>2. ws.bad = "none" /\ ws \in Systems /\ Shape(ws, {}) /\ Refs(ws) BY <1>1, DoesIs
<1>3. p \in ws.live /\ o \in Children(ws, p)
  BY <1>1, <1>2, WidgetAssumption DEF Shape, Rooted, Children
<1> HIDE DEF p
<1>4. /\ A \in Systems /\ SameWidgets(ws, A)
      /\ A.bad = "null" \/ (A.bad = "none" /\ Shape(A, {}))
  BY <1>2, <1>3, SetFirstEx
<1> HIDE DEF A
<1>5. /\ S \in Systems /\ SameWidgets(ws, S)
      /\ S.bad = "null" \/ (S.bad = "none" /\ Shape(S, {}))
  <2>1. CASE A.bad = "null" BY <2>1, <1>4
  <2>2. CASE A.bad = "none"
    <3> DEFINE B == WidgetSelect(A, o)
    <3>1. o \in A.live /\ Shape(A, {}) BY <2>2, <1>1, <1>4 DEF SameWidgets
    <3>2. /\ B \in Systems /\ SameWidgets(A, B)
          /\ B.bad = "null" \/ (B.bad = "none" /\ Shape(B, {}))
      BY <2>2, <3>1, <1>4, WidgetSelectKeeps
    <3>3. S = B BY <2>2
    <3> HIDE DEF B, S
    <3> QED BY <3>2, <3>3, <1>4 DEF SameWidgets
  <2> QED BY <1>4, <2>1, <2>2
<1> HIDE DEF S
<1>6. Refs(S) /\ S.top = ws.top /\ S.focused = ws.focused
  BY <1>2, <1>5, ShrinksSame DEF SameWidgets
<1> QED BY <1>1, <1>5, <1>6, BecomeStep DEF Causes

LEMMA WidgetSetFocusStep ==
    ASSUME IInv, NEW o \in Widgets, WidgetSetFocus(o) PROVE IInv'
<1>1. Does /\ o \in ws.live /\ Len(stack) < MaxDepth /\ SetFocus(o, stack) /\ UNCHANGED <<over, cause>>
  BY DEF WidgetSetFocus
<1>2. Len(stack) <= MaxDepth
  BY <1>1, Holds, WidgetEventsAssumption, LenProperties DEF Framed
<1> QED BY <1>1, <1>2, DoesIs, Holds, SetFocusStep

LEMMA MasterWidgetStep ==
    ASSUME IInv, NEW p \in Pointers, MasterWidget(p) PROVE IInv'
<1>1. /\ Does /\ p \in ws.live \cup {NULL} /\ ws' = [ws EXCEPT !.master = p]
      /\ UNCHANGED <<stack, over, told, cause>>
  BY DEF MasterWidget
<1>2. /\ ws' \in Systems /\ ws'.bad = "none" /\ ws'.master = p
      /\ SameWidgets([ws EXCEPT !.master = ws'.master], ws')
      /\ ws'.parent = ws.parent /\ ws'.last = ws.last /\ ws'.next = ws.next /\ ws'.prev = ws.prev
  BY <1>1, DoesIs DEF Systems, SameWidgets
<1> QED BY <1>1, <1>2, DoesIs, Holds, FieldsStep

(* DragStart has no TopWidget to look at only in a mouse handler that has  *)
(* lost it.                                                                *)
LEMMA DragStartStep ==
    ASSUME IInv, DragStart PROVE IInv'
<1>1. /\ Does /\ stack # <<>> /\ Frame.how = "mouse" /\ Frame.at \in ws.live
      /\ ws' = [ws EXCEPT !.dragging = TRUE, !.caller = Frame.at,
                          !.bad = IF ws.top = NULL THEN "null" ELSE @]
      /\ cause' = IF ws.top = NULL THEN "top" ELSE cause
      /\ UNCHANGED <<stack, over, told>>
  BY DEF DragStart
<1>2. Frame = stack[1] /\ Frame \in Calls /\ 1 \in 1 .. Len(stack) BY <1>1, FrameIs
<1>3. ws'\in Systems BY <1>1, <1>2, DoesIs, CallFields DEF Systems
<1>4. CASE ws.top = NULL
  <2>1. ~ OfFocus(stack[1]) BY <1>1, <1>2, Holds DEF Framed
  <2>2. stack[1].lost BY <2>1, <1>1, <1>2, <1>4, DoesIs, Holds DEF TopLost
  <2>3. ws'.bad = "null" /\ cause' = "top" BY <1>1, <1>4, DoesIs DEF Systems
  <2> QED BY <1>1, <1>3, <2>2, <2>3, DoesIs, Holds, FatalStep DEF Causes
<1>5. CASE ws.top # NULL
  <2>1. /\ ws'.bad = "none" /\ ws'.master = ws.master
        /\ SameWidgets([ws EXCEPT !.master = ws'.master], ws')
        /\ ws'.parent = ws.parent /\ ws'.last = ws.last /\ ws'.next = ws.next /\ ws'.prev = ws.prev
    BY <1>1, <1>5, DoesIs DEF Systems, SameWidgets
  <2>2. ws'.master \in ws.live \cup {NULL} BY <2>1, <1>1, DoesIs DEF Refs
  <2> QED BY <1>1, <1>3, <1>5, <2>1, <2>2, DoesIs, Holds, FieldsStep
<1> QED BY <1>4, <1>5

-----------------------------------------------------------------------------
LEMMA InitIInv == Init => IInv
<1> SUFFICES ASSUME Init PROVE IInv OBVIOUS
<1>1. PICK s \in Orders : ws = Filled(s) BY DEF Init
<1>2. s \in Seq(Widgets \ {DeskTop}) /\ Distinct(s) BY WidgetEventsAssumption
<1>3. FilledWith(s, Len(s), ws) BY <1>1, <1>2, FilledIs
<1>4. /\ ws \in Systems /\ ws.bad = "none" /\ Shape(ws, {})
      /\ ws.top = NULL /\ ws.master = NULL /\ ws.focused = NULL /\ ws.focusFlag = {}
  BY <1>3 DEF FilledWith
<1>5. Refs(ws) BY <1>4 DEF Refs
<1>6. stack = <<>> /\ ops = 0 /\ over = {} /\ told = {} /\ cause = "none" BY DEF Init
<1>7. MaxDepth \in Nat \ {0} /\ MaxOps \in Nat BY WidgetEventsAssumption
<1>8. stack \in Seq(Calls) /\ Len(stack) = 0 BY <1>6, EmptySeq
<1>9. Framed(stack) BY <1>7, <1>8 DEF Framed
<1>10. TypeOK BY <1>4, <1>6, <1>7, <1>8 DEF TypeOK
<1>11. FatalOnlyIf BY <1>4 DEF FatalOnlyIf
<1>12. Agrees(ws, stack, over, told) BY <1>4, <1>5, <1>6, <1>8 DEF Agrees, TopLost, OverAt
<1> QED BY <1>9, <1>10, <1>11, <1>12 DEF IInv

LEMMA NextIInv == IInv /\ [Next]_vars => IInv'
<1> SUFFICES ASSUME IInv, [Next]_vars PROVE IInv' OBVIOUS
<1>1. CASE UNCHANGED vars
  BY <1>1 DEF vars, IInv, TypeOK, Framed, FatalOnlyIf, Fine, Agrees, TopLost, OverAt, OfFocus
<1>2. ASSUME NEW taken \in BOOLEAN, Returns(taken) PROVE IInv' BY <1>2, ReturnsStep
<1>3. CASE NotifyFocused BY <1>3, NotifyFocusedStep
<1>4. CASE KeyEvent BY <1>4, KeyEventStep
<1>5. ASSUME NEW t \in Widgets, MouseEvent(t) PROVE IInv' BY <1>5, MouseEventStep
<1>6. CASE Left BY <1>6, LeftStep
<1>7. CASE LeftFlag BY <1>7, LeftFlagStep
<1>8. CASE Enter BY <1>8, EnterStep
<1>9. CASE Notice BY <1>9, NoticeStep
<1>10. CASE NoButton BY <1>10, NoButtonStep
<1>11. CASE Press BY <1>11, PressStep
<1>12. CASE Select BY <1>12, SelectStep
<1>13. CASE Release BY <1>13, ReleaseStep
<1>14. CASE Button BY <1>14, ButtonStep
<1>15. CASE NoMoreButtons BY <1>15, NoMoreButtonsStep
<1>16. CASE NoDrop BY <1>16, NoDropStep
<1>17. ASSUME NEW accepted \in BOOLEAN, Drop(accepted) PROVE IInv' BY <1>17, DropStep
<1>18. CASE Cancel BY <1>18, CancelStep
<1>19. CASE DropData BY <1>19, DropDataStep
<1>20. CASE DragAfterDrop BY <1>20, DragAfterDropStep
<1>21. CASE DragStop BY <1>21, DragStopStep
<1>22. ASSUME NEW o \in Widgets, NEW i \in Widgets, Insert(o, i) PROVE IInv' BY <1>22, InsertStep
<1>23. ASSUME NEW o \in Widgets, Dispose(o) PROVE IInv' BY <1>23, DisposeStep
<1>24. ASSUME NEW o \in Widgets, WidgetSetFirst(o) PROVE IInv' BY <1>24, WidgetSetFirstStep
<1>25. ASSUME NEW o \in Widgets, WidgetSetFocus(o) PROVE IInv' BY <1>25, WidgetSetFocusStep
<1>26. ASSUME NEW app \in Apps, CloseApp(app) PROVE IInv' BY <1>26, CloseAppStep
<1>27. ASSUME NEW p \in Pointers, MasterWidget(p) PROVE IInv' BY <1>27, MasterWidgetStep
<1>28. CASE DragStart BY <1>28, DragStartStep
<1> QED
  BY <1>1, <1>2, <1>3, <1>4, <1>5, <1>6, <1>7, <1>8, <1>9, <1>10, <1>11, <1>12, <1>13, <1>14,
     <1>15, <1>16, <1>17, <1>18, <1>19, <1>20, <1>21, <1>22, <1>23, <1>24, <1>25, <1>26, <1>27, <1>28
     DEF Next

LEMMA IInvAll == Spec => []IInv
BY InitIInv, NextIInv, PTL DEF Spec

(* The widget tree stays linked whatever handlers do to it while events are *)
(* under way: the children of every widget are one ring that agrees in both *)
(* directions, and every widget is in the ring of its parent.               *)
THEOREM TreeLinkedAll == Spec => []TreeLinked
<1>1. IInv => TreeLinked
  <2> SUFFICES ASSUME IInv, Fine
               PROVE  /\ \A o \in ws.live : LET s == Kids(ws, o) IN
                            Range(s) = Children(ws, o) /\ Distinct(s) /\ Linked(Ring(ws, o), s)
                      /\ \A w \in ws.live \ {DeskTop} : ws.parent[w] \in ws.live
    BY DEF IInv, TreeLinked
  <2>1. ws \in Systems /\ Shape(ws, {}) BY Holds
  <2>2. ASSUME NEW o \in ws.live
        PROVE  LET s == Kids(ws, o) IN
                 Range(s) = Children(ws, o) /\ Distinct(s) /\ Linked(Ring(ws, o), s)
    <3>1. o \in Widgets /\ HasRing(ws, o) BY <2>1, Fields DEF Shape
    <3> QED BY <2>1, <3>1, KidsAre
  <2>3. \A w \in ws.live \ {DeskTop} : ws.parent[w] \in ws.live BY <2>1 DEF Shape, Rooted
  <2> QED BY <2>2, <2>3
<1> QED BY <1>1, IInvAll, PTL

(* TopWidget, MasterWidget and FocusedWidget never lead to a widget that   *)
(* was freed, the focused widget alone has the flag, and no other one has  *)
(* been told that it got the focus and not that it lost it.                *)
THEOREM FocusAgreesAll == Spec => []FocusAgrees
<1>1. IInv => FocusAgrees
  BY Holds DEF Refs, FocusAgrees
<1> QED BY <1>1, IInvAll, PTL

(* The mouse is over one widget at most, also when handlers run the main   *)
(* loop.                                                                   *)
THEOREM MouseOverOneAll == Spec => []MouseOverOne
<1>1. IInv => MouseOverOne
  <2> SUFFICES ASSUME IInv, Fine
               PROVE  Cardinality(over) <= 1 /\ (stack = <<>> => over \subseteq {ws.top})
    BY DEF MouseOverOne
  <2>1. OverAt(ws, stack, over) BY Holds
  <2>2. PICK x : over \subseteq {x} BY <2>1 DEF OverAt
  <2>3. IsFiniteSet({x}) /\ Cardinality({x}) = 1 BY FS_Singleton
  <2>4. Cardinality(over) <= 1 BY <2>2, <2>3, FS_Subset
  <2> QED BY <2>1, <2>4 DEF OverAt
<1> QED BY <1>1, IInvAll, PTL

(* Freed memory and NULL are read for a widget in the few ways that        *)
(* FatalOnlyIf lists: never through FocusedWidget, and through TopWidget   *)
(* only by a call whose own handlers disposed of it.                       *)
THEOREM FatalOnlyIfAll == Spec => []FatalOnlyIf
<1>1. IInv => FatalOnlyIf BY DEF IInv
<1> QED BY <1>1, IInvAll, PTL

-----------------------------------------------------------------------------
(* What _DisposeAllAppWidgets leaves.  M are the widgets of the            *)
(* application: none of them is the last of its ring, and none selected.   *)
Clear(S, M) ==
    /\ S \in Systems /\ Shape(S, {}) /\ Refs(S) /\ S.bad = "none"
    /\ \A w \in S.live : S.last[w] \notin M /\ (w \in M => w \notin S.selected)

(* What the walk takes where it visits o. *)
Doomed(S, M, o) == {w \in S.live : w \in {o} \cup Children(S, o) /\ {w, S.parent[w]} \cap M # {}}

(* R is S without D: the rings skip what is gone. *)
Takes(S, R, D) ==
    /\ R.live = S.live \ D
    /\ \A w \in R.live :
          /\ R.parent[w] = S.parent[w] /\ R.last[w] = S.last[w]
          /\ S.next[w] \notin D => R.next[w] = S.next[w]

LEMMA TakesNothing == \A S : Takes(S, S, {})
BY DEF Takes

LEMMA TakesAgain ==
    ASSUME NEW S, NEW R, NEW U, NEW D, NEW E, Takes(S, R, D), Takes(R, U, E)
    PROVE  Takes(S, U, D \cup E)
<1>1. U.live = S.live \ (D \cup E) /\ U.live \subseteq R.live BY DEF Takes
<1>2. ASSUME NEW w \in U.live
      PROVE  /\ U.parent[w] = S.parent[w] /\ U.last[w] = S.last[w]
             /\ S.next[w] \notin D \cup E => U.next[w] = S.next[w]
  BY <1>1 DEF Takes
<1> QED BY <1>1, <1>2 DEF Takes

(* A disposal of one of them. *)
LEMMA DisposeTakes ==
    ASSUME NEW S, NEW M \in SUBSET (Widgets \ {DeskTop}), Clear(S, M), NEW i \in S.live \cap M
    PROVE  LET R == WidgetDispose(S, i) IN Clear(R, M) /\ Takes(S, R, Doomed(S, M, i))
<1> DEFINE o == S.parent[i]
           C == Children(S, o)
           m == Ring(S, o)
           u == Unlink(m, i)
           A == RemoveWidgetEx(S, o, i)
           gone == {w \in A.live : w = i \/ A.parent[w] = i}
           R == WidgetDispose(S, i)
<1>0. /\ S \in Systems /\ Shape(S, {}) /\ Refs(S) /\ S.bad = "none" /\ i # DeskTop /\ i \in Widgets
      /\ S.last[o] \notin M /\ i \notin S.selected /\ NULL \notin Widgets /\ S.live \subseteq Widgets
  <2>1. S \in Systems /\ Shape(S, {}) /\ Refs(S) /\ S.bad = "none" /\ i # DeskTop /\ i \notin S.selected
    BY DEF Clear
  <2>2. o \in S.live BY <2>1 DEF Shape, Rooted
  <2> QED BY <2>1, <2>2, Fields, WidgetAssumption DEF Clear
<1>1. /\ o \in S.live /\ o \in Widgets /\ i \in C
      /\ m \in Memories(Widgets) /\ RingOn(m, C, Widgets)
      /\ m.last = S.last[o] /\ m.next = S.next /\ m.prev = S.prev
  <2>1. o \in S.live /\ o \in Widgets /\ i \in C BY <1>0 DEF Shape, Rooted, Children
  <2>2. HasRing(S, o) BY <1>0, <2>1 DEF Shape
  <2> QED BY <1>0, <2>1, <2>2, RingType DEF HasRing
<1> HIDE DEF C, m
<1>2. m.next[i] # i
  <2> SUFFICES ASSUME m.next[i] = i PROVE FALSE OBVIOUS
  <2> DEFINE P == {i}
  <2>1. P \subseteq C /\ P # {} /\ \A x \in P : m.next[x] \in P BY <1>1
  <2> HIDE DEF P
  <2>2. P = C BY <1>0, <1>1, <2>1, RingCloses
  <2>3. m.last \in C BY <1>0, <1>1, RingEnds
  <2> QED BY <1>0, <1>1, <2>2, <2>3 DEF P
<1>3. m.next[m.prev[i]] = i /\ m.prev[i] \in C BY <1>0, <1>1, RingBack
<1>4. u \in Memories(Widgets) BY <1>0, <1>1, RingUnlink
<1>5. u.last = S.last[o] /\ u.next = [S.next EXCEPT ![S.prev[i]] = S.next[i]]
  <2>1. m.last # i BY <1>0, <1>1
  <2> QED BY <1>1, <1>2, <2>1 DEF Unlink
<1>6. RingPut(S, A, o, u, [S.parent EXCEPT ![i] = NULL]) BY <1>0, <1>1, <1>4, RemoveWidgetExIs DEF m
<1> HIDE DEF A, u
<1>7. /\ A \in Systems /\ A.live = S.live /\ A.parent = [S.parent EXCEPT ![i] = NULL]
      /\ A.last = [S.last EXCEPT ![o] = S.last[o]] /\ A.next = u.next
      /\ A.bad = "none" /\ A.selected = S.selected
  BY <1>0, <1>5, <1>6 DEF RingPut, SameWidgets
<1>8. /\ \A w \in Widgets \ {i} : A.parent[w] = S.parent[w]
      /\ \A w \in Widgets : A.last[w] = S.last[w] /\ (S.next[w] # i => A.next[w] = S.next[w])
      /\ A.parent[i] = NULL
  BY <1>0, <1>1, <1>3, <1>5, <1>7, Fields
<1>9. gone = Doomed(S, M, i)
  <2>1. ASSUME NEW w \in S.live PROVE w \in gone <=> w = i \/ S.parent[w] = i
    BY <1>0, <1>7, <1>8
  <2>2. ASSUME NEW w \in S.live PROVE w \in Doomed(S, M, i) <=> w = i \/ S.parent[w] = i
    BY DEF Doomed, Children
  <2>3. gone \subseteq S.live /\ Doomed(S, M, i) \subseteq S.live BY <1>7 DEF Doomed
  <2> QED BY <2>1, <2>2, <2>3
<1> DEFINE without(f) == [w \in Widgets |-> IF w \in gone THEN NULL ELSE f[w]]
<1>10. R = WidgetDisposeEx(A, i)
  <2>1. _WidgetRemove(S, o, i) = A BY <1>0 DEF _WidgetRemove, A
  <2> QED BY <2>1, <1>7 DEF WidgetDispose
<1>11. /\ R.live = A.live \ gone /\ R.selected = A.selected \ gone /\ R.bad = A.bad
       /\ R.parent = without(A.parent) /\ R.last = without(A.last) /\ R.next = without(A.next)
  <2>1. A = A /\ R = [Cleared(A, gone) EXCEPT
                  !.top = IF @ \in gone THEN NULL ELSE @, !.master = IF @ \in gone THEN NULL ELSE @,
                  !.focused = IF @ \in gone THEN NULL ELSE @]
    BY <1>10 DEF WidgetDisposeEx
  <2> HIDE DEF gone, R
  <2> QED BY <2>1, <1>7 DEF Cleared, Systems
<1> HIDE DEF R, gone
<1>12. \A w \in R.live : w \in Widgets /\ R.parent[w] = A.parent[w] /\ R.last[w] = A.last[w]
                         /\ R.next[w] = A.next[w]
  BY <1>0, <1>7, <1>11
<1>13. i \in gone BY <1>7 DEF gone
<1>14. Takes(S, R, gone)
  <2>1. R.live = S.live \ gone BY <1>7, <1>11
  <2>2. ASSUME NEW w \in R.live
        PROVE  /\ R.parent[w] = S.parent[w] /\ R.last[w] = S.last[w]
               /\ S.next[w] \notin gone => R.next[w] = S.next[w]
    <3>1. w \in Widgets \ {i} BY <1>12, <1>13, <2>1
    <3>2. R.parent[w] = A.parent[w] /\ R.last[w] = A.last[w] /\ R.next[w] = A.next[w] BY <1>12
    <3>3. S.next[w] \notin gone => S.next[w] # i BY <1>13
    <3> QED BY <1>8, <3>1, <3>2, <3>3
  <2> QED BY <2>1, <2>2 DEF Takes
<1>15. R \in Systems /\ Shape(R, {}) /\ Refs(R)
  <2>1. Disposed(S, R) BY <1>0, WidgetDisposeKeeps DEF R
  <2> QED BY <2>1, <1>7, <1>11 DEF Disposed
<1>16. Clear(R, M)
  <2>1. ASSUME NEW w \in R.live PROVE R.last[w] \notin M /\ (w \in M => w \notin R.selected)
    <3>1. w \in S.live /\ w \in Widgets /\ R.last[w] = S.last[w] BY <1>7, <1>8, <1>11, <1>12
    <3>2. R.selected \subseteq S.selected BY <1>7, <1>11
    <3> QED BY <3>1, <3>2 DEF Clear
  <2> QED BY <2>1, <1>7, <1>11, <1>15 DEF Clear
<1> QED BY <1>9, <1>14, <1>16 DEF R

LEMMA NotItsOwnParent ==
    ASSUME NEW S \in Systems, Shape(S, {}), NEW o \in S.live, NEW c \in Children(S, o)
    PROVE  c # o /\ S.parent[o] # c /\ S.parent[c] = o
<1>1. S.parent[c] = o /\ c # NULL /\ o # NULL BY Fields, WidgetAssumption DEF Children
<1>2. S.parent[DeskTop] = NULL BY DEF Shape, Rooted
<1>3. S.parent[o] # NULL => S.parent[S.parent[o]] \in {NULL, DeskTop} BY DEF Shape, Levels
<1> QED BY <1>1, <1>2, <1>3

(* A walk over the children of o which is to take what they say: at its    *)
(* j-th turn it is at t[j], and after the last one it is over.             *)
Taken(S, M, t, j) == {w \in S.live : \E i \in 1 .. j : w \in Doomed(S, M, t[i])}

Along(S, M, t, j, X) ==
    /\ X \in DisposalWalks /\ Clear(X.s, M) /\ Takes(S, X.s, Taken(S, M, t, j - 1))
    /\ X.on <=> j <= Len(t)
    /\ j <= Len(t) => X.a = t[j]

Rounds(S, o, t) ==
    /\ Distinct(t) /\ Range(t) = Children(S, o) /\ Len(t) \in Nat \ {0}
    /\ t[1] = S.last[o] /\ S.next[t[Len(t)]] = t[1]
    /\ \A j \in 1 .. Len(t) : t[j] \in Children(S, o)
    /\ \A j \in 1 .. (Len(t) - 1) : S.next[t[j]] = t[j + 1]

(* What is beyond j is still there at turn j. *)
LEMMA AheadStays ==
    ASSUME NEW S, NEW M, Clear(S, M), NEW o \in S.live \ M, NEW t, Rounds(S, o, t),
           NEW j \in 1 .. Len(t)
    PROVE  /\ \A k \in j .. Len(t) : t[k] \notin Taken(S, M, t, j - 1)
           /\ \A k \in 0 .. Len(t) : t[1] \notin Taken(S, M, t, k) /\ o \notin Taken(S, M, t, k)
<1>1. S \in Systems /\ Shape(S, {}) /\ t[1] = S.last[o] /\ t[1] \notin M BY DEF Clear, Rounds
<1>2. ASSUME NEW k \in 1 .. Len(t) PROVE t[k] # o /\ S.parent[o] # t[k] /\ S.parent[t[k]] = o
  BY <1>1, NotItsOwnParent DEF Rounds
<1>3. ASSUME NEW i \in 1 .. Len(t) PROVE o \notin Doomed(S, M, t[i])
  BY <1>2 DEF Doomed, Children
<1>4. ASSUME NEW i \in 1 .. Len(t) PROVE t[1] \notin Doomed(S, M, t[i])
  <2>1. S.parent[t[1]] = o BY <1>2 DEF Rounds
  <2> QED BY <1>1, <2>1 DEF Doomed
<1>5. ASSUME NEW i \in 1 .. Len(t), NEW k \in 1 .. Len(t), i # k PROVE t[k] \notin Doomed(S, M, t[i])
  <2>1. t[k] # t[i] BY <1>5 DEF Rounds, Distinct
  <2>2. S.parent[t[k]] # t[i] BY <1>2
  <2> QED BY <2>1, <2>2 DEF Doomed, Children
<1>6. Len(t) \in Nat BY DEF Rounds
<1>7. ASSUME NEW k \in j .. Len(t) PROVE t[k] \notin Taken(S, M, t, j - 1)
  <2>1. k \in 1 .. Len(t) /\ \A i \in 1 .. (j - 1) : i \in 1 .. Len(t) /\ i # k BY <1>6
  <2> QED BY <2>1, <1>5 DEF Taken
<1>8. ASSUME NEW k \in 0 .. Len(t) PROVE t[1] \notin Taken(S, M, t, k) /\ o \notin Taken(S, M, t, k)
  <2>1. \A i \in 1 .. k : i \in 1 .. Len(t) BY <1>6
  <2> QED BY <2>1, <1>3, <1>4 DEF Taken
<1> QED BY <1>7, <1>8


LEMMA AlongThere ==
    ASSUME NEW S, NEW M, Clear(S, M), NEW o \in S.live \ M, NEW t, Rounds(S, o, t),
           NEW j \in 1 .. Len(t), NEW X, Along(S, M, t, j, X)
    PROVE  /\ X.on /\ X.a = t[j] /\ Clear(X.s, M) /\ Takes(S, X.s, Taken(S, M, t, j - 1))
           /\ X.a \in X.s.live /\ X.s.parent[X.a] = o /\ o \in X.s.live
<1>1. t[j] \in S.live /\ S.parent[t[j]] = o /\ Len(t) \in Nat BY DEF Rounds, Children
<1>2. /\ X.on /\ X.a = t[j] /\ Clear(X.s, M) /\ Takes(S, X.s, Taken(S, M, t, j - 1))
  BY <1>1 DEF Along
<1>3. j \in j .. Len(t) /\ j - 1 \in 0 .. Len(t) BY <1>1
<1>4. t[j] \notin Taken(S, M, t, j - 1) /\ o \notin Taken(S, M, t, j - 1) BY <1>3, AheadStays
<1>5. t[j] \in X.s.live /\ o \in X.s.live BY <1>1, <1>2, <1>4 DEF Takes
<1> QED BY <1>1, <1>2, <1>5 DEF Takes

(* One turn of it. *)
LEMMA AlongOnce ==
    ASSUME NEW S, NEW M \in SUBSET Widgets, Clear(S, M), NEW o \in S.live \ M, NEW t, Rounds(S, o, t),
           NEW j \in 1 .. Len(t), NEW X, Along(S, M, t, j, X),
           NEW R, Clear(R, M), Takes(X.s, R, Doomed(X.s, M, X.a)),
           NEW Y, Y = [s |-> R, a |-> X.s.next[X.a], on |-> X.s.next[X.a] # R.last[o]]
    PROVE  Along(S, M, t, j + 1, Y)
<1> DEFINE D == Taken(S, M, t, j - 1)
           E == Taken(S, M, t, j)
           F == Doomed(X.s, M, X.a)
<1>0. /\ Len(t) \in Nat \ {0} /\ j \in Nat /\ j <= Len(t) /\ 1 \in 1 .. Len(t)
      /\ X.a = t[j] /\ Clear(X.s, M) /\ Takes(S, X.s, D)
  <2>1. Len(t) \in Nat \ {0} BY DEF Rounds
  <2>2. j \in Nat /\ j <= Len(t) /\ 1 \in 1 .. Len(t) BY <2>1
  <2>3. X.a = t[j] /\ Clear(X.s, M) /\ Takes(S, X.s, D) BY AlongThere
  <2> QED BY <2>1, <2>2, <2>3
<1>1. o \notin E /\ t[1] \notin D /\ (j < Len(t) => t[j + 1] \notin D)
  <2>1. j \in 0 .. Len(t) /\ j - 1 \in 0 .. Len(t) /\ (j < Len(t) => j + 1 \in j .. Len(t))
    BY <1>0
  <2> QED BY <2>1, AheadStays
<1>2. X.s.live = S.live \ D /\ \A w \in X.s.live : X.s.parent[w] = S.parent[w] BY <1>0 DEF Takes
<1>3. X.a \in X.s.live /\ X.s.parent[X.a] = o BY AlongThere
<1>4. Clear(R, M) /\ Takes(X.s, R, F) OBVIOUS
<1>5. D \cup F = E
  <2>1. ASSUME NEW w \in S.live PROVE w \in E <=> w \in D \/ w \in Doomed(S, M, t[j])
    <3>1. 1 .. j = (1 .. (j - 1)) \cup {j} BY <1>0
    <3> QED BY <3>1 DEF Taken
  <2>2. ASSUME NEW w \in S.live, w \notin D PROVE w \in F <=> w \in Doomed(S, M, t[j])
    BY <2>2, <1>0, <1>2 DEF Doomed, Children
  <2>3. D \subseteq S.live /\ E \subseteq S.live /\ F \subseteq S.live \ D
    BY <1>2 DEF Taken, Doomed
  <2> HIDE DEF D, E, F
  <2> QED BY <2>1, <2>2, <2>3
<1> HIDE DEF D, E, F
<1>6. Takes(S, R, E)
  <2>1. Takes(S, R, D \cup F) BY <1>0, <1>4, TakesAgain
  <2> QED BY <2>1, <1>5
<1>7. R.last[o] = t[1]
  <2>1. o \in R.live BY <1>1, <1>6 DEF Takes
  <2> QED BY <2>1, <1>6 DEF Takes, Rounds
<1>8. X.s.next[X.a] = IF j < Len(t) THEN t[j + 1] ELSE t[1]
  <2>1. S.next[t[j]] = IF j < Len(t) THEN t[j + 1] ELSE t[1]
    <3>1. j < Len(t) => j \in 1 .. (Len(t) - 1) BY <1>0
    <3>2. ~ (j < Len(t)) => j = Len(t) BY <1>0
    <3> QED BY <3>1, <3>2 DEF Rounds
  <2>2. S.next[t[j]] \notin D BY <2>1, <1>1
  <2> QED BY <2>1, <2>2, <1>0, <1>3 DEF Takes
<1>9. j < Len(t) => t[j + 1] # t[1]
  <2>1. j < Len(t) => j + 1 \in 1 .. Len(t) /\ j + 1 # 1 BY <1>0
  <2> QED BY <2>1, <1>0 DEF Rounds, Distinct
<1> DEFINE n == X.s.next[X.a]
           on == n # t[1]
<1>10. Y = [s |-> R, a |-> n, on |-> on] /\ on \in BOOLEAN /\ on = (j < Len(t)) BY <1>7, <1>8, <1>9
<1>11. n \in Pointers /\ R \in Systems
  <2>1. X.s \in Systems /\ X.a \in Widgets BY <1>0, <1>3, Fields DEF Clear
  <2> QED BY <2>1, <1>4, Fields DEF Clear
<1>12. j + 1 <= Len(t) <=> j < Len(t) BY <1>0
<1>13. n = t[j + 1] \/ ~ (j < Len(t)) BY <1>8
<1> HIDE DEF n, on
<1>14. Y \in DisposalWalks /\ Y.s = R /\ Y.a = n /\ Y.on = on BY <1>10, <1>11 DEF DisposalWalks
<1>15. (j + 1) - 1 = j BY <1>0
<1>16. Takes(S, Y.s, Taken(S, M, t, (j + 1) - 1)) BY <1>6, <1>14, <1>15 DEF E
<1>17. Y.on <=> j + 1 <= Len(t) BY <1>10, <1>12, <1>14
<1> QED BY <1>4, <1>13, <1>12, <1>14, <1>16, <1>17 DEF Along

(* The turns g of a walk over the children of o, each of which takes what  *)
(* it should.                                                              *)
TakesEach(g, M, o) ==
    /\ \A X \in DisposalWalks : ~ X.on => g[X] = X
    /\ \A X \in DisposalWalks :
          X.on /\ Clear(X.s, M) /\ o \in X.s.live /\ X.a \in X.s.live /\ X.s.parent[X.a] = o =>
            \E R : /\ Clear(R, M) /\ Takes(X.s, R, Doomed(X.s, M, X.a))
                   /\ g[X] = [s |-> R, a |-> X.s.next[X.a], on |-> X.s.next[X.a] # R.last[o]]

LEMMA WalkTakes ==
    ASSUME NEW S, NEW M \in SUBSET Widgets, Clear(S, M), NEW o \in S.live \ M, S.last[o] # NULL,
           NEW g, TakesEach(g, M, o),
           NEW R, R = WalkAlong([s |-> S, a |-> S.last[o], on |-> TRUE], g, Turns + 1)[Turns + 1].s
    PROVE  Clear(R, M) /\ Takes(S, R, {w \in S.live : \E c \in Children(S, o) : w \in Doomed(S, M, c)})
<1> DEFINE m == Ring(S, o)
           C == Children(S, o)
<1>1. /\ S \in Systems /\ o \in Widgets /\ NULL \notin Widgets /\ RingOn(m, C, Widgets)
      /\ m.last = S.last[o] /\ m.next = S.next
  <2>1. S \in Systems /\ HasRing(S, o) BY DEF Clear, Shape
  <2> QED BY <2>1, Fields, RingType, WidgetAssumption DEF HasRing
<1> HIDE DEF m, C
<1>2. PICK q \in Seq(Widgets) : Distinct(q) /\ Range(q) = C /\ Linked(m, q) BY <1>1, Zenon DEF RingOn
<1>3. Len(q) # 0
  <2>1. q # <<>> BY <1>1, <1>2 DEF Linked
  <2> QED BY <2>1, EmptySeq
<1>4. PICK t \in Seq(Widgets) :
        /\ Len(t) = Len(q) /\ Distinct(t) /\ Range(t) = C
        /\ LeadThrough(m.last, m.next, t, Len(t)) /\ m.next[t[Len(t)]] = m.last
  BY <1>2, <1>3, RingFromLast
<1> DEFINE n == Len(t)
           K == Turns + 1
           a == [s |-> S, a |-> S.last[o], on |-> TRUE]
           w == WalkAlong(a, g, K)
<1>5. n \in Nat \ {0} /\ \A j \in 1 .. n : t[j] \in C BY <1>3, <1>4, LenProperties, RangeIs
<1>6. Rounds(S, o, t) BY <1>1, <1>4, <1>5 DEF Rounds, LeadThrough, C
<1>7. n + 1 \in 1 .. K /\ K \in Nat
  <2> DEFINE c == Cardinality(Widgets)
  <2>1. c \in Nat /\ n <= c BY <1>4, WidgetAssumption, FS_CardinalityType, DistinctFits
  <2>2. Turns = c * c BY DEF Turns
  <2> HIDE DEF c, n
  <2>3. c * c \in Nat /\ c <= c * c BY <2>1
  <2>4. Turns \in Nat /\ n <= Turns /\ n \in Nat
    <3> DEFINE e == c * c
    <3>1. e \in Nat /\ c <= e /\ Turns = e BY <2>2, <2>3
    <3> HIDE DEF e
    <3> QED BY <1>5, <2>1, <3>1 DEF n
  <2> QED BY <2>4
<1>8. \A j \in 1 .. K : w[j] = IF j = 1 THEN a ELSE g[w[j - 1]]
  <2> HIDE DEF a, K
  <2>1. w = [j \in 1 .. K |-> IF j = 1 THEN a ELSE g[w[j - 1]]] BY <1>7, WalkAlongDef
  <2> HIDE DEF w
  <2> QED BY <2>1
<1>9. R = w[K].s OBVIOUS
<1> HIDE DEF w, K, n
<1>10. Along(S, M, t, 1, a)
  <2>1. Taken(S, M, t, 1 - 1) = {} BY DEF Taken
  <2>2. a \in DisposalWalks BY <1>1, Fields DEF DisposalWalks
  <2>3. a.s = S /\ a.on /\ a.a = t[1] /\ 1 <= Len(t) BY <1>5, <1>6 DEF Rounds, n
  <2> HIDE DEF a
  <2> QED BY <2>1, <2>2, <2>3, TakesNothing DEF Along
<1> HIDE DEF a
<1> DEFINE A == {j \in Nat : j \in 1 .. (n + 1) => Along(S, M, t, j, w[j])}
<1>11. ASSUME NEW j \in 1 .. n, Along(S, M, t, j, w[j]) PROVE Along(S, M, t, j + 1, w[j + 1])
  <2> DEFINE X == w[j]
  <2>1. X \in DisposalWalks BY <1>11 DEF Along
  <2>2. /\ X.on /\ Clear(X.s, M) /\ X.a \in X.s.live /\ X.s.parent[X.a] = o /\ o \in X.s.live
    BY <1>6, <1>11, AlongThere DEF n
  <2>3. w[j + 1] = g[X]
    <3>1. j + 1 \in 1 .. K /\ j + 1 # 1 /\ (j + 1) - 1 = j BY <1>5, <1>7
    <3> QED BY <3>1, <1>8
  <2>4. Along(S, M, t, j, X) BY <1>11
  <2> HIDE DEF X
  <2>5. PICK V : /\ Clear(V, M) /\ Takes(X.s, V, Doomed(X.s, M, X.a))
                 /\ g[X] = [s |-> V, a |-> X.s.next[X.a], on |-> X.s.next[X.a] # V.last[o]]
    BY <2>1, <2>2 DEF TakesEach
  <2>6. Along(S, M, t, j + 1, g[X]) BY <1>6, <2>4, <2>5, AlongOnce DEF n
  <2> QED BY <2>3, <2>6
<1>12. Along(S, M, t, n + 1, w[n + 1])
  <2>1. 0 \in A OBVIOUS
  <2>2. ASSUME NEW j \in Nat, j \in A PROVE j + 1 \in A
    <3> SUFFICES ASSUME j + 1 \in 1 .. (n + 1) PROVE Along(S, M, t, j + 1, w[j + 1]) OBVIOUS
    <3>1. CASE j = 0
      <4>1. w[1] = a BY <1>5, <1>7, <1>8
      <4> QED BY <4>1, <3>1, <1>10
    <3>2. CASE j # 0
      <4>1. j \in 1 .. n /\ j \in 1 .. (n + 1) BY <3>2, <1>5
      <4> QED BY <4>1, <2>2, <1>11
    <3> QED BY <3>1, <3>2
  <2> HIDE DEF A
  <2>3. Nat \subseteq A BY <2>1, <2>2, SetInduction
  <2>4. n + 1 \in A /\ n + 1 \in 1 .. (n + 1) BY <2>3, <1>5
  <2> QED BY <2>4 DEF A
<1>13. w[K] = w[n + 1]
  <2> DEFINE X == w[n + 1]
             B == {d \in Nat : (n + 1) + d <= K => w[(n + 1) + d] = X}
  <2>1. X \in DisposalWalks /\ ~ X.on
    <3>1. ~ (n + 1 <= Len(t)) BY <1>5 DEF n
    <3> QED BY <3>1, <1>12 DEF Along
  <2>2. g[X] = X BY <2>1 DEF TakesEach
  <2>3. 0 \in B BY <1>5
  <2>4. ASSUME NEW d \in Nat, d \in B PROVE d + 1 \in B
    <3> SUFFICES ASSUME (n + 1) + (d + 1) <= K PROVE w[(n + 1) + (d + 1)] = X OBVIOUS
    <3> HIDE DEF X
    <3>1. /\ (n + 1) + (d + 1) \in 1 .. K /\ (n + 1) + (d + 1) # 1
          /\ ((n + 1) + (d + 1)) - 1 = (n + 1) + d /\ (n + 1) + d <= K
      BY <1>5, <1>7
    <3>2. w[(n + 1) + (d + 1)] = g[w[(n + 1) + d]] BY <3>1, <1>8
    <3>3. w[(n + 1) + d] = X BY <3>1, <2>4
    <3> QED BY <3>2, <3>3, <2>2
  <2> HIDE DEF B
  <2>5. Nat \subseteq B BY <2>3, <2>4, SetInduction
  <2>6. K - (n + 1) \in B /\ (n + 1) + (K - (n + 1)) = K /\ K <= K BY <2>5, <1>5, <1>7
  <2> QED BY <2>6 DEF B
<1>14. Clear(R, M) /\ Takes(S, R, Taken(S, M, t, n))
  <2>1. (n + 1) - 1 = n BY <1>5
  <2> QED BY <2>1, <1>9, <1>12, <1>13 DEF Along
<1>15. Taken(S, M, t, n) = {x \in S.live : \E c \in C : x \in Doomed(S, M, c)}
  <2>1. \A c \in C : \E j \in 1 .. n : t[j] = c BY <1>4, RangeIs DEF n
  <2> QED BY <2>1, <1>5 DEF Taken
<1> QED BY <1>14, <1>15 DEF C

(* Every widget is the desktop, on it, or in something that is. *)
LEMMA OnDeskTop ==
    ASSUME NEW S \in Systems, Shape(S, {}), NEW w \in S.live, w # DeskTop
    PROVE  w \in Children(S, DeskTop) \/ S.parent[w] \in Children(S, DeskTop)
<1>1. S.parent[w] \in S.live /\ S.parent[w] # NULL BY Fields, WidgetAssumption DEF Shape, Rooted
<1>2. S.parent[S.parent[w]] \in {NULL, DeskTop} BY <1>1 DEF Shape, Levels
<1>3. S.parent[w] # DeskTop => S.parent[S.parent[w]] \in S.live BY <1>1 DEF Shape, Rooted
<1>4. NULL \notin S.live BY Fields, WidgetAssumption
<1> QED BY <1>1, <1>2, <1>3, <1>4 DEF Children

LEMMA NoChildren ==
    ASSUME NEW S \in Systems, Shape(S, {}), NEW o \in S.live
    PROVE  /\ S.last[o] = NULL => Children(S, o) = {}
           /\ S.last[o] # NULL => S.last[o] \in S.live
           /\ o # DeskTop => \A c \in Children(S, o) : Children(S, c) = {}
<1>1. o \in Widgets /\ NULL \notin Widgets /\ S.live \subseteq Widgets BY Fields, WidgetAssumption
<1>2. RingOn(Ring(S, o), Children(S, o), Widgets) /\ Ring(S, o).last = S.last[o]
  BY <1>1, RingType DEF Shape, HasRing
<1>3. /\ S.last[o] = NULL <=> Children(S, o) = {}
      /\ S.last[o] # NULL => S.last[o] \in Children(S, o)
  BY <1>1, <1>2, RingEnds
<1>4. ASSUME o # DeskTop, NEW c \in Children(S, o), NEW w \in Children(S, c) PROVE FALSE
  <2>1. w \in S.live /\ S.parent[w] = c /\ S.parent[c] = o /\ c \in S.live BY DEF Children
  <2>2. c # NULL /\ o # NULL BY <1>1, <2>1
  <2>3. o \in {NULL, DeskTop} BY <2>1, <2>2 DEF Shape, Levels
  <2> QED BY <1>4, <2>2, <2>3
<1> QED BY <1>3, <1>4 DEF Children

LEMMA CloseAppTakes ==
    ASSUME NEW S, NEW app \in Apps, NEW M, M = {w \in Widgets : AppOwner[w] = app}, Clear(S, M)
    PROVE  DisposeAllAppWidgets(S, app).live = {w \in S.live : w \notin M /\ S.parent[w] \notin M}
<1> DEFINE owned(w) == AppOwner[w] = app
           part(T, w) == IF owned(w) THEN WidgetDispose(T, w) ELSE T
           child(T, w) == IF owned(w) THEN WidgetDispose(T, w) ELSE DisposalWalk(T, w, part)
           Below(T, o) == {w \in T.live : \E c \in Children(T, o) : w \in Doomed(T, M, c)}
<1>0. M \in SUBSET Widgets /\ M \in SUBSET (Widgets \ {DeskTop}) /\ NULL \notin M /\ \A w \in Widgets : owned(w) <=> w \in M
  BY WidgetAssumption
<1> HIDE DEF owned
<1>1. ASSUME NEW T, Clear(T, M) PROVE T \in Systems /\ Shape(T, {}) /\ T.bad = "none" /\ T.live \subseteq Widgets
  <2>1. T \in Systems /\ Shape(T, {}) /\ T.bad = "none" BY <1>1 DEF Clear
  <2> QED BY <2>1, Fields
<1>2. ASSUME NEW T, Clear(T, M), NEW w \in T.live \cap M
      PROVE  Clear(WidgetDispose(T, w), M) /\ Takes(T, WidgetDispose(T, w), Doomed(T, M, w))
  BY <1>0, <1>2, DisposeTakes
<1>3. ASSUME NEW T, Clear(T, M), NEW o \in T.live \ M, o # DeskTop, NEW w \in T.live, T.parent[w] = o
      PROVE  Clear(part(T, w), M) /\ Takes(T, part(T, w), Doomed(T, M, w))
  <2>1. CASE w \in M
    <3>1. part(T, w) = WidgetDispose(T, w) BY <1>0, <1>1, <1>3, <2>1
    <3> QED BY <3>1, <2>1, <1>2, <1>3
  <2>2. CASE w \notin M
    <3>1. part(T, w) = T BY <1>0, <1>1, <1>3, <2>2
    <3>2. Children(T, w) = {}
      <4>1. w \in Children(T, o) BY <1>3 DEF Children
      <4> QED BY <4>1, <1>1, <1>3, NoChildren
    <3>3. Doomed(T, M, w) = {} BY <3>2, <2>2, <1>3 DEF Doomed
    <3> QED BY <3>1, <3>3, <1>3, TakesNothing
  <2> QED BY <2>1, <2>2
<1>4. ASSUME NEW T, Clear(T, M), NEW o \in T.live \ M, T.parent[o] = DeskTop
      PROVE  LET R == DisposalWalk(T, o, part) IN Clear(R, M) /\ Takes(T, R, Doomed(T, M, o))
  <2>0. T \in Systems /\ Shape(T, {}) /\ o # DeskTop /\ DeskTop # NULL
    BY <1>1, <1>4, WidgetAssumption DEF Shape, Rooted
  <2>1. CASE T.last[o] = NULL
    <3>1. DisposalWalk(T, o, part) = T BY <2>1 DEF DisposalWalk
    <3>2. Children(T, o) = {} BY <2>0, <2>1, NoChildren
    <3>3. Doomed(T, M, o) = {} BY <3>2, <1>0, <1>4 DEF Doomed
    <3> QED BY <3>1, <3>3, <1>4, TakesNothing
  <2>2. CASE T.last[o] # NULL
    <3> DEFINE g == [X \in DisposalWalks |-> DisposalStep(X, o, part)]
               R == WalkAlong([s |-> T, a |-> T.last[o], on |-> TRUE], g, Turns + 1)[Turns + 1].s
    <3>1. ASSUME NEW X \in DisposalWalks, ~ X.on PROVE g[X] = X
      BY <3>1 DEF DisposalStep
    <3>2. ASSUME NEW X \in DisposalWalks, X.on, Clear(X.s, M), o \in X.s.live, X.a \in X.s.live,
                 X.s.parent[X.a] = o
          PROVE  \E V : /\ Clear(V, M) /\ Takes(X.s, V, Doomed(X.s, M, X.a))
                        /\ g[X] = [s |-> V, a |-> X.s.next[X.a], on |-> X.s.next[X.a] # V.last[o]]
      <4> DEFINE V == part(X.s, X.a)
      <4>1. X.s.bad = "none" BY <1>1, <3>2
      <4>2. g[X] = [s |-> V, a |-> X.s.next[X.a], on |-> X.s.next[X.a] # V.last[o]]
        <5> HIDE DEF part
        <5> QED BY <3>2, <4>1 DEF DisposalStep
      <4> HIDE DEF part, g
      <4>3. Clear(V, M) /\ Takes(X.s, V, Doomed(X.s, M, X.a)) BY <1>3, <1>4, <2>0, <3>2
      <4> QED BY <4>2, <4>3
    <3>3. DisposalWalk(T, o, part) = R BY <2>2 DEF DisposalWalk
    <3>4. Below(T, o) = Doomed(T, M, o)
      <4>1. \A c \in Children(T, o) : Children(T, c) = {} /\ c \in T.live /\ T.parent[c] = o
        BY <2>0, NoChildren DEF Children
      <4> QED BY <4>1, <1>0, <1>4 DEF Doomed
    <3>5. R = WalkAlong([s |-> T, a |-> T.last[o], on |-> TRUE], g, Turns + 1)[Turns + 1].s OBVIOUS
    <3> HIDE DEF g, Below, R, part
    <3>6. TakesEach(g, M, o) BY <3>1, <3>2 DEF TakesEach
    <3>7. M \in SUBSET Widgets /\ Clear(T, M) /\ o \in T.live \ M /\ T.last[o] # NULL BY <1>0, <1>4, <2>2
    <3>8. Clear(R, M) /\ Takes(T, R, {w \in T.live : \E c \in Children(T, o) : w \in Doomed(T, M, c)})
      BY <3>5, <3>6, <3>7, WalkTakes
    <3> QED BY <3>3, <3>4, <3>8 DEF Below
  <2> QED BY <2>1, <2>2
<1>5. ASSUME NEW T, Clear(T, M), NEW w \in T.live, T.parent[w] = DeskTop
      PROVE  Clear(child(T, w), M) /\ Takes(T, child(T, w), Doomed(T, M, w))
  <2>1. CASE w \in M
    <3>1. child(T, w) = WidgetDispose(T, w) BY <1>0, <1>1, <1>5, <2>1
    <3> QED BY <3>1, <2>1, <1>2, <1>5
  <2>2. CASE w \notin M
    <3>1. child(T, w) = DisposalWalk(T, w, part) BY <1>0, <1>1, <1>5, <2>2
    <3> HIDE DEF child, part
    <3> QED BY <3>1, <2>2, <1>4, <1>5
  <2> QED BY <2>1, <2>2
<1>6. /\ S \in Systems /\ Shape(S, {}) /\ S.live \subseteq Widgets
      /\ DeskTop \in S.live \ M /\ DeskTop \in Widgets /\ S.parent[DeskTop] = NULL
  BY <1>0, <1>1, WidgetAssumption DEF Shape, Rooted
<1>7. CASE S.last[DeskTop] = NULL
  <2>1. DisposeAllAppWidgets(S, app) = S BY <1>7 DEF DisposeAllAppWidgets, DisposalWalk
  <2>2. Children(S, DeskTop) = {} BY <1>6, <1>7, NoChildren
  <2>3. \A w \in S.live : w = DeskTop BY <2>2, <1>6, OnDeskTop
  <2> QED BY <2>1, <2>3, <1>0, <1>6
<1>8. CASE S.last[DeskTop] # NULL
  <2> DEFINE g == [X \in DisposalWalks |-> DisposalStep(X, DeskTop, child)]
             R == WalkAlong([s |-> S, a |-> S.last[DeskTop], on |-> TRUE], g, Turns + 1)[Turns + 1].s
  <2>1. ASSUME NEW X \in DisposalWalks, ~ X.on PROVE g[X] = X
    BY <2>1 DEF DisposalStep
  <2>2. ASSUME NEW X \in DisposalWalks, X.on, Clear(X.s, M), X.a \in X.s.live, X.s.parent[X.a] = DeskTop
        PROVE  \E V : /\ Clear(V, M) /\ Takes(X.s, V, Doomed(X.s, M, X.a))
                      /\ g[X] = [s |-> V, a |-> X.s.next[X.a], on |-> X.s.next[X.a] # V.last[DeskTop]]
    <3> DEFINE V == child(X.s, X.a)
    <3>1. X.s.bad = "none" BY <1>1, <2>2
    <3>2. g[X] = [s |-> V, a |-> X.s.next[X.a], on |-> X.s.next[X.a] # V.last[DeskTop]]
      <4> HIDE DEF child
      <4> QED BY <2>2, <3>1 DEF DisposalStep
    <3> HIDE DEF child, g
    <3>3. Clear(V, M) /\ Takes(X.s, V, Doomed(X.s, M, X.a)) BY <1>5, <2>2
    <3> QED BY <3>2, <3>3
  <2>3. DisposeAllAppWidgets(S, app) = R BY <1>8 DEF DisposeAllAppWidgets, DisposalWalk, owned
  <2>4. R = WalkAlong([s |-> S, a |-> S.last[DeskTop], on |-> TRUE], g, Turns + 1)[Turns + 1].s OBVIOUS
  <2> HIDE DEF g, Below, R, child
  <2>5. TakesEach(g, M, DeskTop) BY <2>1, <2>2 DEF TakesEach
  <2>6. M \in SUBSET Widgets /\ Clear(S, M) /\ DeskTop \in S.live \ M /\ S.last[DeskTop] # NULL BY <1>0, <1>6, <1>8
  <2>7. Clear(R, M) /\ Takes(S, R, {w \in S.live : \E c \in Children(S, DeskTop) : w \in Doomed(S, M, c)})
    BY <2>4, <2>5, <2>6, WalkTakes
  <2>8. R.live = S.live \ Below(S, DeskTop) BY <2>7 DEF Takes, Below
  <2>9. ASSUME NEW w \in S.live PROVE w \in Below(S, DeskTop) <=> w \in M \/ S.parent[w] \in M
    <3>1. CASE w = DeskTop
      <4>1. {w, S.parent[w]} \cap M = {} BY <3>1, <1>0, <1>6
      <4> QED BY <4>1, <3>1, <1>0, <1>6 DEF Below, Doomed
    <3>2. CASE w # DeskTop
      <4>1. PICK c \in Children(S, DeskTop) : w = c \/ S.parent[w] = c BY <3>2, <1>6, OnDeskTop
      <4>2. w \in {c} \cup Children(S, c) BY <4>1 DEF Children
      <4> QED BY <4>2 DEF Below, Doomed
    <3> QED BY <3>1, <3>2
  <2> HIDE DEF Below
  <2> QED BY <2>3, <2>8, <2>9
<1> QED BY <1>7, <1>8

(* Closing an application takes all of its widgets with what is in them,   *)
(* and nothing else, when no ring ends at one of them and none of its      *)
(* windows is selected (widget.c:1418-1435).                               *)
THEOREM ClosesAll == Spec => CloseAppLeaves
<1>1. ASSUME IInv, NEW app \in Apps, CloseApp(app), NEW mine, mine = {w \in ws.live : AppOwner[w] = app},
             {o \in ws.live : ws.last[o] \in mine} = {}, mine \cap ws.selected = {}
      PROVE  ws'.live = {w \in ws.live : w \notin mine /\ ws.parent[w] \notin mine}
  <2> DEFINE M == {w \in Widgets : AppOwner[w] = app}
  <2>1. /\ ws \in Systems /\ Shape(ws, {}) /\ Refs(ws) /\ ws.bad = "none"
        /\ ws' = DisposeAllAppWidgets(ws, app)
    BY <1>1, DoesIs DEF CloseApp, Become
  <2>2. ws.live \subseteq Widgets /\ NULL \notin M BY <2>1, Fields, WidgetAssumption
  <2>3. mine = ws.live \cap M BY <1>1, <2>2
  <2>4. M = {w \in Widgets : AppOwner[w] = app} OBVIOUS
  <2> HIDE DEF M
  <2>5. ASSUME NEW w \in ws.live PROVE ws.last[w] \notin M /\ (w \in M => w \notin ws.selected)
    <3>1. ws.last[w] # NULL => ws.last[w] \in ws.live BY <2>1, NoChildren
    <3> QED BY <3>1, <1>1, <2>2, <2>3
  <2>6. Clear(ws, M) BY <2>1, <2>5 DEF Clear
  <2>7. ws'.live = {w \in ws.live : w \notin M /\ ws.parent[w] \notin M}
    BY <2>1, <2>4, <2>6, CloseAppTakes
  <2>8. ASSUME NEW w \in ws.live PROVE ws.parent[w] \in M => ws.parent[w] \in ws.live
    BY <2>1, <2>2 DEF Shape, Rooted
  <2> QED BY <2>3, <2>7, <2>8
<1>2. IInv => [ \A app \in Apps : CloseApp(app) =>
          LET mine == {w \in ws.live : AppOwner[w] = app}
              ends == {o \in ws.live : ws.last[o] \in mine}
          IN  ends = {} /\ mine \cap ws.selected = {} =>
                ws'.live = {w \in ws.live : w \notin mine /\ ws.parent[w] \notin mine} ]_vars
  BY <1>1
<1> QED BY <1>2, IInvAll, PTL DEF CloseAppLeaves
=============================================================================
