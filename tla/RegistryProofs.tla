--------------------------- MODULE RegistryProofs ---------------------------
(***************************************************************************)
(* Proofs about Registry, for any names, defaults and bounds: the keys in  *)
(* memory stay a tree whose directories are rings, a tree that was written *)
(* and read again is the same, a path leads to the key it was set for, and *)
(* the walk over the startup entries meets each of them once.              *)
(***************************************************************************)
EXTENDS Registry, ListLinksProofs

(* The keys are a tree two levels deep under the root, the keys of each    *)
(* directory are its ring, a key not used yet has no ring, and the root is *)
(* on none.                                                                *)
Rooted(R) ==
    /\ Root \in R.live /\ R.live \subseteq 1 .. R.used
    /\ R.husks \subseteq 1 .. R.used /\ R.live \cap R.husks = {}
    /\ R.parent[Root] = NULL
    /\ \A k \in R.live \ {Root} :
          /\ R.parent[k] \in R.live /\ R.name[k] \in Names
          /\ R.parent[k] = Root \/ R.parent[R.parent[k]] = Root

Ringed(R) ==
    /\ \A p \in R.live : RingOn(Ring(R, p), Below(R, p), Keys)
    /\ \A k \in Keys : k > R.used => R.last[k] = NULL
    /\ R.next[Root] = NULL /\ R.prev[Root] = NULL

Tree(R) == R \in Trees /\ Rooted(R) /\ Ringed(R)

LEMMA Fields ==
    ASSUME NEW R \in Trees
    PROVE  /\ R.live \subseteq Keys /\ R.made \subseteq Keys /\ R.husks \subseteq Keys
           /\ R.used \in 0 .. MaxKey
           /\ R.name \in [Keys -> Names \cup {NULL}] /\ R.data \in [Keys -> Values \cup {Nothing}]
           /\ R.parent \in [Keys -> Pointers] /\ R.last \in [Keys -> Pointers]
           /\ R.next \in [Keys -> Pointers] /\ R.prev \in [Keys -> Pointers]
BY DEF Trees

(* NULL is no key, and there is room for the root. *)
LEMMA KeysFacts ==
    /\ NULL \notin Keys /\ MaxKey \in Nat \ {0} /\ Root \in Keys /\ Root = 1 /\ Root # NULL
    /\ IsFiniteSet(Keys) /\ Cardinality(Keys) = MaxKey
<1>1. NULL \notin Keys BY RegistryAssumption DEF Keys
<1>2. Len(Defaults) \in Nat BY RegistryAssumption, LenProperties
<1>3. MaxKey \in Nat \ {0} BY <1>2, RegistryAssumption
<1>4. Root \in Keys BY <1>3 DEF Root, Keys
<1>5. IsFiniteSet(1 .. MaxKey) /\ Cardinality(1 .. MaxKey) = IF 1 > MaxKey THEN 0 ELSE MaxKey - 1 + 1
  <2>1. 1 \in Int /\ MaxKey \in Int BY <1>3
  <2> QED BY <2>1, FS_Interval
<1>6. Cardinality(1 .. MaxKey) = MaxKey BY <1>3, <1>5
<1> QED BY <1>1, <1>3, <1>4, <1>5, <1>6 DEF Root, Keys

LEMMA RingMemory ==
    ASSUME NEW R \in Trees, NEW p \in Keys
    PROVE  /\ Ring(R, p) \in Memories(Keys)
           /\ Ring(R, p).last = R.last[p] /\ Ring(R, p).next = R.next /\ Ring(R, p).prev = R.prev
BY Fields DEF Ring, Memories, Pointers

LEMMA WithRingFields ==
    ASSUME NEW R \in Trees, NEW p \in Keys, NEW m \in Memories(Keys)
    PROVE  /\ WithRing(R, p, m) \in Trees
           /\ WithRing(R, p, m).live = R.live /\ WithRing(R, p, m).made = R.made
           /\ WithRing(R, p, m).husks = R.husks /\ WithRing(R, p, m).used = R.used
           /\ WithRing(R, p, m).name = R.name /\ WithRing(R, p, m).data = R.data
           /\ WithRing(R, p, m).parent = R.parent
           /\ WithRing(R, p, m).last = [R.last EXCEPT ![p] = m.last]
           /\ WithRing(R, p, m).next = m.next /\ WithRing(R, p, m).prev = m.prev
BY DEF WithRing, Memories, Trees, Pointers

-----------------------------------------------------------------------------
(* A walk is the sequence of its stops. *)
LEMMA WalkIsItsStops ==
    ASSUME NEW n \in Nat, NEW a, NEW g, NEW s, s = WalkAlong(a, g, n)
    PROVE  DOMAIN s = 1 .. n /\ s = [j \in 1 .. n |-> s[j]]
<1> DEFINE e(j) == IF j = 1 THEN a ELSE g[WalkAlong(a, g, n)[j - 1]]
<1>1. WalkAlong(a, g, n) = [j \in 1 .. n |-> e(j)] BY WalkAlongDef
<1> HIDE DEF e
<1> QED BY <1>1

(* The walk over the keys of a directory meets each of them once; from its *)
(* second stop on it is the ring from the head to Last.                    *)
LEMMA KidsAre ==
    ASSUME NEW R, Tree(R), NEW p \in R.live, NEW s, s = Kids(R, p)
    PROVE  /\ s \in Seq(Keys) /\ Distinct(s) /\ Range(s) = Below(R, p)
           /\ Linked(Ring(R, p), IF s = <<>> THEN s ELSE Append(Tail(s), Head(s)))
<1> DEFINE m == Ring(R, p)
           C == Below(R, p)
<1>0. p \in Keys /\ R \in Trees BY Fields DEF Tree
<1>1. m.last = R.last[p] /\ m.next = R.next BY <1>0, RingMemory
<1>2. RingOn(m, C, Keys) BY DEF Tree, Ringed
<1> HIDE DEF m, C
<1>3. PICK q \in Seq(Keys) : Distinct(q) /\ Range(q) = C /\ Linked(m, q) BY <1>2, Zenon DEF RingOn
<1>4. /\ Cardinality(C) = Len(q) /\ Len(q) \in Nat /\ (q = <<>> <=> Len(q) = 0)
      /\ \A k \in 1 .. Len(q) : q[k] \in Keys
  BY <1>3, DistinctCardinality, EmptySeq, LenProperties, ElementOfSeq
<1> DEFINE n == Len(q)
<1>5. s = WalkAlong(m.last, m.next, n)
  <2>1. s = WalkAlong(R.last[p], R.next, Cardinality(C)) BY DEF Kids, C
  <2> QED BY <1>1, <1>4, <2>1
<1>6. DOMAIN s = 1 .. n /\ s = [j \in 1 .. n |-> s[j]]
  <2>1. n \in Nat BY <1>4
  <2> HIDE DEF n
  <2> QED BY <1>5, <2>1, WalkIsItsStops
<1>7. CASE n = 0
  <2>1. s = <<>> /\ q = <<>> BY <1>4, <1>6, <1>7
  <2> QED BY <2>1, <1>3 DEF m, C
<1>8. CASE n # 0
  <2>1. n \in 1 .. n /\ 1 \in 1 .. n BY <1>4, <1>8
  <2> HIDE DEF n
  <2>2. PICK t \in Seq(Keys) :
          /\ Len(t) = n /\ Distinct(t) /\ Range(t) = C /\ LeadThrough(m.last, m.next, t, n)
          /\ \A j \in 1 .. n : t[j] = IF j = 1 THEN q[n] ELSE q[j - 1]
    BY <1>3, <1>4, <1>8, RingFromLast DEF n
  <2>3. n \in Nat /\ t # <<>> BY <2>2, <1>4, <1>8, EmptySeq DEF n
  <2>4. \A j \in 1 .. n : s[j] = t[j]
    <3>1. LeadThrough(m.last, m.next, t, n) BY <2>2
    <3>2. Meets(WalkAlong(m.last, m.next, n), t, n) BY <2>1, <2>3, <3>1, WalkMeets
    <3> QED BY <1>5, <3>2 DEF Meets
  <2>5. s = t
    <3>1. t = [j \in 1 .. n |-> t[j]] BY <2>2
    <3> QED BY <1>6, <2>4, <3>1
  <2>6. Append(Tail(t), Head(t)) = q
    <3> DEFINE u == Tail(t)
               v == Append(u, Head(t))
    <3>1. Head(t) = q[n] /\ q[n] \in Keys BY <2>1, <2>2, <1>4 DEF n
    <3>2. u \in Seq(Keys) /\ Len(u) = n - 1 /\ \A j \in 1 .. (n - 1) : u[j] = t[j + 1]
      BY <2>2, <2>3, HeadTailProperties
    <3> HIDE DEF u
    <3>3. v \in Seq(Keys) /\ Len(v) = n /\ v[n] = q[n] /\ \A j \in 1 .. (n - 1) : v[j] = u[j]
      <4>1. n - 1 \in Nat /\ (n - 1) + 1 = n BY <1>4, <1>8 DEF n
      <4> QED BY <4>1, <3>1, <3>2, AppendProperties
    <3> HIDE DEF v
    <3>4. \A j \in 1 .. n : v[j] = q[j]
      <4> SUFFICES ASSUME NEW j \in 1 .. n, j # n PROVE v[j] = q[j] BY <3>3
      <4>1. j \in 1 .. (n - 1) /\ j + 1 \in 1 .. n /\ j + 1 # 1 /\ (j + 1) - 1 = j BY <1>4 DEF n
      <4> QED BY <4>1, <3>2, <3>3, <2>2
    <3>5. v = q BY <3>3, <3>4, <1>3, SeqEqual DEF n
    <3> QED BY <3>5 DEF v, u
  <2> QED BY <1>3, <2>2, <2>3, <2>5, <2>6 DEF m, C
<1> QED BY <1>7, <1>8

-----------------------------------------------------------------------------
(* A set of natural numbers has a smallest member. *)
LEMMA SmallestIs ==
    ASSUME NEW I, I \subseteq Nat, I # {}
    PROVE  Min(I) \in I
<1> DEFINE L == {p \in Nat \X Nat : p[1] < p[2]}
<1>1. IsWellFoundedOn(L, Nat) BY NatLessThanWellFounded DEF OpToRel
<1>2. PICK x \in I : \A y \in I : ~ (<<y, x>> \in L)
  <2> HIDE DEF L
  <2> QED BY <1>1, WFMin, Zenon
<1>3. ASSUME NEW y \in I PROVE x <= y
  <2>1. x \in Nat /\ y \in Nat BY <1>2
  <2>2. <<y, x>> \in Nat \X Nat /\ <<y, x>>[1] = y /\ <<y, x>>[2] = x BY <2>1
  <2>3. ~ (y < x) BY <1>2, <2>2
  <2> QED BY <2>1, <2>3
<1>4. \E z \in I : \A y \in I : z <= y BY <1>3
<1> QED BY <1>4, Zenon DEF Min

(* The first member of s that is in C, if one is. *)
LEMMA FirstInIs ==
    ASSUME NEW s \in Seq(Keys), NEW C
    PROVE  \/ FirstIn(s, C) = NULL /\ \A i \in 1 .. Len(s) : s[i] \notin C
           \/ FirstIn(s, C) \in Range(s) \cap C /\ FirstIn(s, C) # NULL
<1> DEFINE I == {i \in 1 .. Len(s) : s[i] \in C}
<1>1. FirstIn(s, C) = LET j == IF I # {} THEN Min(I) ELSE 0 IN IF j = 0 THEN NULL ELSE s[j]
  BY Zenon DEF FirstIn, SelectInSeq
<1>2. CASE I = {} BY <1>1, <1>2
<1>3. CASE I # {}
  <2>1. I \subseteq Nat OBVIOUS
  <2> HIDE DEF I
  <2>2. Min(I) \in I BY <1>3, <2>1, SmallestIs
  <2>3. Min(I) \in 1 .. Len(s) /\ s[Min(I)] \in C BY <2>2 DEF I
  <2>4. FirstIn(s, C) = s[Min(I)] BY <1>1, <1>3, <2>3
  <2>5. s[Min(I)] \in Range(s) /\ Range(s) \subseteq Keys BY <2>3, RangeIs
  <2> QED BY <2>3, <2>4, <2>5, KeysFacts
<1> QED BY <1>2, <1>3

(* Only what s says about its own members matters. *)
LEMMA FirstInSame ==
    ASSUME NEW s \in Seq(Keys), NEW C, NEW D, \A k \in Range(s) : k \in C <=> k \in D
    PROVE  FirstIn(s, C) = FirstIn(s, D)
<1>1. \A i \in 1 .. Len(s) : s[i] \in C <=> s[i] \in D BY RangeIs
<1>2. {i \in 1 .. Len(s) : s[i] \in C} = {i \in 1 .. Len(s) : s[i] \in D} BY <1>1
<1> QED BY <1>2, Zenon DEF FirstIn, SelectInSeq

Named(R, n) == {k \in R.live : R.name[k] = n}
Alike(R, n) == {k \in R.live : Fold(R.name[k]) = Fold(n)}

(* A look-up finds a key of the directory that fits, if there is one.      *)
LEMMA ChildIs ==
    ASSUME NEW R, Tree(R), NEW p \in R.live, NEW n
    PROVE  \/ Child(R, p, n) = NULL /\ Below(R, p) \cap Named(R, n) = {}
           \/ Child(R, p, n) \in Below(R, p) \cap Named(R, n) /\ Child(R, p, n) # NULL
<1> DEFINE s == Kids(R, p)
<1>1. s \in Seq(Keys) /\ Range(s) = Below(R, p) BY KidsAre
<1>2. Child(R, p, n) = FirstIn(s, Named(R, n)) BY Zenon DEF Child, Named
<1> HIDE DEF s
<1>3. \A x \in Below(R, p) : \E i \in 1 .. Len(s) : s[i] = x BY <1>1, RangeIs
<1> QED BY <1>1, <1>2, <1>3, FirstInIs

LEMMA SubDirIs ==
    ASSUME NEW R, Tree(R), NEW p \in R.live, NEW n
    PROVE  \/ SubDir(R, p, n) = NULL /\ Below(R, p) \cap Alike(R, n) = {}
           \/ SubDir(R, p, n) \in Below(R, p) \cap Alike(R, n) /\ SubDir(R, p, n) # NULL
<1> DEFINE s == Kids(R, p)
<1>1. s \in Seq(Keys) /\ Range(s) = Below(R, p) BY KidsAre
<1>2. SubDir(R, p, n) = FirstIn(s, Alike(R, n)) BY Zenon DEF SubDir, Alike
<1> HIDE DEF s
<1>3. \A x \in Below(R, p) : \E i \in 1 .. Len(s) : s[i] = x BY <1>1, RangeIs
<1> QED BY <1>1, <1>2, <1>3, FirstInIs

(* A key of a directory of the root is no directory of a directory.        *)
LEMMA BelowIs ==
    ASSUME NEW R, Tree(R), NEW p \in R.live, NEW k \in Below(R, p)
    PROVE  k \in R.live \ {Root} /\ R.parent[k] = p /\ k \in Keys /\ p \in Keys
<1>1. R.parent[k] = p /\ k \in R.live BY DEF Below
<1>2. R.live \subseteq Keys /\ R \in Trees BY Fields DEF Tree
<1>3. R.parent[Root] = NULL BY DEF Tree, Rooted
<1> QED BY <1>1, <1>2, <1>3, KeysFacts

-----------------------------------------------------------------------------
(* What changes a tree.  Every operation is made of: one new key; one key  *)
(* taken out and freed; names and data.                                    *)
Made(R, N, p, n) ==
    /\ p \in R.live /\ (p = Root \/ R.parent[p] = Root)
    /\ n \in Names /\ R.used < MaxKey
    /\ Child(R, p, n) = NULL
    /\ N = NewKeyEx(R, p, n)

(* The new key is the last one of its directory. *)
MadeFields(R, N, p, n, k, m) ==
    /\ N \in Trees /\ k \in Keys /\ k \notin R.live /\ k \notin R.husks /\ p \in Keys /\ k # p
    /\ N.live = R.live \cup {k} /\ N.husks = R.husks /\ N.used = k
    /\ N.name = [R.name EXCEPT ![k] = n] /\ N.data = R.data
    /\ N.parent = [R.parent EXCEPT ![k] = p]
    /\ N.last = [R.last EXCEPT ![p] = m.last] /\ N.next = m.next /\ N.prev = m.prev
    /\ m \in Memories(Keys) /\ RingOn(m, Below(R, p) \cup {k}, Keys)
    /\ \A j \in Keys \ (Below(R, p) \cup {k}) : N.next[j] = R.next[j] /\ N.prev[j] = R.prev[j]

LEMMA EnteredType ==
    ASSUME NEW W \in Trees, NEW k \in Keys, k \in 0 .. MaxKey, NEW n \in Names, NEW p \in Keys
    PROVE  [W EXCEPT !.used = k, !.live = @ \cup {k}, !.made = @ \cup {k}, !.name[k] = n, !.parent[k] = p]
             \in Trees
<1>1. /\ W.live \cup {k} \in SUBSET Keys /\ W.made \cup {k} \in SUBSET Keys
      /\ [W.name EXCEPT ![k] = n] \in [Keys -> Names \cup {NULL}]
      /\ [W.parent EXCEPT ![k] = p] \in [Keys -> Pointers]
  BY Fields DEF Pointers
<1> QED BY <1>1 DEF Trees

LEMMA MadeIs ==
    ASSUME NEW R, Tree(R), NEW N, NEW p, NEW n, Made(R, N, p, n), NEW k, k = R.used + 1,
           NEW m, m = LinkEnd(Ring(R, p), k)
    PROVE  MadeFields(R, N, p, n, k, m)
<1>0. R \in Trees /\ R.live \subseteq Keys /\ p \in Keys /\ R.used \in 0 .. MaxKey /\ R.used < MaxKey
  BY Fields DEF Tree, Made
<1>1. k \in Keys /\ k \notin R.live /\ k \notin R.husks /\ k # Root
  <2>1. MaxKey \in Nat /\ Root = 1 BY KeysFacts
  <2>2. R.live \subseteq 1 .. R.used /\ R.husks \subseteq 1 .. R.used /\ Root \in R.live
    BY DEF Tree, Rooted
  <2> QED BY <1>0, <2>1, <2>2 DEF Keys
<1>2. k # p BY <1>1 DEF Made
<1>3. /\ Ring(R, p) \in Memories(Keys) /\ Ring(R, p).next = R.next /\ Ring(R, p).prev = R.prev
      /\ RingOn(Ring(R, p), Below(R, p), Keys)
  BY <1>0, RingMemory DEF Made, Tree, Ringed
<1>4. k \in Keys \ Below(R, p) BY <1>1 DEF Below
<1>5. /\ m \in Memories(Keys) /\ RingOn(m, Below(R, p) \cup {k}, Keys)
      /\ \A j \in Keys \ (Below(R, p) \cup {k}) : SameAt(Ring(R, p), m, j)
  BY <1>3, <1>4, KeysFacts, RingAppend
<1> DEFINE W == WithRing(R, p, m)
<1>6. /\ W \in Trees /\ W.live = R.live /\ W.made = R.made /\ W.husks = R.husks
      /\ W.name = R.name /\ W.data = R.data /\ W.parent = R.parent
      /\ W.last = [R.last EXCEPT ![p] = m.last] /\ W.next = m.next /\ W.prev = m.prev
  BY <1>0, <1>5, WithRingFields
<1>7. N = [W EXCEPT !.used = k, !.live = @ \cup {k}, !.made = @ \cup {k}, !.name[k] = n, !.parent[k] = p]
  <2>1. Child(R, p, n) = NULL /\ N = NewKeyEx(R, p, n) BY DEF Made
  <2>2. k = R.used + 1 /\ W = WithRing(R, p, LinkEnd(Ring(R, p), k)) OBVIOUS
  <2> HIDE DEF W
  <2> QED BY <2>1, <2>2 DEF NewKeyEx
<1> HIDE DEF W
<1>8. n \in Names /\ k \in 0 .. MaxKey BY <1>1, KeysFacts DEF Made, Keys
<1>9. N \in Trees BY <1>0, <1>1, <1>6, <1>7, <1>8, EnteredType
<1>10. /\ N.live = R.live \cup {k} /\ N.husks = R.husks /\ N.used = k
       /\ N.name = [R.name EXCEPT ![k] = n] /\ N.data = R.data
       /\ N.parent = [R.parent EXCEPT ![k] = p]
       /\ N.last = [R.last EXCEPT ![p] = m.last] /\ N.next = m.next /\ N.prev = m.prev
  BY <1>6, <1>7 DEF Trees
<1>11. ASSUME NEW j \in Keys \ (Below(R, p) \cup {k}) PROVE N.next[j] = R.next[j] /\ N.prev[j] = R.prev[j]
  BY <1>3, <1>5, <1>10 DEF SameAt
<1> QED BY <1>0, <1>1, <1>2, <1>5, <1>9, <1>10, <1>11 DEF MadeFields

LEMMA EmptyRing ==
    ASSUME NEW m, m.last = NULL
    PROVE  RingOn(m, {}, Keys)
<1>1. <<>> \in Seq(Keys) /\ Len(<<>>) = 0 OBVIOUS
<1>2. Distinct(<<>>) BY <1>1 DEF Distinct
<1>3. Range(<<>>) = {} BY <1>1, RangeOfEmpty
<1> QED BY <1>1, <1>2, <1>3 DEF RingOn, Linked

(* A ring that an operation does not touch. *)
LEMMA RingStays ==
    ASSUME NEW R \in Trees, NEW N \in Trees, NEW q \in Keys,
           RingOn(Ring(R, q), Below(R, q), Keys),
           Below(N, q) = Below(R, q), N.last[q] = R.last[q],
           \A j \in Below(R, q) : N.next[j] = R.next[j] /\ N.prev[j] = R.prev[j]
    PROVE  RingOn(Ring(N, q), Below(N, q), Keys)
<1>1. \A j \in Below(R, q) : SameAt(Ring(R, q), Ring(N, q), j) BY DEF SameAt, Ring
<1>2. Ring(N, q).last = Ring(R, q).last BY DEF Ring
<1> QED BY <1>1, <1>2, RingFrame

(* What is below the keys when one has been made. *)
LEMMA MadeBelow ==
    ASSUME NEW R, Tree(R), NEW N, NEW p, NEW n, Made(R, N, p, n), NEW k, k = R.used + 1
    PROVE  /\ Below(N, p) = Below(R, p) \cup {k} /\ Below(N, k) = {}
           /\ \A q : q # p => Below(N, q) = Below(R, q)
           /\ \A x \in R.live : N.parent[x] = R.parent[x] /\ N.name[x] = R.name[x]
           /\ N.parent[k] = p /\ N.name[k] = n
<1> DEFINE m == LinkEnd(Ring(R, p), k)
<1>1. /\ k \in Keys /\ k \notin R.live /\ k # p /\ N.live = R.live \cup {k}
      /\ N.parent = [R.parent EXCEPT ![k] = p] /\ N.name = [R.name EXCEPT ![k] = n]
  <2>1. m = LinkEnd(Ring(R, p), k) OBVIOUS
  <2> HIDE DEF m
  <2>2. MadeFields(R, N, p, n, k, m) BY <2>1, MadeIs, Zenon
  <2> QED BY <2>2 DEF MadeFields
<1>2. R.live \subseteq Keys /\ R.parent \in [Keys -> Pointers] /\ R.name \in [Keys -> Names \cup {NULL}]
  BY Fields DEF Tree
<1>3. /\ \A x \in R.live : N.parent[x] = R.parent[x] /\ N.name[x] = R.name[x]
      /\ N.parent[k] = p /\ N.name[k] = n
  BY <1>1, <1>2
<1>4. \A x \in R.live : R.parent[x] # k
  <2> SUFFICES ASSUME NEW x \in R.live, R.parent[x] = k PROVE FALSE OBVIOUS
  <2>1. x # Root => R.parent[x] \in R.live BY DEF Tree, Rooted
  <2>2. R.parent[Root] = NULL BY DEF Tree, Rooted
  <2> QED BY <2>1, <2>2, <1>1, KeysFacts
<1> QED BY <1>1, <1>3, <1>4 DEF Below

LEMMA MadeTree ==
    ASSUME NEW R, Tree(R), NEW N, NEW p, NEW n, Made(R, N, p, n)
    PROVE  Tree(N)
<1> DEFINE k == R.used + 1
           m == LinkEnd(Ring(R, p), k)
<1>1. /\ N \in Trees /\ k \in Keys /\ k \notin R.live /\ k \notin R.husks /\ p \in Keys /\ k # p
      /\ N.live = R.live \cup {k} /\ N.husks = R.husks /\ N.used = k
      /\ N.name = [R.name EXCEPT ![k] = n] /\ N.data = R.data
      /\ N.parent = [R.parent EXCEPT ![k] = p]
      /\ N.last = [R.last EXCEPT ![p] = m.last] /\ N.next = m.next /\ N.prev = m.prev
      /\ m \in Memories(Keys) /\ RingOn(m, Below(R, p) \cup {k}, Keys)
      /\ \A j \in Keys \ (Below(R, p) \cup {k}) : N.next[j] = R.next[j] /\ N.prev[j] = R.prev[j]
  <2>1. k = R.used + 1 /\ m = LinkEnd(Ring(R, p), k) OBVIOUS
  <2> HIDE DEF m, k
  <2>2. MadeFields(R, N, p, n, k, m) BY <2>1, MadeIs, Zenon
  <2> QED BY <2>2 DEF MadeFields
<1>2. /\ Below(N, p) = Below(R, p) \cup {k} /\ Below(N, k) = {}
      /\ \A q : q # p => Below(N, q) = Below(R, q)
      /\ \A x \in R.live : N.parent[x] = R.parent[x] /\ N.name[x] = R.name[x]
      /\ N.parent[k] = p /\ N.name[k] = n
  BY MadeBelow
<1>3. R \in Trees /\ R.used \in Nat /\ R.live \subseteq Keys /\ R.last \in [Keys -> Pointers]
  BY Fields, KeysFacts DEF Tree
<1>4. k \in Nat /\ k > R.used BY <1>3
<1> HIDE DEF m, k
<1>5. /\ Root \in R.live /\ R.live \subseteq 1 .. R.used /\ R.husks \subseteq 1 .. R.used
      /\ R.live \cap R.husks = {} /\ R.parent[Root] = NULL
      /\ \A x \in R.live \ {Root} :
            /\ R.parent[x] \in R.live /\ R.name[x] \in Names
            /\ R.parent[x] = Root \/ R.parent[R.parent[x]] = Root
  BY DEF Tree, Rooted
<1>6. p \in R.live /\ (p = Root \/ R.parent[p] = Root) /\ n \in Names BY DEF Made
<1>7. Rooted(N)
  <2>1. Root \in N.live /\ N.parent[Root] = NULL BY <1>1, <1>2, <1>5
  <2>2. N.live \subseteq 1 .. N.used /\ N.husks \subseteq 1 .. N.used
    BY <1>1, <1>3, <1>4, <1>5 DEF Keys
  <2>3. N.live \cap N.husks = {} BY <1>1, <1>5
  <2>4. ASSUME NEW x \in N.live \ {Root}
        PROVE  /\ N.parent[x] \in N.live /\ N.name[x] \in Names
               /\ N.parent[x] = Root \/ N.parent[N.parent[x]] = Root
    <3>1. CASE x = k BY <3>1, <1>1, <1>2, <1>6
    <3>2. CASE x # k
      <4>1. x \in R.live \ {Root} BY <3>2, <1>1
      <4>2. R.parent[x] \in R.live BY <4>1, <1>5
      <4> QED BY <4>1, <4>2, <1>1, <1>2, <1>5
    <3> QED BY <3>1, <3>2
  <2> QED BY <2>1, <2>2, <2>3, <2>4 DEF Rooted
<1>8. ASSUME NEW q \in N.live PROVE RingOn(Ring(N, q), Below(N, q), Keys)
  <2>1. CASE q = p
    <3>1. N.last[p] = m.last BY <1>1, <1>3
    <3>2. Ring(N, p) = m BY <3>1, <1>1 DEF Ring, Memories
    <3> QED BY <3>2, <2>1, <1>1, <1>2
  <2>2. CASE q = k
    <3>1. R.last[k] = NULL BY <1>1, <1>4 DEF Tree, Ringed
    <3>2. Ring(N, k).last = NULL BY <3>1, <1>1, <1>3 DEF Ring
    <3> QED BY <3>2, <2>2, <1>2, EmptyRing
  <2>3. CASE q # p /\ q # k
    <3>1. q \in R.live /\ q \in Keys BY <2>3, <1>1, <1>3
    <3>2. RingOn(Ring(R, q), Below(R, q), Keys) BY <3>1 DEF Tree, Ringed
    <3>3. Below(N, q) = Below(R, q) /\ N.last[q] = R.last[q] BY <2>3, <3>1, <1>1, <1>2, <1>3
    <3>4. \A j \in Below(R, q) : j \in Keys \ (Below(R, p) \cup {k})
      BY <2>3, <1>1, <1>3 DEF Below
    <3> QED BY <3>1, <3>2, <3>3, <3>4, <1>1, <1>3, RingStays
  <2> QED BY <2>1, <2>2, <2>3
<1>9. ASSUME NEW x \in Keys, x > N.used PROVE N.last[x] = NULL
  <2>1. x \in Nat /\ p \in Nat /\ x > R.used /\ p <= R.used BY <1>1, <1>3, <1>4, <1>5, <1>6, <1>9 DEF Keys
  <2>2. x # p /\ R.last[x] = NULL BY <2>1, <1>3 DEF Tree, Ringed
  <2> QED BY <2>2, <1>1, <1>3
<1>10. N.next[Root] = NULL /\ N.prev[Root] = NULL
  <2>1. R.next[Root] = NULL /\ R.prev[Root] = NULL BY DEF Tree, Ringed
  <2>2. Root \notin Below(R, p) BY <1>5, <1>6, KeysFacts, <1>1 DEF Below
  <2>3. Root \in Keys \ (Below(R, p) \cup {k}) BY <1>1, <1>5, <2>2, KeysFacts
  <2> QED BY <1>1, <2>1, <2>3
<1> QED BY <1>1, <1>7, <1>8, <1>9, <1>10 DEF Tree, Ringed

(* Names and data have changed, and nothing else. *)
Refilled(R, N) ==
    /\ N \in Trees /\ N.live = R.live /\ N.husks = R.husks /\ N.used = R.used
    /\ N.parent = R.parent /\ N.last = R.last /\ N.next = R.next /\ N.prev = R.prev
    /\ \A k \in R.live \ {Root} : N.name[k] \in Names

LEMMA RefilledTree ==
    ASSUME NEW R, Tree(R), NEW N, Refilled(R, N)
    PROVE  /\ Tree(N)
           /\ \A p : Below(N, p) = Below(R, p) /\ Kids(N, p) = Kids(R, p)
<1>1. \A p : Below(N, p) = Below(R, p) BY DEF Below, Refilled
<1>2. \A p : Kids(N, p) = Kids(R, p) BY <1>1 DEF Kids, Refilled
<1>3. \A p : Ring(N, p) = Ring(R, p) BY DEF Ring, Refilled
<1>4. Rooted(N) BY DEF Rooted, Refilled, Tree
<1>5. Ringed(N) BY <1>1, <1>3 DEF Ringed, Refilled, Tree
<1> QED BY <1>1, <1>2, <1>4, <1>5 DEF Tree, Refilled

LEMMA DataRefills ==
    ASSUME NEW R, Tree(R), NEW k, NEW v \in Values \cup {Nothing}
    PROVE  Refilled(R, [R EXCEPT !.data[k] = v])
<1>1. R \in Trees /\ \A x \in R.live \ {Root} : R.name[x] \in Names BY DEF Tree, Rooted
<1>2. [R.data EXCEPT ![k] = v] \in [Keys -> Values \cup {Nothing}] BY <1>1, Fields
<1> DEFINE N == [R EXCEPT !.data[k] = v]
<1>3. /\ N.live = R.live /\ N.husks = R.husks /\ N.used = R.used /\ N.made = R.made
      /\ N.parent = R.parent /\ N.last = R.last /\ N.next = R.next /\ N.prev = R.prev /\ N.name = R.name
      /\ N.data = [R.data EXCEPT ![k] = v] /\ N \in Trees
  BY <1>1, <1>2 DEF Trees
<1> QED BY <1>1, <1>3 DEF Refilled

LEMMA NameRefills ==
    ASSUME NEW R, Tree(R), NEW k, NEW n \in Names, NEW N, N = [R EXCEPT !.name[k] = n]
    PROVE  /\ Refilled(R, N)
           /\ \A x \in R.live : x # k => N.name[x] = R.name[x]
<1>1. R \in Trees /\ \A x \in R.live \ {Root} : R.name[x] \in Names BY DEF Tree, Rooted
<1>2. R.name \in [Keys -> Names \cup {NULL}] /\ R.live \subseteq Keys BY <1>1, Fields
<1>3. /\ N.live = R.live /\ N.husks = R.husks /\ N.used = R.used /\ N.made = R.made
      /\ N.parent = R.parent /\ N.last = R.last /\ N.next = R.next /\ N.prev = R.prev /\ N.data = R.data
      /\ N.name = [R.name EXCEPT ![k] = n] /\ N \in Trees
  BY <1>1, <1>2 DEF Trees
<1>4. \A x \in R.live : N.name[x] = IF x = k THEN n ELSE R.name[x] BY <1>2, <1>3
<1> QED BY <1>1, <1>3, <1>4 DEF Refilled

-----------------------------------------------------------------------------
(* A key is taken out of its ring and freed with all below it. *)
Deleted(R, N, k) == k \in R.live \ {Root} /\ N = DeleteKey(R, k)

DeletedFields(R, N, k, p, m) ==
    /\ N \in Trees /\ k \in Keys /\ p \in R.live /\ p \in Keys /\ p # k
    /\ N.live = R.live \ Under(R, k) /\ N.used = R.used
    /\ R.husks \subseteq N.husks /\ N.husks \subseteq R.husks \cup Under(R, k)
    /\ N.name = R.name /\ N.data = R.data /\ N.parent = R.parent
    /\ N.last = [R.last EXCEPT ![p] = m.last] /\ N.next = m.next /\ N.prev = m.prev
    /\ m \in Memories(Keys) /\ RingOn(m, Below(R, p) \ {k}, Keys)
    /\ \A j \in Keys \ Below(R, p) : N.next[j] = R.next[j] /\ N.prev[j] = R.prev[j]

LEMMA DeletedIs ==
    ASSUME NEW R, Tree(R), NEW N, NEW k, Deleted(R, N, k), NEW p, p = R.parent[k],
           NEW m, m = Unlink(Ring(R, p), k)
    PROVE  DeletedFields(R, N, k, p, m)
<1>0. /\ R \in Trees /\ R.live \subseteq Keys /\ k \in R.live /\ k # Root /\ k \in Keys /\ k # NULL
      /\ p \in R.live /\ p \in Keys
  BY Fields, KeysFacts DEF Tree, Rooted, Deleted
<1>1. p # k
  <2>1. R.parent[k] = Root \/ R.parent[R.parent[k]] = Root BY <1>0 DEF Tree, Rooted
  <2> QED BY <2>1, <1>0
<1>2. /\ Ring(R, p) \in Memories(Keys) /\ Ring(R, p).next = R.next /\ Ring(R, p).prev = R.prev
      /\ RingOn(Ring(R, p), Below(R, p), Keys) /\ k \in Below(R, p)
  BY <1>0, RingMemory DEF Tree, Ringed, Below
<1>3. /\ m \in Memories(Keys) /\ RingOn(m, Below(R, p) \ {k}, Keys)
      /\ \A j \in Keys \ Below(R, p) : SameAt(Ring(R, p), m, j)
  BY <1>2, KeysFacts, RingUnlink
<1> DEFINE W == WithRing(R, p, m)
<1>4. /\ W \in Trees /\ W.live = R.live /\ W.made = R.made /\ W.husks = R.husks /\ W.used = R.used
      /\ W.name = R.name /\ W.data = R.data /\ W.parent = R.parent
      /\ W.last = [R.last EXCEPT ![p] = m.last] /\ W.next = m.next /\ W.prev = m.prev
  BY <1>0, <1>3, WithRingFields
<1>5. N = FreeKey(W, k) BY <1>0 DEF Deleted, DeleteKey
<1> HIDE DEF W
<1>6. Under(W, k) = Under(R, k) BY <1>4 DEF Under
<1>7. N = [W EXCEPT !.live = @ \ Under(R, k), !.made = @ \ Under(R, k),
                    !.husks = @ \cup (Under(R, k) \ W.made)]
  BY <1>5, <1>6 DEF FreeKey
<1>8. Under(R, k) \subseteq Keys BY <1>0 DEF Under
<1>9. N \in Trees BY <1>4, <1>7, <1>8 DEF Trees
<1>10. /\ N.live = W.live \ Under(R, k) /\ N.husks = W.husks \cup (Under(R, k) \ W.made)
       /\ N.used = W.used /\ N.name = W.name /\ N.data = W.data /\ N.parent = W.parent
       /\ N.last = W.last /\ N.next = W.next /\ N.prev = W.prev
  BY <1>4, <1>7 DEF Trees
<1>11. ASSUME NEW j \in Keys \ Below(R, p) PROVE N.next[j] = R.next[j] /\ N.prev[j] = R.prev[j]
  BY <1>2, <1>3, <1>4, <1>10 DEF SameAt
<1> QED BY <1>0, <1>1, <1>3, <1>4, <1>9, <1>10, <1>11 DEF DeletedFields

(* Nothing that stays is below what goes. *)
LEMMA DeletedBelow ==
    ASSUME NEW R, Tree(R), NEW N, NEW k, Deleted(R, N, k), NEW p, p = R.parent[k]
    PROVE  /\ p \in N.live /\ Below(N, p) = Below(R, p) \ {k}
           /\ \A x \in N.live \ {Root} : R.parent[x] \in N.live
           /\ \A q \in N.live : q # p => Below(N, q) = Below(R, q)
<1> DEFINE m == Unlink(Ring(R, p), k)
<1>1. /\ p \in R.live /\ p # k /\ N.live = R.live \ Under(R, k) /\ N.parent = R.parent
      /\ k \in Keys
  <2>1. m = Unlink(Ring(R, p), k) OBVIOUS
  <2> HIDE DEF m
  <2>2. DeletedFields(R, N, k, p, m) BY <2>1, DeletedIs, Zenon
  <2> QED BY <2>2 DEF DeletedFields
<1>2. /\ Root \in R.live /\ R.parent[Root] = NULL /\ k # NULL
      /\ \A x \in R.live \ {Root} : R.parent[x] \in R.live /\ (R.parent[x] = Root \/ R.parent[R.parent[x]] = Root)
  BY <1>1, KeysFacts DEF Tree, Rooted
<1>3. k \in R.live \ {Root} BY DEF Deleted
<1>4. Under(R, k) = {k} \cup Below(R, k) BY <1>3 DEF Under, Below
<1>5. \A x \in R.live \ {Root} : R.parent[x] # Root => R.parent[R.parent[x]] # k BY <1>2, <1>3
<1>6. R.parent[p] # k
  <2>1. CASE p = Root BY <2>1, <1>2
  <2>2. CASE p # Root BY <2>2, <1>3, <1>5
  <2> QED BY <2>1, <2>2
<1>7. p \in N.live BY <1>1, <1>4, <1>6 DEF Below
<1>8. ASSUME NEW x \in N.live \ {Root} PROVE R.parent[x] \in N.live
  <2>1. x \in R.live \ {Root} /\ R.parent[x] # k BY <1>1, <1>4 DEF Below
  <2>2. R.parent[x] \in R.live BY <2>1, <1>2
  <2>3. R.parent[R.parent[x]] # k
    <3>1. CASE R.parent[x] = Root BY <3>1, <1>2
    <3>2. CASE R.parent[x] # Root BY <3>2, <2>1, <1>5
    <3> QED BY <3>1, <3>2
  <2> QED BY <2>1, <2>2, <2>3, <1>1, <1>4 DEF Below
<1>9. Below(N, p) = Below(R, p) \ {k} BY <1>1, <1>4 DEF Below
<1>10. ASSUME NEW q \in N.live, q # p PROVE Below(N, q) = Below(R, q)
  <2>1. q # k BY <1>1, <1>4
  <2> QED BY <2>1, <1>10, <1>1, <1>4 DEF Below
<1> QED BY <1>7, <1>8, <1>9, <1>10

LEMMA DeletedTree ==
    ASSUME NEW R, Tree(R), NEW N, NEW k, Deleted(R, N, k)
    PROVE  Tree(N)
<1> DEFINE p == R.parent[k]
           m == Unlink(Ring(R, p), k)
<1>1. /\ N \in Trees /\ k \in Keys /\ p \in R.live /\ p \in Keys /\ p # k
      /\ N.live = R.live \ Under(R, k) /\ N.used = R.used
      /\ R.husks \subseteq N.husks /\ N.husks \subseteq R.husks \cup Under(R, k)
      /\ N.name = R.name /\ N.data = R.data /\ N.parent = R.parent
      /\ N.last = [R.last EXCEPT ![p] = m.last] /\ N.next = m.next /\ N.prev = m.prev
      /\ m \in Memories(Keys) /\ RingOn(m, Below(R, p) \ {k}, Keys)
      /\ \A j \in Keys \ Below(R, p) : N.next[j] = R.next[j] /\ N.prev[j] = R.prev[j]
  <2>1. p = R.parent[k] OBVIOUS
  <2>2. m = Unlink(Ring(R, p), k) OBVIOUS
  <2> HIDE DEF m, p
  <2>3. DeletedFields(R, N, k, p, m) BY <2>1, <2>2, DeletedIs, Zenon
  <2> QED BY <2>3 DEF DeletedFields
<1>2. /\ p \in N.live /\ Below(N, p) = Below(R, p) \ {k}
      /\ \A x \in N.live \ {Root} : R.parent[x] \in N.live
      /\ \A q \in N.live : q # p => Below(N, q) = Below(R, q)
  BY DeletedBelow
<1>3. R \in Trees /\ R.used \in Nat /\ R.live \subseteq Keys /\ R.last \in [Keys -> Pointers]
  BY Fields, KeysFacts DEF Tree
<1> HIDE DEF m, p
<1>4. /\ Root \in R.live /\ R.live \subseteq 1 .. R.used /\ R.husks \subseteq 1 .. R.used
      /\ R.live \cap R.husks = {} /\ R.parent[Root] = NULL
      /\ \A x \in R.live \ {Root} :
            /\ R.name[x] \in Names
            /\ R.parent[x] = Root \/ R.parent[R.parent[x]] = Root
  BY DEF Tree, Rooted
<1>5. Under(R, k) \subseteq R.live /\ Root \notin Under(R, k)
  BY <1>1, <1>4, KeysFacts DEF Under, Deleted
<1>6. Rooted(N) BY <1>1, <1>2, <1>4, <1>5 DEF Rooted
<1>7. ASSUME NEW q \in N.live PROVE RingOn(Ring(N, q), Below(N, q), Keys)
  <2>1. CASE q = p
    <3>1. N.last[p] = m.last BY <1>1, <1>3
    <3>2. Ring(N, p) = m BY <3>1, <1>1 DEF Ring, Memories
    <3> QED BY <3>2, <2>1, <1>1, <1>2
  <2>2. CASE q # p
    <3>1. q \in R.live /\ q \in Keys BY <1>1, <1>3
    <3>2. RingOn(Ring(R, q), Below(R, q), Keys) BY <3>1 DEF Tree, Ringed
    <3>3. Below(N, q) = Below(R, q) /\ N.last[q] = R.last[q] BY <2>2, <3>1, <1>1, <1>2, <1>3
    <3>4. \A j \in Below(R, q) : j \in Keys \ Below(R, p) BY <2>2, <1>3 DEF Below
    <3> QED BY <3>1, <3>2, <3>3, <3>4, <1>1, <1>3, RingStays
  <2> QED BY <2>1, <2>2
<1>8. ASSUME NEW x \in Keys, x > N.used PROVE N.last[x] = NULL
  <2>1. x \in Nat /\ p \in Nat /\ x > R.used /\ p <= R.used BY <1>1, <1>3, <1>4, <1>8 DEF Keys
  <2>2. x # p /\ R.last[x] = NULL BY <2>1, <1>3 DEF Tree, Ringed
  <2> QED BY <2>2, <1>1, <1>3
<1>9. N.next[Root] = NULL /\ N.prev[Root] = NULL
  <2>1. R.next[Root] = NULL /\ R.prev[Root] = NULL BY DEF Tree, Ringed
  <2>2. Root \in Keys \ Below(R, p) BY <1>1, <1>4, KeysFacts DEF Below
  <2> QED BY <1>1, <2>1, <2>2
<1> QED BY <1>1, <1>6, <1>7, <1>8, <1>9 DEF Tree, Ringed

-----------------------------------------------------------------------------
LEMMA PathIs ==
    ASSUME NEW path \in Paths
    PROVE  /\ Len(path) \in {1, 2} /\ path[1] \in Names /\ Last(path) \in Names
           /\ Last(path) = path[Len(path)] /\ path # <<>>
           /\ path \in Dirs <=> Len(path) = 1
<1>1. CASE path \in Dirs
  <2>1. PICK n \in Names : path = <<n>> BY <1>1 DEF Dirs
  <2> QED BY <2>1, <1>1 DEF Last
<1>2. CASE path \notin Dirs
  <2>1. PICK d \in Names, n \in Names : path = <<d, n>> BY <1>2 DEF Paths
  <2> QED BY <2>1, <1>2 DEF Last
<1> QED BY <1>1, <1>2

(* One name of a path: k is found in p, or a key is made there. *)
Entered(R, S, p, n, k) ==
    IF k # NULL THEN S.reg = R /\ S.key = k /\ k \in Below(R, p)
    ELSE Made(R, S.reg, p, n) /\ S.key = R.used + 1

(* A place in R where there may be keys. *)
Place(R, p) == p \in R.live /\ (p = Root \/ R.parent[p] = Root)

LEMMA EnterChild ==
    ASSUME NEW R, Tree(R), NEW p, Place(R, p), NEW n \in Names, R.used < MaxKey
    PROVE  Entered(R, Enter(R, p, n, Child(R, p, n)), p, n, Child(R, p, n))
<1>1. Child(R, p, n) # NULL => Child(R, p, n) \in Below(R, p) BY ChildIs DEF Place
<1> QED BY <1>1 DEF Entered, Enter, Made, Place

LEMMA EnterSubDir ==
    ASSUME NEW R, Tree(R), NEW p, Place(R, p), NEW n \in Names, R.used < MaxKey
    PROVE  Entered(R, Enter(R, p, n, SubDir(R, p, n)), p, n, SubDir(R, p, n))
<1>1. SubDir(R, p, n) # NULL => SubDir(R, p, n) \in Below(R, p) BY SubDirIs DEF Place
<1>2. SubDir(R, p, n) = NULL => Child(R, p, n) = NULL
  <2>1. Named(R, n) \subseteq Alike(R, n) BY DEF Named, Alike
  <2>2. p \in R.live BY DEF Place
  <2>3. SubDir(R, p, n) = NULL => Below(R, p) \cap Alike(R, n) = {} BY <2>2, SubDirIs
  <2>4. Child(R, p, n) # NULL => Child(R, p, n) \in Below(R, p) \cap Named(R, n) BY <2>2, ChildIs
  <2> QED BY <2>1, <2>3, <2>4
<1> QED BY <1>1, <1>2 DEF Entered, Enter, Made, Place

(* Nobody is lost, moved or renamed by it. *)
Grown(R, N) ==
    /\ R.live \subseteq N.live
    /\ \A x \in R.live : N.parent[x] = R.parent[x] /\ N.name[x] = R.name[x]

LEMMA EnteredTree ==
    ASSUME NEW R, Tree(R), NEW S, NEW p, NEW n, NEW k, Entered(R, S, p, n, k)
    PROVE  /\ Tree(S.reg) /\ Grown(R, S.reg) /\ S.key \in Below(S.reg, p)
           /\ S.reg.used \in R.used .. (R.used + 1)
           /\ k = NULL => S.reg.name[S.key] = n
<1>0. R.used \in Nat /\ R.live \subseteq Keys BY Fields, KeysFacts DEF Tree
<1>1. CASE k # NULL BY <1>0, <1>1 DEF Entered, Grown
<1>2. CASE k = NULL
  <2>1. Made(R, S.reg, p, n) /\ S.key = R.used + 1 BY <1>2 DEF Entered
  <2> DEFINE m == LinkEnd(Ring(R, p), S.key)
  <2>2. MadeFields(R, S.reg, p, n, S.key, m)
    <3>1. m = LinkEnd(Ring(R, p), S.key) OBVIOUS
    <3> HIDE DEF m
    <3> QED BY <2>1, <3>1, MadeIs, Zenon
  <2> HIDE DEF m
  <2>3. S.reg.live = R.live \cup {S.key} /\ S.reg.used = R.used + 1 BY <2>1, <2>2 DEF MadeFields
  <2>4. /\ \A x \in R.live : S.reg.parent[x] = R.parent[x] /\ S.reg.name[x] = R.name[x]
        /\ S.reg.parent[S.key] = p /\ S.reg.name[S.key] = n
    BY <2>1, MadeBelow
  <2>5. Tree(S.reg) BY <2>1, MadeTree
  <2> QED BY <1>0, <2>3, <2>4, <2>5 DEF Grown, Below
<1> QED BY <1>1, <1>2

(* GetOrCreateKey enters the directory, if there is one, and then the key. *)
Walked(R, path, D, S) ==
    /\ IF Len(path) = 1 THEN D = [reg |-> R, key |-> Root]
       ELSE Entered(R, D, Root, path[1], SubDir(R, Root, path[1]))
    /\ Entered(D.reg, S, D.key, Last(path), Child(D.reg, D.key, Last(path)))
    /\ Tree(D.reg) /\ Place(D.reg, D.key) /\ Grown(R, D.reg)

LEMMA GetOrCreateWalks ==
    ASSUME NEW R, Tree(R), NEW path \in Paths, R.used + Len(path) <= MaxKey
    PROVE  \E D : Walked(R, path, D, GetOrCreateKey(R, path))
<1> DEFINE D == IF Len(path) = 1 THEN [reg |-> R, key |-> Root]
                ELSE Enter(R, Root, path[1], SubDir(R, Root, path[1]))
           S == GetOrCreateKey(R, path)
           n == Last(path)
<1>0. /\ R.used \in Nat /\ MaxKey \in Nat /\ R.live \subseteq Keys /\ Root \in R.live
      /\ R.parent[Root] = NULL
  BY Fields, KeysFacts DEF Tree, Rooted
<1>1. Len(path) \in {1, 2} /\ path[1] \in Names /\ n \in Names BY PathIs
<1>2. S = Enter(D.reg, D.key, n, Child(D.reg, D.key, n)) BY DEF GetOrCreateKey
<1>3. CASE Len(path) = 1
  <2>1. D = [reg |-> R, key |-> Root] BY <1>3
  <2> HIDE DEF D, S, n
  <2>2. D.reg = R /\ D.key = Root BY <2>1
  <2>3. Place(R, Root) /\ Grown(R, R) /\ R.used < MaxKey BY <1>0, <1>3 DEF Place, Grown
  <2>4. Entered(R, Enter(R, Root, n, Child(R, Root, n)), Root, n, Child(R, Root, n))
    BY <1>1, <2>3, EnterChild
  <2>5. Walked(R, path, D, S) BY <1>2, <1>3, <2>1, <2>2, <2>3, <2>4 DEF Walked, n
  <2> QED BY <2>5 DEF S
<1>4. CASE Len(path) = 2
  <2> DEFINE k == SubDir(R, Root, path[1])
  <2>1. D = Enter(R, Root, path[1], k) BY <1>4
  <2>2. Place(R, Root) /\ R.used < MaxKey BY <1>0, <1>4 DEF Place
  <2>3. Entered(R, D, Root, path[1], k) BY <1>1, <2>1, <2>2, EnterSubDir
  <2> HIDE DEF D, S, n, k
  <2>4. /\ Tree(D.reg) /\ Grown(R, D.reg) /\ D.key \in Below(D.reg, Root)
        /\ D.reg.used \in R.used .. (R.used + 1)
    BY <2>3, EnteredTree
  <2>5. Place(D.reg, D.key) /\ D.reg.used < MaxKey BY <1>0, <1>4, <2>4 DEF Place, Below
  <2>6. Entered(D.reg, S, D.key, n, Child(D.reg, D.key, n))
    BY <1>1, <1>2, <2>4, <2>5, EnterChild
  <2>7. Walked(R, path, D, S) BY <1>4, <2>3, <2>4, <2>5, <2>6 DEF Walked, n, k
  <2> QED BY <2>7 DEF S
<1> QED BY <1>1, <1>3, <1>4

LEMMA WalkedTree ==
    ASSUME NEW R, Tree(R), NEW path \in Paths, NEW D, NEW S, Walked(R, path, D, S)
    PROVE  /\ Tree(S.reg) /\ Grown(R, S.reg) /\ S.key \in Below(S.reg, D.key)
           /\ S.reg.used \in R.used .. (R.used + Len(path))
           /\ Len(path) = 1 => Place(S.reg, S.key)
<1>0. R.used \in Nat /\ Len(path) \in {1, 2} BY Fields, KeysFacts, PathIs DEF Tree
<1>1. /\ Tree(S.reg) /\ Grown(D.reg, S.reg) /\ S.key \in Below(S.reg, D.key)
      /\ S.reg.used \in D.reg.used .. (D.reg.used + 1)
  BY EnteredTree DEF Walked
<1>2. Grown(R, D.reg) BY DEF Walked
<1>3. Grown(R, S.reg) BY <1>1, <1>2 DEF Grown
<1>4. CASE Len(path) = 1
  <2>1. D.reg = R /\ D.key = Root BY <1>4 DEF Walked
  <2> QED BY <2>1, <1>0, <1>1, <1>3, <1>4 DEF Place, Below
<1>5. CASE Len(path) = 2
  <2>1. D.reg.used \in R.used .. (R.used + 1) BY <1>5, EnteredTree DEF Walked
  <2> QED BY <2>1, <1>0, <1>1, <1>3, <1>5
<1> QED BY <1>0, <1>4, <1>5

LEMMA GetOrCreateTree ==
    ASSUME NEW R, Tree(R), NEW path \in Paths, R.used + Len(path) <= MaxKey,
           NEW S, S = GetOrCreateKey(R, path)
    PROVE  /\ Tree(S.reg) /\ Grown(R, S.reg) /\ S.key \in S.reg.live
           /\ S.reg.used \in R.used .. (R.used + Len(path))
           /\ Len(path) = 1 => Place(S.reg, S.key)
<1>1. PICK D : Walked(R, path, D, S) BY GetOrCreateWalks
<1> QED BY <1>1, WalkedTree DEF Below

-----------------------------------------------------------------------------
(* The tree a system without a file starts with. *)
LEMMA BareTree == Tree(Bare)
<1>1. Bare \in Trees
  <2>1. None \in [Keys -> Pointers] /\ None \in [Keys -> Names \cup {NULL}] BY DEF None, Pointers
  <2>2. [k \in Keys |-> Nothing] \in [Keys -> Values \cup {Nothing}] OBVIOUS
  <2>3. Root \in 0 .. MaxKey /\ {Root} \subseteq Keys BY KeysFacts
  <2> QED BY <2>1, <2>2, <2>3 DEF Bare, Trees
<1>2. /\ Bare.live = {Root} /\ Bare.husks = {} /\ Bare.used = Root
      /\ \A k \in Keys : /\ Bare.parent[k] = NULL /\ Bare.last[k] = NULL
                        /\ Bare.next[k] = NULL /\ Bare.prev[k] = NULL
  BY DEF Bare, None
<1>3. Rooted(Bare) BY <1>2, KeysFacts DEF Rooted
<1>4. Below(Bare, Root) = {} BY <1>2, KeysFacts DEF Below
<1>5. Ring(Bare, Root).last = NULL BY <1>2, KeysFacts DEF Ring
<1>6. Ringed(Bare) BY <1>2, <1>4, <1>5, EmptyRing, KeysFacts DEF Ringed
<1> QED BY <1>1, <1>3, <1>6 DEF Tree

(* t holds the trees on the way through the first n defaults. *)
Defaulted(t, n) ==
    t = [i \in 0 .. n |-> IF i = 0 THEN Bare ELSE GetOrCreateKey(t[i - 1], Defaults[i]).reg]

LEMMA DefaultTreeDef ==
    \E t : Defaulted(t, Len(Defaults)) /\ DefaultTree = t[Len(Defaults)]
<1> DEFINE A == {n \in Nat : \E t : Defaulted(t, n)}
           next(S, i) == GetOrCreateKey(S, Defaults[i]).reg
<1>1. 0 \in A
  <2>1. Defaulted([i \in 0 .. 0 |-> Bare], 0) BY DEF Defaulted
  <2> QED BY <2>1
<1>2. ASSUME NEW n \in Nat, n \in A PROVE n + 1 \in A
  <2>1. PICK t : Defaulted(t, n) BY <1>2
  <2> DEFINE u == [i \in 0 .. (n + 1) |->
                     IF i = 0 THEN Bare ELSE IF i = n + 1 THEN next(t[n], n + 1) ELSE t[i]]
  <2> HIDE DEF next
  <2>2. \A i \in 0 .. n : t[i] = IF i = 0 THEN Bare ELSE next(t[i - 1], i)
    <3>1. t = [i \in 0 .. n |-> IF i = 0 THEN Bare ELSE next(t[i - 1], i)]
      BY <2>1, Zenon DEF Defaulted, next
    <3> QED BY <3>1
  <2>3. \A i \in 0 .. n : u[i] = t[i] BY <2>2
  <2>4. ASSUME NEW i \in 0 .. (n + 1)
        PROVE  u[i] = IF i = 0 THEN Bare ELSE next(u[i - 1], i)
    <3>1. CASE i = 0 BY <3>1
    <3>2. CASE i # 0 /\ i = n + 1
      <4>1. i - 1 = n /\ n \in 0 .. n BY <3>2
      <4>2. u[n] = t[n] BY <2>3, <4>1
      <4>3. u[i] = next(t[n], i) BY <3>2
      <4> QED BY <3>2, <4>1, <4>2, <4>3
    <3>3. CASE i # 0 /\ i # n + 1
      <4>1. i \in 0 .. n /\ i - 1 \in 0 .. n BY <3>3
      <4>2. u[i] = t[i] /\ u[i - 1] = t[i - 1] BY <2>3, <4>1
      <4>3. t[i] = next(t[i - 1], i) BY <2>2, <3>3, <4>1
      <4> QED BY <3>3, <4>2, <4>3
    <3> QED BY <3>1, <3>2, <3>3
  <2>5. u = [i \in 0 .. (n + 1) |-> u[i]] OBVIOUS
  <2> HIDE DEF u
  <2>6. u = [i \in 0 .. (n + 1) |-> IF i = 0 THEN Bare ELSE next(u[i - 1], i)] BY <2>4, <2>5
  <2>7. Defaulted(u, n + 1) BY <2>6, Zenon DEF Defaulted, next
  <2> QED BY <2>7
<1>3. Len(Defaults) \in A
  <2>1. Len(Defaults) \in Nat BY RegistryAssumption, LenProperties
  <2> HIDE DEF A
  <2> QED BY <1>1, <1>2, <2>1, SetInduction
<1>4. \E t : Defaulted(t, Len(Defaults)) BY <1>3
<1> DEFINE w == CHOOSE t : Defaulted(t, Len(Defaults))
<1>5. Defaulted(w, Len(Defaults)) BY <1>4, Zenon
<1>6. DefaultTree = w[Len(Defaults)] BY Zenon DEF DefaultTree, Defaulted
<1> QED BY <1>5, <1>6

LEMMA DefaultTreeIs == Tree(DefaultTree)
<1> DEFINE L == Len(Defaults)
<1>1. PICK t : Defaulted(t, L) /\ DefaultTree = t[L] BY DefaultTreeDef
<1>2. L \in Nat /\ 1 + 2 * L <= MaxKey /\ MaxKey \in Nat /\ \A i \in 1 .. L : Defaults[i] \in Paths
  BY RegistryAssumption, LenProperties, ElementOfSeq
<1> HIDE DEF L
<1> DEFINE Good(i) == Tree(t[i]) /\ t[i].used \in 1 .. (1 + 2 * i)
           A == {i \in Nat : i <= L => Good(i)}
<1>3. \A i \in 0 .. L : t[i] = IF i = 0 THEN Bare ELSE GetOrCreateKey(t[i - 1], Defaults[i]).reg
  BY <1>1 DEF Defaulted
<1>4. 0 \in A
  <2>1. t[0] = Bare BY <1>2, <1>3
  <2>2. Bare.used = 1 BY DEF Bare, Root
  <2> QED BY <2>1, <2>2, BareTree
<1>5. ASSUME NEW i \in Nat, i \in A PROVE i + 1 \in A
  <2> SUFFICES ASSUME i + 1 <= L PROVE Good(i + 1) OBVIOUS
  <2>1. i <= L /\ i + 1 \in 0 .. L /\ i + 1 # 0 /\ (i + 1) - 1 = i /\ i + 1 \in 1 .. L BY <1>2
  <2>2. Good(i) BY <2>1, <1>5
  <2> DEFINE R == t[i]
             path == Defaults[i + 1]
             S == GetOrCreateKey(R, path)
  <2>3. t[i + 1] = S.reg BY <1>3, <2>1
  <2>4. path \in Paths /\ Len(path) \in {1, 2} BY <1>2, <2>1, PathIs
  <2>5. Tree(R) /\ R.used \in 1 .. (1 + 2 * i) BY <2>2
  <2> HIDE DEF Good, R, path, S
  <2>6. R.used + Len(path) <= MaxKey
    <3>1. 1 + 2 * i + 2 <= 1 + 2 * L BY <1>2, <2>1
    <3>2. R.used \in Nat /\ R.used <= 1 + 2 * i /\ 2 * i \in Nat /\ 2 * L \in Nat BY <1>2, <2>5
    <3>3. \A u, a, b, K \in Nat : \A l \in {1, 2} :
             u <= 1 + a /\ 1 + a + 2 <= 1 + b /\ 1 + b <= K => u + l <= K
      OBVIOUS
    <3> QED BY <1>2, <2>4, <3>1, <3>2, <3>3
  <2>7. Tree(S.reg) /\ S.reg.used \in R.used .. (R.used + Len(path))
    BY <2>4, <2>5, <2>6, GetOrCreateTree DEF S
  <2>8. R.used \in Nat /\ 1 <= R.used /\ R.used <= 1 + 2 * i BY <2>5
  <2>9. S.reg.used \in Nat /\ R.used <= S.reg.used /\ S.reg.used <= R.used + Len(path) BY <2>4, <2>7, <2>8
  <2>10. 1 <= S.reg.used /\ S.reg.used <= 1 + 2 * (i + 1)
    <3>1. \A u, v, a \in Nat : \A l \in {1, 2} :
             1 <= u /\ u <= v /\ v <= u + l /\ u <= 1 + a => 1 <= v /\ v <= 1 + (a + 2)
      OBVIOUS
    <3>2. 2 * i \in Nat /\ 2 * (i + 1) = 2 * i + 2 OBVIOUS
    <3>3. 1 <= S.reg.used /\ S.reg.used <= 1 + (2 * i + 2)
      <4> DEFINE a == 2 * i
      <4>1. a \in Nat /\ R.used <= 1 + a BY <2>8, <3>2
      <4> HIDE DEF a
      <4>2. 1 <= S.reg.used /\ S.reg.used <= 1 + (a + 2) BY <2>4, <2>8, <2>9, <3>1, <4>1
      <4> QED BY <4>2 DEF a
    <3> QED BY <3>2, <3>3, Zenon
  <2>11. S.reg.used \in 1 .. (1 + 2 * (i + 1)) BY <2>9, <2>10
  <2> QED BY <2>3, <2>7, <2>11 DEF Good
<1>6. L \in A
  <2> HIDE DEF A
  <2> QED BY <1>2, <1>4, <1>5, SetInduction
<1> QED BY <1>1, <1>6

-----------------------------------------------------------------------------
(* Sequences without a member in common, one after the other. *)
LEMMA ConcatDistinct ==
    ASSUME NEW T, NEW s \in Seq(T), NEW t \in Seq(T), Distinct(s), Distinct(t),
           Range(s) \cap Range(t) = {}
    PROVE  s \o t \in Seq(T) /\ Distinct(s \o t) /\ Range(s \o t) = Range(s) \cup Range(t)
<1> DEFINE c == s \o t
<1>1. /\ c \in Seq(T) /\ Len(c) = Len(s) + Len(t) /\ Len(s) \in Nat /\ Len(t) \in Nat
      /\ \A i \in 1 .. (Len(s) + Len(t)) : c[i] = IF i <= Len(s) THEN s[i] ELSE t[i - Len(s)]
  BY ConcatProperties, LenProperties
<1> HIDE DEF c
<1>2. /\ \A i \in 1 .. Len(s) : s[i] \in Range(s)
      /\ \A i \in 1 .. Len(t) : t[i] \in Range(t)
      /\ \A i \in 1 .. Len(c) : c[i] \in Range(c)
  BY <1>1, RangeIs
<1>3. \A i \in 1 .. Len(c) : \/ i \in 1 .. Len(s) /\ c[i] = s[i]
                             \/ i - Len(s) \in 1 .. Len(t) /\ i > Len(s) /\ c[i] = t[i - Len(s)]
  BY <1>1
<1>4. Distinct(c)
  <2> SUFFICES ASSUME NEW i \in 1 .. Len(c), NEW j \in 1 .. Len(c), c[i] = c[j] PROVE i = j
    BY DEF Distinct
  <2>1. i \in Int /\ j \in Int /\ Len(s) \in Nat BY <1>1
  <2>2. CASE i <= Len(s) /\ j <= Len(s)
    <3>1. i \in 1 .. Len(s) /\ j \in 1 .. Len(s) /\ s[i] = s[j] BY <2>2, <1>1
    <3> QED BY <3>1 DEF Distinct
  <2>3. CASE i > Len(s) /\ j > Len(s)
    <3>1. i - Len(s) \in 1 .. Len(t) /\ j - Len(s) \in 1 .. Len(t) /\ t[i - Len(s)] = t[j - Len(s)]
      BY <2>3, <1>1
    <3>2. i - Len(s) = j - Len(s) BY <3>1 DEF Distinct
    <3> QED BY <3>2, <2>1
  <2>4. CASE i <= Len(s) /\ j > Len(s)
    <3>1. i \in 1 .. Len(s) /\ c[i] = s[i] BY <2>4, <1>3, <2>1
    <3>2. j - Len(s) \in 1 .. Len(t) /\ c[j] = t[j - Len(s)] BY <2>4, <1>3, <2>1
    <3> QED BY <1>2, <3>1, <3>2
  <2>5. CASE i > Len(s) /\ j <= Len(s)
    <3>1. j \in 1 .. Len(s) /\ c[j] = s[j] BY <2>5, <1>3, <2>1
    <3>2. i - Len(s) \in 1 .. Len(t) /\ c[i] = t[i - Len(s)] BY <2>5, <1>3, <2>1
    <3> QED BY <1>2, <3>1, <3>2
  <2> QED BY <2>1, <2>2, <2>3, <2>4, <2>5
<1>5. ASSUME NEW x \in Range(c) PROVE x \in Range(s) \cup Range(t)
  <2>1. PICK i \in 1 .. Len(c) : c[i] = x BY <1>1, RangeIs
  <2> QED BY <2>1, <1>2, <1>3
<1>6. ASSUME NEW x \in Range(s) PROVE x \in Range(c)
  <2>1. PICK i \in 1 .. Len(s) : s[i] = x BY RangeIs
  <2>2. i \in 1 .. Len(c) /\ c[i] = x BY <2>1, <1>1
  <2> QED BY <2>2, <1>2
<1>7. ASSUME NEW x \in Range(t) PROVE x \in Range(c)
  <2>1. PICK i \in 1 .. Len(t) : t[i] = x BY RangeIs
  <2>2. Len(s) + i \in 1 .. (Len(s) + Len(t)) /\ ~ (Len(s) + i <= Len(s)) /\ (Len(s) + i) - Len(s) = i BY <1>1
  <2>3. Len(s) + i \in 1 .. Len(c) /\ c[Len(s) + i] = x BY <2>1, <2>2, <1>1
  <2> QED BY <2>3, <1>2
<1> QED BY <1>1, <1>4, <1>5, <1>6, <1>7 DEF c

(* f holds the first n sequences of q, one after the other. *)
Joined(f, q, n) == f = [i \in 1 .. n |-> IF i = 1 THEN q[i] ELSE f[i - 1] \o q[i]]

LEMMA FlattenSeqDef ==
    ASSUME NEW q, Len(q) \in Nat \ {0}
    PROVE  \E f : Joined(f, q, Len(q)) /\ FlattenSeq(q) = f[Len(q)]
<1> DEFINE A == {n \in Nat : \E f : Joined(f, q, n)}
           cat(s, i) == s \o q[i]
<1>1. 0 \in A
  <2>1. Joined([i \in 1 .. 0 |-> q], q, 0) BY DEF Joined
  <2> QED BY <2>1
<1>2. ASSUME NEW n \in Nat, n \in A PROVE n + 1 \in A
  <2>1. PICK f : Joined(f, q, n) BY <1>2
  <2> DEFINE u == [i \in 1 .. (n + 1) |->
                     IF i = 1 THEN q[i] ELSE IF i = n + 1 THEN cat(f[n], n + 1) ELSE f[i]]
  <2> HIDE DEF cat
  <2>2. \A i \in 1 .. n : f[i] = IF i = 1 THEN q[i] ELSE cat(f[i - 1], i)
    <3>1. f = [i \in 1 .. n |-> IF i = 1 THEN q[i] ELSE cat(f[i - 1], i)]
      BY <2>1, Zenon DEF Joined, cat
    <3> QED BY <3>1
  <2>3. \A i \in 1 .. n : u[i] = f[i] BY <2>2
  <2>4. ASSUME NEW i \in 1 .. (n + 1)
        PROVE  u[i] = IF i = 1 THEN q[i] ELSE cat(u[i - 1], i)
    <3>1. CASE i = 1 BY <3>1
    <3>2. CASE i # 1 /\ i = n + 1
      <4>1. i - 1 = n /\ n \in 1 .. n BY <3>2
      <4>2. u[n] = f[n] BY <2>3, <4>1
      <4>3. u[i] = cat(f[n], n + 1) BY <3>2
      <4> QED BY <3>2, <4>1, <4>2, <4>3
    <3>3. CASE i # 1 /\ i # n + 1
      <4>1. i \in 1 .. n /\ i - 1 \in 1 .. n BY <3>3
      <4>2. u[i] = f[i] /\ u[i - 1] = f[i - 1] BY <2>3, <4>1
      <4>3. f[i] = cat(f[i - 1], i) BY <2>2, <3>3, <4>1
      <4> QED BY <3>3, <4>2, <4>3
    <3> QED BY <3>1, <3>2, <3>3
  <2>5. u = [i \in 1 .. (n + 1) |-> u[i]] OBVIOUS
  <2> HIDE DEF u
  <2>6. u = [i \in 1 .. (n + 1) |-> IF i = 1 THEN q[i] ELSE cat(u[i - 1], i)] BY <2>4, <2>5
  <2>7. Joined(u, q, n + 1) BY <2>6, Zenon DEF Joined, cat
  <2> QED BY <2>7
<1>3. Len(q) \in A
  <2>1. Len(q) \in Nat OBVIOUS
  <2> HIDE DEF A
  <2> QED BY <1>1, <1>2, <2>1, SetInduction
<1>4. \E f : Joined(f, q, Len(q)) BY <1>3
<1> DEFINE w == CHOOSE f : Joined(f, q, Len(q))
<1>5. Joined(w, q, Len(q)) BY <1>4, Zenon
<1>6. Len(q) # 0 OBVIOUS
<1>7. FlattenSeq(q) = w[Len(q)] BY <1>6, Zenon DEF FlattenSeq, Joined
<1> QED BY <1>5, <1>7

(* Sequences that have no member twice and none in common, all together.   *)
LEMMA FlattenDistinct ==
    ASSUME NEW T, NEW q, Len(q) \in Nat \ {0},
           \A i \in 1 .. Len(q) : q[i] \in Seq(T) /\ Distinct(q[i]),
           \A i, j \in 1 .. Len(q) : i # j => Range(q[i]) \cap Range(q[j]) = {}
    PROVE  /\ FlattenSeq(q) \in Seq(T) /\ Distinct(FlattenSeq(q))
           /\ \A x : x \in Range(FlattenSeq(q)) <=> \E i \in 1 .. Len(q) : x \in Range(q[i])
<1>1. PICK f : Joined(f, q, Len(q)) /\ FlattenSeq(q) = f[Len(q)] BY FlattenSeqDef
<1> DEFINE L == Len(q)
           Good(n) == /\ f[n] \in Seq(T) /\ Distinct(f[n])
                      /\ \A x : x \in Range(f[n]) <=> \E i \in 1 .. n : x \in Range(q[i])
           A == {n \in Nat : n \in 1 .. L => Good(n)}
<1>2. \A i \in 1 .. L : f[i] = IF i = 1 THEN q[i] ELSE f[i - 1] \o q[i] BY <1>1 DEF Joined
<1>3. L \in Nat \ {0} OBVIOUS
<1> HIDE DEF L
<1>4. 0 \in A OBVIOUS
<1>5. ASSUME NEW n \in Nat, n \in A PROVE n + 1 \in A
  <2> SUFFICES ASSUME n + 1 \in 1 .. L PROVE Good(n + 1) OBVIOUS
  <2>0. q[n + 1] \in Seq(T) /\ Distinct(q[n + 1]) BY DEF L
  <2>1. CASE n = 0
    <3>1. f[1] = q[1] /\ n + 1 = 1 BY <2>1, <1>2
    <3>2. \A x : (\E i \in 1 .. 1 : x \in Range(q[i])) <=> x \in Range(q[1]) OBVIOUS
    <3> QED BY <2>0, <3>1, <3>2
  <2>2. CASE n # 0
    <3>1. n \in 1 .. L /\ n + 1 # 1 /\ (n + 1) - 1 = n BY <2>2, <1>3
    <3>2. f[n + 1] = f[n] \o q[n + 1] BY <1>2, <3>1
    <3>3. Good(n) BY <1>5, <3>1
    <3>4. Range(f[n]) \cap Range(q[n + 1]) = {}
      <4> SUFFICES ASSUME NEW x, x \in Range(f[n]), x \in Range(q[n + 1]) PROVE FALSE OBVIOUS
      <4>1. PICK i \in 1 .. n : x \in Range(q[i]) BY <3>3
      <4>2. i \in 1 .. Len(q) /\ n + 1 \in 1 .. Len(q) /\ i # n + 1 BY <1>3 DEF L
      <4> QED BY <4>1, <4>2
    <3>5. /\ f[n + 1] \in Seq(T) /\ Distinct(f[n + 1])
          /\ Range(f[n + 1]) = Range(f[n]) \cup Range(q[n + 1])
      BY <2>0, <3>2, <3>3, <3>4, ConcatDistinct
    <3>6. ASSUME NEW x
          PROVE  x \in Range(f[n + 1]) <=> \E i \in 1 .. (n + 1) : x \in Range(q[i])
      <4>1. x \in Range(f[n]) <=> \E i \in 1 .. n : x \in Range(q[i]) BY <3>3
      <4>2. \A i : i \in 1 .. (n + 1) <=> i \in 1 .. n \/ i = n + 1 OBVIOUS
      <4> QED BY <4>1, <4>2, <3>5
    <3> QED BY <3>5, <3>6
  <2> QED BY <2>1, <2>2
<1>6. L \in A
  <2> HIDE DEF A
  <2> QED BY <1>3, <1>4, <1>5, SetInduction
<1>7. Good(L) BY <1>3, <1>6
<1> QED BY <1>1, <1>7 DEF L

(* A key in front of those of its directory. *)
LEMMA HeadedDistinct ==
    ASSUME NEW T, NEW k \in T, NEW s \in Seq(T), Distinct(s), k \notin Range(s)
    PROVE  <<k>> \o s \in Seq(T) /\ Distinct(<<k>> \o s) /\ Range(<<k>> \o s) = {k} \cup Range(s)
<1>1. <<k>> \in Seq(T) /\ Len(<<k>>) = 1 /\ <<k>>[1] = k OBVIOUS
<1>2. Distinct(<<k>>) BY <1>1 DEF Distinct
<1> DEFINE h == <<k>>
<1>3. h \in Seq(T) /\ Len(h) = 1 /\ h[1] = k /\ Distinct(h) BY <1>1, <1>2
<1> HIDE DEF h
<1>4. Range(h) = {k}
  <2>1. ASSUME NEW x \in Range(h) PROVE x = k
    <3>1. PICK i \in 1 .. Len(h) : h[i] = x BY <1>3, RangeIs
    <3> QED BY <3>1, <1>3
  <2>2. k \in Range(h)
    <3>1. 1 \in 1 .. Len(h) BY <1>3
    <3> QED BY <3>1, <1>3, RangeIs
  <2> QED BY <2>1, <2>2
<1>5. h \o s \in Seq(T) /\ Distinct(h \o s) /\ Range(h \o s) = Range(h) \cup Range(s)
  BY <1>3, <1>4, ConcatDistinct
<1> QED BY <1>4, <1>5 DEF h

-----------------------------------------------------------------------------
(* The order of the file names every key once, the root first. *)
LEMMA OrderIs ==
    ASSUME NEW R, Tree(R), NEW o, o = Order(R)
    PROVE  /\ o \in Seq(Keys) /\ Distinct(o) /\ Range(o) = R.live
           /\ o[1] = Root /\ Len(o) \in 1 .. MaxKey
<1> DEFINE K == Kids(R, Root)
           q == [i \in DOMAIN K |-> <<K[i]>> \o Kids(R, K[i])]
           f == FlattenSeq(q)
<1>0. /\ Root \in R.live /\ R.live \subseteq Keys /\ R.parent[Root] = NULL
      /\ \A k \in R.live \ {Root} :
            R.parent[k] \in R.live /\ (R.parent[k] = Root \/ R.parent[R.parent[k]] = Root)
  BY Fields DEF Tree, Rooted
<1>1. o = <<Root>> \o f BY DEF Order
<1>2. K \in Seq(Keys) /\ Distinct(K) /\ Range(K) = Below(R, Root) BY <1>0, KidsAre
<1>3. Len(K) \in Nat /\ DOMAIN K = 1 .. Len(K) BY <1>2, LenProperties
<1>4. DOMAIN q = 1 .. Len(K) /\ Len(q) = Len(K) /\ \A i \in 1 .. Len(K) : q[i] = <<K[i]>> \o Kids(R, K[i])
  BY <1>3
<1> HIDE DEF q, K, f
<1>5. ASSUME NEW i \in 1 .. Len(K)
      PROVE  /\ K[i] \in R.live \ {Root} /\ R.parent[K[i]] = Root
             /\ q[i] \in Seq(Keys) /\ Distinct(q[i]) /\ Range(q[i]) = {K[i]} \cup Below(R, K[i])
  <2>1. K[i] \in Below(R, Root) BY <1>2, RangeIs
  <2>2. K[i] \in R.live \ {Root} /\ R.parent[K[i]] = Root /\ K[i] \in Keys BY <2>1, <1>0, BelowIs
  <2> DEFINE s == Kids(R, K[i])
  <2>3. s \in Seq(Keys) /\ Distinct(s) /\ Range(s) = Below(R, K[i]) BY <2>2, KidsAre
  <2>4. K[i] \notin Below(R, K[i]) BY <2>2 DEF Below
  <2>5. q[i] = <<K[i]>> \o s BY <1>4
  <2> HIDE DEF s
  <2>6. /\ <<K[i]>> \o s \in Seq(Keys) /\ Distinct(<<K[i]>> \o s)
        /\ Range(<<K[i]>> \o s) = {K[i]} \cup Range(s)
    BY <2>2, <2>3, <2>4, HeadedDistinct
  <2> QED BY <2>2, <2>3, <2>5, <2>6
<1>6. ASSUME NEW i \in 1 .. Len(K), NEW j \in 1 .. Len(K), i # j
      PROVE  Range(q[i]) \cap Range(q[j]) = {}
  <2>1. K[i] # K[j] BY <1>2, <1>6 DEF Distinct
  <2>2. Range(q[i]) = {K[i]} \cup Below(R, K[i]) /\ K[i] # Root /\ R.parent[K[i]] = Root BY <1>5
  <2>3. Range(q[j]) = {K[j]} \cup Below(R, K[j]) /\ K[j] # Root /\ R.parent[K[j]] = Root BY <1>5
  <2>4. K[i] \notin Below(R, K[j]) /\ K[j] \notin Below(R, K[i]) BY <2>2, <2>3 DEF Below
  <2>5. Below(R, K[i]) \cap Below(R, K[j]) = {} BY <2>1 DEF Below
  <2> QED BY <2>1, <2>2, <2>3, <2>4, <2>5
<1>7. /\ f \in Seq(Keys) /\ Distinct(f)
      /\ \A x : x \in Range(f) <=> \E i \in 1 .. Len(K) : x \in Range(q[i])
  <2>1. CASE Len(K) = 0
    <3>1. f = q BY <2>1, <1>4 DEF f, FlattenSeq
    <3>2. q = <<>> BY <2>1, <1>3 DEF q
    <3>3. f \in Seq(Keys) /\ Len(f) = 0 BY <3>1, <3>2
    <3>4. Distinct(f) BY <3>3 DEF Distinct
    <3>5. Range(f) = {} BY <3>3, RangeOfEmpty
    <3> QED BY <3>3, <3>4, <3>5, <2>1
  <2>2. CASE Len(K) # 0
    <3>1. Len(q) \in Nat \ {0} BY <2>2, <1>3, <1>4
    <3>2. \A i \in 1 .. Len(q) : q[i] \in Seq(Keys) /\ Distinct(q[i]) BY <1>4, <1>5
    <3>3. \A i, j \in 1 .. Len(q) : i # j => Range(q[i]) \cap Range(q[j]) = {} BY <1>4, <1>6
    <3>4. /\ f \in Seq(Keys) /\ Distinct(f)
          /\ \A x : x \in Range(f) <=> \E i \in 1 .. Len(q) : x \in Range(q[i])
      BY <3>1, <3>2, <3>3, FlattenDistinct DEF f
    <3> QED BY <3>4, <1>4
  <2> QED BY <2>1, <2>2
<1>8. Range(f) = R.live \ {Root}
  <2>1. ASSUME NEW x \in Range(f) PROVE x \in R.live \ {Root}
    <3>1. PICK i \in 1 .. Len(K) : x \in Range(q[i]) BY <1>7
    <3>2. K[i] \in R.live \ {Root} /\ x \in {K[i]} \cup Below(R, K[i]) BY <3>1, <1>5
    <3>3. x \in Below(R, K[i]) => x \in R.live \ {Root} BY <3>2, BelowIs
    <3> QED BY <3>2, <3>3
  <2>2. ASSUME NEW x \in R.live \ {Root} PROVE x \in Range(f)
    <3>1. PICK y \in Below(R, Root) : x = y \/ R.parent[x] = y
      <4>1. CASE R.parent[x] = Root BY <4>1 DEF Below
      <4>2. CASE R.parent[x] # Root
        <5>1. R.parent[x] \in Below(R, Root) BY <4>2, <1>0 DEF Below
        <5> QED BY <5>1
      <4> QED BY <4>1, <4>2
    <3>2. PICK i \in 1 .. Len(K) : K[i] = y BY <1>2, RangeIs
    <3>3. x \in Range(q[i]) BY <3>1, <3>2, <1>5 DEF Below
    <3> QED BY <3>3, <1>7
  <2> QED BY <2>1, <2>2
<1>9. o \in Seq(Keys) /\ Distinct(o) /\ Range(o) = {Root} \cup Range(f)
  BY <1>0, <1>1, <1>7, <1>8, HeadedDistinct
<1>10. o[1] = Root /\ Len(o) \in Nat \ {0}
  <2>1. Len(<<Root>>) = 1 /\ <<Root>>[1] = Root /\ <<Root>> \in Seq(Keys) BY <1>0
  <2>2. Len(f) \in Nat BY <1>7, LenProperties
  <2> QED BY <2>1, <2>2, <1>1, <1>7, ConcatProperties
<1>11. Len(o) <= MaxKey BY <1>9, KeysFacts, DistinctFits
<1> QED BY <1>0, <1>8, <1>9, <1>10, <1>11, KeysFacts

-----------------------------------------------------------------------------
(* N is R with its keys renumbered by h. *)
Copied(R, N, h) ==
    /\ N \in Trees /\ N.husks = {} /\ N.live = 1 .. N.used
    /\ \A k \in Keys : k > N.used => N.last[k] = NULL
    /\ \A x \in N.live : \E k \in R.live : h[k] = x
    /\ \A k \in R.live : h[k] \in N.live /\ h[k] # NULL
    /\ \A k, l \in R.live : h[k] = h[l] => k = l
    /\ h[Root] = Root /\ h[NULL] = NULL
    /\ \A k \in R.live :
          /\ N.name[h[k]] = R.name[k] /\ N.data[h[k]] = R.data[k]
          /\ N.parent[h[k]] = h[R.parent[k]] /\ N.last[h[k]] = h[R.last[k]]
          /\ N.next[h[k]] = h[R.next[k]] /\ N.prev[h[k]] = h[R.prev[k]]

(* h takes what is below a key to what is below its copy. *)
BelowCopied(R, N, h) ==
    \A p \in R.live : \A x : x \in Below(N, h[p]) <=> \E k \in Below(R, p) : h[k] = x

LEMMA CopiedRooted ==
    ASSUME NEW R, Tree(R), NEW N, NEW h, Copied(R, N, h)
    PROVE  Rooted(N) /\ BelowCopied(R, N, h)
<1>0. /\ Root \in R.live /\ R.parent[Root] = NULL
      /\ \A k \in R.live \ {Root} :
            /\ R.parent[k] \in R.live /\ R.name[k] \in Names
            /\ R.parent[k] = Root \/ R.parent[R.parent[k]] = Root
  BY DEF Tree, Rooted
<1>1. Root \in N.live /\ N.parent[Root] = NULL BY <1>0 DEF Copied
<1>2. ASSUME NEW x \in N.live \ {Root}
      PROVE  /\ N.parent[x] \in N.live /\ N.name[x] \in Names
             /\ N.parent[x] = Root \/ N.parent[N.parent[x]] = Root
  <2>1. PICK k \in R.live : h[k] = x BY DEF Copied
  <2>2. k # Root BY <2>1, <1>2 DEF Copied
  <2>3. N.parent[x] = h[R.parent[k]] /\ N.name[x] = R.name[k] BY <2>1 DEF Copied
  <2>4. R.parent[k] \in R.live BY <2>2, <1>0
  <2>5. N.parent[h[R.parent[k]]] = h[R.parent[R.parent[k]]] BY <2>4 DEF Copied
  <2>6. h[Root] = Root /\ h[R.parent[k]] \in N.live BY <2>4 DEF Copied
  <2> QED BY <2>2, <2>3, <2>4, <2>5, <2>6, <1>0
<1>3. Rooted(N) BY <1>1, <1>2 DEF Rooted, Copied
<1>4. ASSUME NEW p \in R.live, NEW x
      PROVE  x \in Below(N, h[p]) <=> \E k \in Below(R, p) : h[k] = x
  <2>1. ASSUME x \in Below(N, h[p]) PROVE \E k \in Below(R, p) : h[k] = x
    <3>1. x \in N.live /\ N.parent[x] = h[p] BY <2>1 DEF Below
    <3>2. PICK k \in R.live : h[k] = x BY <3>1 DEF Copied
    <3>3. h[R.parent[k]] = h[p] /\ h[p] # NULL BY <3>1, <3>2 DEF Copied
    <3>4. k # Root BY <3>3, <1>0 DEF Copied
    <3>5. R.parent[k] = p BY <3>3, <3>4, <1>0 DEF Copied
    <3> QED BY <3>2, <3>5 DEF Below
  <2>2. ASSUME NEW k \in Below(R, p), h[k] = x PROVE x \in Below(N, h[p])
    BY <2>2 DEF Below, Copied
  <2> QED BY <2>1, <2>2
<1> QED BY <1>3, <1>4 DEF BelowCopied

(* The copy of a ring. *)
Image(h, s) == [i \in 1 .. Len(s) |-> h[s[i]]]

LEMMA CopiedRing ==
    ASSUME NEW R, Tree(R), NEW N, NEW h, Copied(R, N, h), NEW p \in R.live,
           NEW s \in Seq(Keys), Distinct(s), Range(s) = Below(R, p),
           NEW t, t = Image(h, s)
    PROVE  /\ t \in Seq(Keys) /\ Len(t) = Len(s) /\ Distinct(t) /\ Range(t) = Below(N, h[p])
           /\ Linked(Ring(R, p), s) => Linked(Ring(N, h[p]), t)
<1>0. N.live \subseteq Keys /\ R.live \subseteq Keys BY Fields DEF Tree, Copied
<1>1. Len(s) \in Nat /\ (s = <<>> <=> Len(s) = 0) BY EmptySeq, LenProperties
<1>2. \A i \in 1 .. Len(s) : s[i] \in Below(R, p) /\ s[i] \in R.live BY RangeIs DEF Below
<1>3. \A i \in 1 .. Len(s) : h[s[i]] \in Keys BY <1>0, <1>2 DEF Copied
<1>4. t \in [1 .. Len(s) -> Keys] BY <1>3 DEF Image
<1>5. t \in Seq(Keys) /\ Len(t) = Len(s) BY <1>1, <1>4
<1>6. \A i \in 1 .. Len(s) : t[i] = h[s[i]] BY DEF Image
<1>7. t = <<>> <=> s = <<>> BY <1>1, <1>5, EmptySeq
<1>8. Distinct(t) BY <1>2, <1>5, <1>6 DEF Distinct, Copied
<1>9. Range(t) = Below(N, h[p])
  <2>0. \A x : x \in Below(N, h[p]) <=> \E k \in Below(R, p) : h[k] = x
    <3>1. BelowCopied(R, N, h) BY CopiedRooted, Zenon
    <3> QED BY <3>1 DEF BelowCopied
  <2>1. ASSUME NEW x \in Range(t) PROVE x \in Below(N, h[p])
    <3>1. PICK i \in 1 .. Len(s) : t[i] = x BY <1>5, RangeIs
    <3> QED BY <3>1, <1>2, <1>6, <2>0
  <2>2. ASSUME NEW x \in Below(N, h[p]) PROVE x \in Range(t)
    <3>1. PICK k \in Below(R, p) : h[k] = x BY <2>0
    <3>2. PICK i \in 1 .. Len(s) : s[i] = k BY RangeIs
    <3>3. t[i] = x /\ i \in 1 .. Len(t) BY <3>1, <3>2, <1>5, <1>6
    <3> QED BY <3>3, <1>5, RangeIs
  <2> QED BY <2>1, <2>2
<1>10. ASSUME Linked(Ring(R, p), s) PROVE Linked(Ring(N, h[p]), t)
  <2>0. /\ Ring(R, p).last = R.last[p] /\ Ring(R, p).next = R.next /\ Ring(R, p).prev = R.prev
        /\ Ring(N, h[p]).last = N.last[h[p]] /\ Ring(N, h[p]).next = N.next /\ Ring(N, h[p]).prev = N.prev
    BY DEF Ring
  <2>1. N.last[h[p]] = h[R.last[p]] /\ h[NULL] = NULL BY DEF Copied
  <2>2. CASE s = <<>> BY <2>2, <2>0, <2>1, <1>7, <1>10 DEF Linked
  <2>3. CASE s # <<>>
    <3>1. 1 \in 1 .. Len(s) /\ Len(s) \in 1 .. Len(s) BY <2>3, <1>1
    <3>2. R.last[p] = s[Len(s)] /\ R.next[s[Len(s)]] = s[1] /\ R.prev[s[1]] = s[Len(s)]
      BY <2>0, <2>3, <1>10 DEF Linked
    <3>3. \A i \in 1 .. Len(s) : N.next[t[i]] = h[R.next[s[i]]] /\ N.prev[t[i]] = h[R.prev[s[i]]]
      BY <1>2, <1>6 DEF Copied
    <3>4. /\ N.last[h[p]] = t[Len(t)] /\ N.next[t[Len(t)]] = t[1] /\ N.prev[t[1]] = t[Len(t)]
      BY <3>1, <3>2, <3>3, <2>1, <1>5, <1>6
    <3>5. ASSUME NEW i \in 1 .. (Len(s) - 1)
          PROVE  N.next[t[i]] = t[i + 1] /\ N.prev[t[i + 1]] = t[i]
      <4>1. i \in 1 .. Len(s) /\ i + 1 \in 1 .. Len(s) BY <1>1
      <4>2. R.next[s[i]] = s[i + 1] /\ R.prev[s[i + 1]] = s[i]
        BY <2>0, <2>3, <1>10 DEF Linked, Chained
      <4> QED BY <4>1, <4>2, <3>3, <1>6
    <3>6. Chained(Ring(N, h[p]), t) BY <2>0, <3>5, <1>5 DEF Chained
    <3> QED BY <2>0, <3>4, <3>6, <1>7, <2>3 DEF Linked
  <2> QED BY <2>2, <2>3
<1> QED BY <1>5, <1>8, <1>9, <1>10

LEMMA CopiedTree ==
    ASSUME NEW R, Tree(R), NEW N, NEW h, Copied(R, N, h)
    PROVE  Tree(N)
<1>1. Rooted(N) BY CopiedRooted
<1>2. ASSUME NEW x \in N.live PROVE RingOn(Ring(N, x), Below(N, x), Keys)
  <2>1. PICK p \in R.live : h[p] = x BY DEF Copied
  <2>2. RingOn(Ring(R, p), Below(R, p), Keys) BY DEF Tree, Ringed
  <2>3. PICK s \in Seq(Keys) : Distinct(s) /\ Range(s) = Below(R, p) /\ Linked(Ring(R, p), s)
    BY <2>2, Zenon DEF RingOn
  <2> DEFINE t == Image(h, s)
  <2>4. t = Image(h, s) OBVIOUS
  <2> HIDE DEF t
  <2>5. t \in Seq(Keys) /\ Distinct(t) /\ Range(t) = Below(N, h[p]) /\ Linked(Ring(N, h[p]), t)
    BY <2>3, <2>4, CopiedRing
  <2> QED BY <2>1, <2>5, Zenon DEF RingOn
<1>3. N.next[Root] = NULL /\ N.prev[Root] = NULL
  <2>1. R.next[Root] = NULL /\ R.prev[Root] = NULL /\ Root \in R.live BY DEF Tree, Ringed, Rooted
  <2> QED BY <2>1 DEF Copied
<1> QED BY <1>1, <1>2, <1>3 DEF Tree, Ringed, Copied

(* The walk over a directory, stop by stop. *)
LEMMA KidsSteps ==
    ASSUME NEW R, NEW p, Cardinality(Below(R, p)) \in Nat, NEW s, s = Kids(R, p)
    PROVE  /\ s = [j \in 1 .. Cardinality(Below(R, p)) |-> s[j]]
           /\ \A j \in 1 .. Cardinality(Below(R, p)) :
                 s[j] = IF j = 1 THEN R.last[p] ELSE R.next[s[j - 1]]
<1> DEFINE n == Cardinality(Below(R, p))
           e(j) == IF j = 1 THEN R.last[p] ELSE R.next[WalkAlong(R.last[p], R.next, n)[j - 1]]
<1>1. WalkAlong(R.last[p], R.next, n) = [j \in 1 .. n |-> e(j)] BY WalkAlongDef
<1>2. s = WalkAlong(R.last[p], R.next, n) BY DEF Kids
<1> HIDE DEF n
<1>3. s = [j \in 1 .. n |-> IF j = 1 THEN R.last[p] ELSE R.next[s[j - 1]]] BY <1>1, <1>2
<1> QED BY <1>3 DEF n

LEMMA CopiedKids ==
    ASSUME NEW R, Tree(R), NEW N, NEW h, Copied(R, N, h), NEW p \in R.live
    PROVE  Kids(N, h[p]) = Image(h, Kids(R, p))
<1> DEFINE s == Kids(R, p)
           t == Image(h, s)
           u == Kids(N, h[p])
           C == Below(N, h[p])
<1>1. s \in Seq(Keys) /\ Distinct(s) /\ Range(s) = Below(R, p) BY KidsAre
<1>2. t \in Seq(Keys) /\ Len(t) = Len(s) /\ Distinct(t) /\ Range(t) = C
  <2>1. t = Image(h, s) OBVIOUS
  <2> HIDE DEF t, s
  <2> QED BY <1>1, <2>1, CopiedRing
<1>3. /\ Cardinality(C) = Len(s) /\ Len(s) \in Nat
      /\ Cardinality(Below(R, p)) = Len(s)
  <2> HIDE DEF t, s, C
  <2> QED BY <1>1, <1>2, DistinctCardinality, LenProperties
<1>4. /\ u = [j \in 1 .. Len(s) |-> u[j]]
      /\ \A j \in 1 .. Len(s) : u[j] = IF j = 1 THEN N.last[h[p]] ELSE N.next[u[j - 1]]
  <2>1. u = Kids(N, h[p]) /\ C = Below(N, h[p]) OBVIOUS
  <2> HIDE DEF u, s, C
  <2>2. Cardinality(Below(N, h[p])) = Len(s) BY <1>3, <2>1
  <2> QED BY <2>1, <2>2, <1>3, KidsSteps
<1>5. \A j \in 1 .. Len(s) : s[j] = IF j = 1 THEN R.last[p] ELSE R.next[s[j - 1]]
  <2>1. s = Kids(R, p) OBVIOUS
  <2> HIDE DEF s
  <2> QED BY <2>1, <1>3, KidsSteps
<1>6. t = [j \in 1 .. Len(s) |-> h[s[j]]] BY DEF Image
<1>7. \A j \in 1 .. Len(s) : s[j] \in R.live
  <2> HIDE DEF s
  <2> QED BY <1>1, RangeIs DEF Below
<1> HIDE DEF s, t, u, C
<1> DEFINE A == {j \in Nat : j \in 1 .. Len(s) => u[j] = t[j]}
<1>8. 0 \in A OBVIOUS
<1>9. ASSUME NEW j \in Nat, j \in A PROVE j + 1 \in A
  <2> SUFFICES ASSUME j + 1 \in 1 .. Len(s) PROVE u[j + 1] = t[j + 1] OBVIOUS
  <2>1. CASE j = 0
    <3>0. 1 \in 1 .. Len(s) BY <2>1
    <3>1. u[1] = N.last[h[p]] /\ s[1] = R.last[p] /\ t[1] = h[s[1]] BY <3>0, <1>4, <1>5, <1>6
    <3>2. N.last[h[p]] = h[R.last[p]] BY DEF Copied
    <3> QED BY <2>1, <3>1, <3>2
  <2>2. CASE j # 0
    <3>1. j \in 1 .. Len(s) /\ j + 1 # 1 /\ (j + 1) - 1 = j BY <2>2, <1>3
    <3>2. u[j] = h[s[j]] BY <3>1, <1>6, <1>9
    <3>3. u[j + 1] = N.next[h[s[j]]] BY <3>1, <3>2, <1>4
    <3>4. N.next[h[s[j]]] = h[R.next[s[j]]] BY <3>1, <1>7 DEF Copied
    <3>5. s[j + 1] = R.next[s[j]] BY <3>1, <1>5
    <3> QED BY <3>3, <3>4, <3>5, <1>6
  <2> QED BY <2>1, <2>2
<1>10. Nat \subseteq A
  <2> HIDE DEF A
  <2> QED BY <1>8, <1>9, SetInduction
<1>11. \A j \in 1 .. Len(s) : u[j] = t[j] BY <1>10
<1>12. u = t BY <1>4, <1>6, <1>11
<1> QED BY <1>12 DEF u, t, s

(* Renumbering the keys changes nothing there is to see. *)
LEMMA CopiedContents ==
    ASSUME NEW R, Tree(R), NEW N, NEW h, Copied(R, N, h)
    PROVE  Contents(N) = Contents(R)
<1>0. Root \in R.live /\ h[Root] = Root /\ R.live \subseteq Keys BY Fields DEF Tree, Rooted, Copied
<1>1. ASSUME NEW p \in R.live
      PROVE  /\ DOMAIN Kids(N, h[p]) = DOMAIN Kids(R, p)
             /\ \A i \in DOMAIN Kids(R, p) : /\ Kids(N, h[p])[i] = h[Kids(R, p)[i]]
                                             /\ Kids(R, p)[i] \in R.live
  <2> DEFINE s == Kids(R, p)
  <2>1. s \in Seq(Keys) /\ Range(s) = Below(R, p) BY KidsAre
  <2>2. Kids(N, h[p]) = Image(h, s) BY CopiedKids
  <2> HIDE DEF s
  <2>3. DOMAIN s = 1 .. Len(s) /\ \A i \in 1 .. Len(s) : s[i] \in R.live
    BY <2>1, RangeIs, LenProperties DEF Below
  <2> QED BY <2>2, <2>3 DEF Image, s
<1>2. ASSUME NEW p \in R.live PROVE Listing(N, h[p]) = Listing(R, p)
  <2>1. \A i \in DOMAIN Kids(R, p) :
           /\ N.name[Kids(N, h[p])[i]] = R.name[Kids(R, p)[i]]
           /\ N.data[Kids(N, h[p])[i]] = R.data[Kids(R, p)[i]]
    BY <1>1 DEF Copied
  <2> QED BY <1>1, <2>1 DEF Listing
<1> DEFINE K == Kids(R, Root)
           L == Kids(N, Root)
<1>3. DOMAIN L = DOMAIN K /\ \A i \in DOMAIN K : L[i] = h[K[i]] /\ K[i] \in R.live
  BY <1>0, <1>1
<1>4. /\ Contents(R) = [i \in DOMAIN K |-> <<R.name[K[i]], R.data[K[i]], Listing(R, K[i])>>]
      /\ Contents(N) = [i \in DOMAIN L |-> <<N.name[L[i]], N.data[L[i]], Listing(N, L[i])>>]
  BY DEF Contents
<1> HIDE DEF K, L
<1>5. \A i \in DOMAIN K : /\ N.name[L[i]] = R.name[K[i]] /\ N.data[L[i]] = R.data[K[i]]
                          /\ Listing(N, L[i]) = Listing(R, K[i])
  BY <1>2, <1>3 DEF Copied
<1> QED BY <1>3, <1>4, <1>5

-----------------------------------------------------------------------------
(* The number that a key has in the file, and NULL has none. *)
Id(o, k) == IF k = NULL THEN 0 ELSE CHOOSE i \in DOMAIN o : o[i] = k

Number(R) == [k \in Keys \cup {NULL} |-> IF k = NULL THEN NULL ELSE Id(Order(R), k)]

LEMMA IdIs ==
    ASSUME NEW o \in Seq(Keys), Distinct(o), NEW k \in Range(o)
    PROVE  Id(o, k) \in 1 .. Len(o) /\ o[Id(o, k)] = k /\ \A i \in 1 .. Len(o) : o[i] = k => i = Id(o, k)
<1>1. k # NULL BY RangeIs, KeysFacts
<1>2. DOMAIN o = 1 .. Len(o) /\ \E i \in DOMAIN o : o[i] = k BY LenProperties, RangeIs
<1>3. Id(o, k) = CHOOSE i \in DOMAIN o : o[i] = k BY <1>1 DEF Id
<1>4. Id(o, k) \in DOMAIN o /\ o[Id(o, k)] = k BY <1>2, <1>3, Zenon
<1> QED BY <1>2, <1>4 DEF Distinct

(* Where the pointers of a key lead. *)
LEMMA PointersLive ==
    ASSUME NEW R, Tree(R), NEW k \in R.live
    PROVE  /\ R.parent[k] \in R.live \cup {NULL} /\ R.last[k] \in R.live \cup {NULL}
           /\ R.next[k] \in R.live \cup {NULL} /\ R.prev[k] \in R.live \cup {NULL}
<1>1. R.parent[k] \in R.live \cup {NULL} BY DEF Tree, Rooted
<1>2. R.last[k] \in R.live \cup {NULL}
  <2>1. RingOn(Ring(R, k), Below(R, k), Keys) /\ Ring(R, k).last = R.last[k] BY DEF Tree, Ringed, Ring
  <2>2. R.last[k] # NULL => R.last[k] \in Below(R, k) BY <2>1, KeysFacts, RingEnds
  <2> QED BY <2>2 DEF Below
<1>3. R.next[k] \in R.live \cup {NULL} /\ R.prev[k] \in R.live \cup {NULL}
  <2>1. CASE k = Root BY <2>1 DEF Tree, Ringed
  <2>2. CASE k # Root
    <3> DEFINE p == R.parent[k]
    <3>1. p \in R.live /\ k \in Below(R, p) BY <2>2 DEF Tree, Rooted, Below
    <3>2. /\ RingOn(Ring(R, p), Below(R, p), Keys)
          /\ Ring(R, p).next = R.next /\ Ring(R, p).prev = R.prev
      BY <3>1 DEF Tree, Ringed, Ring
    <3> HIDE DEF p
    <3>3. R.next[k] \in Below(R, p) /\ R.prev[k] \in Below(R, p)
      BY <3>1, <3>2, KeysFacts, RingMember
    <3> QED BY <3>3 DEF Below
  <2> QED BY <2>1, <2>2
<1> QED BY <1>1, <1>2, <1>3

(* What is read is what was written, but for the numbers of the keys.      *)
LEMMA LoadedCopies ==
    ASSUME NEW R, Tree(R)
    PROVE  Copied(R, Loaded(Written(R)), Number(R))
<1> DEFINE o == Order(R)
           L == Len(o)
           f == Written(R)
           N == Loaded(f)
           h == Number(R)
           key(i) == IF i = 0 THEN NULL ELSE i
<1>0. R \in Trees /\ R.live \subseteq Keys /\ Root \in R.live BY Fields DEF Tree, Rooted
<1>1. o \in Seq(Keys) /\ Distinct(o) /\ Range(o) = R.live /\ o[1] = Root /\ L \in 1 .. MaxKey
  BY OrderIs
<1>2. DOMAIN o = 1 .. L /\ L \in Nat BY <1>1, LenProperties
<1>3. f = [i \in 1 .. L |->
             [name |-> R.name[o[i]], data |-> R.data[o[i]], parent |-> Id(o, R.parent[o[i]]),
              next |-> Id(o, R.next[o[i]]), prev |-> Id(o, R.prev[o[i]]), last |-> Id(o, R.last[o[i]])]]
  BY <1>2, Zenon DEF Written, Id
<1> HIDE DEF o, L, f, h
<1>4. Len(f) = L BY <1>2, <1>3
<1>5. ASSUME NEW i \in 1 .. L
      PROVE  /\ f[i].name = R.name[o[i]] /\ f[i].data = R.data[o[i]]
             /\ f[i].parent = Id(o, R.parent[o[i]]) /\ f[i].last = Id(o, R.last[o[i]])
             /\ f[i].next = Id(o, R.next[o[i]]) /\ f[i].prev = Id(o, R.prev[o[i]])
  BY <1>3
<1>6. ASSUME NEW k \in R.live
      PROVE  /\ Id(o, k) \in 1 .. L /\ o[Id(o, k)] = k /\ h[k] = Id(o, k)
             /\ \A i \in 1 .. L : o[i] = k => i = Id(o, k)
  <2>1. Id(o, k) \in 1 .. L /\ o[Id(o, k)] = k /\ \A i \in 1 .. L : o[i] = k => i = Id(o, k)
    BY <1>1, IdIs DEF L
  <2>2. h[k] = Id(o, k) BY <1>0, KeysFacts DEF h, Number, o
  <2> QED BY <2>1, <2>2
<1>7. ASSUME NEW x \in R.live \cup {NULL} PROVE key(Id(o, x)) = h[x] /\ h[x] \in 1 .. L \cup {NULL}
  <2>1. CASE x = NULL
    <3>1. Id(o, x) = 0 BY <2>1 DEF Id
    <3>2. h[x] = NULL BY <2>1 DEF h, Number
    <3> QED BY <3>1, <3>2
  <2>2. CASE x # NULL
    <3>1. Id(o, x) \in 1 .. L /\ h[x] = Id(o, x) BY <2>2, <1>6
    <3> QED BY <3>1, <1>2
  <2> QED BY <2>1, <2>2
<1>8. /\ N.live = 1 .. L /\ N.made = {Root} /\ N.husks = {} /\ N.used = L
      /\ N.name = [k \in Keys |-> IF k \in 1 .. L THEN f[k].name ELSE NULL]
      /\ N.data = [k \in Keys |-> IF k \in 1 .. L THEN f[k].data ELSE Nothing]
      /\ N.parent = [k \in Keys |-> IF k \in 1 .. L THEN key(f[k].parent) ELSE NULL]
      /\ N.last = [k \in Keys |-> IF k \in 1 .. L THEN key(f[k].last) ELSE NULL]
      /\ N.next = [k \in Keys |-> IF k \in 1 .. L THEN key(f[k].next) ELSE NULL]
      /\ N.prev = [k \in Keys |-> IF k \in 1 .. L THEN key(f[k].prev) ELSE NULL]
  BY <1>4 DEF Loaded
<1>9. N = [live |-> N.live, made |-> N.made, husks |-> N.husks, used |-> N.used, name |-> N.name,
           data |-> N.data, parent |-> N.parent, last |-> N.last, next |-> N.next, prev |-> N.prev]
  BY DEF Loaded
<1> HIDE DEF N
<1>10. \A i \in 1 .. L : o[i] \in R.live BY <1>1, RangeIs DEF L
<1>11. ASSUME NEW i \in 1 .. L
       PROVE  /\ i \in Keys
              /\ N.name[i] = R.name[o[i]] /\ N.data[i] = R.data[o[i]]
              /\ N.parent[i] = h[R.parent[o[i]]] /\ N.last[i] = h[R.last[o[i]]]
              /\ N.next[i] = h[R.next[o[i]]] /\ N.prev[i] = h[R.prev[o[i]]]
              /\ N.parent[i] \in 1 .. L \cup {NULL} /\ N.last[i] \in 1 .. L \cup {NULL}
              /\ N.next[i] \in 1 .. L \cup {NULL} /\ N.prev[i] \in 1 .. L \cup {NULL}
  <2>1. i \in Keys BY <1>1, <1>2, KeysFacts DEF Keys
  <2>2. o[i] \in R.live BY <1>10
  <2>3. /\ N.name[i] = R.name[o[i]] /\ N.data[i] = R.data[o[i]]
        /\ N.parent[i] = key(Id(o, R.parent[o[i]])) /\ N.last[i] = key(Id(o, R.last[o[i]]))
        /\ N.next[i] = key(Id(o, R.next[o[i]])) /\ N.prev[i] = key(Id(o, R.prev[o[i]]))
    <3> HIDE DEF key
    <3> QED BY <2>1, <1>5, <1>8
  <2>4. /\ R.parent[o[i]] \in R.live \cup {NULL} /\ R.last[o[i]] \in R.live \cup {NULL}
        /\ R.next[o[i]] \in R.live \cup {NULL} /\ R.prev[o[i]] \in R.live \cup {NULL}
    BY <2>2, PointersLive
  <2> HIDE DEF key
  <2> QED BY <2>1, <2>3, <2>4, <1>7
<1>12. \A x : x \in 1 .. L \cup {NULL} => x \in Pointers
  BY <1>1, <1>2, KeysFacts DEF Pointers, Keys
<1>13. N \in Trees
  <2>1. /\ N.live \subseteq Keys /\ N.made \subseteq Keys /\ N.husks \subseteq Keys /\ N.used \in 0 .. MaxKey
    BY <1>1, <1>2, <1>8, KeysFacts DEF Keys
  <2>2. N.name \in [Keys -> Names \cup {NULL}] /\ N.data \in [Keys -> Values \cup {Nothing}]
    <3>1. \A i \in 1 .. L : f[i].name \in Names \cup {NULL} /\ f[i].data \in Values \cup {Nothing}
      BY <1>0, <1>5, <1>10, Fields
    <3> QED BY <3>1, <1>8
  <2>3. /\ N.parent \in [Keys -> Pointers] /\ N.last \in [Keys -> Pointers]
        /\ N.next \in [Keys -> Pointers] /\ N.prev \in [Keys -> Pointers]
    <3>1. NULL \in Pointers BY DEF Pointers
    <3>2. \A i \in Keys : /\ N.parent[i] \in Pointers /\ N.last[i] \in Pointers
                          /\ N.next[i] \in Pointers /\ N.prev[i] \in Pointers
      <4> SUFFICES ASSUME NEW i \in Keys
                   PROVE  /\ N.parent[i] \in Pointers /\ N.last[i] \in Pointers
                          /\ N.next[i] \in Pointers /\ N.prev[i] \in Pointers
        OBVIOUS
      <4>1. CASE i \in 1 .. L BY <4>1, <1>11, <1>12
      <4>2. CASE i \notin 1 .. L BY <4>2, <1>8, <3>1
      <4> QED BY <4>1, <4>2
    <3> HIDE DEF key
    <3> QED BY <3>2, <1>8
  <2> QED BY <1>9, <2>1, <2>2, <2>3, Zenon DEF Trees
<1>14. h[Root] = Root /\ h[NULL] = NULL
  <2>1. Root = 1 /\ 1 \in 1 .. L BY <1>1, KeysFacts
  <2>2. h[Root] = Root BY <2>1, <1>0, <1>1, <1>6
  <2>3. h[NULL] = NULL BY <1>7, KeysFacts DEF h, Number
  <2> QED BY <2>2, <2>3
<1>15. \A k \in R.live : h[k] \in 1 .. L /\ h[k] # NULL /\ o[h[k]] = k
  BY <1>6, <1>11, KeysFacts
<1>16. \A k, l \in R.live : h[k] = h[l] => k = l BY <1>15
<1>17. \A x \in 1 .. L : o[x] \in R.live /\ h[o[x]] = x BY <1>6, <1>10
<1>18. ASSUME NEW k \in Keys, k > N.used PROVE N.last[k] = NULL
  <2>1. k \notin 1 .. L BY <1>2, <1>8, <1>18
  <2> QED BY <2>1, <1>8
<1>19. N.live = 1 .. N.used /\ N.husks = {} BY <1>8, Zenon
<1>20. \A x \in N.live : \E k \in R.live : h[k] = x
  <2> SUFFICES ASSUME NEW x \in 1 .. L PROVE \E k \in R.live : h[k] = x BY <1>8, Zenon
  <2> QED BY <1>17
<1>21. \A k \in R.live : h[k] \in N.live /\ h[k] # NULL BY <1>8, <1>15, Zenon
<1>22. ASSUME NEW k \in R.live
       PROVE  /\ N.name[h[k]] = R.name[k] /\ N.data[h[k]] = R.data[k]
              /\ N.parent[h[k]] = h[R.parent[k]] /\ N.last[h[k]] = h[R.last[k]]
              /\ N.next[h[k]] = h[R.next[k]] /\ N.prev[h[k]] = h[R.prev[k]]
  <2> DEFINE i == h[k]
  <2>1. i \in 1 .. L /\ o[i] = k BY <1>15
  <2> HIDE DEF i
  <2>2. /\ N.name[i] = R.name[k] /\ N.data[i] = R.data[k]
        /\ N.parent[i] = h[R.parent[k]] /\ N.last[i] = h[R.last[k]]
        /\ N.next[i] = h[R.next[k]] /\ N.prev[i] = h[R.prev[k]]
    BY <2>1, <1>11
  <2> QED BY <2>2 DEF i
<1>23. Copied(R, N, h)
  BY <1>13, <1>14, <1>16, <1>18, <1>19, <1>20, <1>21, <1>22, Zenon DEF Copied
<1> QED BY <1>23 DEF N, f, h

(* A registry that was saved comes back as a tree that looks the same. *)
LEMMA LoadedTree ==
    ASSUME NEW R, Tree(R)
    PROVE  Tree(Loaded(Written(R))) /\ Contents(Loaded(Written(R))) = Contents(R)
BY LoadedCopies, CopiedTree, CopiedContents

-----------------------------------------------------------------------------
(* The file, if there is one that is whole, holds what was saved last.     *)
Kept ==
    /\ torn \in BOOLEAN /\ up \in BOOLEAN /\ wild \in BOOLEAN
    /\ file = <<>> \/ \E R : Tree(R) /\ file = Written(R) /\ saved = Contents(R)

(* A path leads to a key of the tree, or nowhere.                          *)
LEMMA ResolveIs ==
    ASSUME NEW R, Tree(R), NEW path \in Paths, NEW k, k = ResolveKey(R, path), k # NULL
    PROVE  k \in R.live \ {Root}
<1> DEFINE d == IF Len(path) = 1 THEN Root ELSE SubDir(R, Root, path[1])
<1>1. Root \in R.live BY DEF Tree, Rooted
<1>2. d # NULL /\ k = Child(R, d, Last(path)) BY DEF ResolveKey
<1>3. d \in R.live
  <2>1. CASE Len(path) = 1 BY <1>1, <2>1
  <2>2. CASE Len(path) # 1
    <3>1. d = SubDir(R, Root, path[1]) BY <2>2
    <3>2. d \in Below(R, Root) BY <1>1, <1>2, <3>1, SubDirIs
    <3> QED BY <3>2 DEF Below
  <2> QED BY <2>1, <2>2
<1> HIDE DEF d
<1>4. k \in Below(R, d) BY <1>2, <1>3, ChildIs
<1> QED BY <1>3, <1>4, BelowIs

(* To delete the key that a path leads to takes that one out of the tree.  *)
LEMMA DeleteTree ==
    ASSUME NEW R, Tree(R), NEW path \in Paths, NEW k, k = ResolveKey(R, path), k # NULL
    PROVE  Deleted(R, DeleteKey(R, k), k) /\ Tree(DeleteKey(R, k))
<1>1. k \in R.live \ {Root} BY ResolveIs
<1>2. Deleted(R, DeleteKey(R, k), k) BY <1>1 DEF Deleted
<1> QED BY <1>2, DeletedTree

(* NewKeyEx makes a key, or it does nothing.                               *)
LEMMA NewKeyTree ==
    ASSUME NEW R, Tree(R), NEW p, Place(R, p), NEW n \in Names, R.used < MaxKey
    PROVE  /\ NewKeyEx(R, p, n) = R \/ Made(R, NewKeyEx(R, p, n), p, n)
           /\ Tree(NewKeyEx(R, p, n))
<1>1. NewKeyEx(R, p, n) = R \/ Made(R, NewKeyEx(R, p, n), p, n)
  <2>1. CASE Child(R, p, n) # NULL BY <2>1 DEF NewKeyEx
  <2>2. CASE Child(R, p, n) = NULL BY <2>2 DEF Made, Place
  <2> QED BY <2>1, <2>2
<1> QED BY <1>1, MadeTree

(* Loading leaves a tree, whatever the file.                               *)
LEMMA LoadTree ==
    ASSUME Tree(reg), Kept, Exists, Load
    PROVE  Tree(reg') /\ (~ torn => Contents(reg') = saved) /\ (torn => reg' = reg)
<1>1. CASE torn BY <1>1 DEF Load
<1>2. CASE ~ torn
  <2>1. file # <<>> BY <1>2 DEF Exists
  <2>2. PICK R : Tree(R) /\ file = Written(R) /\ saved = Contents(R) BY <2>1 DEF Kept
  <2>3. reg' = Loaded(Written(R)) BY <1>2, <2>2 DEF Load
  <2> QED BY <1>2, <2>2, <2>3, LoadedTree
<1> QED BY <1>1, <1>2

(* The lengths of paths, for the bound on keys.                            *)
LEMMA Room ==
    ASSUME NEW R, Tree(R), NEW dir \in Dirs, R.used + Len(dir) < MaxKey,
           NEW S, S = GetOrCreateKey(R, dir)
    PROVE  Tree(S.reg) /\ Place(S.reg, S.key) /\ S.reg.used < MaxKey
<1>1. dir \in Paths /\ Len(dir) = 1 BY PathIs DEF Paths
<1>2. R.used \in Nat /\ MaxKey \in Nat BY Fields, KeysFacts DEF Tree
<1>3. R.used + Len(dir) <= MaxKey BY <1>1, <1>2
<1>4. /\ Tree(S.reg) /\ S.reg.used \in R.used .. (R.used + Len(dir))
      /\ Len(dir) = 1 => Place(S.reg, S.key)
  BY <1>1, <1>3, GetOrCreateTree
<1> QED BY <1>1, <1>2, <1>4

LEMMA TreeStep ==
    ASSUME Tree(reg), Kept, [Next]_vars
    PROVE  Tree(reg')
<1>1. ASSUME NEW path \in Paths, NEW v \in Values \cup {Nothing}, KeySetData(path, v) PROVE Tree(reg')
  <2> DEFINE S == GetOrCreateKey(reg, path)
  <2>1. reg.used + Len(path) <= MaxKey /\ reg' = [S.reg EXCEPT !.data[S.key] = v]
    BY <1>1 DEF KeySetData, Become
  <2>2. Tree(S.reg) BY <2>1, GetOrCreateTree
  <2> HIDE DEF S
  <2> QED BY <2>1, <2>2, DataRefills, RefilledTree
<1>2. ASSUME NEW path \in Paths, CreateKey(path) PROVE Tree(reg')
  <2>1. reg.used + Len(path) <= MaxKey /\ reg' = GetOrCreateKey(reg, path).reg
    BY <1>2 DEF CreateKey, Become
  <2> QED BY <2>1, GetOrCreateTree
<1>3. ASSUME NEW dir \in Dirs, NEW n \in Names, NewKey(dir, n) PROVE Tree(reg')
  <2> DEFINE S == GetOrCreateKey(reg, dir)
  <2>1. reg.used + Len(dir) < MaxKey /\ reg' = NewKeyEx(S.reg, S.key, n) BY <1>3 DEF NewKey, Become
  <2>2. Tree(S.reg) /\ Place(S.reg, S.key) /\ S.reg.used < MaxKey BY <2>1, Room
  <2> HIDE DEF S
  <2> QED BY <2>1, <2>2, NewKeyTree
<1>4. ASSUME NEW path \in Paths, DeleteKeyNamed(path) PROVE Tree(reg')
  <2>1. ResolveKey(reg, path) # NULL /\ reg' = DeleteKey(reg, ResolveKey(reg, path))
    BY <1>4 DEF DeleteKeyNamed, Become
  <2> QED BY <2>1, DeleteTree
<1>5. ASSUME NEW path \in Paths, NEW n \in Names, RenameKey(path, n) PROVE Tree(reg')
  <2>1. reg' = [reg EXCEPT !.name[ResolveKey(reg, path)] = n] BY <1>5 DEF RenameKey, Become
  <2> QED BY <2>1, NameRefills, RefilledTree
<1>6. CASE RegistryReLoad BY <1>6, LoadTree DEF RegistryReLoad
<1>7. CASE Stop BY <1>7, BareTree DEF Stop
<1>8. ASSUME NEW resetup \in BOOLEAN, Start(resetup) PROVE Tree(reg')
  <2>1. CASE Exists /\ ~ resetup BY <1>8, <2>1, LoadTree DEF Start
  <2>2. CASE ~ (Exists /\ ~ resetup) BY <1>8, <2>2, DefaultTreeIs DEF Start
  <2> QED BY <2>1, <2>2
<1>9. CASE SaveBegin \/ SaveEnd \/ DiskFull \/ RunEntries \/ RunNext \/ RunOver \/ RunAstray \/ UNCHANGED vars
  <2>1. reg' = reg
    BY <1>9 DEF SaveBegin, SaveEnd, DiskFull, RunEntries, RunNext, RunOver, RunAstray, vars
  <2> QED BY <2>1
<1> QED BY <1>1, <1>2, <1>3, <1>4, <1>5, <1>6, <1>7, <1>8, <1>9 DEF Next

LEMMA KeptStep ==
    ASSUME Tree(reg), Kept, [Next]_vars
    PROVE  Kept'
<1>1. CASE SaveEnd
  <2>1. torn' = FALSE /\ file' = Written(reg) /\ saved' = Contents(reg) /\ up' = up /\ wild' = wild
    BY <1>1 DEF SaveEnd
  <2> QED BY <2>1 DEF Kept
<1>2. CASE ~ SaveEnd
  <2>1. file' = file /\ saved' = saved
    BY <1>2 DEF Next, KeySetData, CreateKey, NewKey, DeleteKeyNamed, RenameKey, Quiet, SaveBegin, DiskFull,
                RegistryReLoad, Stop, Start, RunEntries, RunNext, RunOver, RunAstray, vars
  <2>2. torn' \in BOOLEAN /\ up' \in BOOLEAN /\ wild' \in BOOLEAN
    BY <1>2 DEF Kept, Next, KeySetData, CreateKey, NewKey, DeleteKeyNamed, RenameKey, Quiet, SaveBegin,
                DiskFull, RegistryReLoad, Load, Stop, Start, RunEntries, RunNext, RunOver, RunAstray, vars
  <2>3. Kept => (file = <<>> \/ \E R : Tree(R) /\ file = Written(R) /\ saved = Contents(R)) BY DEF Kept
  <2> QED BY <2>1, <2>2, <2>3 DEF Kept
<1> QED BY <1>1, <1>2

-----------------------------------------------------------------------------
(* A ring that a change does not touch is walked as before.                *)
LEMMA KidsStay ==
    ASSUME NEW R, Tree(R), NEW N, NEW p \in R.live, Below(N, p) = Below(R, p),
           N.last[p] = R.last[p], \A j \in Below(R, p) : N.next[j] = R.next[j]
    PROVE  Kids(N, p) = Kids(R, p)
<1> DEFINE s == Kids(R, p)
           u == Kids(N, p)
           C == Below(R, p)
<1>1. s \in Seq(Keys) /\ Distinct(s) /\ Range(s) = C BY KidsAre
<1>2. Cardinality(C) \in Nat /\ Len(s) = Cardinality(C)
  <2> HIDE DEF s, C
  <2> QED BY <1>1, DistinctCardinality, LenProperties
<1>3. /\ s = [j \in 1 .. Cardinality(C) |-> s[j]]
      /\ \A j \in 1 .. Cardinality(C) : s[j] = IF j = 1 THEN R.last[p] ELSE R.next[s[j - 1]]
  <2>1. s = Kids(R, p) OBVIOUS
  <2> HIDE DEF s
  <2> QED BY <2>1, <1>2, KidsSteps
<1>4. /\ u = [j \in 1 .. Cardinality(C) |-> u[j]]
      /\ \A j \in 1 .. Cardinality(C) : u[j] = IF j = 1 THEN R.last[p] ELSE N.next[u[j - 1]]
  <2>1. u = Kids(N, p) /\ Cardinality(Below(N, p)) = Cardinality(C) OBVIOUS
  <2> HIDE DEF u
  <2> QED BY <2>1, <1>2, KidsSteps
<1>5. \A j \in 1 .. Cardinality(C) : s[j] \in C
  <2> HIDE DEF s, C
  <2> QED BY <1>1, <1>2, RangeIs
<1>6. \A j \in C : N.next[j] = R.next[j] OBVIOUS
<1> HIDE DEF s, u, C
<1> DEFINE A == {j \in Nat : j \in 1 .. Cardinality(C) => u[j] = s[j]}
<1>7. 0 \in A OBVIOUS
<1>8. ASSUME NEW j \in Nat, j \in A PROVE j + 1 \in A
  <2> SUFFICES ASSUME j + 1 \in 1 .. Cardinality(C) PROVE u[j + 1] = s[j + 1] OBVIOUS
  <2>1. CASE j = 0
    <3>1. 1 \in 1 .. Cardinality(C) /\ j + 1 = 1 BY <2>1
    <3>2. u[1] = R.last[p] BY <3>1, <1>4
    <3>3. s[1] = R.last[p] BY <3>1, <1>3
    <3> QED BY <3>1, <3>2, <3>3
  <2>2. CASE j # 0
    <3>1. j \in 1 .. Cardinality(C) /\ j + 1 # 1 /\ (j + 1) - 1 = j BY <2>2, <1>2
    <3>2. u[j] = s[j] BY <3>1, <1>8
    <3>3. u[j + 1] = N.next[u[j]] BY <3>1, <1>4
    <3>4. s[j + 1] = R.next[s[j]] BY <3>1, <1>3
    <3> QED BY <3>1, <3>2, <3>3, <3>4, <1>5, <1>6
  <2> QED BY <2>1, <2>2
<1> HIDE DEF A
<1>9. Nat \subseteq A BY <1>7, <1>8, SetInduction
<1>10. \A j \in 1 .. Cardinality(C) : u[j] = s[j] BY <1>9, <1>2 DEF A
<1> QED BY <1>3, <1>4, <1>10 DEF s, u

(* The rings that a new key is not in are walked as before, and what there *)
(* was is still there.                                                     *)
LEMMA MadeElsewhere ==
    ASSUME NEW R, Tree(R), NEW N, NEW p, NEW n, Made(R, N, p, n)
    PROVE  /\ Grown(R, N)
           /\ \A q \in R.live \ {p} : Kids(N, q) = Kids(R, q) /\ Below(N, q) = Below(R, q)
<1> DEFINE k == R.used + 1
           m == LinkEnd(Ring(R, p), k)
<1>0. R.used \in Nat /\ R.live \subseteq Keys BY Fields, KeysFacts DEF Tree
<1>1. MadeFields(R, N, p, n, k, m)
  <2>1. k = R.used + 1 /\ m = LinkEnd(Ring(R, p), k) OBVIOUS
  <2> HIDE DEF m, k
  <2> QED BY <2>1, MadeIs, Zenon
<1>2. /\ \A q : q # p => Below(N, q) = Below(R, q)
      /\ \A x \in R.live : N.parent[x] = R.parent[x] /\ N.name[x] = R.name[x]
  BY MadeBelow
<1> HIDE DEF m, k
<1>3. ASSUME NEW q \in R.live \ {p} PROVE Kids(N, q) = Kids(R, q)
  <2>1. Below(N, q) = Below(R, q) BY <1>2
  <2>2. q \in Keys /\ p \in Keys /\ R.last \in [Keys -> Pointers] BY <1>0, <1>1, Fields DEF MadeFields, Tree
  <2>3. N.last[q] = R.last[q] BY <1>1, <2>2 DEF MadeFields
  <2>4. \A j \in Below(R, q) : j \in Keys /\ j # k /\ j \notin Below(R, p)
    BY <1>0, <1>1 DEF Below, MadeFields
  <2>5. \A j \in Below(R, q) : N.next[j] = R.next[j] BY <1>1, <2>4 DEF MadeFields
  <2> QED BY <2>1, <2>3, <2>5, KidsStay
<1>4. R.live \subseteq N.live BY <1>1 DEF MadeFields
<1> QED BY <1>2, <1>3, <1>4 DEF Grown

(* What was grown twice was grown. *)
LEMMA GrownOn ==
    ASSUME NEW R, NEW M, NEW N, Grown(R, M), Grown(M, N)
    PROVE  Grown(R, N)
BY DEF Grown

(* Where a path may lead: to a key of its last name in a directory that    *)
(* fits the first, whatever the case.                                      *)
Fits(R, p, k) ==
    /\ k \in R.live \ {Root} /\ R.name[k] = Last(p)
    /\ IF Len(p) = 1 THEN R.parent[k] = Root
       ELSE R.parent[k] \in Below(R, Root) /\ Fold(R.name[R.parent[k]]) = Fold(p[1])

LEMMA FitsGrown ==
    ASSUME NEW R, Tree(R), NEW N, Grown(R, N), NEW p, NEW k, Fits(R, p, k)
    PROVE  Fits(N, p, k)
<1>1. R.parent[k] \in R.live BY DEF Fits, Tree, Rooted
<1>2. R.parent[k] \in Below(R, Root) => R.parent[k] \in Below(N, Root) BY <1>1 DEF Grown, Below
<1> QED BY <1>1, <1>2 DEF Fits, Grown

LEMMA FitsDeleted ==
    ASSUME NEW R, Tree(R), NEW N, NEW x, Deleted(R, N, x), NEW p, NEW k \in N.live, Fits(R, p, k)
    PROVE  Fits(N, p, k)
<1> DEFINE d == R.parent[x]
           m == Unlink(Ring(R, d), x)
<1>1. DeletedFields(R, N, x, d, m)
  <2>1. d = R.parent[x] /\ m = Unlink(Ring(R, d), x) OBVIOUS
  <2> HIDE DEF d, m
  <2> QED BY <2>1, DeletedIs, Zenon
<1>2. \A y \in N.live \ {Root} : R.parent[y] \in N.live BY DeletedBelow
<1>3. k # Root BY DEF Fits
<1> HIDE DEF d, m
<1> QED BY <1>1, <1>2, <1>3 DEF Fits, DeletedFields, Below

LEMMA FitsRefilled ==
    ASSUME NEW R, Tree(R), NEW N, Refilled(R, N), NEW y,
           \A x \in R.live : x # y => N.name[x] = R.name[x],
           NEW p, NEW k \in R.live, k # y, R.parent[k] # y, Fits(R, p, k)
    PROVE  Fits(N, p, k)
<1>1. R.parent[k] \in R.live BY DEF Fits, Tree, Rooted
<1>2. \A q : Below(N, q) = Below(R, q) BY RefilledTree
<1> QED BY <1>1, <1>2 DEF Fits, Refilled

(* If there is one key only that a path fits it leads there.               *)
LEMMA FitsResolves ==
    ASSUME NEW R, Tree(R), NEW p \in Paths, NEW k, Fits(R, p, k), ~ Ambiguous(R, p)
    PROVE  ResolveKey(R, p) = k
<1> DEFINE d == IF Len(p) = 1 THEN Root ELSE SubDir(R, Root, p[1])
<1>0. Root \in R.live /\ Root # NULL /\ Len(p) \in {1, 2} BY KeysFacts, PathIs DEF Tree, Rooted
<1>1. d = R.parent[k] /\ d \in R.live /\ d # NULL
  <2>1. CASE Len(p) = 1 BY <1>0, <2>1 DEF Fits
  <2>2. CASE Len(p) = 2
    <3>1. d = SubDir(R, Root, p[1]) BY <2>2
    <3>2. R.parent[k] \in Below(R, Root) \cap Alike(R, p[1]) BY <2>2 DEF Fits, Alike, Below
    <3>3. d \in Below(R, Root) \cap Alike(R, p[1]) /\ d # NULL BY <1>0, <3>1, <3>2, SubDirIs
    <3>4. d = R.parent[k] BY <2>2, <3>2, <3>3 DEF Ambiguous, Alike
    <3> QED BY <3>3, <3>4 DEF Below
  <2> QED BY <1>0, <2>1, <2>2
<1>2. ResolveKey(R, p) = Child(R, d, Last(p)) BY <1>1 DEF ResolveKey
<1> HIDE DEF d
<1>3. k \in Below(R, d) \cap Named(R, Last(p)) BY <1>1 DEF Fits, Below, Named
<1>4. Child(R, d, Last(p)) \in Below(R, d) \cap Named(R, Last(p)) BY <1>1, <1>3, ChildIs
<1>5. /\ k \in R.live \ {Root} /\ Child(R, d, Last(p)) \in R.live \ {Root}
      /\ R.parent[k] = d /\ R.parent[Child(R, d, Last(p))] = d
      /\ R.name[k] = Last(p) /\ R.name[Child(R, d, Last(p))] = Last(p)
  BY <1>1, <1>3, <1>4, BelowIs DEF Named
<1> QED BY <1>2, <1>5 DEF Ambiguous

(* What was entered by a name is what the name is looked up to.            *)
LEMMA EnteredIsChild ==
    ASSUME NEW R, Tree(R), NEW S, NEW p \in R.live, NEW n, Entered(R, S, p, n, Child(R, p, n))
    PROVE  /\ S.key \in Below(S.reg, p) /\ S.reg.name[S.key] = n
           /\ Child(S.reg, p, n) = S.key /\ S.key # NULL
<1>1. CASE Child(R, p, n) # NULL
  <2>1. S.reg = R /\ S.key = Child(R, p, n) BY <1>1 DEF Entered
  <2>2. S.key \in Below(R, p) \cap Named(R, n) BY <1>1, <2>1, ChildIs
  <2> QED BY <1>1, <2>1, <2>2 DEF Named
<1>2. CASE Child(R, p, n) = NULL
  <2>1. Made(R, S.reg, p, n) /\ S.key = R.used + 1 BY <1>2 DEF Entered
  <2>2. Below(R, p) \cap Named(R, n) = {} BY <1>2, ChildIs
  <2>3. /\ Tree(S.reg) /\ Grown(R, S.reg) /\ S.key \in Below(S.reg, p) /\ S.reg.name[S.key] = n
    BY <1>2, EnteredTree
  <2>4. Below(S.reg, p) = Below(R, p) \cup {S.key} BY <2>1, MadeBelow
  <2>5. \A x \in Below(R, p) : S.reg.name[x] # n BY <2>2, <2>3 DEF Below, Named, Grown
  <2>6. p \in S.reg.live BY <2>3 DEF Grown
  <2>7. S.key \in Below(S.reg, p) \cap Named(S.reg, n) BY <2>3 DEF Below, Named
  <2>8. Child(S.reg, p, n) \in Below(S.reg, p) \cap Named(S.reg, n) /\ Child(S.reg, p, n) # NULL
    BY <2>3, <2>6, <2>7, ChildIs
  <2> QED BY <2>3, <2>4, <2>5, <2>8 DEF Named
<1> QED BY <1>1, <1>2

LEMMA EnteredIsSubDir ==
    ASSUME NEW R, Tree(R), NEW S, NEW p \in R.live, NEW n, Entered(R, S, p, n, SubDir(R, p, n))
    PROVE  /\ S.key \in Below(S.reg, p) /\ Fold(S.reg.name[S.key]) = Fold(n)
           /\ SubDir(S.reg, p, n) = S.key /\ S.key # NULL
<1>1. CASE SubDir(R, p, n) # NULL
  <2>1. S.reg = R /\ S.key = SubDir(R, p, n) BY <1>1 DEF Entered
  <2>2. S.key \in Below(R, p) \cap Alike(R, n) BY <1>1, <2>1, SubDirIs
  <2> QED BY <1>1, <2>1, <2>2 DEF Alike
<1>2. CASE SubDir(R, p, n) = NULL
  <2>1. Made(R, S.reg, p, n) /\ S.key = R.used + 1 BY <1>2 DEF Entered
  <2>2. Below(R, p) \cap Alike(R, n) = {} BY <1>2, SubDirIs
  <2>3. /\ Tree(S.reg) /\ Grown(R, S.reg) /\ S.key \in Below(S.reg, p) /\ S.reg.name[S.key] = n
    BY <1>2, EnteredTree
  <2>4. Below(S.reg, p) = Below(R, p) \cup {S.key} BY <2>1, MadeBelow
  <2>5. \A x \in Below(R, p) : Fold(S.reg.name[x]) # Fold(n) BY <2>2, <2>3 DEF Below, Alike, Grown
  <2>6. p \in S.reg.live BY <2>3 DEF Grown
  <2>7. S.key \in Below(S.reg, p) \cap Alike(S.reg, n) BY <2>3 DEF Below, Alike
  <2>8. SubDir(S.reg, p, n) \in Below(S.reg, p) \cap Alike(S.reg, n) /\ SubDir(S.reg, p, n) # NULL
    BY <2>3, <2>6, <2>7, SubDirIs
  <2> QED BY <2>3, <2>4, <2>5, <2>8 DEF Alike
<1> QED BY <1>1, <1>2

(* A directory is looked up as before when keys of it or of others were    *)
(* not renamed and its ring has not changed.                               *)
LEMMA SubDirStays ==
    ASSUME NEW R, Tree(R), NEW N, Grown(R, N), NEW p \in R.live, Kids(N, p) = Kids(R, p), NEW n
    PROVE  SubDir(N, p, n) = SubDir(R, p, n)
<1> DEFINE s == Kids(R, p)
<1>1. s \in Seq(Keys) /\ Range(s) = Below(R, p) BY KidsAre
<1>2. SubDir(R, p, n) = FirstIn(s, Alike(R, n)) /\ SubDir(N, p, n) = FirstIn(s, Alike(N, n))
  BY Zenon DEF SubDir, Alike
<1> HIDE DEF s
<1>3. \A k \in Range(s) : k \in Alike(R, n) <=> k \in Alike(N, n)
  BY <1>1 DEF Below, Alike, Grown
<1> QED BY <1>1, <1>2, <1>3, FirstInSame

(* GetOrCreateKey makes, or finds, the key that the path then leads to.    *)
LEMMA WalkedFits ==
    ASSUME NEW R, Tree(R), NEW path \in Paths, NEW D, NEW S, Walked(R, path, D, S)
    PROVE  Fits(S.reg, path, S.key) /\ ResolveKey(S.reg, path) = S.key
<1> DEFINE n == Last(path)
<1>0. Root \in R.live /\ Root # NULL /\ Len(path) \in {1, 2} BY KeysFacts, PathIs DEF Tree, Rooted
<1>1. /\ Entered(D.reg, S, D.key, n, Child(D.reg, D.key, n)) /\ Tree(D.reg) /\ D.key \in D.reg.live
  BY DEF Walked, Place
<1>2. /\ S.key \in Below(S.reg, D.key) /\ S.reg.name[S.key] = n
      /\ Child(S.reg, D.key, n) = S.key
  <2> DEFINE M == D.reg
             d == D.key
  <2>1. Entered(M, S, d, n, Child(M, d, n)) /\ Tree(M) /\ d \in M.live BY <1>1
  <2> HIDE DEF n, M
  <2>2. S.key \in Below(S.reg, d) /\ S.reg.name[S.key] = n /\ Child(S.reg, d, n) = S.key
    <3> HIDE DEF d
    <3> QED BY <2>1, EnteredIsChild
  <2> QED BY <2>2
<1>3. Tree(S.reg) /\ Grown(D.reg, S.reg) BY <1>1, EnteredTree
<1>4. D.key \in S.reg.live BY <1>1, <1>3 DEF Grown
<1>5. S.key \in S.reg.live \ {Root} /\ S.reg.parent[S.key] = D.key BY <1>2, <1>3, <1>4, BelowIs
<1>6. CASE Len(path) = 1
  <2>1. D.key = Root BY <1>6 DEF Walked
  <2>2. ResolveKey(S.reg, path) = Child(S.reg, Root, n) BY <1>0, <1>6 DEF ResolveKey
  <2> QED BY <1>2, <1>5, <1>6, <2>1, <2>2 DEF Fits
<1>7. CASE Len(path) = 2
  <2>1. Entered(R, D, Root, path[1], SubDir(R, Root, path[1])) BY <1>7 DEF Walked
  <2>2. /\ D.key \in Below(D.reg, Root) /\ Fold(D.reg.name[D.key]) = Fold(path[1])
        /\ SubDir(D.reg, Root, path[1]) = D.key /\ D.key # NULL
    BY <1>0, <2>1, EnteredIsSubDir
  <2>3. Root \in D.reg.live BY <1>1 DEF Tree, Rooted
  <2>4. D.key # Root BY <1>1, <2>2, <2>3, BelowIs
  <2>5. Kids(S.reg, Root) = Kids(D.reg, Root) /\ Below(S.reg, Root) = Below(D.reg, Root)
    <3>1. CASE Child(D.reg, D.key, n) # NULL BY <1>1, <3>1 DEF Entered
    <3>2. CASE Child(D.reg, D.key, n) = NULL
      <4>1. Made(D.reg, S.reg, D.key, n) BY <1>1, <3>2 DEF Entered
      <4> QED BY <1>1, <2>3, <2>4, <4>1, MadeElsewhere
    <3> QED BY <3>1, <3>2
  <2>6. SubDir(S.reg, Root, path[1]) = D.key BY <1>1, <1>3, <2>2, <2>3, <2>5, SubDirStays
  <2>7. ResolveKey(S.reg, path) = Child(S.reg, D.key, n) BY <1>7, <2>2, <2>6 DEF ResolveKey
  <2>8. Fold(S.reg.name[D.key]) = Fold(path[1]) BY <1>1, <1>3, <2>2 DEF Grown
  <2> QED BY <1>2, <1>5, <1>7, <2>2, <2>5, <2>7, <2>8 DEF Fits
<1> QED BY <1>0, <1>6, <1>7

(* A path leads where it led when data is set.                             *)
LEMMA DataResolves ==
    ASSUME NEW R, Tree(R), NEW k, NEW v \in Values \cup {Nothing}, NEW N, N = [R EXCEPT !.data[k] = v],
           NEW path \in Paths
    PROVE  /\ ResolveKey(N, path) = ResolveKey(R, path) /\ N.live = R.live
           /\ \A p, x : Fits(R, p, x) => Fits(N, p, x)
<1>1. N.live = R.live /\ N.name = R.name /\ N.parent = R.parent
  BY DEF Tree, Trees
<1>2. \A p : Below(N, p) = Below(R, p) /\ Kids(N, p) = Kids(R, p) BY DataRefills, RefilledTree
<1>3. \A p, n : Child(N, p, n) = Child(R, p, n) BY <1>1, <1>2, Zenon DEF Child
<1>4. \A p, n : SubDir(N, p, n) = SubDir(R, p, n) BY <1>1, <1>2, Zenon DEF SubDir
<1>5. ResolveKey(N, path) = ResolveKey(R, path) BY <1>3, <1>4 DEF ResolveKey
<1>6. \A p, x : Fits(R, p, x) => Fits(N, p, x) BY <1>1, <1>2 DEF Fits
<1> QED BY <1>1, <1>5, <1>6

-----------------------------------------------------------------------------
(* Every path that was set leads to a key that fits it, until that is      *)
(* gone, and the one that was set last to no other.                        *)
Led ==
    /\ where \in [Paths -> Pointers]
    /\ \A p \in Paths : where[p] # NULL => Fits(reg, p, where[p])
    /\ just # <<>> => just \in Paths /\ where[just] # NULL /\ ResolveKey(reg, just) = where[just]

LEMMA LedNowhere ==
    ASSUME where' = Nowhere, just' = <<>>
    PROVE  Led'
BY DEF Led, Nowhere, Pointers

(* A path is made, and what is set is filled with data.                    *)
LEMMA LedSet ==
    ASSUME Tree(reg), Led, NEW path \in Paths, reg.used + Len(path) <= MaxKey,
           NEW S, S = GetOrCreateKey(reg, path),
           reg' = S.reg \/ \E v \in Values \cup {Nothing} : reg' = [S.reg EXCEPT !.data[S.key] = v],
           where' = [where EXCEPT ![path] = S.key], just' = path
    PROVE  Led'
<1>1. PICK D : Walked(reg, path, D, S) BY GetOrCreateWalks
<1>2. Fits(S.reg, path, S.key) /\ ResolveKey(S.reg, path) = S.key BY <1>1, WalkedFits
<1>3. Tree(S.reg) /\ Grown(reg, S.reg) BY GetOrCreateTree
<1>4. \A p, x : Fits(reg, p, x) => Fits(S.reg, p, x) BY <1>3, FitsGrown
<1>5. /\ \A p, x : Fits(S.reg, p, x) => Fits(reg', p, x)
      /\ ResolveKey(reg', path) = S.key
  <2>1. CASE reg' = S.reg BY <1>2, <2>1
  <2>2. CASE reg' # S.reg
    <3>1. PICK v \in Values \cup {Nothing} : reg' = [S.reg EXCEPT !.data[S.key] = v] BY <2>2
    <3> QED BY <1>2, <1>3, <3>1, DataResolves
  <2> QED BY <2>1, <2>2
<1>6. S.key \in Keys /\ S.key # NULL BY <1>2, <1>3, Fields, KeysFacts DEF Fits, Tree
<1>7. where' \in [Paths -> Pointers] BY <1>6 DEF Led, Pointers
<1>8. where'[path] = S.key /\ \A p \in Paths \ {path} : where'[p] = where[p] BY DEF Led
<1>9. path # <<>> BY PathIs
<1>10. \A p \in Paths : where'[p] # NULL => Fits(reg', p, where'[p])
  <2> TAKE p \in Paths
  <2>1. CASE p = path BY <1>2, <1>5, <1>8, <2>1
  <2>2. CASE p # path BY <1>4, <1>5, <1>8, <2>2 DEF Led
  <2> QED BY <2>1, <2>2
<1> QED BY <1>5, <1>6, <1>7, <1>8, <1>10 DEF Led

LEMMA LedNewKey ==
    ASSUME Tree(reg), Led, NEW dir \in Dirs, NEW n \in Names, NewKey(dir, n)
    PROVE  Led'
<1> DEFINE S == GetOrCreateKey(reg, dir)
<1>1. /\ reg.used + Len(dir) < MaxKey /\ reg' = NewKeyEx(S.reg, S.key, n)
      /\ where' = where /\ just' = <<>>
  BY DEF NewKey, Become
<1>2. dir \in Paths /\ reg.used + Len(dir) <= MaxKey
  BY <1>1, Fields, KeysFacts, PathIs DEF Paths, Tree
<1>3. Tree(S.reg) /\ Place(S.reg, S.key) /\ S.reg.used < MaxKey BY <1>1, Room
<1>4. Grown(reg, S.reg) BY <1>2, GetOrCreateTree
<1> HIDE DEF S
<1>5. Grown(S.reg, reg')
  <2>1. reg' = S.reg \/ Made(S.reg, reg', S.key, n) BY <1>1, <1>3, NewKeyTree
  <2>2. S.reg = reg' => Grown(S.reg, reg') BY DEF Grown
  <2> QED BY <1>3, <2>1, <2>2, MadeElsewhere
<1>6. \A p, x : Fits(reg, p, x) => Fits(reg', p, x) BY <1>4, <1>5, GrownOn, FitsGrown
<1> QED BY <1>1, <1>6 DEF Led

LEMMA LedDelete ==
    ASSUME Tree(reg), Led, NEW path \in Paths, DeleteKeyNamed(path)
    PROVE  Led'
<1> DEFINE k == ResolveKey(reg, path)
<1>1. k # NULL /\ reg' = DeleteKey(reg, k) /\ where' = Known(reg', {}) /\ just' = <<>>
  BY DEF DeleteKeyNamed, Become
<1>2. Deleted(reg, reg', k) BY <1>1, DeleteTree
<1> HIDE DEF k
<1>3. where' = [p \in Paths |-> IF where[p] \in reg'.live THEN where[p] ELSE NULL]
  BY <1>1 DEF Known
<1>4. where' \in [Paths -> Pointers] BY <1>3 DEF Led, Pointers
<1>5. ASSUME NEW p \in Paths, where'[p] # NULL PROVE Fits(reg', p, where'[p])
  <2>1. where'[p] = where[p] /\ where[p] \in reg'.live BY <1>3, <1>5
  <2>2. Fits(reg, p, where[p]) BY <1>5, <2>1 DEF Led
  <2> QED BY <1>2, <2>1, <2>2, FitsDeleted
<1> QED BY <1>1, <1>4, <1>5 DEF Led

LEMMA LedRename ==
    ASSUME Tree(reg), Led, NEW path \in Paths, NEW n \in Names, RenameKey(path, n)
    PROVE  Led'
<1> DEFINE k == ResolveKey(reg, path)
           lost == Under(reg, k)
<1>1. /\ k # NULL /\ reg' = [reg EXCEPT !.name[k] = n] /\ just' = <<>>
      /\ where' = [p \in Paths |-> IF where[p] \in reg.live \ lost THEN where[p] ELSE NULL]
  BY DEF RenameKey, Become, Known
<1>2. k \in reg.live BY <1>1, ResolveIs
<1> HIDE DEF k
<1>3. Refilled(reg, reg') /\ \A x \in reg.live : x # k => reg'.name[x] = reg.name[x]
  BY <1>1, NameRefills
<1>4. where' \in [Paths -> Pointers] BY <1>1 DEF Led, Pointers
<1>5. ASSUME NEW p \in Paths, where'[p] # NULL PROVE Fits(reg', p, where'[p])
  <2>1. where'[p] = where[p] /\ where[p] \in reg.live \ lost BY <1>1, <1>5
  <2>2. Fits(reg, p, where[p]) BY <1>5, <2>1 DEF Led
  <2>3. where[p] # k /\ reg.parent[where[p]] # k BY <2>1 DEF Under
  <2> QED BY <1>3, <2>1, <2>2, <2>3, FitsRefilled
<1> QED BY <1>1, <1>4, <1>5 DEF Led

LEMMA LedStep ==
    ASSUME Tree(reg), Led, [Next]_vars
    PROVE  Led'
<1>1. ASSUME NEW path \in Paths, NEW v \in Values \cup {Nothing}, KeySetData(path, v) PROVE Led'
  BY <1>1, LedSet DEF KeySetData, Become
<1>2. ASSUME NEW path \in Paths, CreateKey(path) PROVE Led' BY <1>2, LedSet DEF CreateKey, Become
<1>3. CASE RegistryReLoad BY <1>3, LedNowhere DEF RegistryReLoad, Load
<1>4. CASE Stop BY <1>4, LedNowhere DEF Stop
<1>5. ASSUME NEW resetup \in BOOLEAN, Start(resetup) PROVE Led' BY <1>5, LedNowhere DEF Start, Load
<1>6. CASE SaveBegin \/ SaveEnd \/ DiskFull \/ RunEntries \/ RunNext \/ RunOver \/ RunAstray \/ UNCHANGED vars
  <2>1. reg' = reg /\ where' = where /\ just' = just
    BY <1>6 DEF SaveBegin, SaveEnd, DiskFull, RunEntries, RunNext, RunOver, RunAstray, vars
  <2> QED BY <2>1 DEF Led
<1> QED BY <1>1, <1>2, <1>3, <1>4, <1>5, <1>6, LedNewKey, LedDelete, LedRename DEF Next

-----------------------------------------------------------------------------
(* A key that lives has its neighbours beside it, under the same key.      *)
LEMMA Neighbours ==
    ASSUME NEW R, Tree(R), NEW k \in R.live \ {Root}, NEW C, C = Below(R, R.parent[k])
    PROVE  /\ k \in C /\ R.parent[k] \in R.live
           /\ R.next[k] \in C /\ R.prev[k] \in C
           /\ R.next[R.prev[k]] = k /\ R.prev[R.next[k]] = k
           /\ R.next[k] \in R.live \ {Root} /\ R.prev[k] \in R.live \ {Root}
           /\ R.parent[R.next[k]] = R.parent[k] /\ R.parent[R.prev[k]] = R.parent[k]
           /\ R.last[R.parent[k]] \in C /\ R.next[R.last[R.parent[k]]] \in C
<1> DEFINE p == R.parent[k]
           m == Ring(R, p)
<1>1. p \in R.live /\ k \in C /\ p \in Keys /\ R \in Trees BY Fields DEF Tree, Rooted, Below
<1>2. RingOn(m, C, Keys) BY <1>1 DEF Tree, Ringed
<1>3. m.next = R.next /\ m.prev = R.prev /\ m.last = R.last[p] BY <1>1, RingMemory
<1>4. NULL \notin Keys BY KeysFacts
<1> HIDE DEF m
<1>5. /\ R.next[k] \in C /\ R.prev[k] \in C
      /\ R.next[R.prev[k]] = k /\ R.prev[R.next[k]] = k
  BY <1>1, <1>2, <1>3, <1>4, RingBack
<1>6. R.last[p] \in C /\ R.next[R.last[p]] \in C
  BY <1>1, <1>2, <1>3, <1>4, RingEnds
<1> QED BY <1>1, <1>5, <1>6, BelowIs

(* The pointers that a deletion and a new key change.                      *)
DeletedLinks(R, N, k) ==
    LET p == R.parent[k]
        a == R.prev[k]
        b == R.next[k]
    IN  /\ N.used = R.used /\ N.parent = R.parent
        /\ N.live = {x \in R.live : x # k /\ R.parent[x] # k}
        /\ b = k => N.next = R.next /\ N.prev = R.prev
        /\ b # k => /\ a # k
                    /\ N.next = [R.next EXCEPT ![a] = b] /\ N.prev = [R.prev EXCEPT ![b] = a]
                    /\ N.last[p] = IF R.last[p] = k THEN a ELSE R.last[p]
        /\ \A q \in Keys \ {p} : N.last[q] = R.last[q]

LEMMA DeletedLinksAre ==
    ASSUME NEW R, Tree(R), NEW N, NEW k, Deleted(R, N, k)
    PROVE  DeletedLinks(R, N, k)
<1> DEFINE p == R.parent[k]
           m == Unlink(Ring(R, p), k)
<1>0. k \in R.live \ {Root} BY DEF Deleted
<1>1. DeletedFields(R, N, k, p, m)
  <2>1. p = R.parent[k] /\ m = Unlink(Ring(R, p), k) OBVIOUS
  <2> HIDE DEF p, m
  <2> QED BY <2>1, DeletedIs, Zenon
<1>2. R.prev[R.next[k]] = k /\ R.next[R.prev[k]] = k BY <1>0, Neighbours
<1>3. /\ p \in Keys /\ R \in Trees /\ R.last \in [Keys -> Pointers]
  BY <1>1, Fields DEF DeletedFields, Tree
<1>4. Ring(R, p).last = R.last[p] /\ Ring(R, p).next = R.next /\ Ring(R, p).prev = R.prev
  BY <1>3, RingMemory
<1>5. R.next[k] = k => m.next = R.next /\ m.prev = R.prev
  BY <1>4 DEF Unlink
<1>6. R.next[k] # k => /\ m.next = [R.next EXCEPT ![R.prev[k]] = R.next[k]]
                       /\ m.prev = [R.prev EXCEPT ![R.next[k]] = R.prev[k]]
                       /\ m.last = IF R.last[p] = k THEN R.prev[k] ELSE R.last[p]
  BY <1>4 DEF Unlink
<1> HIDE DEF m
<1>7. N.last[p] = m.last /\ \A q \in Keys \ {p} : N.last[q] = R.last[q]
  BY <1>1, <1>3 DEF DeletedFields
<1>8. N.live = {x \in R.live : x # k /\ R.parent[x] # k} BY <1>1 DEF DeletedFields, Under
<1> QED BY <1>1, <1>2, <1>5, <1>6, <1>7, <1>8 DEF DeletedLinks, DeletedFields

MadeLinks(R, N, p, k) ==
    LET l == R.last[p]
        f == R.next[l]
    IN  /\ k = R.used + 1 /\ N.used = k /\ p \in R.live /\ k \in Keys
        /\ N.live = R.live \cup {k}
        /\ \A x \in R.live : N.parent[x] = R.parent[x]
        /\ N.parent[k] = p
        /\ l = NULL => /\ Below(R, p) = {}
                       /\ N.next = [R.next EXCEPT ![k] = k] /\ N.prev = [R.prev EXCEPT ![k] = k]
        /\ l # NULL => /\ l \in Below(R, p) /\ f \in Below(R, p)
                       /\ N.next = [R.next EXCEPT ![k] = f, ![l] = k]
                       /\ N.prev = [R.prev EXCEPT ![k] = l, ![f] = k]
        /\ N.last[p] = k /\ \A q \in Keys \ {p} : N.last[q] = R.last[q]

LEMMA MadeLinksAre ==
    ASSUME NEW R, Tree(R), NEW N, NEW p, NEW n, Made(R, N, p, n)
    PROVE  MadeLinks(R, N, p, R.used + 1)
<1> DEFINE k == R.used + 1
           m == LinkEnd(Ring(R, p), k)
           l == R.last[p]
           f == R.next[l]
<1>1. MadeFields(R, N, p, n, k, m)
  <2>1. k = R.used + 1 /\ m = LinkEnd(Ring(R, p), k) OBVIOUS
  <2> HIDE DEF m, k
  <2> QED BY <2>1, MadeIs, Zenon
<1>2. /\ \A x \in R.live : N.parent[x] = R.parent[x]
      /\ N.parent[k] = p
  BY MadeBelow
<1>3. p \in R.live /\ p \in Keys /\ R \in Trees /\ R.last \in [Keys -> Pointers] /\ NULL \notin Keys
  BY <1>1, Fields, KeysFacts DEF MadeFields, Made, Tree
<1>4. Ring(R, p).last = l /\ Ring(R, p).next = R.next /\ Ring(R, p).prev = R.prev
  BY <1>3, RingMemory
<1>5. RingOn(Ring(R, p), Below(R, p), Keys) BY <1>3 DEF Tree, Ringed
<1>6. l = NULL => m.last = k /\ m.next = [R.next EXCEPT ![k] = k] /\ m.prev = [R.prev EXCEPT ![k] = k]
  BY <1>4 DEF LinkEnd, LinkAlone
<1>7. l # NULL => /\ m.last = k /\ m.next = [R.next EXCEPT ![k] = f, ![l] = k]
                  /\ m.prev = [R.prev EXCEPT ![k] = l, ![f] = k]
  BY <1>4 DEF LinkEnd, LinkBetween
<1>8. (l = NULL => Below(R, p) = {}) /\ (l # NULL => l \in Below(R, p) /\ f \in Below(R, p))
  <2> DEFINE r == Ring(R, p)
  <2>1. r.last = l /\ r.next = R.next /\ RingOn(r, Below(R, p), Keys) BY <1>4, <1>5
  <2> HIDE DEF r, l
  <2>2. r.last = NULL <=> Below(R, p) = {} BY <1>3, <2>1, RingEnds
  <2>3. r.last # NULL => r.last \in Below(R, p) /\ r.next[r.last] \in Below(R, p)
    BY <1>3, <2>1, RingEnds
  <2> QED BY <2>1, <2>2, <2>3
<1> HIDE DEF m
<1>9. N.last[p] = m.last /\ \A q \in Keys \ {p} : N.last[q] = R.last[q]
  BY <1>1, <1>3 DEF MadeFields
<1> QED BY <1>1, <1>2, <1>3, <1>6, <1>7, <1>8, <1>9 DEF MadeLinks, MadeFields

(* The same for all keys of the tree at once. *)
Beside(R) ==
    /\ R.live \subseteq 1 .. R.used /\ R.used \in Nat /\ 1 .. R.used \subseteq Keys
    /\ R.next \in [Keys -> Pointers] /\ R.prev \in [Keys -> Pointers] /\ R.last \in [Keys -> Pointers]
    /\ R.parent \in [Keys -> Pointers]
    /\ \A x \in R.live \ {Root} :
          /\ R.next[x] \in R.live \ {Root} /\ R.prev[x] \in R.live \ {Root}
          /\ R.parent[R.next[x]] = R.parent[x] /\ R.parent[R.prev[x]] = R.parent[x]
          /\ R.next[R.prev[x]] = x /\ R.prev[R.next[x]] = x
          /\ R.last[R.parent[x]] \in R.live \ {Root} /\ R.parent[R.last[R.parent[x]]] = R.parent[x]
          /\ R.parent[x] \in R.live
          /\ R.next[x] = x => \A y \in R.live \ {Root} : R.parent[y] = R.parent[x] => y = x

LEMMA AloneInRing ==
    ASSUME NEW R, Tree(R), NEW x \in R.live \ {Root}, R.next[x] = x,
           NEW y \in R.live \ {Root}, R.parent[y] = R.parent[x]
    PROVE  y = x
<1> DEFINE p == R.parent[x]
           m == Ring(R, p)
           C == Below(R, p)
           P == {x}
<1>1. p \in R.live /\ p \in Keys /\ R \in Trees /\ x \in C /\ y \in C BY Fields DEF Tree, Rooted, Below
<1>2. RingOn(m, C, Keys) BY <1>1 DEF Tree, Ringed
<1>3. m.next[x] = x BY <1>1, RingMemory
<1>4. NULL \notin Keys BY KeysFacts
<1> HIDE DEF m, C
<1>5. P \subseteq C /\ P # {} /\ \A z \in P : m.next[z] \in P BY <1>1, <1>3
<1> HIDE DEF P
<1>6. P = C BY <1>2, <1>4, <1>5, RingCloses
<1> QED BY <1>1, <1>6 DEF P

LEMMA BesideIs ==
    ASSUME NEW R, Tree(R)
    PROVE  Beside(R)
<1>1. /\ R.live \subseteq 1 .. R.used /\ R.used \in Nat /\ 1 .. R.used \subseteq Keys
      /\ R.next \in [Keys -> Pointers] /\ R.prev \in [Keys -> Pointers] /\ R.last \in [Keys -> Pointers]
      /\ R.parent \in [Keys -> Pointers]
  <2>1. R.used \in 0 .. MaxKey /\ MaxKey \in Nat BY Fields, KeysFacts DEF Tree
  <2>2. 1 .. R.used \subseteq Keys BY <2>1 DEF Keys
  <2> QED BY <2>1, <2>2, Fields DEF Tree, Rooted
<1>2. ASSUME NEW x \in R.live \ {Root}
      PROVE  R.last[R.parent[x]] \in R.live \ {Root} /\ R.parent[R.last[R.parent[x]]] = R.parent[x]
             /\ R.parent[x] \in R.live
  BY Neighbours, BelowIs
<1>3. ASSUME NEW x \in R.live \ {Root}
      PROVE  /\ R.next[x] \in R.live \ {Root} /\ R.prev[x] \in R.live \ {Root}
             /\ R.parent[R.next[x]] = R.parent[x] /\ R.parent[R.prev[x]] = R.parent[x]
             /\ R.next[R.prev[x]] = x /\ R.prev[R.next[x]] = x
  BY Neighbours
<1>4. ASSUME NEW x \in R.live \ {Root}, R.next[x] = x, NEW y \in R.live \ {Root}, R.parent[y] = R.parent[x]
      PROVE  y = x
  BY <1>4, AloneInRing
<1> QED BY <1>1, <1>2, <1>3, <1>4 DEF Beside

-----------------------------------------------------------------------------
(* What has run and still lives are the keys from the first entry up to e, *)
(* one beside the other; the entry that runs, if it lives, is e, and if it *)
(* does not, what it leads to is what comes after e.                       *)
Reaches(R, a, first, ran, e) ==
    /\ e \in ran \cap R.live /\ (a \in R.live => e = a)
    /\ \A x \in ran \cap R.live :
          /\ R.parent[x] = R.parent[first]
          /\ x # e => R.next[x] \in (ran \cap R.live) \ {first}
          /\ x # first => R.prev[x] \in ran \cap R.live
    /\ R.next[e] # first => R.next[e] \notin ran
    /\ a \notin R.live /\ R.next[a] \in R.live => R.next[a] \in {R.next[e], first}

Headed(R, a, first, ran) ==
    /\ R.next[R.last[R.parent[first]]] = first
    /\ \E e : Reaches(R, a, first, ran, e)

Ranged(R, a, first, ran) ==
    /\ a \in (1 .. R.used) \ {Root} /\ R.next[a] \in (1 .. R.used) \ {Root}
    /\ first \in ran /\ ran \subseteq (1 .. R.used) \ {Root}

Entries(R, a, first, ran) ==
    Ranged(R, a, first, ran) /\ (first \in R.live => Headed(R, a, first, ran))

LEMMA RangedDeleted ==
    ASSUME NEW R, Beside(R), NEW N, NEW k \in R.live \ {Root}, DeletedLinks(R, N, k),
           NEW a, NEW first, NEW ran, Ranged(R, a, first, ran)
    PROVE  Ranged(N, a, first, ran)
<1>1. a \in Keys /\ R.next \in [Keys -> Pointers] /\ R.prev[k] \in Keys BY DEF Ranged, Beside
<1>2. R.next[k] \in R.live \ {Root} /\ R.next[k] \in (1 .. R.used) \ {Root} BY DEF Beside
<1>3. N.used = R.used /\ (N.next = R.next \/ N.next = [R.next EXCEPT ![R.prev[k]] = R.next[k]])
  BY DEF DeletedLinks
<1>4. N.next[a] = R.next[a] \/ N.next[a] = R.next[k] BY <1>1, <1>3
<1> QED BY <1>2, <1>3, <1>4 DEF Ranged

(* A key of another directory than the entries' goes.                      *)
LEMMA HeadedElsewhere ==
    ASSUME NEW R, Beside(R), NEW N, NEW k \in R.live \ {Root}, DeletedLinks(R, N, k),
           NEW a, NEW first \in N.live, NEW ran, Ranged(R, a, first, ran), Headed(R, a, first, ran),
           R.parent[k] # R.parent[first]
    PROVE  Headed(N, a, first, ran)
<1> DEFINE q == R.parent[first]
<1>1. PICK e : Reaches(R, a, first, ran, e) BY DEF Headed
<1>2. first \in R.live \ {Root} /\ first # k /\ q # k /\ q \in Keys /\ a \in Keys /\ q = N.parent[first]
  BY DEF DeletedLinks, Ranged, Beside
<1>3. \A x \in R.live : R.parent[x] = q => x \in N.live BY <1>2 DEF DeletedLinks
<1>4. \A x \in ran \cap R.live : x \in N.live /\ N.parent[x] = q
  BY <1>1, <1>3 DEF Reaches, DeletedLinks
<1>5. R.prev[k] \in R.live \ {Root} /\ R.parent[R.prev[k]] = R.parent[k]
      /\ R.next[k] \in R.live \ {Root} /\ R.parent[R.next[k]] = R.parent[k]
  BY DEF Beside
<1>6. ASSUME NEW x \in Keys, x \notin R.live \/ R.parent[x] = q
      PROVE  N.next[x] = R.next[x] /\ N.prev[x] = R.prev[x]
  <2>1. x # R.prev[k] /\ x # R.next[k] BY <1>5, <1>6
  <2>2. N.next = R.next \/ N.next = [R.next EXCEPT ![R.prev[k]] = R.next[k]] BY DEF DeletedLinks
  <2>3. N.prev = R.prev \/ N.prev = [R.prev EXCEPT ![R.next[k]] = R.prev[k]] BY DEF DeletedLinks
  <2>4. R.next \in [Keys -> Pointers] /\ R.prev \in [Keys -> Pointers] BY DEF Beside
  <2> QED BY <2>1, <2>2, <2>3, <2>4
<1>7. N.last[q] = R.last[q] BY <1>2 DEF DeletedLinks
<1>8. R.last[q] \in R.live \ {Root} /\ R.parent[R.last[q]] = q /\ R.last[q] \in Keys
  BY <1>2 DEF Beside
<1>9. N.next[N.last[N.parent[first]]] = first BY <1>2, <1>6, <1>7, <1>8 DEF Headed
<1>10. ran \cap N.live = ran \cap R.live BY <1>4 DEF DeletedLinks
<1>11. \A x \in ran \cap R.live : x \in Keys /\ N.next[x] = R.next[x] /\ N.prev[x] = R.prev[x]
  BY <1>1, <1>6 DEF Reaches, Beside
<1>12. e \in ran \cap R.live BY <1>1 DEF Reaches
<1>13. a \in N.live => e = a BY <1>1 DEF Reaches, DeletedLinks
<1>14. a \notin N.live => a \notin R.live
  <2>1. a \in R.live => a = e BY <1>1 DEF Reaches
  <2> QED BY <2>1, <1>4, <1>12
<1>15. a \notin N.live /\ N.next[a] \in N.live => N.next[a] \in {N.next[e], first}
  <2> SUFFICES ASSUME a \notin N.live, N.next[a] \in N.live PROVE N.next[a] \in {N.next[e], first} OBVIOUS
  <2>1. N.next[a] = R.next[a] BY <1>2, <1>6, <1>14
  <2>2. R.next[a] \in R.live BY <2>1 DEF DeletedLinks
  <2> QED BY <1>1, <1>11, <1>12, <1>14, <2>1, <2>2 DEF Reaches
<1> HIDE DEF q
<1>16. Reaches(N, a, first, ran, e)
  BY <1>1, <1>2, <1>4, <1>10, <1>11, <1>12, <1>13, <1>15 DEF Reaches
<1> QED BY <1>9, <1>16 DEF Headed

(* A key beside the entries goes: if it is the one that was reached, the   *)
(* one in front of it is; the entries after it move up.                    *)
LEMMA HeadedBeside ==
    ASSUME NEW R, Beside(R), NEW N, NEW k \in R.live \ {Root}, DeletedLinks(R, N, k),
           NEW a, NEW first \in N.live, NEW ran, Ranged(R, a, first, ran), Headed(R, a, first, ran),
           R.parent[k] = R.parent[first]
    PROVE  Headed(N, a, first, ran)
<1> DEFINE q == R.parent[first]
           b == R.prev[k]
           c == R.next[k]
<1>1. PICK e : Reaches(R, a, first, ran, e) BY DEF Headed
<1>2. /\ first \in R.live \ {Root} /\ first # k /\ q # k /\ q \in Keys /\ a \in Keys /\ q = N.parent[first]
      /\ \A x \in R.live \ {k} : R.parent[x] = q => x \in N.live
  <2>1. N.parent = R.parent /\ N.live = {x \in R.live : x # k /\ R.parent[x] # k} BY DEF DeletedLinks
  <2>2. first \in R.live \ {Root} /\ first # k /\ q # k BY <2>1 DEF Ranged
  <2>3. q \in Keys /\ a \in Keys BY <2>2 DEF Beside, Ranged
  <2> QED BY <2>1, <2>2, <2>3
<1>3. /\ b \in R.live \ {Root} /\ c \in R.live \ {Root} /\ R.parent[b] = q /\ R.parent[c] = q
      /\ R.next[b] = k /\ R.prev[c] = k /\ k \in Keys /\ b \in Keys /\ c \in Keys
  BY DEF Beside
<1>4. c # k BY <1>2 DEF Beside
<1>5. /\ b # k /\ N.next[b] = c /\ N.prev[c] = b
      /\ \A x \in Keys \ {b} : N.next[x] = R.next[x]
      /\ \A x \in Keys \ {c} : N.prev[x] = R.prev[x]
      /\ N.last[q] = IF R.last[q] = k THEN b ELSE R.last[q]
  BY <1>3, <1>4 DEF DeletedLinks, Beside
<1>6. R.last[q] \in R.live /\ R.last[q] \in Keys /\ R.next[R.last[q]] = first BY <1>2 DEF Beside, Headed
<1>7. N.next[N.last[N.parent[first]]] = first BY <1>2, <1>3, <1>5, <1>6
<1> DEFINE P == ran \cap R.live
<1>8. /\ e \in P /\ (a \in R.live => e = a) /\ first \in P /\ P \subseteq Keys
      /\ \A x \in P : /\ R.parent[x] = q
                      /\ x # e => R.next[x] \in P \ {first}
                      /\ x # first => R.prev[x] \in P
      /\ R.next[e] # first => R.next[e] \notin ran
      /\ a \notin R.live /\ R.next[a] \in R.live => R.next[a] \in {R.next[e], first}
  BY <1>1, <1>2 DEF Reaches, Ranged, Beside
<1>9. ran \cap N.live = P \ {k} /\ N.live \subseteq R.live /\ k \notin N.live /\ N.parent = R.parent
  BY <1>2, <1>8 DEF DeletedLinks
<1>10. a \in N.live <=> a \in R.live /\ a # k
  BY <1>2, <1>8, <1>9
<1>11. \A x \in P : /\ R.next[R.prev[x]] = x /\ R.prev[R.next[x]] = x
                   /\ R.next[x] \in R.live /\ R.prev[x] \in R.live
  <2>1. P \subseteq R.live \ {Root} BY DEF Ranged
  <2> HIDE DEF P
  <2> QED BY <2>1 DEF Beside
<1>12. b \in R.live /\ c \in R.live BY <1>3
<1>13. P = ran \cap R.live OBVIOUS
<1>14. b = R.prev[k] /\ c = R.next[k] OBVIOUS
<1>15. ASSUME NEW d \in P \ {k},
              a \in N.live => d = a,
              \A x \in P \ {k} : /\ x # d => N.next[x] \in (P \ {k}) \ {first}
                                 /\ x # first => N.prev[x] \in P \ {k},
              N.next[d] # first => N.next[d] \notin ran,
              a \notin N.live /\ N.next[a] \in N.live => N.next[a] \in {N.next[d], first}
       PROVE  Headed(N, a, first, ran)
  <2> HIDE DEF P, q, b, c
  <2>1. \A x \in P \ {k} : N.parent[x] = N.parent[first] BY <1>2, <1>8, <1>9
  <2>2. \A x \in ran \cap N.live :
           /\ N.parent[x] = N.parent[first]
           /\ x # d => N.next[x] \in (ran \cap N.live) \ {first}
           /\ x # first => N.prev[x] \in ran \cap N.live
    <3> DEFINE Q == ran \cap N.live
    <3>1. Q = P \ {k} BY <1>9
    <3> HIDE DEF Q
    <3>2. /\ \A x \in Q : N.parent[x] = N.parent[first]
          /\ \A x \in Q : x # d => N.next[x] \in Q \ {first}
          /\ \A x \in Q : x # first => N.prev[x] \in Q
      BY <1>15, <2>1, <3>1
    <3> QED BY <3>2 DEF Q
  <2>3. d \in ran \cap N.live BY <1>9
  <2>4. Reaches(N, a, first, ran, d) BY <1>15, <2>2, <2>3 DEF Reaches
  <2> QED BY <1>7, <2>4 DEF Headed
<1> HIDE DEF P, q, b, c
<1>16. CASE k \notin ran
  <2>1. k \notin P /\ e \in P \ {k} /\ P \ {k} = P BY <1>8, <1>13, <1>16
  <2>2. \A x \in P : x # e => N.next[x] \in P \ {first} BY <1>3, <1>5, <1>8, <2>1
  <2>3. \A x \in P : x # first => N.prev[x] \in P BY <1>3, <1>5, <1>8, <2>1
  <2>4. N.next[e] # first => N.next[e] \notin ran
    <3>1. c \in P => c = first BY <1>3, <1>8, <2>1
    <3>2. CASE e = b BY <1>5, <1>12, <1>13, <3>1, <3>2
    <3>3. CASE e # b BY <1>5, <1>8, <3>3
    <3> QED BY <3>2, <3>3
  <2>5. ASSUME a \notin N.live, N.next[a] \in N.live PROVE N.next[a] \in {N.next[e], first}
    <3>1. a \notin R.live BY <1>8, <1>10, <2>1, <2>5
    <3>2. N.next[a] = R.next[a] BY <1>2, <1>5, <1>12, <3>1
    <3>3. R.next[a] # k /\ R.next[a] \in {R.next[e], first} BY <1>8, <1>9, <2>5, <3>1, <3>2
    <3>4. R.next[e] # k => N.next[e] = R.next[e] BY <1>3, <1>5, <1>8
    <3> QED BY <3>2, <3>3, <3>4
  <2>6. a \in N.live => e = a BY <1>8, <1>10
  <2> QED BY <1>15, <2>1, <2>2, <2>3, <2>4, <2>5, <2>6
<1>17. CASE k \in ran /\ k = e
  <2>1. k \in P /\ b \in P \ {k} /\ a \notin N.live BY <1>2, <1>5, <1>8, <1>10, <1>14, <1>17
  <2>2. ASSUME NEW x \in P \ {k}, x # b PROVE N.next[x] \in (P \ {k}) \ {first}
    <3>1. R.next[x] # k BY <1>11, <1>14, <2>2
    <3> QED BY <1>5, <1>8, <1>17, <2>2, <3>1
  <2>3. ASSUME NEW x \in P \ {k}, x # first PROVE N.prev[x] \in P \ {k}
    <3>1. CASE x = c BY <1>5, <2>1, <3>1
    <3>2. CASE x # c
      <4>1. R.prev[x] # k BY <1>11, <1>14, <2>3, <3>2
      <4> QED BY <1>5, <1>8, <2>3, <3>2, <4>1
    <3> QED BY <3>1, <3>2
  <2>4. N.next[b] # first => N.next[b] \notin ran BY <1>5, <1>8, <1>14, <1>17
  <2>5. ASSUME a \notin N.live, N.next[a] \in N.live PROVE N.next[a] \in {N.next[b], first}
    <3>1. CASE a = k BY <1>3, <1>5, <1>14, <3>1
    <3>2. CASE a # k
      <4>1. a \notin R.live BY <1>10, <2>5, <3>2
      <4>2. N.next[a] = R.next[a] BY <1>2, <1>5, <1>12, <4>1
      <4> QED BY <1>5, <1>8, <1>9, <1>14, <1>17, <2>5, <4>1, <4>2
    <3> QED BY <3>1, <3>2
  <2> QED BY <1>15, <2>1, <2>2, <2>3, <2>4, <2>5
<1>18. CASE k \in ran /\ k # e
  <2>1. k \in P /\ e \in P \ {k} BY <1>8, <1>13, <1>18
  <2>2. b \in P \ {k} /\ c \in (P \ {k}) \ {first} BY <1>2, <1>4, <1>5, <1>8, <1>14, <1>18, <2>1
  <2>3. ASSUME NEW x \in P \ {k}, x # e PROVE N.next[x] \in (P \ {k}) \ {first}
    <3>1. CASE x = b BY <1>5, <2>2, <3>1
    <3>2. CASE x # b
      <4>1. R.next[x] # k BY <1>11, <1>14, <2>3, <3>2
      <4> QED BY <1>5, <1>8, <2>3, <3>2, <4>1
    <3> QED BY <3>1, <3>2
  <2>4. ASSUME NEW x \in P \ {k}, x # first PROVE N.prev[x] \in P \ {k}
    <3>1. CASE x = c BY <1>5, <2>2, <3>1
    <3>2. CASE x # c
      <4>1. R.prev[x] # k BY <1>11, <1>14, <2>4, <3>2
      <4> QED BY <1>5, <1>8, <2>4, <3>2, <4>1
    <3> QED BY <3>1, <3>2
  <2>5. N.next[e] = R.next[e]
    <3>1. e # b BY <1>2, <1>3, <1>8, <1>18
    <3> QED BY <1>5, <1>8, <3>1
  <2>6. ASSUME a \notin N.live, N.next[a] \in N.live PROVE N.next[a] \in {N.next[e], first}
    <3>1. a \notin R.live BY <1>8, <1>10, <1>18, <2>6
    <3>2. N.next[a] = R.next[a] BY <1>2, <1>5, <1>12, <3>1
    <3> QED BY <1>8, <1>9, <2>5, <2>6, <3>1, <3>2
  <2>7. a \in N.live => e = a BY <1>8, <1>10
  <2> QED BY <1>8, <1>15, <2>1, <2>3, <2>4, <2>5, <2>6, <2>7
<1> QED BY <1>16, <1>17, <1>18

LEMMA EntriesDeleted ==
    ASSUME NEW R, Tree(R), NEW N, NEW k, Deleted(R, N, k),
           NEW a, NEW first, NEW ran, Entries(R, a, first, ran)
    PROVE  Entries(N, a, first, ran)
<1>1. Beside(R) /\ DeletedLinks(R, N, k) /\ k \in R.live \ {Root}
  BY BesideIs, DeletedLinksAre DEF Deleted
<1>2. Ranged(N, a, first, ran) BY <1>1, RangedDeleted DEF Entries
<1>3. ASSUME first \in N.live PROVE Headed(N, a, first, ran)
  <2>1. first \in R.live BY <1>1, <1>3 DEF DeletedLinks
  <2>2. Headed(R, a, first, ran) /\ Ranged(R, a, first, ran) BY <2>1 DEF Entries
  <2> QED BY <1>1, <1>3, <2>2, HeadedElsewhere, HeadedBeside
<1> QED BY <1>2, <1>3 DEF Entries

(* A new key is the last of its directory, after the entries if it is      *)
(* theirs.                                                                 *)
LEMMA EntriesMade ==
    ASSUME NEW R, Tree(R), NEW N, NEW p, NEW n, Made(R, N, p, n),
           NEW a, NEW first, NEW ran, Entries(R, a, first, ran)
    PROVE  Entries(N, a, first, ran)
<1> DEFINE k == R.used + 1
           l == R.last[p]
           f == R.next[l]
           q == R.parent[first]
<1>1. Beside(R) /\ MadeLinks(R, N, p, k) BY BesideIs, MadeLinksAre
<1>2. /\ R.used \in Nat \ {0} /\ k \in Keys /\ k \notin 1 .. R.used /\ N.used = k /\ k # Root
      /\ k \in 1 .. N.used /\ \A x \in 1 .. R.used : x \in 1 .. N.used /\ x # k
      /\ \A x \in R.live : x # k
      /\ N.live = R.live \cup {k} /\ NULL \notin Keys /\ 1 .. R.used \subseteq Keys
  <2>1. R.used \in Nat /\ k \in Keys /\ N.used = k /\ N.live = R.live \cup {k}
        /\ R.live \subseteq 1 .. R.used /\ 1 .. R.used \subseteq Keys
    BY <1>1 DEF Beside, MadeLinks
  <2>2. a \in 1 .. R.used BY DEF Entries, Ranged
  <2> QED BY <2>1, <2>2, KeysFacts
<1>3. /\ a \in (1 .. R.used) \ {Root} /\ R.next[a] \in (1 .. R.used) \ {Root}
      /\ first \in ran /\ ran \subseteq (1 .. R.used) \ {Root}
  BY DEF Entries, Ranged
<1>4. /\ \A x \in Keys : x # k /\ x # l => N.next[x] = R.next[x]
      /\ \A x \in Keys : x # k /\ (l = NULL \/ x # f) => N.prev[x] = R.prev[x]
      /\ l # NULL => /\ N.next[l] = k /\ N.next[k] = f /\ l \in R.live /\ R.parent[l] = p
                     /\ f \in R.live /\ R.parent[f] = p
  <2>1. R.next \in [Keys -> Pointers] /\ R.prev \in [Keys -> Pointers] BY <1>1 DEF Beside
  <2>2. CASE l = NULL BY <1>1, <2>1, <2>2 DEF MadeLinks
  <2>3. CASE l # NULL
    <3>1. /\ l \in Below(R, p) /\ f \in Below(R, p)
          /\ N.next = [R.next EXCEPT ![k] = f, ![l] = k]
          /\ N.prev = [R.prev EXCEPT ![k] = l, ![f] = k]
      BY <1>1, <2>3 DEF MadeLinks
    <3>2. l \in R.live /\ R.parent[l] = p /\ f \in R.live /\ R.parent[f] = p BY <3>1 DEF Below
    <3>3. l \in Keys /\ f \in Keys /\ l # k BY <1>1, <1>2, <3>2 DEF Beside
    <3> HIDE DEF f, l, k
    <3> QED BY <2>1, <1>2, <3>1, <3>2, <3>3
  <2> QED BY <2>2, <2>3
<1>5. \A x \in R.live : N.parent[x] = R.parent[x] BY <1>1 DEF MadeLinks
<1>6. N.last[p] = k /\ \A x \in Keys \ {p} : N.last[x] = R.last[x] BY <1>1 DEF MadeLinks
<1>7. l \in R.live \cup {NULL}
  <2>1. l = NULL \/ l \in Below(R, p) BY <1>1 DEF MadeLinks
  <2> QED BY <2>1 DEF Below
<1> HIDE DEF k, l, f
<1>8. Ranged(N, a, first, ran)
  <2>1. CASE a = l
    <3>1. N.next[a] = k BY <1>2, <1>3, <1>4, <2>1
    <3> QED BY <1>2, <1>3, <3>1 DEF Ranged
  <2>2. CASE a # l
    <3>1. N.next[a] = R.next[a] BY <1>2, <1>3, <1>4, <2>2
    <3> QED BY <1>2, <1>3, <3>1 DEF Ranged
  <2> QED BY <2>1, <2>2
<1>9. ASSUME first \in N.live PROVE Headed(N, a, first, ran)
  <2>1. first \in R.live \ {Root} BY <1>2, <1>3, <1>9
  <2>2. Headed(R, a, first, ran) BY <2>1 DEF Entries
  <2>3. PICK e : Reaches(R, a, first, ran, e) BY <2>2 DEF Headed
  <2> DEFINE P == ran \cap R.live
  <2>4. /\ e \in P /\ (a \in R.live => e = a) /\ first \in P
        /\ \A x \in P : /\ R.parent[x] = q
                        /\ x # e => R.next[x] \in P \ {first}
                        /\ x # first => R.prev[x] \in P
        /\ R.next[e] # first => R.next[e] \notin ran
        /\ a \notin R.live /\ R.next[a] \in R.live => R.next[a] \in {R.next[e], first}
    BY <1>3, <2>1, <2>3 DEF Reaches
  <2>5. ran \cap N.live = P BY <1>2, <1>3
  <2>6. /\ q \in R.live /\ q \in Keys /\ R.last[q] \in R.live /\ R.last[q] \in Keys
        /\ R.last[q] # NULL /\ R.parent[R.last[q]] = q /\ R.next[R.last[q]] = first
    BY <1>1, <1>2, <2>1, <2>2 DEF Beside, Headed
  <2>7. \A x \in P : x \in Keys /\ x # k /\ x # Root BY <1>2, <1>3
  <2>8. p = q => l = R.last[q] /\ l # NULL /\ f = first BY <2>6 DEF l, f
  <2>9. N.parent[first] = q BY <1>5, <2>1
  <2> HIDE DEF P, q
  <2>10. N.next[N.last[N.parent[first]]] = first
    <3>1. CASE p = q BY <1>4, <1>6, <2>8, <2>9, <3>1
    <3>2. CASE p # q
      <4>1. N.last[q] = R.last[q] /\ R.last[q] # k BY <1>2, <1>6, <2>6, <3>2
      <4>2. R.last[q] # l BY <1>4, <2>6, <3>2
      <4> QED BY <1>4, <2>6, <2>9, <4>1, <4>2
    <3> QED BY <3>1, <3>2
  <2>11. \A x \in P : x # e => N.next[x] \in P \ {first}
    <3> SUFFICES ASSUME NEW x \in P, x # e PROVE N.next[x] \in P \ {first} OBVIOUS
    <3>1. R.next[x] \in P \ {first} /\ R.parent[x] = q BY <2>4
    <3>2. x # l BY <1>4, <2>6, <2>8, <3>1, <2>7, <1>2
    <3> QED BY <1>4, <2>7, <3>1, <3>2
  <2>12. \A x \in P : x # first => N.prev[x] \in P
    <3> SUFFICES ASSUME NEW x \in P, x # first PROVE N.prev[x] \in P OBVIOUS
    <3>1. R.prev[x] \in P /\ R.parent[x] = q BY <2>4
    <3>2. l = NULL \/ x # f BY <1>4, <2>8, <3>1
    <3> QED BY <1>4, <2>7, <3>1, <3>2
  <2>13. N.next[e] # first => N.next[e] \notin ran
    <3>1. CASE e = l BY <1>2, <1>3, <1>4, <2>4, <2>7, <3>1
    <3>2. CASE e # l BY <1>4, <2>4, <2>7, <3>2
    <3> QED BY <3>1, <3>2
  <2>14. ASSUME a \notin N.live, N.next[a] \in N.live PROVE N.next[a] \in {N.next[e], first}
    <3>1. a \notin R.live /\ a \in Keys /\ a # k BY <1>2, <1>3, <2>14
    <3>2. a # l BY <1>2, <1>7, <3>1
    <3>3. N.next[a] = R.next[a] BY <1>4, <3>1, <3>2
    <3>4. R.next[a] \in R.live BY <1>2, <1>3, <2>14, <3>3
    <3>5. R.next[a] \in {R.next[e], first} BY <2>4, <3>1, <3>4
    <3>6. CASE e # l BY <1>4, <2>4, <2>7, <3>3, <3>5, <3>6
    <3>7. CASE e = l
      <4>1. R.parent[l] = q /\ l # NULL BY <1>2, <2>4, <2>7, <3>7
      <4>2. p = q BY <1>4, <4>1
      <4>3. R.next[e] = first BY <2>6, <2>8, <3>7, <4>2
      <4> QED BY <3>3, <3>5, <4>3
    <3> QED BY <3>6, <3>7
  <2>15. e \in P /\ (a \in N.live => e = a) BY <1>2, <1>3, <2>4
  <2>16. \A x \in P : N.parent[x] = N.parent[first] BY <1>5, <2>4, <2>9 DEF P
  <2>17. Reaches(N, a, first, ran, e)
    <3> DEFINE Q == ran \cap N.live
    <3>1. Q = P BY <2>5
    <3> HIDE DEF Q
    <3>2. /\ \A x \in Q : N.parent[x] = N.parent[first]
          /\ \A x \in Q : x # e => N.next[x] \in Q \ {first}
          /\ \A x \in Q : x # first => N.prev[x] \in Q
          /\ e \in Q
      BY <2>11, <2>12, <2>15, <2>16, <3>1
    <3> QED BY <2>13, <2>14, <2>15, <3>2 DEF Reaches, Q
  <2> QED BY <2>10, <2>17 DEF Headed
<1> QED BY <1>8, <1>9 DEF Entries

LEMMA EntriesRefilled ==
    ASSUME NEW R, NEW N, Refilled(R, N), NEW a, NEW first, NEW ran, Entries(R, a, first, ran)
    PROVE  Entries(N, a, first, ran)
<1>1. /\ N.live = R.live /\ N.used = R.used /\ N.parent = R.parent
      /\ N.last = R.last /\ N.next = R.next /\ N.prev = R.prev
  BY DEF Refilled
<1>2. Ranged(R, a, first, ran) => Ranged(N, a, first, ran) BY <1>1 DEF Ranged
<1>3. \A e : Reaches(R, a, first, ran, e) => Reaches(N, a, first, ran, e) BY <1>1 DEF Reaches
<1>4. Headed(R, a, first, ran) => Headed(N, a, first, ran) BY <1>1, <1>3 DEF Headed
<1> QED BY <1>1, <1>2, <1>4 DEF Entries

LEMMA EntriesEntered ==
    ASSUME NEW R, Tree(R), NEW S, NEW p, NEW n, NEW k, Entered(R, S, p, n, k),
           NEW a, NEW first, NEW ran, Entries(R, a, first, ran)
    PROVE  Entries(S.reg, a, first, ran)
<1>1. CASE k # NULL BY <1>1 DEF Entered
<1>2. CASE k = NULL
  <2>1. Made(R, S.reg, p, n) BY <1>2 DEF Entered
  <2> QED BY <2>1, EntriesMade
<1> QED BY <1>1, <1>2

LEMMA EntriesGetOrCreate ==
    ASSUME NEW R, Tree(R), NEW path \in Paths, R.used + Len(path) <= MaxKey,
           NEW S, S = GetOrCreateKey(R, path),
           NEW a, NEW first, NEW ran, Entries(R, a, first, ran)
    PROVE  Entries(S.reg, a, first, ran)
<1>1. PICK D : Walked(R, path, D, S) BY GetOrCreateWalks
<1>2. Entries(D.reg, a, first, ran)
  <2>1. CASE Len(path) = 1
    <3>1. D = [reg |-> R, key |-> Root] BY <1>1, <2>1 DEF Walked
    <3> QED BY <3>1
  <2>2. CASE Len(path) # 1
    <3>1. Entered(R, D, Root, path[1], SubDir(R, Root, path[1])) BY <1>1, <2>2 DEF Walked
    <3> QED BY <3>1, EntriesEntered
  <2> QED BY <2>1, <2>2
<1>3. /\ Tree(D.reg)
      /\ Entered(D.reg, S, D.key, Last(path), Child(D.reg, D.key, Last(path)))
  BY <1>1 DEF Walked
<1> QED BY <1>2, <1>3, EntriesEntered

-----------------------------------------------------------------------------
(* A walk is where it was started or has gone on to, or it has lost its    *)
(* memory in a reload; and it owns up to what was deleted of it.           *)
Walks == [on : BOOLEAN, a : Pointers, first : Pointers, ran : SUBSET Keys,
          own : BOOLEAN, spoilt : BOOLEAN]

Running ==
    /\ walk \in Walks
    /\ ~ up => ~ walk.on
    /\ walk.on =>
          \/ walk.a = NULL /\ walk.own /\ walk.spoilt
          \/ /\ Entries(reg, walk.a, walk.first, walk.ran)
             /\ ~ walk.own => walk.a \in reg.live
             /\ ~ walk.spoilt => walk.first \in reg.live

(* The walk sees the tree become another one with its entries in place.    *)
LEMMA RunningOn ==
    ASSUME Running, up, up' = up, NEW R, Become(R),
           \A a, first, ran : Entries(reg, a, first, ran) => Entries(R, a, first, ran)
    PROVE  Running'
<1>1. CASE ~ walk.on BY <1>1 DEF Become, Running
<1>2. CASE walk.on
  <2>1. reg' = R /\ walk' = [walk EXCEPT !.own = @ \/ walk.a \notin R.live,
                                        !.spoilt = @ \/ walk.first \notin R.live]
    BY <1>2 DEF Become
  <2>2. walk \in Walks BY DEF Running
  <2>3. walk' \in Walks BY <2>1, <2>2 DEF Walks
  <2>4. /\ walk'.on = walk.on /\ walk'.a = walk.a /\ walk'.first = walk.first /\ walk'.ran = walk.ran
        /\ walk'.own <=> (walk.own \/ walk.a \notin R.live)
        /\ walk'.spoilt <=> (walk.spoilt \/ walk.first \notin R.live)
    BY <2>1, <2>2 DEF Walks
  <2>5. CASE walk.a = NULL /\ walk.own /\ walk.spoilt BY <2>3, <2>4, <2>5 DEF Running
  <2>6. CASE Entries(reg, walk.a, walk.first, walk.ran)
    <3>1. Entries(R, walk.a, walk.first, walk.ran) BY <2>6
    <3> QED BY <2>1, <2>3, <2>4, <3>1 DEF Running
  <2> QED BY <1>2, <2>5, <2>6 DEF Running
<1> QED BY <1>1, <1>2

(* The walk begins at the first entry.                                     *)
LEMMA RunningFirst ==
    ASSUME Tree(reg), RunEntries
    PROVE  Running'
<1> DEFINE o == ResolveKey(reg, Startup)
           a == reg.next[reg.last[o]]
<1>1. /\ o # NULL /\ reg.last[o] # NULL /\ reg' = reg /\ up' = up /\ up
      /\ walk' = [NoWalk EXCEPT !.on = TRUE, !.a = a, !.first = a, !.ran = {a}]
  BY DEF RunEntries
<1>2. o \in reg.live \ {Root} BY <1>1, ResolveIs, RegistryAssumption
<1>3. a \in Below(reg, o)
  <2> DEFINE m == Ring(reg, o)
  <2>1. o \in Keys /\ reg \in Trees BY <1>2, Fields DEF Tree
  <2>2. m.last = reg.last[o] /\ m.next = reg.next BY <2>1, RingMemory
  <2>3. RingOn(m, Below(reg, o), Keys) BY <1>2 DEF Tree, Ringed
  <2> HIDE DEF m, o
  <2>4. m.next[m.last] \in Below(reg, o) BY <1>1, <2>2, <2>3, KeysFacts, RingEnds
  <2> QED BY <2>2, <2>4 DEF a
<1> HIDE DEF a, o
<1>4. a \in reg.live \ {Root} /\ reg.parent[a] = o BY <1>2, <1>3, BelowIs
<1>5. Beside(reg) BY BesideIs
<1>6. a \in Pointers /\ a \in Keys /\ a \in 1 .. reg.used BY <1>4, <1>5 DEF Beside, Pointers
<1>7. Ranged(reg, a, a, {a}) BY <1>4, <1>5, <1>6 DEF Ranged, Beside
<1>8. Reaches(reg, a, a, {a}, a) BY <1>4 DEF Reaches
<1>9. reg.next[reg.last[reg.parent[a]]] = a BY <1>4 DEF a
<1>10. Entries(reg, a, a, {a}) BY <1>7, <1>8, <1>9 DEF Entries, Headed
<1>11. NULL \in Pointers BY DEF Pointers
<1>12. /\ walk' \in Walks /\ walk'.a = a /\ walk'.first = a /\ walk'.ran = {a} /\ walk'.on
       /\ ~ walk'.own /\ ~ walk'.spoilt
  BY <1>1, <1>6, <1>11 DEF NoWalk, Walks
<1> QED BY <1>1, <1>4, <1>10, <1>12 DEF Running

(* A walk that goes on has not left the entries.                           *)
LEMMA GoingOn ==
    ASSUME Tree(reg), Running, walk.on, walk.a \in reg.live \cup reg.husks
    PROVE  /\ Entries(reg, walk.a, walk.first, walk.ran)
           /\ ~ walk.own => walk.a \in reg.live
           /\ ~ walk.spoilt => walk.first \in reg.live
<1>1. NULL \notin reg.live \cup reg.husks BY Fields, KeysFacts DEF Tree
<1> QED BY <1>1 DEF Running

(* The next entry is beside the one that was reached, and has not run.     *)
LEMMA NextEntry ==
    ASSUME NEW R, Tree(R), NEW a, NEW first, NEW ran, Entries(R, a, first, ran),
           NEW n, n = R.next[a], n # first, n \in R.live
    PROVE  /\ Entries(R, n, first, ran \cup {n})
           /\ first \in R.live => n \notin ran
<1>1. Beside(R) BY BesideIs
<1>2. /\ n \in (1 .. R.used) \ {Root} /\ first \in ran /\ ran \subseteq (1 .. R.used) \ {Root}
  BY DEF Entries, Ranged
<1>3. R.next[n] \in R.live \ {Root} /\ R.live \subseteq 1 .. R.used BY <1>1, <1>2 DEF Beside
<1> DEFINE more == ran \cup {n}
<1>4. Ranged(R, n, first, more) BY <1>2, <1>3 DEF Ranged
<1>5. ASSUME first \in R.live PROVE Headed(R, n, first, more) /\ n \notin ran
  <2>1. Headed(R, a, first, ran) BY <1>5 DEF Entries
  <2>2. PICK e : Reaches(R, a, first, ran, e) BY <2>1 DEF Headed
  <2>3. /\ e \in ran \cap R.live /\ (a \in R.live => e = a)
        /\ R.next[e] # first => R.next[e] \notin ran
        /\ a \notin R.live /\ R.next[a] \in R.live => R.next[a] \in {R.next[e], first}
    BY <2>2 DEF Reaches
  <2>4. n = R.next[e]
    <3>1. CASE a \in R.live BY <2>3, <3>1
    <3>2. CASE a \notin R.live BY <2>3, <3>2
    <3> QED BY <3>1, <3>2
  <2>5. n \notin ran BY <2>3, <2>4
  <2>6. /\ e \in R.live \ {Root} /\ R.parent[e] = R.parent[first] BY <1>2, <2>2, <2>3 DEF Reaches
  <2>7. R.parent[n] = R.parent[e] /\ R.prev[n] = e BY <1>1, <2>4, <2>6 DEF Beside
  <2>8. R.prev[R.next[n]] = n BY <1>1, <1>2 DEF Beside
  <2>9. ASSUME NEW x \in more \cap R.live
        PROVE  /\ R.parent[x] = R.parent[first]
               /\ x # n => R.next[x] \in (more \cap R.live) \ {first}
               /\ x # first => R.prev[x] \in more \cap R.live
    <3>1. CASE x = n BY <2>3, <2>6, <2>7, <3>1
    <3>2. CASE x # n
      <4>1. x \in ran \cap R.live BY <3>2
      <4>2. CASE x = e BY <2>2, <2>4, <2>6, <4>1, <4>2 DEF Reaches
      <4>3. CASE x # e BY <2>2, <4>1, <4>3 DEF Reaches
      <4> QED BY <4>2, <4>3
    <3> QED BY <3>1, <3>2
  <2>10. R.next[n] # first => R.next[n] \notin more
    <3> SUFFICES ASSUME R.next[n] # first, R.next[n] \in more PROVE FALSE OBVIOUS
    <3>1. CASE R.next[n] = n
      <4>1. R.prev[n] = n BY <2>8, <3>1
      <4> QED BY <2>3, <2>5, <2>7, <4>1
    <3>2. CASE R.next[n] # n
      <4>1. R.next[n] \in ran \cap R.live BY <1>3, <3>2
      <4>2. R.prev[R.next[n]] \in ran BY <2>2, <4>1 DEF Reaches
      <4> QED BY <2>5, <2>8, <4>2
    <3> QED BY <3>1, <3>2
  <2> HIDE DEF more
  <2>11. n \in more \cap R.live BY DEF more
  <2>12. Reaches(R, n, first, more, n) BY <2>9, <2>10, <2>11 DEF Reaches
  <2> QED BY <2>1, <2>5, <2>12 DEF Headed
<1> QED BY <1>4, <1>5 DEF Entries

LEMMA RunningNext ==
    ASSUME Tree(reg), Running, RunNext
    PROVE  Running' /\ (walk'.a \in walk.ran => walk.spoilt)
<1> DEFINE n == reg.next[walk.a]
<1>1. /\ walk.on /\ walk.a \in reg.live \cup reg.husks /\ n # walk.first /\ n \in reg.live
      /\ walk' = [walk EXCEPT !.a = n, !.ran = @ \cup {n}, !.own = FALSE]
      /\ reg' = reg /\ up' = up
  BY DEF RunNext
<1>2. /\ Entries(reg, walk.a, walk.first, walk.ran)
      /\ ~ walk.spoilt => walk.first \in reg.live
  BY <1>1, GoingOn
<1> HIDE DEF n
<1>3. n = reg.next[walk.a] BY DEF n
<1>4. /\ Entries(reg, n, walk.first, walk.ran \cup {n})
      /\ walk.first \in reg.live => n \notin walk.ran
  BY <1>1, <1>2, <1>3, NextEntry
<1>5. n \in Keys /\ n \in Pointers BY <1>1, Fields DEF Tree, Pointers
<1>6. walk \in Walks /\ (~ up => ~ walk.on) BY DEF Running
<1>7. /\ walk' \in Walks /\ walk'.on /\ walk'.a = n /\ walk'.first = walk.first
      /\ walk'.ran = walk.ran \cup {n} /\ ~ walk'.own /\ walk'.spoilt = walk.spoilt
  BY <1>1, <1>5, <1>6 DEF Walks
<1> QED BY <1>1, <1>2, <1>4, <1>6, <1>7 DEF Running

(* A walk that ends while its last entry lives has been at every entry     *)
(* there is.                                                               *)
LEMMA OverIsAll ==
    ASSUME Tree(reg), Running, RunOver, ~ walk.own
    PROVE  Below(reg, reg.parent[walk.first]) \subseteq walk.ran
<1> DEFINE a == walk.a
           first == walk.first
           ran == walk.ran
           q == reg.parent[first]
           m == Ring(reg, q)
           P == ran \cap reg.live
<1>1. walk.on /\ a \in reg.live \cup reg.husks /\ reg.next[a] = first BY DEF RunOver
<1>2. Entries(reg, a, first, ran) /\ a \in reg.live BY <1>1, GoingOn
<1>3. Beside(reg) BY BesideIs
<1> HIDE DEF a, first, ran
<1>4. a \in reg.live \ {Root} /\ ran \subseteq (1 .. reg.used) \ {Root} BY <1>2 DEF Entries, Ranged
<1>5. first \in reg.live \ {Root} BY <1>1, <1>3, <1>4 DEF Beside
<1>6. Headed(reg, a, first, ran) BY <1>2, <1>5 DEF Entries
<1>7. PICK e : Reaches(reg, a, first, ran, e) BY <1>6 DEF Headed
<1>8. e = a /\ a \in P /\ first \in P BY <1>2, <1>5, <1>7 DEF Reaches, Entries, Ranged
<1>9. \A x \in P : reg.parent[x] = q /\ reg.next[x] \in P
  <2> SUFFICES ASSUME NEW x \in P PROVE reg.parent[x] = q /\ reg.next[x] \in P OBVIOUS
  <2>1. reg.parent[x] = q /\ (x # e => reg.next[x] \in P) BY <1>7 DEF Reaches
  <2> QED BY <1>1, <1>8, <2>1
<1>10. q \in reg.live /\ q \in Keys /\ reg \in Trees BY <1>3, <1>5 DEF Beside, Tree
<1>11. m.next = reg.next /\ RingOn(m, Below(reg, q), Keys)
  BY <1>10, RingMemory DEF Tree, Ringed
<1>12. P \subseteq Below(reg, q) /\ P # {} /\ P \subseteq ran BY <1>8, <1>9 DEF Below
<1> HIDE DEF P, m, q
<1>13. \A x \in P : m.next[x] \in P BY <1>9, <1>11
<1>14. P = Below(reg, q) BY <1>11, <1>12, <1>13, KeysFacts, RingCloses
<1>15. Below(reg, q) \subseteq ran BY <1>12, <1>14
<1> QED BY <1>15 DEF q, first, ran

(* It goes astray only from an entry that was deleted.                     *)
LEMMA AstrayIsOwn ==
    ASSUME Tree(reg), Running, RunAstray, ~ walk.own
    PROVE  FALSE
<1>1. walk.on BY DEF RunAstray
<1>2. Entries(reg, walk.a, walk.first, walk.ran) /\ walk.a \in reg.live BY <1>1 DEF Running
<1>3. walk.a # Root BY <1>2 DEF Entries, Ranged
<1>4. reg.next[walk.a] \in reg.live BY <1>2, <1>3, BesideIs DEF Beside
<1> QED BY <1>2, <1>4 DEF RunAstray

LEMMA RunningStep ==
    ASSUME Tree(reg), Running, [Next]_vars
    PROVE  Running'
<1>1. ASSUME NEW path \in Paths, NEW v \in Values \cup {Nothing}, KeySetData(path, v) PROVE Running'
  <2> DEFINE S == GetOrCreateKey(reg, path)
             N == [S.reg EXCEPT !.data[S.key] = v]
  <2>1. /\ up /\ up' = up /\ reg.used + Len(path) <= MaxKey /\ Become(N)
    BY <1>1 DEF KeySetData, Acts, Quiet
  <2>2. Tree(S.reg) BY <2>1, GetOrCreateTree
  <2>3. \A a, first, ran : Entries(reg, a, first, ran) => Entries(S.reg, a, first, ran)
    BY <2>1, EntriesGetOrCreate
  <2> HIDE DEF S
  <2>4. Refilled(S.reg, N) BY <2>2, DataRefills
  <2> HIDE DEF N
  <2>5. \A a, first, ran : Entries(reg, a, first, ran) => Entries(N, a, first, ran)
    BY <2>3, <2>4, EntriesRefilled
  <2> QED BY <2>1, <2>5, RunningOn
<1>2. ASSUME NEW path \in Paths, CreateKey(path) PROVE Running'
  <2> DEFINE S == GetOrCreateKey(reg, path)
  <2>1. /\ up /\ up' = up /\ reg.used + Len(path) <= MaxKey /\ Become(S.reg)
    BY <1>2 DEF CreateKey, Acts, Quiet
  <2>2. \A a, first, ran : Entries(reg, a, first, ran) => Entries(S.reg, a, first, ran)
    BY <2>1, EntriesGetOrCreate
  <2> HIDE DEF S
  <2> QED BY <2>1, <2>2, RunningOn
<1>3. ASSUME NEW dir \in Dirs, NEW n \in Names, NewKey(dir, n) PROVE Running'
  <2> DEFINE S == GetOrCreateKey(reg, dir)
             N == NewKeyEx(S.reg, S.key, n)
  <2>1. up /\ up' = up /\ reg.used + Len(dir) < MaxKey /\ Become(N) BY <1>3 DEF NewKey, Acts, Quiet
  <2>2. dir \in Paths /\ reg.used + Len(dir) <= MaxKey
    BY <2>1, Fields, KeysFacts, PathIs DEF Paths, Tree
  <2>3. Tree(S.reg) /\ Place(S.reg, S.key) /\ S.reg.used < MaxKey BY <2>1, Room
  <2>4. \A a, first, ran : Entries(reg, a, first, ran) => Entries(S.reg, a, first, ran)
    BY <2>2, EntriesGetOrCreate
  <2> HIDE DEF S
  <2>5. N = S.reg \/ Made(S.reg, N, S.key, n) BY <2>3, NewKeyTree
  <2> HIDE DEF N
  <2>6. \A a, first, ran : Entries(reg, a, first, ran) => Entries(N, a, first, ran)
    BY <2>3, <2>4, <2>5, EntriesMade
  <2> QED BY <2>1, <2>6, RunningOn
<1>4. ASSUME NEW path \in Paths, DeleteKeyNamed(path) PROVE Running'
  <2> DEFINE k == ResolveKey(reg, path)
             N == DeleteKey(reg, k)
  <2>1. up /\ up' = up /\ k # NULL /\ Become(N) BY <1>4 DEF DeleteKeyNamed, Acts, Quiet
  <2>2. Deleted(reg, N, k) BY <2>1, DeleteTree
  <2> HIDE DEF N, k
  <2>3. \A a, first, ran : Entries(reg, a, first, ran) => Entries(N, a, first, ran)
    BY <2>2, EntriesDeleted
  <2> QED BY <2>1, <2>3, RunningOn
<1>5. ASSUME NEW path \in Paths, NEW n \in Names, RenameKey(path, n) PROVE Running'
  <2> DEFINE k == ResolveKey(reg, path)
             N == [reg EXCEPT !.name[k] = n]
  <2>1. up /\ up' = up /\ Become(N) BY <1>5 DEF RenameKey, Acts, Quiet
  <2>2. N = [reg EXCEPT !.name[k] = n] OBVIOUS
  <2> HIDE DEF N, k
  <2>3. Refilled(reg, N) BY <2>2, NameRefills
  <2>4. \A a, first, ran : Entries(reg, a, first, ran) => Entries(N, a, first, ran)
    BY <2>3, EntriesRefilled
  <2> QED BY <2>1, <2>4, RunningOn
<1>6. CASE RegistryReLoad
  <2>1. /\ up /\ up' = up
        /\ walk' = IF walk.on THEN [walk EXCEPT !.own = TRUE, !.spoilt = TRUE, !.a = NULL] ELSE walk
    BY <1>6 DEF RegistryReLoad, Acts
  <2>2. walk \in Walks BY DEF Running
  <2>3. CASE ~ walk.on BY <2>1, <2>2, <2>3 DEF Running
  <2>4. CASE walk.on
    <3>1. walk' \in Walks /\ walk'.a = NULL /\ walk'.own /\ walk'.spoilt BY <2>1, <2>2, <2>4 DEF Walks, Pointers
    <3> QED BY <2>1, <3>1 DEF Running
  <2> QED BY <2>3, <2>4
<1>7. CASE Stop
  <2>1. walk' = NoWalk BY <1>7 DEF Stop
  <2>2. NoWalk \in Walks /\ ~ NoWalk.on BY DEF NoWalk, Walks, Pointers
  <2> QED BY <2>1, <2>2 DEF Running
<1>8. ASSUME NEW resetup \in BOOLEAN, Start(resetup) PROVE Running'
  BY <1>8 DEF Start, Running
<1>9. CASE RunEntries BY <1>9, RunningFirst
<1>10. CASE RunNext BY <1>10, RunningNext
<1>11. CASE RunOver
  <2>1. walk' = [walk EXCEPT !.on = FALSE] /\ walk \in Walks BY <1>11 DEF RunOver, Running
  <2>2. walk' \in Walks /\ ~ walk'.on BY <2>1 DEF Walks
  <2> QED BY <2>2 DEF Running
<1>12. CASE SaveBegin \/ SaveEnd \/ DiskFull \/ RunAstray \/ UNCHANGED vars
  <2>1. reg' = reg /\ walk' = walk /\ up' = up
    BY <1>12 DEF SaveBegin, SaveEnd, DiskFull, RunAstray, vars
  <2> QED BY <2>1 DEF Running
<1> QED BY <1>1, <1>2, <1>3, <1>4, <1>5, <1>6, <1>7, <1>8, <1>9, <1>10, <1>11, <1>12 DEF Next

-----------------------------------------------------------------------------
(* The inductive invariant: a tree in memory, one in the file, paths that  *)
(* lead somewhere, and a walk that is among the entries.                   *)
IInv == Tree(reg) /\ Kept /\ Led /\ Running

LEMMA InitIInv == Init => IInv
<1> SUFFICES ASSUME Init PROVE IInv OBVIOUS
<1>1. Tree(reg) BY DefaultTreeIs DEF Init
<1>2. Kept BY DEF Init, Kept
<1>3. Led BY DEF Init, Led, Nowhere, Pointers
<1>4. Running
  <2>1. walk = NoWalk BY DEF Init
  <2>2. NoWalk \in Walks /\ ~ NoWalk.on BY DEF NoWalk, Walks, Pointers
  <2> QED BY <2>1, <2>2 DEF Running
<1> QED BY <1>1, <1>2, <1>3, <1>4 DEF IInv

LEMMA NextIInv == IInv /\ [Next]_vars => IInv'
BY TreeStep, KeptStep, LedStep, RunningStep DEF IInv

LEMMA Inductive == Spec => []IInv
BY InitIInv, NextIInv, PTL DEF Spec

(* The registry in memory is a tree whose directories are rings, closed,   *)
(* doubly linked and ending at Last, whatever is made, deleted, renamed,   *)
(* saved and loaded (registry.c:150-460).                                  *)
THEOREM RegistryIsTree == Spec => []TreeOK
<1>1. ASSUME IInv PROVE TreeOK
  <2>1. Tree(reg) BY <1>1 DEF IInv
  <2>2. \A p \in reg.live :
           LET s == Kids(reg, p) IN
           /\ Range(s) = Below(reg, p) /\ Distinct(s)
           /\ Linked(Ring(reg, p), IF s = <<>> THEN s ELSE Append(Tail(s), Head(s)))
    BY <2>1, KidsAre
  <2>3. \A k \in reg.live \ {Root} : reg.parent[k] \in reg.live /\ reg.name[k] \in Names
    BY <2>1 DEF Tree, Rooted
  <2> QED BY <2>1, <2>2, <2>3 DEF TreeOK, Tree, Rooted
<1> QED BY <1>1, Inductive, PTL

(* A path leads to the key that it was set for until that key or its       *)
(* directory is deleted or renamed, or a second one fits a name of it; and *)
(* what was just set is found in any case (registry.c:148-174, 267-297).   *)
THEOREM PathsFound == Spec => []PathsLead
<1>1. ASSUME IInv PROVE PathsLead
  <2> SUFFICES ASSUME NEW p \in Paths, where[p] # NULL, p = just \/ ~ Ambiguous(reg, p)
               PROVE  ResolveKey(reg, p) = where[p]
    BY DEF PathsLead
  <2>1. Tree(reg) /\ Led BY <1>1 DEF IInv
  <2>2. CASE p = just
    <3>1. p # <<>> BY PathIs
    <3> QED BY <2>1, <2>2, <3>1 DEF Led
  <2>3. CASE p # just
    <3>1. Fits(reg, p, where[p]) BY <2>1 DEF Led
    <3> QED BY <2>1, <2>3, <3>1, FitsResolves
  <2> QED BY <2>2, <2>3
<1> QED BY <1>1, Inductive, PTL

(* Whatever tree was saved, loading it brings back every name, its data    *)
(* and their order; and a file whose save did not come to its end is read  *)
(* as if it were whole (registry.c:41-88 and 130-145).                     *)
THEOREM SavedIsLoaded == Spec => RestartAsSaved
<1> DEFINE Restarts(resetup) == RegistryReLoad \/ (Start(resetup) /\ Exists /\ ~ resetup)
<1>1. ASSUME IInv, [Next]_vars, NEW resetup \in BOOLEAN, Restarts(resetup)
      PROVE  IF torn THEN wild' ELSE Contents(reg') = saved
  <2>1. Exists /\ Load BY <1>1 DEF RegistryReLoad, Start
  <2>2. Tree(reg) /\ Kept BY <1>1 DEF IInv
  <2>3. ~ torn => Contents(reg') = saved BY <2>1, <2>2, LoadTree
  <2>4. torn => wild' BY <2>1 DEF Load
  <2> QED BY <2>3, <2>4
<1>2. IInv /\ [Next]_vars =>
         [ \A resetup \in BOOLEAN :
             (RegistryReLoad \/ (Start(resetup) /\ Exists /\ ~ resetup)) =>
                IF torn THEN wild' ELSE Contents(reg') = saved ]_vars
  BY <1>1
<1> QED BY <1>2, Inductive, PTL DEF Spec, RestartAsSaved

(* Every startup entry is run, and none twice, whatever the programs do to *)
(* the registry, unless they delete the first entry; and the walk goes     *)
(* astray only if an entry was deleted that it was at (registry.c:446-460).*)
THEOREM EntriesRun == Spec => EntriesRunOnce
<1> DEFINE Walking == /\ RunNext /\ walk'.a \in walk.ran => walk.spoilt
                      /\ RunAstray => walk.own \/ walk.spoilt
                      /\ RunOver /\ ~ walk.own =>
                            Below(reg, reg.parent[walk.first]) \subseteq walk.ran
<1>1. ASSUME IInv PROVE Walking
  <2>1. Tree(reg) /\ Running BY <1>1 DEF IInv
  <2>2. RunNext /\ walk'.a \in walk.ran => walk.spoilt BY <2>1, RunningNext
  <2>3. RunAstray => walk.own \/ walk.spoilt BY <2>1, AstrayIsOwn
  <2>4. RunOver /\ ~ walk.own => Below(reg, reg.parent[walk.first]) \subseteq walk.ran
    BY <2>1, OverIsAll
  <2> QED BY <2>2, <2>3, <2>4
<1>2. IInv => [Walking]_vars BY <1>1
<1> QED BY <1>2, Inductive, PTL DEF EntriesRunOnce
=============================================================================
