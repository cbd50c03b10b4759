---------------------------- MODULE DynLdProofs -----------------------------
(***************************************************************************)
(* The loader for any number of blocks, files and calls: Applications, the *)
(* stack of DynLdRunEx, and the counts of libraries agree, and what is     *)
(* linked to stays.                                                        *)
(***************************************************************************)
EXTENDS DynLd, SequenceTheorems, FiniteSetTheorems, WellFoundedInduction, TLAPS

Listed == {"starting", "running", "tofree"}

Distinct(s) == \A i, j \in 1 .. Len(s) : s[i] = s[j] => i = j

InList(S, l) == \E c \in Range(S.apps) : S.app[c].file = l

-----------------------------------------------------------------------------
(* Induction over the naturals, for a set. *)
LEMMA SetInduction ==
    ASSUME NEW A, 0 \in A, \A n \in Nat : n \in A => n + 1 \in A
    PROVE  Nat \subseteq A
<1> DEFINE R == {p \in Nat \X Nat : p[1] < p[2]}
           T == Nat \ A
<1>1. IsWellFoundedOn(R, Nat) BY NatLessThanWellFounded DEF OpToRel
<1>2. SUFFICES ASSUME T # {} PROVE FALSE BY Zenon
<1>3. PICK x \in T : \A y \in T : ~ (<<y, x>> \in R)
  <2>1. T \subseteq Nat OBVIOUS
  <2> HIDE DEF T, R
  <2> QED BY <1>1, <1>2, <2>1, WFMin, Zenon
<1>4. \A y \in T : ~ (y < x) BY <1>3
<1>5. x # 0 /\ x - 1 \in Nat /\ x - 1 < x OBVIOUS
<1>6. x - 1 \in A BY <1>4, <1>5
<1> QED BY <1>5, <1>6

(* A set of positions that is not empty has a least one. *)
LEMMA Least ==
    ASSUME NEW D, D \subseteq Nat, D # {}
    PROVE  (CHOOSE k \in D : \A j \in D : k <= j) \in D
<1> DEFINE A == {n \in Nat : \A k \in D : n <= k}
<1>1. SUFFICES \E k \in D : \A j \in D : k <= j
  <2> DEFINE P(k) == k \in D /\ \A j \in D : k <= j
  <2>1. P(CHOOSE k : P(k)) BY <1>1 
  <2> QED BY <2>1
<1>2. SUFFICES ASSUME ~ (\E k \in D : \A j \in D : k <= j) PROVE FALSE OBVIOUS
<1>3. 0 \in A OBVIOUS
<1>4. ASSUME NEW n \in Nat, n \in A PROVE n + 1 \in A
  <2>1. \A k \in D : n <= k BY <1>4
  <2>2. n \notin D BY <1>2, <2>1
  <2>3. \A k \in D : k \in Nat /\ k # n BY <2>2
  <2>4. \A k \in D : n + 1 <= k BY <2>1, <2>3
  <2> QED BY <2>4
<1>5. Nat \subseteq A
  <2> HIDE DEF A
  <2> QED BY <1>3, <1>4, SetInduction
<1>6. PICK k \in D : TRUE OBVIOUS
<1>7. k \in Nat /\ k + 1 \in A BY <1>5
<1> QED BY <1>7

LEMMA Prefix ==
    ASSUME NEW T, NEW s \in Seq(T), NEW n \in Int, n <= Len(s)
    PROVE  /\ SubSeq(s, 1, n) \in Seq(T) /\ Len(SubSeq(s, 1, n)) = (IF 1 <= n THEN n ELSE 0)
           /\ \A i \in 1 .. n : SubSeq(s, 1, n)[i] = s[i]
<1>1. \A i \in 1 .. n : s[i] \in T BY LenProperties
<1>2. /\ SubSeq(s, 1, n) \in Seq(T)
      /\ Len(SubSeq(s, 1, n)) = IF 1 <= n THEN n - 1 + 1 ELSE 0
      /\ \A i \in 1 .. n - 1 + 1 : SubSeq(s, 1, n)[i] = s[1 + i - 1]
  BY <1>1, SubSeqProperties
<1>3. \A i \in 1 .. n : i \in 1 .. n - 1 + 1 /\ 1 + i - 1 = i OBVIOUS
<1> QED BY <1>2, <1>3

(* Without, as its recursion says. *)
Keeps(s, rm, w) ==
    /\ w[0] = <<>>
    /\ \A k \in 1 .. Len(s) : w[k] = IF s[k] \in rm THEN w[k - 1] ELSE Append(w[k - 1], s[k])

LEMMA WithoutDef ==
    ASSUME NEW s, Len(s) \in Nat, NEW rm
    PROVE  \E w : Keeps(s, rm, w) /\ Without(s, rm) = w[Len(s)]
<1> DEFINE val(w, k) == IF k = 0 THEN <<>>
                        ELSE IF s[k] \in rm THEN w[k - 1] ELSE Append(w[k - 1], s[k])
           Def(n, w) == w = [k \in 0 .. n |-> val(w, k)]
           A == {n \in Nat : \E w : Def(n, w)}
           f == CHOOSE w : Def(Len(s), w)
<1>1. Without(s, rm) = f[Len(s)] BY Zenon DEF Without
<1>2. 0 \in A
  <2>1. Def(0, [k \in 0 .. 0 |-> <<>>]) OBVIOUS
  <2> HIDE DEF Def
  <2> QED BY <2>1
<1>3. ASSUME NEW n \in Nat, n \in A PROVE n + 1 \in A
  <2>1. PICK w : Def(n, w) BY <1>3
  <2> DEFINE v == [k \in 0 .. (n + 1) |-> IF k = n + 1 THEN val(w, n + 1) ELSE w[k]]
  <2>2. \A k \in 0 .. n : w[k] = val(w, k) BY <2>1
  <2>3. ASSUME NEW k \in 0 .. (n + 1) PROVE v[k] = val(v, k)
    <3>1. k = 0 \/ k - 1 \in 0 .. n OBVIOUS
    <3>2. \A j \in 0 .. n : v[j] = w[j] OBVIOUS
    <3>3. v[k] = val(w, k)
      <4>1. CASE k = n + 1 BY <4>1
      <4>2. CASE k # n + 1
        <5>1. k \in 0 .. n BY <4>2
        <5> HIDE DEF val, v
        <5> QED BY <2>2, <3>2, <5>1
      <4> QED BY <4>1, <4>2
    <3> HIDE DEF v
    <3> QED BY <3>1, <3>2, <3>3
  <2> HIDE DEF val
  <2>4. Def(n + 1, v) BY <2>3
  <2> HIDE DEF Def, v
  <2> QED BY <2>4
<1>4. Nat \subseteq A
  <2> HIDE DEF A
  <2> QED BY <1>2, <1>3, SetInduction
<1>5. Def(Len(s), f)
  <2>1. \E w : Def(Len(s), w) BY <1>4
  <2> HIDE DEF Def
  <2> QED BY <2>1, Zenon
<1> HIDE DEF f
<1>6. \A k \in 0 .. Len(s) : f[k] = val(f, k) BY <1>5
<1>7. Keeps(s, rm, f) BY <1>6 DEF Keeps
<1> QED BY <1>1, <1>7

(* What is left keeps its order, as far as Last is concerned. *)
LastLeft(s, rm, i) == s[i] \notin rm /\ \A k \in (i + 1) .. Len(s) : s[k] \in rm

Thinned(s, rm, t) ==
    /\ t \in Seq(Blocks) /\ Distinct(t) /\ Range(t) = Range(s) \ rm
    /\ \A i \in 1 .. Len(s) : LastLeft(s, rm, i) => Last(t) = s[i]

LEMMA WithoutThins ==
    ASSUME NEW s \in Seq(Blocks), Distinct(s), NEW rm
    PROVE  Thinned(s, rm, Without(s, rm))
<1>0. Len(s) \in Nat /\ \A k \in 1 .. Len(s) : s[k] \in Blocks BY LenProperties
<1>1. PICK w : Keeps(s, rm, w) /\ Without(s, rm) = w[Len(s)] BY <1>0, WithoutDef
<1> DEFINE Part(k, t) == /\ t \in Seq(Blocks) /\ Distinct(t)
                         /\ Range(t) = {s[i] : i \in 1 .. k} \ rm
                         /\ \A i \in 1 .. k :
                               s[i] \notin rm /\ (\A j \in (i + 1) .. k : s[j] \in rm)
                                  => t[Len(t)] = s[i]
           A == {k \in Nat : k <= Len(s) => Part(k, w[k])}
<1>2. 0 \in A
  <2>1. w[0] = <<>> BY <1>1 DEF Keeps
  <2>2. << >> \in Seq(Blocks) /\ Distinct(<< >>) BY DEF Distinct
  <2>3. Range(<< >>) = {} BY DEF Range
  <2>4. {s[i] : i \in 1 .. 0} = {} OBVIOUS
  <2> QED BY <2>1, <2>2, <2>3, <2>4
<1>3. ASSUME NEW k \in Nat, k \in A PROVE k + 1 \in A
  <2> SUFFICES ASSUME k + 1 <= Len(s) PROVE Part(k + 1, w[k + 1]) OBVIOUS
  <2> DEFINE t == w[k]
  <2>0. k + 1 \in 1 .. Len(s) /\ (k + 1) - 1 = k BY <1>0
  <2>1. Part(k, t) BY <1>0, <1>3
  <2>2. w[k + 1] = IF s[k + 1] \in rm THEN t ELSE Append(t, s[k + 1]) BY <1>1, <2>0 DEF Keeps
  <2>3. {s[i] : i \in 1 .. (k + 1)} = {s[i] : i \in 1 .. k} \cup {s[k + 1]} BY <2>0
  <2> HIDE DEF t
  <2>4. CASE s[k + 1] \in rm
    <3>1. ASSUME NEW i \in 1 .. (k + 1), s[i] \notin rm, \A j \in (i + 1) .. (k + 1) : s[j] \in rm
          PROVE  t[Len(t)] = s[i]
      <4>1. i # k + 1 BY <2>4, <3>1
      <4>2. i \in 1 .. k /\ \A j \in (i + 1) .. k : j \in (i + 1) .. (k + 1) BY <4>1
      <4> QED BY <2>1, <3>1, <4>2
    <3> QED BY <2>1, <2>2, <2>3, <2>4, <3>1
  <2>5. CASE s[k + 1] \notin rm
    <3> DEFINE x == s[k + 1]  u == Append(t, x)
    <3>1. t \in Seq(Blocks) /\ x \in Blocks BY <1>0, <2>0, <2>1
    <3>2. /\ u \in Seq(Blocks) /\ Len(u) = Len(t) + 1 /\ Len(t) \in Nat
          /\ u[Len(t) + 1] = x /\ \A i \in 1 .. Len(t) : u[i] = t[i]
          /\ DOMAIN u = 1 .. (Len(t) + 1) /\ DOMAIN t = 1 .. Len(t)
      BY <3>1, AppendProperties, LenProperties
    <3>3. Range(u) = Range(t) \cup {x} BY <3>2 DEF Range
    <3>4. x \notin Range(t)
      <4>1. \A i \in 1 .. k : i \in 1 .. Len(s) /\ i # k + 1 BY <1>0, <2>0
      <4> QED BY <2>1, <4>1, <2>0 DEF Distinct
    <3>5. \A i \in 1 .. Len(t) : t[i] # x BY <3>2, <3>4 DEF Range
    <3>6. Distinct(u) BY <2>1, <3>2, <3>5 DEF Distinct
    <3>7. ASSUME NEW i \in 1 .. (k + 1), s[i] \notin rm, \A j \in (i + 1) .. (k + 1) : s[j] \in rm
          PROVE  u[Len(u)] = s[i]
      <4>1. i = k + 1
        <5>1. SUFFICES ASSUME i # k + 1 PROVE FALSE OBVIOUS
        <5>2. k + 1 \in (i + 1) .. (k + 1) BY <5>1
        <5> QED BY <2>5, <3>7, <5>2
      <4> QED BY <3>2, <4>1
    <3>8. Range(u) = {s[i] : i \in 1 .. (k + 1)} \ rm BY <2>1, <2>3, <2>5, <3>3
    <3> QED BY <2>2, <2>5, <3>2, <3>6, <3>7, <3>8
  <2> QED BY <2>4, <2>5
<1>4. Nat \subseteq A
  <2> HIDE DEF A
  <2> QED BY <1>2, <1>3, SetInduction
<1>5. Part(Len(s), Without(s, rm))
  <2>1. Len(s) \in A BY <1>0, <1>4
  <2> HIDE DEF Part
  <2> QED BY <1>0, <1>1, <2>1
<1>6. Range(s) = {s[i] : i \in 1 .. Len(s)} BY LenProperties DEF Range
<1>7. ASSUME NEW i \in 1 .. Len(s), LastLeft(s, rm, i) PROVE Last(Without(s, rm)) = s[i]
  BY <1>5, <1>7 DEF LastLeft, Last
<1> QED BY <1>5, <1>6, <1>7 DEF Thinned

-----------------------------------------------------------------------------
(* The blocks and the list.  A Host may be left behind, but it never leads *)
(* to one that is hosted.                                                  *)
Shape(S) ==
    /\ Distinct(S.apps)
    /\ \A b \in Blocks :
          /\ b \in Range(S.apps) <=> S.app[b].state \in Listed
          /\ IF S.app[b].state = "free" THEN S.app[b] = Blank ELSE S.app[b].file \in Files
          /\ S.app[b].file \in Libs => S.app[b].host = NULL
          /\ S.app[b].host # NULL => S.app[b].host # b /\ S.app[S.app[b].host].host = NULL
    /\ \A b, c \in Range(S.apps) : S.app[b].file \in Libs /\ S.app[b].file = S.app[c].file => b = c

(* A symbol that somebody owns leads to the library of its name, running.  *)
Symbols(S) ==
    \A l \in Libs :
       IF l \in Anonymous \/ S.sym[l].at = NULL THEN S.sym[l].own = NULL
       ELSE /\ S.sym[l].own = S.sym[l].at
            /\ S.app[S.sym[l].at].state = "running" /\ S.app[S.sym[l].at].file = l

(* The loads that are counted and not released: the i-th of Libs of what   *)
(* is in block b, which is library l.                                      *)
Loads(S, st, r) ==
    {p \in Blocks \X Nat \X Libs :
       LET f == S.app[p[1]].file IN
       /\ S.app[p[1]].state # "free"
       /\ p[2] \in 1 .. Len(Needs[f]) /\ p[3] = Needs[f][p[2]]
       /\ \A k \in 1 .. Len(st) :
             st[k].b = p[1] /\ st[k].pc = "libs" =>
                p[2] < st[k].i \/ (p[2] = st[k].i /\ k = Len(st) /\ r = "ok")}

Of(P, l) == {p \in P : p[3] = l}

(* Every load in P is counted, unless its library is in late.              *)
Covered(S, P) ==
    \A l \in Libs \ late :
       /\ Of(P, l) # {} \/ direct[l] > 0 =>
             \E c \in Blocks : S.app[c].file = l /\ S.app[c].state = "running"
       /\ \A c \in Blocks :
             S.app[c].file = l /\ S.app[c].state = "running"
                => S.app[c].users >= Cardinality(Of(P, l)) + direct[l]

Good(S, P) == S \in Systems /\ Shape(S) /\ Symbols(S) /\ Covered(S, P)

FileAt(S, st, k) == S.app[st[k].b].file

(* What every frame says of its block. *)
Frame(S, st, k) ==
    /\ st[k].pc = "libs" =>
          /\ ~ st[k].gone /\ S.app[st[k].b].state = "loading"
          /\ st[k].i \in 1 .. Len(Needs[FileAt(S, st, k)]) + 1
          /\ FileAt(S, st, k) \in Libs => ~ InList(S, FileAt(S, st, k))
          /\ \A i \in 1 .. st[k].i - 1 : InList(S, Needs[FileAt(S, st, k)][i])
    /\ st[k].pc = "main" /\ ~ st[k].gone =>
          S.app[st[k].b].state \in Listed /\ (k < Len(st) => FileAt(S, st, k) \notin Libs)

(* While a frame is in its libraries, those inside it are libraries: the   *)
(* one next to it is what it waits for, and only the innermost may be in   *)
(* Main, and is not what a frame has loaded before.                        *)
Nested(S, st, j, k) ==
    st[j].pc = "libs" /\ j < k =>
       /\ FileAt(S, st, k) \in Libs /\ ~ st[k].gone /\ st[k].b # st[j].b
       /\ k = j + 1 => st[j].i <= Len(Needs[FileAt(S, st, j)])
                       /\ Needs[FileAt(S, st, j)][st[j].i] = FileAt(S, st, k)
       /\ st[k].pc = "main" =>
             /\ k = Len(st)
             /\ \A i \in 1 .. st[j].i - 1 : Needs[FileAt(S, st, j)][i] # FileAt(S, st, k)

(* A library is in its Main exactly as long as it is starting, innermost.  *)
Starting(S, st) ==
    /\ \A b \in Blocks : S.app[b].file \in Libs /\ S.app[b].state = "starting" =>
          st # <<>> /\ st[Len(st)].b = b /\ st[Len(st)].pc = "main" /\ ~ st[Len(st)].gone
    /\ st # <<>> /\ st[Len(st)].pc = "main" /\ ~ st[Len(st)].gone /\ FileAt(S, st, Len(st)) \in Libs =>
          S.app[st[Len(st)].b].state = "starting"

(* What is being loaded has a frame, and its Host is there. *)
LoadingOne(S, st, b) ==
    S.app[b].state = "loading" =>
       /\ \E k \in 1 .. Len(st) : st[k].b = b /\ st[k].pc = "libs"
       /\ S.app[b].host # NULL =>
             /\ S.app[S.app[b].host].state \in {"starting", "running"}
             /\ S.app[S.app[b].host].file \notin Libs

Framed(S, st) ==
    /\ \A k \in 1 .. Len(st) : Frame(S, st, k)
    /\ \A j, k \in 1 .. Len(st) : Nested(S, st, j, k)
    /\ Starting(S, st)
    /\ \A b \in Blocks : LoadingOne(S, st, b)

(* A LoadLibrary that has answered. *)
Answered(S, st, r) ==
    /\ r \in {"ok", "null"} => st # <<>> /\ st[Len(st)].pc = "libs"
                               /\ st[Len(st)].i <= Len(Needs[FileAt(S, st, Len(st))])
    /\ r = "ok" => InList(S, Needs[FileAt(S, st, Len(st))][st[Len(st)].i])
    /\ r = "down" => st = <<>> /\ S.apps = <<>> /\ \A b \in Blocks : S.app[b] = Blank

(* A file all of whose imports are counted for it. *)
Clean(f) == \A l \in Imports[f] : l \notin late \cup Anonymous /\ l \in Range(Needs[f])

LinkedTo(S, lk, dg) ==
    \A b \in Blocks :
       /\ S.app[b].state \in {"free", "loading"} => lk[b] = {} /\ b \notin dg
       /\ S.app[b].state \in Listed /\ Clean(S.app[b].file) =>
             /\ b \notin dg
             /\ \A c \in lk[b] : /\ S.app[c].state = "running"
                                 /\ S.app[c].file \in Imports[S.app[b].file]

IInv ==
    /\ TypeOK
    /\ Shape(ld) /\ Symbols(ld)
    /\ Framed(ld, stack) /\ Answered(ld, stack, ret)
    /\ ret # "down" => Covered(ld, Loads(ld, stack, ret)) /\ LinkedTo(ld, links, dangling)

(* What a step does to those hosted by what it closes: see HostedFreedWithHost. *)
Evicting ==
    \A b, x \in Blocks :
       ( /\ ld.app[b].state \in {"starting", "running"}
         /\ ld'.app[b].state \in {"tofree", "free"}
         /\ ld.app[x].host = b )
       => \/ ld'.app[x].state = "free"
          \/ /\ x = Last(ld'.apps)
             /\ \E y \in Blocks \ {x} : ld.app[y].host = b /\ ld'.app[y].state = "free"

-----------------------------------------------------------------------------
(* What the operations of the loader do to the blocks and the list. *)
LEMMA Constants ==
    /\ NULL \notin Blocks /\ NULL \notin Files /\ NULL \notin Libs /\ Libs \subseteq Files
    /\ Word \in Nat /\ Word > 1 /\ MaxFrames \in Nat /\ MaxOps \in Nat
    /\ Needs \in [Files -> Seq(Libs)]
BY DynLdAssumption

LEMMA BlankIs ==
    /\ Blank \in AppRecords
    /\ Blank.state = "free" /\ Blank.file = NULL /\ Blank.host = NULL
BY Constants DEF Blank, AppRecords

(* The walk of a list misses only what is Last when Last has been removed. *)
LEMMA VisitedMisses ==
    ASSUME NEW s \in Seq(Blocks), NEW rm
    PROVE  /\ Range(Visited(s, rm)) \subseteq Range(s)
           /\ \A i \in 1 .. Len(s) : s[i] \notin Range(Visited(s, rm)) =>
                 i = Len(s) - 1 /\ s[Len(s)] \in rm /\ s[Len(s)] \in Range(Visited(s, rm))
<1>0. Len(s) \in Nat /\ \A k \in 1 .. Len(s) : s[k] \in Blocks BY LenProperties
<1>1. Range(s) = {s[i] : i \in 1 .. Len(s)} BY LenProperties DEF Range
<1>2. CASE s = <<>>
  <2>1. Visited(s, rm) = s BY <1>2 DEF Visited, FromLast
  <2> QED BY <1>2, <2>1
<1>3. CASE s # <<>>
  <2> DEFINE n == Len(s)  x == s[n]  u == SubSeq(s, 1, n - 1)  v == SubSeq(s, 1, n - 2)
  <2>0. n \in Nat \ {0} /\ x \in Blocks BY <1>0, <1>3
  <2>1. u \in Seq(Blocks) /\ Len(u) = n - 1 /\ \A i \in 1 .. (n - 1) : u[i] = s[i]
    <3>1. n - 1 \in Int /\ n - 1 <= Len(s) BY <2>0
    <3>2. /\ u \in Seq(Blocks) /\ Len(u) = (IF 1 <= n - 1 THEN n - 1 ELSE 0)
          /\ \A i \in 1 .. (n - 1) : u[i] = s[i]
      BY <3>1, Prefix
    <3> HIDE DEF u, n
    <3>3. (IF 1 <= n - 1 THEN n - 1 ELSE 0) = n - 1 BY <2>0
    <3> QED BY <3>2, <3>3
  <2>2. ASSUME NEW w \in Seq(Blocks), Visited(s, rm) = <<x>> \o w
        PROVE  Range(Visited(s, rm)) = {x} \cup {w[i] : i \in 1 .. Len(w)}
    <3>1. /\ Len(<<x>> \o w) = Len(w) + 1 /\ Len(w) \in Nat
          /\ (<<x>> \o w)[1] = x /\ \A i \in 1 .. Len(w) : (<<x>> \o w)[i + 1] = w[i]
          /\ DOMAIN (<<x>> \o w) = 1 .. (Len(w) + 1)
      BY <2>0
    <3> DEFINE z == <<x>> \o w
    <3>2. Range(z) = {z[i] : i \in 1 .. (Len(w) + 1)} BY <3>1 DEF Range
    <3> HIDE DEF z
    <3>3. z[1] = x /\ \A i \in 1 .. Len(w) : z[i + 1] = w[i] BY <3>1 DEF z
    <3>4. Range(z) \subseteq {x} \cup {w[i] : i \in 1 .. Len(w)}
      <4>1. ASSUME NEW i \in 1 .. (Len(w) + 1) PROVE z[i] \in {x} \cup {w[j] : j \in 1 .. Len(w)}
        <5>1. CASE i = 1 BY <3>3, <5>1
        <5>2. CASE i # 1
          <6>1. i - 1 \in 1 .. Len(w) /\ (i - 1) + 1 = i BY <5>2, <3>1
          <6> QED BY <3>3, <6>1
        <5> QED BY <5>1, <5>2
      <4> QED BY <3>2, <4>1
    <3>5. {x} \cup {w[i] : i \in 1 .. Len(w)} \subseteq Range(z)
      <4>1. 1 \in 1 .. (Len(w) + 1) /\ \A i \in 1 .. Len(w) : i + 1 \in 1 .. (Len(w) + 1) BY <3>1
      <4> QED BY <3>2, <3>3, <4>1
    <3> QED BY <2>2, <3>4, <3>5 DEF z
  <2>3. CASE x \in rm
    <3>0. n - 2 \in Int /\ n - 2 <= Len(s) BY <2>0
    <3>1. v \in Seq(Blocks) /\ Len(v) = (IF 1 <= n - 2 THEN n - 2 ELSE 0)
          /\ \A i \in 1 .. (n - 2) : v[i] = s[i]
      BY <3>0, Prefix
    <3>2. Visited(s, rm) = <<x>> \o v BY <1>3, <2>3 DEF Visited, Last
    <3>3. Range(Visited(s, rm)) = {x} \cup {v[i] : i \in 1 .. Len(v)} BY <3>1, <3>2, <2>2
    <3>4. {v[i] : i \in 1 .. Len(v)} = {s[i] : i \in 1 .. (n - 2)}
      <4> HIDE DEF v
      <4>1. ASSUME NEW i \in Int PROVE i \in 1 .. Len(v) <=> i \in 1 .. (n - 2) BY <3>1, <2>0
      <4> QED BY <3>1, <4>1
    <3> HIDE DEF v
    <3>5. Range(Visited(s, rm)) = {x} \cup {s[i] : i \in 1 .. (n - 2)} BY <3>3, <3>4
    <3> QED BY <1>1, <2>0, <2>3, <3>5
  <2>4. CASE x \notin rm
    <3>1. Visited(s, rm) = <<x>> \o u BY <1>3, <2>4 DEF Visited, FromLast, Last, Front
    <3>2. Range(Visited(s, rm)) = {x} \cup {u[i] : i \in 1 .. Len(u)} BY <2>1, <2>2, <3>1
    <3>3. {u[i] : i \in 1 .. Len(u)} = {s[i] : i \in 1 .. (n - 1)} BY <2>1
    <3> HIDE DEF u
    <3>4. Range(Visited(s, rm)) = {x} \cup {s[i] : i \in 1 .. (n - 1)} BY <3>2, <3>3
    <3> QED BY <1>1, <2>0, <3>4
  <2> QED BY <2>3, <2>4
<1> QED BY <1>2, <1>3

(* T is what is left of S when some blocks have been freed, those in the   *)
(* list removed.                                                           *)
FreedBlocks(S, T, out) ==
    /\ T.sym = S.sym /\ Thinned(S.apps, out, T.apps)
    /\ T.app = [x \in Blocks |-> IF x \in out THEN Blank ELSE S.app[x]]

LEMMA FreedShape ==
    ASSUME NEW S \in Systems, Shape(S), NEW T \in Systems, NEW out, FreedBlocks(S, T, out)
    PROVE  Shape(T)
<1>1. /\ Distinct(T.apps) /\ Range(T.apps) = Range(S.apps) \ out
      /\ \A x \in Blocks : T.app[x] = IF x \in out THEN Blank ELSE S.app[x]
  BY DEF FreedBlocks, Thinned
<1>2. Range(S.apps) \subseteq Blocks
  <2>1. S.apps \in Seq(Blocks) BY DEF Systems
  <2> QED BY <2>1, LenProperties DEF Range
<1>3. ASSUME NEW b \in Blocks
      PROVE /\ b \in Range(T.apps) <=> T.app[b].state \in Listed
            /\ IF T.app[b].state = "free" THEN T.app[b] = Blank ELSE T.app[b].file \in Files
            /\ T.app[b].file \in Libs => T.app[b].host = NULL
            /\ T.app[b].host # NULL => T.app[b].host # b /\ T.app[T.app[b].host].host = NULL
  <2>1. CASE b \in out BY <1>1, <2>1, BlankIs, Constants DEF Listed
  <2>2. CASE b \notin out
    <3>1. T.app[b] = S.app[b] BY <1>1, <2>2
    <3>2. S.app[b].host \in Blocks \cup {NULL} BY DEF Systems, AppRecords
    <3>3. S.app[b].host # NULL => T.app[S.app[b].host].host = NULL
      <4> SUFFICES ASSUME S.app[b].host # NULL PROVE T.app[S.app[b].host].host = NULL OBVIOUS
      <4>1. S.app[b].host \in Blocks /\ S.app[S.app[b].host].host = NULL BY <3>2 DEF Shape
      <4> QED BY <4>1, <1>1, BlankIs
    <3> QED BY <1>1, <2>2, <3>1, <3>3 DEF Shape
  <2> QED BY <2>1, <2>2
<1>4. ASSUME NEW b \in Range(T.apps), NEW c \in Range(T.apps),
             T.app[b].file \in Libs, T.app[b].file = T.app[c].file
      PROVE  b = c
  BY <1>1, <1>2, <1>4 DEF Shape
<1> QED BY <1>1, <1>3, <1>4 DEF Shape

LEMMA FreedIs ==
    ASSUME NEW S \in Systems, Shape(S), NEW b \in Blocks
    PROVE  Freed(S, b) \in Systems /\ FreedBlocks(S, Freed(S, b), {b})
<1>1. S.apps \in Seq(Blocks) /\ S.app \in [Blocks -> AppRecords] BY DEF Systems
<1>2. Distinct(S.apps) BY DEF Shape
<1> DEFINE t == Without(S.apps, {b})
<1>3. Thinned(S.apps, {b}, t) BY <1>1, <1>2, WithoutThins
<1>4. Freed(S, b) = [S EXCEPT !.apps = t, !.app[b] = Blank] BY DEF Freed
<1>5. t \in Seq(Blocks) BY <1>3 DEF Thinned
<1> HIDE DEF t
<1>6. Blank \in AppRecords BY BlankIs
<1>7. Freed(S, b) \in Systems
  <2>1. Freed(S, b) = [apps |-> t, app |-> [S.app EXCEPT ![b] = Blank], sym |-> S.sym]
    BY <1>4 DEF Systems
  <2>2. [S.app EXCEPT ![b] = Blank] \in [Blocks -> AppRecords] BY <1>1, <1>6
  <2> QED BY <1>5, <2>1, <2>2 DEF Systems
<1>8. /\ Freed(S, b).apps = t /\ Freed(S, b).sym = S.sym
      /\ Freed(S, b).app = [x \in Blocks |-> IF x \in {b} THEN Blank ELSE S.app[x]]
  BY <1>1, <1>4 DEF Systems
<1> QED BY <1>3, <1>7, <1>8 DEF FreedBlocks

(* What T keeps of S: out are the blocks that were closed or freed besides *)
(* the libraries that were closed and the hosted that were freed.          *)
Wanes(S, T, out) ==
    \A x \in Blocks :
       \/ T.app[x].state = "free" /\ (x \in out \/ (S.app[x].host # NULL /\ S.app[x].state \in Listed))
       \/ /\ T.app[x].file = S.app[x].file /\ T.app[x].host = S.app[x].host
          /\ \/ T.app[x].state = S.app[x].state
             \/ /\ T.app[x].state = "tofree" /\ S.app[x].state \in Listed
                /\ x \in out \/ S.app[x].file \in Libs

(* What was Last is Last as long as it is in the list. *)
KeepsLast(S, T) == \A x \in Range(T.apps) : x = Last(S.apps) => x = Last(T.apps)

(* Those that are in the list and hosted by what was closed are freed, but *)
(* for one.                                                                *)
Evicted(S, T, b, x) ==
    \/ T.app[x].state = "free"
    \/ /\ x = Last(T.apps)
       /\ \E y \in Blocks \ {x} : S.app[y].host = b /\ T.app[y].state = "free"

Evicts(S, T) ==
    \A b, x \in Blocks :
       ( /\ S.app[b].state \in {"starting", "running"} /\ T.app[b].state \in {"tofree", "free"}
         /\ S.app[x].host = b /\ S.app[x].state # "loading" /\ S.app[b].host = NULL )
       => Evicted(S, T, b, x)

Shrunk(S, T, out) == Wanes(S, T, out) /\ KeepsLast(S, T) /\ Evicts(S, T)

LEMMA ShrunkItself == ASSUME NEW S, NEW out PROVE Shrunk(S, S, out)
BY DEF Shrunk, Wanes, KeepsLast, Evicts

LEMMA ListIs ==
    ASSUME NEW S \in Systems, Shape(S)
    PROVE  /\ S.apps \in Seq(Blocks) /\ Distinct(S.apps) /\ Range(S.apps) \subseteq Blocks
           /\ S.app \in [Blocks -> AppRecords]
           /\ \A b \in Blocks : /\ b \in Range(S.apps) <=> S.app[b].state \in Listed
                                /\ S.app[b].state \in {"free", "loading"} \cup Listed
                                /\ S.app[b].state = "free" => S.app[b] = Blank
                                /\ S.app[b].host \in Blocks \cup {NULL}
                                /\ S.app[b].host # NULL => S.app[b].state # "free"
<1>1. S.apps \in Seq(Blocks) /\ S.app \in [Blocks -> AppRecords] BY DEF Systems
<1>2. Range(S.apps) \subseteq Blocks BY <1>1, LenProperties DEF Range
<1>3. ASSUME NEW b \in Blocks
      PROVE  S.app[b].state \in {"free", "loading"} \cup Listed /\ S.app[b].host \in Blocks \cup {NULL}
  BY <1>1 DEF AppRecords, Listed
<1>4. ASSUME NEW b \in Blocks
      PROVE  /\ b \in Range(S.apps) <=> S.app[b].state \in Listed
             /\ S.app[b].state = "free" => S.app[b] = Blank
  BY DEF Shape
<1>5. ASSUME NEW b \in Blocks, S.app[b].host # NULL PROVE S.app[b].state # "free"
  BY <1>4, <1>5, BlankIs
<1> QED BY <1>1, <1>2, <1>3, <1>4, <1>5 DEF Shape

LEMMA ShrunkTwice ==
    ASSUME NEW S \in Systems, Shape(S), NEW T \in Systems, Shape(T), NEW U \in Systems, Shape(U),
           NEW out, Shrunk(S, T, out), Shrunk(T, U, out)
    PROVE  Shrunk(S, U, out)
<1>1. Wanes(S, T, out) /\ Wanes(T, U, out) /\ Evicts(S, T) /\ Evicts(T, U)
      /\ KeepsLast(S, T) /\ KeepsLast(T, U)
  BY DEF Shrunk
<1>2. ASSUME NEW x \in Blocks, T.app[x].state = "free" PROVE U.app[x].state = "free"
  BY <1>1, <1>2 DEF Wanes, Listed
<1>3. Wanes(S, U, out)
  <2> SUFFICES ASSUME NEW x \in Blocks
      PROVE  \/ U.app[x].state = "free" /\ (x \in out \/ (S.app[x].host # NULL /\ S.app[x].state \in Listed))
             \/ /\ U.app[x].file = S.app[x].file /\ U.app[x].host = S.app[x].host
                /\ \/ U.app[x].state = S.app[x].state
                   \/ /\ U.app[x].state = "tofree" /\ S.app[x].state \in Listed
                      /\ x \in out \/ S.app[x].file \in Libs
    BY DEF Wanes
  <2>1. CASE T.app[x].state = "free" /\ (x \in out \/ (S.app[x].host # NULL /\ S.app[x].state \in Listed))
    BY <1>2, <2>1
  <2>2. CASE /\ T.app[x].file = S.app[x].file /\ T.app[x].host = S.app[x].host
             /\ \/ T.app[x].state = S.app[x].state
                \/ /\ T.app[x].state = "tofree" /\ S.app[x].state \in Listed
                   /\ x \in out \/ S.app[x].file \in Libs
    BY <1>1, <2>2 DEF Wanes, Listed
  <2> QED BY <1>1, <2>1, <2>2 DEF Wanes
<1>4. ASSUME NEW x \in Blocks, U.app[x].state \in Listed PROVE T.app[x].state \in Listed
  BY <1>1, <1>4 DEF Wanes, Listed
<1>5. Range(U.apps) \subseteq Range(T.apps) BY <1>4, ListIs
<1>6. KeepsLast(S, U) BY <1>1, <1>5 DEF KeepsLast
<1>7. Evicts(S, U)
  <2> SUFFICES ASSUME NEW b \in Blocks, NEW x \in Blocks,
                      S.app[b].state \in {"starting", "running"}, U.app[b].state \in {"tofree", "free"},
                      S.app[x].host = b, S.app[x].state # "loading", S.app[b].host = NULL
               PROVE  Evicted(S, U, b, x)
    BY DEF Evicts
  <2>1. CASE T.app[b].state \in {"tofree", "free"}
    <3>1. Evicted(S, T, b, x) BY <1>1, <2>1 DEF Evicts
    <3>2. CASE T.app[x].state = "free" BY <1>2, <3>2 DEF Evicted
    <3>3. CASE T.app[x].state # "free"
      <4>1. x = Last(T.apps) /\ \E y \in Blocks \ {x} : S.app[y].host = b /\ T.app[y].state = "free"
        BY <3>1, <3>3 DEF Evicted
      <4>2. CASE U.app[x].state = "free" BY <4>2 DEF Evicted
      <4>3. CASE U.app[x].state # "free"
        <5>1. x \in Range(U.apps)
          <6>1. b # NULL BY Constants
          <6>2. S.app[x].state \in Listed BY <6>1, ListIs
          <6>3. U.app[x].state \in Listed BY <1>3, <4>3, <6>2 DEF Wanes, Listed
          <6> QED BY <6>3, ListIs
        <5>2. x = Last(U.apps) BY <1>1, <4>1, <5>1 DEF KeepsLast
        <5> QED BY <1>2, <4>1, <5>2 DEF Evicted
      <4> QED BY <4>2, <4>3
    <3> QED BY <3>2, <3>3
  <2>2. CASE T.app[b].state \notin {"tofree", "free"}
    <3>1. T.app[b].state = S.app[b].state /\ T.app[b].host = NULL BY <1>1, <2>2 DEF Wanes
    <3>2. CASE T.app[x].state = "free" BY <1>2, <3>2 DEF Evicted
    <3>3. CASE T.app[x].state # "free"
      <4>1. T.app[x].host = b /\ T.app[x].state # "loading" BY <1>1, <3>3 DEF Wanes
      <4>2. Evicted(T, U, b, x) BY <1>1, <3>1, <4>1 DEF Evicts
      <4>3. CASE U.app[x].state = "free" BY <4>3 DEF Evicted
      <4>4. CASE U.app[x].state # "free"
        <5>1. PICK y \in Blocks \ {x} : T.app[y].host = b /\ U.app[y].state = "free"
          BY <4>2, <4>4 DEF Evicted
        <5>2. T.app[y].state # "free"
          <6>1. b # NULL BY Constants
          <6> QED BY <5>1, <6>1, ListIs
        <5>3. S.app[y].host = b BY <1>1, <5>1, <5>2 DEF Wanes
        <5> QED BY <4>2, <4>4, <5>1, <5>3 DEF Evicted
      <4> QED BY <4>3, <4>4
    <3> QED BY <3>2, <3>3
  <2> QED BY <2>1, <2>2
<1> QED BY <1>3, <1>6, <1>7 DEF Shrunk

(* FreeHostedApp for a block b in the list. *)
HostedFreed(S, T, b) ==
    /\ T.sym = S.sym
    /\ \A x \in Blocks : \/ T.app[x] = S.app[x]
                         \/ T.app[x] = Blank /\ S.app[x].host = b /\ S.app[x].state \in Listed
    /\ KeepsLast(S, T)
    /\ \A x \in Blocks : S.app[x].host = b /\ S.app[x].state \in Listed => Evicted(S, T, b, x)

LEMMA FreeHostedIs ==
    ASSUME NEW S \in Systems, Shape(S), NEW b \in Blocks
    PROVE  LET T == FreeHostedApp(S, b) IN T \in Systems /\ Shape(T) /\ HostedFreed(S, T, b)
<1> DEFINE s == S.apps
           hosted == {x \in Blocks : S.app[x].host = b}
           out == hosted \cap Range(Visited(s, hosted))
           t == Without(s, out)
           app == [x \in Blocks |-> IF x \in out THEN Blank ELSE S.app[x]]
           T == FreeHostedApp(S, b)
<1>0. /\ s \in Seq(Blocks) /\ Distinct(s) /\ Range(s) \subseteq Blocks /\ S.app \in [Blocks -> AppRecords]
      /\ Len(s) \in Nat /\ Range(s) = {s[i] : i \in 1 .. Len(s)}
  <2>1. s \in Seq(Blocks) BY ListIs
  <2> QED BY <2>1, ListIs, LenProperties DEF Range
<1>1. T = [apps |-> t, app |-> app, sym |-> S.sym]
  <2>1. T = [S EXCEPT !.apps = t, !.app = app] BY DEF FreeHostedApp
  <2> HIDE DEF T, t, app
  <2> QED BY <2>1 DEF Systems
<1>2. Thinned(s, out, t)
  <2> HIDE DEF out, s
  <2> QED BY <1>0, WithoutThins
<1>3. /\ Range(Visited(s, hosted)) \subseteq Range(s)
      /\ \A i \in 1 .. Len(s) : s[i] \notin Range(Visited(s, hosted)) =>
            i = Len(s) - 1 /\ s[Len(s)] \in hosted /\ s[Len(s)] \in Range(Visited(s, hosted))
  <2> HIDE DEF hosted, s
  <2> QED BY <1>0, VisitedMisses
<1>4. out \subseteq hosted /\ out \subseteq Range(s) BY <1>3
<1> HIDE DEF out
<1>5. app \in [Blocks -> AppRecords] BY <1>0, BlankIs
<1> HIDE DEF t, app
<1>6. T \in Systems /\ T.apps = t /\ T.app = app /\ T.sym = S.sym
  BY <1>1, <1>2, <1>5 DEF Systems, Thinned
<1>7. FreedBlocks(S, T, out) BY <1>2, <1>6 DEF FreedBlocks, app
<1> HIDE DEF T
<1>8. Shape(T) BY <1>6, <1>7, FreedShape
<1>9. ASSUME NEW x \in Blocks
      PROVE  \/ T.app[x] = S.app[x]
             \/ T.app[x] = Blank /\ S.app[x].host = b /\ S.app[x].state \in Listed
  <2>1. T.app[x] = IF x \in out THEN Blank ELSE S.app[x] BY <1>7 DEF FreedBlocks
  <2>2. x \in out => S.app[x].state \in Listed BY <1>4, ListIs
  <2> QED BY <1>4, <2>1, <2>2
<1>10. ASSUME NEW i \in 1 .. Len(s), LastLeft(s, out, i) PROVE Last(T.apps) = s[i]
  BY <1>2, <1>6, <1>10 DEF Thinned
<1>11. KeepsLast(S, T)
  <2> SUFFICES ASSUME NEW x \in Range(T.apps), x = Last(s) PROVE x = Last(T.apps) BY DEF KeepsLast
  <2>1. x \in Range(s) /\ x \notin out BY <1>2, <1>6 DEF Thinned
  <2>2. Len(s) \in 1 .. Len(s) /\ x = s[Len(s)] BY <1>0, <2>1 DEF Last
  <2>3. LastLeft(s, out, Len(s)) BY <1>0, <2>1, <2>2 DEF LastLeft
  <2> QED BY <1>10, <2>2, <2>3
<1>12. ASSUME NEW x \in Blocks, S.app[x].host = b, S.app[x].state \in Listed
       PROVE  Evicted(S, T, b, x)
  <2>1. T.app[x] = IF x \in out THEN Blank ELSE S.app[x] BY <1>7 DEF FreedBlocks
  <2>2. CASE x \in out BY <2>1, <2>2, BlankIs DEF Evicted
  <2>3. CASE x \notin out
    <3>1. PICK i \in 1 .. Len(s) : x = s[i] BY <1>0, <1>12, ListIs
    <3>2. s[i] \notin Range(Visited(s, hosted)) BY <1>12, <2>3, <3>1 DEF out
    <3>3. i = Len(s) - 1 /\ s[Len(s)] \in hosted /\ s[Len(s)] \in Range(Visited(s, hosted))
      BY <1>3, <3>2
    <3>4. s[Len(s)] \in out BY <3>3 DEF out
    <3>5. LastLeft(s, out, i) BY <1>0, <2>3, <3>1, <3>3, <3>4 DEF LastLeft
    <3>6. x = Last(T.apps) BY <1>10, <3>1, <3>5
    <3> DEFINE y == s[Len(s)]
    <3>7. y \in Blocks /\ S.app[y].host = b /\ y # x BY <2>3, <3>3, <3>4
    <3>8. T.app[y] = Blank BY <1>7, <3>4, <3>7 DEF FreedBlocks
    <3> QED BY <3>6, <3>7, <3>8, BlankIs DEF Evicted
  <2> QED BY <2>2, <2>3
<1>13. T.sym = S.sym BY <1>6
<1>14. T \in Systems BY <1>6
<1>15. HostedFreed(S, T, b) BY <1>9, <1>11, <1>12, <1>13 DEF HostedFreed
<1> QED BY <1>8, <1>14, <1>15 DEF T

(* CloseApp for a block in the list: what it hosts is freed, it is marked, *)
(* and its symbol is gone.                                                 *)
Closed(S, T, b) ==
    /\ T.app[b] = [S.app[b] EXCEPT !.state = "tofree"]
    /\ \A x \in Blocks \ {b} :
          \/ T.app[x] = S.app[x]
          \/ T.app[x] = Blank /\ S.app[x].host = b /\ S.app[x].state \in Listed

LEMMA CloseIs ==
    ASSUME NEW S \in Systems, Shape(S), Symbols(S), NEW b \in Blocks, S.app[b].state \in Listed
    PROVE  LET T == CloseApp(S, b) IN
             T \in Systems /\ Shape(T) /\ Symbols(T) /\ Closed(S, T, b) /\ Shrunk(S, T, {b})
<1> DEFINE R == FreeHostedApp(S, b)
           C == [R EXCEPT !.app[b].state = "tofree"]
           mine == {s \in Libs : C.sym[s].own = b}
           sym == IF mine = {} THEN R.sym ELSE [R.sym EXCEPT ![CHOOSE s \in mine : TRUE] = NoSymbol]
           rec == [S.app[b] EXCEPT !.state = "tofree"]
           app == [R.app EXCEPT ![b] = rec]
           T == CloseApp(S, b)
<1>1. R \in Systems /\ Shape(R) /\ HostedFreed(S, R, b) BY FreeHostedIs
<1>2. S.app[b] \in AppRecords /\ (S.app[b].host # NULL => S.app[b].host # b)
  BY ListIs DEF Shape
<1>3. R.app[b] = S.app[b]
  <2>1. b # NULL BY Constants
  <2> QED BY <1>1, <1>2, <2>1 DEF HostedFreed
<1>4. R.app \in [Blocks -> AppRecords] /\ R.apps \in Seq(Blocks)
      /\ R.sym \in [Libs -> [at : Blocks \cup {NULL}, own : Blocks \cup {NULL}]]
      /\ R = [apps |-> R.apps, app |-> R.app, sym |-> R.sym]
  <2> HIDE DEF R
  <2> QED BY <1>1 DEF Systems
<1> HIDE DEF R
<1>5. rec \in AppRecords /\ rec.state = "tofree" /\ rec.file = S.app[b].file
      /\ rec.host = S.app[b].host /\ rec.users = S.app[b].users
  BY <1>2 DEF AppRecords
<1>6. C = [apps |-> R.apps, app |-> app, sym |-> R.sym]
  <2>1. C = [R EXCEPT !.app = [R.app EXCEPT ![b] = [R.app[b] EXCEPT !.state = "tofree"]]] OBVIOUS
  <2> QED BY <1>3, <1>4, <2>1
<1>7. T = IF mine = {} THEN C ELSE [C EXCEPT !.sym[CHOOSE s \in mine : TRUE] = NoSymbol]
  BY DEF CloseApp, R
<1>8. T = [apps |-> R.apps, app |-> app, sym |-> sym]
  <2> HIDE DEF app
  <2>1. C.sym = R.sym BY <1>6
  <2>2. mine = {} => T = [apps |-> R.apps, app |-> app, sym |-> sym] BY <1>6, <1>7
  <2>3. [C EXCEPT !.sym[CHOOSE s \in mine : TRUE] = NoSymbol] =
        [apps |-> R.apps, app |-> app, sym |-> [R.sym EXCEPT ![CHOOSE s \in mine : TRUE] = NoSymbol]]
    <3> DEFINE m == CHOOSE s \in mine : TRUE
    <3> HIDE DEF m, C
    <3>1. [C EXCEPT !.sym[m] = NoSymbol] =
          [apps |-> R.apps, app |-> app, sym |-> [R.sym EXCEPT ![m] = NoSymbol]]
      BY <1>6
    <3> QED BY <3>1 DEF m
  <2> QED BY <1>7, <2>2, <2>3
<1>9. mine = {s \in Libs : R.sym[s].own = b} BY <1>6
<1> HIDE DEF C, mine
<1>10. app \in [Blocks -> AppRecords] /\ app[b] = rec /\ \A x \in Blocks \ {b} : app[x] = R.app[x]
  BY <1>4, <1>5
<1>11. sym \in [Libs -> [at : Blocks \cup {NULL}, own : Blocks \cup {NULL}]]
       /\ \A s \in Libs : sym[s] = R.sym[s] \/ sym[s] = NoSymbol
  BY <1>4, <1>9 DEF NoSymbol
<1> HIDE DEF app, rec
<1>12. T \in Systems /\ T.apps = R.apps /\ T.app = app /\ T.sym = sym
  <2> HIDE DEF sym, T
  <2> QED BY <1>4, <1>8, <1>10, <1>11 DEF Systems
<1> HIDE DEF T
<1>13. ASSUME NEW x \in Blocks PROVE T.app[x].file = R.app[x].file /\ T.app[x].host = R.app[x].host
  BY <1>3, <1>5, <1>10, <1>12
<1>14. Shape(T)
  <2>0. Distinct(T.apps) /\ Range(T.apps) = Range(R.apps) /\ Range(R.apps) \subseteq Blocks
    BY <1>1, <1>12, ListIs
  <2>1. ASSUME NEW x \in Blocks
        PROVE /\ x \in Range(T.apps) <=> T.app[x].state \in Listed
              /\ IF T.app[x].state = "free" THEN T.app[x] = Blank ELSE T.app[x].file \in Files
              /\ T.app[x].file \in Libs => T.app[x].host = NULL
              /\ T.app[x].host # NULL => T.app[x].host # x /\ T.app[T.app[x].host].host = NULL
    <3>1. R.app[x].host \in Blocks \cup {NULL} BY <1>1, ListIs
    <3>2. /\ x \in Range(R.apps) <=> R.app[x].state \in Listed
          /\ IF R.app[x].state = "free" THEN R.app[x] = Blank ELSE R.app[x].file \in Files
          /\ R.app[x].file \in Libs => R.app[x].host = NULL
          /\ R.app[x].host # NULL => R.app[x].host # x /\ R.app[R.app[x].host].host = NULL
      BY <1>1 DEF Shape
    <3>3. T.app[x].host # NULL => T.app[T.app[x].host].host = NULL BY <1>13, <3>1, <3>2
    <3>4. CASE x = b
      <4>1. S.app[b].state # "free" /\ "tofree" \in Listed BY DEF Listed
      <4>2. R.app[b].file \in Files /\ R.app[b].state \in Listed BY <1>3, <3>2, <3>4, <4>1
      <4> QED BY <1>5, <1>10, <1>12, <1>13, <2>0, <3>2, <3>3, <3>4, <4>1, <4>2
    <3>5. CASE x # b BY <1>10, <1>12, <2>0, <3>2, <3>3, <3>5
    <3> QED BY <3>4, <3>5
  <2>2. ASSUME NEW x \in Range(T.apps), NEW c \in Range(T.apps),
               T.app[x].file \in Libs, T.app[x].file = T.app[c].file
        PROVE  x = c
    BY <1>1, <1>13, <2>0, <2>2 DEF Shape
  <2> QED BY <2>0, <2>1, <2>2 DEF Shape
<1>15. Closed(S, T, b)
  <2>1. T.app[b] = [S.app[b] EXCEPT !.state = "tofree"] BY <1>10, <1>12 DEF rec
  <2> QED BY <1>1, <1>10, <1>12, <2>1 DEF Closed, HostedFreed
<1>16. Symbols(T)
  <2> SUFFICES ASSUME NEW l \in Libs
      PROVE  IF l \in Anonymous \/ T.sym[l].at = NULL THEN T.sym[l].own = NULL
             ELSE /\ T.sym[l].own = T.sym[l].at
                  /\ T.app[T.sym[l].at].state = "running" /\ T.app[T.sym[l].at].file = l
    BY DEF Symbols
  <2>0. R.sym = S.sym BY <1>1 DEF HostedFreed
  <2>1. CASE sym[l] = NoSymbol BY <1>12, <2>1 DEF NoSymbol
  <2>2. CASE sym[l] # NoSymbol
    <3>1. T.sym[l] = S.sym[l] BY <1>11, <1>12, <2>0, <2>2
    <3>2. CASE l \in Anonymous \/ S.sym[l].at = NULL BY <3>1, <3>2 DEF Symbols
    <3>3. CASE l \notin Anonymous /\ S.sym[l].at # NULL
      <4> DEFINE c == S.sym[l].at
      <4>1. S.sym[l].own = c /\ S.app[c].state = "running" /\ S.app[c].file = l
        BY <3>3 DEF Symbols
      <4>2. c \in Blocks BY <3>3 DEF Systems
      <4>3. c # b
        <5>1. SUFFICES ASSUME c = b PROVE FALSE OBVIOUS
        <5>2. mine = {l}
          <6>1. l \in mine BY <1>9, <2>0, <4>1, <5>1
          <6>2. ASSUME NEW s \in mine PROVE s = l
            <7>1. s \in Libs /\ S.sym[s].own = b BY <1>9, <2>0
            <7>2. b # NULL BY Constants
            <7>3. S.app[b].file = s BY <7>1, <7>2 DEF Symbols
            <7> QED BY <4>1, <5>1, <7>3
          <6> QED BY <6>1, <6>2
        <5>3. sym[l] = NoSymbol
          <6>1. (CHOOSE s \in mine : TRUE) = l BY <5>2
          <6> QED BY <1>4, <5>2, <6>1
        <5> QED BY <2>2, <5>3
      <4>4. S.app[c].host = NULL BY <4>1, <4>2 DEF Shape
      <4>5. T.app[c] = S.app[c]
        <5>1. b # NULL BY Constants
        <5> QED BY <1>15, <4>2, <4>3, <4>4, <5>1 DEF Closed
      <4> QED BY <3>1, <3>3, <4>1, <4>5
    <3> QED BY <3>2, <3>3
  <2> QED BY <2>1, <2>2
<1>17. Shrunk(S, T, {b})
  <2>1. Wanes(S, T, {b})
    <3> SUFFICES ASSUME NEW x \in Blocks
        PROVE  \/ T.app[x].state = "free" /\ (x \in {b} \/ (S.app[x].host # NULL /\ S.app[x].state \in Listed))
               \/ /\ T.app[x].file = S.app[x].file /\ T.app[x].host = S.app[x].host
                  /\ \/ T.app[x].state = S.app[x].state
                     \/ /\ T.app[x].state = "tofree" /\ S.app[x].state \in Listed
                        /\ x \in {b} \/ S.app[x].file \in Libs
      BY DEF Wanes
    <3>1. CASE x = b BY <1>5, <1>10, <1>12, <3>1
    <3>2. CASE x # b
      <4>1. b # NULL BY Constants
      <4> QED BY <1>15, <3>2, <4>1, BlankIs DEF Closed
    <3> QED BY <3>1, <3>2
  <2>2. KeepsLast(S, T) BY <1>1, <1>12 DEF KeepsLast, HostedFreed
  <2>3. Evicts(S, T)
    <3> SUFFICES ASSUME NEW c \in Blocks, NEW x \in Blocks,
                        S.app[c].state \in {"starting", "running"}, T.app[c].state \in {"tofree", "free"},
                        S.app[x].host = c, S.app[x].state # "loading", S.app[c].host = NULL
                 PROVE  Evicted(S, T, c, x)
      BY DEF Evicts
    <3>0. c # NULL /\ b # NULL BY Constants
    <3>1. c = b BY <1>15, <3>0 DEF Closed
    <3>2. x # b /\ S.app[x].state \in Listed BY <1>2, <3>0, <3>1, ListIs
    <3>3. Evicted(S, R, b, x) BY <1>1, <3>1, <3>2 DEF HostedFreed
    <3>4. T.app[x] = R.app[x] BY <1>10, <1>12, <3>2
    <3>5. ASSUME NEW y \in Blocks, R.app[y].state = "free" PROVE T.app[y].state = "free"
      <4>1. y # b BY <1>3, <3>5 DEF Listed
      <4> QED BY <1>10, <1>12, <3>5, <4>1
    <3> QED BY <1>12, <3>1, <3>3, <3>4, <3>5 DEF Evicted
  <2> QED BY <2>1, <2>2, <2>3 DEF Shrunk
<1> QED BY <1>12, <1>14, <1>15, <1>16, <1>17 DEF T

(* Unsigned arithmetic. *)
LEMMA Modulo ==
    /\ \A n \in Int : n % Word \in 0 .. Word - 1
    /\ \A n \in 0 .. Word - 1 : n % Word = n
<1>1. Word \in Nat /\ Word > 0 BY Constants
<1>2. ASSUME NEW n \in Int PROVE n % Word \in 0 .. Word - 1 BY <1>1
<1>3. ASSUME NEW n \in 0 .. Word - 1 PROVE n % Word = n BY <1>1
<1> QED BY <1>2, <1>3

(* A library that is counted anew. *)
Recounted(S, T, l, u) ==
    /\ T.apps = S.apps /\ T.sym = S.sym
    /\ T.app[l] = [S.app[l] EXCEPT !.users = u]
    /\ \A x \in Blocks \ {l} : T.app[x] = S.app[x]

LEMMA RecountIs ==
    ASSUME NEW S \in Systems, Shape(S), Symbols(S), NEW l \in Blocks, S.app[l].state \in Listed,
           NEW u \in 0 .. Word - 1, NEW out
    PROVE  LET T == [S EXCEPT !.app[l].users = u] IN
             T \in Systems /\ Shape(T) /\ Symbols(T) /\ Recounted(S, T, l, u) /\ Shrunk(S, T, out)
<1> DEFINE rec == [S.app[l] EXCEPT !.users = u]
           app == [S.app EXCEPT ![l] = rec]
           T == [S EXCEPT !.app[l].users = u]
<1>1. S.app \in [Blocks -> AppRecords] BY ListIs
<1>2. rec \in AppRecords /\ rec.state = S.app[l].state /\ rec.file = S.app[l].file
      /\ rec.host = S.app[l].host
  BY <1>1 DEF AppRecords
<1>3. T = [apps |-> S.apps, app |-> app, sym |-> S.sym]
  <2>1. T = [S EXCEPT !.app = app] OBVIOUS
  <2> HIDE DEF T, app
  <2> QED BY <2>1 DEF Systems
<1> HIDE DEF T, rec
<1>4. app \in [Blocks -> AppRecords] /\ app[l] = rec /\ \A x \in Blocks \ {l} : app[x] = S.app[x]
  BY <1>1, <1>2
<1> HIDE DEF app
<1>5. T \in Systems /\ T.apps = S.apps /\ T.sym = S.sym /\ T.app = app
  BY <1>3, <1>4 DEF Systems
<1>6. \A x \in Blocks : T.app[x].file = S.app[x].file /\ T.app[x].host = S.app[x].host
                        /\ T.app[x].state = S.app[x].state
  BY <1>2, <1>4, <1>5
<1>7. Recounted(S, T, l, u) BY <1>4, <1>5 DEF Recounted, rec
<1>8. Shape(T)
  <2>1. ASSUME NEW x \in Blocks
        PROVE /\ x \in Range(T.apps) <=> T.app[x].state \in Listed
              /\ IF T.app[x].state = "free" THEN T.app[x] = Blank ELSE T.app[x].file \in Files
              /\ T.app[x].file \in Libs => T.app[x].host = NULL
              /\ T.app[x].host # NULL => T.app[x].host # x /\ T.app[T.app[x].host].host = NULL
    <3>1. S.app[x].host \in Blocks \cup {NULL} BY ListIs
    <3>2. T.app[x].state = "free" => T.app[x] = S.app[x] BY <1>4, <1>5, <1>6 DEF Listed
    <3> QED BY <1>5, <1>6, <3>1, <3>2 DEF Shape
  <2> QED BY <1>5, <1>6, <2>1, ListIs DEF Shape
<1>9. Symbols(T)
  <2>1. \A s \in Libs : S.sym[s].at \in Blocks \cup {NULL} BY DEF Systems
  <2> QED BY <1>5, <1>6, <2>1 DEF Symbols
<1>10. Shrunk(S, T, out) BY <1>5, <1>6 DEF Shrunk, Wanes, KeepsLast, Evicts
<1> QED BY <1>5, <1>7, <1>8, <1>9, <1>10 DEF T

(* GetLibrary finds the one that is in the list. *)
LEMMA GetLibraryIs ==
    ASSUME NEW S \in Systems, Shape(S), NEW id
    PROVE  IF InList(S, id)
           THEN /\ GetLibrary(S, id) \in Range(S.apps) /\ GetLibrary(S, id) \in Blocks
                /\ S.app[GetLibrary(S, id)].file = id
           ELSE GetLibrary(S, id) = NULL
<1> DEFINE scan == FromLast(S.apps)
           found == {k \in 1 .. Len(scan) : S.app[scan[k]].file = id}
<1>1. S.apps \in Seq(Blocks) /\ Range(S.apps) \subseteq Blocks BY ListIs
<1>2. scan = Visited(S.apps, {}) BY DEF Visited
<1>3. Range(scan) = Range(S.apps)
  <2>1. Range(S.apps) = {S.apps[i] : i \in 1 .. Len(S.apps)} BY <1>1, LenProperties DEF Range
  <2>2. /\ Range(Visited(S.apps, {})) \subseteq Range(S.apps)
        /\ \A i \in 1 .. Len(S.apps) : S.apps[i] \in Range(Visited(S.apps, {}))
    BY <1>1, VisitedMisses
  <2> QED BY <1>2, <2>1, <2>2
<1>4. Len(scan) \in Nat /\ DOMAIN scan = 1 .. Len(scan)
  <2>1. CASE S.apps = <<>> BY <2>1 DEF FromLast
  <2>2. CASE S.apps # <<>>
    <3>0. Len(S.apps) \in Nat /\ Last(S.apps) \in Blocks BY <1>1, <2>2, LenProperties DEF Last
    <3> DEFINE f == SubSeq(S.apps, 1, Len(S.apps) - 1)
    <3>1. f \in Seq(Blocks)
      <4>1. Len(S.apps) - 1 \in Int /\ Len(S.apps) - 1 <= Len(S.apps) BY <3>0
      <4> QED BY <1>1, <4>1, Prefix
    <3>2. scan = <<Last(S.apps)>> \o f BY <2>2 DEF FromLast, Front
    <3> HIDE DEF f, scan
    <3>3. scan \in Seq(Blocks) BY <3>0, <3>1, <3>2
    <3> QED BY <3>3, LenProperties
  <2> QED BY <2>1, <2>2
<1>5. GetLibrary(S, id) =
        IF found = {} THEN NULL ELSE scan[CHOOSE k \in found : \A j \in found : k <= j]
  BY DEF GetLibrary
<1>6. Range(scan) = {scan[k] : k \in 1 .. Len(scan)} BY <1>4 DEF Range
<1> HIDE DEF scan
<1>7. CASE InList(S, id)
  <2>1. PICK c \in Range(scan) : S.app[c].file = id BY <1>3, <1>7 DEF InList
  <2>2. found # {} /\ found \subseteq Nat BY <1>4, <1>6, <2>1
  <2> DEFINE k == CHOOSE k \in found : \A j \in found : k <= j
  <2> HIDE DEF found
  <2>3. k \in found BY <2>2, Least
  <2>4. GetLibrary(S, id) = scan[k] BY <1>5, <2>2
  <2> HIDE DEF k
  <2>5. scan[k] \in Range(scan) /\ S.app[scan[k]].file = id BY <1>6, <2>3 DEF found
  <2> QED BY <1>1, <1>3, <1>7, <2>4, <2>5
<1>8. CASE ~ InList(S, id)
  <2>1. found = {} BY <1>3, <1>6, <1>8 DEF InList
  <2> QED BY <1>5, <1>8, <2>1
<1> QED BY <1>7, <1>8

-----------------------------------------------------------------------------
(* What the counts cover. *)
LEMMA OfLess ==
    ASSUME NEW P, IsFiniteSet(P), NEW p \in P, NEW l
    PROVE  /\ IsFiniteSet(P \ {p}) /\ IsFiniteSet(Of(P, l)) /\ Cardinality(Of(P, l)) \in Nat
           /\ IF p[3] = l THEN Cardinality(Of(P \ {p}, l)) = Cardinality(Of(P, l)) - 1
                               /\ Cardinality(Of(P, l)) > 0
              ELSE Of(P \ {p}, l) = Of(P, l)
<1>1. IsFiniteSet(P \ {p}) BY FS_RemoveElement
<1>2. Of(P, l) \subseteq P BY DEF Of
<1>3. IsFiniteSet(Of(P, l)) /\ Cardinality(Of(P, l)) \in Nat BY <1>2, FS_Subset, FS_CardinalityType
<1>4. CASE p[3] = l
  <2>1. p \in Of(P, l) /\ Of(P \ {p}, l) = Of(P, l) \ {p} BY <1>4 DEF Of
  <2>2. Cardinality(Of(P, l) \ {p}) = Cardinality(Of(P, l)) - 1 BY <1>3, <2>1, FS_RemoveElement
  <2>3. Of(P, l) # {} BY <2>1
  <2>4. Cardinality(Of(P, l)) # 0 BY <1>3, <2>3, FS_EmptySet
  <2>5. Cardinality(Of(P, l)) > 0 BY <1>3, <2>4
  <2>6. Cardinality(Of(P \ {p}, l)) = Cardinality(Of(P, l)) - 1 BY <2>1, <2>2
  <2> QED BY <1>1, <1>3, <1>4, <2>5, <2>6
<1>5. CASE p[3] # l
  <2>1. Of(P \ {p}, l) = Of(P, l) BY <1>5 DEF Of
  <2> QED BY <1>1, <1>3, <1>5, <2>1
<1> QED BY <1>4, <1>5

(* A library that nothing holds. *)
Unheld(P, l) == l \in Libs \ late => Of(P, l) = {} /\ direct[l] = 0

LEMMA CloseCovered ==
    ASSUME NEW S, NEW P, Good(S, P), NEW b \in Blocks, S.app[b].state \in Listed,
           Unheld(P, S.app[b].file), NEW T, T = CloseApp(S, b)
    PROVE  Good(T, P) /\ Closed(S, T, b) /\ Shrunk(S, T, {b})
<1>1. S \in Systems /\ Shape(S) /\ Symbols(S) /\ Covered(S, P) BY DEF Good
<1>2. T \in Systems /\ Shape(T) /\ Symbols(T) /\ Closed(S, T, b) /\ Shrunk(S, T, {b})
  BY <1>1, CloseIs
<1>3. b # NULL BY Constants
<1>4. T.app[b].state = "tofree" /\ T.app[b].file = S.app[b].file
  <2>1. S.app[b] \in AppRecords BY <1>1, ListIs
  <2> QED BY <1>2, <2>1 DEF Closed, AppRecords
<1>5. Covered(T, P)
  <2> SUFFICES ASSUME NEW l \in Libs \ late
      PROVE /\ Of(P, l) # {} \/ direct[l] > 0 =>
                  \E c \in Blocks : T.app[c].file = l /\ T.app[c].state = "running"
            /\ \A c \in Blocks :
                  T.app[c].file = l /\ T.app[c].state = "running"
                     => T.app[c].users >= Cardinality(Of(P, l)) + direct[l]
    BY DEF Covered
  <2>1. ASSUME Of(P, l) # {} \/ direct[l] > 0
        PROVE  \E c \in Blocks : T.app[c].file = l /\ T.app[c].state = "running"
    <3>1. PICK c \in Blocks : S.app[c].file = l /\ S.app[c].state = "running" BY <1>1, <2>1 DEF Covered
    <3>2. c # b
      <4>1. SUFFICES ASSUME c = b PROVE FALSE OBVIOUS
      <4> QED BY <2>1, <3>1, <4>1 DEF Unheld
    <3>3. S.app[c].host = NULL BY <1>1, <3>1 DEF Shape
    <3>4. T.app[c] = S.app[c] BY <1>2, <1>3, <3>2, <3>3 DEF Closed
    <3> QED BY <3>1, <3>4
  <2>2. ASSUME NEW c \in Blocks, T.app[c].file = l, T.app[c].state = "running"
        PROVE  T.app[c].users >= Cardinality(Of(P, l)) + direct[l]
    <3>1. c # b BY <1>4, <2>2
    <3>2. T.app[c] = S.app[c] BY <1>2, <2>2, <3>1, BlankIs DEF Closed
    <3> QED BY <1>1, <2>2, <3>2 DEF Covered
  <2> QED BY <2>1, <2>2
<1> QED BY <1>2, <1>5 DEF Good

(* One load of library id is released. *)
LEMMA UnLoadIs ==
    ASSUME direct \in [Libs -> Nat], NEW S, NEW P, IsFiniteSet(P), Good(S, P),
           NEW id \in Libs, NEW p \in P, p[3] = id, NEW out, NEW T, T = UnLoadLibrary(S, id)
    PROVE  Good(T, P \ {p}) /\ Shrunk(S, T, out)
<1> DEFINE l == GetLibrary(S, id)
           u == (S.app[l].users - 1) % Word
           R == [S EXCEPT !.app[l].users = u]
           Q == P \ {p}
<1>1. S \in Systems /\ Shape(S) /\ Symbols(S) /\ Covered(S, P) BY DEF Good
<1>2. ASSUME NEW m PROVE /\ IF m = id THEN Cardinality(Of(Q, m)) = Cardinality(Of(P, m)) - 1
                                           /\ Cardinality(Of(P, m)) > 0
                            ELSE Of(Q, m) = Of(P, m)
                         /\ Cardinality(Of(P, m)) \in Nat /\ Of(Q, m) \subseteq Of(P, m)
  <2>1. Of(Q, m) \subseteq Of(P, m) BY DEF Of
  <2> QED BY <2>1, OfLess
<1>3. IsFiniteSet(Q) BY OfLess
<1> HIDE DEF Q
<1>4. CASE ~ InList(S, id)
  <2>1. l = NULL BY <1>1, <1>4, GetLibraryIs
  <2>2. T = S BY <2>1 DEF UnLoadLibrary
  <2>3. Covered(S, Q)
    <3> SUFFICES ASSUME NEW m \in Libs \ late
        PROVE /\ Of(Q, m) # {} \/ direct[m] > 0 =>
                    \E c \in Blocks : S.app[c].file = m /\ S.app[c].state = "running"
              /\ \A c \in Blocks :
                    S.app[c].file = m /\ S.app[c].state = "running"
                       => S.app[c].users >= Cardinality(Of(Q, m)) + direct[m]
      BY DEF Covered
    <3>1. Of(Q, m) # {} => Of(P, m) # {} BY <1>2
    <3>2. ASSUME NEW c \in Blocks, S.app[c].file = m, S.app[c].state = "running"
          PROVE  S.app[c].users >= Cardinality(Of(Q, m)) + direct[m]
      <4>1. c \in Range(S.apps) BY <1>1, <3>2, ListIs DEF Listed
      <4>2. m # id BY <1>4, <3>2, <4>1 DEF InList
      <4> QED BY <1>1, <1>2, <3>2, <4>2 DEF Covered
    <3> QED BY <1>1, <3>1, <3>2 DEF Covered
  <2> QED BY <1>1, <2>2, <2>3, ShrunkItself DEF Good, Q
<1>5. CASE InList(S, id)
  <2>1. l \in Range(S.apps) /\ l \in Blocks /\ S.app[l].file = id BY <1>1, <1>5, GetLibraryIs
  <2>2. l # NULL BY <2>1, Constants
  <2>3. T = IF R.app[l].users = 0 THEN CloseApp(R, l) ELSE R BY <2>2 DEF UnLoadLibrary
  <2> HIDE DEF l
  <2>4. S.app[l] \in AppRecords /\ S.app[l].state \in Listed BY <1>1, <2>1, ListIs
  <2>5. S.app[l].users \in 0 .. Word - 1 BY <2>4 DEF AppRecords
  <2>6. S.app[l].users - 1 \in Int /\ Word \in Nat BY <2>5, Constants
  <2>7. u \in 0 .. Word - 1 BY <2>6, Modulo
  <2>8. S.app[l].users > 0 => u = S.app[l].users - 1
    <3> SUFFICES ASSUME S.app[l].users > 0 PROVE u = S.app[l].users - 1 OBVIOUS
    <3>1. S.app[l].users - 1 \in 0 .. Word - 1 BY <2>5, <2>6
    <3> QED BY <3>1, Modulo
  <2> HIDE DEF u
  <2>9. ASSUME NEW o PROVE R \in Systems /\ Shape(R) /\ Symbols(R) /\ Recounted(S, R, l, u) /\ Shrunk(S, R, o)
    BY <1>1, <2>1, <2>4, <2>7, RecountIs
  <2> HIDE DEF R
  <2>10. /\ R.app[l].users = u /\ R.app[l].file = id /\ R.app[l].state = S.app[l].state
         /\ R.app[l].host = S.app[l].host
         /\ \A x \in Blocks \ {l} : R.app[x] = S.app[x]
    BY <2>1, <2>4, <2>9 DEF Recounted, AppRecords
  <2>11. ASSUME NEW c \in Blocks, S.app[c].file = id, S.app[c].state \in Listed PROVE c = l
    <3>1. c \in Range(S.apps) BY <1>1, <2>11, ListIs
    <3> QED BY <1>1, <2>1, <2>11, <3>1 DEF Shape
  <2>12. id \notin late => /\ S.app[l].state = "running"
                           /\ u >= Cardinality(Of(Q, id)) + direct[id]
    <3> SUFFICES ASSUME id \notin late
                 PROVE  S.app[l].state = "running" /\ u >= Cardinality(Of(Q, id)) + direct[id]
      OBVIOUS
    <3>1. Of(P, id) # {} BY DEF Of
    <3>2. PICK c \in Blocks : S.app[c].file = id /\ S.app[c].state = "running"
      BY <1>1, <3>1 DEF Covered
    <3>3. c = l BY <2>11, <3>2 DEF Listed
    <3>4. S.app[l].users >= Cardinality(Of(P, id)) + direct[id] BY <1>1, <3>2, <3>3 DEF Covered
    <3>5. direct[id] \in Nat OBVIOUS
    <3> QED BY <1>2, <2>5, <2>8, <3>2, <3>3, <3>4, <3>5
  <2>13. Covered(R, Q)
    <3> SUFFICES ASSUME NEW m \in Libs \ late
        PROVE /\ Of(Q, m) # {} \/ direct[m] > 0 =>
                    \E c \in Blocks : R.app[c].file = m /\ R.app[c].state = "running"
              /\ \A c \in Blocks :
                    R.app[c].file = m /\ R.app[c].state = "running"
                       => R.app[c].users >= Cardinality(Of(Q, m)) + direct[m]
      BY DEF Covered
    <3>1. ASSUME Of(Q, m) # {} \/ direct[m] > 0
          PROVE  \E c \in Blocks : R.app[c].file = m /\ R.app[c].state = "running"
      <4>1. Of(P, m) # {} \/ direct[m] > 0 BY <1>2, <3>1
      <4>2. PICK c \in Blocks : S.app[c].file = m /\ S.app[c].state = "running"
        BY <1>1, <4>1 DEF Covered
      <4>3. R.app[c].file = m /\ R.app[c].state = "running" BY <2>1, <2>10, <4>2
      <4> QED BY <4>3
    <3>2. ASSUME NEW c \in Blocks, R.app[c].file = m, R.app[c].state = "running"
          PROVE  R.app[c].users >= Cardinality(Of(Q, m)) + direct[m]
      <4>1. CASE c = l BY <2>10, <2>12, <3>2, <4>1
      <4>2. CASE c # l
        <5>1. S.app[c].file = m /\ S.app[c].state = "running" /\ R.app[c] = S.app[c]
          BY <2>10, <3>2, <4>2
        <5>2. m # id BY <2>11, <4>2, <5>1 DEF Listed
        <5> QED BY <1>1, <1>2, <5>1, <5>2 DEF Covered
      <4> QED BY <4>1, <4>2
    <3> QED BY <3>1, <3>2
  <2>14. Good(R, Q) BY <2>9, <2>13 DEF Good
  <2>15. CASE u # 0 BY <2>3, <2>9, <2>10, <2>14, <2>15 DEF Q
  <2>16. CASE u = 0
    <3>1. T = CloseApp(R, l) BY <2>3, <2>10, <2>16
    <3>2. Unheld(Q, R.app[l].file)
      <4> SUFFICES ASSUME id \notin late PROVE Of(Q, id) = {} /\ direct[id] = 0
        BY <2>10 DEF Unheld
      <4>1. Cardinality(Of(Q, id)) \in Nat /\ direct[id] \in Nat BY <1>2
      <4>2. Cardinality(Of(Q, id)) = 0 /\ direct[id] = 0 BY <2>12, <2>16, <4>1
      <4>3. IsFiniteSet(Of(Q, id))
        <5>1. Of(Q, id) \subseteq Q BY DEF Of
        <5> QED BY <1>3, <5>1, FS_Subset
      <4> QED BY <4>2, <4>3, FS_EmptySet
    <3>3. R.app[l].state \in Listed BY <2>4, <2>10
    <3>4. Good(T, Q) /\ Closed(R, T, l) /\ Shrunk(R, T, {l})
      BY <2>1, <2>14, <3>1, <3>2, <3>3, CloseCovered
    <3>5. T.app[l].state # "free"
      <4>1. R.app[l] \in AppRecords BY <2>1, <2>9, ListIs
      <4> QED BY <3>4, <4>1 DEF Closed, AppRecords
    <3>6. Wanes(R, T, out) BY <2>10, <3>4, <3>5 DEF Shrunk, Wanes
    <3>7. Shrunk(R, T, out) BY <3>4, <3>6 DEF Shrunk
    <3>8. Shrunk(S, T, out) BY <1>1, <2>9, <3>4, <3>7, ShrunkTwice DEF Good
    <3> QED BY <3>4, <3>8 DEF Q
  <2> QED BY <2>15, <2>16
<1> QED BY <1>4, <1>5

(* UnLoadLibraries, as its recursion says. *)
Releases(S, ids, w) ==
    w[0] = S /\ \A k \in 1 .. Len(ids) : w[k] = UnLoadLibrary(w[k - 1], ids[k])

LEMMA UnLoadsDef ==
    ASSUME NEW S, NEW b, NEW ids, ids = Needs[S.app[b].file], Len(ids) \in Nat
    PROVE  \E w : Releases(S, ids, w) /\ UnLoadLibraries(S, b) = w[Len(ids)]
<1> DEFINE js == Needs[S.app[b].file]
           val(w, k) == IF k = 0 THEN S
                        ELSE CHOOSE r \in {UnLoadLibrary(T, js[k]) : T \in {w[k - 1]}} : TRUE
           Def(n, w) == w = [k \in 0 .. n |-> val(w, k)]
           A == {n \in Nat : \E w : Def(n, w)}
           f == CHOOSE w : Def(Len(js), w)
<1>0. js = ids /\ Len(js) \in Nat OBVIOUS
<1> HIDE DEF js
<1>1. UnLoadLibraries(S, b) = f[Len(js)] BY Zenon DEF UnLoadLibraries, With, js
<1>2. 0 \in A
  <2>1. Def(0, [k \in 0 .. 0 |-> S]) OBVIOUS
  <2> HIDE DEF Def
  <2> QED BY <2>1
<1>3. ASSUME NEW n \in Nat, n \in A PROVE n + 1 \in A
  <2>1. PICK w : Def(n, w) BY <1>3
  <2> DEFINE v == [k \in 0 .. (n + 1) |-> IF k = n + 1 THEN val(w, n + 1) ELSE w[k]]
  <2>2. \A k \in 0 .. n : w[k] = val(w, k) BY <2>1
  <2>3. ASSUME NEW k \in 0 .. (n + 1) PROVE v[k] = val(v, k)
    <3>1. k = 0 \/ k - 1 \in 0 .. n OBVIOUS
    <3>2. \A j \in 0 .. n : v[j] = w[j] OBVIOUS
    <3>3. v[k] = val(w, k)
      <4>1. CASE k = n + 1 BY <4>1
      <4>2. CASE k # n + 1
        <5>1. k \in 0 .. n BY <4>2
        <5> HIDE DEF val, v
        <5> QED BY <2>2, <3>2, <5>1
      <4> QED BY <4>1, <4>2
    <3> HIDE DEF v
    <3> QED BY <3>1, <3>2, <3>3
  <2> HIDE DEF val
  <2>4. Def(n + 1, v) BY <2>3
  <2> HIDE DEF Def, v
  <2> QED BY <2>4
<1>4. Nat \subseteq A
  <2> HIDE DEF A
  <2> QED BY <1>2, <1>3, SetInduction
<1>5. Def(Len(js), f)
  <2>1. \E w : Def(Len(js), w) BY <1>0, <1>4
  <2> HIDE DEF Def
  <2> QED BY <2>1, Zenon
<1> HIDE DEF f
<1>6. \A k \in 0 .. Len(js) : f[k] = val(f, k) BY <1>5
<1>7. Releases(S, js, f) BY <1>0, <1>6 DEF Releases
<1> QED BY <1>0, <1>1, <1>7

(* All that block b, which needs ids, has loaded is counted in P. *)
Loaded(P, b, ids) ==
    /\ \A i \in 1 .. Len(ids) : <<b, i, ids[i]>> \in P
    /\ \A p \in P : p[1] = b => \E i \in 1 .. Len(ids) : p = <<b, i, ids[i]>>

NotOf(P, b) == {p \in P : p[1] # b}

LEMMA UnLoadsIs ==
    ASSUME direct \in [Libs -> Nat], NEW S, NEW P, IsFiniteSet(P), Good(S, P),
           NEW b, NEW ids \in Seq(Libs), ids = Needs[S.app[b].file], Loaded(P, b, ids), NEW out
    PROVE  Good(UnLoadLibraries(S, b), NotOf(P, b)) /\ Shrunk(S, UnLoadLibraries(S, b), out)
<1>0. Len(ids) \in Nat /\ \A k \in 1 .. Len(ids) : ids[k] \in Libs BY LenProperties
<1>1. PICK w : Releases(S, ids, w) /\ UnLoadLibraries(S, b) = w[Len(ids)] BY <1>0, UnLoadsDef
<1> DEFINE Left(k) == {p \in P : p[1] = b => p[2] > k}
           Done(k, T) == Good(T, Left(k)) /\ Shrunk(S, T, out)
           A == {k \in Nat : k <= Len(ids) => Done(k, w[k])}
<1>2. \A p \in P : p[1] = b => p[2] \in 1 .. Len(ids) BY DEF Loaded
<1>3. 0 \in A
  <2>1. Left(0) = P BY <1>0, <1>2
  <2>2. w[0] = S BY <1>1 DEF Releases
  <2> QED BY <2>1, <2>2, ShrunkItself
<1>4. ASSUME NEW k \in Nat, k \in A PROVE k + 1 \in A
  <2> SUFFICES ASSUME k + 1 <= Len(ids) PROVE Done(k + 1, w[k + 1])
    <3> HIDE DEF Done
    <3> QED OBVIOUS
  <2> DEFINE p == <<b, k + 1, ids[k + 1]>>
  <2>0. k + 1 \in 1 .. Len(ids) /\ (k + 1) - 1 = k BY <1>0
  <2>1. Done(k, w[k]) BY <1>0, <1>4
  <2>2. w[k + 1] = UnLoadLibrary(w[k], ids[k + 1]) BY <1>1, <2>0 DEF Releases
  <2>3. p \in Left(k) /\ p[3] = ids[k + 1] /\ ids[k + 1] \in Libs BY <1>0, <2>0 DEF Loaded
  <2>4. Left(k + 1) = Left(k) \ {p}
    <3>1. ASSUME NEW q \in P, q # p, q[1] = b, q[2] > k PROVE q[2] > k + 1
      <4>1. PICK i \in 1 .. Len(ids) : q = <<b, i, ids[i]>> BY <3>1 DEF Loaded
      <4>2. i # k + 1 BY <3>1, <4>1
      <4> QED BY <3>1, <4>1, <4>2
    <3>2. ASSUME NEW q \in P, q[1] = b, q[2] > k + 1 PROVE q[2] > k /\ q # p
      <4>1. q[2] \in 1 .. Len(ids) BY <1>2, <3>2
      <4> QED BY <1>0, <3>2, <4>1
    <3> QED BY <3>1, <3>2
  <2>5. IsFiniteSet(Left(k))
    <3>1. Left(k) \subseteq P OBVIOUS
    <3> QED BY <3>1, FS_Subset
  <2> HIDE DEF p, Left
  <2>6. Good(w[k + 1], Left(k) \ {p}) /\ Shrunk(w[k], w[k + 1], out)
    BY <2>1, <2>2, <2>3, <2>5, UnLoadIs
  <2>7. Shrunk(S, w[k + 1], out) BY <2>1, <2>6, ShrunkTwice DEF Good
  <2> QED BY <2>4, <2>6, <2>7
<1>5. Len(ids) \in A
  <2> HIDE DEF A
  <2> QED BY <1>0, <1>3, <1>4, SetInduction
<1>6. Left(Len(ids)) = NotOf(P, b) BY <1>0, <1>2 DEF NotOf
<1>7. Done(Len(ids), w[Len(ids)])
  <2> HIDE DEF Done
  <2> QED BY <1>0, <1>5
<1> HIDE DEF Left
<1> QED BY <1>1, <1>6, <1>7

(* A block that is not running is freed. *)
LEMMA FreedCovered ==
    ASSUME NEW S, NEW P, Good(S, P), NEW b \in Blocks, S.app[b].state \notin {"starting", "running"},
           NEW out, b \in out
    PROVE  LET T == Freed(S, b) IN
             /\ Good(T, P) /\ Shrunk(S, T, out)
             /\ T.app[b] = Blank /\ \A x \in Blocks \ {b} : T.app[x] = S.app[x]
             /\ T.sym = S.sym
<1> DEFINE T == Freed(S, b)
<1>1. S \in Systems /\ Shape(S) /\ Symbols(S) /\ Covered(S, P) BY DEF Good
<1>2. T \in Systems /\ FreedBlocks(S, T, {b}) BY <1>1, FreedIs
<1> HIDE DEF T
<1>3. Shape(T) BY <1>1, <1>2, FreedShape
<1>4. /\ T.app[b] = Blank /\ \A x \in Blocks \ {b} : T.app[x] = S.app[x]
      /\ T.sym = S.sym /\ Thinned(S.apps, {b}, T.apps)
  BY <1>2 DEF FreedBlocks
<1>5. Symbols(T)
  <2>1. \A s \in Libs : S.sym[s].at \in Blocks \cup {NULL} BY <1>1 DEF Systems
  <2> QED BY <1>1, <1>4, <2>1 DEF Symbols
<1>6. \A c \in Blocks : S.app[c].state = "running" => T.app[c] = S.app[c] BY <1>4
<1>7. \A c \in Blocks : T.app[c].state = "running" => T.app[c] = S.app[c] BY <1>4, BlankIs
<1>8. Covered(T, P)
  <2> SUFFICES ASSUME NEW l \in Libs \ late
      PROVE /\ Of(P, l) # {} \/ direct[l] > 0 =>
                  \E c \in Blocks : T.app[c].file = l /\ T.app[c].state = "running"
            /\ \A c \in Blocks :
                  T.app[c].file = l /\ T.app[c].state = "running"
                     => T.app[c].users >= Cardinality(Of(P, l)) + direct[l]
    BY DEF Covered
  <2>1. Of(P, l) # {} \/ direct[l] > 0 =>
          \E c \in Blocks : T.app[c].file = l /\ T.app[c].state = "running"
    BY <1>1, <1>6 DEF Covered
  <2>2. ASSUME NEW c \in Blocks, T.app[c].file = l, T.app[c].state = "running"
        PROVE  T.app[c].users >= Cardinality(Of(P, l)) + direct[l]
    BY <1>1, <1>7, <2>2 DEF Covered
  <2> QED BY <2>1, <2>2
<1>9. Wanes(S, T, out) BY <1>4, BlankIs DEF Wanes
<1>10. KeepsLast(S, T)
  <2> SUFFICES ASSUME NEW x \in Range(T.apps), x = Last(S.apps) PROVE x = Last(T.apps) BY DEF KeepsLast
  <2>1. x \in Range(S.apps) /\ x # b BY <1>4 DEF Thinned
  <2>2. S.apps \in Seq(Blocks) BY <1>1, ListIs
  <2>3. Len(S.apps) \in Nat /\ Range(S.apps) = {S.apps[i] : i \in 1 .. Len(S.apps)}
    BY <2>2, LenProperties DEF Range
  <2>4. Len(S.apps) \in 1 .. Len(S.apps) /\ x = S.apps[Len(S.apps)] BY <2>1, <2>3 DEF Last
  <2>5. LastLeft(S.apps, {b}, Len(S.apps)) BY <2>1, <2>3, <2>4 DEF LastLeft
  <2> QED BY <1>4, <2>4, <2>5 DEF Thinned
<1>11. Evicts(S, T) BY <1>4 DEF Evicts
<1> QED BY <1>1, <1>2, <1>3, <1>4, <1>5, <1>8, <1>9, <1>10, <1>11 DEF Good, Shrunk, T

(* BreakApp for a block in the list. *)
LEMMA BrokenIs ==
    ASSUME direct \in [Libs -> Nat], NEW S, NEW P, IsFiniteSet(P), Good(S, P),
           NEW b \in Blocks, S.app[b].state \in Listed, Unheld(P, S.app[b].file),
           Loaded(P, b, Needs[S.app[b].file]), NEW out, b \in out
    PROVE  LET T == Broken(S, b) IN
             Good(T, NotOf(P, b)) /\ Shrunk(S, T, out) /\ T.app[b] = Blank
<1> DEFINE R == CloseApp(S, b)  U == UnLoadLibraries(R, b)
<1>1. Good(R, P) /\ Closed(S, R, b) /\ Shrunk(S, R, {b}) BY CloseCovered
<1> HIDE DEF R
<1>2. R.app[b].state = "tofree" /\ R.app[b].file = S.app[b].file
  <2>1. S.app[b] \in AppRecords BY ListIs DEF Good
  <2> QED BY <1>1, <2>1 DEF Closed, AppRecords
<1>3. Shrunk(S, R, out)
  <2>1. Wanes(S, R, out) BY <1>1 DEF Shrunk, Wanes
  <2> QED BY <1>1, <2>1 DEF Shrunk
<1>4. Needs[S.app[b].file] \in Seq(Libs)
  <2>1. S.app[b].file \in Files BY DEF Good, Shape, Listed
  <2> QED BY <2>1, Constants
<1>5. Good(U, NotOf(P, b)) /\ Shrunk(R, U, out) BY <1>1, <1>2, <1>4, UnLoadsIs
<1> HIDE DEF U
<1>6. Shrunk(S, U, out) BY <1>1, <1>3, <1>5, ShrunkTwice DEF Good
<1>7. U.app[b].state \notin {"starting", "running"} BY <1>2, <1>5 DEF Shrunk, Wanes
<1> DEFINE T == Freed(U, b)
<1>8. Good(T, NotOf(P, b)) /\ Shrunk(U, T, out) /\ T.app[b] = Blank BY <1>5, <1>7, FreedCovered
<1>9. Broken(S, b) = T
  <2>1. Broken(S, b) = CHOOSE r \in {CHOOSE q \in {Freed(V, b) : V \in {UnLoadLibraries(W, b)}} : TRUE : W \in {R}} : TRUE
    BY Zenon DEF Broken, With, R
  <2> QED BY <2>1, Zenon DEF U
<1> HIDE DEF T
<1>10. Shrunk(S, T, out) BY <1>5, <1>6, <1>8, ShrunkTwice DEF Good
<1> QED BY <1>8, <1>9, <1>10

LEMMA LoadsFinite ==
    ASSUME NEW S \in Systems, Shape(S), NEW st, NEW r
    PROVE  IsFiniteSet(Loads(S, st, r))
<1> DEFINE Ids(b) == Needs[S.app[b].file]
           mine(b) == IF S.app[b].state = "free" THEN {}
                      ELSE {<<b, i, Ids(b)[i]>> : i \in 1 .. Len(Ids(b))}
           all == UNION {mine(b) : b \in Blocks}
<1>1. IsFiniteSet(Blocks) BY DynLdAssumption
<1>2. ASSUME NEW b \in Blocks PROVE IsFiniteSet(mine(b))
  <2>1. CASE S.app[b].state = "free" BY <2>1, FS_EmptySet
  <2>2. CASE S.app[b].state # "free"
    <3>1. S.app[b].file \in Files BY <2>2 DEF Shape
    <3>2. Ids(b) \in Seq(Libs) BY <3>1, Constants
    <3>3. Len(Ids(b)) \in Nat BY <3>2, LenProperties
    <3> DEFINE n == Len(Ids(b))  g == [i \in 1 .. n |-> <<b, i, Ids(b)[i]>>]
    <3>4. IsFiniteSet(1 .. n)
      <4> HIDE DEF n
      <4>1. 1 \in Int /\ n \in Int BY <3>3 DEF n
      <4> QED BY <4>1, FS_Interval
    <3>5. {<<b, i, Ids(b)[i]>> : i \in 1 .. n} = {g[i] : i \in 1 .. n} OBVIOUS
    <3> HIDE DEF n
    <3>6. g \in Surjection(1 .. n, {g[i] : i \in 1 .. n}) BY DEF Surjection
    <3> HIDE DEF g
    <3>7. IsFiniteSet({g[i] : i \in 1 .. n}) BY <3>4, <3>6, FS_Surjection
    <3> QED BY <2>2, <3>5, <3>7 DEF n
  <2> QED BY <2>1, <2>2
<1> HIDE DEF mine
<1>3. IsFiniteSet(all)
  <2> DEFINE h == [b \in Blocks |-> mine(b)]  R == {mine(b) : b \in Blocks}
  <2>1. h \in Surjection(Blocks, R) BY DEF Surjection
  <2>2. IsFiniteSet(R)
    <3> HIDE DEF h, R
    <3> QED BY <1>1, <2>1, FS_Surjection
  <2>3. \A X \in R : IsFiniteSet(X) BY <1>2
  <2> HIDE DEF R
  <2>4. IsFiniteSet(UNION R) BY <2>2, <2>3, FS_UNION
  <2> QED BY <2>4 DEF R
<1>4. ASSUME NEW p \in Loads(S, st, r) PROVE p \in mine(p[1]) /\ p[1] \in Blocks
  <2>1. p \in Blocks \X Nat \X Libs /\ p = <<p[1], p[2], p[3]>> BY DEF Loads
  <2>2. S.app[p[1]].state # "free" /\ p[2] \in 1 .. Len(Ids(p[1])) /\ p[3] = Ids(p[1])[p[2]]
    BY DEF Loads
  <2> QED BY <2>1, <2>2 DEF mine
<1>5. Loads(S, st, r) \subseteq all BY <1>4
<1> HIDE DEF all
<1> QED BY <1>3, <1>5, FS_Subset

(* What is in b and not loading has all its libraries counted. *)
LEMMA LoadsAll ==
    ASSUME NEW S \in Systems, Shape(S), NEW st, NEW r, NEW b \in Blocks, S.app[b].state # "free",
           \A k \in 1 .. Len(st) : st[k].b = b => st[k].pc # "libs"
    PROVE  Loaded(Loads(S, st, r), b, Needs[S.app[b].file])
<1> DEFINE ids == Needs[S.app[b].file]
<1>1. S.app[b].file \in Files BY DEF Shape
<1>2. ids \in Seq(Libs) BY <1>1, Constants
<1>3. \A i \in 1 .. Len(ids) : i \in Nat /\ ids[i] \in Libs BY <1>2, LenProperties
<1>4. ASSUME NEW i \in 1 .. Len(ids) PROVE <<b, i, ids[i]>> \in Loads(S, st, r)
  BY <1>3 DEF Loads
<1>5. ASSUME NEW p \in Loads(S, st, r), p[1] = b PROVE \E i \in 1 .. Len(ids) : p = <<b, i, ids[i]>>
  <2>1. p \in Blocks \X Nat \X Libs /\ p = <<p[1], p[2], p[3]>> BY DEF Loads
  <2>2. p[2] \in 1 .. Len(ids) /\ p[3] = ids[p[2]] BY <1>5 DEF Loads
  <2> QED BY <1>5, <2>1, <2>2
<1> QED BY <1>4, <1>5 DEF Loaded

(* Loads are not made by what frees or closes. *)
LEMMA LoadsShrink ==
    ASSUME NEW S \in Systems, Shape(S), NEW T, NEW out, Wanes(S, T, out),
           NEW st, NEW r, NEW tt, NEW q, q # "ok",
           \A k \in 1 .. Len(st) : st[k].pc = "libs" /\ T.app[st[k].b].state # "free" =>
              \E j \in 1 .. Len(tt) : tt[j].b = st[k].b /\ tt[j].pc = "libs" /\ tt[j].i = st[k].i
    PROVE  /\ Loads(T, tt, q) \subseteq Loads(S, st, r)
           /\ \A b \in Blocks : T.app[b].state = "free" =>
                 Loads(T, tt, q) \subseteq NotOf(Loads(S, st, r), b)
<1>1. ASSUME NEW p \in Loads(T, tt, q) PROVE p \in Loads(S, st, r) /\ T.app[p[1]].state # "free"
  <2>1. p \in Blocks \X Nat \X Libs /\ p[1] \in Blocks BY DEF Loads
  <2>2. /\ T.app[p[1]].state # "free"
        /\ p[2] \in 1 .. Len(Needs[T.app[p[1]].file]) /\ p[3] = Needs[T.app[p[1]].file][p[2]]
        /\ \A j \in 1 .. Len(tt) : tt[j].b = p[1] /\ tt[j].pc = "libs" => p[2] < tt[j].i
    BY DEF Loads
  <2>3. T.app[p[1]].file = S.app[p[1]].file /\ S.app[p[1]].state # "free"
    BY <2>1, <2>2 DEF Wanes, Listed
  <2>4. ASSUME NEW k \in 1 .. Len(st), st[k].b = p[1], st[k].pc = "libs" PROVE p[2] < st[k].i
    BY <2>2, <2>4
  <2> QED BY <2>1, <2>2, <2>3, <2>4 DEF Loads
<1> QED BY <1>1 DEF NotOf

LEMMA CoveredLess ==
    ASSUME direct \in [Libs -> Nat], NEW S \in Systems, Shape(S), NEW P, IsFiniteSet(P), Covered(S, P),
           NEW Q, Q \subseteq P
    PROVE  Covered(S, Q)
<1> SUFFICES ASSUME NEW l \in Libs \ late
    PROVE /\ Of(Q, l) # {} \/ direct[l] > 0 =>
                \E c \in Blocks : S.app[c].file = l /\ S.app[c].state = "running"
          /\ \A c \in Blocks :
                S.app[c].file = l /\ S.app[c].state = "running"
                   => S.app[c].users >= Cardinality(Of(Q, l)) + direct[l]
  BY DEF Covered
<1>1. Of(Q, l) \subseteq Of(P, l) /\ Of(P, l) \subseteq P BY DEF Of
<1>2. IsFiniteSet(Of(P, l)) /\ Cardinality(Of(Q, l)) <= Cardinality(Of(P, l))
      /\ Cardinality(Of(P, l)) \in Nat /\ Cardinality(Of(Q, l)) \in Nat
  BY <1>1, FS_Subset, FS_CardinalityType
<1>3. Of(Q, l) # {} \/ direct[l] > 0 =>
        \E c \in Blocks : S.app[c].file = l /\ S.app[c].state = "running"
  BY <1>1 DEF Covered
<1>4. ASSUME NEW c \in Blocks, S.app[c].file = l, S.app[c].state = "running"
      PROVE  S.app[c].users >= Cardinality(Of(Q, l)) + direct[l]
  <2>1. S.app[c].users >= Cardinality(Of(P, l)) + direct[l] BY <1>4 DEF Covered
  <2>2. S.app[c].users \in Nat
    <3>1. S.app[c] \in AppRecords BY ListIs
    <3> QED BY <3>1, Constants DEF AppRecords
  <2>3. direct[l] \in Nat OBVIOUS
  <2> QED BY <1>2, <2>1, <2>2, <2>3
<1> QED BY <1>3, <1>4

-----------------------------------------------------------------------------
(* What is linked stays when T is what is left of S. *)
Vanished(S, T) == {x \in Blocks : S.app[x].state # "free" /\ T.app[x].state = "free"}

Unlinked(S, T, lk, dg, lk2, dg2) ==
    /\ lk2 = [b \in Blocks |-> IF b \in Vanished(S, T) THEN {} ELSE lk[b] \ Vanished(S, T)]
    /\ dg2 = (dg \cup {b \in Blocks : lk[b] \cap Vanished(S, T) # {}}) \ Vanished(S, T)

LoadsHeld(S, Q) ==
    \A b \in Blocks : S.app[b].state \in Listed => Loaded(Q, b, Needs[S.app[b].file])

LEMMA LinksStay ==
    ASSUME NEW S \in Systems, Shape(S), NEW T \in Systems, Shape(T), NEW out, Wanes(S, T, out),
           NEW Q, Covered(T, Q), NEW lk \in [Blocks -> SUBSET Blocks], NEW dg, LinkedTo(S, lk, dg),
           LoadsHeld(T, Q), NEW lk2, NEW dg2, Unlinked(S, T, lk, dg, lk2, dg2)
    PROVE  LinkedTo(T, lk2, dg2)
<1> DEFINE gone == Vanished(S, T)
<1>0. /\ lk2 = [b \in Blocks |-> IF b \in gone THEN {} ELSE lk[b] \ gone]
      /\ dg2 = (dg \cup {b \in Blocks : lk[b] \cap gone # {}}) \ gone
      /\ gone = {x \in Blocks : S.app[x].state # "free" /\ T.app[x].state = "free"}
  BY DEF Unlinked, Vanished
<1> HIDE DEF gone
<1> SUFFICES ASSUME NEW b \in Blocks
    PROVE /\ T.app[b].state \in {"free", "loading"} => lk2[b] = {} /\ b \notin dg2
          /\ T.app[b].state \in Listed /\ Clean(T.app[b].file) =>
                /\ b \notin dg2
                /\ \A c \in lk2[b] : /\ T.app[c].state = "running"
                                     /\ T.app[c].file \in Imports[T.app[b].file]
  BY DEF LinkedTo
<1>1. ASSUME T.app[b].state \in {"free", "loading"} PROVE lk2[b] = {} /\ b \notin dg2
  <2>1. CASE b \in gone BY <1>0, <2>1
  <2>2. CASE b \notin gone
    <3>1. S.app[b].state \in {"free", "loading"} BY <1>0, <1>1, <2>2 DEF Wanes
    <3>2. lk[b] = {} /\ b \notin dg BY <3>1 DEF LinkedTo
    <3> QED BY <1>0, <2>2, <3>2
  <2> QED BY <2>1, <2>2
<1>2. ASSUME T.app[b].state \in Listed, Clean(T.app[b].file)
      PROVE  /\ b \notin dg2
             /\ \A c \in lk2[b] : /\ T.app[c].state = "running"
                                  /\ T.app[c].file \in Imports[T.app[b].file]
  <2> DEFINE f == T.app[b].file
  <2>1. f = S.app[b].file /\ S.app[b].state \in Listed BY <1>2 DEF Wanes, Listed
  <2>2. f \in Files BY <1>2 DEF Shape, Listed
  <2>3. b \notin dg /\ \A c \in lk[b] : S.app[c].state = "running" /\ S.app[c].file \in Imports[f]
    BY <1>2, <2>1 DEF LinkedTo
  <2>4. ASSUME NEW c \in lk[b] PROVE T.app[c].state = "running" /\ T.app[c].file \in Imports[f]
    <3> DEFINE l == S.app[c].file
    <3>1. l \in Imports[f] /\ S.app[c].state = "running" /\ c \in Blocks BY <2>3
    <3>2. l \in Libs /\ l \notin late /\ l \in Range(Needs[f])
      <4>1. Imports[f] \subseteq Libs BY <2>2, DynLdAssumption
      <4> QED BY <1>2, <3>1, <4>1 DEF Clean
    <3>3. Of(Q, l) # {}
      <4>1. Needs[f] \in Seq(Libs) BY <2>2, Constants
      <4>2. PICK i \in 1 .. Len(Needs[f]) : Needs[f][i] = l BY <3>2, <4>1, LenProperties DEF Range
      <4>3. <<b, i, l>> \in Q BY <1>2, <4>2 DEF Loaded, LoadsHeld
      <4>4. <<b, i, l>>[3] = l OBVIOUS
      <4> QED BY <4>3, <4>4 DEF Of
    <3>4. PICK d \in Blocks : T.app[d].file = l /\ T.app[d].state = "running"
      BY <3>2, <3>3 DEF Covered
    <3>5. S.app[d].file = l /\ S.app[d].state = "running" BY <3>4 DEF Wanes
    <3>6. c \in Range(S.apps) /\ d \in Range(S.apps) BY <3>1, <3>5, ListIs DEF Listed
    <3>7. c = d BY <3>2, <3>5, <3>6 DEF Shape
    <3> QED BY <3>1, <3>4, <3>7
  <2>5. lk[b] \cap gone = {}
    <3>1. ASSUME NEW c \in lk[b] PROVE c \notin gone BY <1>0, <2>4
    <3> QED BY <3>1
  <2>6. b \notin gone BY <1>0, <1>2 DEF Listed
  <2> QED BY <1>0, <2>3, <2>4, <2>5, <2>6
<1> QED BY <1>1, <1>2

-----------------------------------------------------------------------------
(* The frames when nothing is being loaded.  tt has the frames of st, some *)
(* of them gone, or none.                                                  *)
Sweeps(st, T, tt) ==
    /\ tt \in Seq(Frames) /\ Len(tt) = Len(st)
    /\ \A k \in 1 .. Len(st) :
          /\ tt[k].b = st[k].b /\ tt[k].i = st[k].i /\ tt[k].pc = st[k].pc
          /\ st[k].gone => tt[k].gone
          /\ tt[k].gone => st[k].gone \/ T.app[st[k].b].state = "free"
          /\ tt[k].pc = "main" /\ ~ tt[k].gone => T.app[st[k].b].state # "free"

Calm(S, st) ==
    /\ \A k \in 1 .. Len(st) : st[k].pc # "libs"
    /\ st # <<>> => FileAt(S, st, Len(st)) \notin Libs

LEMMA CalmFrames ==
    ASSUME NEW S \in Systems, Shape(S), NEW st \in Seq(Frames), Framed(S, st), Calm(S, st),
           NEW T \in Systems, Shape(T), NEW out, Wanes(S, T, out), NEW tt, tt = <<>> \/ Sweeps(st, T, tt)
    PROVE  /\ Framed(T, tt)
           /\ \A b \in Blocks : S.app[b].state # "loading" /\ T.app[b].state # "loading"
           /\ \A k \in 1 .. Len(tt) : tt[k].pc # "libs"
<1>0. Len(st) \in Nat /\ \A k \in 1 .. Len(st) : st[k].b \in Blocks
  <2>1. \A k \in 1 .. Len(st) : st[k] \in Frames BY LenProperties
  <2> QED BY <2>1, LenProperties DEF Frames
<1>1. ASSUME NEW b \in Blocks PROVE S.app[b].state # "loading" /\ T.app[b].state # "loading"
  <2>1. S.app[b].state # "loading" BY DEF Framed, LoadingOne, Calm
  <2> QED BY <2>1 DEF Wanes
<1>2. ASSUME NEW b \in Blocks PROVE ~ (T.app[b].file \in Libs /\ T.app[b].state = "starting")
  <2>1. SUFFICES ASSUME T.app[b].file \in Libs, T.app[b].state = "starting" PROVE FALSE OBVIOUS
  <2>2. S.app[b].file \in Libs /\ S.app[b].state = "starting" BY <2>1 DEF Wanes
  <2>3. st # <<>> /\ st[Len(st)].b = b BY <2>2 DEF Framed, Starting
  <2> QED BY <2>2, <2>3 DEF Calm, FileAt
<1>3. CASE tt = <<>>
  <2>1. Len(tt) = 0 BY <1>3
  <2>2. Framed(T, tt) BY <1>1, <1>2, <1>3, <2>1 DEF Framed, Starting, LoadingOne
  <2> QED BY <1>1, <2>1, <2>2
<1>4. CASE Sweeps(st, T, tt)
  <2>0. Len(tt) = Len(st)
        /\ \A k \in 1 .. Len(st) : tt[k].b = st[k].b /\ tt[k].pc = st[k].pc /\ (st[k].gone => tt[k].gone)
    BY <1>4 DEF Sweeps
  <2>1. \A k \in 1 .. Len(tt) : tt[k].pc # "libs" BY <2>0 DEF Calm
  <2>2. ASSUME NEW k \in 1 .. Len(tt) PROVE Frame(T, tt, k)
    <3>1. SUFFICES ASSUME tt[k].pc = "main", ~ tt[k].gone
          PROVE  T.app[tt[k].b].state \in Listed /\ (k < Len(tt) => FileAt(T, tt, k) \notin Libs)
      BY <2>1 DEF Frame
    <3> DEFINE b == st[k].b
    <3>2. S.app[b].state \in Listed /\ (k < Len(st) => FileAt(S, st, k) \notin Libs)
          /\ T.app[b].state # "free"
      BY <1>4, <2>0, <3>1 DEF Framed, Frame, Sweeps
    <3>4. b \in Blocks BY <1>0, <2>0
    <3>5. T.app[b].state \in Listed /\ T.app[b].file = S.app[b].file BY <3>2, <3>4 DEF Wanes, Listed
    <3> QED BY <2>0, <3>2, <3>5 DEF FileAt
  <2>3. \A j, k \in 1 .. Len(tt) : Nested(T, tt, j, k) BY <2>1 DEF Nested
  <2>4. Starting(T, tt)
    <3>1. ~ (tt # <<>> /\ tt[Len(tt)].pc = "main" /\ ~ tt[Len(tt)].gone /\ FileAt(T, tt, Len(tt)) \in Libs)
      <4>1. SUFFICES ASSUME tt # <<>>, tt[Len(tt)].pc = "main", ~ tt[Len(tt)].gone,
                            FileAt(T, tt, Len(tt)) \in Libs
                     PROVE FALSE
        OBVIOUS
      <4> DEFINE n == Len(st)
      <4>2. n \in 1 .. n /\ st # <<>>
        <5>1. n # 0 BY <2>0, <4>1, <1>4 DEF Sweeps
        <5> QED BY <1>0, <5>1
      <4>3. T.app[st[n].b].state # "free" /\ tt[n].b = st[n].b BY <1>4, <4>1, <4>2 DEF Sweeps
      <4>4. T.app[st[n].b].file = S.app[st[n].b].file BY <1>0, <4>2, <4>3 DEF Wanes
      <4>5. FileAt(S, st, n) \notin Libs BY <4>2 DEF Calm
      <4> QED BY <2>0, <4>1, <4>3, <4>4, <4>5 DEF FileAt
    <3> QED BY <1>2, <3>1 DEF Starting
  <2>5. \A b \in Blocks : LoadingOne(T, tt, b) BY <1>1 DEF LoadingOne
  <2> QED BY <1>1, <2>1, <2>2, <2>3, <2>4, <2>5 DEF Framed
<1> QED BY <1>3, <1>4
(* The frames when the innermost, which is that of block b, has ended and  *)
(* its block is freed.                                                     *)
Pops(st, T, tt) ==
    /\ st # <<>> /\ tt \in Seq(Frames) /\ Len(tt) = Len(st) - 1
    /\ \A k \in 1 .. (Len(st) - 1) :
          /\ tt[k].b = st[k].b /\ tt[k].i = st[k].i /\ tt[k].pc = st[k].pc
          /\ st[k].gone => tt[k].gone
          /\ tt[k].gone => st[k].gone \/ T.app[st[k].b].state = "free"
          /\ tt[k].pc = "main" /\ ~ tt[k].gone => T.app[st[k].b].state # "free"

LEMMA FramesAre ==
    ASSUME NEW st \in Seq(Frames)
    PROVE  /\ Len(st) \in Nat
           /\ \A k \in 1 .. Len(st) : /\ st[k] \in Frames /\ st[k].b \in Blocks /\ st[k].i \in Nat
                                      /\ st[k].pc \in {"libs", "main"} /\ st[k].gone \in BOOLEAN
           /\ st # <<>> => Len(st) \in 1 .. Len(st)
<1>1. Len(st) \in Nat /\ \A k \in 1 .. Len(st) : st[k] \in Frames BY LenProperties
<1>2. \A k \in 1 .. Len(st) : /\ st[k].b \in Blocks /\ st[k].i \in Nat
                              /\ st[k].pc \in {"libs", "main"} /\ st[k].gone \in BOOLEAN
  BY <1>1 DEF Frames
<1>3. st # <<>> => Len(st) # 0 OBVIOUS
<1> QED BY <1>1, <1>2, <1>3

LEMMA PopFrames ==
    ASSUME NEW S \in Systems, Shape(S), NEW st \in Seq(Frames), Framed(S, st),
           NEW T \in Systems, Shape(T), NEW b, Wanes(S, T, {b}), T.app[b] = Blank,
           NEW tt, Pops(st, T, tt), b = st[Len(st)].b
    PROVE  /\ Framed(T, tt)
           /\ \A k \in 1 .. Len(st) : st[k].pc = "libs" /\ T.app[st[k].b].state # "free" =>
                 /\ k \in 1 .. Len(tt) /\ tt[k].b = st[k].b /\ tt[k].pc = "libs" /\ tt[k].i = st[k].i
           /\ tt # <<>> /\ tt[Len(tt)].pc = "libs" => tt[Len(tt)].i <= Len(Needs[FileAt(T, tt, Len(tt))])
<1> DEFINE n == Len(st)
<1>0. n \in Nat /\ n \in 1 .. n /\ b \in Blocks /\ T.app[b].state = "free"
      /\ \A k \in 1 .. n : st[k].b \in Blocks /\ st[k].pc \in {"libs", "main"}
  BY FramesAre, BlankIs DEF Pops
<1>1. /\ Len(tt) = n - 1
      /\ \A k \in 1 .. (n - 1) : /\ k \in 1 .. n /\ k < n
                                 /\ tt[k].b = st[k].b /\ tt[k].i = st[k].i /\ tt[k].pc = st[k].pc
                                 /\ st[k].gone => tt[k].gone
                                 /\ tt[k].gone => st[k].gone \/ T.app[st[k].b].state = "free"
                                 /\ tt[k].pc = "main" /\ ~ tt[k].gone => T.app[st[k].b].state # "free"
  BY <1>0 DEF Pops
<1>2. /\ \A k \in 1 .. n : Frame(S, st, k)
      /\ \A j, k \in 1 .. n : Nested(S, st, j, k)
      /\ Starting(S, st)
      /\ \A x \in Blocks : LoadingOne(S, st, x)
  BY DEF Framed
<1> HIDE DEF n
<1>3. ASSUME NEW k \in 1 .. (n - 1), st[k].pc = "libs"
      PROVE  /\ S.app[st[k].b].state = "loading" /\ T.app[st[k].b].state = "loading"
             /\ ~ st[k].gone /\ ~ tt[k].gone /\ st[k].b # b
             /\ T.app[st[k].b].file = S.app[st[k].b].file /\ T.app[st[k].b].host = S.app[st[k].b].host
             /\ S.app[b].file \in Libs
             /\ FileAt(T, tt, k) = FileAt(S, st, k)
  <2>1. S.app[st[k].b].state = "loading" /\ ~ st[k].gone BY <1>1, <1>2, <1>3 DEF Frame
  <2>2. st[k].b # b /\ S.app[b].file \in Libs BY <1>0, <1>1, <1>2, <1>3 DEF Nested, FileAt, n
  <2>3. st[k].b \in Blocks BY <1>0, <1>1
  <2>4. /\ T.app[st[k].b].state = "loading" /\ T.app[st[k].b].file = S.app[st[k].b].file
        /\ T.app[st[k].b].host = S.app[st[k].b].host
    BY <2>1, <2>2, <2>3 DEF Wanes, Listed
  <2> QED BY <1>1, <2>1, <2>2, <2>4 DEF FileAt
<1>4. ASSUME NEW f, InList(T, f) PROVE InList(S, f)
  <2>1. PICK c \in Range(T.apps) : T.app[c].file = f BY <1>4 DEF InList
  <2>2. c \in Blocks /\ T.app[c].state \in Listed BY <2>1, ListIs
  <2>3. S.app[c].state \in Listed /\ S.app[c].file = f BY <2>1, <2>2 DEF Wanes, Listed
  <2> QED BY <2>2, <2>3, ListIs DEF InList
<1>5. ASSUME NEW k \in 1 .. (n - 1), st[k].pc = "libs", NEW i \in 1 .. st[k].i - 1
      PROVE  InList(T, Needs[FileAt(S, st, k)][i])
  <2> DEFINE l == Needs[FileAt(S, st, k)][i]
  <2>1. InList(S, l) BY <1>1, <1>2, <1>5 DEF Frame
  <2>2. PICK c \in Range(S.apps) : S.app[c].file = l BY <2>1 DEF InList
  <2>3. c \in Blocks /\ S.app[c].state \in Listed BY <2>2, ListIs
  <2>4. l \in Libs
    <3>1. st[k].i \in 1 .. Len(Needs[FileAt(S, st, k)]) + 1 BY <1>1, <1>2, <1>5 DEF Frame
    <3>2. FileAt(S, st, k) \in Files BY <1>0, <1>1, <1>3, <1>5 DEF Shape, FileAt
    <3>3. Needs[FileAt(S, st, k)] \in Seq(Libs) BY <3>2, Constants
    <3>4. Len(Needs[FileAt(S, st, k)]) \in Nat
          /\ \A m \in 1 .. Len(Needs[FileAt(S, st, k)]) : Needs[FileAt(S, st, k)][m] \in Libs
      BY <3>3, LenProperties
    <3>5. i \in 1 .. Len(Needs[FileAt(S, st, k)]) BY <3>1, <3>4
    <3> QED BY <3>4, <3>5
  <2>5. S.app[c].host = NULL BY <2>2, <2>3, <2>4 DEF Shape
  <2>6. c # b
    <3>1. SUFFICES ASSUME c = b PROVE FALSE OBVIOUS
    <3>2. st[n].pc # "libs" BY <1>0, <1>2, <2>3, <3>1 DEF Frame, Listed, n
    <3>3. st[n].pc = "main" BY <1>0, <3>2
    <3>4. l # FileAt(S, st, n) BY <1>0, <1>1, <1>2, <1>5, <3>3 DEF Nested
    <3> QED BY <2>2, <3>1, <3>4 DEF FileAt, n
  <2>7. T.app[c].file = l /\ T.app[c].state \in Listed BY <2>2, <2>3, <2>5, <2>6 DEF Wanes, Listed
  <2> QED BY <2>3, <2>7, ListIs DEF InList
<1>6. ASSUME NEW k \in 1 .. (n - 1) PROVE Frame(T, tt, k)
  <2>1. CASE st[k].pc = "libs" BY <1>1, <1>2, <1>3, <1>4, <1>5, <2>1 DEF Frame
  <2>2. CASE st[k].pc = "main"
    <3> SUFFICES ASSUME ~ tt[k].gone
        PROVE  T.app[tt[k].b].state \in Listed /\ FileAt(T, tt, k) \notin Libs
      BY <1>1, <2>2 DEF Frame
    <3>1. S.app[st[k].b].state \in Listed /\ FileAt(S, st, k) \notin Libs
      BY <1>1, <1>2, <2>2 DEF Frame, n
    <3>2. T.app[st[k].b].state # "free" /\ st[k].b \in Blocks BY <1>0, <1>1, <2>2
    <3>3. T.app[st[k].b].state \in Listed /\ T.app[st[k].b].file = S.app[st[k].b].file
      BY <3>1, <3>2 DEF Wanes, Listed
    <3> QED BY <1>1, <3>1, <3>3 DEF FileAt
  <2> QED BY <1>0, <1>1, <2>1, <2>2
<1>7. ASSUME NEW j \in 1 .. (n - 1), NEW k \in 1 .. (n - 1) PROVE Nested(T, tt, j, k)
  <2> SUFFICES ASSUME st[j].pc = "libs", j < k
      PROVE /\ FileAt(T, tt, k) \in Libs /\ ~ tt[k].gone /\ tt[k].b # tt[j].b
            /\ k = j + 1 => tt[j].i <= Len(Needs[FileAt(T, tt, j)])
                            /\ Needs[FileAt(T, tt, j)][tt[j].i] = FileAt(T, tt, k)
            /\ tt[k].pc # "main"
    BY <1>1 DEF Nested
  <2>1. Nested(S, st, j, k) BY <1>1, <1>2
  <2>2. st[k].pc = "libs"
    <3>1. st[k].pc # "main" BY <1>1, <2>1 DEF Nested, n
    <3> QED BY <1>0, <1>1, <3>1
  <2> QED BY <1>1, <1>3, <2>1, <2>2 DEF Nested
<1>8. Starting(T, tt)
  <2>1. ASSUME NEW x \in Blocks, T.app[x].file \in Libs, T.app[x].state = "starting" PROVE FALSE
    <3>1. S.app[x].file \in Libs /\ S.app[x].state = "starting" BY <2>1 DEF Wanes
    <3>2. x = b BY <1>2, <3>1 DEF Starting
    <3> QED BY <1>0, <2>1, <3>2
  <2>2. ASSUME tt # <<>>, tt[n - 1].pc = "main", ~ tt[n - 1].gone, FileAt(T, tt, n - 1) \in Libs,
               n - 1 \in 1 .. (n - 1)
        PROVE  FALSE
    <3>1. Frame(S, st, n - 1) /\ st[n - 1].pc = "main" /\ ~ st[n - 1].gone BY <1>1, <1>2, <2>2
    <3>2. FileAt(S, st, n - 1) \notin Libs BY <1>1, <2>2, <3>1 DEF Frame, n
    <3>3. T.app[st[n - 1].b].state # "free" /\ st[n - 1].b \in Blocks BY <1>0, <1>1, <2>2
    <3>4. T.app[st[n - 1].b].file = S.app[st[n - 1].b].file BY <3>3 DEF Wanes
    <3> QED BY <1>1, <2>2, <3>2, <3>4 DEF FileAt
  <2>3. CASE n = 1
    <3>1. Len(tt) = 0 BY <1>1, <2>3
    <3> QED BY <2>1, <3>1 DEF Starting
  <2>4. CASE n # 1
    <3>1. n - 1 \in 1 .. (n - 1) BY <1>0, <2>4
    <3> QED BY <1>1, <2>1, <2>2, <3>1 DEF Starting
  <2> QED BY <2>3, <2>4
<1>9. ASSUME NEW x \in Blocks PROVE LoadingOne(T, tt, x)
  <2> SUFFICES ASSUME T.app[x].state = "loading"
      PROVE /\ \E k \in 1 .. Len(tt) : tt[k].b = x /\ tt[k].pc = "libs"
            /\ T.app[x].host # NULL =>
                  /\ T.app[T.app[x].host].state \in {"starting", "running"}
                  /\ T.app[T.app[x].host].file \notin Libs
    BY DEF LoadingOne
  <2>1. S.app[x].state = "loading" /\ T.app[x].host = S.app[x].host BY DEF Wanes, Listed
  <2>2. PICK k \in 1 .. n : st[k].b = x /\ st[k].pc = "libs" BY <1>2, <2>1 DEF LoadingOne, n
  <2>3. k # n BY <1>0, <2>2 DEF n
  <2>4. k \in 1 .. (n - 1) BY <1>0, <2>2, <2>3
  <2>5. ASSUME T.app[x].host # NULL
        PROVE  /\ T.app[T.app[x].host].state \in {"starting", "running"}
               /\ T.app[T.app[x].host].file \notin Libs
    <3> DEFINE h == T.app[x].host
    <3>1. h \in Blocks /\ S.app[h].host = NULL BY <2>1, <2>5, ListIs DEF Shape
    <3>2. S.app[h].state \in {"starting", "running"} /\ S.app[h].file \notin Libs
      BY <1>2, <2>1, <2>5 DEF LoadingOne
    <3>3. h # b BY <1>3, <2>2, <2>4, <3>2
    <3>4. T.app[h].state = S.app[h].state /\ T.app[h].file = S.app[h].file
      BY <3>1, <3>2, <3>3 DEF Wanes, Listed
    <3> QED BY <3>2, <3>4
  <2> QED BY <1>1, <2>2, <2>4, <2>5
<1>10. Framed(T, tt) BY <1>1, <1>6, <1>7, <1>8, <1>9 DEF Framed
<1>11. ASSUME NEW k \in 1 .. n, st[k].pc = "libs", T.app[st[k].b].state # "free"
       PROVE  k \in 1 .. Len(tt) /\ tt[k].b = st[k].b /\ tt[k].pc = "libs" /\ tt[k].i = st[k].i
  <2>1. k # n BY <1>0, <1>11 DEF n
  <2>2. k \in 1 .. (n - 1) BY <1>0, <2>1
  <2> QED BY <1>1, <1>11, <2>2
<1>12. ASSUME tt # <<>>, tt[Len(tt)].pc = "libs", n # 1
       PROVE  tt[Len(tt)].i <= Len(Needs[FileAt(T, tt, Len(tt))])
  <2>1. n - 1 \in 1 .. (n - 1) /\ (n - 1) + 1 = n BY <1>0, <1>12
  <2>2. Nested(S, st, n - 1, n) /\ st[n - 1].pc = "libs" BY <1>0, <1>1, <1>2, <1>12, <2>1
  <2>3. st[n - 1].i <= Len(Needs[FileAt(S, st, n - 1)]) BY <1>1, <2>1, <2>2 DEF Nested
  <2> QED BY <1>1, <1>3, <2>1, <2>2, <2>3
<1>13. n = 1 => tt = <<>> BY <1>1 DEF Pops
<1> HIDE DEF Framed, FileAt, Wanes, Pops
<1>14. tt # <<>> /\ tt[Len(tt)].pc = "libs" => tt[Len(tt)].i <= Len(Needs[FileAt(T, tt, Len(tt))])
  BY <1>12, <1>13
<1> QED BY <1>10, <1>11, <1>14 DEF n

-----------------------------------------------------------------------------
(* A step that closes and frees, and makes nothing. *)
LEMMA Becomes ==
    ASSUME IInv, ret # "down", NEW T, Become(T), direct' = direct,
           up' \in BOOLEAN, GSExit' \in BOOLEAN, ops' \in 0 .. MaxOps,
           NEW tt \in Seq(Frames), Len(tt) <= MaxFrames, stack' = tt,
           NEW q \in {"none", "ok", "null"}, ret' = q,
           NEW Q, IsFiniteSet(Q), Good(T, Q), Loads(T, tt, q) \subseteq Q,
           NEW out, Wanes(ld, T, out), Framed(T, tt), Answered(T, tt, q)
    PROVE  IInv'
<1> DEFINE lk == [b \in Blocks |-> IF b \in Vanished(ld, T) THEN {} ELSE links[b] \ Vanished(ld, T)]
           dg == (dangling \cup {b \in Blocks : links[b] \cap Vanished(ld, T) # {}}) \ Vanished(ld, T)
           P == Loads(T, tt, q)
<1>1. ld' = T /\ links' = lk /\ dangling' = dg /\ late' = late BY DEF Become, Vanished
<1>2. /\ TypeOK /\ Shape(ld) /\ ld \in Systems /\ direct \in [Libs -> Nat]
      /\ links \in [Blocks -> SUBSET Blocks] /\ dangling \subseteq Blocks
      /\ LinkedTo(ld, links, dangling)
  BY DEF IInv, TypeOK
<1>3. T \in Systems /\ Shape(T) /\ Symbols(T) /\ Covered(T, Q) BY DEF Good
<1>4. Covered(T, P)
  <2> HIDE DEF P
  <2>1. P \subseteq Q BY DEF P
  <2> QED BY <1>2, <1>3, <2>1, CoveredLess
<1>5. ASSUME NEW b \in Blocks, T.app[b].state \in Listed
      PROVE  Loaded(P, b, Needs[T.app[b].file])
  <2>1. \A k \in 1 .. Len(tt) : tt[k].pc = "libs" => T.app[tt[k].b].state = "loading"
    BY DEF Framed, Frame
  <2>2. \A k \in 1 .. Len(tt) : tt[k].b = b => tt[k].pc # "libs" BY <1>5, <2>1 DEF Listed
  <2> QED BY <1>3, <1>5, <2>2, LoadsAll DEF Listed
<1>6. LinkedTo(T, lk, dg)
  <2>1. Unlinked(ld, T, links, dangling, lk, dg) BY DEF Unlinked
  <2> HIDE DEF P, lk, dg
  <2>2. LoadsHeld(T, P) BY <1>5 DEF LoadsHeld
  <2> QED BY <1>2, <1>3, <1>4, <2>1, <2>2, LinksStay
<1>7. lk \in [Blocks -> SUBSET Blocks] /\ dg \subseteq Blocks BY <1>2
<1> HIDE DEF lk, dg
<1>8. TypeOK'
  <2>1. Len(stack') <= MaxFrames /\ stack' \in Seq(Frames) OBVIOUS
  <2>2. late' \subseteq Libs /\ direct' \in [Libs -> Nat] BY <1>1, <1>2 DEF TypeOK
  <2> QED BY <1>1, <1>3, <1>7, <2>1, <2>2 DEF TypeOK, Depth
<1>9. Covered(ld, Loads(ld, stack, ret))'
  <2> HIDE DEF P
  <2>1. Covered(T, P)' BY <1>1, <1>4 DEF Covered
  <2> QED BY <1>1, <2>1 DEF P
<1>10. LinkedTo(ld, links, dangling)'
  <2>1. ld' = T /\ links' = lk /\ dangling' = dg /\ late' = late BY <1>1 DEF lk, dg
  <2> QED BY <1>6, <2>1 DEF LinkedTo, Clean
<1>11. Shape(ld)' /\ Symbols(ld)' BY <1>1, <1>3
<1>12. Framed(ld, stack)' /\ Answered(ld, stack, ret)' BY <1>1
<1> QED BY <1>8, <1>9, <1>10, <1>11, <1>12 DEF IInv

-----------------------------------------------------------------------------
(* What an application closes, breaks, or DynLdTCP collects, while nothing *)
(* is being loaded.                                                        *)
Held(S) == Loads(S, <<>>, "none")

Settled(S) ==
    /\ Good(S, Held(S))
    /\ \A x \in Blocks : /\ S.app[x].state # "loading"
                         /\ S.app[x].state = "starting" => S.app[x].file \notin Libs

LEMMA HeldLess ==
    ASSUME NEW S \in Systems, Shape(S), NEW T, NEW out, Wanes(S, T, out)
    PROVE  /\ Held(T) \subseteq Held(S)
           /\ \A b \in Blocks : T.app[b].state = "free" => Held(T) \subseteq NotOf(Held(S), b)
<1> DEFINE e == <<>>
<1>1. "none" # "ok" OBVIOUS
<1>2. \A k \in 1 .. Len(e) : e[k].pc = "libs" /\ T.app[e[k].b].state # "free" =>
         \E j \in 1 .. Len(e) : e[j].b = e[k].b /\ e[j].pc = "libs" /\ e[j].i = e[k].i
  OBVIOUS
<1> HIDE DEF e
<1>3. /\ Loads(T, e, "none") \subseteq Loads(S, e, "none")
      /\ \A b \in Blocks : T.app[b].state = "free" =>
            Loads(T, e, "none") \subseteq NotOf(Loads(S, e, "none"), b)
  BY <1>1, <1>2, LoadsShrink
<1> QED BY <1>3 DEF Held, e

LEMMA SettledLess ==
    ASSUME direct \in [Libs -> Nat], NEW S, Settled(S), NEW T, NEW out, Shrunk(S, T, out),
           NEW Q, Good(T, Q), Q = Held(S) \/ \E b \in Blocks : Q = NotOf(Held(S), b) /\ T.app[b].state = "free"
    PROVE  Settled(T)
<1>1. /\ S \in Systems /\ Shape(S) /\ Wanes(S, T, out)
      /\ T \in Systems /\ Shape(T) /\ Symbols(T) /\ Covered(T, Q)
  BY DEF Settled, Good, Shrunk
<1>2. IsFiniteSet(Held(S)) BY <1>1, LoadsFinite DEF Held
<1>3. IsFiniteSet(Q) /\ Held(T) \subseteq Q
  <2>1. Q \subseteq Held(S) BY DEF NotOf
  <2>2. IsFiniteSet(Q) BY <1>2, <2>1, FS_Subset
  <2>3. Held(T) \subseteq Q BY <1>1, HeldLess
  <2> QED BY <2>2, <2>3
<1>4. Covered(T, Held(T)) BY <1>1, <1>3, CoveredLess
<1>5. \A x \in Blocks : /\ T.app[x].state # "loading"
                        /\ T.app[x].state = "starting" => T.app[x].file \notin Libs
  BY <1>1 DEF Settled, Wanes
<1> QED BY <1>1, <1>4, <1>5 DEF Settled, Good

LEMMA Wider ==
    ASSUME NEW S, NEW T, NEW b, Shrunk(S, T, {b}), NEW out, b \in out
    PROVE  Shrunk(S, T, out)
<1>1. Wanes(S, T, out) BY DEF Shrunk, Wanes
<1> QED BY <1>1 DEF Shrunk

LEMMA HeldBy ==
    ASSUME NEW S, Settled(S), NEW b \in Blocks, S.app[b].state # "free"
    PROVE  /\ Loaded(Held(S), b, Needs[S.app[b].file]) /\ IsFiniteSet(Held(S))
           /\ Needs[S.app[b].file] \in Seq(Libs)
<1>1. S \in Systems /\ Shape(S) BY DEF Settled, Good
<1> DEFINE e == <<>>
<1>2. \A k \in 1 .. Len(e) : e[k].b = b => e[k].pc # "libs" OBVIOUS
<1> HIDE DEF e
<1>3. Loaded(Loads(S, e, "none"), b, Needs[S.app[b].file]) BY <1>1, <1>2, LoadsAll
<1>4. IsFiniteSet(Loads(S, e, "none")) BY <1>1, LoadsFinite
<1>5. S.app[b].file \in Files BY <1>1 DEF Shape
<1> QED BY <1>3, <1>4, <1>5, Constants DEF Held, e

LEMMA CloseSettled ==
    ASSUME direct \in [Libs -> Nat], NEW S, Settled(S), NEW b \in Blocks, S.app[b].state \in Listed,
           S.app[b].file \notin Libs, NEW out, b \in out
    PROVE  LET T == CloseApp(S, b) IN Settled(T) /\ Shrunk(S, T, out)
<1> DEFINE T == CloseApp(S, b)
<1>1. Good(S, Held(S)) /\ Unheld(Held(S), S.app[b].file) BY DEF Settled, Unheld
<1> HIDE DEF T
<1>2. Good(T, Held(S)) /\ Shrunk(S, T, {b}) BY <1>1, CloseCovered DEF T
<1>3. Shrunk(S, T, out) BY <1>2, Wider
<1>4. Settled(T) BY <1>2, <1>3, SettledLess
<1> QED BY <1>3, <1>4 DEF T

LEMMA BreakSettled ==
    ASSUME direct \in [Libs -> Nat], NEW S, Settled(S), NEW b \in Blocks, S.app[b].state \in Listed,
           S.app[b].file \notin Libs, NEW out, b \in out
    PROVE  LET T == Broken(S, b) IN Settled(T) /\ Shrunk(S, T, out)
<1> DEFINE T == Broken(S, b)
<1>1. Good(S, Held(S)) /\ Unheld(Held(S), S.app[b].file) BY DEF Settled, Unheld
<1>2. Loaded(Held(S), b, Needs[S.app[b].file]) /\ IsFiniteSet(Held(S)) BY HeldBy DEF Listed
<1> HIDE DEF T
<1>3. Good(T, NotOf(Held(S), b)) /\ Shrunk(S, T, out) /\ T.app[b] = Blank BY <1>1, <1>2, BrokenIs DEF T
<1>4. Settled(T) BY <1>3, BlankIs, SettledLess
<1> QED BY <1>3, <1>4 DEF T

LEMMA CollectSettled ==
    ASSUME direct \in [Libs -> Nat], NEW S, Settled(S), NEW b \in Blocks, S.app[b].state = "tofree",
           NEW out, b \in out
    PROVE  LET T == Freed(UnLoadLibraries(S, b), b) IN Settled(T) /\ Shrunk(S, T, out)
<1> DEFINE U == UnLoadLibraries(S, b)  T == Freed(U, b)  ids == Needs[S.app[b].file]
<1>1. Good(S, Held(S)) BY DEF Settled
<1>2. Loaded(Held(S), b, ids) /\ IsFiniteSet(Held(S)) /\ ids \in Seq(Libs) BY HeldBy
<1> HIDE DEF U, T
<1>3. Good(U, NotOf(Held(S), b)) /\ Shrunk(S, U, out)
  <2> HIDE DEF ids
  <2> QED BY <1>1, <1>2, UnLoadsIs DEF U, ids
<1>4. U.app[b].state \notin {"starting", "running"} BY <1>3 DEF Shrunk, Wanes, Listed
<1>5. Good(T, NotOf(Held(S), b)) /\ Shrunk(U, T, out) /\ T.app[b] = Blank
  BY <1>3, <1>4, FreedCovered DEF T
<1>6. Shrunk(S, T, out) BY <1>1, <1>3, <1>5, ShrunkTwice DEF Good
<1>7. Settled(T) BY <1>5, <1>6, BlankIs, SettledLess
<1> QED BY <1>6, <1>7 DEF T, U

(* CollectAll, as its recursion says. *)
Collects(S, bs, w) ==
    /\ w[0] = [S |-> S, jump |-> FALSE]
    /\ \A k \in 1 .. Len(bs) : w[k] = Collect(w[k - 1], bs[k])

LEMMA CollectsDef ==
    ASSUME NEW S, NEW bs, Len(bs) \in Nat
    PROVE  \E w : Collects(S, bs, w) /\ CollectAll(S, bs) = w[Len(bs)]
<1> DEFINE val(w, k) == IF k = 0 THEN [S |-> S, jump |-> FALSE]
                        ELSE CHOOSE r \in {Collect(W, bs[k]) : W \in {w[k - 1]}} : TRUE
           Def(n, w) == w = [k \in 0 .. n |-> val(w, k)]
           A == {n \in Nat : \E w : Def(n, w)}
           f == CHOOSE w : Def(Len(bs), w)
<1>1. CollectAll(S, bs) = f[Len(bs)] BY Zenon DEF CollectAll, With
<1>2. 0 \in A
  <2> DEFINE z == [S |-> S, jump |-> FALSE]
  <2>1. Def(0, [k \in 0 .. 0 |-> z]) OBVIOUS
  <2> HIDE DEF Def
  <2> QED BY <2>1
<1>3. ASSUME NEW n \in Nat, n \in A PROVE n + 1 \in A
  <2>1. PICK w : Def(n, w) BY <1>3
  <2> DEFINE v == [k \in 0 .. (n + 1) |-> IF k = n + 1 THEN val(w, n + 1) ELSE w[k]]
  <2>2. \A k \in 0 .. n : w[k] = val(w, k)
    <3> HIDE DEF val
    <3> QED BY <2>1
  <2>3. ASSUME NEW k \in 0 .. (n + 1) PROVE v[k] = val(v, k)
    <3>1. k = 0 \/ k - 1 \in 0 .. n OBVIOUS
    <3>2. \A j \in 0 .. n : v[j] = w[j]
      <4> HIDE DEF val
      <4> QED OBVIOUS
    <3>3. v[k] = val(w, k)
      <4> HIDE DEF val
      <4>1. CASE k = n + 1 BY <4>1
      <4>2. CASE k # n + 1
        <5>1. k \in 0 .. n BY <4>2
        <5> HIDE DEF v
        <5> QED BY <2>2, <3>2, <5>1
      <4> QED BY <4>1, <4>2
    <3> HIDE DEF v
    <3> QED BY <3>1, <3>2, <3>3
  <2> HIDE DEF val
  <2>4. Def(n + 1, v) BY <2>3
  <2> HIDE DEF Def, v
  <2> QED BY <2>4
<1>4. Nat \subseteq A
  <2> HIDE DEF A
  <2> QED BY <1>2, <1>3, SetInduction
<1>5. Def(Len(bs), f)
  <2>1. \E w : Def(Len(bs), w) BY <1>4
  <2> HIDE DEF Def
  <2> QED BY <2>1, Zenon
<1> HIDE DEF f
<1>6. \A k \in 0 .. Len(bs) : f[k] = val(f, k)
  <2> HIDE DEF val
  <2> QED BY <1>5
<1>7. Collects(S, bs, f)
  <2>1. f[0] = val(f, 0)
    <3> HIDE DEF val
    <3> QED BY <1>6
  <2>2. ASSUME NEW k \in 1 .. Len(bs) PROVE f[k] = Collect(f[k - 1], bs[k])
    <3>1. k \in 0 .. Len(bs) /\ k # 0 OBVIOUS
    <3>2. f[k] = val(f, k)
      <4> HIDE DEF val
      <4> QED BY <1>6, <3>1
    <3> QED BY <3>1, <3>2
  <2>3. f[0] = [S |-> S, jump |-> FALSE] BY <2>1
  <2> QED BY <2>2, <2>3 DEF Collects
<1> QED BY <1>1, <1>7

LEMMA CollectAllIs ==
    ASSUME direct \in [Libs -> Nat], NEW S, Settled(S), NEW bs, Len(bs) \in Nat,
           \A k \in 1 .. Len(bs) : bs[k] \in Blocks
    PROVE  LET W == CollectAll(S, bs) IN Settled(W.S) /\ Shrunk(S, W.S, Blocks)
<1>1. PICK w : Collects(S, bs, w) /\ CollectAll(S, bs) = w[Len(bs)] BY CollectsDef
<1> DEFINE Done(W) == /\ W = [S |-> W.S, jump |-> W.jump]
                      /\ Settled(W.S) /\ Shrunk(S, W.S, Blocks)
           A == {k \in Nat : k <= Len(bs) => Done(w[k])}
<1>2. 0 \in A
  <2>1. w[0] = [S |-> S, jump |-> FALSE] BY <1>1 DEF Collects
  <2>2. Done(w[0]) BY <2>1, ShrunkItself
  <2> HIDE DEF Done
  <2> QED BY <2>2
<1>3. ASSUME NEW k \in Nat, k \in A PROVE k + 1 \in A
  <2> SUFFICES ASSUME k + 1 <= Len(bs) PROVE Done(w[k + 1])
    <3> HIDE DEF Done
    <3> QED OBVIOUS
  <2> DEFINE W == w[k]  b == bs[k + 1]  X == w[k + 1]
  <2>0. b \in Blocks /\ X = Collect(W, b)
    <3>1. k + 1 \in 1 .. Len(bs) /\ (k + 1) - 1 = k OBVIOUS
    <3> QED BY <1>1, <3>1 DEF Collects
  <2>1. W = [S |-> W.S, jump |-> W.jump] /\ Settled(W.S) /\ Shrunk(S, W.S, Blocks) BY <1>3
  <2>2. Shape(W.S) /\ W.S \in Systems /\ Shape(S) /\ S \in Systems BY <2>1 DEF Settled, Good
  <2> SUFFICES X = [S |-> X.S, jump |-> X.jump] /\ Settled(X.S) /\ Shrunk(W.S, X.S, Blocks)
    <3> HIDE DEF W, X
    <3>1. ASSUME Settled(X.S), Shrunk(W.S, X.S, Blocks) PROVE Shrunk(S, X.S, Blocks)
      <4>1. X.S \in Systems /\ Shape(X.S) BY <3>1 DEF Settled, Good
      <4> QED BY <2>1, <2>2, <3>1, <4>1, ShrunkTwice
    <3> QED BY <3>1 DEF X
  <2> HIDE DEF W, X, b
  <2>3. CASE W.jump \/ ~ (W.S.app[b].state = "tofree" \/ (W.S.app[b].state = "starting" /\ GSExit))
    <3>1. X = W BY <2>0, <2>3 DEF Collect
    <3> QED BY <2>1, <3>1, ShrunkItself
  <2>4. CASE ~ W.jump /\ W.S.app[b].state = "tofree"
    <3> DEFINE T == Freed(UnLoadLibraries(W.S, b), b)
    <3>0. T = CHOOSE r \in {Freed(V, b) : V \in {UnLoadLibraries(W.S, b)}} : TRUE BY Zenon
    <3> HIDE DEF T
    <3>1. X = [W EXCEPT !.S = T] BY <2>0, <2>4, <3>0 DEF Collect, With
    <3>2. Settled(T) /\ Shrunk(W.S, T, Blocks) BY <2>0, <2>1, <2>4, CollectSettled DEF T
    <3>3. X.S = T /\ X = [S |-> X.S, jump |-> X.jump] BY <2>1, <3>1
    <3> QED BY <3>2, <3>3
  <2>5. CASE ~ W.jump /\ W.S.app[b].state = "starting" /\ GSExit
    <3> DEFINE T == Broken(W.S, b)
    <3>1. X = [S |-> T, jump |-> TRUE] BY <2>0, <2>5 DEF Collect
    <3>2. W.S.app[b].state \in Listed /\ W.S.app[b].file \notin Libs BY <2>0, <2>1, <2>5 DEF Settled, Listed
    <3>3. Settled(T) /\ Shrunk(W.S, T, Blocks) BY <2>0, <2>1, <3>2, BreakSettled
    <3> HIDE DEF T
    <3> QED BY <3>1, <3>3
  <2> QED BY <2>3, <2>4, <2>5
<1>4. Nat \subseteq A
  <2> HIDE DEF A
  <2> QED BY <1>2, <1>3, SetInduction
<1>5. Done(w[Len(bs)])
  <2> HIDE DEF Done
  <2> QED BY <1>4
<1> QED BY <1>1, <1>5

(* Swept frames. *)
LEMMA SweptIs ==
    ASSUME NEW st \in Seq(Frames), NEW T
    PROVE  Sweeps(st, T, Swept(st, T))
<1> DEFINE tt == Swept(st, T)
<1>0. Len(st) \in Nat /\ \A k \in 1 .. Len(st) : st[k] \in Frames BY LenProperties
<1>1. tt = [k \in 1 .. Len(st) |-> [st[k] EXCEPT !.gone = @ \/ T.app[st[k].b].state = "free"]] BY DEF Swept
<1> HIDE DEF tt
<1>2. ASSUME NEW k \in 1 .. Len(st)
      PROVE /\ tt[k] \in Frames
            /\ tt[k].b = st[k].b /\ tt[k].i = st[k].i /\ tt[k].pc = st[k].pc
            /\ tt[k].gone <=> st[k].gone \/ T.app[st[k].b].state = "free"
  <2>1. tt[k] = [st[k] EXCEPT !.gone = @ \/ T.app[st[k].b].state = "free"] BY <1>1
  <2>2. st[k] = [b |-> st[k].b, i |-> st[k].i, pc |-> st[k].pc, gone |-> st[k].gone]
        /\ st[k].b \in Blocks /\ st[k].i \in Nat /\ st[k].pc \in {"libs", "main"} /\ st[k].gone \in BOOLEAN
    BY <1>0 DEF Frames
  <2> DEFINE g == st[k].gone \/ T.app[st[k].b].state = "free"
  <2>3. g \in BOOLEAN OBVIOUS
  <2>4. tt[k] = [b |-> st[k].b, i |-> st[k].i, pc |-> st[k].pc, gone |-> g]
    BY <1>0, <2>1 DEF Frames
  <2>5. tt[k].gone = g BY <2>4
  <2> HIDE DEF g
  <2>6. tt[k] \in Frames /\ tt[k].b = st[k].b /\ tt[k].i = st[k].i /\ tt[k].pc = st[k].pc
    BY <2>2, <2>3, <2>4 DEF Frames
  <2> QED BY <2>5, <2>6 DEF g
<1>3. tt \in Seq(Frames) /\ Len(tt) = Len(st)
  <2>1. tt \in [1 .. Len(st) -> Frames] BY <1>1, <1>2
  <2> QED BY <1>0, <2>1, SeqDef, LenProperties
<1>4. Sweeps(st, T, tt) BY <1>2, <1>3 DEF Sweeps
<1> QED BY <1>4 DEF tt

LEMMA CalmIs ==
    ASSUME IInv, ret = "none", stack # <<>> => Top.pc = "main" /\ ld.app[Top.b].file \notin Libs
    PROVE  Calm(ld, stack) /\ Settled(ld)
<1>0. stack \in Seq(Frames) /\ ld \in Systems /\ direct \in [Libs -> Nat] /\ Framed(ld, stack)
  BY DEF IInv, TypeOK
<1>1. /\ Len(stack) \in Nat /\ (stack # <<>> => Len(stack) \in 1 .. Len(stack))
      /\ stack = <<>> => Len(stack) = 0
  BY <1>0, FramesAre
<1>2. ASSUME NEW k \in 1 .. Len(stack) PROVE stack[k].pc # "libs"
  <2>1. stack # <<>> BY <1>1
  <2>2. k = Len(stack) => stack[k].pc = "main" BY <2>1 DEF Top, Depth
  <2>3. k < Len(stack) => ~ (stack[k].pc = "libs")
    <3>1. FileAt(ld, stack, Len(stack)) \notin Libs BY <2>1 DEF Top, Depth, FileAt
    <3> QED BY <1>0, <1>1, <2>1, <3>1 DEF Framed, Nested
  <2> QED BY <1>1, <2>2, <2>3
<1>3. Calm(ld, stack) BY <1>2 DEF Calm, Top, Depth, FileAt
<1>4. ASSUME NEW x \in Blocks
      PROVE  ld.app[x].state # "loading" /\ (ld.app[x].state = "starting" => ld.app[x].file \notin Libs)
  <2>1. ld.app[x].state # "loading" BY <1>0, <1>2 DEF Framed, LoadingOne
  <2>2. ASSUME ld.app[x].state = "starting", ld.app[x].file \in Libs PROVE FALSE
    <3>1. stack # <<>> /\ stack[Len(stack)].b = x BY <1>0, <2>2 DEF Framed, Starting
    <3> QED BY <2>2, <3>1 DEF Top, Depth
  <2> QED BY <2>1, <2>2
<1>5. Covered(ld, Held(ld))
  <2> DEFINE P == Loads(ld, stack, ret)  e == <<>>
  <2>1. Shape(ld) /\ Covered(ld, P) BY DEF IInv
  <2>2. IsFiniteSet(P) BY <1>0, <2>1, LoadsFinite
  <2>3. Wanes(ld, ld, {}) BY DEF Wanes
  <2>4. Held(ld) \subseteq P
    <3>1. Loads(ld, e, "none") \subseteq Loads(ld, stack, ret)
      <4>1. "none" # "ok" OBVIOUS
      <4>2. \A k \in 1 .. Len(stack) : stack[k].pc = "libs" /\ ld.app[stack[k].b].state # "free" =>
              \E j \in 1 .. Len(e) : e[j].b = stack[k].b /\ e[j].pc = "libs" /\ e[j].i = stack[k].i
        BY <1>2
      <4> HIDE DEF e
      <4> QED BY <1>0, <2>1, <2>3, <4>1, <4>2, LoadsShrink
    <3> QED BY <3>1 DEF Held
  <2> HIDE DEF P
  <2> QED BY <1>0, <2>1, <2>2, <2>4, CoveredLess
<1> QED BY <1>0, <1>3, <1>4, <1>5 DEF Settled, Good, IInv

LEMMA NoneCloses ==
    ASSUME \A b \in Blocks : ld.app[b].state \in {"starting", "running"}
                                 => ld'.app[b].state \in {"starting", "running"}
    PROVE  Evicting
BY DEF Evicting

LEMMA ClosesEvict ==
    ASSUME Shape(ld), NEW T, Become(T), NEW out, Shrunk(ld, T, out),
           \A b, x \in Blocks :
              ld.app[b].state \in {"starting", "running"} /\ T.app[b].state \in {"tofree", "free"}
              /\ ld.app[x].host = b => ld.app[x].state # "loading"
    PROVE  Evicting
<1>1. ld' = T BY DEF Become
<1>2. ASSUME NEW b \in Blocks, NEW x \in Blocks, ld.app[b].state \in {"starting", "running"},
             T.app[b].state \in {"tofree", "free"}, ld.app[x].host = b
      PROVE  Evicted(ld, T, b, x)
  <2>1. ld.app[b].host = NULL BY <1>2, Constants DEF Shape
  <2>2. ld.app[x].state # "loading" BY <1>2
  <2> QED BY <1>2, <2>1, <2>2 DEF Shrunk, Evicts
<1>3. \A b, x \in Blocks :
         ld.app[b].state \in {"starting", "running"} /\ T.app[b].state \in {"tofree", "free"}
         /\ ld.app[x].host = b => Evicted(ld, T, b, x)
  BY <1>2
<1> QED BY <1>1, <1>3 DEF Evicting, Evicted

LEMMA QuietStep ==
    ASSUME IInv, ret = "none", Calm(ld, stack), NEW T, Become(T), Settled(T),
           NEW out, Shrunk(ld, T, out), direct' = direct, ret' = ret,
           up' \in BOOLEAN, GSExit' \in BOOLEAN, ops' \in 0 .. MaxOps,
           stack' = <<>> \/ stack' = Swept(stack, T)
    PROVE  IInv' /\ Evicting
<1>0. stack \in Seq(Frames) /\ Len(stack) <= MaxFrames /\ ld \in Systems /\ Framed(ld, stack) /\ Shape(ld)
  BY DEF IInv, TypeOK, Depth
<1>1. T \in Systems /\ Shape(T) /\ Good(T, Held(T)) BY DEF Settled, Good
<1>2. PICK tt : tt = stack' OBVIOUS
<1>3. tt = <<>> \/ Sweeps(stack, T, tt) BY <1>0, <1>2, SweptIs
<1>4. tt \in Seq(Frames) /\ Len(tt) <= MaxFrames
  <2>1. CASE tt = <<>> BY <2>1, Constants
  <2>2. CASE Sweeps(stack, T, tt) BY <1>0, <2>2 DEF Sweeps
  <2> QED BY <1>3, <2>1, <2>2
<1>5. Framed(T, tt) /\ \A k \in 1 .. Len(tt) : tt[k].pc # "libs"
  <2>1. Wanes(ld, T, out) BY DEF Shrunk
  <2> QED BY <1>0, <1>1, <1>3, <2>1, CalmFrames
<1>6. IsFiniteSet(Held(T)) BY <1>1, LoadsFinite DEF Held
<1>7. Loads(T, tt, "none") \subseteq Held(T)
  <2> DEFINE e == <<>>
  <2>1. Wanes(T, T, {}) BY DEF Wanes
  <2>2. \A k \in 1 .. Len(e) : e[k].pc = "libs" /\ T.app[e[k].b].state # "free" =>
          \E j \in 1 .. Len(tt) : tt[j].b = e[k].b /\ tt[j].pc = "libs" /\ tt[j].i = e[k].i
    OBVIOUS
  <2>3. "none" # "ok" OBVIOUS
  <2> HIDE DEF e
  <2>4. Loads(T, tt, "none") \subseteq Loads(T, e, "none") BY <1>1, <2>1, <2>2, <2>3, LoadsShrink
  <2> QED BY <2>4 DEF Held, e
<1>8. Answered(T, tt, "none") BY DEF Answered
<1>9. ret # "down" /\ ret' = "none" /\ "none" \in {"none", "ok", "null"} /\ stack' = tt BY <1>2
<1>10. IInv' BY <1>0, <1>1, <1>4, <1>5, <1>6, <1>7, <1>8, <1>9, Becomes DEF Shrunk
<1>11. Evicting
  <2>1. \A x \in Blocks : ld.app[x].state # "loading" BY <1>0 DEF Framed, LoadingOne, Calm
  <2> QED BY <1>0, <2>1, ClosesEvict
<1> QED BY <1>10, <1>11

LEMMA CloseStep == IInv /\ (\E b \in Blocks : Close(b)) => IInv' /\ Evicting
<1> SUFFICES ASSUME IInv, NEW b \in Blocks, Close(b) PROVE IInv' /\ Evicting OBVIOUS
<1> DEFINE T == CloseApp(ld, b)
<1>1. /\ AppRuns /\ Become(T) /\ stack' = Swept(stack, ld') /\ ops' = ops + 1
      /\ ld.app[b].state \in {"starting", "running"} /\ ld.app[b].file \notin Libs
      /\ UNCHANGED <<up, ret, GSExit, direct>>
  BY DEF Close
<1> HIDE DEF T
<1>2. Calm(ld, stack) /\ Settled(ld) BY <1>1, CalmIs DEF AppRuns
<1>3. direct \in [Libs -> Nat] /\ up \in BOOLEAN /\ GSExit \in BOOLEAN /\ ops + 1 \in 0 .. MaxOps
  BY <1>1, Constants DEF IInv, TypeOK, AppRuns
<1>4. Settled(T) /\ Shrunk(ld, T, {b}) BY <1>1, <1>2, <1>3, CloseSettled DEF T, Listed
<1>5. ld' = T BY <1>1 DEF Become
<1> QED BY <1>1, <1>2, <1>3, <1>4, <1>5, QuietStep DEF AppRuns

LEMMA BreakStep == IInv /\ (\E b \in Blocks : BreakApp(b)) => IInv' /\ Evicting
<1> SUFFICES ASSUME IInv, NEW b \in Blocks, BreakApp(b) PROVE IInv' /\ Evicting OBVIOUS
<1> DEFINE T == Broken(ld, b)
<1>1. /\ AppRuns /\ Become(T) /\ stack' = <<>> /\ ops' = ops + 1
      /\ ld.app[b].state \in {"starting", "running", "tofree"} /\ ld.app[b].file \notin Libs
      /\ UNCHANGED <<up, ret, GSExit, direct>>
  BY DEF BreakApp
<1> HIDE DEF T
<1>2. Calm(ld, stack) /\ Settled(ld) BY <1>1, CalmIs DEF AppRuns
<1>3. direct \in [Libs -> Nat] /\ up \in BOOLEAN /\ GSExit \in BOOLEAN /\ ops + 1 \in 0 .. MaxOps
  BY <1>1, Constants DEF IInv, TypeOK, AppRuns
<1>4. Settled(T) /\ Shrunk(ld, T, {b}) BY <1>1, <1>2, <1>3, BreakSettled DEF T, Listed
<1> QED BY <1>1, <1>2, <1>3, <1>4, QuietStep DEF AppRuns

(* What the task visits is in the list. *)
LEMMA VisitedIs ==
    ASSUME NEW s \in Seq(Blocks), NEW rm
    PROVE  Len(Visited(s, rm)) \in Nat /\ \A k \in 1 .. Len(Visited(s, rm)) : Visited(s, rm)[k] \in Blocks
<1>0. Len(s) \in Nat /\ (s # <<>> => s[Len(s)] \in Blocks)
  <2>1. Len(s) \in Nat /\ \A k \in 1 .. Len(s) : s[k] \in Blocks BY LenProperties
  <2> QED BY <2>1
<1>1. ASSUME NEW n \in Int, n <= Len(s), s # <<>> PROVE <<Last(s)>> \o SubSeq(s, 1, n) \in Seq(Blocks)
  <2>1. SubSeq(s, 1, n) \in Seq(Blocks) BY <1>1, Prefix
  <2>2. <<Last(s)>> \in Seq(Blocks) BY <1>0, <1>1 DEF Last
  <2> QED BY <2>1, <2>2, ConcatProperties
<1>2. Visited(s, rm) \in Seq(Blocks)
  <2>1. CASE s = <<>> BY <2>1 DEF Visited, FromLast
  <2>2. CASE s # <<>>
    <3>1. Len(s) - 1 \in Int /\ Len(s) - 1 <= Len(s) /\ Len(s) - 2 \in Int /\ Len(s) - 2 <= Len(s) BY <1>0
    <3>2. <<Last(s)>> \o SubSeq(s, 1, Len(s) - 1) \in Seq(Blocks) BY <1>1, <2>2, <3>1
    <3>3. <<Last(s)>> \o SubSeq(s, 1, Len(s) - 2) \in Seq(Blocks) BY <1>1, <2>2, <3>1
    <3> QED BY <2>2, <3>2, <3>3 DEF Visited, FromLast, Front
  <2> QED BY <2>1, <2>2
<1> QED BY <1>2, LenProperties

LEMMA TaskStep == IInv /\ DynLdTCP => IInv' /\ Evicting
<1> SUFFICES ASSUME IInv, DynLdTCP PROVE IInv' /\ Evicting OBVIOUS
<1> DEFINE bs == Visited(ld.apps, InState(ld, "tofree"))  W == CollectAll(ld, bs)
<1>1. /\ ret = "none" /\ (stack # <<>> => Top.pc = "main" /\ ld.app[Top.b].file \notin Libs)
      /\ Become(W.S) /\ stack' = IF W.jump THEN <<>> ELSE Swept(stack, W.S)
      /\ UNCHANGED <<up, ret, GSExit, ops, direct>>
  BY DEF DynLdTCP
<1>2. Calm(ld, stack) /\ Settled(ld) BY <1>1, CalmIs
<1>3. direct \in [Libs -> Nat] /\ up \in BOOLEAN /\ GSExit \in BOOLEAN /\ ops \in 0 .. MaxOps
      /\ ld.apps \in Seq(Blocks)
  BY DEF IInv, TypeOK, Systems
<1>4. Len(bs) \in Nat /\ \A k \in 1 .. Len(bs) : bs[k] \in Blocks BY <1>3, VisitedIs
<1> HIDE DEF bs
<1>5. Settled(W.S) /\ Shrunk(ld, W.S, Blocks) BY <1>2, <1>3, <1>4, CollectAllIs
<1> HIDE DEF W
<1>6. stack' = <<>> \/ stack' = Swept(stack, W.S) BY <1>1
<1> QED BY <1>1, <1>2, <1>3, <1>5, <1>6, QuietStep

-----------------------------------------------------------------------------
(* The innermost DynLdRunEx fails. *)
LEMMA BelowIs ==
    ASSUME IInv, stack # <<>>
    PROVE  /\ Depth \in Nat /\ Depth \in 1 .. Depth /\ Depth <= MaxFrames /\ Top.b \in Blocks
           /\ Below \in Seq(Frames) /\ Len(Below) = Depth - 1
           /\ \A k \in 1 .. (Depth - 1) : Below[k] = stack[k]
           /\ Below = <<>> <=> Depth = 1
<1>0. stack \in Seq(Frames) /\ Depth <= MaxFrames BY DEF IInv, TypeOK
<1>1. Depth \in Nat /\ Depth \in 1 .. Depth /\ Top.b \in Blocks BY <1>0, FramesAre DEF Depth, Top
<1>2. Depth - 1 \in Int /\ Depth - 1 <= Len(stack) BY <1>1 DEF Depth
<1>3. /\ Below \in Seq(Frames) /\ Len(Below) = (IF 1 <= Depth - 1 THEN Depth - 1 ELSE 0)
      /\ \A k \in 1 .. (Depth - 1) : Below[k] = stack[k]
  BY <1>0, <1>2, Prefix DEF Below
<1> HIDE DEF Below, Depth
<1>4. (IF 1 <= Depth - 1 THEN Depth - 1 ELSE 0) = Depth - 1 BY <1>1
<1>5. Below = <<>> <=> Depth = 1 BY <1>1, <1>3, <1>4
<1> QED BY <1>0, <1>1, <1>3, <1>4, <1>5

LEMMA PopStep ==
    ASSUME IInv, ret # "down", stack # <<>>, NEW T, Become(T), T.app[Top.b] = Blank,
           Wanes(ld, T, {Top.b}), direct' = direct, up' = up, GSExit' = GSExit, ops' = ops,
           NEW tt, stack' = tt, Pops(stack, T, tt), Answer("null"),
           NEW Q, Good(T, Q),
           Q = Loads(ld, stack, ret) \/ Q = NotOf(Loads(ld, stack, ret), Top.b)
    PROVE  IInv'
<1>0. /\ stack \in Seq(Frames) /\ ld \in Systems /\ Shape(ld) /\ Framed(ld, stack)
      /\ up \in BOOLEAN /\ GSExit \in BOOLEAN /\ ops \in 0 .. MaxOps
  BY DEF IInv, TypeOK
<1>1. T \in Systems /\ Shape(T) BY DEF Good
<1>2. /\ Framed(T, tt)
      /\ \A k \in 1 .. Len(stack) : stack[k].pc = "libs" /\ T.app[stack[k].b].state # "free" =>
            /\ k \in 1 .. Len(tt) /\ tt[k].b = stack[k].b /\ tt[k].pc = "libs" /\ tt[k].i = stack[k].i
      /\ tt # <<>> /\ tt[Len(tt)].pc = "libs" => tt[Len(tt)].i <= Len(Needs[FileAt(T, tt, Len(tt))])
  <2>1. Top.b = stack[Len(stack)].b BY DEF Top, Depth
  <2> QED BY <1>0, <1>1, <2>1, PopFrames
<1>3. tt \in Seq(Frames) /\ Len(tt) <= MaxFrames /\ Len(tt) = Depth - 1
  <2>1. tt \in Seq(Frames) /\ Len(tt) = Len(stack) - 1 BY DEF Pops
  <2> HIDE DEF Pops
  <2> QED BY <2>1, BelowIs, Constants DEF Depth
<1>4. PICK q : q = IF Below # <<>> /\ Below[Depth - 1].pc = "libs" THEN "null" ELSE "none" OBVIOUS
<1>5. ret' = q /\ q \in {"none", "ok", "null"} /\ q # "ok" /\ q # "down" BY <1>4 DEF Answer
<1>6. Loads(T, tt, q) \subseteq Q
  <2>1. /\ Loads(T, tt, q) \subseteq Loads(ld, stack, ret)
        /\ \A b \in Blocks : T.app[b].state = "free" =>
              Loads(T, tt, q) \subseteq NotOf(Loads(ld, stack, ret), b)
    BY <1>0, <1>2, <1>5, LoadsShrink
  <2>2. Top.b \in Blocks /\ T.app[Top.b].state = "free" BY BelowIs, BlankIs
  <2> QED BY <2>1, <2>2
<1>7. IsFiniteSet(Q)
  <2>1. IsFiniteSet(Loads(ld, stack, ret)) BY <1>0, LoadsFinite
  <2>2. Q \subseteq Loads(ld, stack, ret) BY DEF NotOf
  <2> QED BY <2>1, <2>2, FS_Subset
<1>8. Answered(T, tt, q)
  <2> SUFFICES ASSUME q = "null"
      PROVE tt # <<>> /\ tt[Len(tt)].pc = "libs" /\ tt[Len(tt)].i <= Len(Needs[FileAt(T, tt, Len(tt))])
    BY <1>5 DEF Answered
  <2>1. Below # <<>> /\ Below[Depth - 1].pc = "libs" BY <1>4
  <2>2. Depth - 1 \in 1 .. (Depth - 1) /\ Below[Depth - 1] = stack[Depth - 1] BY <2>1, BelowIs
  <2>3. tt[Depth - 1].pc = "libs" BY <2>1, <2>2 DEF Pops, Depth
  <2>4. tt # <<>> BY <1>3, <2>2
  <2> QED BY <1>2, <1>3, <2>3, <2>4
<1> QED BY <1>0, <1>1, <1>2, <1>3, <1>5, <1>6, <1>7, <1>8, Becomes

(* A call that fails while it loads. *)
LEMMA FailStep ==
    ASSUME IInv, ret # "down", stack # <<>>, Top.pc = "libs", Become(Freed(ld, Top.b)), stack' = Below,
           Answer("null"), UNCHANGED <<up, GSExit, ops, direct>>
    PROVE  IInv' /\ Evicting
<1> DEFINE b == Top.b  P == Loads(ld, stack, ret)  T == Freed(ld, b)
<1>0. /\ stack \in Seq(Frames) /\ ld \in Systems /\ Shape(ld) /\ Framed(ld, stack)
      /\ Good(ld, P) /\ b \in Blocks /\ Depth \in 1 .. Depth /\ Depth = Len(stack)
  BY BelowIs DEF IInv, TypeOK, Good, Depth
<1>1. ld.app[b].state = "loading"
  <2>1. Frame(ld, stack, Depth) BY <1>0 DEF Framed
  <2> QED BY <2>1 DEF Frame, Top
<1> HIDE DEF P, T
<1>2. /\ Good(T, P) /\ Shrunk(ld, T, {b})
      /\ T.app[b] = Blank /\ \A x \in Blocks \ {b} : T.app[x] = ld.app[x]
  <2> HIDE DEF b
  <2> QED BY <1>0, <1>1, FreedCovered DEF T
<1>3. Pops(stack, T, Below)
  <2>1. ASSUME NEW k \in 1 .. (Len(stack) - 1), stack[k].pc = "main", ~ stack[k].gone
        PROVE  T.app[stack[k].b].state # "free"
    <3>1. k \in 1 .. Len(stack) /\ stack[k].b \in Blocks BY <1>0, FramesAre
    <3>2. ld.app[stack[k].b].state \in Listed BY <1>0, <2>1, <3>1 DEF Framed, Frame
    <3>3. stack[k].b # b BY <1>1, <3>2 DEF Listed
    <3> QED BY <1>2, <3>1, <3>2, <3>3 DEF Listed
  <2>2. Below \in Seq(Frames) /\ Len(Below) = Len(stack) - 1
        /\ \A k \in 1 .. (Len(stack) - 1) : Below[k] = stack[k]
    BY BelowIs DEF Depth
  <2> QED BY <2>1, <2>2 DEF Pops
<1>4. Evicting
  <2>1. \A x \in Blocks : ld.app[x].state \in {"starting", "running"} => T.app[x] = ld.app[x]
    BY <1>1, <1>2
  <2>2. ld' = T BY DEF Become, T
  <2> QED BY <2>1, <2>2, NoneCloses
<1> QED BY <1>2, <1>3, <1>4, PopStep DEF Shrunk, P, T

LEMMA LibraryFailedStep == IInv /\ LibraryFailed => IInv' /\ Evicting
<1> SUFFICES ASSUME IInv, LibraryFailed PROVE IInv' /\ Evicting OBVIOUS
<1>1. /\ stack # <<>> /\ ret = "null" /\ Become(Freed(ld, Top.b)) /\ stack' = Below /\ Answer("null")
      /\ UNCHANGED <<up, GSExit, ops, direct>>
  BY DEF LibraryFailed
<1>2. Top.pc = "libs" /\ ret # "down" BY <1>1 DEF IInv, Answered, Top, Depth
<1> QED BY <1>1, <1>2, FailStep

LEMMA UnresolvedStep == IInv /\ Unresolved => IInv' /\ Evicting
<1> SUFFICES ASSUME IInv, Unresolved PROVE IInv' /\ Evicting OBVIOUS
<1>1. /\ AtLibs /\ Become(Freed(ld, Top.b)) /\ stack' = Below /\ Answer("null")
      /\ UNCHANGED <<up, GSExit, ops, direct>>
  BY DEF Unresolved
<1>2. stack # <<>> /\ Top.pc = "libs" /\ ret # "down" BY <1>1 DEF AtLibs
<1> QED BY <1>1, <1>2, FailStep

LEMMA MainFalseStep == IInv /\ MainFalse => IInv' /\ Evicting
<1> SUFFICES ASSUME IInv, MainFalse PROVE IInv' /\ Evicting OBVIOUS
<1> DEFINE b == Top.b  P == Loads(ld, stack, ret)  T == Broken(ld, b)
<1>1. /\ stack # <<>> /\ Top.pc = "main" /\ ~ Top.gone /\ ret = "none" /\ ret # "down"
      /\ Become(T) /\ stack' = Swept(Below, ld') /\ Answer("null")
      /\ UNCHANGED <<up, GSExit, ops, direct>>
  BY DEF MainFalse, AtMain
<1>2. /\ stack \in Seq(Frames) /\ ld \in Systems /\ Shape(ld) /\ Framed(ld, stack)
      /\ Good(ld, P) /\ b \in Blocks /\ Depth \in 1 .. Depth /\ Depth = Len(stack)
      /\ direct \in [Libs -> Nat] /\ Covered(ld, P)
  BY <1>1, BelowIs DEF IInv, TypeOK, Good, Depth
<1>3. ld.app[b].state \in Listed
  <2>1. Frame(ld, stack, Depth) BY <1>2 DEF Framed
  <2> QED BY <1>1, <2>1 DEF Frame, Top
<1>4. Unheld(P, ld.app[b].file)
  <2> DEFINE l == ld.app[b].file
  <2> SUFFICES ASSUME l \in Libs \ late PROVE Of(P, l) = {} /\ direct[l] = 0 BY DEF Unheld
  <2> HIDE DEF P
  <2>1. ld.app[b].state = "starting" BY <1>1, <1>2 DEF Framed, Starting, FileAt, Top, Depth
  <2>2. ~ (Of(P, l) # {} \/ direct[l] > 0)
    <3>1. SUFFICES ASSUME Of(P, l) # {} \/ direct[l] > 0 PROVE FALSE OBVIOUS
    <3>2. PICK c \in Blocks : ld.app[c].file = l /\ ld.app[c].state = "running"
      BY <1>2, <3>1 DEF Covered
    <3>3. b \in Range(ld.apps) /\ c \in Range(ld.apps) BY <1>2, <1>3, <3>2, ListIs DEF Listed
    <3>4. b = c BY <1>2, <3>2, <3>3 DEF Shape
    <3> QED BY <2>1, <3>2, <3>4
  <2>3. direct[l] \in Nat BY <1>2
  <2> QED BY <2>2, <2>3
<1>5. Loaded(P, b, Needs[ld.app[b].file])
  <2>1. \A k \in 1 .. Len(stack) : stack[k].pc = "libs" => ld.app[stack[k].b].state = "loading"
    BY <1>2 DEF Framed, Frame
  <2>2. \A k \in 1 .. Len(stack) : stack[k].b = b => stack[k].pc # "libs" BY <1>3, <2>1 DEF Listed
  <2> HIDE DEF b
  <2> QED BY <1>2, <1>3, <2>2, LoadsAll DEF Listed
<1>6. IsFiniteSet(P) BY <1>2, LoadsFinite
<1> HIDE DEF P, T
<1>7. Good(T, NotOf(P, b)) /\ Shrunk(ld, T, {b}) /\ T.app[b] = Blank
  <2> HIDE DEF b
  <2> QED BY <1>2, <1>3, <1>4, <1>5, <1>6, BrokenIs DEF T
<1>8. PICK tt : tt = Swept(Below, T) OBVIOUS
<1>9. stack' = tt BY <1>1, <1>8 DEF Become
<1>10. Pops(stack, T, tt)
  <2>1. Below \in Seq(Frames) /\ Len(Below) = Len(stack) - 1
        /\ \A k \in 1 .. (Len(stack) - 1) : Below[k] = stack[k]
    BY <1>1, BelowIs DEF Depth
  <2>2. Sweeps(Below, T, tt) BY <1>8, <2>1, SweptIs
  <2> QED BY <1>1, <2>1, <2>2 DEF Sweeps, Pops
<1>11. Evicting
  <2>1. ASSUME NEW c \in Blocks, NEW x \in Blocks, ld.app[c].state \in {"starting", "running"},
               T.app[c].state \in {"tofree", "free"}, ld.app[x].host = c, ld.app[x].state = "loading"
        PROVE  FALSE
    <3>1. LoadingOne(ld, stack, x) /\ ld.app[c].host = NULL
      BY <1>2, <2>1, Constants DEF Framed, Shape
    <3>2. ld.app[c].file \notin Libs BY <2>1, <3>1, Constants DEF LoadingOne
    <3>3. Wanes(ld, T, {b}) BY <1>7 DEF Shrunk
    <3>4. c = b BY <2>1, <3>1, <3>2, <3>3 DEF Wanes
    <3>5. PICK k \in 1 .. Len(stack) : stack[k].b = x /\ stack[k].pc = "libs"
      BY <2>1, <3>1 DEF LoadingOne
    <3>6. k # Depth BY <1>1, <3>5 DEF Top
    <3>7. k < Depth BY <1>2, <3>5, <3>6
    <3>8. FileAt(ld, stack, Depth) \in Libs BY <1>2, <3>5, <3>7 DEF Framed, Nested
    <3> QED BY <3>2, <3>4, <3>8 DEF FileAt, Top
  <2> QED BY <1>1, <1>2, <1>7, <2>1, ClosesEvict
<1> QED BY <1>1, <1>7, <1>9, <1>10, <1>11, PopStep DEF Shrunk, P

-----------------------------------------------------------------------------
(* A DynLdRunEx begins. *)
Begins(b, f, host) ==
    /\ b \in Blocks /\ f \in Files /\ host \in Blocks \cup {NULL} /\ ret = "none"
    /\ f \in Libs => host = NULL /\ ~ InList(ld, f)
    /\ host # NULL => /\ ld.app[host].state \in {"starting", "running"}
                      /\ ld.app[host].host = NULL /\ ld.app[host].file \notin Libs
                      /\ \A x \in Blocks : ld.app[x].host # b
    /\ stack # <<>> /\ Top.pc = "libs" =>
          f \in Libs /\ Top.i <= Len(Needs[ld.app[Top.b].file]) /\ Needs[ld.app[Top.b].file][Top.i] = f
    /\ stack # <<>> /\ Top.pc = "main" => ld.app[Top.b].file \notin Libs

LEMMA CallStep ==
    ASSUME IInv, NEW b, NEW f, NEW host, Begins(b, f, host), Call(b, f, host),
           UNCHANGED <<up, ret, GSExit, direct, code>>, ops' \in 0 .. MaxOps
    PROVE  IInv' /\ Evicting
<1> DEFINE S == ld  st == stack  n == Len(stack)  new == [b |-> b, i |-> 1, pc |-> "libs", gone |-> FALSE]
           rec == Loading(f, host)
<1>0. /\ ld \in Systems /\ Shape(ld) /\ Symbols(ld) /\ Framed(ld, stack) /\ ret = "none"
      /\ stack \in Seq(Frames) /\ b \in Blocks /\ f \in Files /\ host \in Blocks \cup {NULL}
      /\ ld.app[b].state = "free" /\ n < MaxFrames /\ direct \in [Libs -> Nat]
      /\ Covered(ld, Loads(ld, stack, "none")) /\ LinkedTo(ld, links, dangling)
  BY DEF IInv, TypeOK, Begins, Call, Depth
<1>1. /\ n \in Nat /\ (st # <<>> => n \in 1 .. n) /\ (st = <<>> => n = 0)
      /\ \A k \in 1 .. n : st[k] \in Frames /\ st[k].b \in Blocks /\ st[k].pc \in {"libs", "main"}
  BY <1>0, FramesAre
<1>2. rec \in AppRecords /\ rec.file = f /\ rec.state = "loading" /\ rec.host = host
  <2> DEFINE r1 == [Blank EXCEPT !.file = f]  r2 == [r1 EXCEPT !.state = "loading"]
  <2>0. rec = [r2 EXCEPT !.host = host] BY DEF Loading
  <2>4. r1 = [file |-> f, state |-> "free", users |-> 0, host |-> NULL] BY DEF Blank
  <2> HIDE DEF r1
  <2>5. r2 = [file |-> f, state |-> "loading", users |-> 0, host |-> NULL] BY <2>4
  <2> HIDE DEF r2
  <2>1. rec = [file |-> f, state |-> "loading", users |-> 0, host |-> host] BY <2>0, <2>5
  <2>2. 0 \in 0 .. Word - 1 BY Constants
  <2> HIDE DEF rec
  <2> QED BY <1>0, <2>1, <2>2 DEF AppRecords
<1> HIDE DEF rec
<1>3. PICK T : T = ld' OBVIOUS
<1>4. T \in Systems /\ T.apps = S.apps /\ T.sym = S.sym /\ T.app[b] = rec
      /\ \A x \in Blocks \ {b} : T.app[x] = S.app[x]
  <2> DEFINE app == [S.app EXCEPT ![b] = rec]
  <2>1. S.app \in [Blocks -> AppRecords] BY <1>0, ListIs
  <2>2. T = [S EXCEPT !.app = app] BY <1>3 DEF Call, rec
  <2>3. app \in [Blocks -> AppRecords] /\ app[b] = rec /\ \A x \in Blocks \ {b} : app[x] = S.app[x]
    BY <1>0, <1>2, <2>1
  <2> HIDE DEF app
  <2>4. T = [apps |-> S.apps, app |-> app, sym |-> S.sym] BY <1>0, <2>2 DEF Systems
  <2> QED BY <1>0, <2>3, <2>4 DEF Systems
<1>5. PICK tt : tt = stack' OBVIOUS
<1>6. /\ tt \in Seq(Frames) /\ Len(tt) = n + 1 /\ tt # <<>> /\ tt[n + 1] = new
      /\ \A k \in 1 .. n : tt[k] = st[k]
  <2>1. tt = Append(st, new) BY <1>5 DEF Call
  <2>2. new \in Frames BY <1>0 DEF Frames
  <2> HIDE DEF new
  <2>3. tt \in Seq(Frames) /\ Len(tt) = n + 1 /\ tt[n + 1] = new /\ \A k \in 1 .. n : tt[k] = st[k]
    BY <1>0, <2>1, <2>2, AppendProperties
  <2> QED BY <1>1, <2>3
<1>7. new.b = b /\ new.i = 1 /\ new.pc = "libs" /\ ~ new.gone OBVIOUS
<1> HIDE DEF new
<1>8. /\ \A k \in 1 .. n : Frame(S, st, k)
      /\ \A j, k \in 1 .. n : Nested(S, st, j, k)
      /\ Starting(S, st) /\ \A x \in Blocks : LoadingOne(S, st, x)
  BY <1>0 DEF Framed
<1>9. \A x \in Blocks : S.app[x].state # "free" => x # b /\ T.app[x] = S.app[x] BY <1>0, <1>4
<1>10. \A k \in 1 .. n : (st[k].pc = "libs" \/ (st[k].pc = "main" /\ ~ st[k].gone)) =>
          st[k].b # b /\ T.app[st[k].b] = S.app[st[k].b] /\ FileAt(T, tt, k) = FileAt(S, st, k)
  <2>1. ASSUME NEW k \in 1 .. n, st[k].pc = "libs" \/ (st[k].pc = "main" /\ ~ st[k].gone)
        PROVE  S.app[st[k].b].state # "free"
    BY <1>8, <2>1 DEF Frame, Listed
  <2> QED BY <1>1, <1>6, <1>9, <2>1 DEF FileAt
<1>11. \A g : InList(T, g) <=> InList(S, g)
  <2>1. \A c \in Range(S.apps) : T.app[c] = S.app[c] BY <1>0, <1>9, ListIs DEF Listed
  <2> QED BY <1>4, <2>1 DEF InList
<1>12. ASSUME NEW j \in 1 .. n, st[j].pc = "libs"
       PROVE  st[n].pc = "libs" /\ f \in Libs /\ n \in 1 .. n
              /\ st[n].i <= Len(Needs[FileAt(S, st, n)]) /\ Needs[FileAt(S, st, n)][st[n].i] = f
  <2>1. st # <<>> /\ n \in 1 .. n BY <1>1
  <2>2. Nested(S, st, j, n) BY <1>8, <2>1
  <2>3. st[n].pc # "main"
    <3>1. j < n => FileAt(S, st, n) \in Libs BY <1>12, <2>2 DEF Nested
    <3>2. SUFFICES ASSUME st[n].pc = "main" PROVE FALSE OBVIOUS
    <3>3. FileAt(S, st, n) \notin Libs BY <2>1, <3>2 DEF Begins, Top, Depth, FileAt
    <3>4. j # n BY <1>12, <3>2
    <3> QED BY <1>1, <3>1, <3>3, <3>4
  <2>4. st[n].pc = "libs" BY <1>1, <2>1, <2>3
  <2> QED BY <2>1, <2>4 DEF Begins, Top, Depth, FileAt
<1>13. Shape(T)
  <2>1. ASSUME NEW x \in Blocks
        PROVE /\ x \in Range(T.apps) <=> T.app[x].state \in Listed
              /\ IF T.app[x].state = "free" THEN T.app[x] = Blank ELSE T.app[x].file \in Files
              /\ T.app[x].file \in Libs => T.app[x].host = NULL
              /\ T.app[x].host # NULL => T.app[x].host # x /\ T.app[T.app[x].host].host = NULL
    <3>1. CASE x = b
      <4>1. x \notin Range(T.apps) BY <1>0, <1>4, <3>1, ListIs DEF Listed
      <4>2. host # NULL => host # b /\ T.app[host].host = NULL
        <5> SUFFICES ASSUME host # NULL PROVE host # b /\ T.app[host].host = NULL OBVIOUS
        <5>1. host \in Blocks /\ S.app[host].state # "free" /\ S.app[host].host = NULL
          BY <1>0 DEF Begins
        <5> QED BY <1>9, <5>1
      <4>3. f \in Libs => host = NULL BY DEF Begins
      <4> QED BY <1>0, <1>2, <1>4, <3>1, <4>1, <4>2, <4>3 DEF Listed
    <3>2. CASE x # b
      <4>1. T.app[x] = S.app[x] /\ S.app[x].host \in Blocks \cup {NULL} BY <1>0, <1>4, <3>2, ListIs
      <4>2. S.app[x].host # NULL => T.app[S.app[x].host].host = NULL
        <5> SUFFICES ASSUME S.app[x].host # NULL PROVE T.app[S.app[x].host].host = NULL OBVIOUS
        <5>1. S.app[x].host \in Blocks /\ S.app[S.app[x].host].host = NULL BY <1>0, <4>1 DEF Shape
        <5>2. CASE S.app[x].host = b
          <6>1. host = NULL BY <5>2 DEF Begins
          <6> QED BY <1>2, <1>4, <5>2, <6>1
        <5>3. CASE S.app[x].host # b BY <1>4, <5>1, <5>3
        <5> QED BY <5>2, <5>3
      <4> QED BY <1>0, <1>4, <4>1, <4>2 DEF Shape
    <3> QED BY <3>1, <3>2
  <2>2. \A c \in Range(S.apps) : T.app[c] = S.app[c] BY <1>0, <1>9, ListIs DEF Listed
  <2> QED BY <1>0, <1>4, <2>1, <2>2 DEF Shape
<1>14. Symbols(T)
  <2>1. \A s \in Libs : S.sym[s].at \in Blocks \cup {NULL} BY <1>0 DEF Systems
  <2>2. \A x \in Blocks : S.app[x].state = "running" => T.app[x] = S.app[x] BY <1>9
  <2> QED BY <1>0, <1>4, <2>1, <2>2 DEF Symbols
<1>15. ASSUME NEW k \in 1 .. (n + 1) PROVE Frame(T, tt, k)
  <2>1. CASE k = n + 1
    <3>1. FileAt(T, tt, k) = f BY <1>2, <1>4, <1>6, <1>7, <2>1 DEF FileAt
    <3>2. f \in Libs => ~ InList(T, f) BY <1>11 DEF Begins
    <3>3. 1 \in 1 .. Len(Needs[f]) + 1
      <4>1. Needs[f] \in Seq(Libs) BY <1>0, Constants
      <4>2. Len(Needs[f]) \in Nat BY <4>1, LenProperties
      <4> QED BY <4>2
    <3> QED BY <1>2, <1>4, <1>6, <1>7, <2>1, <3>1, <3>2, <3>3 DEF Frame
  <2>2. CASE k # n + 1
    <3>1. k \in 1 .. n BY <1>1, <2>2
    <3>2. Frame(S, st, k) /\ tt[k] = st[k] BY <1>6, <1>8, <3>1
    <3>3. CASE st[k].pc = "libs" BY <1>10, <1>11, <3>1, <3>2, <3>3 DEF Frame
    <3>4. CASE st[k].pc = "main"
      <4> SUFFICES ASSUME ~ st[k].gone
          PROVE T.app[st[k].b].state \in Listed /\ FileAt(T, tt, k) \notin Libs
        BY <3>2, <3>4 DEF Frame
      <4>1. S.app[st[k].b].state \in Listed /\ (k < n => FileAt(S, st, k) \notin Libs)
        BY <3>2, <3>4 DEF Frame
      <4>2. k = n => FileAt(S, st, k) \notin Libs
        <5>1. k = n => st # <<>> BY <1>1, <3>1
        <5> QED BY <3>4, <5>1 DEF Begins, Top, Depth, FileAt
      <4>3. FileAt(S, st, k) \notin Libs BY <1>1, <3>1, <4>1, <4>2
      <4> QED BY <1>10, <3>1, <3>4, <4>1, <4>3
    <3> QED BY <1>1, <3>1, <3>3, <3>4
  <2> QED BY <2>1, <2>2
<1>16. ASSUME NEW j \in 1 .. (n + 1), NEW k \in 1 .. (n + 1) PROVE Nested(T, tt, j, k)
  <2> SUFFICES ASSUME tt[j].pc = "libs", j < k
      PROVE /\ FileAt(T, tt, k) \in Libs /\ ~ tt[k].gone /\ tt[k].b # tt[j].b
            /\ k = j + 1 => tt[j].i <= Len(Needs[FileAt(T, tt, j)])
                            /\ Needs[FileAt(T, tt, j)][tt[j].i] = FileAt(T, tt, k)
            /\ tt[k].pc # "main"
    BY DEF Nested
  <2>1. j \in 1 .. n /\ tt[j] = st[j] /\ st[j].pc = "libs" BY <1>1, <1>6
  <2>2. st[n].pc = "libs" /\ f \in Libs /\ n \in 1 .. n
        /\ st[n].i <= Len(Needs[FileAt(S, st, n)]) /\ Needs[FileAt(S, st, n)][st[n].i] = f
    BY <1>12, <2>1
  <2>3. CASE k = n + 1
    <3>1. FileAt(T, tt, k) = f /\ tt[k] = new BY <1>2, <1>4, <1>6, <1>7, <2>3 DEF FileAt
    <3>2. st[j].b # b /\ FileAt(T, tt, j) = FileAt(S, st, j) BY <1>10, <2>1
    <3>3. k = j + 1 => j = n BY <1>1, <2>3
    <3> QED BY <1>7, <2>1, <2>2, <3>1, <3>2, <3>3
  <2>4. CASE k # n + 1
    <3>1. k \in 1 .. n BY <1>1, <2>4
    <3>2. Nested(S, st, j, k) /\ tt[k] = st[k] BY <1>6, <1>8, <2>1, <3>1
    <3>3. st[k].pc = "libs"
      <4>1. st[k].pc = "main" => k = n BY <2>1, <3>2 DEF Nested
      <4>2. st[k].pc # "main" BY <2>2, <4>1
      <4> QED BY <1>1, <3>1, <4>2
    <3> QED BY <1>10, <2>1, <3>1, <3>2, <3>3 DEF Nested
  <2> QED BY <2>3, <2>4
<1>17. Starting(T, tt)
  <2>1. ASSUME NEW x \in Blocks, T.app[x].file \in Libs, T.app[x].state = "starting" PROVE FALSE
    <3>1. x # b BY <1>2, <1>4, <2>1
    <3>2. S.app[x].file \in Libs /\ S.app[x].state = "starting" BY <1>4, <2>1, <3>1
    <3>3. st # <<>> /\ st[n].b = x /\ st[n].pc = "main" BY <1>8, <3>2 DEF Starting
    <3> QED BY <3>2, <3>3 DEF Begins, Top, Depth
  <2>2. tt[Len(tt)].pc # "main" BY <1>6, <1>7
  <2> QED BY <2>1, <2>2 DEF Starting
<1>18. ASSUME NEW x \in Blocks PROVE LoadingOne(T, tt, x)
  <2>1. CASE x = b
    <3>1. tt[n + 1].b = x /\ tt[n + 1].pc = "libs" /\ n + 1 \in 1 .. Len(tt) BY <1>1, <1>6, <1>7, <2>1
    <3>2. host # NULL => T.app[host].state \in {"starting", "running"} /\ T.app[host].file \notin Libs
      <4> SUFFICES ASSUME host # NULL
          PROVE T.app[host].state \in {"starting", "running"} /\ T.app[host].file \notin Libs
        OBVIOUS
      <4>1. host \in Blocks /\ S.app[host].state \in {"starting", "running"} /\ S.app[host].file \notin Libs
        BY <1>0 DEF Begins
      <4> QED BY <1>9, <4>1
    <3> QED BY <1>2, <1>4, <2>1, <3>1, <3>2 DEF LoadingOne
  <2>2. CASE x # b
    <3> SUFFICES ASSUME S.app[x].state = "loading"
        PROVE /\ \E k \in 1 .. Len(tt) : tt[k].b = x /\ tt[k].pc = "libs"
              /\ S.app[x].host # NULL =>
                    /\ T.app[S.app[x].host].state \in {"starting", "running"}
                    /\ T.app[S.app[x].host].file \notin Libs
      BY <1>4, <2>2 DEF LoadingOne
    <3>1. PICK k \in 1 .. n : st[k].b = x /\ st[k].pc = "libs" BY <1>8 DEF LoadingOne
    <3>2. k \in 1 .. Len(tt) /\ tt[k] = st[k] BY <1>1, <1>6
    <3>3. S.app[x].host # NULL => S.app[x].host \in Blocks
          /\ S.app[S.app[x].host].state \in {"starting", "running"} /\ S.app[S.app[x].host].file \notin Libs
      BY <1>0, <1>8, ListIs DEF LoadingOne
    <3> QED BY <1>9, <3>1, <3>2, <3>3
  <2> QED BY <2>1, <2>2
<1>19. Framed(T, tt) BY <1>6, <1>15, <1>16, <1>17, <1>18 DEF Framed
<1>20. Covered(T, Loads(T, tt, "none"))
  <2> DEFINE P == Loads(S, st, "none")  Q == Loads(T, tt, "none")
  <2>1. Q \subseteq P
    <3> SUFFICES ASSUME NEW p \in Q PROVE p \in P OBVIOUS
    <3>1. /\ p \in Blocks \X Nat \X Libs /\ p[1] \in Blocks /\ p[2] \in Nat
          /\ T.app[p[1]].state # "free"
          /\ p[2] \in 1 .. Len(Needs[T.app[p[1]].file]) /\ p[3] = Needs[T.app[p[1]].file][p[2]]
          /\ \A k \in 1 .. Len(tt) : tt[k].b = p[1] /\ tt[k].pc = "libs" => p[2] < tt[k].i
      BY DEF Loads
    <3>2. p[1] # b
      <4>1. n + 1 \in 1 .. Len(tt) BY <1>1, <1>6
      <4>2. p[1] = b => p[2] < 1 BY <1>6, <1>7, <3>1, <4>1
      <4> QED BY <3>1, <4>2
    <3>3. \A k \in 1 .. n : k \in 1 .. Len(tt) /\ tt[k] = st[k] BY <1>1, <1>6
    <3>4. T.app[p[1]] = S.app[p[1]] BY <1>4, <3>1, <3>2
    <3> QED BY <3>1, <3>3, <3>4 DEF Loads
  <2>2. IsFiniteSet(P) BY <1>0, LoadsFinite
  <2>3. Covered(S, P) BY <1>0
  <2> HIDE DEF P, Q
  <2>4. Covered(S, Q) BY <1>0, <2>1, <2>2, <2>3, CoveredLess
  <2>5. \A c \in Blocks : S.app[c].state = "running" => T.app[c] = S.app[c] BY <1>9
  <2>6. \A c \in Blocks : T.app[c].state = "running" => T.app[c] = S.app[c] BY <1>2, <1>4
  <2>7. Covered(T, Q)
    <3> SUFFICES ASSUME NEW l \in Libs \ late
        PROVE /\ Of(Q, l) # {} \/ direct[l] > 0 =>
                    \E c \in Blocks : T.app[c].file = l /\ T.app[c].state = "running"
              /\ \A c \in Blocks :
                    T.app[c].file = l /\ T.app[c].state = "running"
                       => T.app[c].users >= Cardinality(Of(Q, l)) + direct[l]
      BY DEF Covered
    <3>1. Of(Q, l) # {} \/ direct[l] > 0 =>
             \E c \in Blocks : T.app[c].file = l /\ T.app[c].state = "running"
      BY <2>4, <2>5 DEF Covered
    <3>2. ASSUME NEW c \in Blocks, T.app[c].file = l, T.app[c].state = "running"
          PROVE  T.app[c].users >= Cardinality(Of(Q, l)) + direct[l]
      BY <2>4, <2>6, <3>2 DEF Covered
    <3> QED BY <3>1, <3>2
  <2> QED BY <2>7 DEF Q
<1>21. LinkedTo(T, links, dangling)
  <2> SUFFICES ASSUME NEW x \in Blocks
      PROVE /\ T.app[x].state \in {"free", "loading"} => links[x] = {} /\ x \notin dangling
            /\ T.app[x].state \in Listed /\ Clean(T.app[x].file) =>
                  /\ x \notin dangling
                  /\ \A c \in links[x] : T.app[c].state = "running" /\ T.app[c].file \in Imports[T.app[x].file]
    BY DEF LinkedTo
  <2>1. \A c \in links[x] : c \in Blocks BY DEF IInv, TypeOK
  <2>2. CASE x = b
    <3>1. links[x] = {} /\ x \notin dangling BY <1>0, <2>2 DEF LinkedTo
    <3> QED BY <1>2, <1>4, <2>2, <3>1
  <2>3. CASE x # b
    <3>1. T.app[x] = S.app[x] BY <1>4, <2>3
    <3>2. \A c \in links[x] : S.app[c].state = "running" => T.app[c] = S.app[c] BY <1>9, <2>1
    <3> QED BY <1>0, <3>1, <3>2 DEF LinkedTo
  <2> QED BY <2>2, <2>3
<1>22. ld' = T /\ stack' = tt /\ ret' = "none" /\ direct' = direct /\ late' = late
       /\ links' = links /\ dangling' = dangling
  BY <1>0, <1>3, <1>5 DEF code
<1>23. TypeOK'
  <2>1. Len(tt) <= MaxFrames BY <1>0, <1>1, <1>6, Constants
  <2>2. up' \in BOOLEAN /\ GSExit' \in BOOLEAN /\ late \subseteq Libs
        /\ links \in [Blocks -> SUBSET Blocks] /\ dangling \subseteq Blocks
    BY DEF IInv, TypeOK
  <2> QED BY <1>0, <1>4, <1>6, <1>22, <2>1, <2>2 DEF TypeOK, Depth
<1>24. Answered(T, tt, "none") BY DEF Answered
<1>25. Covered(ld, Loads(ld, stack, ret))' BY <1>20, <1>22 DEF Covered
<1>26. LinkedTo(ld, links, dangling)' BY <1>21, <1>22 DEF LinkedTo, Clean
<1>27. Shape(ld)' /\ Symbols(ld)' /\ Framed(ld, stack)' /\ Answered(ld, stack, ret)'
  BY <1>13, <1>14, <1>19, <1>22, <1>24
<1>28. Evicting BY <1>9, <1>22, NoneCloses
<1> QED BY <1>23, <1>25, <1>26, <1>27, <1>28 DEF IInv

LEMMA RunStep ==
    IInv /\ (\E b \in Blocks, f \in Files, h \in Blocks \cup {NULL} : Run(b, f, h)) => IInv' /\ Evicting
<1> SUFFICES ASSUME IInv, NEW b \in Blocks, NEW f \in Files, NEW h \in Blocks \cup {NULL}, Run(b, f, h)
             PROVE  IInv' /\ Evicting
  OBVIOUS
<1>1. Call(b, f, h) /\ UNCHANGED <<up, ret, GSExit, direct, code>> /\ ops' \in 0 .. MaxOps
  BY Constants DEF Run, AppRuns, IInv, TypeOK
<1>2. Begins(b, f, h) BY DEF Run, AppRuns, Begins
<1> QED BY <1>1, <1>2, CallStep

LEMMA NotInList ==
    ASSUME IInv, NEW id, GetLibrary(ld, id) = NULL
    PROVE  ~ InList(ld, id)
<1>1. ld \in Systems /\ Shape(ld) BY DEF IInv, TypeOK
<1> QED BY <1>1, GetLibraryIs, Constants

LEMMA RegistryLoadStep ==
    IInv /\ (\E b \in Blocks, l \in Libs : RegistryLoadLibrary(b, l)) => IInv' /\ Evicting
<1> SUFFICES ASSUME IInv, NEW b \in Blocks, NEW l \in Libs, RegistryLoadLibrary(b, l)
             PROVE  IInv' /\ Evicting
  OBVIOUS
<1>1. Call(b, l, NULL) /\ UNCHANGED <<up, ret, GSExit, direct, code>> /\ ops' \in 0 .. MaxOps
  BY Constants DEF RegistryLoadLibrary, Startup, IInv, TypeOK
<1>2. Begins(b, l, NULL)
  <2>1. ~ InList(ld, l) BY NotInList DEF RegistryLoadLibrary
  <2> QED BY <2>1, Constants DEF RegistryLoadLibrary, Startup, Begins
<1> QED BY <1>1, <1>2, CallStep

(* The frame that is in its libraries, and what it loads next. *)
LEMMA AtLibsIs ==
    ASSUME IInv, stack # <<>>, Top.pc = "libs"
    PROVE  /\ Top.b \in Blocks /\ ld.app[Top.b].state = "loading" /\ ld.app[Top.b].file \in Files
           /\ Needed = Needs[FileAt(ld, stack, Depth)] /\ Needed \in Seq(Libs)
           /\ Len(Needed) \in Nat /\ \A i \in 1 .. Len(Needed) : Needed[i] \in Libs
           /\ Top.i \in 1 .. Len(Needed) + 1 /\ ~ Top.gone
           /\ FileAt(ld, stack, Depth) \in Libs => ~ InList(ld, FileAt(ld, stack, Depth))
           /\ \A i \in 1 .. Top.i - 1 : InList(ld, Needed[i])
           /\ FileAt(ld, stack, Depth) = ld.app[Top.b].file
<1>1. Depth \in 1 .. Depth /\ Depth = Len(stack) /\ Top.b \in Blocks BY BelowIs DEF Depth
<1>2. Frame(ld, stack, Depth) BY <1>1 DEF IInv, Framed
<1>3. FileAt(ld, stack, Depth) = ld.app[Top.b].file /\ Needed = Needs[FileAt(ld, stack, Depth)]
  BY DEF FileAt, Top, Needed
<1>4. ld.app[Top.b].state = "loading" /\ ~ Top.gone /\ Top.i \in 1 .. Len(Needed) + 1
      /\ (FileAt(ld, stack, Depth) \in Libs => ~ InList(ld, FileAt(ld, stack, Depth)))
      /\ \A i \in 1 .. Top.i - 1 : InList(ld, Needed[i])
  BY <1>2, <1>3 DEF Frame, Top
<1>5. ld.app[Top.b].file \in Files BY <1>1, <1>4 DEF IInv, Shape
<1>6. Needed \in Seq(Libs) BY <1>3, <1>5, Constants
<1>7. Len(Needed) \in Nat /\ \A i \in 1 .. Len(Needed) : Needed[i] \in Libs BY <1>6, LenProperties
<1> QED BY <1>1, <1>3, <1>4, <1>5, <1>6, <1>7

LEMMA LoadStep == IInv /\ (\E b \in Blocks : LoadLibrary(b)) => IInv' /\ Evicting
<1> SUFFICES ASSUME IInv, NEW b \in Blocks, LoadLibrary(b) PROVE IInv' /\ Evicting OBVIOUS
<1> DEFINE f == Needed[Top.i]
<1>1. /\ stack # <<>> /\ Top.pc = "libs" /\ ret = "none" /\ Top.i <= Len(Needed)
      /\ GetLibrary(ld, f) = NULL /\ Call(b, f, NULL) /\ UNCHANGED <<up, ret, GSExit, ops, direct, code>>
  BY DEF LoadLibrary, AtLibs
<1>2. f \in Libs
  <2>1. Top.i \in 1 .. Len(Needed) BY <1>1, AtLibsIs
  <2> QED BY <1>1, <2>1, AtLibsIs
<1>3. ~ InList(ld, f) BY <1>1, NotInList
<1>4. Needed = Needs[ld.app[Top.b].file] BY DEF Needed
<1>5. Begins(b, f, NULL)
  <2> HIDE DEF f
  <2>1. f = Needs[ld.app[Top.b].file][Top.i] /\ Top.i <= Len(Needs[ld.app[Top.b].file]) BY <1>1, <1>4 DEF f
  <2> QED BY <1>1, <1>2, <1>3, <2>1, Constants DEF Begins
<1>6. ops' \in 0 .. MaxOps BY <1>1 DEF IInv, TypeOK
<1> QED BY <1>1, <1>5, <1>6, CallStep

-----------------------------------------------------------------------------
(* A library is there, and is counted. *)
AlikeBut(S, T) ==
    /\ T.apps = S.apps
    /\ \A x \in Blocks : T.app[x].file = S.app[x].file /\ T.app[x].host = S.app[x].host
                         /\ T.app[x].state = S.app[x].state

LEMMA AlikeFrames ==
    ASSUME NEW S \in Systems, Shape(S), NEW T, AlikeBut(S, T), NEW tt \in Seq(Frames), Framed(S, tt), NEW r
    PROVE  Framed(T, tt) /\ Loads(T, tt, r) = Loads(S, tt, r) /\ \A f : InList(T, f) <=> InList(S, f)
<1>0. /\ Len(tt) \in Nat /\ (tt # <<>> => Len(tt) \in 1 .. Len(tt))
      /\ \A k \in 1 .. Len(tt) : tt[k].b \in Blocks /\ FileAt(T, tt, k) = FileAt(S, tt, k)
  <2>1. /\ Len(tt) \in Nat /\ (tt # <<>> => Len(tt) \in 1 .. Len(tt))
        /\ \A k \in 1 .. Len(tt) : tt[k].b \in Blocks
    BY FramesAre
  <2> QED BY <2>1 DEF FileAt, AlikeBut
<1>1. \A f : InList(T, f) <=> InList(S, f)
  <2>1. Range(S.apps) \subseteq Blocks BY ListIs
  <2> QED BY <2>1 DEF InList, AlikeBut
<1>2. \A k \in 1 .. Len(tt) : Frame(T, tt, k) BY <1>0, <1>1 DEF Framed, Frame, AlikeBut
<1>3. \A j, k \in 1 .. Len(tt) : Nested(T, tt, j, k) BY <1>0 DEF Framed, Nested
<1>4. Starting(T, tt) BY <1>0 DEF Framed, Starting, AlikeBut
<1>5. ASSUME NEW x \in Blocks PROVE LoadingOne(T, tt, x)
  <2>1. LoadingOne(S, tt, x) BY DEF Framed
  <2>2. S.app[x].host \in Blocks \cup {NULL} BY ListIs
  <2> QED BY <2>1, <2>2 DEF LoadingOne, AlikeBut
<1>6. Loads(T, tt, r) = Loads(S, tt, r)
  <2>1. \A p \in Blocks \X Nat \X Libs : T.app[p[1]].file = S.app[p[1]].file /\ T.app[p[1]].state = S.app[p[1]].state
    BY DEF AlikeBut
  <2> QED BY <2>1 DEF Loads
<1> QED BY <1>1, <1>2, <1>3, <1>4, <1>5, <1>6 DEF Framed

(* The next of the libraries. *)
LEMMA AdvanceIs ==
    ASSUME IInv, stack # <<>>, Top.pc = "libs", Top.i <= Len(Needed), InList(ld, Needed[Top.i]),
           ret \in {"none", "ok"}
    PROVE  LET tt == [stack EXCEPT ![Depth].i = @ + 1]
               p == <<Top.b, Top.i, Needed[Top.i]>>
           IN  /\ tt \in Seq(Frames) /\ Len(tt) = Len(stack) /\ Framed(ld, tt)
               /\ Loads(ld, tt, "none") \subseteq Loads(ld, stack, ret) \cup {p}
               /\ ret = "ok" => Loads(ld, tt, "none") \subseteq Loads(ld, stack, ret)
<1> DEFINE n == Len(stack)  st == stack  new == [st[n] EXCEPT !.i = @ + 1]
           tt == [stack EXCEPT ![Depth].i = @ + 1]  p == <<Top.b, Top.i, Needed[Top.i]>>
<1>0. /\ st \in Seq(Frames) /\ Framed(ld, st) /\ n \in Nat /\ n \in 1 .. n /\ Depth = n /\ Top = st[n]
      /\ \A k \in 1 .. n : st[k] \in Frames /\ st[k].b \in Blocks
  BY FramesAre DEF IInv, TypeOK, Depth, Top
<1>1. new \in Frames /\ new.b = st[n].b /\ new.i = st[n].i + 1 /\ new.pc = st[n].pc /\ new.gone = st[n].gone
  <2>1. st[n] \in Frames BY <1>0
  <2> QED BY <2>1 DEF Frames
<1>2. tt \in Seq(Frames) /\ Len(tt) = n /\ tt[n] = new /\ \A k \in 1 .. n : k # n => tt[k] = st[k]
  <2>1. tt = [st EXCEPT ![n] = new] BY <1>0
  <2> HIDE DEF new, tt
  <2> QED BY <1>0, <1>1, <2>1, ExceptSeq
<1> HIDE DEF new, tt
<1>3. \A k \in 1 .. n : /\ tt[k].b = st[k].b /\ tt[k].pc = st[k].pc /\ tt[k].gone = st[k].gone
                        /\ k # n => tt[k].i = st[k].i
                        /\ FileAt(ld, tt, k) = FileAt(ld, st, k)
  BY <1>1, <1>2 DEF FileAt
<1>4. Needed = Needs[FileAt(ld, st, n)] /\ st[n].pc = "libs" /\ st[n].i \in Nat
      /\ st[n].i <= Len(Needed) /\ Len(Needed) \in Nat
  BY <1>0, AtLibsIs
<1>5. ASSUME NEW k \in 1 .. n PROVE Frame(ld, tt, k)
  <2>1. Frame(ld, st, k) BY <1>0 DEF Framed
  <2>2. CASE k # n BY <1>0, <1>2, <1>3, <2>1, <2>2 DEF Frame
  <2>3. CASE k = n
    <3>1. tt[k].i \in 1 .. Len(Needed) + 1 BY <1>1, <1>2, <1>4, <2>3
    <3>2. \A i \in 1 .. tt[k].i - 1 : i = st[n].i \/ i \in 1 .. st[n].i - 1 BY <1>1, <1>2, <1>4, <2>3
    <3>3. InList(ld, Needed[st[n].i]) BY <1>0
    <3> QED BY <1>2, <1>3, <1>4, <2>1, <2>3, <3>1, <3>2, <3>3 DEF Frame
  <2> QED BY <2>2, <2>3
<1>6. ASSUME NEW j \in 1 .. n, NEW k \in 1 .. n PROVE Nested(ld, tt, j, k)
  <2>1. Nested(ld, st, j, k) BY <1>0 DEF Framed
  <2>2. CASE ~ (j < k) BY <2>2 DEF Nested
  <2>3. CASE j < k
    <3>1. j # n BY <1>0, <2>3
    <3> QED BY <1>2, <1>3, <2>1, <3>1 DEF Nested
  <2> QED BY <2>2, <2>3
<1>7. Starting(ld, tt)
  <2>1. tt # <<>> BY <1>0, <1>2
  <2> QED BY <1>0, <1>2, <1>3, <2>1 DEF Framed, Starting
<1>8. \A x \in Blocks : LoadingOne(ld, tt, x)
  <2>1. \A x \in Blocks : LoadingOne(ld, st, x) BY <1>0 DEF Framed
  <2> QED BY <1>2, <1>3, <2>1 DEF LoadingOne
<1>9. Framed(ld, tt) BY <1>2, <1>5, <1>6, <1>7, <1>8 DEF Framed
<1>10. ASSUME NEW q \in Loads(ld, tt, "none")
       PROVE  q \in Loads(ld, stack, ret) \cup {p} /\ (ret = "ok" => q \in Loads(ld, stack, ret))
  <2>1. /\ q \in Blocks \X Nat \X Libs /\ q[1] \in Blocks /\ q[2] \in Nat /\ q = <<q[1], q[2], q[3]>>
        /\ ld.app[q[1]].state # "free"
        /\ q[2] \in 1 .. Len(Needs[ld.app[q[1]].file]) /\ q[3] = Needs[ld.app[q[1]].file][q[2]]
        /\ \A k \in 1 .. n : tt[k].b = q[1] /\ tt[k].pc = "libs" => q[2] < tt[k].i
    BY <1>2 DEF Loads
  <2>2. \A k \in 1 .. n : k # n /\ st[k].b = q[1] /\ st[k].pc = "libs" => q[2] < st[k].i
    BY <1>3, <2>1
  <2>3. st[n].b = q[1] => q[2] < st[n].i \/ q[2] = st[n].i BY <1>0, <1>1, <1>2, <1>4, <2>1
  <2>4. st[n].b = q[1] /\ q[2] = st[n].i => q = p
    <3> SUFFICES ASSUME st[n].b = q[1], q[2] = st[n].i PROVE q = p OBVIOUS
    <3>1. q[3] = Needed[st[n].i] BY <1>4, <2>1 DEF FileAt
    <3> QED BY <1>0, <2>1, <3>1
  <2>5. CASE ~ (st[n].b = q[1] /\ q[2] = st[n].i) BY <2>1, <2>2, <2>3, <2>5 DEF Loads
  <2>6. CASE st[n].b = q[1] /\ q[2] = st[n].i
    <3>1. ret = "ok" => q \in Loads(ld, stack, ret) BY <2>1, <2>2, <2>6 DEF Loads
    <3> QED BY <2>4, <2>6, <3>1
  <2> QED BY <2>5, <2>6
<1> HIDE DEF p
<1>11. Loads(ld, tt, "none") \subseteq Loads(ld, stack, ret) \cup {p} BY <1>10
<1>12. ret = "ok" => Loads(ld, tt, "none") \subseteq Loads(ld, stack, ret) BY <1>10
<1> QED BY <1>2, <1>9, <1>11, <1>12 DEF tt, p

(* One load more. *)
LEMMA OfMore ==
    ASSUME NEW P, IsFiniteSet(P), NEW p, NEW Q, Q \subseteq P \cup {p}, NEW m
    PROVE  /\ Cardinality(Of(Q, m)) \in Nat /\ Cardinality(Of(P, m)) \in Nat
           /\ Cardinality(Of(Q, m)) <= Cardinality(Of(P, m)) + 1
           /\ p[3] # m => Of(Q, m) \subseteq Of(P, m) /\ Cardinality(Of(Q, m)) <= Cardinality(Of(P, m))
<1>1. Of(P, m) \subseteq P /\ Of(Q, m) \subseteq Of(P, m) \cup {p} BY DEF Of
<1>2. IsFiniteSet(Of(P, m)) /\ Cardinality(Of(P, m)) \in Nat BY <1>1, FS_Subset, FS_CardinalityType
<1>3. IsFiniteSet(Of(P, m) \cup {p}) /\ Cardinality(Of(P, m) \cup {p}) \in Nat
      /\ Cardinality(Of(P, m) \cup {p}) <= Cardinality(Of(P, m)) + 1
  <2>1. IsFiniteSet(Of(P, m) \cup {p})
        /\ Cardinality(Of(P, m) \cup {p}) = IF p \in Of(P, m) THEN Cardinality(Of(P, m)) ELSE Cardinality(Of(P, m)) + 1
    BY <1>2, FS_AddElement
  <2> QED BY <1>2, <2>1
<1>4. IsFiniteSet(Of(Q, m)) /\ Cardinality(Of(Q, m)) \in Nat
      /\ Cardinality(Of(Q, m)) <= Cardinality(Of(P, m) \cup {p})
  BY <1>1, <1>3, FS_Subset, FS_CardinalityType
<1>5. ASSUME p[3] # m PROVE Of(Q, m) \subseteq Of(P, m) /\ Cardinality(Of(Q, m)) <= Cardinality(Of(P, m))
  <2>1. Of(Q, m) \subseteq Of(P, m) BY <1>5 DEF Of
  <2> QED BY <1>2, <2>1, FS_Subset
<1> QED BY <1>2, <1>3, <1>4, <1>5

(* More is counted by one for library id at most. *)
OneMore(P, Q, id) ==
    \A m \in Libs :
       /\ m # id /\ (Of(Q, m) # {} \/ direct'[m] > 0) => Of(P, m) # {} \/ direct[m] > 0
       /\ Cardinality(Of(Q, m)) \in Nat /\ Cardinality(Of(P, m)) \in Nat
       /\ Cardinality(Of(Q, m)) + direct'[m]
             <= Cardinality(Of(P, m)) + direct[m] + (IF m = id THEN 1 ELSE 0)

LEMMA CountStep ==
    ASSUME IInv, ret = "none", NEW id \in Libs, Counted(id), stack # <<>> => Top.pc = "libs",
           NEW tt \in Seq(Frames), Len(tt) <= MaxFrames, Framed(ld, tt), stack' = tt, ret' = ret,
           OneMore(Loads(ld, stack, ret), Loads(ld, tt, "none"), id),
           UNCHANGED <<up, GSExit, links, dangling>>, ops' \in 0 .. MaxOps, direct' \in [Libs -> Nat]
    PROVE  IInv' /\ Evicting
<1> DEFINE l == GetLibrary(ld, id)  u == (ld.app[l].users + 1) % Word
           P == Loads(ld, stack, ret)  Q == Loads(ld, tt, "none")
           R == [ld EXCEPT !.app[l].users = u]
<1>0. /\ ld \in Systems /\ Shape(ld) /\ Symbols(ld) /\ Covered(ld, P) /\ LinkedTo(ld, links, dangling)
      /\ direct \in [Libs -> Nat] /\ late \subseteq Libs
      /\ links \in [Blocks -> SUBSET Blocks] /\ dangling \subseteq Blocks
  BY DEF IInv, TypeOK
<1>1. l # NULL /\ ld' = R
      /\ late' = IF ld.app[l].state = "tofree" \/ ld.app[l].users + 1 = Word THEN late \cup {id} ELSE late
  BY DEF Counted
<1>2. l \in Blocks /\ l \in Range(ld.apps) /\ ld.app[l].file = id
  <2> HIDE DEF l
  <2>1. IF InList(ld, id) THEN l \in Range(ld.apps) /\ l \in Blocks /\ ld.app[l].file = id ELSE l = NULL
    BY <1>0, GetLibraryIs DEF l
  <2> QED BY <1>1, <2>1
<1>3. ld.app[l].state \in Listed /\ ld.app[l].users \in 0 .. Word - 1 /\ ld.app[l].users \in Nat
  <2> HIDE DEF l
  <2>1. ld.app[l] \in AppRecords /\ ld.app[l].state \in Listed BY <1>0, <1>2, ListIs
  <2> QED BY <2>1, Constants DEF AppRecords
<1> HIDE DEF l
<1>4. u \in 0 .. Word - 1
  <2>1. ld.app[l].users + 1 \in Int BY <1>3
  <2> QED BY <2>1, Modulo
<1>5. ld.app[l].state # "starting"
  <2>1. SUFFICES ASSUME ld.app[l].state = "starting" PROVE FALSE OBVIOUS
  <2>2. stack # <<>> /\ stack[Len(stack)].pc = "main" BY <1>2, <2>1 DEF IInv, Framed, Starting
  <2> QED BY <2>2 DEF Top, Depth
<1> HIDE DEF u, R
<1>6. R \in Systems /\ Shape(R) /\ Symbols(R) /\ Recounted(ld, R, l, u)
  BY <1>0, <1>2, <1>3, <1>4, RecountIs DEF R
<1>7. R.app[l].users = u /\ AlikeBut(ld, R) /\ \A x \in Blocks \ {l} : R.app[x] = ld.app[x]
  <2>1. ld.app[l] \in AppRecords BY <1>0, <1>2, ListIs
  <2> QED BY <1>6, <2>1 DEF Recounted, AlikeBut, AppRecords
<1>8. Framed(R, tt) /\ Loads(R, tt, "none") = Q BY <1>0, <1>7, AlikeFrames
<1> HIDE DEF P, Q
<1>10. ASSUME NEW m \in Libs \ late'
       PROVE /\ Of(Q, m) # {} \/ direct'[m] > 0 =>
                   \E c \in Blocks : R.app[c].file = m /\ R.app[c].state = "running"
             /\ \A c \in Blocks :
                   R.app[c].file = m /\ R.app[c].state = "running"
                      => R.app[c].users >= Cardinality(Of(Q, m)) + direct'[m]
  <2>0. /\ m \in Libs \ late /\ m \in Libs /\ direct'[m] \in Nat /\ direct[m] \in Nat
        /\ m # id /\ (Of(Q, m) # {} \/ direct'[m] > 0) => Of(P, m) # {} \/ direct[m] > 0
        /\ Cardinality(Of(Q, m)) \in Nat /\ Cardinality(Of(P, m)) \in Nat
        /\ Cardinality(Of(Q, m)) + direct'[m]
              <= Cardinality(Of(P, m)) + direct[m] + (IF m = id THEN 1 ELSE 0)
    BY <1>0, <1>1 DEF OneMore, P, Q
  <2>1. CASE m # id
    <3>1. Of(Q, m) # {} \/ direct'[m] > 0 =>
             \E c \in Blocks : R.app[c].file = m /\ R.app[c].state = "running"
      <4> SUFFICES ASSUME Of(Q, m) # {} \/ direct'[m] > 0
          PROVE \E c \in Blocks : R.app[c].file = m /\ R.app[c].state = "running"
        OBVIOUS
      <4>1. PICK c \in Blocks : ld.app[c].file = m /\ ld.app[c].state = "running"
        BY <1>0, <2>0, <2>1 DEF Covered
      <4> QED BY <1>7, <4>1 DEF AlikeBut
    <3>2. ASSUME NEW c \in Blocks, R.app[c].file = m, R.app[c].state = "running"
          PROVE  R.app[c].users >= Cardinality(Of(Q, m)) + direct'[m]
      <4>1. ld.app[c].file = m /\ ld.app[c].state = "running" /\ c # l
        BY <1>2, <1>7, <2>1, <3>2 DEF AlikeBut
      <4>2. ld.app[c].users >= Cardinality(Of(P, m)) + direct[m] BY <1>0, <2>0, <4>1 DEF Covered
      <4>3. ld.app[c].users \in Nat
        <5>1. ld.app[c] \in AppRecords BY <1>0, ListIs
        <5> QED BY <5>1, Constants DEF AppRecords
      <4>4. R.app[c].users = ld.app[c].users BY <1>7, <4>1
      <4> QED BY <2>0, <2>1, <4>2, <4>3, <4>4
    <3> QED BY <3>1, <3>2
  <2>2. CASE m = id
    <3>1. id \notin late' BY <2>2
    <3>2. ld.app[l].state # "tofree" /\ ld.app[l].users + 1 # Word BY <1>1, <3>1
    <3>3. ld.app[l].state = "running" BY <1>3, <1>5, <3>2 DEF Listed
    <3>4. u = ld.app[l].users + 1
      <4>0. \A n \in 0 .. Word - 1 : n + 1 # Word => n + 1 \in 0 .. Word - 1 BY Constants
      <4>1. ld.app[l].users + 1 \in 0 .. Word - 1 BY <1>3, <3>2, <4>0
      <4> QED BY <4>1, Modulo DEF u
    <3>5. R.app[l].file = m /\ R.app[l].state = "running" BY <1>2, <1>7, <2>2, <3>3 DEF AlikeBut
    <3>6. ASSUME NEW c \in Blocks, R.app[c].file = m, R.app[c].state = "running"
          PROVE  R.app[c].users >= Cardinality(Of(Q, m)) + direct'[m]
      <4>1. ld.app[c].file = m /\ ld.app[c].state = "running" BY <1>7, <3>6 DEF AlikeBut
      <4>2. c \in Range(ld.apps) BY <1>0, <4>1, ListIs DEF Listed
      <4>3. c = l BY <1>0, <1>2, <2>0, <2>2, <4>1, <4>2 DEF Shape
      <4>4. ld.app[l].users >= Cardinality(Of(P, m)) + direct[m] BY <1>0, <2>0, <4>1, <4>3 DEF Covered
      <4>5. R.app[c].users = ld.app[l].users + 1 BY <1>7, <3>4, <4>3
      <4> DEFINE q == Cardinality(Of(Q, m))  p == Cardinality(Of(P, m))  n == ld.app[l].users
                 e == direct'[m]  d == direct[m]
      <4>6. q \in Nat /\ p \in Nat /\ n \in Nat /\ e \in Nat /\ d \in Nat /\ n >= p + d /\ q + e <= p + d + 1
        BY <1>3, <2>0, <2>2, <4>4
      <4> HIDE DEF q, p, n, e, d
      <4>7. n + 1 >= q + e BY <4>6
      <4> QED BY <4>5, <4>7 DEF q, n, e
    <3> QED BY <1>2, <3>5, <3>6
  <2> QED BY <2>1, <2>2
<1>11. LinkedTo(R, links, dangling)
  <2>1. \A c \in Blocks : R.app[c].state = ld.app[c].state /\ R.app[c].file = ld.app[c].file
    BY <1>7 DEF AlikeBut
  <2>2. \A b \in Blocks : links[b] \subseteq Blocks BY <1>0
  <2> SUFFICES ASSUME NEW b \in Blocks
               PROVE  /\ R.app[b].state \in {"free", "loading"} => links[b] = {} /\ b \notin dangling
                      /\ R.app[b].state \in Listed /\ Clean(R.app[b].file) =>
                            /\ b \notin dangling
                            /\ \A c \in links[b] : /\ R.app[c].state = "running"
                                                   /\ R.app[c].file \in Imports[R.app[b].file]
    BY DEF LinkedTo
  <2>3. R.app[b].state \in {"free", "loading"} => links[b] = {} /\ b \notin dangling
    BY <1>0, <2>1 DEF LinkedTo
  <2>4. ASSUME R.app[b].state \in Listed, Clean(R.app[b].file)
        PROVE  /\ b \notin dangling
               /\ \A c \in links[b] : /\ R.app[c].state = "running"
                                      /\ R.app[c].file \in Imports[R.app[b].file]
    <3>1. ld.app[b].state \in Listed /\ Clean(ld.app[b].file) BY <2>1, <2>4, Zenon
    <3>2. /\ b \notin dangling
          /\ \A c \in links[b] : /\ ld.app[c].state = "running"
                                 /\ ld.app[c].file \in Imports[ld.app[b].file]
      BY <1>0, <3>1 DEF LinkedTo
    <3> QED BY <2>1, <2>2, <3>2, Zenon
  <2> QED BY <2>3, <2>4
<1>12. ld' = R /\ stack' = tt /\ ret' = "none" /\ late \subseteq late' /\ late' \subseteq Libs
       /\ links' = links /\ dangling' = dangling /\ Loads(ld, stack, ret)' = Q
  BY <1>0, <1>1, <1>8
<1>13. TypeOK'
  <2>1. up' \in BOOLEAN /\ GSExit' \in BOOLEAN BY DEF IInv, TypeOK
  <2> QED BY <1>0, <1>6, <1>12, <2>1 DEF TypeOK, Depth
<1>14. Covered(ld, Loads(ld, stack, ret))' BY <1>10, <1>12 DEF Covered
<1>15. LinkedTo(ld, links, dangling)' BY <1>11, <1>12 DEF LinkedTo, Clean
<1>16. Answered(ld, stack, ret)' BY <1>12 DEF Answered
<1>17. Evicting BY <1>7, <1>12, NoneCloses DEF AlikeBut
<1> QED BY <1>6, <1>8, <1>12, <1>13, <1>14, <1>15, <1>16, <1>17 DEF IInv

LEMMA RegistryCountStep == IInv /\ (\E l \in Libs : RegistryCountLibrary(l)) => IInv' /\ Evicting
<1> SUFFICES ASSUME IInv, NEW l \in Libs, RegistryCountLibrary(l) PROVE IInv' /\ Evicting OBVIOUS
<1> DEFINE P == Loads(ld, stack, ret)
<1>1. /\ stack = <<>> /\ ret = "none" /\ ops < MaxOps /\ Counted(l) /\ direct' = [direct EXCEPT ![l] = @ + 1]
      /\ ops' = ops + 1 /\ UNCHANGED <<stack, up, ret, GSExit, links, dangling>>
  BY DEF RegistryCountLibrary, Startup
<1>2. /\ direct \in [Libs -> Nat] /\ stack \in Seq(Frames) /\ Len(stack) <= MaxFrames /\ Framed(ld, stack)
      /\ ld \in Systems /\ Shape(ld) /\ ops' \in 0 .. MaxOps
  BY <1>1, Constants DEF IInv, TypeOK, Depth
<1>3. direct' \in [Libs -> Nat] BY <1>1, <1>2
<1>4. IsFiniteSet(P) BY <1>2, LoadsFinite
<1> HIDE DEF P
<1>5. OneMore(P, P, l)
  <2> SUFFICES ASSUME NEW m \in Libs
      PROVE /\ m # l /\ (Of(P, m) # {} \/ direct'[m] > 0) => Of(P, m) # {} \/ direct[m] > 0
            /\ Cardinality(Of(P, m)) \in Nat
            /\ Cardinality(Of(P, m)) + direct'[m]
                  <= Cardinality(Of(P, m)) + direct[m] + (IF m = l THEN 1 ELSE 0)
    BY DEF OneMore
  <2>1. direct'[m] = IF m = l THEN direct[m] + 1 ELSE direct[m] BY <1>1, <1>2
  <2>2. Cardinality(Of(P, m)) \in Nat /\ direct[m] \in Nat
    <3>1. Of(P, m) \subseteq P BY DEF Of
    <3> QED BY <1>2, <1>4, <3>1, FS_Subset, FS_CardinalityType
  <2> QED BY <2>1, <2>2
<1>6. OneMore(Loads(ld, stack, ret), Loads(ld, stack, "none"), l) BY <1>1, <1>5 DEF P
<1> QED BY <1>1, <1>2, <1>3, <1>6, CountStep

LEMMA CountLibraryStep == IInv /\ CountLibrary => IInv' /\ Evicting
<1> SUFFICES ASSUME IInv, CountLibrary PROVE IInv' /\ Evicting OBVIOUS
<1> DEFINE id == Needed[Top.i]  tt == [stack EXCEPT ![Depth].i = @ + 1]
           P == Loads(ld, stack, ret)  Q == Loads(ld, tt, "none")  p == <<Top.b, Top.i, Needed[Top.i]>>
<1>1. /\ stack # <<>> /\ Top.pc = "libs" /\ ret = "none" /\ Top.i <= Len(Needed) /\ Counted(id)
      /\ stack' = tt /\ UNCHANGED <<up, ret, GSExit, ops, direct, links, dangling>>
  BY DEF CountLibrary, AtLibs
<1>2. /\ direct \in [Libs -> Nat] /\ Len(stack) <= MaxFrames /\ ld \in Systems /\ Shape(ld)
      /\ ops \in 0 .. MaxOps
  BY DEF IInv, TypeOK, Depth
<1>3. id \in Libs
  <2>1. Top.i \in 1 .. Len(Needed) BY <1>1, AtLibsIs
  <2> QED BY <1>1, <2>1, AtLibsIs
<1>4. InList(ld, id)
  <2>1. GetLibrary(ld, id) # NULL BY <1>1 DEF Counted
  <2> QED BY <1>2, <2>1, GetLibraryIs
<1>5. tt \in Seq(Frames) /\ Len(tt) = Len(stack) /\ Framed(ld, tt) /\ Q \subseteq P \cup {p}
  BY <1>1, <1>4, AdvanceIs
<1>6. IsFiniteSet(P) /\ p[3] = id BY <1>2, LoadsFinite
<1> HIDE DEF id, tt, P, Q, p
<1>7. OneMore(P, Q, id)
  <2> SUFFICES ASSUME NEW m \in Libs
      PROVE /\ m # id /\ (Of(Q, m) # {} \/ direct[m] > 0) => Of(P, m) # {} \/ direct[m] > 0
            /\ Cardinality(Of(Q, m)) \in Nat /\ Cardinality(Of(P, m)) \in Nat
            /\ Cardinality(Of(Q, m)) + direct[m]
                  <= Cardinality(Of(P, m)) + direct[m] + (IF m = id THEN 1 ELSE 0)
    BY <1>1 DEF OneMore
  <2>1. /\ Cardinality(Of(Q, m)) \in Nat /\ Cardinality(Of(P, m)) \in Nat
        /\ Cardinality(Of(Q, m)) <= Cardinality(Of(P, m)) + 1
        /\ p[3] # m => Of(Q, m) \subseteq Of(P, m) /\ Cardinality(Of(Q, m)) <= Cardinality(Of(P, m))
    BY <1>5, <1>6, OfMore
  <2>2. direct[m] \in Nat BY <1>2
  <2> QED BY <1>6, <2>1, <2>2
<1> QED BY <1>1, <1>2, <1>3, <1>5, <1>7, CountStep DEF P, Q

LEMMA LibraryLoadedStep == IInv /\ LibraryLoaded => IInv' /\ Evicting
<1> SUFFICES ASSUME IInv, LibraryLoaded PROVE IInv' /\ Evicting OBVIOUS
<1> DEFINE tt == [stack EXCEPT ![Depth].i = @ + 1]  P == Loads(ld, stack, ret)  Q == Loads(ld, tt, "none")
<1>1. /\ stack # <<>> /\ ret = "ok" /\ ret' = "none" /\ stack' = tt
      /\ UNCHANGED <<ld, up, GSExit, ops, direct, links, dangling, late>>
  BY DEF LibraryLoaded, code
<1>2. /\ Top.pc = "libs" /\ Top.i <= Len(Needed) /\ InList(ld, Needed[Top.i])
  BY <1>1 DEF IInv, Answered, FileAt, Top, Depth, Needed
<1>3. tt \in Seq(Frames) /\ Len(tt) = Len(stack) /\ Framed(ld, tt) /\ Q \subseteq P
  BY <1>1, <1>2, AdvanceIs
<1>4. /\ ld \in Systems /\ Shape(ld) /\ Covered(ld, P) /\ LinkedTo(ld, links, dangling)
      /\ direct \in [Libs -> Nat] /\ Len(stack) <= MaxFrames
  BY <1>1 DEF IInv, TypeOK, Depth
<1>5. IsFiniteSet(P) BY <1>4, LoadsFinite
<1> HIDE DEF tt, P, Q
<1>6. Covered(ld, Q) BY <1>3, <1>4, <1>5, CoveredLess
<1>7. TypeOK' BY <1>1, <1>3, <1>4 DEF IInv, TypeOK, Depth
<1>8. PICK q, t : q = Q /\ t = tt OBVIOUS
<1>9. Covered(ld, Loads(ld, stack, ret))'
  <2>1. Loads(ld, stack, ret)' = q BY <1>1, <1>8 DEF Q
  <2> QED BY <1>1, <1>6, <1>8, <2>1 DEF Covered
<1>10. LinkedTo(ld, links, dangling)' BY <1>1, <1>4 DEF LinkedTo, Clean
<1>11. Framed(ld, stack)' BY <1>1, <1>3, <1>8
<1>12. Answered(ld, stack, ret)' BY <1>1 DEF Answered
<1>13. Shape(ld)' /\ Symbols(ld)' BY <1>1 DEF IInv
<1>14. Evicting BY <1>1, NoneCloses
<1> QED BY <1>7, <1>9, <1>10, <1>11, <1>12, <1>13, <1>14 DEF IInv

LEMMA LibraryMissingStep == IInv /\ LibraryMissing => IInv' /\ Evicting
<1> SUFFICES ASSUME IInv, LibraryMissing PROVE IInv' /\ Evicting OBVIOUS
<1>1. /\ stack # <<>> /\ Top.pc = "libs" /\ ret = "none" /\ Top.i <= Len(Needed) /\ ret' = "null"
      /\ UNCHANGED <<ld, stack, up, GSExit, ops, direct, links, dangling, late>>
  BY DEF LibraryMissing, AtLibs, code
<1>2. Answered(ld, stack, ret)' BY <1>1 DEF Answered, FileAt, Top, Depth, Needed
<1>3. Loads(ld, stack, "null") = Loads(ld, stack, ret) BY <1>1 DEF Loads
<1>4. Covered(ld, Loads(ld, stack, ret))'
  <2>1. Loads(ld, stack, ret)' = Loads(ld, stack, ret) BY <1>1, <1>3
  <2>2. Covered(ld, Loads(ld, stack, ret)) BY <1>1 DEF IInv
  <2> QED BY <1>1, <2>1, <2>2 DEF Covered
<1>5. LinkedTo(ld, links, dangling)' BY <1>1 DEF IInv, LinkedTo, Clean
<1>6. TypeOK' BY <1>1 DEF IInv, TypeOK, Depth
<1>7. Framed(ld, stack)' /\ Shape(ld)' /\ Symbols(ld)' BY <1>1 DEF IInv
<1>8. Evicting BY <1>1, NoneCloses
<1> QED BY <1>2, <1>4, <1>5, <1>6, <1>7, <1>8 DEF IInv

(* What changes only flags. *)
LEMMA SameStep ==
    ASSUME IInv, UNCHANGED <<ld, stack, ret, ops, direct, links, dangling, late>>,
           up' \in BOOLEAN, GSExit' \in BOOLEAN
    PROVE  IInv' /\ Evicting
<1>1. TypeOK' BY DEF IInv, TypeOK, Depth
<1>2. Framed(ld, stack)' /\ Shape(ld)' /\ Symbols(ld)' /\ Answered(ld, stack, ret)' BY DEF IInv
<1>3. Loads(ld, stack, ret)' = Loads(ld, stack, ret) OBVIOUS
<1>4. ret # "down" => Covered(ld, Loads(ld, stack, ret))' /\ LinkedTo(ld, links, dangling)'
  BY <1>3 DEF IInv, Covered, LinkedTo, Clean
<1>5. Evicting BY NoneCloses
<1> QED BY <1>1, <1>2, <1>4, <1>5 DEF IInv

LEMMA FlagStep == IInv /\ (SystemUp \/ Quit) => IInv' /\ Evicting
<1>1. ASSUME IInv, SystemUp PROVE IInv' /\ Evicting BY <1>1, SameStep DEF SystemUp, code, IInv, TypeOK
<1>2. ASSUME IInv, Quit PROVE IInv' /\ Evicting BY <1>2, SameStep DEF Quit, code, IInv, TypeOK
<1> QED BY <1>1, <1>2

(* Nothing is there: at the start and at the end. *)
LEMMA EmptyIs ==
    ASSUME NEW S, S = [apps |-> <<>>, app |-> [b \in Blocks |-> Blank], sym |-> [s \in Libs |-> NoSymbol]]
    PROVE  /\ S \in Systems /\ Shape(S) /\ Symbols(S) /\ Framed(S, <<>>)
           /\ S.apps = <<>> /\ \A b \in Blocks : S.app[b] = Blank
<1>0. S.apps = <<>> /\ (\A b \in Blocks : S.app[b] = Blank) /\ S.sym = [s \in Libs |-> NoSymbol]
  OBVIOUS
<1>1. S \in Systems
  <2>1. [b \in Blocks |-> Blank] \in [Blocks -> AppRecords] BY BlankIs
  <2>2. [s \in Libs |-> NoSymbol] \in [Libs -> [at : Blocks \cup {NULL}, own : Blocks \cup {NULL}]]
    BY DEF NoSymbol
  <2> QED BY <2>1, <2>2 DEF Systems
<1> DEFINE e == <<>>
<1>2. Range(e) = {} /\ Len(e) = 0 BY DEF Range
<1>3. Shape(S) BY <1>0, <1>2, BlankIs, Constants DEF Shape, Distinct, Listed
<1>4. \A s \in Libs : S.sym[s].at = NULL /\ S.sym[s].own = NULL BY <1>0 DEF NoSymbol
<1>5. Symbols(S) BY <1>4 DEF Symbols
<1>6. Framed(S, e) BY <1>0, <1>2, BlankIs DEF Framed, Starting, LoadingOne
<1> QED BY <1>0, <1>1, <1>3, <1>5, <1>6

LEMMA ShutDownStep == IInv /\ ShutDownDynLd => IInv' /\ Evicting
<1> SUFFICES ASSUME IInv, ShutDownDynLd PROVE IInv' /\ Evicting OBVIOUS
<1>1. /\ stack = <<>> /\ stack' = <<>> /\ ret' = "down"
      /\ ld' = [apps |-> <<>>, app |-> [b \in Blocks |-> Blank], sym |-> [s \in Libs |-> NoSymbol]]
      /\ UNCHANGED <<stack, up, GSExit, ops, direct, links, dangling, late>>
  BY DEF ShutDownDynLd, code
<1>2. PICK T : T = ld' OBVIOUS
<1>3. /\ T \in Systems /\ Shape(T) /\ Symbols(T) /\ Framed(T, <<>>)
      /\ T.apps = <<>> /\ \A b \in Blocks : T.app[b] = Blank
  BY <1>1, <1>2, EmptyIs
<1>4. TypeOK' BY <1>1, <1>2, <1>3 DEF IInv, TypeOK, Depth
<1>5. Answered(ld, stack, ret)' BY <1>1, <1>2, <1>3 DEF Answered
<1>6. Evicting BY <1>2, <1>3, BlankIs DEF Evicting
<1> QED BY <1>1, <1>2, <1>3, <1>4, <1>5, <1>6 DEF IInv

LEMMA InitIs == Init => IInv
<1> SUFFICES ASSUME Init PROVE IInv OBVIOUS
<1>1. /\ ld = [apps |-> <<>>, app |-> [b \in Blocks |-> Blank], sym |-> [s \in Libs |-> NoSymbol]]
      /\ stack = <<>> /\ up = FALSE /\ ret = "none" /\ GSExit = FALSE /\ ops = 0
      /\ direct = [l \in Libs |-> 0]
      /\ links = [b \in Blocks |-> {}] /\ dangling = {} /\ late = {}
  BY DEF Init
<1>2. /\ ld \in Systems /\ Shape(ld) /\ Symbols(ld) /\ Framed(ld, stack)
      /\ ld.apps = <<>> /\ \A b \in Blocks : ld.app[b] = Blank
  BY <1>1, EmptyIs
<1>3. stack \in Seq(Frames) /\ Len(stack) = 0 BY <1>1
<1>4. TypeOK
  <2>1. links \in [Blocks -> SUBSET Blocks] /\ dangling \subseteq Blocks BY <1>1
  <2>2. direct \in [Libs -> Nat] /\ late \subseteq Libs BY <1>1
  <2>3. Depth <= MaxFrames /\ ops \in 0 .. MaxOps BY <1>1, <1>3, Constants DEF Depth
  <2>4. up \in BOOLEAN /\ GSExit \in BOOLEAN /\ ret \in {"none", "ok", "null", "down"} BY <1>1
  <2> QED BY <1>2, <1>3, <2>1, <2>2, <2>3, <2>4 DEF TypeOK
<1>5. Loads(ld, stack, ret) = {} BY <1>2, BlankIs DEF Loads
<1>6. Covered(ld, Loads(ld, stack, ret))
  <2>1. \A l : Of({}, l) = {} BY DEF Of
  <2>2. \A c \in Blocks : ld.app[c].state # "running" BY <1>2, BlankIs
  <2>3. \A l \in Libs : ~ (direct[l] > 0) BY <1>1
  <2> QED BY <1>5, <2>1, <2>2, <2>3 DEF Covered
<1>7. LinkedTo(ld, links, dangling) BY <1>1, <1>2, BlankIs DEF LinkedTo, Listed
<1>8. Answered(ld, stack, ret) BY <1>1 DEF Answered
<1> QED BY <1>2, <1>4, <1>6, <1>7, <1>8 DEF IInv

-----------------------------------------------------------------------------
(* The libraries are there: the application is linked and enters the list. *)
LEMMA LinkStep == IInv /\ Link => IInv' /\ Evicting
<1> SUFFICES ASSUME IInv, Link PROVE IInv' /\ Evicting OBVIOUS
<1> DEFINE S == ld  st == stack  n == Len(stack)  b == Top.b  F == ld.app[Top.b].file
           from == {ld.sym[s].at : s \in Imports[F]}
           rec == [ld.app[b] EXCEPT !.state = "starting"]
           new == [st[n] EXCEPT !.pc = "main"]
<1>1. /\ stack # <<>> /\ Top.pc = "libs" /\ ret = "none" /\ Top.i > Len(Needed) /\ Resolved
      /\ ld' = [ld EXCEPT !.apps = Append(@, b), !.app[b].state = "starting"]
      /\ links' = [links EXCEPT ![b] = from \cap Range(ld.apps)]
      /\ dangling' = IF from \subseteq Range(ld.apps) THEN dangling ELSE dangling \cup {b}
      /\ stack' = [stack EXCEPT ![Depth].pc = "main"]
      /\ UNCHANGED <<up, ret, GSExit, ops, direct, late>>
  BY DEF Link, AtLibs
<1>2. /\ S \in Systems /\ Shape(S) /\ Symbols(S) /\ Framed(S, st) /\ st \in Seq(Frames)
      /\ Covered(S, Loads(S, st, "none")) /\ LinkedTo(S, links, dangling)
      /\ direct \in [Libs -> Nat] /\ links \in [Blocks -> SUBSET Blocks] /\ dangling \subseteq Blocks
      /\ n <= MaxFrames
  BY <1>1 DEF IInv, TypeOK, Depth
<1>3. /\ n \in Nat /\ n \in 1 .. n /\ Depth = n /\ Top = st[n]
      /\ \A k \in 1 .. n : st[k] \in Frames /\ st[k].b \in Blocks /\ st[k].pc \in {"libs", "main"}
  BY <1>1, <1>2, FramesAre DEF Depth, Top
<1>4. /\ b \in Blocks /\ S.app[b].state = "loading" /\ F \in Files
      /\ Needed = Needs[F] /\ Len(Needs[F]) \in Nat /\ Top.i > Len(Needs[F]) /\ Top.i \in Nat
      /\ F \in Libs => ~ InList(S, F)
      /\ \A i \in 1 .. Len(Needs[F]) : InList(S, Needs[F][i])
      /\ ~ Top.gone
  <2>1. /\ b \in Blocks /\ S.app[b].state = "loading" /\ F \in Files
        /\ Needed = Needs[F] /\ Len(Needs[F]) \in Nat /\ Top.i \in 1 .. Len(Needs[F]) + 1
        /\ F \in Libs => ~ InList(S, F)
        /\ \A i \in 1 .. Top.i - 1 : InList(S, Needed[i])
        /\ ~ Top.gone
    BY <1>1, AtLibsIs
  <2>2. Top.i > Len(Needs[F]) BY <1>1, <2>1
  <2> DEFINE m == Len(Needs[F])  t == Top.i
  <2>3. m \in Nat /\ t \in Nat /\ t > m BY <2>1, <2>2
  <2> HIDE DEF m, t
  <2>4. \A i \in 1 .. m : i \in 1 .. t - 1 BY <2>3
  <2>5. \A i \in 1 .. Len(Needs[F]) : i \in 1 .. Top.i - 1 BY <2>4 DEF m, t
  <2>6. \A i \in 1 .. Len(Needs[F]) : InList(S, Needs[F][i]) BY <2>1, <2>5, Zenon
  <2> QED BY <2>1, <2>2, <2>3, <2>6 DEF t
<1>5. rec \in AppRecords /\ rec.state = "starting" /\ rec.file = F /\ rec.host = S.app[b].host
  <2>1. S.app[b] \in AppRecords BY <1>2, <1>4, ListIs
  <2> QED BY <2>1 DEF AppRecords
<1> HIDE DEF rec
<1>6. PICK T : T = ld' OBVIOUS
<1>7. /\ T \in Systems /\ T.apps = Append(S.apps, b) /\ T.sym = S.sym /\ T.app[b] = rec
      /\ \A x \in Blocks \ {b} : T.app[x] = S.app[x]
  <2> DEFINE app == [S.app EXCEPT ![b] = rec]  apps == Append(S.apps, b)
  <2>1. S.app \in [Blocks -> AppRecords] /\ S.apps \in Seq(Blocks) BY <1>2, ListIs
  <2>2. T = [S EXCEPT !.apps = apps, !.app = app] BY <1>1, <1>6 DEF rec
  <2>3. app \in [Blocks -> AppRecords] /\ app[b] = rec /\ \A x \in Blocks \ {b} : app[x] = S.app[x]
    <3> HIDE DEF b
    <3> QED BY <1>4, <1>5, <2>1
  <2>4. apps \in Seq(Blocks) BY <1>4, <2>1
  <2> HIDE DEF app, apps
  <2>5. T = [apps |-> apps, app |-> app, sym |-> S.sym] BY <1>2, <2>2 DEF Systems
  <2> QED BY <1>2, <2>3, <2>4, <2>5 DEF Systems, apps
<1>8. PICK tt : tt = stack' OBVIOUS
<1>9. new \in Frames /\ new.b = b /\ new.pc = "main" /\ ~ new.gone
  <2>1. st[n] \in Frames BY <1>3
  <2> QED BY <1>3, <1>4, <2>1 DEF Frames
<1>10. tt \in Seq(Frames) /\ Len(tt) = n /\ tt # <<>> /\ tt[n] = new
       /\ \A k \in 1 .. n : k # n => tt[k] = st[k]
  <2>1. tt = [st EXCEPT ![n] = new] BY <1>1, <1>3, <1>8
  <2> HIDE DEF new
  <2>2. tt \in Seq(Frames) /\ Len(tt) = n /\ tt[n] = new /\ \A k \in 1 .. n : k # n => tt[k] = st[k]
    BY <1>2, <1>3, <1>9, <2>1, ExceptSeq
  <2>3. tt # <<>> BY <1>3, <2>2
  <2> QED BY <2>2, <2>3
<1> HIDE DEF new
<1>11. /\ \A k \in 1 .. n : Frame(S, st, k)
       /\ \A j, k \in 1 .. n : Nested(S, st, j, k)
       /\ Starting(S, st) /\ \A x \in Blocks : LoadingOne(S, st, x)
  BY <1>2 DEF Framed
<1>12. /\ \A x \in Blocks : T.app[x].file = S.app[x].file /\ T.app[x].host = S.app[x].host
       /\ \A k \in 1 .. n : tt[k].b = st[k].b /\ FileAt(T, tt, k) = FileAt(S, st, k)
       /\ FileAt(S, st, n) = F /\ st[n].b = b /\ st[n].pc = "libs"
       /\ b \notin Range(S.apps) /\ Range(S.apps) \subseteq Blocks
       /\ S.apps \in Seq(Blocks)
  <2>1. \A x \in Blocks : T.app[x].file = S.app[x].file /\ T.app[x].host = S.app[x].host
    BY <1>5, <1>7
  <2>2. \A k \in 1 .. n : tt[k].b = st[k].b BY <1>3, <1>9, <1>10
  <2>3. \A k \in 1 .. n : FileAt(T, tt, k) = FileAt(S, st, k) BY <1>3, <2>1, <2>2 DEF FileAt
  <2>4. b \notin Range(S.apps) /\ Range(S.apps) \subseteq Blocks /\ S.apps \in Seq(Blocks)
    BY <1>2, <1>4, ListIs DEF Listed
  <2> QED BY <1>1, <1>3, <2>1, <2>2, <2>3, <2>4 DEF FileAt
<1>13. Len(S.apps) \in Nat /\ Len(T.apps) = Len(S.apps) + 1 /\ T.apps[Len(S.apps) + 1] = b
       /\ \A i \in 1 .. Len(S.apps) : T.apps[i] = S.apps[i] /\ S.apps[i] \in Range(S.apps)
  <2>1. /\ Len(T.apps) = Len(S.apps) + 1 /\ T.apps[Len(S.apps) + 1] = b
        /\ \A i \in 1 .. Len(S.apps) : T.apps[i] = S.apps[i]
    BY <1>4, <1>7, <1>12, AppendProperties
  <2>2. Len(S.apps) \in Nat /\ \A i \in 1 .. Len(S.apps) : S.apps[i] \in Range(S.apps)
    BY <1>12, LenProperties DEF Range
  <2> QED BY <2>1, <2>2
<1>14. Range(T.apps) = Range(S.apps) \cup {b}
  <2>1. Range(T.apps) = {T.apps[i] : i \in 1 .. (Len(S.apps) + 1)}
    <3>1. T.apps \in Seq(Blocks) BY <1>7 DEF Systems
    <3> QED BY <1>13, <3>1, LenProperties DEF Range
  <2>2. Range(S.apps) = {S.apps[i] : i \in 1 .. Len(S.apps)} BY <1>12, LenProperties DEF Range
  <2>3. \A i \in 1 .. (Len(S.apps) + 1) : i \in 1 .. Len(S.apps) \/ i = Len(S.apps) + 1 BY <1>13
  <2>4. \A i \in 1 .. Len(S.apps) : i \in 1 .. (Len(S.apps) + 1) BY <1>13
  <2>5. Len(S.apps) + 1 \in 1 .. (Len(S.apps) + 1) BY <1>13
  <2> HIDE DEF b
  <2> QED BY <1>13, <2>1, <2>2, <2>3, <2>4, <2>5
<1>15. \A f : InList(T, f) <=> InList(S, f) \/ f = F
  BY <1>4, <1>12, <1>14 DEF InList
<1>16. Shape(T)
  <2>1. Distinct(T.apps)
    <3> SUFFICES ASSUME NEW i \in 1 .. Len(T.apps), NEW j \in 1 .. Len(T.apps), T.apps[i] = T.apps[j]
        PROVE i = j
      BY DEF Distinct
    <3>1. (i \in 1 .. Len(S.apps) \/ i = Len(S.apps) + 1) /\ (j \in 1 .. Len(S.apps) \/ j = Len(S.apps) + 1)
      BY <1>13
    <3> HIDE DEF b
    <3> QED BY <1>2, <1>12, <1>13, <3>1 DEF Shape, Distinct
  <2>2. ASSUME NEW x \in Blocks
        PROVE /\ x \in Range(T.apps) <=> T.app[x].state \in Listed
              /\ IF T.app[x].state = "free" THEN T.app[x] = Blank ELSE T.app[x].file \in Files
              /\ T.app[x].file \in Libs => T.app[x].host = NULL
              /\ T.app[x].host # NULL => T.app[x].host # x /\ T.app[T.app[x].host].host = NULL
    <3>1. S.app[x].host \in Blocks \cup {NULL} BY <1>2, ListIs
    <3>2. T.app[x].host # NULL => T.app[x].host # x /\ T.app[T.app[x].host].host = NULL
      BY <1>2, <1>12, <3>1 DEF Shape
    <3>3. T.app[x].file \in Libs => T.app[x].host = NULL BY <1>2, <1>12 DEF Shape
    <3>4. CASE x = b BY <1>4, <1>5, <1>7, <1>14, <3>2, <3>3, <3>4 DEF Listed
    <3>5. CASE x # b
      <4> HIDE DEF b
      <4> QED BY <1>2, <1>7, <1>14, <3>2, <3>3, <3>5 DEF Shape
    <3> QED BY <3>4, <3>5
  <2>3. ASSUME NEW c \in Range(T.apps), NEW d \in Range(T.apps),
               T.app[c].file \in Libs, T.app[c].file = T.app[d].file
        PROVE  c = d
    <3>1. c \in Blocks /\ d \in Blocks /\ S.app[c].file \in Libs /\ S.app[c].file = S.app[d].file
      BY <1>4, <1>12, <1>14, <2>3
    <3>2. \A x \in Range(S.apps) : F \in Libs => S.app[x].file # F BY <1>4 DEF InList
    <3> QED BY <1>2, <1>14, <3>1, <3>2 DEF Shape
  <2> QED BY <2>1, <2>2, <2>3 DEF Shape
<1>17. Symbols(T)
  <2>1. \A s \in Libs : S.sym[s].at \in Blocks \cup {NULL} BY <1>2 DEF Systems
  <2>2. \A x \in Blocks : S.app[x].state = "running" => T.app[x] = S.app[x] BY <1>4, <1>7
  <2> QED BY <1>2, <1>7, <2>1, <2>2 DEF Symbols
<1>18. ASSUME NEW k \in 1 .. n, k # n, st[k].pc = "libs"
       PROVE  st[k].b # b /\ T.app[st[k].b] = S.app[st[k].b] /\ FileAt(S, st, k) # F
              /\ (F \in Libs => \A i \in 1 .. st[k].i - 1 : Needs[FileAt(S, st, k)][i] # F) /\ F \in Libs
  <2>1. k < n /\ Nested(S, st, k, n) /\ Frame(S, st, k) BY <1>3, <1>11, <1>18
  <2>2. st[k].b # b /\ F \in Libs BY <1>12, <1>18, <2>1 DEF Nested
  <2>3. T.app[st[k].b] = S.app[st[k].b] BY <1>3, <1>7, <2>2
  <2>4. FileAt(S, st, k) # F
    <3>1. SUFFICES ASSUME FileAt(S, st, k) = F PROVE FALSE OBVIOUS
    <3>2. k + 1 \in 1 .. n BY <1>3, <2>1
    <3>3. Nested(S, st, k, k + 1) BY <1>11, <3>2
    <3>4. /\ FileAt(S, st, k + 1) \in Libs /\ st[k].i <= Len(Needs[F]) /\ Needs[F][st[k].i] = FileAt(S, st, k + 1)
          /\ (st[k + 1].pc = "main" => k + 1 = n)
      BY <1>18, <3>1, <3>3 DEF Nested
    <3>5. st[k].i \in 1 .. Len(Needs[F])
      <4>1. st[k].i \in 1 .. Len(Needs[F]) + 1 BY <1>18, <2>1, <3>1 DEF Frame
      <4> QED BY <1>4, <3>4, <4>1
    <3>6. InList(S, FileAt(S, st, k + 1)) BY <1>4, <3>4, <3>5
    <3>7. st[k + 1].pc = "libs"
      <4>1. st[k + 1].pc # "main" BY <1>12, <3>4
      <4> QED BY <1>3, <3>2, <4>1
    <3>8. ~ InList(S, FileAt(S, st, k + 1)) BY <1>11, <3>2, <3>4, <3>7 DEF Frame
    <3> QED BY <3>6, <3>8
  <2>5. \A i \in 1 .. st[k].i - 1 : Needs[FileAt(S, st, k)][i] # F
    <3>1. \A i \in 1 .. st[k].i - 1 : InList(S, Needs[FileAt(S, st, k)][i]) BY <1>18, <2>1 DEF Frame
    <3> QED BY <1>4, <2>2, <3>1
  <2> QED BY <2>2, <2>3, <2>4, <2>5
<1>19. ASSUME NEW k \in 1 .. n PROVE Frame(T, tt, k)
  <2>1. CASE k = n
    <3>1. T.app[tt[k].b].state \in Listed BY <1>5, <1>7, <1>9, <1>10, <2>1 DEF Listed
    <3> QED BY <1>9, <1>10, <2>1, <3>1 DEF Frame
  <2>2. CASE k # n
    <3>1. Frame(S, st, k) /\ tt[k] = st[k] BY <1>10, <1>11, <2>2
    <3>2. CASE st[k].pc = "libs"
      <4>1. T.app[st[k].b] = S.app[st[k].b] /\ FileAt(S, st, k) # F BY <1>18, <2>2, <3>2
      <4> QED BY <1>12, <1>15, <3>1, <3>2, <4>1 DEF Frame
    <3>3. CASE st[k].pc = "main"
      <4> SUFFICES ASSUME ~ st[k].gone
          PROVE T.app[st[k].b].state \in Listed /\ FileAt(T, tt, k) \notin Libs
        BY <3>1, <3>3 DEF Frame
      <4>1. S.app[st[k].b].state \in Listed BY <3>1, <3>3 DEF Frame
      <4>2. T.app[st[k].b].state \in Listed
        <5> HIDE DEF b
        <5>1. st[k].b # b BY <1>4, <4>1 DEF Listed
        <5> QED BY <1>3, <1>7, <4>1, <5>1
      <4>3. FileAt(S, st, k) \notin Libs BY <1>3, <2>2, <3>1, <3>3 DEF Frame
      <4> QED BY <1>12, <4>2, <4>3
    <3> QED BY <1>3, <3>2, <3>3
  <2> QED BY <2>1, <2>2
<1>20. ASSUME NEW j \in 1 .. n, NEW k \in 1 .. n PROVE Nested(T, tt, j, k)
  <2> SUFFICES ASSUME tt[j].pc = "libs", j < k
      PROVE /\ FileAt(T, tt, k) \in Libs /\ ~ tt[k].gone /\ tt[k].b # tt[j].b
            /\ k = j + 1 => tt[j].i <= Len(Needs[FileAt(T, tt, j)])
                            /\ Needs[FileAt(T, tt, j)][tt[j].i] = FileAt(T, tt, k)
            /\ tt[k].pc = "main" =>
                  k = n /\ \A i \in 1 .. tt[j].i - 1 : Needs[FileAt(T, tt, j)][i] # FileAt(T, tt, k)
    BY <1>10 DEF Nested
  <2>1. j # n /\ tt[j] = st[j] /\ st[j].pc = "libs" BY <1>3, <1>10
  <2>2. Nested(S, st, j, k) BY <1>11
  <2>3. CASE k = n BY <1>9, <1>10, <1>12, <1>18, <2>1, <2>2, <2>3 DEF Nested
  <2>4. CASE k # n BY <1>10, <1>12, <2>1, <2>2, <2>4 DEF Nested
  <2> QED BY <2>3, <2>4
<1>21. Starting(T, tt)
  <2>1. ASSUME NEW x \in Blocks, T.app[x].file \in Libs, T.app[x].state = "starting" PROVE x = b
    <3>1. SUFFICES ASSUME x # b PROVE FALSE OBVIOUS
    <3>2. S.app[x].file \in Libs /\ S.app[x].state = "starting"
      <4> HIDE DEF b
      <4> QED BY <1>7, <2>1, <3>1
    <3>3. st[n].pc = "main" BY <1>11, <3>2 DEF Starting
    <3> QED BY <1>12, <3>3
  <2>2. T.app[tt[n].b].state = "starting" /\ tt[n].b = b /\ tt[n].pc = "main" /\ ~ tt[n].gone
    BY <1>5, <1>7, <1>9, <1>10
  <2> HIDE DEF b
  <2> QED BY <1>10, <2>1, <2>2 DEF Starting
<1>22. ASSUME NEW x \in Blocks PROVE LoadingOne(T, tt, x)
  <2> SUFFICES ASSUME T.app[x].state = "loading"
      PROVE /\ \E k \in 1 .. n : tt[k].b = x /\ tt[k].pc = "libs"
            /\ T.app[x].host # NULL =>
                  /\ T.app[T.app[x].host].state \in {"starting", "running"}
                  /\ T.app[T.app[x].host].file \notin Libs
    BY <1>10 DEF LoadingOne
  <2>1. x # b BY <1>5, <1>7
  <2> HIDE DEF b
  <2>2. T.app[x] = S.app[x] BY <1>7, <2>1
  <2>3. PICK k \in 1 .. n : st[k].b = x /\ st[k].pc = "libs" BY <1>11, <2>2 DEF LoadingOne
  <2>4. k # n BY <1>12, <2>1, <2>3
  <2>5. S.app[x].host # NULL => S.app[x].host \in Blocks
        /\ S.app[S.app[x].host].state \in {"starting", "running"} /\ S.app[S.app[x].host].file \notin Libs
    BY <1>2, <1>11, <2>2, ListIs DEF LoadingOne
  <2>6. S.app[x].host # NULL => S.app[x].host # b BY <1>4, <2>5
  <2> QED BY <1>7, <1>10, <2>2, <2>3, <2>4, <2>5, <2>6
<1>23. Framed(T, tt) BY <1>10, <1>19, <1>20, <1>21, <1>22 DEF Framed
<1>24. Covered(T, Loads(T, tt, "none"))
  <2> DEFINE P == Loads(S, st, "none")  Q == Loads(T, tt, "none")
  <2>1. Q \subseteq P
    <3> SUFFICES ASSUME NEW p \in Q PROVE p \in P OBVIOUS
    <3>1. /\ p \in Blocks \X Nat \X Libs /\ p[1] \in Blocks /\ p[2] \in Nat
          /\ T.app[p[1]].state # "free"
          /\ p[2] \in 1 .. Len(Needs[T.app[p[1]].file]) /\ p[3] = Needs[T.app[p[1]].file][p[2]]
          /\ \A k \in 1 .. Len(tt) : tt[k].b = p[1] /\ tt[k].pc = "libs" => p[2] < tt[k].i
      BY DEF Loads
    <3>2. \A k \in 1 .. n : k # n /\ st[k].b = p[1] /\ st[k].pc = "libs" => p[2] < st[k].i
      BY <1>10, <3>1
    <3>3. st[n].b = p[1] => p[2] < st[n].i
      <4> SUFFICES ASSUME b = p[1] PROVE p[2] < st[n].i BY <1>12
      <4>1. p[2] \in 1 .. Len(Needs[F]) BY <1>12, <3>1
      <4> QED BY <1>3, <1>4, <4>1
    <3>4. S.app[p[1]].state # "free" /\ S.app[p[1]].file = T.app[p[1]].file
      <4>1. CASE p[1] = b BY <1>4, <1>12, <4>1
      <4>2. CASE p[1] # b
        <5> HIDE DEF b
        <5> QED BY <1>7, <3>1, <4>2
      <4> QED BY <4>1, <4>2
    <3> QED BY <3>1, <3>2, <3>3, <3>4 DEF Loads
  <2>2. IsFiniteSet(P) BY <1>2, LoadsFinite
  <2>3. Covered(S, P) BY <1>2
  <2> HIDE DEF P, Q
  <2>4. Covered(S, Q) BY <1>2, <2>1, <2>2, <2>3, CoveredLess
  <2>5. \A c \in Blocks : S.app[c].state = "running" => T.app[c] = S.app[c] BY <1>4, <1>7
  <2>6. \A c \in Blocks : T.app[c].state = "running" => T.app[c] = S.app[c] BY <1>5, <1>7
  <2>7. Covered(T, Q)
    <3> SUFFICES ASSUME NEW l \in Libs \ late
        PROVE /\ Of(Q, l) # {} \/ direct[l] > 0 =>
                    \E c \in Blocks : T.app[c].file = l /\ T.app[c].state = "running"
              /\ \A c \in Blocks :
                    T.app[c].file = l /\ T.app[c].state = "running"
                       => T.app[c].users >= Cardinality(Of(Q, l)) + direct[l]
      BY DEF Covered
    <3>1. Of(Q, l) # {} \/ direct[l] > 0 =>
             \E c \in Blocks : T.app[c].file = l /\ T.app[c].state = "running"
      BY <2>4, <2>5 DEF Covered
    <3>2. ASSUME NEW c \in Blocks, T.app[c].file = l, T.app[c].state = "running"
          PROVE  T.app[c].users >= Cardinality(Of(Q, l)) + direct[l]
      BY <2>4, <2>6, <3>2 DEF Covered
    <3> QED BY <3>1, <3>2
  <2> QED BY <2>7 DEF Q
<1>25. PICK lk, dg : lk = links' /\ dg = dangling' OBVIOUS
<1>26. /\ lk \in [Blocks -> SUBSET Blocks] /\ dg \subseteq Blocks
       /\ lk[b] = from \cap Range(S.apps) /\ \A x \in Blocks : x # b => lk[x] = links[x]
       /\ dg = IF from \subseteq Range(S.apps) THEN dangling ELSE dangling \cup {b}
  <2> HIDE DEF b, from
  <2>1. from \cap Range(S.apps) \subseteq Blocks BY <1>12
  <2> QED BY <1>1, <1>2, <1>4, <1>25, <2>1
<1>27. LinkedTo(T, lk, dg)
  <2> SUFFICES ASSUME NEW x \in Blocks
      PROVE /\ T.app[x].state \in {"free", "loading"} => lk[x] = {} /\ x \notin dg
            /\ T.app[x].state \in Listed /\ Clean(T.app[x].file) =>
                  /\ x \notin dg
                  /\ \A c \in lk[x] : T.app[c].state = "running" /\ T.app[c].file \in Imports[T.app[x].file]
    BY DEF LinkedTo
  <2>0. \A c \in Blocks : S.app[c].state = "running" => T.app[c] = S.app[c] BY <1>4, <1>7
  <2>1. CASE x = b
    <3>1. b \notin dangling BY <1>2, <1>4 DEF LinkedTo
    <3> SUFFICES ASSUME Clean(F)
        PROVE b \notin dg /\ \A c \in lk[b] : T.app[c].state = "running" /\ T.app[c].file \in Imports[F]
      BY <1>5, <1>7, <2>1
    <3>2. ASSUME NEW s \in Imports[F]
          PROVE  /\ S.sym[s].at \in Blocks /\ S.app[S.sym[s].at].state = "running"
                 /\ S.app[S.sym[s].at].file \in Imports[F]
      <4>1. s \in Libs
        <5>1. Imports[F] \subseteq Libs BY <1>4, DynLdAssumption
        <5> QED BY <5>1
      <4>2. S.sym[s].at # NULL BY <1>1 DEF Resolved
      <4>3. s \notin Anonymous BY DEF Clean
      <4>4. S.sym[s].at \in Blocks \cup {NULL} BY <1>2, <4>1 DEF Systems
      <4> QED BY <1>2, <4>1, <4>2, <4>3, <4>4 DEF Symbols
    <3>3. from \subseteq Range(S.apps)
      <4>1. \A s \in Imports[F] : S.sym[s].at \in Range(S.apps) BY <1>2, <3>2, ListIs DEF Listed
      <4> QED BY <4>1
    <3>4. \A c \in lk[b] : c \in Blocks /\ S.app[c].state = "running" /\ S.app[c].file \in Imports[F]
      <4>1. \A c \in lk[b] : c \in from BY <1>26
      <4> QED BY <3>2, <4>1
    <3> QED BY <1>26, <2>0, <3>1, <3>3, <3>4
  <2>2. CASE x # b
    <3> HIDE DEF b, from
    <3>1. T.app[x] = S.app[x] /\ lk[x] = links[x] /\ (x \in dg => x \in dangling) BY <1>7, <1>26, <2>2
    <3>2. \A c \in links[x] : c \in Blocks BY <1>2
    <3> QED BY <1>2, <2>0, <3>1, <3>2 DEF LinkedTo
  <2> QED BY <2>1, <2>2
<1>28. ld' = T /\ stack' = tt /\ ret' = "none" /\ direct' = direct /\ late' = late
       /\ links' = lk /\ dangling' = dg
  BY <1>1, <1>6, <1>8, <1>25
<1>29. TypeOK'
  <2>1. up' \in BOOLEAN /\ GSExit' \in BOOLEAN /\ late \subseteq Libs /\ ops' \in 0 .. MaxOps
    BY <1>1 DEF IInv, TypeOK
  <2> QED BY <1>2, <1>7, <1>10, <1>26, <1>28, <2>1 DEF TypeOK, Depth
<1>30. Covered(ld, Loads(ld, stack, ret))' BY <1>24, <1>28 DEF Covered
<1>31. LinkedTo(ld, links, dangling)' BY <1>27, <1>28 DEF LinkedTo, Clean
<1>32. Shape(ld)' /\ Symbols(ld)' /\ Framed(ld, stack)' /\ Answered(ld, stack, ret)'
  BY <1>16, <1>17, <1>23, <1>28 DEF Answered
<1>33. Evicting
  <2>1. \A x \in Blocks : S.app[x].state \in {"starting", "running"} => T.app[x] = S.app[x] BY <1>4, <1>7
  <2> QED BY <1>28, <2>1, NoneCloses
<1> QED BY <1>29, <1>30, <1>31, <1>32, <1>33 DEF IInv

(* Main says yes: the application runs, and who loaded it has counted it.  *)
LEMMA MainTrueStep == IInv /\ MainTrue => IInv' /\ Evicting
<1> SUFFICES ASSUME IInv, MainTrue PROVE IInv' /\ Evicting OBVIOUS
<1> DEFINE S == ld  st == stack  n == Len(stack)  b == Top.b  F == ld.app[Top.b].file
           rec == [ld.app[b] EXCEPT !.state = "running", !.users = 1]
           new == [at |-> b, own |-> IF F \in Anonymous THEN NULL ELSE b]
           sym == IF F \in Libs /\ ld.sym[F].at = NULL THEN [ld.sym EXCEPT ![F] = new] ELSE ld.sym
           P == Loads(S, st, "none")
<1>1. /\ stack # <<>> /\ Top.pc = "main" /\ ~ Top.gone /\ ret = "none"
      /\ ld' = [(IF F \in Libs THEN AddSymbol(ld, F, b) ELSE ld)
                  EXCEPT !.app[b].state = "running", !.app[b].users = 1]
      /\ stack' = Below /\ Answer("ok")
      /\ direct' = IF Below = <<>> /\ F \in Libs THEN [direct EXCEPT ![F] = @ + 1] ELSE direct
      /\ UNCHANGED <<up, GSExit, ops, links, dangling, late>>
  BY DEF MainTrue, AtMain, code
<1>2. /\ S \in Systems /\ Shape(S) /\ Symbols(S) /\ Framed(S, st) /\ st \in Seq(Frames)
      /\ Covered(S, P) /\ LinkedTo(S, links, dangling)
      /\ direct \in [Libs -> Nat] /\ links \in [Blocks -> SUBSET Blocks] /\ dangling \subseteq Blocks
      /\ n <= MaxFrames
  BY <1>1 DEF IInv, TypeOK, Depth
<1>3. /\ n \in Nat /\ n \in 1 .. n /\ Depth = n /\ Top = st[n]
      /\ \A k \in 1 .. n : st[k] \in Frames /\ st[k].b \in Blocks /\ st[k].pc \in {"libs", "main"}
  BY <1>1, <1>2, FramesAre DEF Depth, Top
<1>4. /\ \A k \in 1 .. n : Frame(S, st, k)
      /\ \A j, k \in 1 .. n : Nested(S, st, j, k)
      /\ Starting(S, st) /\ \A x \in Blocks : LoadingOne(S, st, x)
  BY <1>2 DEF Framed
<1>5. /\ b \in Blocks /\ S.app[b].state \in Listed /\ F \in Files /\ F # NULL
      /\ F \in Libs => S.app[b].state = "starting"
      /\ FileAt(S, st, n) = F /\ st[n].b = b /\ st[n].pc = "main"
  <2>1. b \in Blocks /\ FileAt(S, st, n) = F /\ st[n].b = b /\ st[n].pc = "main" BY <1>1, <1>3 DEF FileAt
  <2>2. S.app[b].state \in Listed BY <1>1, <1>3, <1>4, <2>1 DEF Frame
  <2>3. F \in Libs => S.app[b].state = "starting" BY <1>1, <1>3, <1>4, <2>1 DEF Starting
  <2>4. F \in Files BY <1>2, <2>1, <2>2 DEF Shape, Listed
  <2> QED BY <2>1, <2>2, <2>3, <2>4, Constants
<1>6. rec \in AppRecords /\ rec.state = "running" /\ rec.users = 1 /\ rec.file = F /\ rec.host = S.app[b].host
  <2>1. S.app[b] \in AppRecords BY <1>2, <1>5, ListIs
  <2>2. 1 \in 0 .. Word - 1 BY Constants
  <2> QED BY <2>1, <2>2 DEF AppRecords
<1>7. PICK T : T = ld' OBVIOUS
<1>8. /\ T \in Systems /\ T.apps = S.apps /\ T.sym = sym /\ T.app[b] = rec
      /\ \A x \in Blocks \ {b} : T.app[x] = S.app[x]
  <2> DEFINE app == [S.app EXCEPT ![b] = rec]  R == [S EXCEPT !.sym = sym]
  <2>1. S.app \in [Blocks -> AppRecords] /\ S.apps \in Seq(Blocks)
        /\ S = [apps |-> S.apps, app |-> S.app, sym |-> S.sym]
    <3>1. S.app \in [Blocks -> AppRecords] /\ S.apps \in Seq(Blocks) BY <1>2, ListIs
    <3>2. S = [apps |-> S.apps, app |-> S.app, sym |-> S.sym] BY <1>2 DEF Systems
    <3> QED BY <3>1, <3>2
  <2>2. sym \in [Libs -> [at : Blocks \cup {NULL}, own : Blocks \cup {NULL}]]
    <3>1. S.sym \in [Libs -> [at : Blocks \cup {NULL}, own : Blocks \cup {NULL}]] BY <1>2 DEF Systems
    <3>2. new \in [at : Blocks \cup {NULL}, own : Blocks \cup {NULL}] BY <1>5
    <3> HIDE DEF new
    <3> QED BY <3>1, <3>2
  <2>3. (IF F \in Libs THEN AddSymbol(ld, F, b) ELSE ld) = R
    <3>1. CASE F \in Libs /\ ld.sym[F].at = NULL
      <4>1. AddSymbol(ld, F, b) = [ld EXCEPT !.sym[F] = new] BY <3>1 DEF AddSymbol
      <4> HIDE DEF new, b
      <4> QED BY <3>1, <4>1
    <3>2. CASE ~ (F \in Libs /\ ld.sym[F].at = NULL)
      <4>1. (IF F \in Libs THEN AddSymbol(ld, F, b) ELSE ld) = ld BY <3>2 DEF AddSymbol
      <4>2. sym = S.sym BY <3>2
      <4> HIDE DEF sym
      <4>3. R = S BY <2>1, <4>2
      <4> QED BY <4>1, <4>3
    <3> QED BY <3>1, <3>2
  <2> HIDE DEF sym
  <2>4. R = [apps |-> S.apps, app |-> S.app, sym |-> sym] BY <2>1
  <2>5. T = [R EXCEPT !.app[b].state = "running", !.app[b].users = 1] BY <1>1, <1>7, <2>3
  <2> HIDE DEF R
  <2>6. T = [R EXCEPT !.app = app]
    <3> DEFINE g == [S.app EXCEPT ![b] = [S.app[b] EXCEPT !.state = "running"]]
               U == [R EXCEPT !.app[b].state = "running"]
    <3>1. T = [U EXCEPT !.app[b].users = 1] BY <2>5
    <3>2. U = [R EXCEPT !.app = g] BY <2>4
    <3> HIDE DEF U
    <3>3. U = [apps |-> S.apps, app |-> g, sym |-> sym] BY <2>4, <3>2
    <3>4. g[b] = [S.app[b] EXCEPT !.state = "running"] BY <1>5, <2>1
    <3>5. app = [g EXCEPT ![b] = [@ EXCEPT !.users = 1]]
      <4>1. rec = [g[b] EXCEPT !.users = 1] BY <3>4
      <4>2. [S.app EXCEPT ![b] = rec] = [g EXCEPT ![b] = rec]
        <5> HIDE DEF rec, b
        <5> QED BY <2>1
      <4> QED BY <4>1, <4>2
    <3> HIDE DEF g
    <3>6. T = [U EXCEPT !.app = [g EXCEPT ![b] = [@ EXCEPT !.users = 1]]] BY <3>1, <3>3
    <3> HIDE DEF app
    <3>7. T = [apps |-> S.apps, app |-> app, sym |-> sym] BY <3>3, <3>5, <3>6
    <3> QED BY <2>4, <3>7
  <2>7. app \in [Blocks -> AppRecords] /\ app[b] = rec /\ \A x \in Blocks \ {b} : app[x] = S.app[x]
    <3> HIDE DEF b, rec
    <3> QED BY <1>5, <1>6, <2>1
  <2> HIDE DEF app
  <2>8. T = [apps |-> S.apps, app |-> app, sym |-> sym] BY <2>4, <2>6
  <2> QED BY <2>1, <2>2, <2>7, <2>8 DEF Systems
<1> HIDE DEF rec
<1>9. /\ \A x \in Blocks : T.app[x].file = S.app[x].file /\ T.app[x].host = S.app[x].host
      /\ \A x \in Blocks : S.app[x].state = "running" => T.app[x].state = "running"
      /\ \A x \in Blocks : x # b => T.app[x] = S.app[x]
      /\ \A x \in Blocks : T.app[x].state \in Listed <=> S.app[x].state \in Listed
      /\ Range(S.apps) \subseteq Blocks /\ \A f : InList(T, f) <=> InList(S, f)
  <2>0. \A x \in Blocks : x # b => T.app[x] = S.app[x] BY <1>8
  <2>1. T.app[b].state = "running" /\ T.app[b].file = S.app[b].file /\ T.app[b].host = S.app[b].host
    BY <1>6, <1>8
  <2>2. Range(S.apps) \subseteq Blocks BY <1>2, ListIs
  <2>3. S.app[b].state \in Listed BY <1>5
  <2> HIDE DEF b
  <2>4. \A x \in Blocks : T.app[x].file = S.app[x].file /\ T.app[x].host = S.app[x].host BY <2>0, <2>1
  <2>5. \A f : InList(T, f) <=> InList(S, f) BY <1>8, <2>2, <2>4 DEF InList
  <2> QED BY <2>0, <2>1, <2>2, <2>3, <2>4, <2>5 DEF Listed
<1>10. Shape(T)
  <2>1. Distinct(T.apps) BY <1>2, <1>8 DEF Shape
  <2>2. ASSUME NEW x \in Blocks
        PROVE /\ x \in Range(T.apps) <=> T.app[x].state \in Listed
              /\ IF T.app[x].state = "free" THEN T.app[x] = Blank ELSE T.app[x].file \in Files
              /\ T.app[x].file \in Libs => T.app[x].host = NULL
              /\ T.app[x].host # NULL => T.app[x].host # x /\ T.app[T.app[x].host].host = NULL
    <3>1. S.app[x].host \in Blocks \cup {NULL} BY <1>2, ListIs
    <3>2. T.app[x].host # NULL => T.app[x].host # x /\ T.app[T.app[x].host].host = NULL
      BY <1>2, <1>9, <3>1 DEF Shape
    <3>3. T.app[x].file \in Libs => T.app[x].host = NULL BY <1>2, <1>9 DEF Shape
    <3>4. x \in Range(T.apps) <=> T.app[x].state \in Listed BY <1>2, <1>8, <1>9 DEF Shape
    <3>5. IF T.app[x].state = "free" THEN T.app[x] = Blank ELSE T.app[x].file \in Files
      <4>1. CASE x = b BY <1>5, <1>6, <1>8, <4>1
      <4>2. CASE x # b
        <5> HIDE DEF b
        <5> QED BY <1>2, <1>9, <4>2 DEF Shape
      <4> QED BY <4>1, <4>2
    <3> QED BY <3>2, <3>3, <3>4, <3>5
  <2>3. ASSUME NEW c \in Range(T.apps), NEW d \in Range(T.apps),
               T.app[c].file \in Libs, T.app[c].file = T.app[d].file
        PROVE  c = d
    BY <1>2, <1>8, <1>9, <2>3 DEF Shape
  <2> QED BY <2>1, <2>2, <2>3 DEF Shape
<1>11. ASSUME F \in Libs, NEW c \in Blocks, S.app[c].file = F, S.app[c].state \in Listed PROVE c = b
  <2>1. c \in Range(S.apps) /\ b \in Range(S.apps) BY <1>2, <1>5, <1>11, ListIs
  <2> QED BY <1>2, <1>11, <2>1 DEF Shape
<1>12. Symbols(T)
  <2> HIDE DEF sym
  <2> SUFFICES ASSUME NEW l \in Libs
      PROVE  IF l \in Anonymous \/ sym[l].at = NULL THEN sym[l].own = NULL
             ELSE /\ sym[l].own = sym[l].at
                  /\ T.app[sym[l].at].state = "running" /\ T.app[sym[l].at].file = l
    BY <1>8, Zenon DEF Symbols
  <2> USE DEF sym
  <2>0. S.sym \in [Libs -> [at : Blocks \cup {NULL}, own : Blocks \cup {NULL}]]
        /\ S.sym[l].at \in Blocks \cup {NULL}
    BY <1>2 DEF Systems
  <2>1. CASE l = F /\ S.sym[l].at = NULL
    <3>1. sym[l] = new BY <2>0, <2>1
    <3>2. T.app[b].state = "running" /\ T.app[b].file = F BY <1>6, <1>8
    <3>3. new.at = b /\ new.own = (IF F \in Anonymous THEN NULL ELSE b) /\ b # NULL BY <1>5, Constants
    <3> HIDE DEF sym, new, b, F
    <3> QED BY <2>1, <3>1, <3>2, <3>3
  <2>2. CASE ~ (l = F /\ S.sym[l].at = NULL)
    <3>1. sym[l] = S.sym[l] BY <2>0, <2>2
    <3> HIDE DEF sym, b, F
    <3> QED BY <1>2, <1>9, <2>0, <3>1 DEF Symbols
  <2> QED BY <2>1, <2>2
<1> HIDE DEF sym
<1>13. PICK tt : tt = Below OBVIOUS
<1>14. /\ tt \in Seq(Frames) /\ Len(tt) = n - 1 /\ (tt = <<>> <=> n = 1)
       /\ \A k \in 1 .. (n - 1) : tt[k] = st[k] /\ k \in 1 .. n /\ k # n /\ k < n
  <2>1. /\ Below \in Seq(Frames) /\ Len(Below) = n - 1 /\ (Below = <<>> <=> n = 1)
        /\ \A k \in 1 .. (n - 1) : Below[k] = st[k]
    BY <1>1, <1>3, BelowIs
  <2>2. \A k \in 1 .. (n - 1) : k \in 1 .. n /\ k # n /\ k < n BY <1>3
  <2> QED BY <1>13, <2>1, <2>2
<1>15. ASSUME NEW k \in 1 .. n PROVE FileAt(T, tt, k) = FileAt(S, st, k) \/ k = n
  <2>1. CASE k # n
    <3>1. k \in 1 .. (n - 1) BY <1>3, <2>1
    <3> QED BY <1>3, <1>9, <1>14, <3>1 DEF FileAt
  <2> QED BY <2>1
<1>16. ASSUME NEW k \in 1 .. (n - 1) PROVE Frame(T, tt, k)
  <2>1. Frame(S, st, k) /\ tt[k] = st[k] /\ k < n /\ k \in 1 .. n /\ FileAt(T, tt, k) = FileAt(S, st, k)
    BY <1>4, <1>14, <1>15
  <2>2. CASE st[k].pc = "libs"
    <3>1. S.app[st[k].b].state = "loading" /\ st[k].b \in Blocks BY <1>3, <2>1, <2>2 DEF Frame
    <3>2. T.app[st[k].b] = S.app[st[k].b]
      <4>1. st[k].b # b BY <1>5, <3>1 DEF Listed
      <4> QED BY <1>9, <3>1, <4>1
    <3> QED BY <1>9, <2>1, <2>2, <3>2 DEF Frame
  <2>3. CASE st[k].pc = "main"
    <3> SUFFICES ASSUME ~ st[k].gone
        PROVE T.app[st[k].b].state \in Listed /\ FileAt(T, tt, k) \notin Libs
      BY <2>1, <2>3 DEF Frame
    <3>1. S.app[st[k].b].state \in Listed /\ FileAt(S, st, k) \notin Libs BY <2>1, <2>3 DEF Frame
    <3> QED BY <1>3, <1>9, <2>1, <3>1
  <2> QED BY <1>3, <2>1, <2>2, <2>3
<1>17. ASSUME NEW j \in 1 .. (n - 1), NEW k \in 1 .. (n - 1) PROVE Nested(T, tt, j, k)
  <2>1. /\ Nested(S, st, j, k) /\ tt[j] = st[j] /\ tt[k] = st[k] /\ k # n
        /\ FileAt(T, tt, j) = FileAt(S, st, j) /\ FileAt(T, tt, k) = FileAt(S, st, k)
    BY <1>4, <1>14, <1>15
  <2> QED BY <2>1 DEF Nested
<1>18. Starting(T, tt)
  <2>1. ASSUME NEW x \in Blocks, T.app[x].file \in Libs, T.app[x].state = "starting" PROVE FALSE
    <3>1. x # b BY <1>6, <1>8, <2>1
    <3>2. S.app[x].file \in Libs /\ S.app[x].state = "starting" BY <1>9, <2>1, <3>1
    <3>3. st[n].b = x BY <1>4, <3>2 DEF Starting
    <3> QED BY <1>5, <3>1, <3>3
  <2>2. ASSUME tt # <<>>, tt[n - 1].pc = "main", ~ tt[n - 1].gone, FileAt(T, tt, n - 1) \in Libs PROVE FALSE
    <3>1. n - 1 \in 1 .. (n - 1) BY <1>3, <1>14, <2>2
    <3>2. Frame(S, st, n - 1) /\ tt[n - 1] = st[n - 1] /\ n - 1 < n
          /\ FileAt(T, tt, n - 1) = FileAt(S, st, n - 1)
      BY <1>4, <1>14, <1>15, <3>1
    <3> QED BY <2>2, <3>2 DEF Frame
  <2> QED BY <1>14, <2>1, <2>2 DEF Starting
<1>19. ASSUME NEW x \in Blocks PROVE LoadingOne(T, tt, x)
  <2> SUFFICES ASSUME T.app[x].state = "loading"
      PROVE /\ \E k \in 1 .. (n - 1) : tt[k].b = x /\ tt[k].pc = "libs"
            /\ T.app[x].host # NULL =>
                  /\ T.app[T.app[x].host].state \in {"starting", "running"}
                  /\ T.app[T.app[x].host].file \notin Libs
    BY <1>14 DEF LoadingOne
  <2>1. x # b BY <1>6, <1>8
  <2>2. T.app[x] = S.app[x] BY <1>9, <2>1
  <2>3. PICK k \in 1 .. n : st[k].b = x /\ st[k].pc = "libs" BY <1>4, <2>2 DEF LoadingOne
  <2>4. k # n BY <1>5, <2>3
  <2>5. k \in 1 .. (n - 1) BY <1>3, <2>4
  <2>6. ASSUME S.app[x].host # NULL
        PROVE  /\ T.app[S.app[x].host].state \in {"starting", "running"}
               /\ T.app[S.app[x].host].file \notin Libs
    <3> DEFINE h == S.app[x].host
    <3>1. h \in Blocks /\ S.app[h].state \in {"starting", "running"} /\ S.app[h].file \notin Libs
      BY <1>2, <1>4, <2>2, <2>6, ListIs DEF LoadingOne
    <3> HIDE DEF h, b
    <3>2. T.app[h].state \in {"starting", "running"} BY <1>6, <1>8, <1>9, <3>1
    <3> QED BY <1>9, <3>1, <3>2 DEF h
  <2> QED BY <1>14, <2>2, <2>3, <2>5, <2>6
<1>20. Framed(T, tt) BY <1>14, <1>16, <1>17, <1>18, <1>19 DEF Framed
<1>21. PICK q : q = IF tt # <<>> /\ tt[n - 1].pc = "libs" THEN "ok" ELSE "none" OBVIOUS
<1>22. ret' = q /\ q \in {"ok", "none"} BY <1>1, <1>3, <1>13, <1>21 DEF Answer
(* The frame below has been waiting for this library. *)
<1>23. ASSUME q = "ok"
       PROVE  /\ n - 1 \in 1 .. (n - 1) /\ st[n - 1].pc = "libs" /\ tt # <<>>
              /\ F \in Libs /\ st[n - 1].i <= Len(Needs[FileAt(S, st, n - 1)])
              /\ Needs[FileAt(S, st, n - 1)][st[n - 1].i] = F
  <2>1. tt # <<>> /\ tt[n - 1].pc = "libs" BY <1>21, <1>23
  <2>2. n - 1 \in 1 .. (n - 1) /\ n - 1 < n /\ n = (n - 1) + 1 BY <1>3, <1>14, <2>1
  <2>3. st[n - 1].pc = "libs" /\ Nested(S, st, n - 1, n) BY <1>3, <1>4, <1>14, <2>1, <2>2
  <2> QED BY <1>5, <2>1, <2>2, <2>3 DEF Nested
<1>24. Answered(T, tt, q)
  <2> SUFFICES ASSUME q = "ok"
      PROVE /\ tt # <<>> /\ tt[n - 1].pc = "libs" /\ tt[n - 1].i <= Len(Needs[FileAt(T, tt, n - 1)])
            /\ InList(T, Needs[FileAt(T, tt, n - 1)][tt[n - 1].i])
    BY <1>14, <1>22 DEF Answered
  <2>1. tt[n - 1] = st[n - 1] /\ FileAt(T, tt, n - 1) = FileAt(S, st, n - 1) BY <1>14, <1>15, <1>23
  <2>2. InList(T, F)
    <3>1. b \in Range(S.apps) BY <1>2, <1>5, ListIs
    <3> QED BY <1>9, <3>1 DEF InList
  <2> QED BY <1>23, <2>1, <2>2
<1>25. PICK d : d = direct' OBVIOUS
<1>26. /\ d \in [Libs -> Nat]
       /\ \A m \in Libs : d[m] = IF m = F /\ tt = <<>> THEN direct[m] + 1 ELSE direct[m]
  <2> HIDE DEF F
  <2> QED BY <1>1, <1>2, <1>13, <1>25
<1> DEFINE Q == Loads(T, tt, q)  p == <<st[n - 1].b, st[n - 1].i, F>>
<1>27. Q \subseteq P \cup {p} /\ (tt = <<>> => Q \subseteq P)
  <2> SUFFICES ASSUME NEW x \in Q PROVE x \in P \/ (x = p /\ tt # <<>>) OBVIOUS
  <2>1. /\ x \in Blocks \X Nat \X Libs /\ x[1] \in Blocks /\ x = <<x[1], x[2], x[3]>>
        /\ T.app[x[1]].state # "free"
        /\ x[2] \in 1 .. Len(Needs[T.app[x[1]].file]) /\ x[3] = Needs[T.app[x[1]].file][x[2]]
        /\ \A k \in 1 .. Len(tt) : tt[k].b = x[1] /\ tt[k].pc = "libs" =>
              x[2] < tt[k].i \/ (x[2] = tt[k].i /\ k = Len(tt) /\ q = "ok")
    BY DEF Loads
  <2>2. S.app[x[1]].state # "free" /\ T.app[x[1]].file = S.app[x[1]].file
    <3>1. T.app[x[1]].file = S.app[x[1]].file BY <1>9, <2>1
    <3>2. x[1] = b => S.app[x[1]].state # "free" BY <1>5 DEF Listed
    <3> HIDE DEF b
    <3>3. x[1] # b => S.app[x[1]].state # "free" BY <1>9, <2>1
    <3> QED BY <3>1, <3>2, <3>3
  <2>3. \A k \in 1 .. n : st[k].pc = "libs" => k \in 1 .. (n - 1)
    <3> SUFFICES ASSUME NEW k \in 1 .. n, st[k].pc = "libs" PROVE k \in 1 .. (n - 1) OBVIOUS
    <3>1. k # n BY <1>5
    <3> QED BY <1>3, <3>1
  <2>4. \A k \in 1 .. n : st[k].b = x[1] /\ st[k].pc = "libs" =>
           x[2] < st[k].i \/ (x[2] = st[k].i /\ k = n - 1 /\ q = "ok")
    BY <1>14, <2>1, <2>3
  <2>5. CASE \A k \in 1 .. n : st[k].b = x[1] /\ st[k].pc = "libs" => x[2] < st[k].i
    BY <2>1, <2>2, <2>5 DEF Loads
  <2>6. CASE \E k \in 1 .. n : st[k].b = x[1] /\ st[k].pc = "libs" /\ ~ (x[2] < st[k].i)
    <3>1. PICK k \in 1 .. n : st[k].b = x[1] /\ st[k].pc = "libs" /\ ~ (x[2] < st[k].i) BY <2>6
    <3>2. x[2] = st[n - 1].i /\ x[1] = st[n - 1].b /\ q = "ok" BY <2>4, <3>1
    <3>3. tt # <<>> /\ x[3] = F
      <4>1. S.app[x[1]].file = FileAt(S, st, n - 1) BY <3>2 DEF FileAt
      <4> QED BY <1>23, <2>1, <2>2, <3>2, <4>1
    <3> QED BY <2>1, <3>2, <3>3
  <2> QED BY <2>5, <2>6
<1>28. IsFiniteSet(P) /\ p[3] = F BY <1>2, LoadsFinite
<1>29. ASSUME NEW l \in Libs \ late
       PROVE  /\ Of(Q, l) # {} \/ d[l] > 0 =>
                    \E c \in Blocks : T.app[c].file = l /\ T.app[c].state = "running"
              /\ \A c \in Blocks :
                    T.app[c].file = l /\ T.app[c].state = "running"
                       => T.app[c].users >= Cardinality(Of(Q, l)) + d[l]
  <2> HIDE DEF P, Q, p
  <2>0. /\ Cardinality(Of(Q, l)) \in Nat /\ Cardinality(Of(P, l)) \in Nat
        /\ Cardinality(Of(Q, l)) <= Cardinality(Of(P, l)) + 1
        /\ p[3] # l => Of(Q, l) \subseteq Of(P, l) /\ Cardinality(Of(Q, l)) <= Cardinality(Of(P, l))
        /\ direct[l] \in Nat /\ d[l] \in Nat /\ l \in Libs
    BY <1>2, <1>26, <1>27, <1>28, OfMore
  <2>1. CASE l = F
    <3>1. F \in Libs BY <2>0, <2>1
    <3>2. \A c \in Blocks : ~ (S.app[c].file = F /\ S.app[c].state = "running")
      <4> SUFFICES ASSUME NEW c \in Blocks, S.app[c].file = F, S.app[c].state = "running" PROVE FALSE
        OBVIOUS
      <4>1. c = b BY <1>11, <3>1 DEF Listed
      <4>2. S.app[b].state = "starting" BY <1>5, <3>1
      <4> HIDE DEF b
      <4> QED BY <4>1, <4>2
    <3>3. Of(P, l) = {} /\ direct[l] = 0
      <4>1. ~ (Of(P, l) # {} \/ direct[l] > 0) BY <1>2, <2>1, <3>2 DEF Covered
      <4> QED BY <2>0, <4>1
    <3>4. Cardinality(Of(P, l)) = 0 BY <3>3, FS_EmptySet
    <3>5. Cardinality(Of(Q, l)) + d[l] <= 1
      <4>1. CASE tt = <<>>
        <5>1. Of(Q, l) = {} BY <1>27, <3>3, <4>1 DEF Of
        <5>2. Cardinality(Of(Q, l)) = 0 /\ d[l] = 1 BY <1>26, <2>0, <2>1, <3>3, <4>1, <5>1, FS_EmptySet
        <5> QED BY <5>2
      <4>2. CASE tt # <<>>
        <5>1. d[l] = 0 BY <1>26, <2>0, <3>3, <4>2
        <5> QED BY <2>0, <3>4, <5>1
      <4> QED BY <4>1, <4>2
    <3>6. T.app[b].file = l /\ T.app[b].state = "running" /\ T.app[b].users = 1 BY <1>6, <1>8, <2>1
    <3>7. ASSUME NEW c \in Blocks, T.app[c].file = l, T.app[c].state = "running"
          PROVE  T.app[c].users >= Cardinality(Of(Q, l)) + d[l]
      <4>1. c = b
        <5>1. S.app[c].file = F /\ S.app[c].state \in Listed BY <1>9, <2>1, <3>7 DEF Listed
        <5> QED BY <1>11, <3>1, <5>1
      <4>2. T.app[c].users = 1 BY <3>6, <4>1
      <4> QED BY <2>0, <3>5, <4>2
    <3> QED BY <1>5, <3>6, <3>7
  <2>2. CASE l # F
    <3>1. Of(Q, l) \subseteq Of(P, l) /\ Cardinality(Of(Q, l)) <= Cardinality(Of(P, l)) /\ d[l] = direct[l]
      BY <1>26, <1>28, <2>0, <2>2
    <3>2. Of(Q, l) # {} \/ d[l] > 0 =>
             \E c \in Blocks : T.app[c].file = l /\ T.app[c].state = "running"
      <4> SUFFICES ASSUME Of(Q, l) # {} \/ d[l] > 0
          PROVE \E c \in Blocks : T.app[c].file = l /\ T.app[c].state = "running"
        OBVIOUS
      <4>1. Of(P, l) # {} \/ direct[l] > 0 BY <3>1
      <4>2. PICK c \in Blocks : S.app[c].file = l /\ S.app[c].state = "running" BY <1>2, <4>1 DEF Covered
      <4> QED BY <1>9, <4>2
    <3>3. ASSUME NEW c \in Blocks, T.app[c].file = l, T.app[c].state = "running"
          PROVE  T.app[c].users >= Cardinality(Of(Q, l)) + d[l]
      <4>1. c # b BY <1>6, <1>8, <2>2, <3>3
      <4>2. T.app[c] = S.app[c] BY <1>9, <4>1
      <4>3. S.app[c].users >= Cardinality(Of(P, l)) + direct[l] BY <1>2, <3>3, <4>2 DEF Covered
      <4>4. S.app[c].users \in Nat
        <5>1. S.app[c] \in AppRecords BY <1>2, ListIs
        <5> QED BY <5>1, Constants DEF AppRecords
      <4> QED BY <2>0, <3>1, <4>2, <4>3, <4>4
    <3> QED BY <3>2, <3>3
  <2> QED BY <2>1, <2>2
<1>30. LinkedTo(T, links, dangling)
  <2> SUFFICES ASSUME NEW x \in Blocks
      PROVE /\ T.app[x].state \in {"free", "loading"} => links[x] = {} /\ x \notin dangling
            /\ T.app[x].state \in Listed /\ Clean(T.app[x].file) =>
                  /\ x \notin dangling
                  /\ \A c \in links[x] : T.app[c].state = "running" /\ T.app[c].file \in Imports[T.app[x].file]
    BY DEF LinkedTo
  <2>1. T.app[x].state \in {"free", "loading"} => T.app[x] = S.app[x]
    <3> SUFFICES ASSUME T.app[x].state \in {"free", "loading"} PROVE T.app[x] = S.app[x] OBVIOUS
    <3>1. x # b BY <1>6, <1>8
    <3> QED BY <1>9, <3>1
  <2>2. T.app[x].state \in {"free", "loading"} => links[x] = {} /\ x \notin dangling
    BY <1>2, <2>1 DEF LinkedTo
  <2>3. \A c \in links[x] : c \in Blocks BY <1>2
  <2>4. T.app[x].file = S.app[x].file /\ (T.app[x].state \in Listed => S.app[x].state \in Listed) BY <1>9
  <2>5. \A c \in links[x] : T.app[c].file = S.app[c].file
           /\ (S.app[c].state = "running" => T.app[c].state = "running")
    BY <1>9, <2>3
  <2> HIDE DEF b
  <2> QED BY <1>2, <2>2, <2>4, <2>5 DEF LinkedTo
<1>31. ld' = T /\ stack' = tt /\ ret' = q /\ direct' = d /\ late' = late
       /\ links' = links /\ dangling' = dangling
  BY <1>1, <1>7, <1>13, <1>22, <1>25
<1>32. TypeOK'
  <2>1. up' \in BOOLEAN /\ GSExit' \in BOOLEAN /\ late \subseteq Libs /\ ops' \in 0 .. MaxOps
    BY <1>1 DEF IInv, TypeOK
  <2>2. Len(tt) <= MaxFrames BY <1>2, <1>3, <1>14, Constants
  <2> QED BY <1>2, <1>8, <1>14, <1>22, <1>26, <1>31, <2>1, <2>2 DEF TypeOK, Depth
<1>33. Covered(ld, Loads(ld, stack, ret))'
  <2>1. PICK r : r = Q OBVIOUS
  <2>2. Loads(ld, stack, ret)' = r BY <1>31, <2>1
  <2> HIDE DEF P, Q, p
  <2> QED BY <1>29, <1>31, <2>1, <2>2 DEF Covered
<1>34. LinkedTo(ld, links, dangling)' BY <1>30, <1>31 DEF LinkedTo, Clean
<1>35. Shape(ld)' /\ Symbols(ld)' /\ Framed(ld, stack)' /\ Answered(ld, stack, ret)'
  BY <1>10, <1>12, <1>20, <1>24, <1>31
<1>36. Evicting
  <2>1. T.app[b].state = "running" BY <1>6, <1>8
  <2> HIDE DEF b
  <2>2. \A x \in Blocks : S.app[x].state \in {"starting", "running"} => T.app[x].state \in {"starting", "running"}
    BY <1>9, <2>1
  <2> QED BY <1>31, <2>2, NoneCloses
<1> QED BY <1>32, <1>33, <1>34, <1>35, <1>36 DEF IInv

-----------------------------------------------------------------------------
LEMMA StepIs == IInv /\ [Next]_vars => IInv' /\ Evicting
<1> SUFFICES ASSUME IInv, [Next]_vars PROVE IInv' /\ Evicting OBVIOUS
<1>1. CASE User
  <2>1. CASE \E b \in Blocks, f \in Files, h \in Blocks \cup {NULL} : Run(b, f, h) BY <2>1, RunStep
  <2>2. CASE \E b \in Blocks : Close(b) BY <2>2, CloseStep
  <2>3. CASE \E b \in Blocks : BreakApp(b) BY <2>3, BreakStep
  <2>4. CASE \E b \in Blocks, l \in Libs : RegistryLoadLibrary(b, l) BY <2>4, RegistryLoadStep
  <2>5. CASE \E l \in Libs : RegistryCountLibrary(l) BY <2>5, RegistryCountStep
  <2>6. CASE Quit BY <2>6, FlagStep
  <2> QED BY <1>1, <2>1, <2>2, <2>3, <2>4, <2>5, <2>6 DEF User
<1>2. CASE Loader
  <2>1. CASE CountLibrary BY <2>1, CountLibraryStep
  <2>2. CASE \E b \in Blocks : LoadLibrary(b) BY <2>2, LoadStep
  <2>3. CASE LibraryMissing BY <2>3, LibraryMissingStep
  <2>4. CASE LibraryLoaded BY <2>4, LibraryLoadedStep
  <2>5. CASE LibraryFailed BY <2>5, LibraryFailedStep
  <2>6. CASE Link BY <2>6, LinkStep
  <2>7. CASE Unresolved BY <2>7, UnresolvedStep
  <2>8. CASE MainTrue BY <2>8, MainTrueStep
  <2>9. CASE MainFalse BY <2>9, MainFalseStep
  <2>10. CASE SystemUp BY <2>10, FlagStep
  <2> QED BY <1>2, <2>1, <2>2, <2>3, <2>4, <2>5, <2>6, <2>7, <2>8, <2>9, <2>10 DEF Loader
<1>3. CASE DynLdTCP BY <1>3, TaskStep
<1>4. CASE ShutDownDynLd BY <1>4, ShutDownStep
<1>5. CASE UNCHANGED vars
  <2>1. up' \in BOOLEAN /\ GSExit' \in BOOLEAN BY <1>5 DEF vars, IInv, TypeOK
  <2> QED BY <1>5, <2>1, SameStep DEF vars
<1> QED BY <1>1, <1>2, <1>3, <1>4, <1>5 DEF Next

LEMMA Invariant == Spec => []IInv
<1>1. IInv /\ [Next]_vars => IInv' BY StepIs
<1> QED BY InitIs, <1>1, PTL DEF Spec

(* The records of the loader keep their types; Users, in particular, stays *)
(* what its unsigned long can hold, and a Host leads to a block or to none.*)
THEOREM LoaderTypes == Spec => []TypeOK
<1>1. IInv => TypeOK BY DEF IInv
<1> QED BY Invariant, <1>1, PTL

(* Every block is once in Applications or is loaded by one call; a library *)
(* is there once; and the list is not empty as long as the kernel holds a  *)
(* library, so that DynLdTCP always has a Last to walk to.                 *)
THEOREM AccountedAll == Spec => []BlocksAccounted
<1>1. ASSUME IInv PROVE BlocksAccounted
  <2>1. /\ ld \in Systems /\ Shape(ld) /\ Framed(ld, stack) /\ Answered(ld, stack, ret)
        /\ ret # "down" => Covered(ld, Loads(ld, stack, ret))
    BY <1>1 DEF IInv, TypeOK
  <2>2. ASSUME NEW b \in Blocks
        PROVE  /\ b \in Range(ld.apps) <=> ld.app[b].state \in {"starting", "running", "tofree"}
               /\ ld.app[b].state = "loading" <=> \E k \in 1 .. Depth : stack[k].b = b /\ stack[k].pc = "libs"
    BY <2>1 DEF Shape, Listed, Framed, Frame, LoadingOne, Depth
  <2>3. ASSUME \E l \in Libs \ late : direct[l] > 0, ret # "down" PROVE ld.apps # <<>>
    <3>1. PICK c \in Blocks : ld.app[c].state = "running" BY <2>1, <2>3 DEF Covered
    <3>2. c \in Range(ld.apps) BY <2>1, <3>1 DEF Shape, Listed
    <3>3. Range(<< >>) = {} BY DEF Range
    <3> QED BY <3>2, <3>3
  <2> QED BY <2>1, <2>2, <2>3 DEF BlocksAccounted, Shape, Distinct
<1> QED BY Invariant, <1>1, PTL

(* Users of a library covers all that have loaded it and not released it,  *)
(* the kernel's own loads included, in any number of nested loads, failed  *)
(* loads and collections; so no release closes it under one that holds it. *)
THEOREM CountsCover == Spec => []UsersCoverHolders
<1>1. ASSUME IInv PROVE UsersCoverHolders
  <2> SUFFICES ASSUME NEW b \in Blocks, ld.app[b].file \in Libs \ late, ld.app[b].state = "running"
      PROVE  ld.app[b].users >= Cardinality(Holders(ld.app[b].file)) + direct[ld.app[b].file]
    BY DEF UsersCoverHolders
  <2> DEFINE l == ld.app[b].file  P == Loads(ld, stack, ret)
  <2>1. /\ ld \in Systems /\ Shape(ld) /\ Framed(ld, stack) /\ Answered(ld, stack, ret)
        /\ ret # "down" => Covered(ld, P)
        /\ stack \in Seq(Frames) /\ direct \in [Libs -> Nat]
    BY <1>1 DEF IInv, TypeOK
  <2>2. ret # "down" BY <2>1, BlankIs DEF Answered
  <2>3. ld.app[b].users >= Cardinality(Of(P, l)) + direct[l]
    <3> HIDE DEF P
    <3> QED BY <2>1, <2>2 DEF Covered
  <2>4. IsFiniteSet(Of(P, l))
    <3>1. IsFiniteSet(P) BY <2>1, LoadsFinite
    <3>2. Of(P, l) \subseteq P BY DEF Of
    <3> QED BY <3>1, <3>2, FS_Subset
  <2>5. ASSUME NEW x \in Holders(l) PROVE \E p \in Of(P, l) : p[1] = x
    <3> DEFINE ids == Needs[ld.app[x].file]
    <3>1. /\ x \in Blocks /\ ld.app[x].state # "free" /\ l \in Range(ids)
          /\ \A k \in 1 .. Depth : stack[k].b = x /\ stack[k].pc = "libs"
                => \E i \in 1 .. stack[k].i - 1 : ids[i] = l
      BY DEF Holders, Holds
    <3>2. ids \in Seq(Libs)
      <4>1. ld.app[x].file \in Files BY <2>1, <3>1 DEF Shape
      <4> QED BY <4>1, Constants
    <3>3. Len(ids) \in Nat /\ DOMAIN ids = 1 .. Len(ids) BY <3>2, LenProperties
    <3>4. \E i \in 1 .. Len(ids) :
             /\ ids[i] = l
             /\ \A k \in 1 .. Depth : stack[k].b = x /\ stack[k].pc = "libs" => i < stack[k].i
      <4>1. CASE \E k \in 1 .. Depth : stack[k].b = x /\ stack[k].pc = "libs"
        <5>1. PICK k \in 1 .. Depth : stack[k].b = x /\ stack[k].pc = "libs" BY <4>1
        <5>2. PICK i \in 1 .. stack[k].i - 1 : ids[i] = l BY <3>1, <5>1
        <5>3. stack[k].i \in 1 .. Len(ids) + 1 BY <2>1, <5>1 DEF Framed, Frame, FileAt, Depth
        <5>4. i \in 1 .. Len(ids) /\ i < stack[k].i BY <3>3, <5>2, <5>3
        <5>5. ASSUME NEW m \in 1 .. Depth, stack[m].b = x, stack[m].pc = "libs" PROVE m = k
          <6>1. Depth \in Nat BY <2>1, FramesAre DEF Depth
          <6>2. ~ (m < k) BY <2>1, <5>1, <5>5 DEF Framed, Nested, Depth
          <6>3. ~ (k < m) BY <2>1, <5>1, <5>5 DEF Framed, Nested, Depth
          <6> QED BY <6>1, <6>2, <6>3
        <5> QED BY <5>2, <5>4, <5>5
      <4>2. CASE ~ \E k \in 1 .. Depth : stack[k].b = x /\ stack[k].pc = "libs"
        <5>1. PICK i \in 1 .. Len(ids) : ids[i] = l BY <3>1, <3>3 DEF Range
        <5> QED BY <4>2, <5>1
      <4> QED BY <4>1, <4>2
    <3>5. PICK i \in 1 .. Len(ids) :
             /\ ids[i] = l
             /\ \A k \in 1 .. Depth : stack[k].b = x /\ stack[k].pc = "libs" => i < stack[k].i
      BY <3>4
    <3>6. i \in Nat /\ l \in Libs BY <3>3
    <3> DEFINE p == <<x, i, l>>
    <3>7. p \in P BY <3>1, <3>5, <3>6 DEF Loads, Depth
    <3> HIDE DEF P
    <3>8. p \in Of(P, l) /\ p[1] = x BY <3>7 DEF Of
    <3> QED BY <3>8
  <2> HIDE DEF P
  <2> DEFINE g == [x \in Holders(l) |-> CHOOSE p \in Of(P, l) : p[1] = x]
  <2>6. \A x \in Holders(l) : g[x] \in Of(P, l) /\ g[x][1] = x BY <2>5
  <2>7. g \in Injection(Holders(l), Of(P, l))
    <3>1. g \in [Holders(l) -> Of(P, l)] BY <2>6
    <3> HIDE DEF g
    <3> QED BY <2>6, <3>1 DEF Injection, IsInjective
  <2>8. Cardinality(Holders(l)) <= Cardinality(Of(P, l)) /\ IsFiniteSet(Holders(l))
    <3> HIDE DEF g
    <3> QED BY <2>4, <2>7, FS_Injection
  <2>9. Cardinality(Holders(l)) \in Nat /\ Cardinality(Of(P, l)) \in Nat BY <2>4, <2>8, FS_CardinalityType
  <2>10. direct[l] \in Nat /\ ld.app[b].users \in Nat
    <3>1. ld.app[b] \in AppRecords BY <2>1, ListIs
    <3> QED BY <2>1, <3>1, Constants DEF AppRecords
  <2> HIDE DEF l
  <2> QED BY <2>3, <2>8, <2>9, <2>10 DEF l
<1> QED BY Invariant, <1>1, PTL

(* Code that an application was linked to is freed under it in three ways  *)
(* only: its library was in late, exports anonymously, or was never asked  *)
(* for in Libs.                                                            *)
THEOREM LinkedCodeStays == Spec => []LinkedCodeIsThere
<1>1. ASSUME IInv PROVE LinkedCodeIsThere
  <2> SUFFICES ASSUME NEW b \in Blocks, ld.app[b].state \in {"starting", "running"}, b \in dangling,
                      ~ \E l \in Imports[ld.app[b].file] :
                           l \in late \cup Anonymous \/ l \notin Range(Needs[ld.app[b].file])
               PROVE  FALSE
    BY DEF LinkedCodeIsThere
  <2>1. ret # "down" BY <1>1, BlankIs DEF IInv, Answered
  <2>2. Clean(ld.app[b].file) BY DEF Clean
  <2> QED BY <1>1, <2>1, <2>2 DEF IInv, LinkedTo, Listed
<1> QED BY Invariant, <1>1, PTL

(* Whatever closes an application, itself, a break, a Main that fails or   *)
(* the end, frees all it hosts, except for the one that the walk over      *)
(* Applications stops short of.                                            *)
THEOREM HostedFreedAll == Spec => HostedFreedWithHost
<1>1. IInv /\ [Next]_vars =>
         [ \A b, x \in Blocks :
             ( /\ ld.app[b].state \in {"starting", "running"}
               /\ ld'.app[b].state \in {"tofree", "free"}
               /\ ld.app[x].host = b )
             => \/ ld'.app[x].state = "free"
                \/ /\ x = Last(ld'.apps)
                   /\ \E y \in Blocks \ {x} : ld.app[y].host = b /\ ld'.app[y].state = "free" ]_vars
  BY StepIs DEF Evicting
<1> QED BY Invariant, <1>1, PTL DEF Spec, HostedFreedWithHost
=============================================================================
