-------------------------- MODULE EventChainProofs --------------------------
(***************************************************************************)
(* The chains of handlers and tasks for any number of blocks, nested walks *)
(* and operations.  Chains' order and the numbers of the installations     *)
(* (HeapInv) do not depend on the walks; what the walks know (StackInv)    *)
(* rests on them.                                                          *)
(***************************************************************************)
EXTENDS EventChain, SequenceTheorems, TLAPS

(* No two blocks in use have the same number. *)
StampsDiffer == \A x, y \in live : stamp[x] = stamp[y] => x = y

HeapInv == ChainsInOrder /\ StampsDiffer

(* A walk has called all that are left of those installed up to the one it *)
(* is at, and nothing installed later.                                     *)
Served ==
    \A k \in 1 .. Depth :
       LET w == stack[k] IN
       /\ w.id <= count
       /\ \A s \in w.seen : s <= w.id
       /\ \A b \in Members(w.c) : stamp[b] <= w.id => stamp[b] \in w.seen

(* A walk that finds its event gone knows one of the two reasons. *)
Accounted ==
    /\ \A j, k \in 1 .. Depth :
          (j < k /\ stack[j].c = "handlers" /\ stack[k].c = "handlers") => stack[j].nested
    /\ \A k \in 1 .. Depth :
          (stack[k].c = "handlers" /\ ~ event) => stack[k].consumed \/ stack[k].nested

StackInv == OnlyOwnRemovalIsFatal /\ Served /\ Accounted

IInv == TypeOK /\ HeapInv /\ StackInv

-----------------------------------------------------------------------------
(* The stack as a function, and its top. *)
LEMMA StackType ==
    ASSUME TypeOK
    PROVE  /\ Depth \in Nat /\ stack \in [1 .. Depth -> Walks]
           /\ stack # <<>> => Depth \in 1 .. Depth /\ Top \in Walks
<1>1. stack \in Seq(Walks) BY DEF TypeOK
<1>2. Depth \in Nat /\ stack \in [1 .. Depth -> Walks]
  BY <1>1, LenProperties DEF Depth
<1>3. stack # <<>> => Depth # 0
  BY <1>1, EmptySeq DEF Depth
<1>4. stack # <<>> => Depth \in 1 .. Depth
  BY <1>2, <1>3
<1> QED BY <1>2, <1>4 DEF Top

(* A function on 1 .. n is a sequence of length n. *)
LEMMA SequenceOf ==
    ASSUME NEW S, NEW n \in Nat, NEW f \in [1 .. n -> S]
    PROVE  f \in Seq(S) /\ Len(f) = n
<1>1. f \in Seq(S) BY SeqDef
<1>2. DOMAIN f = 1 .. n /\ DOMAIN f = 1 .. Len(f) /\ Len(f) \in Nat
  BY <1>1, LenProperties
<1> QED BY <1>1, <1>2

(* The walks when a block has been freed. *)
LEMMA NotedWalks ==
    ASSUME TypeOK, NEW b \in Blocks
    PROVE  /\ Noted(b) \in Seq(Walks) /\ Len(Noted(b)) = Depth
           /\ \A k \in 1 .. Depth :
                 /\ Noted(b)[k].removed = (stack[k].removed \/ stack[k].p = b)
                 /\ \A f \in {"c", "p", "id", "seen", "consumed", "nested"} :
                       Noted(b)[k][f] = stack[k][f]
<1>1. Depth \in Nat /\ stack \in [1 .. Depth -> Walks] BY StackType
<1>2. \A k \in 1 .. Depth :
         [stack[k] EXCEPT !.removed = @ \/ stack[k].p = b] \in Walks
  BY <1>1 DEF Walks
<1>3. Noted(b) \in [1 .. Depth -> Walks]
  BY <1>2 DEF Noted
<1>4. Noted(b) \in Seq(Walks) /\ Len(Noted(b)) = Depth
  BY <1>1, <1>3, SequenceOf
<1>5. ASSUME NEW k \in 1 .. Depth
      PROVE  /\ Noted(b)[k].removed = (stack[k].removed \/ stack[k].p = b)
             /\ \A f \in {"c", "p", "id", "seen", "consumed", "nested"} :
                   Noted(b)[k][f] = stack[k][f]
  <2>1. Noted(b)[k] = [stack[k] EXCEPT !.removed = @ \/ stack[k].p = b]
    BY <1>5 DEF Noted
  <2>2. stack[k] \in Walks BY <1>1, <1>5
  <2> QED BY <2>1, <2>2 DEF Walks
<1> QED BY <1>4, <1>5

(* The walks when Event has been overwritten. *)
LEMMA OverwrittenWalks ==
    ASSUME TypeOK
    PROVE  /\ Overwritten \in Seq(Walks) /\ Len(Overwritten) = Depth
           /\ \A k \in 1 .. Depth :
                 /\ Overwritten[k].nested = (stack[k].nested \/ stack[k].c = "handlers")
                 /\ \A f \in {"c", "p", "id", "seen", "consumed", "removed"} :
                       Overwritten[k][f] = stack[k][f]
<1>1. Depth \in Nat /\ stack \in [1 .. Depth -> Walks] BY StackType
<1>2. \A k \in 1 .. Depth :
         [stack[k] EXCEPT !.nested = @ \/ stack[k].c = "handlers"] \in Walks
  BY <1>1 DEF Walks
<1>3. Overwritten \in [1 .. Depth -> Walks]
  BY <1>2 DEF Overwritten
<1>4. Overwritten \in Seq(Walks) /\ Len(Overwritten) = Depth
  BY <1>1, <1>3, SequenceOf
<1>5. ASSUME NEW k \in 1 .. Depth
      PROVE  /\ Overwritten[k].nested = (stack[k].nested \/ stack[k].c = "handlers")
             /\ \A f \in {"c", "p", "id", "seen", "consumed", "removed"} :
                   Overwritten[k][f] = stack[k][f]
  <2>1. Overwritten[k] = [stack[k] EXCEPT !.nested = @ \/ stack[k].c = "handlers"]
    BY <1>5 DEF Overwritten
  <2>2. stack[k] \in Walks BY <1>1, <1>5
  <2> QED BY <2>1, <2>2 DEF Walks
<1> QED BY <1>4, <1>5

(* A walk on top of others. *)
LEMMA PushedWalks ==
    ASSUME NEW s \in Seq(Walks), NEW w \in Walks
    PROVE  /\ Append(s, w) \in Seq(Walks) /\ Len(Append(s, w)) = Len(s) + 1
           /\ Append(s, w)[Len(s) + 1] = w
           /\ \A k \in 1 .. Len(s) : Append(s, w)[k] = s[k]
OBVIOUS

(* The walks without the top. *)
LEMMA PoppedWalks ==
    ASSUME TypeOK, stack # <<>>
    PROVE  /\ Below \in Seq(Walks) /\ Len(Below) = Depth - 1
           /\ \A k \in 1 .. Len(Below) : k \in 1 .. Depth /\ Below[k] = stack[k]
<1>1. Depth \in Nat /\ stack \in [1 .. Depth -> Walks] /\ Depth \in 1 .. Depth
  BY StackType
<1>2. \A k \in 1 .. Depth - 1 : stack[k] \in Walks BY <1>1
<1>3. /\ SubSeq(stack, 1, Depth - 1) \in Seq(Walks)
      /\ Len(SubSeq(stack, 1, Depth - 1)) = IF 1 <= Depth - 1 THEN Depth - 1 - 1 + 1 ELSE 0
      /\ \A i \in 1 .. Depth - 1 - 1 + 1 : SubSeq(stack, 1, Depth - 1)[i] = stack[1 + i - 1]
  BY <1>1, <1>2, SubSeqProperties
<1> QED BY <1>1, <1>3 DEF Below

(* The top of the walks exchanged. *)
LEMMA ChangedTop ==
    ASSUME TypeOK, stack # <<>>, NEW w \in Walks
    PROVE  /\ [stack EXCEPT ![Depth] = w] \in Seq(Walks)
           /\ Len([stack EXCEPT ![Depth] = w]) = Depth
           /\ [stack EXCEPT ![Depth] = w][Depth] = w
           /\ \A k \in 1 .. Depth : k # Depth => [stack EXCEPT ![Depth] = w][k] = stack[k]
<1>1. Depth \in Nat /\ stack \in [1 .. Depth -> Walks] /\ Depth \in 1 .. Depth
  BY StackType
<1>2. [stack EXCEPT ![Depth] = w] \in [1 .. Depth -> Walks]
  BY <1>1
<1>3. /\ [stack EXCEPT ![Depth] = w] \in Seq(Walks)
      /\ Len([stack EXCEPT ![Depth] = w]) = Depth
  BY <1>1, <1>2, SequenceOf
<1> QED BY <1>1, <1>3

Stepped == [Top EXCEPT !.p = next[Top.p], !.id = stamp[next[Top.p]],
                       !.seen = @ \cup {stamp[next[Top.p]]}]

(* What a walk is after its next step. *)
LEMMA SteppedWalk ==
    ASSUME TypeOK, stack # <<>>, next[Top.p] # NULL
    PROVE  /\ Stepped \in Walks
           /\ Stepped.p = next[Top.p] /\ Stepped.id = stamp[next[Top.p]]
           /\ Stepped.seen = Top.seen \cup {stamp[next[Top.p]]}
           /\ \A f \in {"c", "removed", "consumed", "nested"} : Stepped[f] = Top[f]
<1>1. Top \in Walks BY StackType
<1>2. next[Top.p] \in Blocks
  BY <1>1 DEF TypeOK, Walks
<1>3. stamp[next[Top.p]] \in Nat
  BY <1>2 DEF TypeOK
<1> QED BY <1>1, <1>2, <1>3 DEF Stepped, Walks

(* A new walk is at the first block of its chain. *)
LEMMA NewWalkType ==
    ASSUME TypeOK, NEW c \in Chains, first[c] # NULL
    PROVE  /\ NewWalk(c) \in Walks
           /\ NewWalk(c).c = c /\ NewWalk(c).p = first[c] /\ NewWalk(c).id = stamp[first[c]]
           /\ NewWalk(c).seen = {stamp[first[c]]}
           /\ ~ NewWalk(c).removed /\ ~ NewWalk(c).consumed /\ ~ NewWalk(c).nested
<1>1. first[c] \in Blocks BY DEF TypeOK
<1>2. stamp[first[c]] \in Nat BY <1>1 DEF TypeOK
<1> QED BY <1>1, <1>2 DEF NewWalk, Walks

-----------------------------------------------------------------------------
(* Every operation and every step keeps the types. *)
LEMMA TypeStep == TypeOK /\ [Next]_vars => TypeOK'
<1> USE ChainAssumption
<1> SUFFICES ASSUME TypeOK, [Next]_vars PROVE TypeOK' OBVIOUS
<1>0. Depth \in Nat /\ stack \in Seq(Walks) /\ Depth <= MaxDepth
  BY StackType DEF TypeOK
<1>1. ASSUME NEW b \in Blocks, Remove(b) PROVE TypeOK'
  <2>1. stack' \in Seq(Walks) /\ Depth' <= MaxDepth
    BY <1>0, <1>1, NotedWalks DEF Remove, Depth
  <2> QED BY <1>1, <2>1 DEF TypeOK, Remove
<1>2. ASSUME NEW b \in Blocks, NEW c \in Chains, Install(c, b) PROVE TypeOK'
  <2>1. count' \in Nat /\ stamp' \in [Blocks -> 0 .. count']
    BY <1>2 DEF TypeOK, Install
  <2> QED BY <1>2, <2>1 DEF TypeOK, Install, Depth
<1>3. CASE HandleEvent
  <2> "handlers" \in Chains BY DEF Chains
  <2>1. Overwritten \in Seq(Walks) /\ Len(Overwritten) = Depth BY OverwrittenWalks
  <2>2. stack' \in Seq(Walks) /\ Depth' <= MaxDepth
    <3>1. CASE first["handlers"] = NULL
      BY <1>0, <1>3, <2>1, <3>1 DEF HandleEvent, Depth
    <3>2. CASE first["handlers"] # NULL
      <4>1. NewWalk("handlers") \in Walks BY <3>2, NewWalkType
      <4>2. stack' = Append(Overwritten, NewWalk("handlers")) /\ Depth < MaxDepth
        BY <1>3, <3>2 DEF HandleEvent
      <4>3. stack' \in Seq(Walks) /\ Len(stack') = Depth + 1
        BY <2>1, <4>1, <4>2, PushedWalks
      <4> QED BY <1>0, <4>2, <4>3 DEF Depth
    <3> QED BY <3>1, <3>2
  <2> QED BY <1>3, <2>2 DEF TypeOK, HandleEvent, ends, heap
<1>4. CASE HandleNothing
  <2>1. stack' \in Seq(Walks) /\ Depth' <= MaxDepth
    BY <1>0, <1>4, OverwrittenWalks DEF HandleNothing, Depth
  <2> QED BY <1>4, <2>1 DEF TypeOK, HandleNothing, ends, heap
<1>5. CASE PollTasks
  <2> "tasks" \in Chains BY DEF Chains
  <2>1. NewWalk("tasks") \in Walks BY <1>5, NewWalkType DEF PollTasks
  <2>2. stack' \in Seq(Walks) /\ Len(stack') = Depth + 1
    BY <1>0, <1>5, <2>1, PushedWalks DEF PollTasks, Depth
  <2>3. Depth' <= MaxDepth
    BY <1>0, <1>5, <2>2 DEF PollTasks, Depth
  <2> QED BY <1>5, <2>2, <2>3 DEF TypeOK, PollTasks, ends, heap
<1>6. CASE Consume
  <2>1. [Top EXCEPT !.consumed = TRUE] \in Walks
    BY <1>6, StackType DEF Consume, Walks
  <2>2. stack' = [stack EXCEPT ![Depth] = [Top EXCEPT !.consumed = TRUE]]
    BY <1>6 DEF Consume, Top
  <2>3. stack' \in Seq(Walks) /\ Len(stack') = Depth
    BY <1>6, <2>1, <2>2, ChangedTop DEF Consume
  <2> QED BY <1>0, <1>6, <2>3 DEF TypeOK, Consume, ends, heap, Depth
<1>7. CASE Stopped
  <2>1. stack' \in Seq(Walks) /\ Len(stack') = Depth - 1
    BY <1>7, PoppedWalks DEF Stopped
  <2> QED BY <1>0, <1>7, <2>1 DEF TypeOK, Stopped, ends, heap, Depth
<1>8. CASE Astray
  BY <1>8 DEF TypeOK, Astray, ends, heap, Depth
<1>9. CASE Step
  <2>1. stack' \in Seq(Walks) /\ Len(stack') <= Depth
    <3>1. CASE next[Top.p] = NULL
      BY <1>0, <1>9, <3>1, PoppedWalks DEF Step
    <3>2. CASE next[Top.p] # NULL
      <4>1. stack' = [stack EXCEPT ![Depth] = Stepped]
        BY <1>9, <3>2 DEF Step, Stepped, Top
      <4>2. stack # <<>> BY <1>9 DEF Step
      <4>3. Stepped \in Walks BY <3>2, <4>2, SteppedWalk
      <4> QED BY <1>0, <4>1, <4>2, <4>3, ChangedTop
    <3> QED BY <3>1, <3>2
  <2>2. Depth' <= MaxDepth BY <1>0, <2>1, LenProperties DEF Depth
  <2> QED BY <1>9, <2>1, <2>2 DEF TypeOK, Step, ends, heap
<1>10. CASE UNCHANGED vars
  BY <1>10 DEF TypeOK, vars, Depth
<1> QED BY <1>1, <1>2, <1>3, <1>4, <1>5, <1>6, <1>7, <1>8, <1>9, <1>10 DEF Next
-----------------------------------------------------------------------------
(* Installing appends to one chain and leaves the other alone. *)
LEMMA InstallHeap ==
    ASSUME TypeOK, HeapInv, NEW b \in Blocks, NEW c \in Chains, Install(c, b)
    PROVE  HeapInv'
<1> USE ChainAssumption
<1>1. /\ b \notin live /\ live' = live \cup {b}
      /\ home' = [home EXCEPT ![b] = c]
      /\ stamp' = [stamp EXCEPT ![b] = count + 1]
  BY DEF Install
<1>2. /\ \A x \in live : stamp'[x] = stamp[x] /\ home'[x] = home[x]
      /\ stamp'[b] = count + 1 /\ home'[b] = c
      /\ \A x \in live : stamp[x] \in Nat /\ stamp[x] < count + 1
  BY <1>1 DEF TypeOK
<1>3. StampsDiffer'
  BY <1>1, <1>2 DEF StampsDiffer, HeapInv
<1>4. /\ Members(c)' = Members(c) \cup {b}
      /\ \A d \in Chains : d # c => Members(d)' = Members(d)
  BY <1>1, <1>2 DEF Members
<1>5. /\ prev'[b] = last[c] /\ next'[b] = NULL
      /\ \A x \in live : prev'[x] = prev[x]
      /\ \A x \in live : next'[x] = IF x = last[c] THEN b ELSE next[x]
  BY <1>1 DEF Install, TypeOK
<1>6. /\ last'[c] = b /\ first'[c] = IF first[c] = NULL THEN b ELSE first[c]
      /\ \A d \in Chains : d # c => last'[d] = last[d] /\ first'[d] = first[d]
  BY DEF Install, TypeOK
<1>7. \A d \in Chains : EndsKnown(d)
  BY DEF HeapInv, ChainsInOrder
<1>8. \A x \in live : FollowedInOrder(x) /\ PrecededInOrder(x)
  BY DEF HeapInv, ChainsInOrder
<1>9. \A d \in Chains : Members(d) \subseteq live
  BY DEF Members
<1>10. \A x \in live : home[x] \in Chains /\ x \in Members(home[x])
  BY DEF TypeOK, Members
<1>0. \A x \in live : x # NULL
  BY DEF TypeOK
<1>11. ASSUME NEW d \in Chains PROVE EndsKnown(d)'
  <2>1. CASE d # c
    BY <1>2, <1>4, <1>5, <1>6, <1>7, <1>9, <2>1 DEF EndsKnown, Members
  <2>2. CASE d = c
    <3>1. b \in Members(c)' /\ b # NULL /\ next'[b] = NULL /\ last'[c] = b
      BY <1>4, <1>5, <1>6
    <3>2. CASE first[c] = NULL
      <4>1. Members(c)' = {b} /\ prev'[b] = NULL /\ first'[c] = b
        BY <1>4, <1>5, <1>6, <1>7, <3>2 DEF EndsKnown
      <4>2. stamp'[b] <= stamp'[b] BY <1>2 DEF TypeOK
      <4> QED BY <2>2, <3>1, <4>1, <4>2 DEF EndsKnown
    <3>3. CASE first[c] # NULL
      <4>1. /\ first[c] \in Members(c) /\ first[c] \in live /\ prev[first[c]] = NULL
            /\ \A x \in Members(c) : stamp[first[c]] <= stamp[x]
        BY <1>7, <1>9, <3>3 DEF EndsKnown
      <4>2. first'[c] = first[c] /\ first'[c] \in Members(c)' /\ prev'[first[c]] = NULL
        BY <1>4, <1>5, <1>6, <3>3, <4>1
      <4>3. \A x \in Members(c)' : stamp'[first[c]] <= stamp'[x]
        <5>1. stamp'[first[c]] <= stamp'[b]
          BY <1>2, <4>1 DEF TypeOK
        <5> QED BY <1>2, <1>4, <1>9, <4>1, <5>1
      <4> QED BY <2>2, <3>1, <3>3, <4>2, <4>3 DEF EndsKnown
    <3> QED BY <3>2, <3>3
  <2> QED BY <2>1, <2>2
<1>12. ASSUME NEW x \in live PROVE FollowedInOrder(x)'
  <2>1. CASE home[x] # c
    <3>1. x # last[c]
      BY <1>7, <1>0, <2>1 DEF EndsKnown, Members
    <3> QED BY <1>2, <1>4, <1>5, <1>6, <1>8, <1>9, <1>10, <2>1, <3>1 DEF FollowedInOrder, Members
  <2>2. CASE home[x] = c /\ x = last[c]
    <3>1. next[x] = NULL
      BY <1>7, <2>2 DEF EndsKnown, Members
    <3>2. \A y \in Members(c) : ~ (stamp[x] < stamp[y])
      BY <1>8, <2>2, <3>1 DEF FollowedInOrder
    <3>3. next'[x] = b /\ home'[x] = c BY <1>2, <1>5, <2>2
    <3>4. \A y \in Members(c)' : stamp'[x] < stamp'[y] => y = b
      BY <1>2, <1>4, <1>9, <3>2
    <3>5. b \in Members(c)' /\ b # NULL /\ prev'[b] = x /\ stamp'[x] < stamp'[b]
      BY <1>2, <1>4, <1>5, <2>2
    <3>6. stamp'[b] <= stamp'[b] BY <1>2 DEF TypeOK
    <3> QED BY <3>3, <3>4, <3>5, <3>6 DEF FollowedInOrder
  <2>3. CASE home[x] = c /\ x # last[c]
    <3>1. next'[x] = next[x] /\ next[x] # NULL
      BY <1>5, <1>8, <2>3 DEF FollowedInOrder
    <3>2. next[x] \in Members(c) /\ prev[next[x]] = x /\ stamp[x] < stamp[next[x]]
      BY <1>8, <2>3, <3>1 DEF FollowedInOrder
    <3>3. next[x] \in live BY <1>9, <3>2
    <3>4. \A y \in Members(c) : stamp[x] < stamp[y] => stamp[next[x]] <= stamp[y]
      BY <1>8, <2>3 DEF FollowedInOrder
    <3>5. \A y \in Members(c)' : stamp'[x] < stamp'[y] => stamp'[next'[x]] <= stamp'[y]
      <4>1. ASSUME NEW y \in Members(c), stamp'[x] < stamp'[y]
            PROVE  stamp'[next'[x]] <= stamp'[y]
        BY <1>2, <1>9, <3>1, <3>3, <3>4, <4>1
      <4>2. stamp'[next'[x]] <= stamp'[b]
        BY <1>2, <3>1, <3>3 DEF TypeOK
      <4> QED BY <1>4, <4>1, <4>2
    <3>6. next'[x] \in Members(c)' /\ prev'[next'[x]] = x /\ stamp'[x] < stamp'[next'[x]]
      BY <1>2, <1>4, <1>5, <3>1, <3>2, <3>3
    <3> QED BY <1>2, <2>3, <3>1, <3>5, <3>6 DEF FollowedInOrder
  <2> QED BY <2>1, <2>2, <2>3
<1>13. ASSUME NEW x \in live PROVE PrecededInOrder(x)'
  <2>1. prev'[x] = prev[x] /\ home'[x] = home[x] BY <1>2, <1>5
  <2>2. CASE prev[x] = NULL
    <3>1. x = first[home[x]] BY <1>8, <2>2 DEF PrecededInOrder
    <3>2. x # NULL BY DEF TypeOK
    <3> QED BY <1>6, <1>10, <2>1, <2>2, <3>1, <3>2 DEF PrecededInOrder
  <2>3. CASE prev[x] # NULL
    <3>1. prev[x] \in Members(home[x]) /\ next[prev[x]] = x
      BY <1>8, <2>3 DEF PrecededInOrder
    <3>2. prev[x] \in live /\ home[prev[x]] = home[x]
      BY <3>1 DEF Members
    <3>3. prev[x] # last[c]
      BY <1>7, <1>0, <2>3, <3>1 DEF EndsKnown
    <3> QED BY <1>2, <1>4, <1>5, <1>10, <2>1, <2>3, <3>1, <3>2, <3>3 DEF PrecededInOrder
  <2> QED BY <2>2, <2>3
<1>14. FollowedInOrder(b)'
  <2>1. \A y \in Members(c)' : ~ (stamp'[b] < stamp'[y])
    BY <1>2, <1>4, <1>9 DEF TypeOK
  <2> QED BY <1>2, <1>5, <1>6, <2>1 DEF FollowedInOrder
<1>15. PrecededInOrder(b)'
  <2>1. CASE last[c] = NULL
    <3>1. first[c] = NULL BY <1>7, <2>1 DEF EndsKnown
    <3> QED BY <1>2, <1>5, <1>6, <2>1, <3>1 DEF PrecededInOrder
  <2>2. CASE last[c] # NULL
    <3>1. last[c] \in Members(c) BY <1>7, <2>2 DEF EndsKnown
    <3>2. last[c] \in live BY <1>9, <3>1
    <3> QED BY <1>2, <1>4, <1>5, <2>2, <3>1, <3>2 DEF PrecededInOrder
  <2> QED BY <2>1, <2>2
<1> QED
  BY <1>1, <1>3, <1>11, <1>12, <1>13, <1>14, <1>15 DEF HeapInv, ChainsInOrder

(* Removing joins the two neighbours and leaves the other chain alone. *)
LEMMA RemoveHeap ==
    ASSUME TypeOK, HeapInv, NEW b \in Blocks, Remove(b)
    PROVE  HeapInv'
<1> USE ChainAssumption
<1>0. PICK c \in Chains : c = home[b]
  BY DEF TypeOK
<1>1. b \in live /\ live' = live \ {b} /\ home' = home /\ stamp' = stamp
  BY DEF Remove
<1>2. /\ next' = [x \in Blocks |-> IF x = prev[b] THEN next[b] ELSE next[x]]
      /\ prev' = [x \in Blocks |-> IF x = next[b] THEN prev[b] ELSE prev[x]]
      /\ last' = IF next[b] = NULL THEN [last EXCEPT ![c] = prev[b]] ELSE last
      /\ first' = IF prev[b] = NULL THEN [first EXCEPT ![c] = next[b]] ELSE first
  BY <1>0 DEF Remove
<1>3. /\ c \in Chains /\ b # NULL
      /\ \A x \in live : x \in Blocks /\ x # NULL /\ home[x] \in Chains
      /\ \A x \in Blocks : stamp[x] \in Nat
  BY <1>0, <1>1 DEF TypeOK
<1>4. StampsDiffer' BY <1>1 DEF StampsDiffer, HeapInv
<1>5. StampsDiffer BY DEF HeapInv
<1>6. \A x \in live : FollowedInOrder(x) /\ PrecededInOrder(x)
  BY DEF HeapInv, ChainsInOrder
<1>7. \A d \in Chains : EndsKnown(d)
  BY DEF HeapInv, ChainsInOrder
<1>8. \A d \in Chains : Members(d)' = Members(d) \ {b}
  BY <1>1 DEF Members
<1>9. \A x \in live : x \in Members(home[x])
  BY DEF Members
<1>10. \A x \in live : b \in Members(home[x]) => home[x] = c
  BY <1>0 DEF Members
<1>11. \A d \in Chains : d # c => Members(d)' = Members(d) /\ b \notin Members(d)
  BY <1>0, <1>8 DEF Members
<1>12. /\ \A d \in Chains : d # c => first'[d] = first[d] /\ last'[d] = last[d]
       /\ next[b] = NULL => last'[c] = prev[b]
       /\ next[b] # NULL => last'[c] = last[c]
       /\ prev[b] = NULL => first'[c] = next[b]
       /\ prev[b] # NULL => first'[c] = first[c]
  BY <1>2, <1>3 DEF TypeOK
(* The neighbours of b. *)
<1>13. /\ next[b] = NULL => b = last[c]
       /\ next[b] # NULL => /\ next[b] \in Members(c) /\ next[b] \in live /\ prev[next[b]] = b
                            /\ next[b] # b /\ stamp[b] < stamp[next[b]]
       /\ \A x \in Members(c) : stamp[b] < stamp[x] => next[b] # NULL /\ stamp[next[b]] <= stamp[x]
  BY <1>0, <1>1, <1>3, <1>6 DEF FollowedInOrder, Members
<1>14. /\ prev[b] = NULL => b = first[c]
       /\ prev[b] # NULL => /\ prev[b] \in Members(c) /\ prev[b] \in live /\ next[prev[b]] = b
                            /\ prev[b] # b /\ stamp[prev[b]] < stamp[b]
  <2>1. /\ prev[b] = NULL => b = first[c]
        /\ prev[b] # NULL => prev[b] \in Members(c) /\ prev[b] \in live /\ next[prev[b]] = b
    BY <1>0, <1>1, <1>6 DEF PrecededInOrder, Members
  <2>2. prev[b] # NULL => stamp[prev[b]] < stamp[b]
    BY <1>3, <1>6, <2>1 DEF FollowedInOrder
  <2>3. prev[b] # NULL => prev[b] # b
    BY <1>3, <2>2
  <2> QED BY <2>1, <2>2, <2>3
<1>15. ASSUME NEW x \in live \ {b} PROVE FollowedInOrder(x)'
  <2>1. next'[x] = IF x = prev[b] THEN next[b] ELSE next[x]
    BY <1>2, <1>3
  <2>2. FollowedInOrder(x) BY <1>6
  <2>3. CASE x = prev[b]
    <3>1. next[x] = b /\ home[x] = c /\ stamp[x] < stamp[b]
      BY <1>3, <1>14, <2>3 DEF Members
    <3>2. CASE next[b] = NULL
      <4>1. next'[x] = NULL /\ last'[c] = x
        BY <1>12, <2>1, <2>3, <3>2
      <4>2. \A y \in Members(c) \ {b} : ~ (stamp[x] < stamp[y])
        <5> SUFFICES ASSUME NEW y \in Members(c) \ {b}, stamp[x] < stamp[y] PROVE FALSE
          OBVIOUS
        <5>1. stamp[b] <= stamp[y] BY <2>2, <3>1 DEF FollowedInOrder
        <5>2. stamp[b] # stamp[y] BY <1>1, <1>5 DEF StampsDiffer, Members
        <5>3. stamp[b] < stamp[y] BY <1>3, <5>1, <5>2 DEF Members
        <5> QED BY <1>13, <3>2, <5>3
      <4> QED BY <1>1, <1>3, <1>8, <3>1, <4>1, <4>2 DEF FollowedInOrder
    <3>3. CASE next[b] # NULL
      <4>1. /\ next'[x] = next[b] /\ next[b] \in Members(c) \ {b}
            /\ prev'[next[b]] = x
        BY <1>2, <1>3, <1>13, <2>1, <2>3, <3>3
      <4>2. stamp[x] < stamp[next[b]]
        BY <1>3, <1>13, <3>1, <3>3
      <4>3. ASSUME NEW y \in Members(c) \ {b}, stamp[x] < stamp[y]
            PROVE  stamp[next[b]] <= stamp[y]
        <5>1. stamp[b] <= stamp[y] BY <2>2, <3>1, <4>3 DEF FollowedInOrder
        <5>2. stamp[b] # stamp[y] BY <1>1, <1>5 DEF StampsDiffer, Members
        <5>3. stamp[b] < stamp[y] BY <1>3, <5>1, <5>2 DEF Members
        <5> QED BY <1>13, <5>3
      <4> QED BY <1>1, <1>3, <1>8, <3>1, <3>3, <4>1, <4>2, <4>3 DEF FollowedInOrder
    <3> QED BY <3>2, <3>3
  <2>4. CASE x # prev[b]
    <3>1. next'[x] = next[x] BY <2>1, <2>4
    <3>2. next[x] # b
      <4> SUFFICES ASSUME next[x] = b PROVE FALSE OBVIOUS
      <4> QED BY <1>3, <2>2, <2>4 DEF FollowedInOrder
    <3>3. CASE next[x] = NULL
      <4>1. x = last[home[x]] BY <2>2, <3>3 DEF FollowedInOrder
      <4>2. last'[home[x]] = x
        <5>1. CASE home[x] # c BY <1>3, <1>12, <4>1, <5>1
        <5>2. CASE home[x] = c
          <6>1. next[b] # NULL
            <7> SUFFICES ASSUME next[b] = NULL PROVE FALSE OBVIOUS
            <7> QED BY <1>13, <4>1, <5>2
          <6> QED BY <1>12, <4>1, <5>2, <6>1
        <5> QED BY <5>1, <5>2
      <4> QED BY <1>1, <1>3, <1>8, <2>2, <3>1, <3>3, <4>2 DEF FollowedInOrder
    <3>4. CASE next[x] # NULL
      <4>1. next[x] \in Members(home[x]) /\ prev[next[x]] = x /\ stamp[x] < stamp[next[x]]
        BY <2>2, <3>4 DEF FollowedInOrder
      <4>2. next[x] # next[b]
        <5> SUFFICES ASSUME next[x] = next[b] PROVE FALSE OBVIOUS
        <5> QED BY <1>13, <3>4, <4>1
      <4>3. prev'[next[x]] = x
        BY <1>2, <1>3, <4>1, <4>2 DEF Members
      <4> QED BY <1>1, <1>3, <1>8, <2>2, <3>1, <3>2, <3>4, <4>1, <4>3 DEF FollowedInOrder
    <3> QED BY <3>3, <3>4
  <2> QED BY <2>3, <2>4
<1>16. ASSUME NEW x \in live \ {b} PROVE PrecededInOrder(x)'
  <2>1. prev'[x] = IF x = next[b] THEN prev[b] ELSE prev[x]
    BY <1>2, <1>3
  <2>2. PrecededInOrder(x) BY <1>6
  <2>3. CASE x = next[b]
    <3>1. home[x] = c BY <1>3, <1>13, <2>3 DEF Members
    <3>2. CASE prev[b] = NULL
      BY <1>1, <1>12, <2>1, <2>3, <3>1, <3>2 DEF PrecededInOrder
    <3>3. CASE prev[b] # NULL
      <4>1. prev[b] \in Members(c) \ {b} /\ next'[prev[b]] = x
        BY <1>2, <1>3, <1>14, <2>3, <3>3
      <4> QED BY <1>1, <1>3, <1>8, <2>1, <2>3, <3>1, <3>3, <4>1 DEF PrecededInOrder
    <3> QED BY <3>2, <3>3
  <2>4. CASE x # next[b]
    <3>1. prev'[x] = prev[x] BY <2>1, <2>4
    <3>2. prev[x] # b
      <4> SUFFICES ASSUME prev[x] = b PROVE FALSE OBVIOUS
      <4> QED BY <1>3, <2>2, <2>4 DEF PrecededInOrder
    <3>3. CASE prev[x] = NULL
      <4>1. x = first[home[x]] BY <2>2, <3>3 DEF PrecededInOrder
      <4>2. first'[home[x]] = x
        <5>1. CASE home[x] # c BY <1>3, <1>12, <4>1, <5>1
        <5>2. CASE home[x] = c
          <6>1. prev[b] # NULL
            <7> SUFFICES ASSUME prev[b] = NULL PROVE FALSE OBVIOUS
            <7> QED BY <1>14, <4>1, <5>2
          <6> QED BY <1>12, <4>1, <5>2, <6>1
        <5> QED BY <5>1, <5>2
      <4> QED BY <1>1, <3>1, <3>3, <4>2 DEF PrecededInOrder
    <3>4. CASE prev[x] # NULL
      <4>1. prev[x] \in Members(home[x]) /\ next[prev[x]] = x
        BY <2>2, <3>4 DEF PrecededInOrder
      <4>2. prev[x] # prev[b]
        <5> SUFFICES ASSUME prev[x] = prev[b] PROVE FALSE OBVIOUS
        <5> QED BY <1>14, <3>4, <4>1
      <4>3. next'[prev[x]] = x
        BY <1>2, <1>3, <4>1, <4>2 DEF Members
      <4> QED BY <1>1, <1>3, <1>8, <3>1, <3>2, <3>4, <4>1, <4>3 DEF PrecededInOrder
    <3> QED BY <3>3, <3>4
  <2> QED BY <2>3, <2>4
<1>17. ASSUME NEW d \in Chains, d # c PROVE EndsKnown(d)'
  <2>1. first'[d] = first[d] /\ last'[d] = last[d] /\ Members(d)' = Members(d)
    BY <1>11, <1>12, <1>17
  <2>2. EndsKnown(d) BY <1>7
  <2>3. first[d] # NULL => prev'[first[d]] = NULL
    <3> SUFFICES ASSUME first[d] # NULL PROVE prev'[first[d]] = NULL OBVIOUS
    <3>1. first[d] \in Members(d) /\ prev[first[d]] = NULL BY <2>2 DEF EndsKnown
    <3>2. first[d] # next[b] BY <1>3, <1>13, <1>17, <3>1 DEF Members
    <3> QED BY <1>2, <1>3, <3>1, <3>2 DEF Members
  <2>4. last[d] # NULL => next'[last[d]] = NULL
    <3> SUFFICES ASSUME last[d] # NULL PROVE next'[last[d]] = NULL OBVIOUS
    <3>1. last[d] \in Members(d) /\ next[last[d]] = NULL BY <2>2 DEF EndsKnown
    <3>2. last[d] # prev[b] BY <1>3, <1>14, <1>17, <3>1 DEF Members
    <3> QED BY <1>2, <1>3, <3>1, <3>2 DEF Members
  <2> QED BY <1>1, <2>1, <2>2, <2>3, <2>4 DEF EndsKnown
<1>18. EndsKnown(c)'
  <2>0. EndsKnown(c) /\ Members(c)' = Members(c) \ {b} /\ b \in Members(c)
    BY <1>0, <1>1, <1>3, <1>7, <1>8 DEF Members
  <2>1. first[c] # NULL /\ last[c] # NULL BY <2>0 DEF EndsKnown
  <2>2. /\ first[c] \in Members(c) /\ prev[first[c]] = NULL
        /\ \A x \in Members(c) : stamp[first[c]] <= stamp[x]
        /\ last[c] \in Members(c) /\ next[last[c]] = NULL
    BY <2>0, <2>1 DEF EndsKnown
  <2>3. /\ first'[c] = NULL <=> Members(c)' = {}
        /\ first'[c] # NULL =>
              /\ first'[c] \in Members(c)' /\ prev'[first'[c]] = NULL
              /\ \A x \in Members(c)' : stamp[first'[c]] <= stamp[x]
    <3>1. CASE prev[b] # NULL
      <4>1. first'[c] = first[c] /\ first[c] # b
        BY <1>12, <2>2, <3>1
      <4>2. first[c] # next[b]
        BY <1>3, <1>13, <2>1, <2>2
      <4>3. prev'[first[c]] = NULL
        BY <1>2, <1>3, <2>2, <4>2 DEF Members
      <4> QED BY <2>0, <2>1, <2>2, <4>1, <4>3
    <3>2. CASE prev[b] = NULL /\ next[b] # NULL
      <4>1. first'[c] = next[b] /\ next[b] \in Members(c)' /\ prev'[next[b]] = NULL
        BY <1>2, <1>3, <1>12, <1>13, <2>0, <3>2
      <4>2. ASSUME NEW x \in Members(c)' PROVE stamp[next[b]] <= stamp[x]
        <5>1. x \in Members(c) /\ x # b BY <2>0
        <5>2. b = first[c] BY <1>14, <3>2
        <5>3. stamp[b] <= stamp[x] BY <2>2, <5>1, <5>2
        <5>4. stamp[b] # stamp[x] BY <1>1, <1>5, <5>1 DEF StampsDiffer, Members
        <5>5. stamp[b] < stamp[x] BY <1>3, <5>1, <5>3, <5>4 DEF Members
        <5> QED BY <1>13, <5>1, <5>5
      <4> QED BY <3>2, <4>1, <4>2
    <3>3. CASE prev[b] = NULL /\ next[b] = NULL
      <4>1. first'[c] = NULL BY <1>12, <3>3
      <4>2. b = first[c] BY <1>14, <3>3
      <4>3. Members(c)' = {}
        <5> SUFFICES ASSUME NEW x \in Members(c)' PROVE FALSE OBVIOUS
        <5>1. x \in Members(c) /\ x # b BY <2>0
        <5>2. stamp[b] <= stamp[x] BY <2>2, <4>2, <5>1
        <5>3. stamp[b] # stamp[x] BY <1>1, <1>5, <5>1 DEF StampsDiffer, Members
        <5>4. stamp[b] < stamp[x] BY <1>3, <5>1, <5>2, <5>3 DEF Members
        <5> QED BY <1>13, <3>3, <5>1, <5>4
      <4> QED BY <4>1, <4>3
    <3> QED BY <3>1, <3>2, <3>3
  <2>4. /\ last'[c] = NULL <=> Members(c)' = {}
        /\ last'[c] # NULL => last'[c] \in Members(c)' /\ next'[last'[c]] = NULL
    <3>1. CASE next[b] # NULL
      <4>1. last'[c] = last[c] /\ last[c] # b
        BY <1>12, <2>2, <3>1
      <4>2. last[c] # prev[b]
        BY <1>3, <1>14, <2>1, <2>2
      <4>3. next'[last[c]] = NULL
        BY <1>2, <1>3, <2>2, <4>2 DEF Members
      <4> QED BY <2>0, <2>1, <2>2, <4>1, <4>3
    <3>2. CASE next[b] = NULL /\ prev[b] # NULL
      <4>1. last'[c] = prev[b] /\ prev[b] \in Members(c)' /\ next'[prev[b]] = NULL
        BY <1>2, <1>3, <1>12, <1>14, <2>0, <3>2
      <4> QED BY <3>2, <4>1
    <3>3. CASE next[b] = NULL /\ prev[b] = NULL
      <4>1. last'[c] = NULL /\ first'[c] = NULL BY <1>12, <3>3
      <4> QED BY <2>3, <4>1
    <3> QED BY <3>1, <3>2, <3>3
  <2> QED BY <1>1, <2>3, <2>4 DEF EndsKnown
<1> QED
  BY <1>1, <1>4, <1>15, <1>16, <1>17, <1>18 DEF HeapInv, ChainsInOrder
-----------------------------------------------------------------------------
(* The operations and steps that leave the chains as they are. *)
LEMMA SameHeap ==
    ASSUME HeapInv, UNCHANGED <<ends, heap>>
    PROVE  HeapInv'
BY DEF HeapInv, ChainsInOrder, StampsDiffer, FollowedInOrder, PrecededInOrder,
       EndsKnown, Members, ends, heap

LEMMA HeapStep == TypeOK /\ HeapInv /\ [Next]_vars => HeapInv'
<1> SUFFICES ASSUME TypeOK, HeapInv, [Next]_vars PROVE HeapInv' OBVIOUS
<1>1. ASSUME NEW b \in Blocks, Remove(b) PROVE HeapInv' BY <1>1, RemoveHeap
<1>2. ASSUME NEW b \in Blocks, NEW c \in Chains, Install(c, b) PROVE HeapInv'
  BY <1>2, InstallHeap
<1>3. CASE \/ HandleEvent \/ HandleNothing \/ PollTasks \/ Consume
           \/ Stopped \/ Astray \/ Step \/ UNCHANGED vars
  <2>1. UNCHANGED <<ends, heap>>
    BY <1>3 DEF HandleEvent, HandleNothing, PollTasks, Consume, Stopped, Astray, Step,
                vars, ends, heap
  <2> QED BY <2>1, SameHeap
<1> QED BY <1>1, <1>2, <1>3 DEF Next

-----------------------------------------------------------------------------
(* What StackInv says of one walk w in the present state of the chains. *)
WalkOK(w) ==
    /\ ~ w.removed => w.p \in live /\ home[w.p] = w.c /\ stamp[w.p] = w.id
    /\ w.id <= count
    /\ \A s \in w.seen : s <= w.id
    /\ \A b \in Members(w.c) : stamp[b] <= w.id => stamp[b] \in w.seen

WalksOK == \A k \in 1 .. Depth : WalkOK(stack[k])

LEMMA StackInvParts ==
    StackInv <=> WalksOK /\ Accounted /\ (lost => stack # <<>> /\ Top.removed)
BY DEF StackInv, WalksOK, WalkOK, OnlyOwnRemovalIsFatal, Served

(* A walk that begins is at the first installation that is left. *)
LEMMA NewWalkOK ==
    ASSUME TypeOK, HeapInv, NEW c \in Chains, first[c] # NULL
    PROVE  WalkOK(NewWalk(c))
<1>1. /\ NewWalk(c).c = c /\ NewWalk(c).p = first[c] /\ NewWalk(c).id = stamp[first[c]]
      /\ NewWalk(c).seen = {stamp[first[c]]}
  BY NewWalkType
<1>2. EndsKnown(c) BY DEF HeapInv, ChainsInOrder
<1>3. /\ first[c] \in live /\ home[first[c]] = c
      /\ \A x \in Members(c) : stamp[first[c]] <= stamp[x]
  BY <1>2 DEF EndsKnown, Members
<1>4. /\ \A x \in live : stamp[x] \in Nat /\ stamp[x] <= count
      /\ count \in Nat
  BY DEF TypeOK
<1>5. \A x \in Members(c) : stamp[x] <= stamp[first[c]] => stamp[x] = stamp[first[c]]
  BY <1>3, <1>4 DEF Members
<1> QED BY <1>1, <1>3, <1>4, <1>5 DEF WalkOK

(* A walk that goes on to its block's Next has missed none in between. *)
LEMMA SteppedOK ==
    ASSUME TypeOK, HeapInv, stack # <<>>, WalkOK(Top), ~ Top.removed, next[Top.p] # NULL
    PROVE  /\ WalkOK(Stepped)
           /\ next[Top.p] \in Members(Top.c) /\ Top.id < stamp[next[Top.p]]
<1> DEFINE p == Top.p
           n == next[p]
<1>1. /\ Stepped.p = n /\ Stepped.id = stamp[n] /\ Stepped.seen = Top.seen \cup {stamp[n]}
      /\ Stepped.c = Top.c
  BY SteppedWalk
<1>2. p \in live /\ home[p] = Top.c /\ stamp[p] = Top.id BY DEF WalkOK
<1>3. FollowedInOrder(p) BY <1>2 DEF HeapInv, ChainsInOrder
<1>4. /\ n \in Members(Top.c) /\ stamp[p] < stamp[n]
      /\ \A x \in Members(Top.c) : stamp[p] < stamp[x] => stamp[n] <= stamp[x]
  BY <1>2, <1>3 DEF FollowedInOrder
<1>5. /\ \A x \in live : stamp[x] \in Nat /\ stamp[x] <= count
      /\ count \in Nat /\ n \in live
  BY <1>4 DEF TypeOK, Members
<1>6. Top \in Walks BY StackType
<1>7. \A s \in Top.seen : s \in Nat BY <1>6 DEF Walks
<1>8. ASSUME NEW x \in Members(Top.c), stamp[x] <= stamp[n]
      PROVE  stamp[x] \in Stepped.seen
  <2>1. stamp[x] \in Nat /\ stamp[p] \in Nat /\ stamp[n] \in Nat
    BY <1>2, <1>5 DEF Members
  <2>2. CASE stamp[x] <= stamp[p] BY <1>1, <1>2, <2>2 DEF WalkOK
  <2>3. CASE stamp[p] < stamp[x]
    <3>1. stamp[n] <= stamp[x] BY <1>4, <2>3
    <3>2. stamp[x] = stamp[n] BY <1>8, <2>1, <3>1
    <3> QED BY <1>1, <3>2
  <2> QED BY <2>1, <2>2, <2>3
<1>9. ASSUME NEW s \in Stepped.seen PROVE s <= stamp[n]
  <2>1. CASE s \in Top.seen
    <3>1. s <= Top.id BY <2>1 DEF WalkOK
    <3> QED BY <1>2, <1>4, <1>5, <1>7, <2>1, <3>1
  <2>2. CASE s = stamp[n] BY <1>5, <2>2
  <2> QED BY <1>1, <2>1, <2>2
<1>10. WalkOK(Stepped)
  BY <1>1, <1>4, <1>5, <1>8, <1>9 DEF WalkOK, Members
<1> QED BY <1>2, <1>4, <1>10

(* A walk is as it was when the chains are, or when a block it is not at   *)
(* is removed, or another is installed.                                    *)
LEMMA StillOK ==
    ASSUME TypeOK, NEW w \in Walks, NEW v, WalkOK(w),
           \A f \in {"c", "p", "id", "seen"} : v[f] = w[f],
           \/ UNCHANGED heap /\ v.removed = w.removed
           \/ \E b \in Blocks : /\ live' = live \ {b} /\ UNCHANGED <<home, stamp, count>>
                                /\ v.removed = (w.removed \/ w.p = b)
           \/ \E b \in Blocks : \E c \in Chains :
                 /\ b \notin live /\ live' = live \cup {b} /\ count' = count + 1
                 /\ home' = [home EXCEPT ![b] = c] /\ stamp' = [stamp EXCEPT ![b] = count + 1]
                 /\ v.removed = w.removed
    PROVE  WalkOK(v)'
<1> v.c = w.c /\ v.p = w.p /\ v.id = w.id /\ v.seen = w.seen /\ w.id \in Nat /\ count \in Nat
  BY DEF Walks, TypeOK
<1>1. CASE UNCHANGED heap /\ v.removed = w.removed
  BY <1>1 DEF WalkOK, Members, heap
<1>2. ASSUME NEW b \in Blocks, live' = live \ {b}, UNCHANGED <<home, stamp, count>>,
             v.removed = (w.removed \/ w.p = b)
      PROVE  WalkOK(v)'
  BY <1>2 DEF WalkOK, Members
<1>3. ASSUME NEW b \in Blocks, NEW c \in Chains, b \notin live, live' = live \cup {b},
             count' = count + 1, home' = [home EXCEPT ![b] = c],
             stamp' = [stamp EXCEPT ![b] = count + 1], v.removed = w.removed
      PROVE  WalkOK(v)'
  <2>1. /\ \A x \in live : stamp'[x] = stamp[x] /\ home'[x] = home[x]
        /\ stamp'[b] = count + 1
    BY <1>3 DEF TypeOK
  <2>2. ~ w.removed => w.p \in live' /\ home'[w.p] = w.c /\ stamp'[w.p] = w.id
    BY <1>3, <2>1 DEF WalkOK
  <2>3. w.id <= count /\ w.id <= count' /\ ~ (stamp'[b] <= w.id)
    BY <1>3, <2>1 DEF WalkOK
  <2>4. \A x \in live' : home'[x] = w.c /\ stamp'[x] <= w.id => stamp'[x] \in w.seen
    BY <1>3, <2>1, <2>3 DEF WalkOK, Members
  <2> QED BY <2>2, <2>3, <2>4 DEF WalkOK, Members
<1> QED BY <1>1, <1>2, <1>3

(* WalksOK' holds if every walk that is left agrees with one that was OK.  *)
LEMMA WalksKept ==
    ASSUME TypeOK, UNCHANGED heap,
           \A k \in 1 .. Depth' : \E w \in Walks :
              WalkOK(w) /\ \A f \in {"c", "p", "id", "seen", "removed"} : stack'[k][f] = w[f]
    PROVE  WalksOK'
<1>1. ASSUME NEW k \in 1 .. Depth' PROVE WalkOK(stack[k])'
  <2>1. PICK v : v = stack'[k] OBVIOUS
  <2>2. PICK w \in Walks :
           WalkOK(w) /\ \A f \in {"c", "p", "id", "seen", "removed"} : stack'[k][f] = w[f]
    BY <1>1
  <2>3. WalkOK(v)'
    BY <2>1, <2>2, StillOK
  <2> QED BY <2>1, <2>3 DEF WalkOK
<1> QED BY <1>1 DEF WalksOK

LEMMA WalksStep == TypeOK /\ HeapInv /\ WalksOK /\ [Next]_vars => WalksOK'
<1> SUFFICES ASSUME TypeOK, HeapInv, WalksOK, [Next]_vars PROVE WalksOK' OBVIOUS
<1>0. /\ Depth \in Nat /\ stack \in Seq(Walks) /\ stack \in [1 .. Depth -> Walks]
      /\ \A k \in 1 .. Depth : stack[k] \in Walks /\ WalkOK(stack[k])
      /\ stack # <<>> => Depth \in 1 .. Depth /\ Top \in Walks /\ WalkOK(Top)
  BY StackType DEF WalksOK, Top, TypeOK
<1>1. ASSUME NEW b \in Blocks, Remove(b) PROVE WalksOK'
  <2>1. /\ live' = live \ {b} /\ UNCHANGED <<home, stamp, count>>
        /\ stack' = Noted(b)
    BY <1>1 DEF Remove
  <2>2. Depth' = Depth BY <2>1, NotedWalks DEF Depth
  <2>3. ASSUME NEW k \in 1 .. Depth PROVE WalkOK(stack[k])'
    <3>1. PICK v : v = stack'[k] OBVIOUS
    <3>2. PICK w \in Walks : w = stack[k] /\ WalkOK(w) BY <1>0
    <3>3. /\ \A f \in {"c", "p", "id", "seen"} : v[f] = w[f]
          /\ v.removed = (w.removed \/ w.p = b)
      BY <2>1, <3>1, <3>2, NotedWalks
    <3>4. WalkOK(v)'
      BY <2>1, <3>2, <3>3, StillOK
    <3> QED BY <3>1, <3>4 DEF WalkOK
  <2> QED BY <2>2, <2>3 DEF WalksOK
<1>2. ASSUME NEW b \in Blocks, NEW c \in Chains, Install(c, b) PROVE WalksOK'
  <2>1. /\ b \notin live /\ live' = live \cup {b} /\ count' = count + 1
        /\ home' = [home EXCEPT ![b] = c] /\ stamp' = [stamp EXCEPT ![b] = count + 1]
        /\ stack' = stack
    BY <1>2 DEF Install
  <2>2. Depth' = Depth BY <2>1 DEF Depth
  <2>3. ASSUME NEW k \in 1 .. Depth PROVE WalkOK(stack[k])'
    <3>1. PICK w \in Walks : w = stack[k] /\ WalkOK(w) BY <1>0
    <3>2. WalkOK(w)'
      BY <2>1, <3>1, StillOK
    <3> QED BY <2>1, <3>1, <3>2 DEF WalkOK
  <2> QED BY <2>2, <2>3 DEF WalksOK
<1>3. CASE HandleEvent
  <2> "handlers" \in Chains BY DEF Chains
  <2>1. UNCHANGED heap BY <1>3 DEF HandleEvent
  <2>2. CASE first["handlers"] = NULL
    <3>1. stack' = Overwritten BY <1>3, <2>2 DEF HandleEvent
    <3>2. Depth' = Depth BY <3>1, OverwrittenWalks DEF Depth
    <3>3. \A k \in 1 .. Depth : \A f \in {"c", "p", "id", "seen", "removed"} :
             stack'[k][f] = stack[k][f]
      BY <3>1, OverwrittenWalks
    <3> QED BY <1>0, <2>1, <3>2, <3>3, WalksKept
  <2>3. CASE first["handlers"] # NULL
    <3> DEFINE w == NewWalk("handlers")
    <3>1. w \in Walks /\ WalkOK(w) BY <2>3, NewWalkType, NewWalkOK
    <3>2. stack' = Append(Overwritten, w) BY <1>3, <2>3 DEF HandleEvent
    <3>3. /\ Depth' = Depth + 1 /\ stack'[Depth + 1] = w
          /\ \A k \in 1 .. Depth : stack'[k] = Overwritten[k]
      BY <3>1, <3>2, OverwrittenWalks, PushedWalks DEF Depth
    <3>4. \A k \in 1 .. Depth : \A f \in {"c", "p", "id", "seen", "removed"} :
             stack'[k][f] = stack[k][f]
      BY <3>3, OverwrittenWalks
    <3> HIDE DEF w
    <3>5. ASSUME NEW k \in 1 .. Depth'
          PROVE  \E x \in Walks :
                    WalkOK(x) /\ \A f \in {"c", "p", "id", "seen", "removed"} : stack'[k][f] = x[f]
      <4>1. CASE k \in 1 .. Depth BY <1>0, <3>4, <4>1
      <4>2. CASE k = Depth + 1 BY <3>1, <3>3, <4>2
      <4> QED BY <1>0, <3>3, <3>5, <4>1, <4>2
    <3> QED BY <2>1, <3>5, WalksKept
  <2> QED BY <2>2, <2>3
<1>4. CASE HandleNothing
  <2>1. stack' = Overwritten /\ UNCHANGED heap BY <1>4 DEF HandleNothing
  <2>2. Depth' = Depth BY <2>1, OverwrittenWalks DEF Depth
  <2>3. \A k \in 1 .. Depth : \A f \in {"c", "p", "id", "seen", "removed"} :
           stack'[k][f] = stack[k][f]
    BY <2>1, OverwrittenWalks
  <2> QED BY <1>0, <2>1, <2>2, <2>3, WalksKept
<1>5. CASE PollTasks
  <2> "tasks" \in Chains BY DEF Chains
  <2> DEFINE w == NewWalk("tasks")
  <2>1. w \in Walks /\ WalkOK(w) BY <1>5, NewWalkType, NewWalkOK DEF PollTasks
  <2>2. stack' = Append(stack, w) /\ UNCHANGED heap BY <1>5 DEF PollTasks
  <2>3. /\ Depth' = Depth + 1 /\ stack'[Depth + 1] = w
        /\ \A k \in 1 .. Depth : stack'[k] = stack[k]
    BY <1>0, <2>1, <2>2, PushedWalks DEF Depth
  <2> HIDE DEF w
  <2>4. ASSUME NEW k \in 1 .. Depth'
        PROVE  \E x \in Walks :
                  WalkOK(x) /\ \A f \in {"c", "p", "id", "seen", "removed"} : stack'[k][f] = x[f]
    <3>1. CASE k \in 1 .. Depth BY <1>0, <2>3, <3>1
    <3>2. CASE k = Depth + 1 BY <2>1, <2>3, <3>2
    <3> QED BY <1>0, <2>3, <2>4, <3>1, <3>2
  <2> QED BY <2>2, <2>4, WalksKept
<1>6. CASE Consume
  <2> DEFINE w == [Top EXCEPT !.consumed = TRUE]
  <2>1. /\ w \in Walks
        /\ \A f \in {"c", "p", "id", "seen", "removed"} : w[f] = Top[f]
    BY <1>0, <1>6 DEF Consume, Walks
  <2>2. stack' = [stack EXCEPT ![Depth] = w] /\ UNCHANGED heap /\ stack # <<>>
    BY <1>6 DEF Consume, Top
  <2> HIDE DEF w
  <2>3. /\ Depth' = Depth /\ stack'[Depth] = w
        /\ \A k \in 1 .. Depth : k # Depth => stack'[k] = stack[k]
    BY <2>1, <2>2, ChangedTop DEF Depth
  <2>4. ASSUME NEW k \in 1 .. Depth'
        PROVE  \E x \in Walks :
                  WalkOK(x) /\ \A f \in {"c", "p", "id", "seen", "removed"} : stack'[k][f] = x[f]
    <3>1. CASE k # Depth BY <1>0, <2>3, <2>4, <3>1
    <3>2. CASE k = Depth BY <1>0, <2>1, <2>2, <2>3, <3>2
    <3> QED BY <3>1, <3>2
  <2> QED BY <2>2, <2>4, WalksKept
<1>7. CASE stack # <<>> /\ stack' = Below /\ UNCHANGED heap
  <2>1. \A k \in 1 .. Depth' : k \in 1 .. Depth /\ stack'[k] = stack[k]
    BY <1>7, PoppedWalks DEF Depth
  <2> QED BY <1>0, <1>7, <2>1, WalksKept
<1>8. CASE Step /\ next[Top.p] # NULL
  <2>1. stack' = [stack EXCEPT ![Depth] = Stepped] /\ UNCHANGED heap /\ stack # <<>> /\ ~ Top.removed
    BY <1>8 DEF Step, Stepped, Top
  <2>2. Stepped \in Walks /\ WalkOK(Stepped)
    BY <1>0, <1>8, <2>1, SteppedWalk, SteppedOK
  <2>3. /\ Depth' = Depth /\ stack'[Depth] = Stepped
        /\ \A k \in 1 .. Depth : k # Depth => stack'[k] = stack[k]
    BY <2>1, <2>2, ChangedTop DEF Depth
  <2>4. ASSUME NEW k \in 1 .. Depth'
        PROVE  \E x \in Walks :
                  WalkOK(x) /\ \A f \in {"c", "p", "id", "seen", "removed"} : stack'[k][f] = x[f]
    <3>1. CASE k # Depth BY <1>0, <2>3, <2>4, <3>1
    <3>2. CASE k = Depth BY <2>2, <2>3, <3>2
    <3> QED BY <3>1, <3>2
  <2> QED BY <2>1, <2>4, WalksKept
<1>9. CASE UNCHANGED <<heap, stack>>
  <2>1. Depth' = Depth /\ stack' = stack BY <1>9 DEF Depth
  <2> QED BY <1>0, <1>9, <2>1, WalksKept
<1>10. Stopped => stack # <<>> /\ stack' = Below /\ UNCHANGED heap
  BY DEF Stopped
<1>11. Step /\ next[Top.p] = NULL => stack # <<>> /\ stack' = Below /\ UNCHANGED heap
  BY DEF Step
<1>12. Astray \/ UNCHANGED vars => UNCHANGED <<heap, stack>>
  BY DEF Astray, vars, heap
<1> QED
  BY <1>1, <1>2, <1>3, <1>4, <1>5, <1>6, <1>7, <1>8, <1>9, <1>10, <1>11, <1>12 DEF Next

LEMMA AccountedStep == TypeOK /\ Accounted /\ [Next]_vars => Accounted'
<1> SUFFICES ASSUME TypeOK, Accounted, [Next]_vars PROVE Accounted' OBVIOUS
<1>0. /\ Depth \in Nat /\ stack \in Seq(Walks) /\ stack \in [1 .. Depth -> Walks]
      /\ stack # <<>> => Depth \in 1 .. Depth /\ Top \in Walks
  BY StackType DEF TypeOK
(* The walks that are left are about what they were about. *)
<1>1. CASE /\ event' = event
           /\ \A k \in 1 .. Depth' :
                 \/ stack'[k].c # "handlers"
                 \/ /\ k \in 1 .. Depth
                    /\ \A f \in {"c", "consumed", "nested"} : stack'[k][f] = stack[k][f]
  BY <1>1 DEF Accounted
<1>2. ASSUME NEW b \in Blocks, Remove(b) PROVE Accounted'
  <2>1. stack' = Noted(b) /\ event' = event BY <1>2 DEF Remove
  <2>2. /\ Depth' = Depth
        /\ \A k \in 1 .. Depth :
              \A f \in {"c", "consumed", "nested"} : stack'[k][f] = stack[k][f]
    BY <2>1, NotedWalks DEF Depth
  <2> QED BY <1>1, <2>1, <2>2
<1>3. CASE UNCHANGED <<event, stack>>
  <2>1. Depth' = Depth /\ stack' = stack /\ event' = event BY <1>3 DEF Depth
  <2> QED BY <1>1, <2>1
<1>4. CASE HandleEvent
  <2> "handlers" \in Chains BY DEF Chains
  <2>0. event' = TRUE BY <1>4 DEF HandleEvent
  <2>1. /\ Len(Overwritten) = Depth /\ Overwritten \in Seq(Walks)
        /\ \A k \in 1 .. Depth : Overwritten[k].c = "handlers" => Overwritten[k].nested
    BY OverwrittenWalks
  <2>2. CASE first["handlers"] = NULL
    <3>1. stack' = Overwritten /\ Depth' = Depth BY <1>4, <2>1, <2>2 DEF HandleEvent, Depth
    <3> QED BY <2>0, <2>1, <3>1 DEF Accounted
  <2>3. CASE first["handlers"] # NULL
    <3>1. NewWalk("handlers") \in Walks BY <2>3, NewWalkType
    <3>2. stack' = Append(Overwritten, NewWalk("handlers")) BY <1>4, <2>3 DEF HandleEvent
    <3>3. Depth' = Depth + 1 /\ \A k \in 1 .. Depth : stack'[k] = Overwritten[k]
      BY <2>1, <3>1, <3>2, PushedWalks DEF Depth
    <3> QED BY <1>0, <2>0, <2>1, <3>3 DEF Accounted
  <2> QED BY <2>2, <2>3
<1>5. CASE HandleNothing
  <2>1. stack' = Overwritten BY <1>5 DEF HandleNothing
  <2>2. /\ Depth' = Depth
        /\ \A k \in 1 .. Depth : Overwritten[k].c = "handlers" => Overwritten[k].nested
    BY <2>1, OverwrittenWalks DEF Depth
  <2> QED BY <2>1, <2>2 DEF Accounted
<1>6. CASE PollTasks
  <2> "tasks" \in Chains BY DEF Chains
  <2>1. NewWalk("tasks") \in Walks /\ NewWalk("tasks").c = "tasks"
    BY <1>6, NewWalkType DEF PollTasks
  <2>2. stack' = Append(stack, NewWalk("tasks")) /\ event' = event
    BY <1>6 DEF PollTasks, heap
  <2>3. /\ Depth' = Depth + 1 /\ stack'[Depth + 1].c # "handlers"
        /\ \A k \in 1 .. Depth : stack'[k] = stack[k]
    BY <1>0, <2>1, <2>2, PushedWalks DEF Depth
  <2> QED BY <1>0, <1>1, <2>2, <2>3
<1>7. CASE Consume
  <2> DEFINE w == [Top EXCEPT !.consumed = TRUE]
  <2>1. w \in Walks /\ w.consumed /\ w.c = Top.c /\ w.nested = Top.nested /\ Top.c = "handlers"
    BY <1>0, <1>7 DEF Consume, Walks
  <2>2. stack' = [stack EXCEPT ![Depth] = w] /\ stack # <<>>
    BY <1>7 DEF Consume, Top
  <2> HIDE DEF w
  <2>3. /\ Depth' = Depth /\ stack'[Depth] = w
        /\ \A k \in 1 .. Depth : k # Depth => stack'[k] = stack[k]
    BY <2>1, <2>2, ChangedTop DEF Depth
  <2>4. \A j \in 1 .. Depth : j # Depth /\ stack'[j].c = "handlers" => stack'[j].nested
    BY <1>0, <2>1, <2>2, <2>3 DEF Accounted, Top
  <2> QED BY <1>0, <2>1, <2>3, <2>4 DEF Accounted
<1>8. CASE stack # <<>> /\ stack' = Below /\ event' = event
  <2>1. \A k \in 1 .. Depth' : k \in 1 .. Depth /\ stack'[k] = stack[k]
    BY <1>8, PoppedWalks DEF Depth
  <2> QED BY <1>1, <1>8, <2>1
<1>9. CASE Step /\ next[Top.p] # NULL
  <2>1. stack' = [stack EXCEPT ![Depth] = Stepped] /\ stack # <<>> /\ event' = event
    BY <1>9 DEF Step, Stepped, Top
  <2>2. Stepped \in Walks /\ \A f \in {"c", "consumed", "nested"} : Stepped[f] = Top[f]
    BY <1>9, <2>1, SteppedWalk
  <2>3. /\ Depth' = Depth /\ stack'[Depth] = Stepped
        /\ \A k \in 1 .. Depth : k # Depth => stack'[k] = stack[k]
    BY <2>1, <2>2, ChangedTop DEF Depth
  <2>4. \A k \in 1 .. Depth : \A f \in {"c", "consumed", "nested"} : stack'[k][f] = stack[k][f]
    BY <2>2, <2>3 DEF Top
  <2> QED BY <1>1, <2>1, <2>3, <2>4
<1>10. ASSUME NEW b \in Blocks, NEW c \in Chains, Install(c, b) PROVE UNCHANGED <<event, stack>>
  BY <1>10 DEF Install
<1>11. Stopped => stack # <<>> /\ stack' = Below /\ event' = event
  BY DEF Stopped
<1>12. Step /\ next[Top.p] = NULL => stack # <<>> /\ stack' = Below /\ event' = event
  BY DEF Step
<1>13. Astray \/ UNCHANGED vars => UNCHANGED <<event, stack>>
  BY DEF Astray, vars
<1> QED
  BY <1>2, <1>3, <1>4, <1>5, <1>6, <1>7, <1>8, <1>9, <1>10, <1>11, <1>12, <1>13 DEF Next

LostKnown == lost => stack # <<>> /\ Top.removed

LEMMA LostStep == LostKnown /\ [Next]_vars => LostKnown'
<1> SUFFICES ASSUME LostKnown, [Next]_vars PROVE LostKnown' OBVIOUS
<1>1. Astray \/ UNCHANGED vars => LostKnown'
  BY DEF Astray, vars, LostKnown, Top, Depth
<1>2. ~ Astray /\ Next => ~ lost'
  BY DEF Next, Remove, Install, HandleEvent, HandleNothing, PollTasks, Consume, Stopped, Step
<1> QED BY <1>1, <1>2 DEF LostKnown

LEMMA InitIInv == Init => IInv
<1> USE ChainAssumption
<1> SUFFICES ASSUME Init PROVE IInv OBVIOUS
<1>1. Depth = 0 /\ stack \in Seq(Walks) BY EmptySeq DEF Init, Depth
<1>2. TypeOK
  <2>1. first \in [Chains -> Blocks \cup {NULL}] /\ last \in [Chains -> Blocks \cup {NULL}]
    BY DEF Init
  <2>2. next \in [Blocks -> Blocks \cup {NULL}] /\ prev \in [Blocks -> Blocks \cup {NULL}]
    BY DEF Init
  <2>3. "handlers" \in Chains BY DEF Chains
  <2>4. live \subseteq Blocks /\ home \in [Blocks -> Chains]
    BY <2>3 DEF Init
  <2>5. ops \in Nat /\ count \in Nat /\ stamp \in [Blocks -> 0 .. count]
    BY DEF Init
  <2>6. event \in BOOLEAN /\ lost \in BOOLEAN BY Zenon DEF Init
  <2> QED BY <1>1, <2>1, <2>2, <2>4, <2>5, <2>6 DEF TypeOK
<1>3. \A c \in Chains : Members(c) = {} BY DEF Init, Members
<1>4. HeapInv
  BY <1>3 DEF Init, HeapInv, ChainsInOrder, StampsDiffer, EndsKnown
<1>5. StackInv
  BY <1>1 DEF Init, StackInv, OnlyOwnRemovalIsFatal, Served, Accounted
<1> QED BY <1>2, <1>4, <1>5 DEF IInv

LEMMA NextIInv == IInv /\ [Next]_vars => IInv'
<1> SUFFICES ASSUME IInv, [Next]_vars PROVE IInv' OBVIOUS
<1>1. TypeOK /\ HeapInv /\ WalksOK /\ Accounted /\ LostKnown
  BY StackInvParts DEF IInv, LostKnown
<1>2. TypeOK' /\ HeapInv' BY <1>1, TypeStep, HeapStep
<1>3. WalksOK' /\ Accounted' /\ LostKnown'
  BY <1>1, WalksStep, AccountedStep, LostStep
<1>4. StackInv'
  BY <1>3 DEF StackInv, WalksOK, WalkOK, OnlyOwnRemovalIsFatal, Served, LostKnown
<1> QED BY <1>2, <1>4 DEF IInv

LEMMA Inductive == Spec => []IInv
BY InitIInv, NextIInv, PTL DEF Spec

(* The pointers of both chains are blocks or NULL, and no walk is deeper   *)
(* than the bound, for any number of blocks and operations.                *)
THEOREM ChainTypes == Spec => []TypeOK
BY Inductive, PTL DEF IInv

(* Handlers and tasks are chained in the order of their installation       *)
(* (events.c:56-102, tasks.c:27-59), for any number of them.               *)
THEOREM ChainsKept == Spec => []ChainsInOrder
<1>1. IInv => ChainsInOrder BY DEF IInv, HeapInv
<1> QED BY <1>1, Inductive, PTL

(* HandleEvent and PollTasks read freed memory only when the function they *)
(* called was removed before it returned, however deep the walks nest.     *)
THEOREM FatalOnlyToItself == Spec => []OnlyOwnRemovalIsFatal
<1>1. IInv => OnlyOwnRemovalIsFatal BY DEF IInv, StackInv
<1> QED BY <1>1, Inductive, PTL

(* A walk that returns has called all that are in its chain, unless its    *)
(* event was consumed or overwritten, and it calls in the order of         *)
(* installation and nothing twice (events.c:165-198, tasks.c:61-71).       *)
THEOREM AllAreCalled == Spec => CallsAll
<1> DEFINE Ends == Len(stack') < Depth =>
                      \/ Top.consumed \/ Top.nested
                      \/ {stamp[b] : b \in Members(Top.c)} \subseteq Top.seen
           Goes == (Len(stack') = Depth /\ Depth > 0 /\ Top.seen # stack'[Depth].seen) =>
                      \A s \in stack'[Depth].seen \ Top.seen :
                         /\ \E b \in Members(Top.c) : stamp[b] = s
                         /\ \A t \in Top.seen : t < s
<1>1. ASSUME IInv, [Next]_vars PROVE Ends /\ Goes
  <2>0. /\ TypeOK /\ HeapInv /\ WalksOK /\ Accounted
        /\ Depth \in Nat /\ stack \in Seq(Walks) /\ stack \in [1 .. Depth -> Walks]
        /\ stack # <<>> => Depth \in 1 .. Depth /\ Top \in Walks /\ WalkOK(Top)
        /\ Depth > 0 => Depth \in 1 .. Depth /\ Top = stack[Depth]
    BY <1>1, StackInvParts, StackType DEF IInv, WalksOK, Top
  <2>1. CASE stack' = stack
    BY <2>0, <2>1 DEF Depth, Top
  <2>2. ASSUME NEW b \in Blocks, Remove(b) PROVE Ends /\ Goes
    <3>1. stack' = Noted(b) BY <2>2 DEF Remove
    <3>2. Len(stack') = Depth BY <2>0, <3>1, NotedWalks
    <3>3. Depth > 0 => stack'[Depth].seen = Top.seen BY <2>0, <3>1, NotedWalks
    <3> QED BY <2>0, <3>2, <3>3
  <2>3. CASE stack' = Overwritten
    <3>2. Len(stack') = Depth BY <2>0, <2>3, OverwrittenWalks
    <3>3. Depth > 0 => stack'[Depth].seen = Top.seen BY <2>0, <2>3, OverwrittenWalks
    <3> QED BY <2>0, <3>2, <3>3
  <2>4. ASSUME NEW c \in Chains, first[c] # NULL,
               stack' = Append(Overwritten, NewWalk(c)) \/ stack' = Append(stack, NewWalk(c))
        PROVE  Ends /\ Goes
    <3>1. NewWalk(c) \in Walks BY <2>0, <2>4, NewWalkType
    <3>2. Len(stack') = Depth + 1
      BY <2>0, <2>4, <3>1, OverwrittenWalks, PushedWalks DEF Depth
    <3> QED BY <2>0, <3>2
  <2>5. CASE Consume
    <3> DEFINE w == [Top EXCEPT !.consumed = TRUE]
    <3>1. w \in Walks /\ w.seen = Top.seen
      BY <2>0, <2>5 DEF Consume, Walks
    <3>2. stack' = [stack EXCEPT ![Depth] = w] /\ stack # <<>>
      BY <2>5 DEF Consume, Top
    <3> HIDE DEF w
    <3>3. Len(stack') = Depth /\ stack'[Depth] = w BY <2>0, <3>1, <3>2, ChangedTop
    <3> QED BY <2>0, <3>1, <3>3
  <2>6. CASE Stopped
    <3>1. stack # <<>> /\ Top.c = "handlers" /\ ~ event /\ stack' = Below
      BY <2>6 DEF Stopped, Over
    <3>2. Top.consumed \/ Top.nested
      BY <2>0, <3>1 DEF Accounted, Top
    <3>3. Len(stack') = Depth - 1 BY <2>0, <3>1, PoppedWalks
    <3> QED BY <2>0, <3>2, <3>3
  <2>7. CASE Step /\ next[Top.p] = NULL
    <3>1. stack # <<>> /\ ~ Top.removed /\ stack' = Below
      BY <2>7 DEF Step
    <3>2. Top.p \in live /\ home[Top.p] = Top.c /\ stamp[Top.p] = Top.id
      BY <2>0, <3>1 DEF WalkOK
    <3>3. FollowedInOrder(Top.p) BY <2>0, <3>2 DEF HeapInv, ChainsInOrder
    <3>4. \A x \in Members(Top.c) : stamp[x] <= Top.id
      <4> SUFFICES ASSUME NEW x \in Members(Top.c) PROVE stamp[x] <= Top.id OBVIOUS
      <4>1. ~ (stamp[Top.p] < stamp[x]) BY <2>7, <3>2, <3>3 DEF FollowedInOrder
      <4>2. stamp[x] \in Nat /\ Top.id \in Nat
        BY <2>0, <3>1 DEF TypeOK, Members, Walks
      <4> QED BY <3>2, <4>1, <4>2
    <3>5. {stamp[b] : b \in Members(Top.c)} \subseteq Top.seen
      BY <2>0, <3>1, <3>4 DEF WalkOK
    <3>6. Len(stack') = Depth - 1 BY <2>0, <3>1, PoppedWalks
    <3> QED BY <2>0, <3>5, <3>6
  <2>8. CASE Step /\ next[Top.p] # NULL
    <3> DEFINE n == next[Top.p]
    <3>1. stack' = [stack EXCEPT ![Depth] = Stepped] /\ stack # <<>> /\ ~ Top.removed
      BY <2>8 DEF Step, Stepped, Top
    <3>2. /\ Stepped \in Walks /\ Stepped.seen = Top.seen \cup {stamp[n]}
          /\ n \in Members(Top.c) /\ Top.id < stamp[n]
      BY <2>0, <2>8, <3>1, SteppedWalk, SteppedOK
    <3>3. Len(stack') = Depth /\ stack'[Depth] = Stepped
      BY <2>0, <3>1, <3>2, ChangedTop
    <3>4. \A t \in Top.seen : t < stamp[n]
      <4> SUFFICES ASSUME NEW t \in Top.seen PROVE t < stamp[n] OBVIOUS
      <4>1. t <= Top.id BY <2>0, <3>1 DEF WalkOK
      <4>2. t \in Nat /\ Top.id \in Nat /\ stamp[n] \in Nat
        BY <2>0, <3>1, <3>2 DEF Walks, TypeOK, Members
      <4> QED BY <3>2, <4>1, <4>2
    <3> QED BY <2>0, <3>2, <3>3, <3>4
  <2>9. \/ UNCHANGED vars \/ Astray \/ \E b \in Blocks, c \in Chains : Install(c, b)
        => stack' = stack
    BY DEF vars, Astray, Install
  <2>10. /\ HandleNothing => stack' = Overwritten
         /\ HandleEvent => \/ stack' = Overwritten
                           \/ /\ first["handlers"] # NULL /\ "handlers" \in Chains
                              /\ stack' = Append(Overwritten, NewWalk("handlers"))
         /\ PollTasks => /\ first["tasks"] # NULL /\ "tasks" \in Chains
                         /\ stack' = Append(stack, NewWalk("tasks"))
    BY DEF HandleNothing, HandleEvent, PollTasks, Chains
  <2> HIDE DEF Ends, Goes
  <2> QED
    BY <1>1, <2>1, <2>2, <2>3, <2>4, <2>5, <2>6, <2>7, <2>8, <2>9, <2>10 DEF Next
<1>2. IInv /\ [Next]_vars => [Ends /\ Goes]_vars
  BY <1>1
<1> QED BY <1>2, Inductive, PTL DEF Spec, CallsAll
=============================================================================
