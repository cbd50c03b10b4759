-------------------------- MODULE TimerQueueProofs --------------------------
(***************************************************************************)
(* The timers for any number of blocks, nested walks and calls.  The list  *)
(* holds the allocated blocks whatever is killed under a walk (RingInv);   *)
(* what a walk can rely on (StackInv) rests on that.                       *)
(***************************************************************************)
EXTENDS TimerQueue, ListLinksProofs

(* The list is the ring s of the allocated timers. *)
Holds(s) ==
    /\ Distinct(s)
    /\ Linked(list, s)
    /\ \A t \in Timers : t \in live <=> \E k \in 1 .. Len(s) : s[k] = t

RingInv == \E s \in Seq(Timers) : Holds(s)

(* Every walk but the innermost is inside its callback, and the timer it   *)
(* called has not been called earlier since.                               *)
OuterCalls == \A k \in 1 .. Depth : k # Depth => stack[k].at = "call"

CallsNoted == \A k \in 1 .. Depth : stack[k].at = "call" => stack[k].began <= lastCall[stack[k].a]

StackInv == OuterCalls /\ CallsNoted /\ OnlySavedNextIsFatal /\ ReentryAfterPeriod

IInv == TypeOK /\ RingInv /\ StackInv

-----------------------------------------------------------------------------
(* The stack as a function, and its top. *)
LEMMA StackType ==
    ASSUME TypeOK
    PROVE  /\ Depth \in Nat /\ stack \in [1 .. Depth -> Walks]
           /\ stack # <<>> => Depth \in 1 .. Depth /\ Top \in Walks
<1>1. stack \in Seq(Walks) BY DEF TypeOK
<1>2. Depth \in Nat /\ stack \in [1 .. Depth -> Walks]
  BY <1>1, LenProperties DEF Depth
<1>3. stack # <<>> => Depth # 0
  BY <1>1, EmptySeq DEF Depth
<1>4. stack # <<>> => Depth \in 1 .. Depth
  BY <1>2, <1>3
<1> QED BY <1>2, <1>4 DEF Top

(* A function on 1 .. n is a sequence of length n. *)
LEMMA SequenceOf ==
    ASSUME NEW S, NEW n \in Nat, NEW f \in [1 .. n -> S]
    PROVE  f \in Seq(S) /\ Len(f) = n
<1>1. f \in Seq(S) BY SeqDef
<1>2. DOMAIN f = 1 .. n /\ DOMAIN f = 1 .. Len(f) /\ Len(f) \in Nat
  BY <1>1, LenProperties
<1> QED BY <1>1, <1>2

(* SetTop: the innermost walk exchanged. *)
LEMMA ChangedTop ==
    ASSUME TypeOK, stack # <<>>, NEW w \in Walks, SetTop(w)
    PROVE  /\ stack' \in Seq(Walks) /\ Depth' = Depth
           /\ Depth \in 1 .. Depth /\ stack'[Depth] = w
           /\ \A k \in 1 .. Depth : k # Depth => stack'[k] = stack[k]
<1>1. Depth \in Nat /\ stack \in [1 .. Depth -> Walks] /\ Depth \in 1 .. Depth
  BY StackType
<1>2. stack' \in [1 .. Depth -> Walks] /\ stack' = [stack EXCEPT ![Depth] = w]
  BY <1>1 DEF SetTop
<1>3. stack' \in Seq(Walks) /\ Len(stack') = Depth
  BY <1>1, <1>2, SequenceOf
<1> QED BY <1>1, <1>2, <1>3 DEF Depth

(* Whatever it is exchanged for, there are as many walks as before. *)
LEMMA SameDepth ==
    ASSUME TypeOK, stack # <<>>, NEW w, SetTop(w)
    PROVE  Depth' = Depth
<1> DEFINE S == Walks \cup {w}
<1>1. Depth \in Nat /\ stack \in [1 .. Depth -> Walks] BY StackType
<1>2. stack' \in [1 .. Depth -> S] BY <1>1 DEF SetTop
<1> HIDE DEF S
<1>3. Len(stack') = Depth BY <1>1, <1>2, SequenceOf
<1> QED BY <1>3 DEF Depth

(* The innermost walk has ended. *)
LEMMA PoppedTop ==
    ASSUME TypeOK, stack # <<>>, stack' = SubSeq(stack, 1, Depth - 1)
    PROVE  /\ stack' \in Seq(Walks) /\ Depth' = Depth - 1 /\ Depth \in 1 .. Depth
           /\ \A k \in 1 .. Depth - 1 : stack'[k] = stack[k]
<1>1. stack \in Seq(Walks) /\ Depth \in Nat /\ Depth \in 1 .. Depth
  BY StackType DEF TypeOK
<1>2. stack' = Front(stack) BY DEF Front, Depth
<1>3. stack' \in Seq(Walks) /\ Len(stack') = Len(stack) - 1 /\ \A k \in 1 .. (Len(stack) - 1) : stack'[k] = stack[k]
  BY <1>1, <1>2, FrontProps
<1> QED BY <1>1, <1>3 DEF Depth

(* The walks when t has been killed: only what they know of it changes. *)
LEMMA WalksAfterKill ==
    ASSUME TypeOK, NEW t \in Timers, KillTimer(t)
    PROVE  /\ stack' \in Seq(Walks) /\ Depth' = Depth
           /\ \A k \in 1 .. Depth :
                 /\ stack'[k].a = stack[k].a /\ stack'[k].n = stack[k].n
                 /\ stack'[k].at = stack[k].at
                 /\ stack'[k].began = stack[k].began /\ stack'[k].per = stack[k].per
                 /\ stack'[k].spoilt = (stack[k].spoilt \/ stack[k].n = t)
                 /\ stack'[k].seen = stack[k].seen /\ stack'[k].stayed = stack[k].stayed \ {t}
                 /\ stack'[k].lostLast = (stack[k].lostLast \/ list.last = t)
<1> DEFINE killed(w) == [w EXCEPT !.stayed = @ \ {t},
                                  !.spoilt = @ \/ w.n = t,
                                  !.lostLast = @ \/ list.last = t]
<1>1. Depth \in Nat /\ stack \in [1 .. Depth -> Walks] BY StackType
<1>2. ASSUME NEW w \in Walks
      PROVE  /\ killed(w) \in Walks
             /\ killed(w).a = w.a /\ killed(w).n = w.n /\ killed(w).at = w.at
             /\ killed(w).began = w.began /\ killed(w).per = w.per
             /\ killed(w).spoilt = (w.spoilt \/ w.n = t)
             /\ killed(w).seen = w.seen /\ killed(w).stayed = w.stayed \ {t}
             /\ killed(w).lostLast = (w.lostLast \/ list.last = t)
  BY <1>2 DEF Walks
<1>3. stack' = [k \in 1 .. Depth |-> killed(stack[k])]
  BY DEF KillTimer
<1> HIDE DEF killed
<1>4. stack' \in [1 .. Depth -> Walks] BY <1>1, <1>2, <1>3
<1>5. stack' \in Seq(Walks) /\ Len(stack') = Depth BY <1>1, <1>4, SequenceOf
<1> QED BY <1>1, <1>2, <1>3, <1>5 DEF Depth

(* From an allocated timer, and from the header, one comes to another. *)
LEMMA NextIsLive ==
    ASSUME TypeOK, RingInv
    PROVE  /\ \A t \in live : list.next[t] \in live
           /\ list.last # NULL => list.last \in live
<1> PICK s \in Seq(Timers) : Holds(s) BY DEF RingInv
<1>0. Len(s) \in Nat /\ (s = <<>> <=> Len(s) = 0) /\ \A k \in 1 .. Len(s) : s[k] \in Timers /\ s[k] \in live
  BY EmptySeq, LenProperties, ElementOfSeq DEF Holds
<1>1. ASSUME NEW t \in live
      PROVE  list.next[t] \in live
  <2> PICK k \in 1 .. Len(s) : s[k] = t BY DEF Holds, TypeOK
  <2>1. s # <<>> /\ list.next[s[Len(s)]] = s[1] /\ Chained(list, s)
    BY <1>0 DEF Holds, Linked
  <2>2. CASE k = Len(s)
    <3>1. 1 \in 1 .. Len(s) BY <1>0
    <3> QED BY <1>0, <2>1, <2>2, <3>1
  <2>3. CASE k # Len(s)
    <3>1. k \in 1 .. (Len(s) - 1) /\ k + 1 \in 1 .. Len(s) BY <1>0, <2>3
    <3> QED BY <1>0, <2>1, <3>1 DEF Chained
  <2> QED BY <2>2, <2>3
<1>2. ASSUME list.last # NULL
      PROVE  list.last \in live
  <2>1. s # <<>> /\ list.last = s[Len(s)] BY <1>2 DEF Holds, Linked
  <2>2. Len(s) \in 1 .. Len(s) BY <1>0, <2>1
  <2> QED BY <1>0, <2>1, <2>2
<1> QED BY <1>1, <1>2

(* A walk begins at an allocated timer. *)
LEMMA NewWalkType ==
    ASSUME TypeOK, RingInv, list.last # NULL
    PROVE  NewWalk \in Walks
<1>1. list.last \in live /\ live \subseteq Timers /\ ATime \in 0 .. MaxTime
  BY NextIsLive DEF TypeOK
<1> QED BY <1>1 DEF NewWalk, Walks

(* NewTimer appends its block to the ring. *)
LEMMA RingWithNew ==
    ASSUME TypeOK, NEW s \in Seq(Timers), Holds(s),
           NEW t \in Timers, NEW p \in Periods, NewTimer(t, p)
    PROVE  list' \in Memories(Timers) /\ Append(s, t) \in Seq(Timers) /\ Holds(Append(s, t))'
<1>0. t \notin live /\ list' = LinkEnd(list, t) /\ live' = live \cup {t}
  BY DEF NewTimer
<1>1. \A k \in 1 .. Len(s) : s[k] # t
  BY <1>0 DEF Holds
<1>2. list' \in Memories(Timers) /\ Linked(list', Append(s, t))
  BY <1>0, <1>1, LinkEndLinks, TimerAssumption DEF Holds, TypeOK
<1>3. Append(s, t) \in Seq(Timers) /\ Distinct(Append(s, t))
  BY <1>1, AppendDistinct DEF Holds
<1>4. \A u \in Timers : u \in live' <=> \E k \in 1 .. Len(Append(s, t)) : Append(s, t)[k] = u
  <2>1. /\ Len(s) \in Nat /\ Len(Append(s, t)) = Len(s) + 1
        /\ Append(s, t)[Len(s) + 1] = t /\ \A k \in 1 .. Len(s) : Append(s, t)[k] = s[k]
    OBVIOUS
  <2> QED BY <2>1, <1>0 DEF Holds
<1> QED BY <1>2, <1>3, <1>4 DEF Holds

(* KillTimer takes its block out of the ring. *)
LEMMA RingWithout ==
    ASSUME TypeOK, NEW s \in Seq(Timers), Holds(s), NEW k \in 1 .. Len(s), KillTimer(s[k])
    PROVE  list' \in Memories(Timers) /\ RemoveAt(s, k) \in Seq(Timers) /\ Holds(RemoveAt(s, k))'
<1>0. list' = Unlink(list, s[k]) /\ live' = live \ {s[k]}
  BY DEF KillTimer
<1>1. list' \in Memories(Timers) /\ Linked(list', RemoveAt(s, k))
  BY <1>0, UnlinkLinks, TimerAssumption DEF Holds, TypeOK
<1>2. RemoveAt(s, k) \in Seq(Timers) /\ Distinct(RemoveAt(s, k))
  BY RemoveAtDistinct DEF Holds
<1>3. \A u \in Timers : u \in live' <=> \E j \in 1 .. Len(RemoveAt(s, k)) : RemoveAt(s, k)[j] = u
  <2>0. Len(s) \in Nat BY LenProperties
  <2>1. /\ Len(RemoveAt(s, k)) = Len(s) - 1
        /\ \A j \in 1 .. (Len(s) - 1) : RemoveAt(s, k)[j] = IF j < k THEN s[j] ELSE s[j + 1]
    BY RemoveAtProps
  <2>2. ASSUME NEW u \in live'
        PROVE  \E j \in 1 .. Len(RemoveAt(s, k)) : RemoveAt(s, k)[j] = u
    <3>1. u \in Timers /\ u \in live /\ u # s[k] BY <1>0 DEF TypeOK
    <3> PICK l \in 1 .. Len(s) : s[l] = u BY <3>1 DEF Holds
    <3>2. l # k BY <3>1
    <3>3. CASE l < k
      <4>1. l \in 1 .. (Len(s) - 1) /\ RemoveAt(s, k)[l] = u BY <2>0, <2>1, <3>3
      <4> QED BY <2>1, <4>1
    <3>4. CASE l > k
      <4>1. l - 1 \in 1 .. (Len(s) - 1) /\ RemoveAt(s, k)[l - 1] = u BY <2>0, <2>1, <3>4
      <4> QED BY <2>1, <4>1
    <3> QED BY <3>2, <3>3, <3>4
  <2>3. ASSUME NEW j \in 1 .. Len(RemoveAt(s, k))
        PROVE  RemoveAt(s, k)[j] \in live'
    <3>1. RemoveAt(s, k)[j] # s[k] /\ \E l \in 1 .. Len(s) : RemoveAt(s, k)[j] = s[l]
      BY RemoveAtDistinct DEF Holds
    <3>2. \A l \in 1 .. Len(s) : s[l] \in Timers BY ElementOfSeq
    <3> QED BY <3>1, <3>2, <1>0 DEF Holds
  <2> QED BY <2>2, <2>3
<1> QED BY <1>1, <1>2, <1>3 DEF Holds

(* The ring changes with the list and the allocated blocks only. *)
LEMMA RingStays == RingInv /\ UNCHANGED <<list, live>> => RingInv'
<1> SUFFICES ASSUME RingInv, UNCHANGED <<list, live>> PROVE RingInv' OBVIOUS
<1> PICK s \in Seq(Timers) : Holds(s) BY DEF RingInv
<1>1. Holds(s)' BY DEF Holds, Linked, Chained, Distinct
<1> QED BY <1>1 DEF RingInv

-----------------------------------------------------------------------------
(* No timers and no walks. *)
LEMMA InitIInv == Init => IInv
<1> SUFFICES ASSUME Init PROVE IInv OBVIOUS
<1>1. stack = <<>> /\ Depth = 0 /\ stack \in Seq(Walks)
  BY EmptySeq DEF Init, Depth
<1>2. TypeOK
  <2>1. /\ list \in Memories(Timers) /\ live \subseteq Timers /\ ATime \in 0 .. MaxTime
        /\ ops \in 0 .. MaxOps /\ Depth <= MaxDepth /\ ATime = 0
    BY <1>1, TimerAssumption DEF Init, Memories
  <2>2. /\ lastCall \in [Timers -> 0 .. ATime] /\ period \in [Timers -> Periods \cup {0}]
        /\ enable \in [Timers -> BOOLEAN] /\ wild \in BOOLEAN
    <3>1. 0 \in 0 .. ATime BY <2>1
    <3> QED BY <3>1 DEF Init
  <2>3. wait \in [on : BOOLEAN, from : 0 .. ATime, for : Periods \cup {0}]
    BY DEF Init, Idle
  <2> QED BY <1>1, <2>1, <2>2, <2>3 DEF TypeOK
<1>3. RingInv
  <2>1. <<>> \in Seq(Timers) /\ Len(<<>>) = 0 BY EmptySeq
  <2>2. Holds(<<>>) BY <2>1 DEF Init, Holds, Distinct, Linked
  <2> QED BY <2>1, <2>2 DEF RingInv
<1>4. StackInv
  BY <1>1 DEF Init, StackInv, OuterCalls, CallsNoted, OnlySavedNextIsFatal, ReentryAfterPeriod
<1> QED BY <1>2, <1>3, <1>4 DEF IInv

(* What applications do: the walks under way are all inside callbacks. *)
LEMMA AllInCallbacks ==
    ASSUME TypeOK, OuterCalls, AppRuns
    PROVE  \A k \in 1 .. Depth : stack[k].at = "call"
BY StackType DEF OuterCalls, AppRuns, Top

(* Application code keeps the invariant, one step per call. *)
LEMMA NewTimerIInv ==
    ASSUME IInv, NEW t \in Timers, NEW p \in Periods, NewTimer(t, p)
    PROVE  IInv'
<1> USE DEF IInv
<1>0. t \notin live /\ list' = LinkEnd(list, t) /\ live' = live \cup {t} /\ UNCHANGED <<ATime, stack, wait, wild>>
  BY DEF NewTimer
<1>1. list' \in Memories(Timers) /\ RingInv'
  <2> PICK s \in Seq(Timers) : Holds(s) BY DEF RingInv
  <2> QED BY RingWithNew DEF RingInv
<1>2. TypeOK'
  <2>1. /\ enable' \in [Timers -> BOOLEAN] /\ lastCall' \in [Timers -> 0 .. ATime]
        /\ period' \in [Timers -> Periods \cup {0}] /\ ops' \in 0 .. MaxOps
    BY TimerAssumption DEF NewTimer, TypeOK, AppRuns
  <2> QED BY <1>0, <1>1, <2>1 DEF TypeOK, Depth
<1>3. StackInv'
  <2>1. \A k \in 1 .. Depth : lastCall'[stack[k].a] = lastCall[stack[k].a] \/ lastCall'[stack[k].a] = ATime
    BY StackType DEF NewTimer, TypeOK, Walks
  <2>2. \A k \in 1 .. Depth : lastCall[stack[k].a] \in 0 .. ATime
    <3>1. \A k \in 1 .. Depth : stack[k].a \in Timers BY StackType DEF Walks
    <3> QED BY <3>1 DEF TypeOK
  <2>3. CallsNoted'
    <3> SUFFICES ASSUME NEW k \in 1 .. Depth, stack[k].at = "call"
                 PROVE  stack[k].began <= lastCall'[stack[k].a]
      BY <1>0 DEF CallsNoted, Depth
    <3>1. stack[k].began <= lastCall[stack[k].a] BY DEF StackInv, CallsNoted
    <3>2. stack[k].began \in Int /\ ATime \in Int
      <4>1. stack[k] \in Walks BY StackType
      <4> QED BY <4>1, TimerAssumption DEF Walks, TypeOK
    <3> QED BY <2>1, <2>2, <3>1, <3>2
  <2>4. OuterCalls' /\ OnlySavedNextIsFatal' /\ ReentryAfterPeriod'
    BY <1>0 DEF StackInv, OuterCalls, OnlySavedNextIsFatal, ReentryAfterPeriod, Depth
  <2> QED BY <2>3, <2>4 DEF StackInv
<1> QED BY <1>1, <1>2, <1>3

(* The walks that had saved t become spoilt; there is no other way to t.   *)
LEMMA KillTimerIInv ==
    ASSUME IInv, NEW t \in Timers, KillTimer(t)
    PROVE  IInv'
<1> USE DEF IInv
<1>0. t \in live /\ list' = Unlink(list, t) /\ live' = live \ {t} /\ ~ wild /\ UNCHANGED <<lastCall, period, ATime, wait, wild>>
  BY DEF KillTimer, AppRuns
<1>1. list' \in Memories(Timers) /\ RingInv'
  <2> PICK s \in Seq(Timers) : Holds(s) BY DEF RingInv
  <2> PICK k \in 1 .. Len(s) : s[k] = t BY <1>0 DEF Holds
  <2> QED BY RingWithout DEF RingInv
<1>2. TypeOK'
  <2>1. enable' \in [Timers -> BOOLEAN] /\ ops' \in 0 .. MaxOps /\ live' \subseteq Timers
    <3>1. enable' \in [Timers -> BOOLEAN] /\ live' \subseteq Timers BY DEF KillTimer, TypeOK
    <3>2. ops < MaxOps /\ ops' = ops + 1 BY DEF KillTimer, AppRuns
    <3>3. ops \in 0 .. MaxOps BY DEF TypeOK
    <3>4. ops' \in 0 .. MaxOps BY <3>2, <3>3, TimerAssumption
    <3> QED BY <3>1, <3>4
  <2>2. stack' \in Seq(Walks) /\ Depth' <= MaxDepth
    BY WalksAfterKill DEF TypeOK
  <2> QED BY <1>0, <1>1, <2>1, <2>2 DEF TypeOK
<1>3. StackInv'
  <2>1. \A k \in 1 .. Depth : stack[k].at = "call"
    BY AllInCallbacks DEF StackInv, KillTimer
  <2>2. \A k \in 1 .. Depth : ~ stack'[k].spoilt => stack'[k].n \in live'
    <3> SUFFICES ASSUME NEW k \in 1 .. Depth, ~ stack'[k].spoilt PROVE stack'[k].n \in live'
      OBVIOUS
    <3>1. stack'[k].n = stack[k].n /\ ~ stack[k].spoilt /\ stack[k].n # t BY WalksAfterKill
    <3>2. stack[k].n \in live BY <2>1, <3>1 DEF StackInv, OnlySavedNextIsFatal
    <3> QED BY <1>0, <3>1, <3>2
  <2>3. OnlySavedNextIsFatal'
    BY <1>0, <2>1, <2>2, WalksAfterKill DEF OnlySavedNextIsFatal
  <2>4. OuterCalls' BY <2>1, WalksAfterKill DEF OuterCalls
  <2>5. CallsNoted' BY <1>0, WalksAfterKill DEF StackInv, CallsNoted
  <2>6. ReentryAfterPeriod' BY <1>0, WalksAfterKill DEF StackInv, ReentryAfterPeriod
  <2> QED BY <2>3, <2>4, <2>5, <2>6 DEF StackInv
<1> QED BY <1>1, <1>2, <1>3

(* A walk begins: in a turn of the main loop, or inside a callback. *)
LEMMA PushIInv ==
    ASSUME IInv, list.last # NULL, ~ wild, Depth < MaxDepth,
           \A k \in 1 .. Depth : stack[k].at = "call",
           stack' = Append(stack, NewWalk), ops' \in 0 .. MaxOps,
           UNCHANGED <<list, live, fields, ATime, wait, wild>>
    PROVE  IInv'
<1> USE DEF IInv
<1>1. list.last \in live
  BY NextIsLive
<1>2. NewWalk \in Walks BY NewWalkType
<1>3. stack \in Seq(Walks) /\ Depth \in Nat BY StackType DEF TypeOK
<1>4. /\ stack' \in Seq(Walks) /\ Depth' = Depth + 1 /\ stack'[Depth + 1] = NewWalk
      /\ \A k \in 1 .. Depth : stack'[k] = stack[k]
  <2> HIDE DEF IInv
  <2> QED BY <1>2, <1>3 DEF Depth
<1>5. TypeOK'
  <2>1. Depth' <= MaxDepth BY <1>3, <1>4, TimerAssumption
  <2> QED BY <1>4, <2>1 DEF TypeOK, fields
<1>6. RingInv' BY RingStays
<1>7. StackInv'
  <2>1. \A k \in 1 .. Depth' : k = Depth + 1 \/ k \in 1 .. Depth BY <1>3, <1>4
  <2>2. NewWalk.at = "visit" /\ NewWalk.a = list.last BY DEF NewWalk
  <2>3. OuterCalls' BY <1>4, <2>1 DEF OuterCalls
  <2>4. CallsNoted' BY <1>4, <2>1, <2>2 DEF StackInv, CallsNoted, fields
  <2>5. OnlySavedNextIsFatal' BY <1>1, <1>4, <2>1, <2>2 DEF StackInv, OnlySavedNextIsFatal
  <2>6. ReentryAfterPeriod'
    <3> SUFFICES ASSUME NEW j \in 1 .. Depth', NEW k \in 1 .. Depth',
                        j < k, stack'[k].at = "call", stack'[j].a = stack'[k].a
                 PROVE  stack'[k].began - stack'[j].began >= stack'[k].per
      BY DEF ReentryAfterPeriod
    <3>1. k \in 1 .. Depth /\ j \in 1 .. Depth BY <1>3, <1>4, <2>1, <2>2
    <3> QED BY <1>4, <3>1 DEF StackInv, ReentryAfterPeriod
  <2> QED BY <2>3, <2>4, <2>5, <2>6 DEF StackInv
<1> QED BY <1>5, <1>6, <1>7

(* The innermost walk reads its next timer and calls this one if it is due *)
(* by ATime: the callback it may be inside of began at LastCall or before. *)
LEMMA VisitIInv ==
    ASSUME IInv, Visit
    PROVE  IInv'
<1> USE DEF IInv
<1> DEFINE a == Top.a
           w == [Top EXCEPT !.n = list.next[a], !.seen = @ \cup {a}]
           v == IF Due(a) THEN [w EXCEPT !.at = "call", !.began = ATime, !.per = period[a]]
                ELSE [w EXCEPT !.at = "test"]
<1>0. ~ wild /\ stack # <<>> /\ a \in live /\ UNCHANGED <<list, live, enable, period, ATime, wait, wild, ops>>
  BY DEF Visit
<1>1. Top \in Walks /\ a \in Timers /\ list.next[a] \in live /\ list.next[a] \in Timers
  BY <1>0, StackType, NextIsLive DEF TypeOK, Walks
<1>2. /\ v \in Walks /\ v.a = a /\ v.n = list.next[a] /\ v.spoilt = Top.spoilt
      /\ v.at = (IF Due(a) THEN "call" ELSE "test")
      /\ Due(a) => v.began = ATime /\ v.per = period[a]
  <2>1. ATime \in 0 .. MaxTime /\ period[a] \in Periods \cup {0} BY <1>1 DEF TypeOK
  <2>2. w \in Walks /\ w.a = a /\ w.n = list.next[a] /\ w.spoilt = Top.spoilt
    BY <1>1 DEF Walks
  <2> HIDE DEF w
  <2>3. CASE Due(a) BY <2>1, <2>2, <2>3 DEF Walks
  <2>4. CASE ~ Due(a) BY <2>2, <2>4 DEF Walks
  <2> QED BY <2>3, <2>4
<1>3. SetTop(v) BY DEF Visit
<1>4. lastCall' = IF Due(a) THEN [lastCall EXCEPT ![a] = ATime] ELSE lastCall BY DEF Visit
<1> HIDE DEF v, w
<1>5. /\ stack' \in Seq(Walks) /\ Depth' = Depth /\ Depth \in 1 .. Depth /\ stack'[Depth] = v
      /\ \A k \in 1 .. Depth : k # Depth => stack'[k] = stack[k]
  BY <1>0, <1>2, <1>3, ChangedTop
<1>6. TypeOK'
  <2>1. lastCall' \in [Timers -> 0 .. ATime] BY <1>1, <1>4, TimerAssumption DEF TypeOK
  <2> QED BY <1>0, <1>5, <2>1 DEF TypeOK
<1>7. RingInv' BY <1>0, RingStays
<1>8. OuterCalls' BY <1>5 DEF StackInv, OuterCalls
<1>9. CallsNoted'
  <2> SUFFICES ASSUME NEW k \in 1 .. Depth, stack'[k].at = "call"
               PROVE  stack'[k].began <= lastCall'[stack'[k].a]
    BY <1>5 DEF CallsNoted
  <2>1. CASE k = Depth
    BY <2>1, <1>1, <1>2, <1>4, <1>5, TimerAssumption DEF TypeOK
  <2>2. CASE k # Depth
    <3>1. stack'[k] = stack[k] /\ stack[k] \in Walks BY <2>2, <1>5, StackType
    <3>2. stack[k].began <= lastCall[stack[k].a] /\ lastCall[stack[k].a] \in 0 .. ATime /\ stack[k].began \in Nat /\ ATime \in Nat
      BY <3>1, TimerAssumption DEF StackInv, CallsNoted, TypeOK, Walks
    <3>3. lastCall'[stack[k].a] = lastCall[stack[k].a] \/ lastCall'[stack[k].a] = ATime
      BY <3>1, <1>1, <1>4 DEF TypeOK, Walks
    <3> QED BY <3>1, <3>2, <3>3
  <2> QED BY <2>1, <2>2
<1>10. OnlySavedNextIsFatal'
  BY <1>0, <1>1, <1>2, <1>5 DEF StackInv, OnlySavedNextIsFatal
<1>11. ReentryAfterPeriod'
  <2> SUFFICES ASSUME NEW j \in 1 .. Depth, NEW k \in 1 .. Depth,
                      j < k, stack'[k].at = "call", stack'[j].a = stack'[k].a
               PROVE  stack'[k].began - stack'[j].began >= stack'[k].per
    BY <1>5 DEF ReentryAfterPeriod
  <2>0. j # Depth /\ stack'[j] = stack[j] /\ stack[j] \in Walks
    BY <1>5, StackType
  <2>1. CASE k = Depth
    <3>1. Due(a) /\ stack[j].a = a BY <2>0, <2>1, <1>2, <1>5
    <3>2. stack[j].began <= lastCall[a]
      BY <2>0, <3>1 DEF StackInv, OuterCalls, CallsNoted
    <3>3. ATime - lastCall[a] >= period[a] BY <3>1 DEF Due
    <3>4. /\ stack[j].began \in Nat /\ lastCall[a] \in Nat /\ ATime \in Nat /\ period[a] \in Nat
      <4>1. stack[j].began \in 0 .. MaxTime BY <2>0 DEF Walks
      <4>2. /\ lastCall[a] \in 0 .. ATime /\ ATime \in 0 .. MaxTime
            /\ period[a] \in Periods \cup {0}
        BY <1>1 DEF TypeOK
      <4>3. 0 .. MaxTime \subseteq Nat /\ Periods \cup {0} \subseteq Nat BY TimerAssumption
      <4>4. ATime \in Nat BY <4>2, <4>3
      <4>5. lastCall[a] \in Nat BY <4>2, <4>4
      <4> QED BY <4>1, <4>2, <4>3, <4>4, <4>5
    <3>5. ATime - stack[j].began >= period[a] BY <3>2, <3>3, <3>4
    <3> QED BY <2>0, <2>1, <3>1, <3>5, <1>2, <1>5
  <2>2. CASE k # Depth
    BY <2>0, <2>2, <1>5 DEF StackInv, ReentryAfterPeriod
  <2> QED BY <2>1, <2>2
<1> QED BY <1>6, <1>7, <1>8, <1>9, <1>10, <1>11 DEF StackInv

(* The innermost walk goes to test, or on to the timer it had saved. *)
LEMMA MoveTopIInv ==
    ASSUME IInv, ~ wild, stack # <<>>, NEW w \in Walks, SetTop(w),
           w.at # "call", w.spoilt = Top.spoilt,
           (IF w.at = "visit" THEN w.a ELSE w.n) = Top.n, Top.at # "visit",
           UNCHANGED <<list, live, fields, ATime, wait, wild, ops>>
    PROVE  IInv'
<1> USE DEF IInv
<1>1. /\ stack' \in Seq(Walks) /\ Depth' = Depth /\ Depth \in 1 .. Depth /\ stack'[Depth] = w
      /\ \A k \in 1 .. Depth : k # Depth => stack'[k] = stack[k]
  BY ChangedTop
<1>2. TypeOK' BY <1>1 DEF TypeOK, fields
<1>3. RingInv' BY RingStays
<1>4. OuterCalls' BY <1>1 DEF StackInv, OuterCalls
<1>5. CallsNoted' BY <1>1 DEF StackInv, CallsNoted, fields
<1>6. OnlySavedNextIsFatal' BY <1>1 DEF StackInv, OnlySavedNextIsFatal, Top
<1>7. ReentryAfterPeriod'
  <2> SUFFICES ASSUME NEW j \in 1 .. Depth, NEW k \in 1 .. Depth,
                      j < k, stack'[k].at = "call", stack'[j].a = stack'[k].a
               PROVE  stack'[k].began - stack'[j].began >= stack'[k].per
    BY <1>1 DEF ReentryAfterPeriod
  <2>1. k # Depth /\ j # Depth BY <1>1, StackType
  <2> QED BY <1>1, <2>1 DEF StackInv, ReentryAfterPeriod
<1> QED BY <1>2, <1>3, <1>4, <1>5, <1>6, <1>7 DEF StackInv

(* The innermost walk ends; the one below comes back into its callback. *)
LEMMA PopIInv ==
    ASSUME IInv, ~ wild, stack # <<>>, stack' = SubSeq(stack, 1, Depth - 1),
           UNCHANGED <<list, live, fields, ATime, wait, wild, ops>>
    PROVE  IInv'
<1> USE DEF IInv
<1>1. /\ stack' \in Seq(Walks) /\ Depth' = Depth - 1 /\ Depth \in 1 .. Depth
      /\ \A k \in 1 .. Depth - 1 : stack'[k] = stack[k]
  BY PoppedTop
<1>2. Depth \in Nat /\ \A k \in 1 .. Depth' : k \in 1 .. Depth /\ k # Depth /\ k \in 1 .. Depth - 1
  BY <1>1, StackType
<1>3. TypeOK'
  <2>1. Depth' <= MaxDepth BY <1>1, <1>2, TimerAssumption DEF TypeOK
  <2> QED BY <1>1, <2>1 DEF TypeOK, fields
<1>4. RingInv' BY RingStays
<1>5. StackInv'
  BY <1>1, <1>2 DEF StackInv, OuterCalls, CallsNoted, OnlySavedNextIsFatal, ReentryAfterPeriod, fields
<1> QED BY <1>3, <1>4, <1>5

(* One step per action. *)
LEMMA NextIInv == IInv /\ [Next]_vars => IInv'
<1> SUFFICES ASSUME IInv, [Next]_vars PROVE IInv' OBVIOUS
<1>0. TypeOK /\ RingInv /\ StackInv BY DEF IInv
<1>1. CASE AClock
  <2>1. ATime' = ATime + 1 /\ ATime < MaxTime /\ UNCHANGED <<list, live, fields, stack, wait, wild, ops>>
    BY <1>1 DEF AClock
  <2>2. TypeOK'
    <3>1. ATime' \in 0 .. MaxTime /\ 0 .. ATime \subseteq 0 .. ATime'
      BY <1>0, <2>1, TimerAssumption DEF TypeOK
    <3>2. lastCall' \in [Timers -> 0 .. ATime']
      BY <1>0, <2>1, <3>1 DEF TypeOK, fields
    <3>3. wait' \in [on : BOOLEAN, from : 0 .. ATime', for : Periods \cup {0}]
      BY <1>0, <2>1, <3>1 DEF TypeOK
    <3> QED BY <1>0, <2>1, <3>1, <3>2, <3>3 DEF TypeOK, fields, Depth
  <2>3. RingInv' BY <1>0, <2>1, RingStays
  <2>4. StackInv'
    BY <1>0, <2>1 DEF StackInv, OuterCalls, CallsNoted, OnlySavedNextIsFatal, ReentryAfterPeriod, fields, Depth
  <2> QED BY <2>2, <2>3, <2>4 DEF IInv
<1>2. ASSUME NEW t \in Timers, NEW p \in Periods, NewTimer(t, p)
      PROVE  IInv'
  BY <1>2, NewTimerIInv
<1>3. ASSUME NEW t \in Timers, KillTimer(t)
      PROVE  IInv'
  BY <1>3, KillTimerIInv
<1>4. ASSUME NEW t \in Timers, NEW p \in Periods, TimerSetPeriod(t, p)
      PROVE  IInv'
  <2>1. UNCHANGED <<list, live, enable, lastCall, ATime, stack, wait, wild>> BY <1>4 DEF TimerSetPeriod
  <2>2. period' \in [Timers -> Periods \cup {0}] /\ ops' \in 0 .. MaxOps
    BY <1>0, <1>4, TimerAssumption DEF TimerSetPeriod, TypeOK, AppRuns
  <2>3. TypeOK' BY <1>0, <2>1, <2>2 DEF TypeOK, Depth
  <2>4. StackInv'
    BY <1>0, <2>1 DEF StackInv, OuterCalls, CallsNoted, OnlySavedNextIsFatal, ReentryAfterPeriod, Depth
  <2> QED BY <1>0, <2>1, <2>3, <2>4, RingStays DEF IInv
<1>5. ASSUME NEW p \in Periods, BeginWait(p)
      PROVE  IInv'
  <2>1. UNCHANGED <<list, live, fields, ATime, stack, wild>> BY <1>5 DEF BeginWait
  <2>2. wait' \in [on : BOOLEAN, from : 0 .. ATime, for : Periods \cup {0}] /\ ops' \in 0 .. MaxOps
    BY <1>0, <1>5, TimerAssumption DEF BeginWait, TypeOK, AppRuns
  <2>3. TypeOK' BY <1>0, <2>1, <2>2 DEF TypeOK, Depth, fields
  <2>4. StackInv'
    BY <1>0, <2>1 DEF StackInv, OuterCalls, CallsNoted, OnlySavedNextIsFatal, ReentryAfterPeriod, Depth, fields
  <2> QED BY <1>0, <2>1, <2>3, <2>4, RingStays DEF IInv
<1>6. CASE EndWait
  <2>1. UNCHANGED <<list, live, fields, ATime, stack, wild, ops>> BY <1>6 DEF EndWait
  <2>2. wait' \in [on : BOOLEAN, from : 0 .. ATime, for : Periods \cup {0}]
    BY <1>0, <1>6, TimerAssumption DEF EndWait, Idle, TypeOK
  <2>3. TypeOK' BY <1>0, <2>1, <2>2 DEF TypeOK, Depth, fields
  <2>4. StackInv'
    BY <1>0, <2>1 DEF StackInv, OuterCalls, CallsNoted, OnlySavedNextIsFatal, ReentryAfterPeriod, Depth, fields
  <2> QED BY <1>0, <2>1, <2>3, <2>4, RingStays DEF IInv
<1>7. CASE NestedPoll
  <2>1. \A k \in 1 .. Depth : stack[k].at = "call"
    BY <1>0, <1>7, AllInCallbacks DEF NestedPoll, StackInv
  <2>2. ops' \in 0 .. MaxOps
    BY <1>0, <1>7, TimerAssumption DEF NestedPoll, AppRuns, TypeOK
  <2> QED BY <1>7, <2>1, <2>2, PushIInv DEF NestedPoll, AppRuns
<1>8. CASE TimersPoll
  <2>1. stack = <<>> /\ Depth = 0 /\ stack' = Append(stack, NewWalk)
    BY <1>8, EmptySeq DEF TimersPoll, Depth
  <2>2. ops' \in 0 .. MaxOps BY <1>0, <1>8 DEF TimersPoll, TypeOK
  <2> QED BY <1>8, <2>1, <2>2, TimerAssumption, PushIInv DEF TimersPoll
<1>9. CASE Visit
  BY <1>9, VisitIInv
<1>10. CASE VisitFreed
  <2>1. UNCHANGED <<list, live, fields, ATime, stack, wait, ops>> /\ wild' = TRUE
    BY <1>10 DEF VisitFreed
  <2>2. TypeOK' BY <1>0, <2>1 DEF TypeOK, Depth, fields
  <2>3. Top.spoilt
    BY <1>0, <1>10, StackType DEF VisitFreed, StackInv, OnlySavedNextIsFatal, Top
  <2>4. StackInv'
    BY <1>0, <2>1, <2>3 DEF StackInv, OuterCalls, CallsNoted, OnlySavedNextIsFatal, ReentryAfterPeriod, Top, Depth, fields
  <2> QED BY <1>0, <2>1, <2>2, <2>4, RingStays DEF IInv
<1>11. CASE Return
  <2> DEFINE w == [Top EXCEPT !.at = "test"]
  <2>1. Top \in Walks BY <1>0, <1>11, StackType DEF Return
  <2>2. w \in Walks /\ w.at = "test" /\ w.spoilt = Top.spoilt /\ w.n = Top.n
    BY <2>1 DEF Walks
  <2>3. SetTop(w) BY <1>11 DEF Return
  <2> HIDE DEF w
  <2> QED BY <1>11, <2>2, <2>3, MoveTopIInv DEF Return
<1>12. CASE LoopTest
  <2>1. CASE Top.n = list.last
    BY <1>12, <2>1, PopIInv DEF LoopTest
  <2>2. CASE Top.n # list.last
    <3> DEFINE w == [Top EXCEPT !.a = Top.n, !.at = "visit"]
    <3>1. Top \in Walks BY <1>0, <1>12, StackType DEF LoopTest
    <3>2. w \in Walks /\ w.at = "visit" /\ w.spoilt = Top.spoilt /\ w.a = Top.n
      BY <3>1 DEF Walks
    <3>3. SetTop(w) BY <1>12, <2>2 DEF LoopTest
    <3> HIDE DEF w
    <3> QED BY <1>12, <3>2, <3>3, MoveTopIInv DEF LoopTest
  <2> QED BY <2>1, <2>2
<1>13. CASE UNCHANGED vars
  <2>1. TypeOK' BY <1>0, <1>13 DEF TypeOK, vars, fields, Depth
  <2>2. StackInv'
    BY <1>0, <1>13 DEF StackInv, OuterCalls, CallsNoted, OnlySavedNextIsFatal, ReentryAfterPeriod, vars, fields, Depth
  <2> QED BY <1>0, <1>13, <2>1, <2>2, RingStays DEF IInv, vars
<1> QED
  BY <1>1, <1>2, <1>3, <1>4, <1>5, <1>6, <1>7, <1>8, <1>9, <1>10, <1>11, <1>12, <1>13
  DEF Next, Application, Kernel

-----------------------------------------------------------------------------
(* Every pointer a walk holds is a timer block, no timer has been called   *)
(* in the future.                                                          *)
THEOREM TimerTypes == Spec => []TypeOK
<1>1. IInv => TypeOK BY DEF IInv
<1> QED BY <1>1, InitIInv, NextIInv, PTL DEF Spec

(* TimersPoll reads freed memory in one way only, for any number of timers *)
(* and any depth of walks inside callbacks.                                *)
THEOREM FatalOnlyToSavedNext == Spec => []OnlySavedNextIsFatal
<1>1. IInv => OnlySavedNextIsFatal BY DEF IInv, StackInv
<1> QED BY <1>1, InitIInv, NextIInv, PTL DEF Spec

(* A callback is entered a second time only after its period. *)
THEOREM PeriodsAreKept == Spec => []ReentryAfterPeriod
<1>1. IInv => ReentryAfterPeriod BY DEF IInv, StackInv
<1> QED BY <1>1, InitIInv, NextIInv, PTL DEF Spec

-----------------------------------------------------------------------------
(* How far a walk has come in the ring s.  It begins at Last, which is the *)
(* head's predecessor; from there on, the timers it has not read and that  *)
(* have stayed are those from the saved one on, and Last is not among them *)
(* unless another timer was Last when the walk was there.                  *)
Unread(w) == w.stayed \ w.seen

Saved(w) == IF w.at = "visit" THEN w.a ELSE w.n

Begins(w, s) == w.at = "visit" /\ s # <<>> /\ w.a = s[Len(s)]

OnItsWay(w, s) ==
    /\ \E q \in 1 .. Len(s) :
          s[q] = Saved(w) /\ \A r \in 1 .. Len(s) : s[r] \in Unread(w) => q <= r
    /\ ~ w.lostLast => s[Len(s)] \notin Unread(w)
    /\ w.at = "visit" => w.a # s[Len(s)]

Placed(w, s) == ~ w.spoilt => w.stayed \subseteq live /\ (Begins(w, s) \/ OnItsWay(w, s))

WayInv ==
    \E s \in Seq(Timers) : Holds(s) /\ \A k \in 1 .. Depth : Placed(stack[k], s)

(* No walk is anywhere yet. *)
LEMMA InitWayInv == Init => WayInv
<1> SUFFICES ASSUME Init PROVE WayInv OBVIOUS
<1>1. stack = <<>> /\ Depth = 0 BY EmptySeq DEF Init, Depth
<1>2. <<>> \in Seq(Timers) /\ Len(<<>>) = 0 BY EmptySeq
<1>3. Holds(<<>>) BY <1>2 DEF Init, Holds, Distinct, Linked
<1>4. \A k \in 1 .. Depth : Placed(stack[k], <<>>) BY <1>1
<1> HIDE DEF Placed
<1> QED BY <1>2, <1>3, <1>4, Zenon DEF WayInv

(* The innermost walk moves and the list stays. *)
LEMMA TopPlaced ==
    ASSUME TypeOK, stack # <<>>, NEW w \in Walks, SetTop(w), UNCHANGED <<list, live>>,
           NEW s \in Seq(Timers), Holds(s), \A k \in 1 .. Depth : Placed(stack[k], s),
           Placed(w, s)
    PROVE  WayInv'
<1>1. /\ Depth' = Depth /\ Depth \in 1 .. Depth /\ stack'[Depth] = w
      /\ \A k \in 1 .. Depth : k # Depth => stack'[k] = stack[k]
  BY ChangedTop
<1>2. Holds(s)' BY DEF Holds, Linked, Chained, Distinct
<1>3. \A k \in 1 .. Depth : Placed(stack'[k], s)
  <2> HIDE DEF Placed
  <2> QED BY <1>1
<1>4. \A k \in 1 .. Depth' : Placed(stack[k], s)'
  BY <1>1, <1>3 DEF Placed, Begins, OnItsWay, Saved, Unread
<1> QED BY <1>2, <1>4 DEF WayInv

(* The new timer is behind all others, and no walk waits for it. *)
LEMMA NewTimerWay ==
    ASSUME TypeOK, OuterCalls, WayInv, NEW t \in Timers, NEW p \in Periods, NewTimer(t, p)
    PROVE  WayInv'
<1> PICK s \in Seq(Timers) : Holds(s) /\ \A k \in 1 .. Depth : Placed(stack[k], s)
  BY DEF WayInv
<1> DEFINE z == Append(s, t)
<1>1. z \in Seq(Timers) /\ Holds(z)' BY RingWithNew
<1>2. /\ Len(s) \in Nat /\ Len(z) = Len(s) + 1 /\ z[Len(s) + 1] = t
      /\ \A k \in 1 .. Len(s) : z[k] = s[k]
  OBVIOUS
<1>3. t \notin live /\ live' = live \cup {t} /\ stack' = stack BY DEF NewTimer
<1> HIDE DEF z
<1>4. ASSUME NEW k \in 1 .. Depth, ~ stack[k].spoilt
      PROVE  stack[k].stayed \subseteq live' /\ OnItsWay(stack[k], z)
  <2>1. stack[k].at = "call" BY AllInCallbacks DEF NewTimer
  <2>2. stack[k].stayed \subseteq live /\ OnItsWay(stack[k], s)
    BY <1>4, <2>1 DEF Placed, Begins
  <2> PICK q \in 1 .. Len(s) : s[q] = stack[k].n /\ \A r \in 1 .. Len(s) : s[r] \in Unread(stack[k]) => q <= r
    BY <2>1, <2>2 DEF OnItsWay, Saved
  <2>3. t \notin Unread(stack[k]) BY <1>3, <2>2 DEF Unread
  <2>4. q \in 1 .. Len(z) /\ z[q] = stack[k].n BY <1>2
  <2>5. ASSUME NEW r \in 1 .. Len(z), z[r] \in Unread(stack[k])
        PROVE  q <= r
    <3>1. r # Len(s) + 1 BY <1>2, <2>3, <2>5
    <3>2. r \in 1 .. Len(s) BY <1>2, <3>1
    <3> QED BY <1>2, <2>5, <3>2
  <2> QED BY <1>2, <1>3, <2>1, <2>2, <2>3, <2>4, <2>5 DEF OnItsWay, Saved
<1>5. \A k \in 1 .. Depth' : Placed(stack[k], z)'
  BY <1>3, <1>4 DEF Placed, Begins, OnItsWay, Saved, Unread, Depth
<1> QED BY <1>1, <1>5 DEF WayInv

(* The others close up; a walk that is not spoilt stays in front of the    *)
(* same timers as before.                                                  *)
LEMMA KillTimerWay ==
    ASSUME TypeOK, OuterCalls, WayInv, NEW t \in Timers, KillTimer(t)
    PROVE  WayInv'
<1> PICK s \in Seq(Timers) : Holds(s) /\ \A k \in 1 .. Depth : Placed(stack[k], s)
  BY DEF WayInv
<1>0. t \in live /\ live' = live \ {t} BY DEF KillTimer
<1> PICK i \in 1 .. Len(s) : s[i] = t BY <1>0 DEF Holds
<1> DEFINE z == RemoveAt(s, i)
<1>1. z \in Seq(Timers) /\ Holds(z)' BY RingWithout
<1>2. Len(s) \in Nat /\ Len(z) = Len(s) - 1 /\ \A j \in 1 .. (Len(s) - 1) : z[j] = IF j < i THEN s[j] ELSE s[j + 1]
  BY RemoveAtProps, LenProperties
<1>3. list.last = s[Len(s)]
  <2>1. s # <<>> BY <1>2, EmptySeq
  <2> QED BY <2>1 DEF Holds, Linked
<1> HIDE DEF z
<1>4. ASSUME NEW k \in 1 .. Depth, ~ stack'[k].spoilt
      PROVE  stack'[k].stayed \subseteq live' /\ OnItsWay(stack'[k], z)
  <2> DEFINE w == stack[k]
             v == stack'[k]
  <2>1. /\ w.at = "call" /\ v.at = "call" /\ v.n = w.n /\ w.n # t /\ ~ w.spoilt
        /\ Unread(v) \subseteq Unread(w) /\ v.stayed = w.stayed \ {t}
        /\ v.lostLast = (w.lostLast \/ list.last = t)
    <3>1. w.at = "call" BY AllInCallbacks DEF KillTimer
    <3>2. /\ v.at = w.at /\ v.n = w.n /\ v.spoilt = (w.spoilt \/ w.n = t)
          /\ v.seen = w.seen /\ v.stayed = w.stayed \ {t}
          /\ v.lostLast = (w.lostLast \/ list.last = t)
      BY WalksAfterKill
    <3>3. ~ v.spoilt BY <1>4
    <3> HIDE DEF w, v
    <3>4. ~ w.spoilt /\ w.n # t BY <3>2, <3>3
    <3>5. Unread(v) \subseteq Unread(w) BY <3>2 DEF Unread
    <3> QED BY <3>1, <3>2, <3>4, <3>5
  <2>2. w.stayed \subseteq live /\ OnItsWay(w, s)
    BY <2>1 DEF Placed, Begins
  <2> PICK q \in 1 .. Len(s) : s[q] = w.n /\ \A r \in 1 .. Len(s) : s[r] \in Unread(w) => q <= r
    BY <2>1, <2>2 DEF OnItsWay, Saved
  <2> HIDE DEF w, v
  <2>3. q # i BY <2>1
  <2> DEFINE m == IF q < i THEN q ELSE q - 1
  <2>4. m \in 1 .. Len(z) /\ z[m] = w.n BY <1>2, <2>3
  <2>5. ASSUME NEW r \in 1 .. Len(z), z[r] \in Unread(v)
        PROVE  m <= r
    <3>1. CASE r < i
      <4>1. r \in 1 .. Len(s) /\ z[r] = s[r] BY <1>2, <3>1
      <4>2. q <= r BY <2>1, <2>5, <4>1
      <4> QED BY <4>2, <3>1
    <3>2. CASE r >= i
      <4>1. r + 1 \in 1 .. Len(s) /\ z[r] = s[r + 1] BY <1>2, <3>2
      <4>2. q <= r + 1 BY <2>1, <2>5, <4>1
      <4> QED BY <4>2, <3>2, <2>3
    <3> QED BY <3>1, <3>2, <1>2
  <2>6. ~ v.lostLast => z[Len(z)] \notin Unread(v)
    <3> SUFFICES ASSUME ~ v.lostLast PROVE z[Len(z)] \notin Unread(v) OBVIOUS
    <3>1. ~ w.lostLast /\ s[Len(s)] # t BY <1>3, <2>1
    <3>2. i # Len(s) BY <3>1
    <3>3. z[Len(z)] = s[Len(s)] BY <1>2, <3>2
    <3>4. s[Len(s)] \notin Unread(w) BY <2>2, <3>1 DEF OnItsWay
    <3> QED BY <2>1, <3>3, <3>4
  <2>7. OnItsWay(v, z)
    <3> HIDE DEF m
    <3>1. z[m] = Saved(v) BY <2>1, <2>4 DEF Saved
    <3> QED BY <2>1, <2>4, <2>5, <2>6, <3>1 DEF OnItsWay
  <2> QED BY <1>0, <2>1, <2>2, <2>7 DEF w, v
<1>5. \A k \in 1 .. Depth' : Placed(stack[k], z)'
  BY <1>4, WalksAfterKill DEF Placed, Begins, OnItsWay, Saved, Unread
<1> QED BY <1>1, <1>5 DEF WayInv

(* A new walk begins at Last, with all timers before it. *)
LEMMA PushWay ==
    ASSUME TypeOK, RingInv, WayInv, list.last # NULL,
           stack' = Append(stack, NewWalk), UNCHANGED <<list, live>>
    PROVE  WayInv'
<1> PICK s \in Seq(Timers) : Holds(s) /\ \A k \in 1 .. Depth : Placed(stack[k], s)
  BY DEF WayInv
<1>1. list.last = s[Len(s)] /\ s # <<>> BY DEF Holds, Linked
<1>2. Placed(NewWalk, s) BY <1>1 DEF Placed, Begins, NewWalk
<1>3. stack \in Seq(Walks) /\ Depth \in Nat BY StackType DEF TypeOK
<1>4. NewWalk \in Walks BY NewWalkType
<1>5. /\ Depth' = Depth + 1 /\ stack'[Depth + 1] = NewWalk
      /\ \A k \in 1 .. Depth : stack'[k] = stack[k]
  BY <1>3, <1>4 DEF Depth
<1>6. \A k \in 1 .. Depth' : Placed(stack'[k], s)
  <2>1. \A k \in 1 .. Depth' : k = Depth + 1 \/ k \in 1 .. Depth BY <1>3, <1>5
  <2> QED BY <1>2, <1>5, <2>1
<1>7. \A k \in 1 .. Depth' : Placed(stack[k], s)'
  BY <1>6 DEF Placed, Begins, OnItsWay, Saved, Unread
<1>8. Holds(s)' BY DEF Holds, Linked, Chained, Distinct
<1> QED BY <1>7, <1>8 DEF WayInv

(* From Last the next timer is the head, from any other the one behind. *)
LEMMA VisitWay ==
    ASSUME TypeOK, RingInv, WayInv, Visit
    PROVE  WayInv'
<1> PICK s \in Seq(Timers) : Holds(s) /\ \A k \in 1 .. Depth : Placed(stack[k], s)
  BY DEF WayInv
<1> DEFINE a == Top.a
           w == [Top EXCEPT !.n = list.next[a], !.seen = @ \cup {a}]
           v == IF Due(a) THEN [w EXCEPT !.at = "call", !.began = ATime, !.per = period[a]]
                ELSE [w EXCEPT !.at = "test"]
<1>0. stack # <<>> /\ Top.at = "visit" /\ a \in live /\ UNCHANGED <<list, live>> BY DEF Visit
<1>1. Top \in Walks /\ a \in Timers /\ list.next[a] \in Timers /\ Depth \in 1 .. Depth
  BY <1>0, StackType, NextIsLive DEF TypeOK, Walks
<1>2. /\ v \in Walks /\ v.at # "visit" /\ v.n = list.next[a] /\ v.spoilt = Top.spoilt
      /\ v.seen = Top.seen \cup {a} /\ v.stayed = Top.stayed /\ v.lostLast = Top.lostLast
  <2>1. ATime \in 0 .. MaxTime /\ period[a] \in Periods \cup {0} BY <1>1 DEF TypeOK
  <2>2. /\ w \in Walks /\ w.n = list.next[a] /\ w.spoilt = Top.spoilt
        /\ w.seen = Top.seen \cup {a} /\ w.stayed = Top.stayed /\ w.lostLast = Top.lostLast
    BY <1>1 DEF Walks
  <2> HIDE DEF w
  <2>3. CASE Due(a) BY <2>1, <2>2, <2>3 DEF Walks
  <2>4. CASE ~ Due(a) BY <2>2, <2>4 DEF Walks
  <2> QED BY <2>3, <2>4
<1>3. SetTop(v) BY DEF Visit
<1> HIDE DEF v, w
<1>4. Len(s) \in Nat BY LenProperties
<1>5. Unread(v) = Unread(Top) \ {a} BY <1>2 DEF Unread
<1>6. ASSUME ~ Top.spoilt
      PROVE  Top.stayed \subseteq live /\ OnItsWay(v, s)
  <2>1. Top.stayed \subseteq live /\ (Begins(Top, s) \/ OnItsWay(Top, s))
    BY <1>1, <1>6 DEF Placed, Top
  <2>2. CASE Begins(Top, s)
    <3>1. s # <<>> /\ a = s[Len(s)] BY <2>2 DEF Begins
    <3>2. 1 \in 1 .. Len(s) BY <1>4, <3>1, EmptySeq
    <3>3. list.next[a] = s[1] BY <3>1 DEF Holds, Linked
    <3>4. s[1] = Saved(v) /\ \A r \in 1 .. Len(s) : 1 <= r BY <1>2, <3>3 DEF Saved
    <3>5. s[Len(s)] \notin Unread(v) BY <1>5, <3>1
    <3> QED BY <1>2, <2>1, <3>2, <3>4, <3>5 DEF OnItsWay
  <2>3. CASE OnItsWay(Top, s)
    <3> PICK q \in 1 .. Len(s) : s[q] = a /\ \A r \in 1 .. Len(s) : s[r] \in Unread(Top) => q <= r
      BY <1>0, <2>3 DEF OnItsWay, Saved
    <3>1. q # Len(s) BY <1>0, <2>3 DEF OnItsWay
    <3>2. q \in 1 .. (Len(s) - 1) /\ q + 1 \in 1 .. Len(s) /\ s # <<>> BY <1>4, <3>1, EmptySeq
    <3>3. list.next[a] = s[q + 1] BY <3>2 DEF Holds, Linked, Chained
    <3>4. ASSUME NEW r \in 1 .. Len(s), s[r] \in Unread(v)
          PROVE  q + 1 <= r
      <4>1. q <= r /\ r # q BY <1>5, <3>4
      <4> QED BY <4>1
    <3>5. ~ v.lostLast => s[Len(s)] \notin Unread(v)
      BY <1>2, <1>5, <2>3 DEF OnItsWay
    <3>6. s[q + 1] = Saved(v) BY <1>2, <3>3 DEF Saved
    <3> QED BY <1>2, <2>1, <3>2, <3>4, <3>5, <3>6 DEF OnItsWay
  <2> QED BY <2>1, <2>2, <2>3
<1>7. Placed(v, s) BY <1>2, <1>6 DEF Placed
<1> QED BY <1>0, <1>2, <1>3, <1>7, TopPlaced

(* The callback returns: the walk stays where it is. *)
LEMMA ReturnWay ==
    ASSUME TypeOK, WayInv, Return
    PROVE  WayInv'
<1> PICK s \in Seq(Timers) : Holds(s) /\ \A k \in 1 .. Depth : Placed(stack[k], s)
  BY DEF WayInv
<1> DEFINE w == [Top EXCEPT !.at = "test"]
<1>0. stack # <<>> /\ Top.at = "call" /\ SetTop(w) /\ UNCHANGED <<list, live>> BY DEF Return
<1>1. Top \in Walks /\ Depth \in 1 .. Depth BY <1>0, StackType
<1>2. /\ w \in Walks /\ w.at = "test" /\ w.n = Top.n /\ w.spoilt = Top.spoilt
      /\ w.seen = Top.seen /\ w.stayed = Top.stayed /\ w.lostLast = Top.lostLast
  BY <1>1 DEF Walks
<1> HIDE DEF w
<1>3. Placed(Top, s) BY <1>1 DEF Top
<1>4. Placed(w, s)
  <2>1. Saved(w) = Saved(Top) /\ Unread(w) = Unread(Top) BY <1>0, <1>2 DEF Saved, Unread
  <2> QED BY <1>0, <1>2, <1>3, <2>1 DEF Placed, Begins, OnItsWay
<1> QED BY <1>0, <1>2, <1>4, TopPlaced

(* The walk goes on to the timer it had saved, or ends. *)
LEMMA LoopTestWay ==
    ASSUME TypeOK, WayInv, LoopTest
    PROVE  WayInv'
<1> PICK s \in Seq(Timers) : Holds(s) /\ \A k \in 1 .. Depth : Placed(stack[k], s)
  BY DEF WayInv
<1>0. stack # <<>> /\ Top.at = "test" /\ UNCHANGED <<list, live>> BY DEF LoopTest
<1>1. Top \in Walks /\ Depth \in 1 .. Depth /\ Depth \in Nat BY <1>0, StackType
<1>2. CASE Top.n = list.last
  <2>1. Depth' = Depth - 1 /\ \A k \in 1 .. Depth - 1 : stack'[k] = stack[k]
    BY <1>0, <1>2, PoppedTop DEF LoopTest
  <2>2. Holds(s)' BY <1>0 DEF Holds, Linked, Chained, Distinct
  <2>3. \A k \in 1 .. Depth' : Placed(stack'[k], s)
    <3>1. \A k \in 1 .. Depth' : k \in 1 .. Depth BY <1>1, <2>1
    <3> QED BY <2>1, <3>1
  <2>4. \A k \in 1 .. Depth' : Placed(stack[k], s)'
    BY <1>0, <2>3 DEF Placed, Begins, OnItsWay, Saved, Unread
  <2> QED BY <2>2, <2>4 DEF WayInv
<1>3. CASE Top.n # list.last
  <2> DEFINE w == [Top EXCEPT !.a = Top.n, !.at = "visit"]
  <2>1. /\ w \in Walks /\ w.at = "visit" /\ w.a = Top.n /\ w.spoilt = Top.spoilt
        /\ w.seen = Top.seen /\ w.stayed = Top.stayed /\ w.lostLast = Top.lostLast
    BY <1>1 DEF Walks
  <2>2. SetTop(w) BY <1>3 DEF LoopTest
  <2> HIDE DEF w
  <2>3. Placed(Top, s) BY <1>1 DEF Top
  <2>4. Placed(w, s)
    <3> SUFFICES ASSUME ~ w.spoilt PROVE Placed(w, s) BY DEF Placed
    <3>1. Top.stayed \subseteq live /\ OnItsWay(Top, s)
      BY <1>0, <2>1, <2>3 DEF Placed, Begins
    <3>2. Saved(w) = Saved(Top) /\ Unread(w) = Unread(Top) BY <1>0, <2>1 DEF Saved, Unread
    <3>3. s # <<>> BY <3>1, EmptySeq DEF OnItsWay
    <3>4. w.a # s[Len(s)] BY <1>3, <2>1, <3>3 DEF Holds, Linked
    <3> QED BY <2>1, <3>1, <3>2, <3>4 DEF Placed, OnItsWay
  <2> QED BY <1>0, <2>1, <2>2, <2>4, TopPlaced
<1> QED BY <1>2, <1>3

(* Nothing else changes the walks or the list. *)
LEMMA NextWay == IInv /\ WayInv /\ [Next]_vars => WayInv'
<1> SUFFICES ASSUME IInv, WayInv, [Next]_vars PROVE WayInv' OBVIOUS
<1>0. TypeOK /\ RingInv /\ OuterCalls BY DEF IInv, StackInv
<1>1. ASSUME UNCHANGED <<list, live, stack>>
      PROVE  WayInv'
  <2> PICK s \in Seq(Timers) : Holds(s) /\ \A k \in 1 .. Depth : Placed(stack[k], s)
    BY DEF WayInv
  <2>1. Holds(s)' BY <1>1 DEF Holds, Linked, Chained, Distinct
  <2>2. \A k \in 1 .. Depth' : Placed(stack[k], s)'
    BY <1>1 DEF Placed, Begins, OnItsWay, Saved, Unread, Depth
  <2> QED BY <2>1, <2>2 DEF WayInv
<1>2. CASE AClock BY <1>1, <1>2 DEF AClock
<1>3. ASSUME NEW t \in Timers, NEW p \in Periods, NewTimer(t, p) \/ TimerSetPeriod(t, p)
      PROVE  WayInv'
  BY <1>0, <1>1, <1>3, NewTimerWay DEF TimerSetPeriod
<1>4. ASSUME NEW t \in Timers, KillTimer(t)
      PROVE  WayInv'
  BY <1>0, <1>4, KillTimerWay
<1>5. ASSUME NEW p \in Periods, BeginWait(p)
      PROVE  WayInv'
  BY <1>1, <1>5 DEF BeginWait
<1>6. CASE NestedPoll BY <1>0, <1>6, PushWay DEF NestedPoll
<1>7. CASE TimersPoll
  <2>1. stack' = Append(stack, NewWalk) BY <1>7 DEF TimersPoll
  <2> QED BY <1>0, <1>7, <2>1, PushWay DEF TimersPoll
<1>8. CASE Visit BY <1>0, <1>8, VisitWay
<1>9. CASE VisitFreed \/ EndWait BY <1>1, <1>9 DEF VisitFreed, EndWait
<1>10. CASE Return BY <1>0, <1>10, ReturnWay
<1>11. CASE LoopTest BY <1>0, <1>11, LoopTestWay
<1>12. CASE UNCHANGED vars BY <1>1, <1>12 DEF vars
<1> QED
  BY <1>2, <1>3, <1>4, <1>5, <1>6, <1>7, <1>8, <1>9, <1>10, <1>11, <1>12
  DEF Next, Application, Kernel

(* Only the end of a walk makes the stack shorter; what the walk has not   *)
(* read is then at Last or behind it.                                      *)
LEMMA EndMissesNone ==
    IInv /\ WayInv /\ [Next]_vars =>
       [ Len(stack') < Len(stack) =>
            LET missed == Top.stayed \ Top.seen IN
            ~ Top.spoilt => missed \subseteq (IF Top.lostLast THEN {list.last} ELSE {}) ]_vars
<1> SUFFICES ASSUME IInv, WayInv, [Next]_vars, Len(stack') < Len(stack), ~ Top.spoilt
             PROVE  Top.stayed \ Top.seen \subseteq (IF Top.lostLast THEN {list.last} ELSE {})
  OBVIOUS
<1>0. TypeOK /\ stack \in Seq(Walks) /\ Depth \in Nat /\ Depth = Len(stack)
  BY StackType DEF IInv, TypeOK, Depth
<1>1. stack # <<>> /\ Top.at = "test" /\ Top.n = list.last
  <2>1. stack' # stack BY <1>0
  <2>2. ASSUME NEW w, stack # <<>>, SetTop(w)
        PROVE  FALSE
    <3>1. Depth' = Depth BY <1>0, <2>2, SameDepth
    <3> QED BY <1>0, <3>1 DEF Depth
  <2>3. ASSUME NEW t \in Timers, KillTimer(t)
        PROVE  FALSE
    <3>1. Depth' = Depth BY <1>0, <2>3, WalksAfterKill
    <3> QED BY <1>0, <3>1 DEF Depth
  <2>4. ASSUME list.last # NULL, stack' = Append(stack, NewWalk)
        PROVE  FALSE
    <3>1. NewWalk \in Walks BY <1>0, <2>4, NewWalkType DEF IInv
    <3>2. Len(stack') = Len(stack) + 1 BY <1>0, <2>4, <3>1, AppendProperties
    <3> QED BY <1>0, <3>2
  <2>5. ~ NestedPoll BY <2>4 DEF NestedPoll
  <2>6. ~ TimersPoll
    <3> SUFFICES ASSUME TimersPoll PROVE FALSE OBVIOUS
    <3>1. stack' = Append(stack, NewWalk) BY DEF TimersPoll
    <3> QED BY <3>1, <2>4 DEF TimersPoll
  <2>7. ~ Visit /\ ~ Return BY <2>2 DEF Visit, Return
  <2>8. ~ AClock /\ ~ EndWait /\ ~ VisitFreed /\ ~ UNCHANGED vars
    BY <2>1 DEF AClock, EndWait, VisitFreed, vars
  <2>9. \A t \in Timers, p \in Periods : ~ NewTimer(t, p) /\ ~ TimerSetPeriod(t, p) /\ ~ BeginWait(p)
    BY <2>1 DEF NewTimer, TimerSetPeriod, BeginWait
  <2>10. \A p \in Periods : ~ BeginWait(p)
    BY <2>1 DEF BeginWait
  <2>11. LoopTest
    BY <2>3, <2>5, <2>6, <2>7, <2>8, <2>9, <2>10 DEF Next, Application, Kernel
  <2> QED BY <2>2, <2>11 DEF LoopTest
<1> PICK s \in Seq(Timers) : Holds(s) /\ \A k \in 1 .. Depth : Placed(stack[k], s)
  BY DEF WayInv
<1>2. Top.stayed \subseteq live /\ OnItsWay(Top, s)
  <2>1. Placed(Top, s) BY <1>0, <1>1, StackType DEF Top
  <2> QED BY <1>1, <2>1 DEF Placed, Begins
<1> PICK q \in 1 .. Len(s) : s[q] = list.last /\ \A r \in 1 .. Len(s) : s[r] \in Unread(Top) => q <= r
  BY <1>1, <1>2 DEF OnItsWay, Saved
<1>3. Len(s) \in Nat /\ list.last = s[Len(s)] /\ Len(s) \in 1 .. Len(s)
  <2>1. Len(s) \in Nat /\ s # <<>> BY LenProperties, EmptySeq
  <2> QED BY <2>1 DEF Holds, Linked
<1>4. q = Len(s) BY <1>3 DEF Holds, Distinct
<1>5. ASSUME NEW t \in Unread(Top)
      PROVE  t = list.last
  <2>1. t \in live /\ t \in Timers BY <1>0, <1>2 DEF Unread, TypeOK
  <2> PICK r \in 1 .. Len(s) : s[r] = t BY <2>1 DEF Holds
  <2>2. r = Len(s) BY <1>3, <1>4
  <2> QED BY <1>3, <2>2
<1>6. ~ Top.lostLast => list.last \notin Unread(Top)
  BY <1>2, <1>3 DEF OnItsWay
<1> QED BY <1>5, <1>6 DEF Unread

(* A walk that was not spoilt reads every timer that stays, but for the    *)
(* one that becomes Last under it: for any number of timers, any kills and *)
(* creations inside callbacks and any depth of nested walks.               *)
THEOREM WalksMissNone == Spec => WalkMissesNone
<1>1. Init => IInv /\ WayInv BY InitIInv, InitWayInv
<1>2. IInv /\ WayInv /\ [Next]_vars => (IInv /\ WayInv)'
  BY NextIInv, NextWay
<1> QED BY <1>1, <1>2, EndMissesNone, PTL DEF Spec, WalkMissesNone
=============================================================================
