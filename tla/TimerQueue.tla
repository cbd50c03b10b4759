----------------------------- MODULE TimerQueue -----------------------------
(***************************************************************************)
(* The software timers of src/timer.c.  An interrupt counts ATime; every   *)
(* turn of the main loop walks the list of timers and calls those that are *)
(* due.  A callback is any code of an application: it may create and kill  *)
(* timers, its own included, and it may run the main loop's body again (a  *)
(* modal window, a tool tip, ThreadTimerWait), so that several walks of    *)
(* the one list are under way at a time, each holding the timer it will go *)
(* to next.                                                                *)
(***************************************************************************)
EXTENDS ListLinks, Naturals, Sequences, FiniteSets

CONSTANTS
    Timers,     \* timer blocks; a killed timer's block can be handed out again
    Periods,    \* the periods applications ask for
    MaxTime,    \* bound on ATime
    MaxDepth,   \* bound on the walks under way
    MaxOps      \* bound on what applications do to the timers

ASSUME TimerAssumption ==
    /\ NULL \notin Timers
    /\ Periods \subseteq Nat
    /\ MaxTime \in Nat /\ MaxDepth \in Nat \ {0} /\ MaxOps \in Nat

VARIABLES
    list,       \* Timers, the list
    live,       \* timer blocks that are allocated
    enable, lastCall, period,   \* fields of every block
    ATime,
    stack,      \* the walks under way, the innermost last
    wait,       \* ThreadTimerWait of the main program: where it began and for how long
    wild,       \* TRUE once a walk has read a freed block
    ops         \* what applications have done, counted

vars == <<list, live, enable, lastCall, period, ATime, stack, wait, wild, ops>>

fields == <<enable, lastCall, period>>

Idle == [on |-> FALSE, from |-> 0, for |-> 0]

(* A walk: its a and n, and what it is doing: reading a, calling a's Poll  *)
(* or testing for the end.  The rest is history: the timers it has read,   *)
(* those in the list all along, whether n was killed under it, whether the *)
(* timer at Last was, and when it called a, with what period.              *)
Walks == [a : Timers, n : Timers, at : {"visit", "call", "test"},
          seen : SUBSET Timers, stayed : SUBSET Timers,
          spoilt : BOOLEAN, lostLast : BOOLEAN, began : 0 .. MaxTime, per : Periods \cup {0}]

Depth == Len(stack)

Top == stack[Depth]

(* Applications run between two walks and inside a callback. *)
AppRuns == ~ wild /\ ops < MaxOps /\ (stack # <<>> => Top.at = "call")

Init ==
    /\ list = [last |-> NULL, next |-> [t \in Timers |-> NULL], prev |-> [t \in Timers |-> NULL]]
    /\ live = {}
    /\ enable = [t \in Timers |-> FALSE]
    /\ lastCall = [t \in Timers |-> 0]
    /\ period = [t \in Timers |-> 0]
    /\ ATime = 0
    /\ stack = <<>>
    /\ wait = Idle
    /\ wild = FALSE
    /\ ops = 0

-----------------------------------------------------------------------------
(* The interrupt. *)
AClock ==
    /\ ATime < MaxTime
    /\ ATime' = ATime + 1
    /\ UNCHANGED <<list, live, fields, stack, wait, wild, ops>>

(* Mutant: LastCall is when the timer is first to be called. *)
NewTimerAhead(t, p) ==
    /\ AppRuns
    /\ t \notin live
    /\ live' = live \cup {t}
    /\ list' = LinkEnd(list, t)
    /\ enable' = [enable EXCEPT ![t] = TRUE]
    /\ lastCall' = [lastCall EXCEPT ![t] = ATime + p]
    /\ period' = [period EXCEPT ![t] = p]
    /\ ops' = ops + 1
    /\ UNCHANGED <<ATime, stack, wait, wild>>

NewTimer(t, p) ==
    /\ AppRuns
    /\ t \notin live
    /\ live' = live \cup {t}
    /\ list' = LinkEnd(list, t)
    /\ enable' = [enable EXCEPT ![t] = TRUE]
    /\ lastCall' = [lastCall EXCEPT ![t] = ATime]
    /\ period' = [period EXCEPT ![t] = p]
    /\ ops' = ops + 1
    /\ UNCHANGED <<ATime, stack, wait, wild>>

(* Mutant: the block is freed and stays in the list. *)
KillTimerLinked(t) ==
    /\ AppRuns
    /\ t \in live
    /\ live' = live \ {t}
    /\ enable' = [enable EXCEPT ![t] = FALSE]
    /\ stack' = [k \in 1 .. Depth |->
                   [stack[k] EXCEPT !.stayed = @ \ {t},
                                    !.spoilt = @ \/ stack[k].n = t,
                                    !.lostLast = @ \/ list.last = t]]
    /\ ops' = ops + 1
    /\ UNCHANGED <<list, lastCall, period, ATime, wait, wild>>

(* Unlinked and freed, whoever still walks over it. *)
KillTimer(t) ==
    /\ AppRuns
    /\ t \in live
    /\ live' = live \ {t}
    /\ enable' = [enable EXCEPT ![t] = FALSE]
    /\ list' = Unlink(list, t)
    /\ stack' = [k \in 1 .. Depth |->
                   [stack[k] EXCEPT !.stayed = @ \ {t},
                                    !.spoilt = @ \/ stack[k].n = t,
                                    !.lostLast = @ \/ list.last = t]]
    /\ ops' = ops + 1
    /\ UNCHANGED <<lastCall, period, ATime, wait, wild>>

TimerSetPeriod(t, p) ==
    /\ AppRuns
    /\ t \in live /\ period[t] # p
    /\ period' = [period EXCEPT ![t] = p]
    /\ ops' = ops + 1
    /\ UNCHANGED <<list, live, enable, lastCall, ATime, stack, wait, wild>>

-----------------------------------------------------------------------------
WaitOver == wait.on /\ ATime - wait.from >= wait.for

NewWalk == [a |-> list.last, n |-> list.last, at |-> "visit", seen |-> {}, stayed |-> live,
            spoilt |-> FALSE, lostLast |-> FALSE, began |-> ATime, per |-> 0]

(* TimersPoll from the main loop, or from a callback that runs the main    *)
(* loop's body.  An empty list is left alone.                              *)
TimersPoll ==
    /\ ~ wild
    /\ stack = <<>> /\ ~ WaitOver
    /\ list.last # NULL
    /\ stack' = <<NewWalk>>
    /\ UNCHANGED <<list, live, fields, ATime, wait, wild, ops>>

NestedPoll ==
    /\ AppRuns
    /\ stack # <<>> /\ Depth < MaxDepth
    /\ list.last # NULL
    /\ stack' = Append(stack, NewWalk)
    /\ ops' = ops + 1
    /\ UNCHANGED <<list, live, fields, ATime, wait, wild>>

SetTop(w) == stack' = [stack EXCEPT ![Depth] = w]

Due(t) == enable[t] /\ ATime - lastCall[t] >= period[t]

(* Mutant: LastCall is set when the callback is back. *)
VisitLate ==
    LET a == Top.a
        w == [Top EXCEPT !.n = list.next[a], !.seen = @ \cup {a}]
    IN
    /\ ~ wild /\ stack # <<>> /\ Top.at = "visit"
    /\ a \in live
    /\ IF Due(a)
       THEN SetTop([w EXCEPT !.at = "call", !.began = ATime, !.per = period[a]])
       ELSE SetTop([w EXCEPT !.at = "test"])
    /\ UNCHANGED <<list, live, fields, ATime, wait, wild, ops>>

(* n is read before the callback; LastCall is set before it, too. *)
Visit ==
    LET a == Top.a
        w == [Top EXCEPT !.n = list.next[a], !.seen = @ \cup {a}]
    IN
    /\ ~ wild /\ stack # <<>> /\ Top.at = "visit"
    /\ a \in live
    /\ IF Due(a)
       THEN /\ lastCall' = [lastCall EXCEPT ![a] = ATime]
            /\ SetTop([w EXCEPT !.at = "call", !.began = ATime, !.per = period[a]])
       ELSE /\ SetTop([w EXCEPT !.at = "test"])
            /\ UNCHANGED lastCall
    /\ UNCHANGED <<list, live, enable, period, ATime, wait, wild, ops>>

(* The walk reads a block that was freed: what follows is undefined. *)
VisitFreed ==
    /\ ~ wild /\ stack # <<>> /\ Top.at = "visit"
    /\ Top.a \notin live
    /\ wild' = TRUE
    /\ UNCHANGED <<list, live, fields, ATime, stack, wait, ops>>

(* The callback returns. *)
Return ==
    /\ ~ wild /\ stack # <<>> /\ Top.at = "call"
    /\ SetTop([Top EXCEPT !.at = "test"])
    /\ UNCHANGED <<list, live, fields, ATime, wait, wild, ops>>

(* Mutant: the walk ends one timer short. *)
LoopTestEarly ==
    /\ ~ wild /\ stack # <<>> /\ Top.at = "test"
    /\ IF list.next[Top.n] = list.last \/ Top.n = list.last
       THEN stack' = SubSeq(stack, 1, Depth - 1)
       ELSE SetTop([Top EXCEPT !.a = Top.n, !.at = "visit"])
    /\ UNCHANGED <<list, live, fields, ATime, wait, wild, ops>>

(* Mutant: the walk ends where it stands alone. *)
LoopTestSelf ==
    /\ ~ wild /\ stack # <<>> /\ Top.at = "test"
    /\ IF Top.n = Top.a
       THEN stack' = SubSeq(stack, 1, Depth - 1)
       ELSE SetTop([Top EXCEPT !.a = Top.n, !.at = "visit"])
    /\ UNCHANGED <<list, live, fields, ATime, wait, wild, ops>>

(* a = n, and the walk ends where Last is now. *)
LoopTest ==
    /\ ~ wild /\ stack # <<>> /\ Top.at = "test"
    /\ IF Top.n = list.last
       THEN stack' = SubSeq(stack, 1, Depth - 1)
       ELSE SetTop([Top EXCEPT !.a = Top.n, !.at = "visit"])
    /\ UNCHANGED <<list, live, fields, ATime, wait, wild, ops>>

(* ThreadTimerWait called by the program the main loop runs. *)
BeginWait(p) ==
    /\ AppRuns
    /\ stack = <<>> /\ ~ wait.on
    /\ ATime + p <= MaxTime
    /\ wait' = [on |-> TRUE, from |-> ATime, for |-> p]
    /\ ops' = ops + 1
    /\ UNCHANGED <<list, live, fields, ATime, stack, wild>>

EndWait ==
    /\ ~ wild /\ stack = <<>> /\ WaitOver
    /\ wait' = Idle
    /\ UNCHANGED <<list, live, fields, ATime, stack, wild, ops>>

-----------------------------------------------------------------------------
Application ==
    \/ \E t \in Timers, p \in Periods : NewTimer(t, p) \/ TimerSetPeriod(t, p)
    \/ \E t \in Timers : KillTimer(t)
    \/ \E p \in Periods : BeginWait(p)
    \/ NestedPoll

Kernel == TimersPoll \/ Visit \/ VisitFreed \/ Return \/ LoopTest \/ EndWait

Next == AClock \/ Application \/ Kernel

Spec == Init /\ [][Next]_vars

(* The interrupt keeps coming; the program runs and its callbacks return.  *)
FairSpec == Spec /\ WF_vars(AClock) /\ WF_vars(Kernel)

-----------------------------------------------------------------------------
(* Type invariant.  LastCall is never in the future, or the unsigned       *)
(* difference ATime-LastCall would be huge and the timer always due.       *)
TypeOK ==
    /\ list \in Memories(Timers)
    /\ live \subseteq Timers
    /\ enable \in [Timers -> BOOLEAN]
    /\ lastCall \in [Timers -> 0 .. ATime]
    /\ period \in [Timers -> Periods \cup {0}]
    /\ ATime \in 0 .. MaxTime
    /\ stack \in Seq(Walks) /\ Depth <= MaxDepth
    /\ wait \in [on : BOOLEAN, from : 0 .. ATime, for : Periods \cup {0}]
    /\ wild \in BOOLEAN
    /\ ops \in 0 .. MaxOps

(* A walk reads freed memory in one way only: an application killed, while *)
(* the walk was in a callback, the very timer it had saved to go to next   *)
(* (its own, when it is the only one).  Every other kill or creation, at   *)
(* any depth, is survived.                                                 *)
OnlySavedNextIsFatal ==
    \A k \in 1 .. Depth :
       /\ wild /\ k = Depth => stack[k].spoilt
       /\ ~ stack[k].spoilt =>
             (IF stack[k].at = "visit" THEN stack[k].a ELSE stack[k].n) \in live

(* A timer's callback is entered a second time, through a nested walk,     *)
(* only after its full period, counted from the first call: what keeps a   *)
(* slow callback from recursing without end.                               *)
ReentryAfterPeriod ==
    \A j, k \in 1 .. Depth :
       (j < k /\ stack[k].at = "call" /\ stack[j].a = stack[k].a)
          => stack[k].began - stack[j].began >= stack[k].per

(* A walk that was not spoilt reads every timer that was in the list all   *)
(* the while, although others were added and removed around it, except the *)
(* one that becomes Last when the timer at Last is killed.                 *)
WalkMissesNone ==
    [][ Len(stack') < Len(stack) =>
          LET missed == Top.stayed \ Top.seen IN
          ~ Top.spoilt => missed \subseteq (IF Top.lostLast THEN {list.last} ELSE {}) ]_vars

(* A timer that is due is called, or killed: neither nested walks nor the  *)
(* ends that are skipped starve it.                                        *)
DueIsCalled ==
    \A t \in Timers :
       (t \in live /\ period[t] > 0 /\ Due(t)) ~> (t \notin live \/ ~ Due(t) \/ wild)

(* ThreadTimerWait returns. *)
WaitReturns == wait.on ~> (~ wait.on \/ wild)
=============================================================================
