-------------------------- MODULE EventLoopProofs ---------------------------
(***************************************************************************)
(* The windows that wait on the C stack, for any number of windows and any *)
(* depth of turns inside turns: WFExecuting, the message buffers and the   *)
(* frames of WidgetExecute agree, whatever the rest of the loop does.  And *)
(* what becomes of keys and clicks on their way through these turns.       *)
(***************************************************************************)
EXTENDS EventLoop, SequencesExt, SequenceTheorems, FiniteSetTheorems, TLAPS

(* WaitingOnce and NoOldAnswer are inductive together: a window that is    *)
(* executed has no answer because it does not wait, and it does not wait   *)
(* twice because it has the flag while it does.                            *)
WaitInv ==
    /\ stack \in Seq(Frames)
    /\ executing \subseteq Windows
    /\ msg \in [Windows -> Messages \cup {0}]
    /\ WaitingOnce
    /\ NoOldAnswer

-----------------------------------------------------------------------------
(* What kind of frame a frame is. *)
LEMMA FrameKinds ==
    ASSUME NEW f \in Frames
    PROVE  /\ f.k \in {"turn", "exec", "main"} /\ f.nested \in BOOLEAN
           /\ f.k = "exec" => f.w \in Windows /\ f.at = "wait"
           /\ f.k = "turn" => f.at \in Stages /\ f.w = NoWindow
           /\ f.k = "main" => f.at = "app"
BY DEF Frames

(* A turn that goes on, or that another one interrupts, is a turn still. *)
LEMMA TurnsStayFrames ==
    ASSUME NEW f \in Frames, f.k = "turn", NEW s \in Stages
    PROVE  /\ [f EXCEPT !.at = s] \in Frames /\ [f EXCEPT !.at = s].k = "turn"
           /\ [f EXCEPT !.nested = TRUE] \in Frames /\ [f EXCEPT !.nested = TRUE].k = "turn"
<1>1. f \in [k : {"turn"}, at : Stages, w : {NoWindow}, nested : BOOLEAN]
  BY DEF Frames
<1>2. /\ [f EXCEPT !.at = s] \in [k : {"turn"}, at : Stages, w : {NoWindow}, nested : BOOLEAN]
      /\ [f EXCEPT !.nested = TRUE] \in [k : {"turn"}, at : Stages, w : {NoWindow}, nested : BOOLEAN]
      /\ [f EXCEPT !.at = s].k = "turn" /\ [f EXCEPT !.nested = TRUE].k = "turn"
  BY <1>1
<1> QED BY <1>2 DEF Frames

(* The frames that are pushed. *)
LEMMA NewFrames ==
    /\ NewTurn \in Frames /\ NewTurn.k = "turn" /\ NewMain \in Frames /\ NewMain.k = "main"
    /\ \A w \in Windows : NewExec(w) \in Frames /\ NewExec(w).k = "exec" /\ NewExec(w).w = w
BY DEF NewTurn, NewMain, NewExec, Frames, Stages

(* The stack as a function, and its top. *)
LEMMA StackType ==
    ASSUME stack \in Seq(Frames)
    PROVE  /\ Depth \in Nat /\ stack \in [1 .. Depth -> Frames]
           /\ stack # <<>> => Depth \in 1 .. Depth /\ Top \in Frames
<1>1. Depth \in Nat /\ stack \in [1 .. Depth -> Frames]
  BY LenProperties DEF Depth
<1>2. stack # <<>> => Depth # 0
  BY EmptySeq DEF Depth
<1>3. stack # <<>> => Depth \in 1 .. Depth
  BY <1>1, <1>2
<1> QED BY <1>1, <1>3 DEF Top

(* A function on 1 .. n is a sequence of length n. *)
LEMMA SequenceOf ==
    ASSUME NEW S, NEW n \in Nat, NEW f \in [1 .. n -> S]
    PROVE  f \in Seq(S) /\ Len(f) = n
<1>1. f \in Seq(S) BY SeqDef
<1>2. DOMAIN f = 1 .. n /\ DOMAIN f = 1 .. Len(f) /\ Len(f) \in Nat
  BY <1>1, LenProperties
<1> QED BY <1>1, <1>2

(* A frame on top. *)
LEMMA Pushed ==
    ASSUME stack \in Seq(Frames), NEW f \in Frames, Push(f)
    PROVE  /\ stack' \in Seq(Frames) /\ Depth' = Depth + 1 /\ stack'[Depth + 1] = f
           /\ \A i \in 1 .. Depth : stack'[i] = stack[i]
BY AppendProperties DEF Push, Depth

(* The top frame gone. *)
LEMMA Popped ==
    ASSUME stack \in Seq(Frames), stack # <<>>, Pop
    PROVE  /\ stack' \in Seq(Frames) /\ Depth' = Depth - 1
           /\ \A i \in 1 .. Depth - 1 : stack'[i] = stack[i]
<1>1. Depth \in Nat /\ stack \in [1 .. Depth -> Frames] /\ Depth \in 1 .. Depth
  BY StackType
<1>2. \A i \in 1 .. Depth - 1 : stack[i] \in Frames BY <1>1
<1>3. /\ SubSeq(stack, 1, Depth - 1) \in Seq(Frames)
      /\ Len(SubSeq(stack, 1, Depth - 1)) = IF 1 <= Depth - 1 THEN Depth - 1 - 1 + 1 ELSE 0
      /\ \A i \in 1 .. Depth - 1 - 1 + 1 : SubSeq(stack, 1, Depth - 1)[i] = stack[1 + i - 1]
  BY <1>1, <1>2, SubSeqProperties
<1> QED BY <1>1, <1>3 DEF Pop, Below, Depth

-----------------------------------------------------------------------------
(* No frame of WidgetExecute comes or goes. *)
ExecsStay ==
    /\ Depth' \in Nat
    /\ \A i \in 1 .. Depth' : stack'[i].k = "exec" => i \in 1 .. Depth /\ stack'[i] = stack[i]
    /\ \A i \in 1 .. Depth : stack[i].k = "exec" => i \in 1 .. Depth' /\ stack'[i] = stack[i]

(* Then nothing changes for those that wait. *)
LEMMA ExecsStayWaitInv ==
    ASSUME WaitInv, ExecsStay, stack' \in Seq(Frames), UNCHANGED <<executing, msg>>,
           ~ broken' => ~ broken
    PROVE  WaitInv'
<1>1. Waiting' = Waiting
  <2>1. ASSUME NEW i \in 1 .. Depth, stack[i].k = "exec" PROVE stack[i].w \in Waiting'
    BY <2>1 DEF ExecsStay, Waiting
  <2>2. ASSUME NEW i \in 1 .. Depth', stack'[i].k = "exec" PROVE stack'[i].w \in Waiting
    BY <2>2 DEF ExecsStay, Waiting
  <2> QED BY <2>1, <2>2 DEF Waiting
<1>2. WaitingOnce'
  <2>1. ASSUME NEW i \in 1 .. Depth', NEW j \in 1 .. Depth',
               stack'[i].k = "exec", stack'[j].k = "exec", stack'[i].w = stack'[j].w
        PROVE  i = j
    BY <2>1 DEF ExecsStay, WaitInv, WaitingOnce
  <2>2. Waiting \subseteq executing /\ (~ broken => executing = Waiting)
    BY DEF WaitInv, WaitingOnce
  <2> QED BY <1>1, <2>1, <2>2 DEF WaitingOnce
<1> QED BY <1>2 DEF WaitInv, NoOldAnswer

(* A turn goes on to its next stage. *)
LEMMA GoToStack ==
    ASSUME stack \in Seq(Frames), stack # <<>>, Top.k = "turn", NEW s \in Stages, GoTo(s)
    PROVE  /\ stack' \in Seq(Frames) /\ Depth' = Depth /\ Depth \in 1 .. Depth
           /\ stack'[Depth] = [Top EXCEPT !.at = s] /\ stack'[Depth] \in Frames
           /\ stack'[Depth].k = "turn"
           /\ stack'[Depth].at = s /\ stack'[Depth].nested = Top.nested
           /\ \A i \in 1 .. Depth : i # Depth => stack'[i] = stack[i]
<1>1. Depth \in Nat /\ stack \in [1 .. Depth -> Frames] /\ Depth \in 1 .. Depth /\ Top \in Frames
  BY StackType
<1> DEFINE f == [Top EXCEPT !.at = s]
<1>2. f \in Frames /\ f.k = "turn" BY <1>1, TurnsStayFrames
<1>3. f.at = s /\ f.nested = Top.nested BY <1>1 DEF Frames
<1>4. stack' = [stack EXCEPT ![Depth] = f] BY <1>1 DEF GoTo, Top
<1> HIDE DEF f
<1>5. stack' \in [1 .. Depth -> Frames] BY <1>1, <1>2, <1>4
<1>6. stack' \in Seq(Frames) /\ Depth' = Depth BY <1>1, <1>5, SequenceOf DEF Depth
<1>7. \A i \in 1 .. Depth : stack'[i] = IF i = Depth THEN f ELSE stack[i] BY <1>1, <1>4
<1>8. stack'[Depth] = f BY <1>1, <1>7
<1>9. stack'[Depth] = [Top EXCEPT !.at = s] BY <1>8 DEF f
<1> QED BY <1>1, <1>2, <1>3, <1>6, <1>7, <1>8, <1>9

LEMMA GoToStays ==
    ASSUME stack \in Seq(Frames), stack # <<>>, Top.k = "turn", NEW s \in Stages, GoTo(s)
    PROVE  stack' \in Seq(Frames) /\ ExecsStay
<1>1. Depth \in Nat BY StackType
<1> QED BY <1>1, GoToStack DEF ExecsStay, Top

(* A frame that another turn begins inside of. *)
Marked(f) == IF f.k = "turn" THEN [f EXCEPT !.nested = TRUE] ELSE f

LEMMA MarkedFrame ==
    ASSUME NEW f \in Frames
    PROVE  /\ Marked(f) \in Frames /\ Marked(f).k = f.k /\ Marked(f).at = f.at
           /\ f.k = "turn" => Marked(f).nested
           /\ f.k # "turn" => Marked(f) = f
<1>1. CASE f.k = "turn"
  <2>1. "events" \in Stages BY DEF Stages
  <2>2. Marked(f) = [f EXCEPT !.nested = TRUE] BY <1>1 DEF Marked
  <2>3. Marked(f) \in Frames /\ Marked(f).k = "turn" BY <1>1, <2>1, <2>2, TurnsStayFrames
  <2>4. Marked(f).at = f.at /\ Marked(f).nested BY <2>2 DEF Frames
  <2> QED BY <1>1, <2>3, <2>4
<1>2. CASE f.k # "turn" BY <1>2 DEF Marked
<1> QED BY <1>1, <1>2

(* A turn polls its event: the turns below it are marked, and the program  *)
(* that Alt-F may start is put on top.                                     *)
LEMMA PollStack ==
    ASSUME stack \in Seq(Frames), NEW moved \in BOOLEAN, Poll(moved)
    PROVE  LET s == Dispatch(Generated(moved)) IN
           /\ stack' \in Seq(Frames) /\ Depth \in 1 .. Depth /\ s \in Stages
           /\ \A i \in 1 .. Depth - 1 : stack'[i] = Marked(stack[i])
           /\ stack'[Depth].k = "turn" /\ stack'[Depth].at = s /\ ~ stack'[Depth].nested
           /\ \/ Depth' = Depth /\ starting' = starting + 0
              \/ /\ Depth' = Depth + 1 /\ stack'[Depth + 1] = NewMain
                 /\ s = "launch" /\ Depth < MaxDepth /\ starting' = starting + 1
<1> DEFINE under == [i \in 1 .. Depth - 1 |-> Marked(stack[i])]
           s == Dispatch(Generated(moved))
           turn == [NewTurn EXCEPT !.at = s]
<1>1. stack # <<>> /\ Top.k = "turn" BY DEF Poll, TopIs
<1>2. Depth \in Nat /\ stack \in [1 .. Depth -> Frames] /\ Depth \in 1 .. Depth
  BY <1>1, StackType
<1>3. s \in Stages BY DEF Dispatch, Stages
<1>4. turn \in Frames /\ turn.k = "turn" /\ turn.at = s /\ turn.nested = FALSE
  <2> HIDE DEF s
  <2>1. turn.at = s /\ turn.nested = FALSE BY DEF NewTurn
  <2> QED BY <1>3, <2>1, NewFrames, TurnsStayFrames
<1>5. PICK launched \in (IF s = "launch" /\ Depth < MaxDepth THEN BOOLEAN ELSE {FALSE}) :
         /\ stack' = under \o <<turn>> \o (IF launched THEN <<NewMain>> ELSE <<>>)
         /\ starting' = starting + (IF launched THEN 1 ELSE 0)
  BY DEF Poll, Marked
<1>6. /\ launched \in BOOLEAN /\ (launched => s = "launch" /\ Depth < MaxDepth)
      /\ launched => starting' = starting + 1
  BY <1>5
<1>7. ~ launched => starting' = starting + 0 BY <1>5
<1> HIDE DEF turn, s
<1>8. under \in Seq(Frames) /\ Len(under) = Depth - 1
      /\ \A i \in 1 .. Depth - 1 : under[i] = Marked(stack[i])
  <2>1. \A i \in 1 .. Depth - 1 : stack[i] \in Frames BY <1>2
  <2>2. Depth - 1 \in Nat /\ under \in [1 .. Depth - 1 -> Frames] BY <1>2, <2>1, MarkedFrame
  <2> HIDE DEF under
  <2>3. under \in Seq(Frames) /\ Len(under) = Depth - 1 BY <2>2, SequenceOf
  <2> QED BY <2>3 DEF under
<1> HIDE DEF under
<1> DEFINE z == Append(under, turn)
<1>9. /\ z \in Seq(Frames) /\ Len(z) = Depth /\ z[Depth] = turn
      /\ \A i \in 1 .. Depth - 1 : z[i] = Marked(stack[i])
  BY <1>2, <1>4, <1>8, AppendProperties
<1>10. under \o <<turn>> = z BY <1>4, <1>8, AppendIsConcat
<1> HIDE DEF z
<1>11. CASE launched
  <2>1. stack' = Append(z, NewMain) BY <1>5, <1>9, <1>10, <1>11, NewFrames, AppendIsConcat
  <2>2. /\ stack' \in Seq(Frames) /\ Depth' = Depth + 1 /\ stack'[Depth + 1] = NewMain
        /\ \A i \in 1 .. Depth : stack'[i] = z[i]
    BY <2>1, <1>9, NewFrames, AppendProperties DEF Depth
  <2>3. stack'[Depth] = turn /\ \A i \in 1 .. Depth - 1 : stack'[i] = Marked(stack[i])
    BY <2>2, <1>2, <1>9
  <2> QED BY <2>2, <2>3, <1>2, <1>3, <1>4, <1>6, <1>11 DEF s
<1>12. CASE ~ launched
  <2>1. stack' = z BY <1>5, <1>9, <1>10, <1>12, ConcatEmptySeq
  <2>2. stack' \in Seq(Frames) /\ Depth' = Depth BY <2>1, <1>9 DEF Depth
  <2>3. starting' = starting + 0 BY <1>7, <1>12
  <2> QED BY <2>1, <2>2, <2>3, <1>2, <1>3, <1>4, <1>9 DEF s
<1> QED BY <1>6, <1>11, <1>12

LEMMA PollStays ==
    ASSUME stack \in Seq(Frames), NEW moved \in BOOLEAN, Poll(moved)
    PROVE  stack' \in Seq(Frames) /\ ExecsStay
<1>1. stack # <<>> /\ Top.k = "turn" BY DEF Poll, TopIs
<1>2. Depth \in Nat /\ stack \in [1 .. Depth -> Frames] BY <1>1, StackType
<1>3. /\ stack' \in Seq(Frames) /\ Depth \in 1 .. Depth
      /\ \A i \in 1 .. Depth - 1 : stack'[i] = Marked(stack[i])
      /\ stack'[Depth].k = "turn"
      /\ Depth' = Depth \/ (Depth' = Depth + 1 /\ stack'[Depth + 1] = NewMain)
  BY PollStack
<1>4. \A i \in 1 .. Depth - 1 :
         (stack[i].k = "exec" \/ stack'[i].k = "exec") => stack'[i] = stack[i]
  BY <1>2, <1>3, MarkedFrame
<1>5. \A i \in 1 .. Depth' : i = Depth + 1 \/ i = Depth \/ (i \in 1 .. Depth - 1 /\ i \in 1 .. Depth)
  BY <1>2, <1>3
<1>6. \A i \in 1 .. Depth : i \in 1 .. Depth' /\ (i = Depth \/ i \in 1 .. Depth - 1) BY <1>2, <1>3
<1>7. ASSUME NEW i \in 1 .. Depth', stack'[i].k = "exec"
      PROVE  i \in 1 .. Depth /\ stack'[i] = stack[i]
  <2>1. i # Depth BY <1>3, <1>7
  <2>2. i # Depth + 1
    <3>1. NewMain.k # "exec" BY NewFrames
    <3>2. CASE Depth' = Depth BY <3>2, <1>2
    <3>3. CASE stack'[Depth + 1] = NewMain BY <3>1, <3>3, <1>7
    <3> QED BY <3>2, <3>3, <1>3
  <2>3. i \in 1 .. Depth - 1 /\ i \in 1 .. Depth BY <2>1, <2>2, <1>5
  <2> QED BY <2>3, <1>4, <1>7
<1>8. ASSUME NEW i \in 1 .. Depth, stack[i].k = "exec"
      PROVE  i \in 1 .. Depth' /\ stack'[i] = stack[i]
  <2>1. i # Depth BY <1>1, <1>8 DEF Top
  <2>2. i \in 1 .. Depth' /\ i \in 1 .. Depth - 1 BY <2>1, <1>6
  <2> QED BY <2>2, <1>4, <1>8
<1>9. Depth' \in Nat BY <1>2, <1>3
<1>10. ExecsStay BY <1>7, <1>8, <1>9 DEF ExecsStay
<1> QED BY <1>3, <1>10

-----------------------------------------------------------------------------
(* Nobody waits. *)
LEMMA InitWaitInv == Init => WaitInv
<1> SUFFICES ASSUME Init PROVE WaitInv OBVIOUS
<1>1. stack = <<>> /\ Depth = 0 /\ stack \in Seq(Frames) BY EmptySeq DEF Init, Depth
<1>2. Waiting = {} BY <1>1 DEF Waiting
<1>3. executing = {} /\ msg = [w \in Windows |-> 0] BY DEF Init
<1> QED BY <1>1, <1>2, <1>3 DEF WaitInv, WaitingOnce, NoOldAnswer

(* A window begins to wait. *)
LEMMA ExecuteWaits ==
    ASSUME WaitInv, NEW w \in Windows, Execute(w)
    PROVE  WaitInv'
<1>1. stack \in Seq(Frames) /\ Depth \in Nat BY StackType DEF WaitInv
<1>2. /\ stack' \in Seq(Frames) /\ Depth' = Depth + 1 /\ stack'[Depth + 1] = NewExec(w)
      /\ \A i \in 1 .. Depth : stack'[i] = stack[i]
  BY <1>1, NewFrames, Pushed DEF Execute
<1>3. w \notin executing /\ executing' = executing \cup {w} /\ UNCHANGED <<msg, broken>>
  BY DEF Execute, history
<1>4. NewExec(w).k = "exec" /\ NewExec(w).w = w BY NewFrames
<1>5. \A i \in 1 .. Depth' : i = Depth + 1 \/ i \in 1 .. Depth BY <1>1, <1>2
<1>6. Depth + 1 \in 1 .. Depth' /\ \A i \in 1 .. Depth : i \in 1 .. Depth' BY <1>1, <1>2
<1>7. Waiting' = Waiting \cup {w}
  <2>1. \A i \in 1 .. Depth : stack[i].k = "exec" => stack[i].w \in Waiting'
    BY <1>2, <1>6 DEF Waiting
  <2>2. w \in Waiting' BY <1>2, <1>4, <1>6 DEF Waiting
  <2>3. \A i \in 1 .. Depth' : stack'[i].k = "exec" => stack'[i].w \in Waiting \cup {w}
    BY <1>2, <1>4, <1>5 DEF Waiting
  <2> QED BY <2>1, <2>2, <2>3 DEF Waiting
<1>8. \A i \in 1 .. Depth : stack[i].k = "exec" => stack[i].w # w
  BY <1>3 DEF WaitInv, WaitingOnce, Waiting
<1>9. WaitingOnce'
  <2>1. ASSUME NEW i \in 1 .. Depth', NEW j \in 1 .. Depth',
               stack'[i].k = "exec", stack'[j].k = "exec", stack'[i].w = stack'[j].w
        PROVE  i = j
    BY <2>1, <1>2, <1>4, <1>5, <1>8 DEF WaitInv, WaitingOnce
  <2>2. Waiting \subseteq executing /\ (~ broken => executing = Waiting)
    BY DEF WaitInv, WaitingOnce
  <2> QED BY <2>1, <2>2, <1>3, <1>7 DEF WaitingOnce
<1>10. NoOldAnswer' BY <1>3 DEF WaitInv, NoOldAnswer
<1> QED BY <1>2, <1>3, <1>9, <1>10 DEF WaitInv

(* It has its answer and waits no more. *)
LEMMA ReturnEndsWait ==
    ASSUME WaitInv, ModalReturn
    PROVE  WaitInv'
<1> DEFINE w == Top.w
<1>1. /\ stack \in Seq(Frames) /\ stack # <<>> /\ Top.k = "exec" /\ Pop
      /\ executing' = executing \ {w} /\ msg' = [msg EXCEPT ![w] = 0] /\ UNCHANGED broken
  BY DEF WaitInv, ModalReturn, TopIs, history
<1>2. Depth \in Nat /\ Depth \in 1 .. Depth /\ Top = stack[Depth] /\ w \in Windows
  BY <1>1, StackType, FrameKinds DEF Top
<1>3. /\ stack' \in Seq(Frames) /\ Depth' = Depth - 1
      /\ \A i \in 1 .. Depth - 1 : stack'[i] = stack[i]
  BY <1>1, Popped
<1> HIDE DEF w
<1>4. \A i \in 1 .. Depth' : i \in 1 .. Depth - 1 /\ i \in 1 .. Depth /\ i # Depth
  BY <1>2, <1>3
<1>5. \A i \in 1 .. Depth : i = Depth \/ i \in 1 .. Depth' BY <1>2, <1>3
<1>6. \A i \in 1 .. Depth' : stack[i].k = "exec" => stack[i].w # w
  BY <1>1, <1>2, <1>4 DEF WaitInv, WaitingOnce, w
<1>7. Waiting' = Waiting \ {w}
  <2>1. ASSUME NEW i \in 1 .. Depth', stack'[i].k = "exec" PROVE stack'[i].w \in Waiting \ {w}
    BY <2>1, <1>3, <1>4, <1>6 DEF Waiting
  <2>2. ASSUME NEW i \in 1 .. Depth, stack[i].k = "exec", stack[i].w # w PROVE stack[i].w \in Waiting'
    <3>1. i # Depth BY <2>2, <1>2 DEF w
    <3>2. i \in 1 .. Depth' /\ stack'[i] = stack[i] BY <3>1, <1>3, <1>5
    <3> QED BY <2>2, <3>2 DEF Waiting
  <2> QED BY <2>1, <2>2 DEF Waiting
<1>8. WaitingOnce'
  <2>1. ASSUME NEW i \in 1 .. Depth', NEW j \in 1 .. Depth',
               stack'[i].k = "exec", stack'[j].k = "exec", stack'[i].w = stack'[j].w
        PROVE  i = j
    BY <2>1, <1>3, <1>4 DEF WaitInv, WaitingOnce
  <2>2. Waiting \subseteq executing /\ (~ broken => executing = Waiting)
    BY DEF WaitInv, WaitingOnce
  <2> QED BY <2>1, <2>2, <1>1, <1>7 DEF WaitingOnce
<1>9. NoOldAnswer' BY <1>1, <1>2 DEF WaitInv, NoOldAnswer
<1>10. executing' \subseteq Windows /\ msg' \in [Windows -> Messages \cup {0}]
  BY <1>1, <1>2 DEF WaitInv
<1> QED BY <1>3, <1>8, <1>9, <1>10 DEF WaitInv

(* BreakApp unwinds whoever waits; the flags stay. *)
LEMMA UnwindWaitInv ==
    ASSUME WaitInv, Unwind, UNCHANGED <<executing, msg>>
    PROVE  WaitInv'
<1>1. stack' = <<>> /\ Depth' = 0 /\ stack' \in Seq(Frames) BY EmptySeq DEF Unwind, Depth
<1>2. Waiting' = {} BY <1>1 DEF Waiting
<1>3. broken' = TRUE BY DEF Unwind
<1> QED BY <1>1, <1>2, <1>3 DEF WaitInv, WaitingOnce, NoOldAnswer

(* One step per action; most leave the waiting windows alone. *)
LEMMA NextWaitInv == WaitInv /\ [Next]_vars => WaitInv'
<1> SUFFICES ASSUME WaitInv, [Next]_vars PROVE WaitInv' OBVIOUS
<1>0. stack \in Seq(Frames) /\ Depth \in Nat /\ stack \in [1 .. Depth -> Frames]
  BY StackType DEF WaitInv
<1>1. ASSUME UNCHANGED <<stack, executing, msg, broken>>
      PROVE  WaitInv'
  BY <1>1 DEF WaitInv, WaitingOnce, NoOldAnswer, Waiting, Depth
<1>2. ASSUME NEW f \in {NewTurn, NewMain}, Push(f), UNCHANGED <<executing, msg, broken>>
      PROVE  WaitInv'
  <2>1. f \in Frames /\ f.k # "exec" BY NewFrames
  <2>2. /\ stack' \in Seq(Frames) /\ Depth' = Depth + 1 /\ stack'[Depth + 1] = f
        /\ \A i \in 1 .. Depth : stack'[i] = stack[i]
    BY <1>0, <1>2, <2>1, Pushed
  <2>3. ExecsStay
    <3>1. Depth' \in Nat /\ \A i \in 1 .. Depth' : i = Depth + 1 \/ i \in 1 .. Depth BY <1>0, <2>2
    <3>2. \A i \in 1 .. Depth : i \in 1 .. Depth' BY <1>0, <2>2
    <3> QED BY <2>1, <2>2, <3>1, <3>2 DEF ExecsStay
  <2> QED BY <1>2, <2>2, <2>3, ExecsStayWaitInv
<1>3. ASSUME stack # <<>>, Top.k # "exec", Pop, UNCHANGED <<executing, msg, broken>>
      PROVE  WaitInv'
  <2>1. /\ stack' \in Seq(Frames) /\ Depth' = Depth - 1
        /\ \A i \in 1 .. Depth - 1 : stack'[i] = stack[i]
    BY <1>0, <1>3, Popped
  <2>2. Depth \in 1 .. Depth /\ stack[Depth].k # "exec" BY <1>0, <1>3, StackType DEF Top
  <2>3. ExecsStay
    <3>1. Depth' \in Nat /\ \A i \in 1 .. Depth' : i \in 1 .. Depth - 1 /\ i \in 1 .. Depth BY <1>0, <2>1, <2>2
    <3>2. \A i \in 1 .. Depth : i = Depth \/ i \in 1 .. Depth' BY <1>0, <2>1
    <3> QED BY <2>1, <2>2, <3>1, <3>2 DEF ExecsStay
  <2> QED BY <1>3, <2>1, <2>3, ExecsStayWaitInv
<1>4. ASSUME NEW s \in Stages, stack # <<>>, Top.k = "turn", GoTo(s), UNCHANGED <<executing, msg, broken>>
      PROVE  WaitInv'
  BY <1>0, <1>4, GoToStays, ExecsStayWaitInv
<1>5. CASE User BY <1>1, <1>5 DEF User, Click, Type, program, history
<1>6. ASSUME NEW w \in Windows, Execute(w)
      PROVE  WaitInv'
  BY <1>6, ExecuteWaits
<1>7. ASSUME NEW w \in Windows, NEW m \in Messages, Send(w, m)
      PROVE  WaitInv'
  <2>1. w \in executing /\ msg' = [msg EXCEPT ![w] = m] /\ UNCHANGED <<stack, executing, broken>>
    BY <1>7 DEF Send, history
  <2>2. WaitingOnce' BY <2>1 DEF WaitInv, WaitingOnce, Waiting, Depth
  <2>3. NoOldAnswer' BY <2>1 DEF WaitInv, NoOldAnswer
  <2> QED BY <2>1, <2>2, <2>3 DEF WaitInv
<1>8. CASE StartApp BY <1>2, <1>8 DEF StartApp, history
<1>9. CASE BreakApp BY <1>9, UnwindWaitInv DEF BreakApp
<1>10. ASSUME NEW moved \in BOOLEAN, Poll(moved)
       PROVE  WaitInv'
  <2>1. UNCHANGED <<executing, msg, broken>> BY <1>10 DEF Poll
  <2> QED BY <1>0, <1>10, <2>1, PollStays, ExecsStayWaitInv
<1>11. CASE TimersDone
  <2>1. "tasks" \in Stages BY DEF Stages
  <2> QED BY <1>4, <1>11, <2>1 DEF TimersDone, TopIs
<1>12. CASE Launched
  <2>1. "timers" \in Stages BY DEF Stages
  <2> QED BY <1>4, <1>12, <2>1 DEF Launched, TopIs
<1>13. ASSUME NEW r \in BOOLEAN, Return(r)
       PROVE  WaitInv'
  <2>1. AfterUp \in Stages /\ AfterDown \in Stages /\ AfterOver \in Stages /\ "timers" \in Stages
    BY DEF AfterUp, AfterDown, AfterOver, Stages
  <2>2. PICK s \in Callbacks \ {"timers"} :
           /\ TopIs("turn", s)
           /\ GoTo(CASE s = "over" -> AfterOver
                     [] s = "down" -> IF r THEN "timers" ELSE AfterDown
                     [] s = "up"   -> IF r THEN "timers" ELSE AfterUp
                     [] s = "keyed" -> "timers")
    BY <1>13 DEF Return
  <2>3. s \in {"over", "down", "up", "keyed"} BY DEF Callbacks
  <2>4. PICK z \in Stages : GoTo(z) BY <2>1, <2>2, <2>3
  <2>5. UNCHANGED <<executing, msg, broken>> BY <1>13 DEF Return
  <2> QED BY <1>4, <2>2, <2>4, <2>5 DEF TopIs
<1>14. CASE PollTasks
  <2>1. stack # <<>> /\ Top.k = "turn" /\ UNCHANGED <<executing, msg>> BY <1>14 DEF PollTasks, TopIs
  <2>2. Unwind \/ (Pop /\ UNCHANGED broken) BY <1>14 DEF PollTasks
  <2> QED BY <1>3, <2>1, <2>2, UnwindWaitInv
<1>15. CASE MainReturns BY <1>3, <1>15 DEF MainReturns, TopIs, history
<1>16. CASE Turn \/ ModalTurn BY <1>2, <1>16 DEF Turn, ModalTurn, history
<1>17. CASE LoopEnds \/ SystemReady BY <1>1, <1>17 DEF LoopEnds, SystemReady, history
<1>18. CASE ModalReturn BY <1>18, ReturnEndsWait
<1>19. CASE UNCHANGED vars BY <1>1, <1>19 DEF vars, program, history
<1> QED
  BY <1>5, <1>6, <1>7, <1>8, <1>9, <1>10, <1>11, <1>12, <1>13, <1>14, <1>15, <1>16, <1>17, <1>18, <1>19
  DEF Next, Application, Kernel

-----------------------------------------------------------------------------
(* No window is on the C stack twice, and WFExecuting is set for exactly   *)
(* those that are, unless BreakApp has unwound one: for any number of      *)
(* windows and any depth of loops inside callbacks.                        *)
THEOREM WaitsOnce == Spec => []WaitingOnce
<1>1. WaitInv => WaitingOnce BY DEF WaitInv
<1> QED BY <1>1, InitWaitInv, NextWaitInv, PTL DEF Spec

(* A window that does not wait has no answer in its buffer, so that the    *)
(* next WidgetExecute waits for a new one.                                 *)
THEOREM StartsUnanswered == Spec => []NoOldAnswer
<1>1. WaitInv => NoOldAnswer BY DEF WaitInv
<1> QED BY <1>1, InitWaitInv, NextWaitInv, PTL DEF Spec

-----------------------------------------------------------------------------
(* What becomes of keys and clicks, for any number of them and any depth   *)
(* of turns inside turns.  All turns share one Event and one Mouse; which  *)
(* turn may still rely on what it polled is what the invariants say.       *)

Mains == {i \in 1 .. Depth : stack[i].k = "main"}

(* TypeOK in two parts. *)
FrameTypes ==
    /\ stack \in Seq(Frames) /\ Depth <= MaxDepth
    /\ starting \in Nat /\ Cardinality(Mains) <= starting

DataTypes ==
    /\ typed \in Seq(Kinds) /\ Len(typed) <= MaxKeys /\ read \in 0 .. Len(typed)
    /\ button \in BOOLEAN /\ clicks \in 0 .. MaxClicks
    /\ Event \in [type : SUBSET {"key", "mouse"}, key : 0 .. read]
    /\ Mouse \in [b : BOOLEAN, changes : BOOLEAN]
    /\ GSExit \in BOOLEAN /\ ready \in BOOLEAN /\ ended \in BOOLEAN /\ crashed \in BOOLEAN
    /\ executing \subseteq Windows /\ msg \in [Windows -> Messages \cup {0}]
    /\ ops \in 0 .. MaxOps
    /\ got \in [1 .. MaxKeys -> Nat] /\ merged \subseteq 1 .. MaxKeys
    /\ downs \in Nat /\ ups \in Nat /\ upset \in BOOLEAN /\ broken \in BOOLEAN

-----------------------------------------------------------------------------
(* Of two turns that have polled, the outer one is marked. *)
OuterTurnsMarked ==
    \A i, j \in 1 .. Depth :
       i < j /\ stack[i].k = "turn" /\ stack[j].k = "turn" /\ stack[j].at # "events" => stack[i].nested

(* A turn that is not marked finds the mouse event that it polled. *)
OwnEvent ==
    \A i \in 1 .. Depth :
       stack[i].k = "turn" /\ ~ stack[i].nested /\ stack[i].at \in {"over", "down", "up"}
          => Event.type = {"mouse"}

(* Nothing above the frame k has read Event yet. *)
Unread(k) == \A j \in k + 1 .. Depth : stack[j].k = "turn" => stack[j].at = "events"

(* While the key of Alt-F is in Event, whoever returns to an older turn    *)
(* comes by the one that runs the application, which clears it.            *)
ShortcutGuarded ==
    "key" \in Event.type /\ typed[Event.key] = "altf" =>
       \E k \in 0 .. Depth : (k = 0 \/ stack[k].at = "launch") /\ Unread(k)

(* A key in Event has been read, and is not the one that quits. *)
KeyKnown == "key" \in Event.type => Event.key \in 1 .. read /\ typed[Event.key] # "altx"

UnreadUnpassed == \A n \in 1 .. MaxKeys : n > read => got[n] = 0

TurnsInv == OuterTurnsMarked /\ OwnEvent /\ ShortcutGuarded

KeysInv == KeyKnown /\ UnreadUnpassed /\ KeyLostOnlyToMouse

InputInv == TypeOK /\ TurnsInv /\ KeysInv

(* Whether a turn has a mouse event whose press or release it has not      *)
(* passed on, if there is one.                                             *)
Entered == \E i \in 1 .. Depth : stack[i].at = "over"

Down == IF Mouse.b THEN 1 ELSE 0

(* Until something upsets it, what the widgets have seen is what Mouse     *)
(* says, but for the change that an entered turn is about to pass on.      *)
ButtonInv ==
    ~ upset =>
       /\ \A i \in 1 .. Depth : stack[i].at = "over" => ~ stack[i].nested
       /\ \A i \in 1 .. Depth : ~ stack[i].nested /\ stack[i].at = "down" => Mouse.b
       /\ \A i \in 1 .. Depth : ~ stack[i].nested /\ stack[i].at = "up" => ~ Mouse.b
       /\ IF Entered /\ Mouse.changes THEN downs = ups + 1 - Down ELSE downs = ups + Down

-----------------------------------------------------------------------------
LEMMA TypeParts == TypeOK <=> FrameTypes /\ DataTypes
BY DEF TypeOK, FrameTypes, DataTypes, Mains

LEMMA Bounds ==
    /\ MaxKeys \in Nat /\ MaxClicks \in Nat /\ MaxOps \in Nat
    /\ MaxDepth \in Nat /\ 1 <= MaxDepth
BY EventAssumption

-----------------------------------------------------------------------------
(* The frames of programs that have not returned from Main. *)
LEMMA MainsCounted ==
    ASSUME stack \in Seq(Frames)
    PROVE  IsFiniteSet(Mains) /\ Cardinality(Mains) \in Nat
<1>1. Depth \in Nat BY StackType
<1>2. IsFiniteSet(1 .. Depth) BY <1>1, FS_Interval
<1>3. Mains \subseteq 1 .. Depth BY DEF Mains
<1>4. IsFiniteSet(Mains) BY <1>2, <1>3, FS_Subset
<1> QED BY <1>4, FS_CardinalityType

LEMMA FramesPushed ==
    ASSUME FrameTypes, NEW f \in Frames, Push(f), Depth < MaxDepth,
           \/ f.k = "main" /\ starting' = starting + 1
           \/ f.k # "main" /\ UNCHANGED starting
    PROVE  FrameTypes'
<1>1. stack \in Seq(Frames) /\ Depth \in Nat BY StackType DEF FrameTypes
<1>2. /\ stack' \in Seq(Frames) /\ Depth' = Depth + 1 /\ stack'[Depth + 1] = f
      /\ \A i \in 1 .. Depth : stack'[i] = stack[i]
  BY <1>1, Pushed
<1>3. IsFiniteSet(Mains) /\ Cardinality(Mains) \in Nat BY <1>1, MainsCounted
<1>4. \A i \in 1 .. Depth' : i = Depth + 1 \/ i \in 1 .. Depth BY <1>1, <1>2
<1>5. Depth + 1 \in 1 .. Depth' /\ \A i \in 1 .. Depth : i \in 1 .. Depth' BY <1>1, <1>2
<1>6. CASE f.k = "main"
  <2>1. Mains' = Mains \cup {Depth + 1} BY <1>2, <1>4, <1>5, <1>6 DEF Mains
  <2>2. Depth + 1 \notin Mains BY <1>1 DEF Mains
  <2>3. Cardinality(Mains') = Cardinality(Mains) + 1
    BY <1>3, <2>1, <2>2, FS_AddElement
  <2> QED BY <1>1, <1>2, <1>3, <1>6, <2>3, Bounds DEF FrameTypes
<1>7. CASE f.k # "main"
  <2>1. Mains' = Mains BY <1>2, <1>4, <1>5, <1>7 DEF Mains
  <2> QED BY <1>1, <1>2, <1>7, <2>1, Bounds DEF FrameTypes
<1> QED BY <1>6, <1>7

LEMMA FramesPopped ==
    ASSUME FrameTypes, stack # <<>>, Pop,
           \/ Top.k = "main" /\ starting' = starting - 1
           \/ Top.k # "main" /\ UNCHANGED starting
    PROVE  FrameTypes'
<1>1. /\ stack \in Seq(Frames) /\ Depth \in Nat /\ Depth \in 1 .. Depth
      /\ Top = stack[Depth]
  BY StackType DEF FrameTypes, Top
<1>2. /\ stack' \in Seq(Frames) /\ Depth' = Depth - 1
      /\ \A i \in 1 .. Depth - 1 : stack'[i] = stack[i]
  BY <1>1, Popped
<1>3. IsFiniteSet(Mains) /\ Cardinality(Mains) \in Nat BY <1>1, MainsCounted
<1>4. \A i \in 1 .. Depth : i = Depth \/ i \in 1 .. Depth' BY <1>1, <1>2
<1>5. \A i \in 1 .. Depth' : i \in 1 .. Depth /\ i # Depth /\ i \in 1 .. Depth - 1 BY <1>1, <1>2
<1>6. CASE Top.k = "main"
  <2>1. Mains' = Mains \ {Depth} BY <1>2, <1>4, <1>5 DEF Mains
  <2>2. Depth \in Mains BY <1>1, <1>6 DEF Mains
  <2>3. Cardinality(Mains') = Cardinality(Mains) - 1
    BY <1>3, <2>1, <2>2, FS_RemoveElement
  <2>4. Mains # {} BY <2>2
  <2>5. Cardinality(Mains) # 0 BY <1>3, <2>4, FS_EmptySet
  <2> QED BY <1>1, <1>2, <1>3, <1>6, <2>3, <2>5, Bounds DEF FrameTypes
<1>7. CASE Top.k # "main"
  <2>1. Mains' = Mains BY <1>1, <1>2, <1>4, <1>5, <1>7 DEF Mains
  <2> QED BY <1>1, <1>2, <1>7, <2>1, Bounds DEF FrameTypes
<1> QED BY <1>6, <1>7

LEMMA FramesGone ==
    ASSUME stack' = <<>>, starting' \in Nat
    PROVE  FrameTypes'
<1>1. Depth' = 0 /\ stack' \in Seq(Frames) BY EmptySeq DEF Depth
<1>2. Mains' = {} BY <1>1 DEF Mains
<1>3. Cardinality(Mains') = 0 BY <1>2, FS_EmptySet
<1> QED BY <1>1, <1>3, Bounds DEF FrameTypes

LEMMA FramesGoOn ==
    ASSUME FrameTypes, stack # <<>>, Top.k = "turn", NEW s \in Stages, GoTo(s), UNCHANGED starting
    PROVE  FrameTypes'
<1>1. stack \in Seq(Frames) /\ Top = stack[Depth] BY DEF FrameTypes, Top
<1>2. /\ stack' \in Seq(Frames) /\ Depth' = Depth /\ stack'[Depth].k = "turn"
      /\ \A i \in 1 .. Depth : i # Depth => stack'[i] = stack[i]
  BY <1>1, GoToStack
<1>3. Mains' = Mains BY <1>1, <1>2 DEF Mains
<1> QED BY <1>2, <1>3 DEF FrameTypes

LEMMA FramesPolled ==
    ASSUME FrameTypes, NEW moved \in BOOLEAN, Poll(moved)
    PROVE  FrameTypes'
<1>1. /\ stack \in Seq(Frames) /\ stack # <<>> /\ Top.k = "turn" /\ Top = stack[Depth]
      /\ starting \in Nat /\ Depth <= MaxDepth
  BY DEF FrameTypes, Poll, TopIs, Top
<1>2. Depth \in Nat /\ stack \in [1 .. Depth -> Frames] BY <1>1, StackType
<1>3. /\ stack' \in Seq(Frames) /\ Depth \in 1 .. Depth
      /\ \A i \in 1 .. Depth - 1 : stack'[i] = Marked(stack[i])
      /\ stack'[Depth].k = "turn"
      /\ \/ Depth' = Depth /\ starting' = starting + 0
         \/ /\ Depth' = Depth + 1 /\ stack'[Depth + 1] = NewMain
            /\ Depth < MaxDepth /\ starting' = starting + 1
  BY <1>1, PollStack
<1>4. \A i \in 1 .. Depth : i = Depth \/ i \in 1 .. Depth - 1 BY <1>2
<1>5. \A i \in 1 .. Depth : stack'[i].k = "main" <=> stack[i].k = "main"
  <2>1. \A i \in 1 .. Depth - 1 : stack[i] \in Frames BY <1>2
  <2>2. \A i \in 1 .. Depth - 1 : stack'[i].k = stack[i].k BY <1>3, <2>1, MarkedFrame
  <2> QED BY <1>1, <1>3, <1>4, <2>2
<1>6. IsFiniteSet(Mains) /\ Cardinality(Mains) \in Nat BY <1>1, MainsCounted
<1>7. CASE Depth' = Depth
  <2>1. Mains' = Mains BY <1>5, <1>7 DEF Mains
  <2>2. starting' = starting BY <1>1, <1>2, <1>3, <1>7
  <2> QED BY <1>1, <1>3, <1>7, <2>1, <2>2 DEF FrameTypes
<1>8. CASE Depth' = Depth + 1
  <2>1. /\ stack'[Depth + 1] = NewMain /\ Depth < MaxDepth /\ starting' = starting + 1
    BY <1>2, <1>3, <1>8
  <2>2. \A i \in 1 .. Depth' : i = Depth + 1 \/ i \in 1 .. Depth BY <1>2, <1>8
  <2>3. Depth + 1 \in 1 .. Depth' /\ \A i \in 1 .. Depth : i \in 1 .. Depth' BY <1>2, <1>8
  <2>4. NewMain.k = "main" BY NewFrames
  <2>5. Mains' = Mains \cup {Depth + 1} BY <1>5, <2>1, <2>2, <2>3, <2>4 DEF Mains
  <2>6. Depth + 1 \notin Mains BY <1>2 DEF Mains
  <2>7. Cardinality(Mains') = Cardinality(Mains) + 1 BY <1>6, <2>5, <2>6, FS_AddElement
  <2>8. Cardinality(Mains) <= starting BY DEF FrameTypes
  <2> QED BY <1>1, <1>2, <1>3, <1>6, <1>8, <2>1, <2>7, <2>8, Bounds DEF FrameTypes
<1> QED BY <1>3, <1>7, <1>8

-----------------------------------------------------------------------------
(* What a turn polls. *)
LEMMA EventPolled ==
    ASSUME DataTypes, NEW moved \in BOOLEAN
    PROVE  LET e == Generated(moved) IN
           /\ e.type \subseteq {"key", "mouse"} /\ e.key \in 0 .. Taken(e)
           /\ e = [type |-> e.type, key |-> e.key]
           /\ Taken(e) \in 0 .. Len(typed) /\ read <= Taken(e)
           /\ button # Mouse.b => "mouse" \in e.type
           /\ IF "key" \in e.type
              THEN /\ e.key = read + 1 /\ Taken(e) = read + 1 /\ read + 1 \in 1 .. Len(typed)
                   /\ typed[e.key] \in Kinds
              ELSE Taken(e) = read /\ e.key = Event.key
<1> DEFINE e == Generated(moved)
<1>1. /\ Len(typed) \in Nat /\ read \in 0 .. Len(typed) /\ Event.key \in 0 .. read
      /\ typed \in [1 .. Len(typed) -> Kinds]
  BY LenProperties DEF DataTypes
<1>2. e = [type |-> e.type, key |-> e.key] /\ e.type \subseteq {"key", "mouse"}
  BY DEF Generated
<1>3. "key" \in e.type <=> read < Len(typed) BY DEF Generated
<1>4. button # Mouse.b => "mouse" \in e.type BY DEF Generated
<1>5. e.key = IF read < Len(typed) THEN read + 1 ELSE Event.key BY DEF Generated
<1>6. Taken(e) = IF "key" \in e.type THEN read + 1 ELSE read BY DEF Taken
<1> HIDE DEF e
<1>7. CASE "key" \in e.type
  <2>1. e.key = read + 1 /\ Taken(e) = read + 1 /\ read + 1 \in 1 .. Len(typed)
    BY <1>1, <1>3, <1>5, <1>6, <1>7
  <2>2. typed[e.key] \in Kinds BY <1>1, <2>1
  <2>3. e.key \in 0 .. Taken(e) /\ Taken(e) \in 0 .. Len(typed) /\ read <= Taken(e)
    BY <1>1, <2>1
  <2> QED BY <1>2, <1>4, <1>7, <2>1, <2>2, <2>3 DEF e
<1>8. CASE "key" \notin e.type
  <2>1. Taken(e) = read /\ e.key = Event.key BY <1>3, <1>5, <1>6, <1>8
  <2>2. e.key \in 0 .. Taken(e) /\ Taken(e) \in 0 .. Len(typed) /\ read <= Taken(e)
    BY <1>1, <2>1
  <2> QED BY <1>2, <1>4, <1>8, <2>1, <2>2 DEF e
<1> QED BY <1>7, <1>8

(* Where a turn goes on when it has polled e. *)
LEMMA Dispatched ==
    ASSUME NEW e, e.type \subseteq {"key", "mouse"}, "key" \in e.type => typed[e.key] \in Kinds
    PROVE  /\ Dispatch(e) \in {"timers", "launch", "keyed", "over"}
           /\ Dispatch(e) = "keyed" => e.type = {"key"} /\ typed[e.key] = "char"
           /\ Dispatch(e) = "over" => e.type = {"mouse"}
           /\ Dispatch(e) = "launch" => "key" \in e.type /\ typed[e.key] = "altf"
           /\ "key" \in e.type /\ typed[e.key] = "altf" => Dispatch(e) = "launch"
           /\ e.type = {"mouse"} => Dispatch(e) = "over"
           /\ e.type = {"key"} /\ typed[e.key] = "char" => Dispatch(e) = "keyed"
<1>1. CASE "key" \in e.type
  <2>1. typed[e.key] \in {"altx", "altf", "char"} BY <1>1 DEF Kinds, Shortcuts
  <2>2. CASE typed[e.key] = "altx" BY <1>1, <2>2 DEF Dispatch, Is
  <2>3. CASE typed[e.key] = "altf" BY <1>1, <2>3 DEF Dispatch, Is
  <2>4. CASE typed[e.key] = "char" /\ e.type = {"key"} BY <2>4 DEF Dispatch, Is
  <2>5. CASE typed[e.key] = "char" /\ e.type # {"key"} BY <1>1, <2>5 DEF Dispatch, Is
  <2> QED BY <2>1, <2>2, <2>3, <2>4, <2>5
<1>2. CASE "key" \notin e.type
  <2>1. CASE e.type = {"mouse"} BY <1>2, <2>1 DEF Dispatch, Is
  <2>2. CASE e.type # {"mouse"}
    <3>1. Dispatch(e) = "timers" BY <1>2, <2>2 DEF Dispatch, Is
    <3>2. e.type # {"key"} BY <1>2
    <3> QED BY <1>2, <2>2, <3>1, <3>2
  <2> QED BY <2>1, <2>2
<1> QED BY <1>1, <1>2

(* Where the handler of a turn goes on when a callback has returned. *)
LEMMA Returned ==
    ASSUME NEW r \in BOOLEAN, Return(r)
    PROVE  /\ stack # <<>> /\ Top.k = "turn"
           /\ \E s \in {"over", "down", "up", "keyed"}, z \in {"down", "up", "keyed", "timers"} :
                 /\ Top.at = s /\ GoTo(z)
                 /\ z = "keyed" => s # "keyed" /\ Event.type = {"key"}
                 /\ z = "down" <=> s = "over" /\ Mouse.changes /\ Mouse.b
                 /\ z = "up" => s \in {"over", "down"} /\ Mouse.changes /\ ~ Mouse.b
                 /\ s = "over" /\ Mouse.changes /\ ~ Mouse.b => z = "up"
                 /\ s # "over" /\ r => z = "timers"
<1> DEFINE goes(s) == CASE s = "over" -> AfterOver
                        [] s = "down" -> IF r THEN "timers" ELSE AfterDown
                        [] s = "up"   -> IF r THEN "timers" ELSE AfterUp
                        [] s = "keyed" -> "timers"
<1>1. PICK s \in Callbacks \ {"timers"} : TopIs("turn", s) /\ GoTo(goes(s))
  BY DEF Return
<1>2. s \in {"over", "down", "up", "keyed"} BY DEF Callbacks
<1>3. stack # <<>> /\ Top.k = "turn" /\ Top.at = s BY <1>1 DEF TopIs
<1>4. AfterUp \in {"keyed", "timers"} /\ (AfterUp = "keyed" => Event.type = {"key"})
  BY DEF AfterUp
<1>5. /\ AfterDown = "up" <=> Mouse.changes /\ ~ Mouse.b
      /\ AfterDown = "up" \/ AfterDown = AfterUp
  BY <1>4 DEF AfterDown
<1>6. /\ AfterOver = "down" <=> Mouse.changes /\ Mouse.b
      /\ AfterOver = "down" \/ AfterOver = AfterDown
  BY <1>4, <1>5 DEF AfterOver
<1>7. CASE s = "over"
  <2>1. goes(s) = AfterOver BY <1>7
  <2> QED BY <1>1, <1>3, <1>4, <1>5, <1>6, <1>7, <2>1
<1>8. CASE s = "down"
  <2>1. goes(s) = IF r THEN "timers" ELSE AfterDown BY <1>8
  <2> QED BY <1>1, <1>3, <1>4, <1>5, <1>8, <2>1
<1>9. CASE s = "up"
  <2>1. goes(s) = IF r THEN "timers" ELSE AfterUp BY <1>9
  <2> QED BY <1>1, <1>3, <1>4, <1>9, <2>1
<1>10. CASE s = "keyed"
  <2>1. goes(s) = "timers" BY <1>10
  <2> QED BY <1>1, <1>3, <1>10, <2>1
<1> QED BY <1>2, <1>7, <1>8, <1>9, <1>10

-----------------------------------------------------------------------------
LEMMA InitTypes == Init => TypeOK
<1> SUFFICES ASSUME Init PROVE TypeOK OBVIOUS
<1>1. FrameTypes
  <2>1. stack \in Seq(Frames) /\ Depth = 0 /\ starting = 0 BY EmptySeq DEF Init, Depth
  <2>2. Mains = {} BY <2>1 DEF Mains
  <2>3. Cardinality(Mains) = 0 BY <2>2, FS_EmptySet
  <2> QED BY <2>1, <2>3, Bounds DEF FrameTypes
<1>2. typed \in Seq(Kinds) /\ Len(typed) = 0 BY EmptySeq DEF Init
<1>3. /\ got \in [1 .. MaxKeys -> Nat] /\ msg \in [Windows -> Messages \cup {0}]
      /\ Event \in [type : SUBSET {"key", "mouse"}, key : 0 .. read]
      /\ Mouse \in [b : BOOLEAN, changes : BOOLEAN] /\ read \in 0 .. Len(typed)
      /\ clicks \in 0 .. MaxClicks /\ ops \in 0 .. MaxOps
  BY <1>2, Bounds DEF Init
<1>4. /\ button \in BOOLEAN /\ GSExit \in BOOLEAN /\ ready \in BOOLEAN /\ ended \in BOOLEAN
      /\ crashed \in BOOLEAN /\ upset \in BOOLEAN /\ broken \in BOOLEAN
      /\ executing \subseteq Windows /\ merged \subseteq 1 .. MaxKeys
      /\ downs \in Nat /\ ups \in Nat
  BY DEF Init
<1>5. DataTypes BY <1>2, <1>3, <1>4, Bounds DEF DataTypes
<1> QED BY <1>1, <1>5, TypeParts

LEMMA Counted ==
    ASSUME NEW g \in [1 .. MaxKeys -> Nat], NEW n
    PROVE  /\ [g EXCEPT ![n] = @ + 1] \in [1 .. MaxKeys -> Nat]
           /\ n \in 1 .. MaxKeys => [g EXCEPT ![n] = @ + 1][n] = g[n] + 1
           /\ \A m \in 1 .. MaxKeys : m # n => [g EXCEPT ![n] = @ + 1][m] = g[m]
<1>1. CASE n \in 1 .. MaxKeys
  <2>1. g[n] + 1 \in Nat BY <1>1
  <2> QED BY <1>1, <2>1
<1>2. CASE n \notin 1 .. MaxKeys BY <1>2
<1> QED BY <1>1, <1>2

(* A stage that passes something on. *)
LEMMA GoToData ==
    ASSUME DataTypes, NEW s, GoTo(s)
    PROVE  got' \in [1 .. MaxKeys -> Nat] /\ downs' \in Nat /\ ups' \in Nat
<1>1. got \in [1 .. MaxKeys -> Nat] /\ downs \in Nat /\ ups \in Nat BY DEF DataTypes
<1>2. got' \in [1 .. MaxKeys -> Nat] BY <1>1, Counted DEF GoTo
<1>3. downs' \in Nat BY <1>1 DEF GoTo
<1>4. ups' \in Nat BY <1>1 DEF GoTo
<1> QED BY <1>2, <1>3, <1>4

LEMMA PollData ==
    ASSUME DataTypes, NEW moved \in BOOLEAN, Poll(moved)
    PROVE  DataTypes'
<1> DEFINE e == Generated(moved)
<1>1. /\ e.type \subseteq {"key", "mouse"} /\ e.key \in 0 .. Taken(e)
      /\ e = [type |-> e.type, key |-> e.key]
      /\ Taken(e) \in 0 .. Len(typed) /\ read <= Taken(e)
      /\ "key" \in e.type => e.key = read + 1 /\ read + 1 \in 1 .. Len(typed)
  BY EventPolled
<1>2. /\ Event' = Cleared(e) /\ read' = Taken(e)
      /\ GSExit' = (GSExit \/ Is(e, "altx"))
      /\ Mouse' = [b |-> button, changes |-> button # Mouse.b]
      /\ got' = IF Dispatch(e) = "keyed" THEN [got EXCEPT ![e.key] = @ + 1] ELSE got
      /\ merged' = IF e.type = {"key", "mouse"} THEN merged \cup {e.key} ELSE merged
      /\ UNCHANGED <<input, ready, ended, executing, msg, crashed, ops, downs, ups, broken>>
  BY DEF Poll
<1>3. upset' \in BOOLEAN BY DEF Poll, DataTypes
<1> HIDE DEF e
<1>4. /\ Len(typed) \in Nat /\ Len(typed) <= MaxKeys /\ got \in [1 .. MaxKeys -> Nat]
      /\ merged \subseteq 1 .. MaxKeys /\ button \in BOOLEAN /\ GSExit \in BOOLEAN
  BY LenProperties DEF DataTypes
<1>5. Event' \in [type : SUBSET {"key", "mouse"}, key : 0 .. read']
  <2>1. e \in [type : SUBSET {"key", "mouse"}, key : 0 .. Taken(e)] BY <1>1
  <2>2. [type |-> {}, key |-> 0] \in [type : SUBSET {"key", "mouse"}, key : 0 .. Taken(e)]
    BY <1>1, <1>4
  <2> QED BY <1>2, <2>1, <2>2 DEF Cleared
<1>6. got' \in [1 .. MaxKeys -> Nat] BY <1>2, <1>4, Counted
<1>7. merged' \subseteq 1 .. MaxKeys
  <2>1. "key" \in e.type => e.key \in 1 .. MaxKeys BY <1>1, <1>4, Bounds
  <2> QED BY <1>2, <1>4, <2>1
<1>8. Mouse' \in [b : BOOLEAN, changes : BOOLEAN] BY <1>2, <1>4
<1>9. GSExit' \in BOOLEAN BY <1>2, <1>4
<1>10. read' \in 0 .. Len(typed)' /\ typed' = typed BY <1>1, <1>2 DEF input
<1> QED BY <1>2, <1>3, <1>5, <1>6, <1>7, <1>8, <1>9, <1>10 DEF DataTypes, input

LEMMA NextTypes == TypeOK /\ [Next]_vars => TypeOK'
<1> SUFFICES ASSUME TypeOK, [Next]_vars PROVE TypeOK' OBVIOUS
<1>0. FrameTypes /\ DataTypes BY TypeParts
<1>a. starting \in Nat /\ stack \in Seq(Frames) /\ Depth \in Nat /\ Depth <= MaxDepth
  BY <1>0, StackType DEF FrameTypes
<1>b. ASSUME UNCHANGED <<stack, starting>> PROVE FrameTypes'
  BY <1>0, <1>b DEF FrameTypes, Mains, Depth
<1>1. CASE Click
  <2>1. clicks' \in 0 .. MaxClicks BY <1>0, <1>1, Bounds DEF Click, DataTypes
  <2>2. button' \in BOOLEAN BY <1>0, <1>1 DEF Click, DataTypes
  <2>3. DataTypes' BY <1>0, <1>1, <2>1, <2>2 DEF Click, DataTypes, program, history
  <2>4. FrameTypes' BY <1>b, <1>1 DEF Click, program
  <2> QED BY <2>3, <2>4, TypeParts, PTL
<1>2. ASSUME NEW kind \in Kinds, Type(kind) PROVE TypeOK'
  <2>1. /\ Len(typed) \in Nat /\ Len(typed) < MaxKeys /\ typed' = Append(typed, kind)
        /\ typed \in Seq(Kinds) /\ read \in 0 .. Len(typed)
        /\ UNCHANGED <<button, clicks, program, history>>
    BY <1>0, <1>2, LenProperties DEF Type, DataTypes
  <2>2. typed' \in Seq(Kinds) /\ Len(typed') = Len(typed) + 1 BY <2>1, AppendProperties
  <2>3. Len(typed') <= MaxKeys /\ read' \in 0 .. Len(typed')
    BY <2>1, <2>2, Bounds DEF program
  <2>4. DataTypes' BY <1>0, <2>1, <2>2, <2>3 DEF DataTypes, program, history
  <2>5. FrameTypes' BY <1>b, <2>1 DEF program
  <2> QED BY <2>4, <2>5, TypeParts, PTL
<1>3. ASSUME NEW w \in Windows, Execute(w) PROVE TypeOK'
  <2>1. FrameTypes'
    <3>1. NewExec(w) \in Frames /\ NewExec(w).k # "main" BY NewFrames
    <3>2. Depth < MaxDepth BY <1>3, <1>a, Bounds DEF Execute
    <3> QED BY <1>0, <1>3, <3>1, <3>2, FramesPushed DEF Execute
  <2>2. ops' \in 0 .. MaxOps BY <1>0, <1>3, Bounds DEF Execute, AppRuns, DataTypes
  <2>3. DataTypes' BY <1>0, <1>3, <2>2 DEF Execute, DataTypes, input, history
  <2> QED BY <2>1, <2>3, TypeParts, PTL
<1>4. ASSUME NEW w \in Windows, NEW m \in Messages, Send(w, m) PROVE TypeOK'
  <2>1. ops' \in 0 .. MaxOps BY <1>0, <1>4, Bounds DEF Send, AppRuns, DataTypes
  <2>2. msg' \in [Windows -> Messages \cup {0}] BY <1>0, <1>4 DEF Send, DataTypes
  <2>3. DataTypes' BY <1>0, <1>4, <2>1, <2>2 DEF Send, DataTypes, input, history
  <2>4. FrameTypes' BY <1>b, <1>4 DEF Send
  <2> QED BY <2>3, <2>4, TypeParts, PTL
<1>5. CASE StartApp
  <2>1. FrameTypes'
    <3>1. NewMain \in Frames /\ NewMain.k = "main" BY NewFrames
    <3> QED BY <1>0, <1>5, <3>1, FramesPushed DEF StartApp
  <2>2. ops' \in 0 .. MaxOps BY <1>0, <1>5, Bounds DEF StartApp, DataTypes
  <2>3. DataTypes' BY <1>0, <1>5, <2>2 DEF StartApp, DataTypes, input, history
  <2> QED BY <2>1, <2>3, TypeParts, PTL
<1>6. CASE BreakApp
  <2>1. stack' = <<>> /\ crashed' = ~ ready /\ broken' = TRUE /\ upset' = TRUE
    BY <1>6 DEF BreakApp, Unwind
  <2>2. starting' \in Nat BY <1>a, <1>6 DEF BreakApp
  <2>3. FrameTypes' BY <2>1, <2>2, FramesGone
  <2>4. ops' \in 0 .. MaxOps BY <1>0, <1>6, Bounds DEF BreakApp, AppRuns, DataTypes
  <2>5. DataTypes' BY <1>0, <1>6, <2>1, <2>4 DEF BreakApp, DataTypes, input
  <2> QED BY <2>3, <2>5, TypeParts, PTL
<1>7. ASSUME NEW moved \in BOOLEAN, Poll(moved) PROVE TypeOK'
  <2>1. FrameTypes' /\ DataTypes' BY <1>0, <1>7, FramesPolled, PollData
  <2> QED BY <2>1, TypeParts, PTL
<1>8. CASE TimersDone
  <2>1. "tasks" \in Stages /\ stack # <<>> /\ Top.k = "turn" /\ GoTo("tasks") /\ UNCHANGED starting
    BY <1>8 DEF Stages, TimersDone, TopIs
  <2>2. FrameTypes' BY <1>0, <2>1, FramesGoOn
  <2>3. got' \in [1 .. MaxKeys -> Nat] /\ downs' \in Nat /\ ups' \in Nat BY <1>0, <2>1, GoToData
  <2>4. DataTypes' BY <1>0, <1>8, <2>3 DEF TimersDone, DataTypes, input
  <2> QED BY <2>2, <2>4, TypeParts, PTL
<1>9. CASE Launched
  <2>1. "timers" \in Stages /\ stack # <<>> /\ Top.k = "turn" /\ GoTo("timers") /\ UNCHANGED starting
    BY <1>9 DEF Stages, Launched, TopIs
  <2>2. FrameTypes' BY <1>0, <2>1, FramesGoOn
  <2>3. got' \in [1 .. MaxKeys -> Nat] /\ downs' \in Nat /\ ups' \in Nat BY <1>0, <2>1, GoToData
  <2>4. Event' \in [type : SUBSET {"key", "mouse"}, key : 0 .. read'] BY <1>0, <1>9 DEF Launched, DataTypes
  <2>5. DataTypes' BY <1>0, <1>9, <2>3, <2>4 DEF Launched, DataTypes, input
  <2> QED BY <2>2, <2>5, TypeParts, PTL
<1>10. ASSUME NEW r \in BOOLEAN, Return(r) PROVE TypeOK'
  <2>1. stack # <<>> /\ Top.k = "turn" /\ UNCHANGED starting BY <1>10, Returned DEF Return
  <2>2. PICK z \in {"down", "up", "keyed", "timers"} : GoTo(z) BY <1>10, Returned
  <2>3. z \in Stages BY DEF Stages
  <2>4. FrameTypes' BY <1>0, <2>1, <2>2, <2>3, FramesGoOn
  <2>5. got' \in [1 .. MaxKeys -> Nat] /\ downs' \in Nat /\ ups' \in Nat BY <1>0, <2>2, GoToData
  <2>6. upset' \in BOOLEAN
    <3>1. Top.nested \in BOOLEAN BY <1>a, <2>1, StackType, FrameKinds
    <3> QED BY <1>0, <1>10, <3>1 DEF Return, DataTypes
  <2>7. DataTypes' BY <1>0, <1>10, <2>5, <2>6 DEF Return, DataTypes, input
  <2> QED BY <2>4, <2>7, TypeParts, PTL
<1>11. CASE PollTasks
  <2>1. stack # <<>> /\ Top.k = "turn" BY <1>11 DEF PollTasks, TopIs
  <2>2. CASE GSExit /\ starting > 0
    <3>1. /\ stack' = <<>> /\ crashed' = ~ ready /\ broken' = TRUE /\ upset' = TRUE
          /\ starting' = starting - 1
      BY <1>11, <2>2 DEF PollTasks, Unwind
    <3>2. starting' \in Nat BY <1>a, <2>2, <3>1
    <3>3. FrameTypes' BY <3>1, <3>2, FramesGone
    <3>4. DataTypes' BY <1>0, <1>11, <3>1 DEF PollTasks, DataTypes, input
    <3> QED BY <3>3, <3>4, TypeParts, PTL
  <2>3. CASE ~ (GSExit /\ starting > 0)
    <3>1. Pop /\ UNCHANGED <<crashed, broken, upset, starting>> BY <1>11, <2>3 DEF PollTasks
    <3>2. FrameTypes' BY <1>0, <2>1, <3>1, FramesPopped
    <3>3. DataTypes' BY <1>0, <1>11, <3>1 DEF PollTasks, DataTypes, input
    <3> QED BY <3>2, <3>3, TypeParts, PTL
  <2> QED BY <2>2, <2>3
<1>12. CASE MainReturns
  <2>1. FrameTypes' BY <1>0, <1>12, FramesPopped DEF MainReturns, TopIs
  <2>2. DataTypes' BY <1>0, <1>12 DEF MainReturns, DataTypes, input, history
  <2> QED BY <2>1, <2>2, TypeParts, PTL
<1>13. CASE Turn \/ ModalTurn
  <2>1. NewTurn \in Frames /\ NewTurn.k # "main" BY NewFrames
  <2>2. Push(NewTurn) /\ UNCHANGED starting BY <1>13 DEF Turn, ModalTurn
  <2>3. Depth < MaxDepth
    <3>1. CASE Turn
      <4>1. Depth = 0 BY <3>1, EmptySeq DEF Turn, Depth
      <4> QED BY <4>1, Bounds
    <3>2. CASE ModalTurn BY <3>2 DEF ModalTurn
    <3> QED BY <1>13, <3>1, <3>2
  <2>4. FrameTypes' BY <1>0, <2>1, <2>2, <2>3, FramesPushed
  <2>5. DataTypes' BY <1>0, <1>13 DEF Turn, ModalTurn, DataTypes, input, history
  <2> QED BY <2>4, <2>5, TypeParts, PTL
<1>14. CASE LoopEnds \/ SystemReady
  <2>1. FrameTypes' BY <1>b, <1>14 DEF LoopEnds, SystemReady
  <2>2. DataTypes' BY <1>0, <1>14 DEF LoopEnds, SystemReady, DataTypes, input, history
  <2> QED BY <2>1, <2>2, TypeParts, PTL
<1>15. CASE ModalReturn
  <2>1. FrameTypes' BY <1>0, <1>15, FramesPopped DEF ModalReturn, TopIs
  <2>2. msg' \in [Windows -> Messages \cup {0}] BY <1>0, <1>15 DEF ModalReturn, DataTypes
  <2>3. DataTypes' BY <1>0, <1>15, <2>2 DEF ModalReturn, DataTypes, input, history
  <2> QED BY <2>1, <2>3, TypeParts, PTL
<1>16. CASE UNCHANGED vars
  <2>1. FrameTypes' BY <1>b, <1>16 DEF vars, program
  <2>2. DataTypes' BY <1>0, <1>16 DEF vars, input, program, history, DataTypes
  <2> QED BY <2>1, <2>2, TypeParts, PTL
<1> QED
  BY <1>1, <1>2, <1>3, <1>4, <1>5, <1>6, <1>7, <1>8, <1>9, <1>10, <1>11, <1>12, <1>13, <1>14, <1>15, <1>16
  DEF Next, User, Application, Kernel

(* What each variable may hold, and that every Main on the C stack has an  *)
(* application in state DYNLD_STRATING that DynLdTCP can find: for any     *)
(* number of keys, clicks, windows and turns inside turns.                 *)
THEOREM EventTypes == Spec => []TypeOK
BY InitTypes, NextTypes, PTL DEF Spec

-----------------------------------------------------------------------------
(* Most steps only add a frame that has polled nothing, or take one away   *)
(* whose turn is over.                                                     *)
CalmStack ==
    /\ Depth' \in Nat
    /\ \A i \in 1 .. Depth' :
          \/ i \in 1 .. Depth /\ stack'[i] = stack[i]
          \/ /\ i = Depth + 1 /\ stack'[i].at \notin {"launch", "over", "down", "up"}
             /\ stack'[i].k = "turn" => stack'[i].at = "events"
    /\ \A i \in 1 .. Depth : stack[i].at \in {"launch", "over"} => i \in 1 .. Depth'

LEMMA PushIsCalm ==
    ASSUME stack \in Seq(Frames), NEW f \in {NewTurn, NewMain} \cup {NewExec(w) : w \in Windows}, Push(f)
    PROVE  CalmStack
<1>1. f \in Frames BY NewFrames
<1>2. f.at \notin {"launch", "over", "down", "up"} /\ (f.k = "turn" => f.at = "events")
  BY DEF NewTurn, NewMain, NewExec
<1>3. Depth \in Nat BY StackType
<1>4. /\ Depth' = Depth + 1 /\ stack'[Depth + 1] = f
      /\ \A i \in 1 .. Depth : stack'[i] = stack[i]
  BY <1>1, Pushed
<1>5. \A i \in 1 .. Depth' : i = Depth + 1 \/ i \in 1 .. Depth BY <1>3, <1>4
<1>6. Depth' \in Nat /\ \A i \in 1 .. Depth : i \in 1 .. Depth' BY <1>3, <1>4
<1> QED BY <1>2, <1>4, <1>5, <1>6 DEF CalmStack

LEMMA PopIsCalm ==
    ASSUME stack \in Seq(Frames), stack # <<>>, Top.at \notin {"launch", "over"}, Pop
    PROVE  CalmStack
<1>1. Depth \in Nat /\ Depth \in 1 .. Depth /\ stack[Depth] = Top BY StackType DEF Top
<1>2. Depth' = Depth - 1 /\ \A i \in 1 .. Depth - 1 : stack'[i] = stack[i]
  BY Popped
<1>3. Depth' \in Nat /\ \A i \in 1 .. Depth' : i \in 1 .. Depth /\ i \in 1 .. Depth - 1
  BY <1>1, <1>2
<1>4. \A i \in 1 .. Depth : i = Depth \/ i \in 1 .. Depth' BY <1>1, <1>2
<1> QED BY <1>1, <1>2, <1>3, <1>4 DEF CalmStack

LEMMA NoneIsCalm ==
    ASSUME stack \in Seq(Frames), UNCHANGED stack
    PROVE  CalmStack
<1>1. Depth \in Nat /\ Depth' = Depth BY StackType DEF Depth
<1> QED BY <1>1 DEF CalmStack

(* They leave the turns and the keys as they were. *)
LEMMA CalmTurns ==
    ASSUME stack \in Seq(Frames), TurnsInv, KeyKnown, CalmStack, UNCHANGED Event,
           \A n \in 1 .. read : typed'[n] = typed[n]
    PROVE  TurnsInv'
<1>1. Depth \in Nat BY StackType
<1>2. OuterTurnsMarked'
  <2>1. SUFFICES ASSUME NEW i \in 1 .. Depth', NEW j \in 1 .. Depth', i < j,
                        stack'[i].k = "turn", stack'[j].k = "turn", stack'[j].at # "events"
                 PROVE  stack'[i].nested
    BY DEF OuterTurnsMarked
  <2>2. j \in 1 .. Depth /\ stack'[j] = stack[j] BY <2>1 DEF CalmStack
  <2>3. i # Depth + 1 BY <1>1, <2>1, <2>2
  <2>4. i \in 1 .. Depth /\ stack'[i] = stack[i] BY <2>3 DEF CalmStack
  <2> QED BY <2>1, <2>2, <2>4 DEF TurnsInv, OuterTurnsMarked
<1>3. OwnEvent' BY DEF CalmStack, TurnsInv, OwnEvent
<1>4. ShortcutGuarded'
  <2>1. SUFFICES ASSUME "key" \in Event.type, typed'[Event.key] = "altf"
                 PROVE  (\E k \in 0 .. Depth : (k = 0 \/ stack[k].at = "launch") /\ Unread(k))'
    BY DEF ShortcutGuarded
  <2>2. typed[Event.key] = "altf" BY <2>1 DEF KeyKnown
  <2>3. PICK k \in 0 .. Depth : (k = 0 \/ stack[k].at = "launch") /\ Unread(k)
    BY <2>1, <2>2 DEF TurnsInv, ShortcutGuarded
  <2>4. k \in 0 .. Depth' /\ (k = 0 \/ stack'[k].at = "launch")
    <3>1. CASE k = 0 BY <3>1 DEF CalmStack
    <3>2. CASE k # 0
      <4>1. k \in 1 .. Depth BY <1>1, <3>2
      <4>2. stack[k].at = "launch" BY <2>3, <3>2
      <4>3. k \in 1 .. Depth' BY <4>1, <4>2 DEF CalmStack
      <4>4. stack'[k] = stack[k] BY <1>1, <4>1, <4>3 DEF CalmStack
      <4> QED BY <1>1, <4>2, <4>3, <4>4 DEF CalmStack
    <3> QED BY <3>1, <3>2
  <2>5. ASSUME NEW j \in k + 1 .. Depth', stack'[j].k = "turn" PROVE stack'[j].at = "events"
    <3>1. j \in 1 .. Depth' BY <2>5, <1>1 DEF CalmStack
    <3>2. CASE j \in 1 .. Depth /\ stack'[j] = stack[j]
      <4>1. j \in k + 1 .. Depth BY <3>2, <1>1
      <4> QED BY <2>3, <2>5, <3>2, <4>1 DEF Unread
    <3>3. CASE j = Depth + 1 /\ (stack'[j].k = "turn" => stack'[j].at = "events") BY <2>5, <3>3
    <3> QED BY <3>1, <3>2, <3>3 DEF CalmStack
  <2> QED BY <2>4, <2>5 DEF Unread
<1> QED BY <1>2, <1>3, <1>4 DEF TurnsInv

LEMMA SameKeys ==
    ASSUME KeysInv, read \in Nat, UNCHANGED <<read, got, merged>>,
           UNCHANGED Event \/ Event'.type = {},
           \A n \in 1 .. read : typed'[n] = typed[n]
    PROVE  KeysInv'
<1>1. KeyKnown' BY DEF KeysInv, KeyKnown
<1>2. UnreadUnpassed' BY DEF KeysInv, UnreadUnpassed
<1>3. KeyLostOnlyToMouse' BY DEF KeysInv, KeyLostOnlyToMouse
<1> QED BY <1>1, <1>2, <1>3 DEF KeysInv

LEMMA GoneTurns ==
    ASSUME stack' = <<>>
    PROVE  TurnsInv'
<1>1. Depth' = 0 BY EmptySeq DEF Depth
<1>2. OuterTurnsMarked' /\ OwnEvent' BY <1>1 DEF OuterTurnsMarked, OwnEvent
<1>3. Unread(0)' BY <1>1 DEF Unread
<1>4. 0 \in 0 .. Depth' BY <1>1
<1>5. ShortcutGuarded' BY <1>3, <1>4 DEF ShortcutGuarded
<1> QED BY <1>2, <1>5 DEF TurnsInv

-----------------------------------------------------------------------------
(* A turn that has polled goes on. *)
LEMMA GoToMarked ==
    ASSUME stack \in Seq(Frames), OuterTurnsMarked, stack # <<>>, Top.k = "turn", Top.at # "events",
           NEW z \in Stages, GoTo(z)
    PROVE  OuterTurnsMarked'
<1>1. /\ Depth \in Nat /\ Depth' = Depth /\ Depth \in 1 .. Depth /\ Top = stack[Depth]
      /\ stack'[Depth].nested = Top.nested
      /\ \A i \in 1 .. Depth : i # Depth => stack'[i] = stack[i]
  BY StackType, GoToStack DEF Top
<1>2. SUFFICES ASSUME NEW i \in 1 .. Depth, NEW j \in 1 .. Depth, i < j,
                      stack'[i].k = "turn", stack'[j].k = "turn", stack'[j].at # "events"
               PROVE  stack'[i].nested
  BY <1>1 DEF OuterTurnsMarked
<1>3. i # Depth /\ stack'[i] = stack[i] BY <1>1, <1>2
<1>4. stack[j].k = "turn" /\ stack[j].at # "events"
  <2>1. CASE j = Depth BY <1>1, <2>1
  <2>2. CASE j # Depth BY <1>1, <1>2, <2>2
  <2> QED BY <2>1, <2>2
<1> QED BY <1>2, <1>3, <1>4 DEF OuterTurnsMarked

(* Behind a callback there is no Alt-F in Event. *)
LEMMA NoShortcutOnTop ==
    ASSUME stack \in Seq(Frames), ShortcutGuarded, stack # <<>>, Top.k = "turn",
           Top.at \notin {"events", "launch"}, "key" \in Event.type
    PROVE  typed[Event.key] # "altf"
<1>1. Depth \in Nat /\ Depth \in 1 .. Depth /\ Top = stack[Depth] BY StackType DEF Top
<1>2. SUFFICES ASSUME NEW k \in 0 .. Depth, k = 0 \/ stack[k].at = "launch", Unread(k)
               PROVE  FALSE
  BY DEF ShortcutGuarded
<1>3. k # Depth BY <1>1, <1>2
<1>4. Depth \in k + 1 .. Depth BY <1>1, <1>3
<1> QED BY <1>1, <1>2, <1>4 DEF Unread

LEMMA ReturnTurns ==
    ASSUME InputInv, NEW r \in BOOLEAN, Return(r)
    PROVE  TurnsInv' /\ KeysInv'
<1>1. stack \in Seq(Frames) /\ read \in 0 .. Len(typed) /\ Len(typed) \in Nat /\ Len(typed) <= MaxKeys
      /\ got \in [1 .. MaxKeys -> Nat] /\ Kinds = {"altx", "altf", "char"}
      /\ typed \in [1 .. Len(typed) -> Kinds]
  BY LenProperties DEF InputInv, TypeOK, Kinds, Shortcuts
<1>2. PICK s \in {"over", "down", "up", "keyed"}, z \in {"down", "up", "keyed", "timers"} :
         /\ stack # <<>> /\ Top.k = "turn" /\ Top.at = s /\ GoTo(z)
         /\ z = "keyed" => s # "keyed" /\ Event.type = {"key"}
         /\ z = "down" => s = "over"
         /\ z = "up" => s \in {"over", "down"}
  BY Returned
<1>3. UNCHANGED <<typed, read, Event, merged>> BY DEF Return, input
<1>4. z \in Stages BY DEF Stages
<1>5. /\ Depth' = Depth /\ Depth \in Nat /\ Depth \in 1 .. Depth /\ Top = stack[Depth]
      /\ stack'[Depth].at = z /\ stack'[Depth].nested = Top.nested
      /\ \A i \in 1 .. Depth : i # Depth => stack'[i] = stack[i]
  BY <1>1, <1>2, <1>4, StackType, GoToStack DEF Top
<1>6. OuterTurnsMarked' BY <1>1, <1>2, <1>4, GoToMarked DEF InputInv, TurnsInv
<1>7. OwnEvent'
  <2>1. SUFFICES ASSUME NEW i \in 1 .. Depth, stack'[i].k = "turn", ~ stack'[i].nested,
                        stack'[i].at \in {"over", "down", "up"}
                 PROVE  Event.type = {"mouse"}
    BY <1>3, <1>5 DEF OwnEvent
  <2>2. CASE i = Depth BY <1>2, <1>5, <2>1, <2>2 DEF InputInv, TurnsInv, OwnEvent
  <2>3. CASE i # Depth BY <1>5, <2>1, <2>3 DEF InputInv, TurnsInv, OwnEvent
  <2> QED BY <2>2, <2>3
<1>8. "key" \in Event.type => typed[Event.key] # "altf"
  BY <1>1, <1>2, NoShortcutOnTop DEF InputInv, TurnsInv
<1>9. ShortcutGuarded' BY <1>3, <1>8 DEF ShortcutGuarded
<1>10. KeyKnown' BY <1>3 DEF InputInv, KeysInv, KeyKnown
<1>11. got' = IF z = "keyed" THEN [got EXCEPT ![Event.key] = @ + 1] ELSE got
  BY <1>2 DEF GoTo
<1>12. CASE z # "keyed"
  <2>1. UnreadUnpassed' /\ KeyLostOnlyToMouse'
    BY <1>3, <1>11, <1>12 DEF InputInv, KeysInv, UnreadUnpassed, KeyLostOnlyToMouse
  <2> QED BY <1>6, <1>7, <1>9, <1>10, <2>1 DEF TurnsInv, KeysInv
<1>13. CASE z = "keyed"
  <2>1. Event.key \in 1 .. read /\ typed[Event.key] # "altx" /\ typed[Event.key] # "altf"
    BY <1>2, <1>8, <1>13 DEF InputInv, KeysInv, KeyKnown
  <2>2. Event.key \in 1 .. MaxKeys BY <1>1, <2>1, Bounds
  <2>3. /\ got'[Event.key] = got[Event.key] + 1
        /\ \A m \in 1 .. MaxKeys : m # Event.key => got'[m] = got[m]
    BY <1>1, <1>11, <1>13, <2>2, Counted
  <2>4. UnreadUnpassed' BY <1>1, <1>3, <2>1, <2>3 DEF InputInv, KeysInv, UnreadUnpassed
  <2>5. KeyLostOnlyToMouse'
    <3>1. SUFFICES ASSUME NEW n \in 1 .. read
                   PROVE  IF typed[n] \in Shortcuts THEN got'[n] = 0 ELSE got'[n] > 0 \/ n \in merged
      BY <1>3 DEF KeyLostOnlyToMouse
    <3>2. IF typed[n] \in Shortcuts THEN got[n] = 0 ELSE got[n] > 0 \/ n \in merged
      BY DEF InputInv, KeysInv, KeyLostOnlyToMouse
    <3>3. CASE n = Event.key
      <4>1. typed[n] \notin Shortcuts BY <2>1, <3>3 DEF Shortcuts
      <4>2. got[n] \in Nat BY <1>1, <2>2, <3>3
      <4>3. got'[n] > 0 BY <2>3, <3>3, <4>2
      <4> QED BY <4>1, <4>3
    <3>4. CASE n # Event.key
      <4>1. n \in 1 .. MaxKeys BY <1>1, Bounds
      <4> QED BY <2>3, <3>2, <3>4, <4>1
    <3> QED BY <3>3, <3>4
  <2> QED BY <1>6, <1>7, <1>9, <1>10, <2>4, <2>5 DEF TurnsInv, KeysInv
<1> QED BY <1>12, <1>13

LEMMA TimersDoneTurns ==
    ASSUME InputInv, TimersDone
    PROVE  TurnsInv' /\ KeysInv'
<1>1. /\ stack \in Seq(Frames) /\ stack # <<>> /\ Top.k = "turn" /\ Top.at = "timers"
      /\ GoTo("tasks") /\ "tasks" \in Stages /\ UNCHANGED <<typed, read, Event, merged>>
  BY DEF InputInv, TypeOK, TimersDone, TopIs, Stages, input
<1>2. /\ Depth' = Depth /\ Depth \in 1 .. Depth /\ stack'[Depth].at = "tasks"
      /\ \A i \in 1 .. Depth : i # Depth => stack'[i] = stack[i]
  BY <1>1, GoToStack
<1>3. got' = got BY <1>1 DEF GoTo
<1>4. OuterTurnsMarked' BY <1>1, GoToMarked DEF InputInv, TurnsInv
<1>5. OwnEvent' BY <1>1, <1>2 DEF InputInv, TurnsInv, OwnEvent
<1>6. ShortcutGuarded' BY <1>1, NoShortcutOnTop DEF InputInv, TurnsInv, ShortcutGuarded
<1>7. read \in Nat BY LenProperties DEF InputInv, TypeOK
<1>8. KeysInv' BY <1>1, <1>3, <1>7, SameKeys DEF InputInv
<1> QED BY <1>4, <1>5, <1>6, <1>8 DEF TurnsInv

(* Alt-F's turn clears the event of whoever polled last; only turns that   *)
(* are marked may have been waiting for it.                                *)
LEMMA LaunchedTurns ==
    ASSUME InputInv, Launched
    PROVE  TurnsInv' /\ KeysInv'
<1>1. /\ stack \in Seq(Frames) /\ stack # <<>> /\ Top.k = "turn" /\ Top.at = "launch"
      /\ GoTo("timers") /\ "timers" \in Stages /\ UNCHANGED <<typed, read, merged>>
      /\ Event'.type = {}
  BY DEF InputInv, TypeOK, Launched, TopIs, Stages, input
<1>2. /\ Depth' = Depth /\ Depth \in Nat /\ Depth \in 1 .. Depth /\ stack'[Depth].at = "timers"
      /\ Top = stack[Depth]
      /\ \A i \in 1 .. Depth : i # Depth => stack'[i] = stack[i]
  BY <1>1, StackType, GoToStack DEF Top
<1>3. got' = got BY <1>1 DEF GoTo
<1>4. OuterTurnsMarked' BY <1>1, GoToMarked DEF InputInv, TurnsInv
<1>5. OwnEvent'
  <2>1. SUFFICES ASSUME NEW i \in 1 .. Depth, stack'[i].k = "turn", ~ stack'[i].nested,
                        stack'[i].at \in {"over", "down", "up"}
                 PROVE  FALSE
    BY <1>2 DEF OwnEvent
  <2>2. i # Depth /\ stack'[i] = stack[i] /\ i < Depth BY <1>2, <2>1
  <2> QED BY <1>1, <1>2, <2>1, <2>2 DEF InputInv, TurnsInv, OuterTurnsMarked
<1>6. ShortcutGuarded' BY <1>1 DEF ShortcutGuarded
<1>7. read \in Nat BY LenProperties DEF InputInv, TypeOK
<1>8. KeysInv' BY <1>1, <1>3, <1>7, SameKeys DEF InputInv
<1> QED BY <1>4, <1>5, <1>6, <1>8 DEF TurnsInv

LEMMA PollTurns ==
    ASSUME InputInv, NEW moved \in BOOLEAN, Poll(moved)
    PROVE  TurnsInv' /\ KeysInv'
<1> DEFINE e == Generated(moved)
           s == Dispatch(e)
<1>1. DataTypes /\ stack \in Seq(Frames) /\ TurnsInv /\ KeysInv
  BY TypeParts DEF InputInv, FrameTypes
<1>2. /\ e.type \subseteq {"key", "mouse"} /\ read <= Taken(e)
      /\ "key" \in e.type => /\ e.key = read + 1 /\ Taken(e) = read + 1
                             /\ read + 1 \in 1 .. Len(typed) /\ typed[e.key] \in Kinds
      /\ "key" \notin e.type => Taken(e) = read
  BY <1>1, EventPolled
<1>3. /\ s = "keyed" => e.type = {"key"} /\ typed[e.key] = "char"
      /\ s = "over" => e.type = {"mouse"}
      /\ "key" \in e.type /\ typed[e.key] = "altf" => s = "launch"
      /\ e.type = {"key"} /\ typed[e.key] = "char" => s = "keyed"
      /\ s \notin {"down", "up"}
  <2> HIDE DEF e
  <2> QED BY <1>2, Dispatched DEF s
<1>4. /\ Event' = Cleared(e) /\ read' = Taken(e) /\ UNCHANGED typed
      /\ got' = IF s = "keyed" THEN [got EXCEPT ![e.key] = @ + 1] ELSE got
      /\ merged' = IF e.type = {"key", "mouse"} THEN merged \cup {e.key} ELSE merged
  BY DEF Poll, input
<1>5. /\ stack' \in Seq(Frames) /\ Depth \in 1 .. Depth
      /\ \A i \in 1 .. Depth - 1 : stack'[i] = Marked(stack[i])
      /\ stack'[Depth].k = "turn" /\ stack'[Depth].at = s
      /\ Depth' = Depth \/ (Depth' = Depth + 1 /\ stack'[Depth + 1] = NewMain)
  BY <1>1, PollStack
<1> HIDE DEF e, s
<1>6. Depth \in Nat /\ stack \in [1 .. Depth -> Frames] BY <1>1, StackType
<1>7. NewMain.k = "main" BY NewFrames
<1>8. \A i \in 1 .. Depth' : stack'[i].k = "turn" => i = Depth \/ i \in 1 .. Depth - 1
  <2>1. \A i \in 1 .. Depth' : (i = Depth + 1 /\ Depth' = Depth + 1) \/ i = Depth \/ i \in 1 .. Depth - 1
    BY <1>5, <1>6
  <2>2. Depth' = Depth + 1 => stack'[Depth + 1] = NewMain BY <1>5, <1>6
  <2> QED BY <1>7, <2>1, <2>2
<1>9. \A i \in 1 .. Depth - 1 : stack'[i].k = "turn" => stack'[i].nested
  <2>1. ASSUME NEW i \in 1 .. Depth - 1, stack'[i].k = "turn" PROVE stack'[i].nested
    <3>1. stack[i] \in Frames BY <1>6
    <3>2. stack'[i] = Marked(stack[i]) BY <1>5
    <3>3. stack[i].k = "turn" BY <2>1, <3>1, <3>2, MarkedFrame
    <3> QED BY <3>1, <3>2, <3>3, MarkedFrame
  <2> QED BY <2>1
<1>10. OuterTurnsMarked'
  <2>1. SUFFICES ASSUME NEW i \in 1 .. Depth', NEW j \in 1 .. Depth', i < j,
                        stack'[i].k = "turn", stack'[j].k = "turn"
                 PROVE  stack'[i].nested
    BY DEF OuterTurnsMarked
  <2>2. i \in 1 .. Depth - 1 BY <1>6, <1>8, <2>1
  <2> QED BY <1>9, <2>1, <2>2
<1>11. Event' = e \/ Event'.type = {} BY <1>4 DEF Cleared
<1>12. "key" \in Event'.type => Event' = e /\ typed[e.key] # "altx"
  <2>1. ASSUME "key" \in e.type, typed[e.key] = "altx" PROVE Event'.type = {}
    BY <1>4, <2>1 DEF Cleared, Is
  <2> QED BY <1>11, <2>1
<1>13. OwnEvent'
  <2>1. SUFFICES ASSUME NEW i \in 1 .. Depth', stack'[i].k = "turn", ~ stack'[i].nested,
                        stack'[i].at \in {"over", "down", "up"}
                 PROVE  Event'.type = {"mouse"}
    BY DEF OwnEvent
  <2>2. i = Depth BY <1>8, <1>9, <2>1
  <2>3. s = "over" /\ e.type = {"mouse"} BY <1>3, <1>5, <2>1, <2>2
  <2>4. Cleared(e) = e BY <2>3 DEF Cleared, Is
  <2> QED BY <1>4, <2>3, <2>4
<1>14. ShortcutGuarded'
  <2>1. SUFFICES ASSUME "key" \in Event'.type, typed[Event'.key] = "altf"
                 PROVE  (\E k \in 0 .. Depth : (k = 0 \/ stack[k].at = "launch") /\ Unread(k))'
    BY <1>4 DEF ShortcutGuarded
  <2>2. stack'[Depth].at = "launch" BY <1>3, <1>5, <1>12, <2>1
  <2>3. \A j \in Depth + 1 .. Depth' : stack'[j].k # "turn"
    <3>1. \A j \in Depth + 1 .. Depth' : j \in 1 .. Depth' /\ j # Depth /\ j \notin 1 .. Depth - 1
      BY <1>5, <1>6
    <3> QED BY <1>8, <3>1
  <2>4. Unread(Depth)' <=> \A j \in Depth' + 1 .. Depth' : stack'[j].k = "turn" => stack'[j].at = "events"
    BY DEF Unread
  <2>5. Depth \in 0 .. Depth' BY <1>5, <1>6
  <2> QED BY <2>2, <2>3, <2>5 DEF Unread
<1>15. read \in Nat /\ got \in [1 .. MaxKeys -> Nat] /\ Len(typed) \in Nat /\ Len(typed) <= MaxKeys
  BY <1>1, LenProperties DEF DataTypes
<1>16. KeyKnown' BY <1>2, <1>4, <1>12, <1>15 DEF KeyKnown
<1>17. "key" \in e.type => e.key \in 1 .. MaxKeys BY <1>2, <1>15, Bounds
<1>18. \A m \in 1 .. MaxKeys : (s # "keyed" \/ m # e.key) => got'[m] = got[m]
  <2>1. CASE s = "keyed" BY <1>4, <1>15, <2>1, Counted
  <2>2. CASE s # "keyed" BY <1>4, <2>2
  <2> QED BY <2>1, <2>2
<1>19. UnreadUnpassed'
  <2>1. SUFFICES ASSUME NEW n \in 1 .. MaxKeys, n > read' PROVE got'[n] = 0
    BY DEF UnreadUnpassed
  <2>2. s # "keyed" \/ n # e.key BY <1>2, <1>3, <1>4, <1>15, <2>1
  <2>3. n > read BY <1>2, <1>4, <1>15, <2>1
  <2> QED BY <1>1, <1>18, <2>2, <2>3 DEF KeysInv, UnreadUnpassed
<1>20. KeyLostOnlyToMouse'
  <2>1. SUFFICES ASSUME NEW n \in 1 .. read'
                 PROVE  IF typed[n] \in Shortcuts THEN got'[n] = 0 ELSE got'[n] > 0 \/ n \in merged'
    BY <1>4 DEF KeyLostOnlyToMouse
  <2>2. CASE n \in 1 .. read
    <3>1. IF typed[n] \in Shortcuts THEN got[n] = 0 ELSE got[n] > 0 \/ n \in merged
      BY <1>1, <2>2 DEF KeysInv, KeyLostOnlyToMouse
    <3>2. n \in 1 .. MaxKeys BY <1>1, <1>15, <2>2, Bounds DEF DataTypes
    <3>3. s # "keyed" \/ n # e.key BY <1>2, <1>3, <1>15, <2>2
    <3> QED BY <1>4, <1>18, <3>1, <3>2, <3>3
  <2>3. CASE n \notin 1 .. read
    <3>1. "key" \in e.type /\ n = read + 1 /\ n = e.key BY <1>2, <1>4, <1>15, <2>1, <2>3
    <3>2. n \in 1 .. MaxKeys /\ n > read BY <1>15, <1>17, <3>1
    <3>3. got[n] = 0 BY <1>1, <3>2 DEF KeysInv, UnreadUnpassed
    <3>4. typed[n] \in {"altx", "altf", "char"} BY <1>2, <3>1 DEF Kinds, Shortcuts
    <3>5. CASE typed[n] \in Shortcuts
      <4>1. s # "keyed" BY <1>3, <3>1, <3>5 DEF Shortcuts
      <4> QED BY <1>18, <3>2, <3>3, <3>5, <4>1
    <3>6. CASE typed[n] = "char" /\ e.type = {"key"}
      <4>1. got' = [got EXCEPT ![n] = @ + 1] BY <1>3, <1>4, <3>1, <3>6
      <4>2. got'[n] = 1 BY <1>15, <3>2, <3>3, <4>1
      <4> QED BY <3>6, <4>2 DEF Shortcuts
    <3>7. CASE typed[n] = "char" /\ e.type # {"key"}
      <4>1. e.type = {"key", "mouse"} BY <1>2, <3>1, <3>7
      <4> QED BY <1>4, <3>1, <3>7, <4>1 DEF Shortcuts
    <3> QED BY <3>4, <3>5, <3>6, <3>7 DEF Shortcuts
  <2> QED BY <2>2, <2>3
<1> QED BY <1>10, <1>13, <1>14, <1>16, <1>19, <1>20 DEF TurnsInv, KeysInv

-----------------------------------------------------------------------------
LEMMA InitInput == Init => InputInv
<1> SUFFICES ASSUME Init PROVE InputInv OBVIOUS
<1>1. TypeOK BY InitTypes
<1>2. Depth = 0 /\ Event.type = {} /\ read = 0 /\ got = [n \in 1 .. MaxKeys |-> 0]
  BY EmptySeq DEF Init, Depth
<1>3. TurnsInv BY <1>2 DEF TurnsInv, OuterTurnsMarked, OwnEvent, ShortcutGuarded
<1>4. KeysInv BY <1>2 DEF KeysInv, KeyKnown, UnreadUnpassed, KeyLostOnlyToMouse
<1> QED BY <1>1, <1>3, <1>4 DEF InputInv

LEMMA NextInput == InputInv /\ [Next]_vars => InputInv'
<1> SUFFICES ASSUME InputInv, [Next]_vars PROVE TurnsInv' /\ KeysInv'
  BY NextTypes DEF InputInv
<1>0. /\ stack \in Seq(Frames) /\ TurnsInv /\ KeysInv /\ KeyKnown /\ read \in Nat
      /\ typed \in Seq(Kinds) /\ read \in 0 .. Len(typed) /\ Len(typed) \in Nat
  BY LenProperties DEF InputInv, TypeOK, KeysInv
<1>1. ASSUME CalmStack, UNCHANGED <<typed, read, Event, got, merged>>
      PROVE  TurnsInv' /\ KeysInv'
  BY <1>0, <1>1, CalmTurns, SameKeys
<1>2. ASSUME stack' = <<>>, UNCHANGED <<typed, read, Event, got, merged>>
      PROVE  TurnsInv' /\ KeysInv'
  BY <1>0, <1>2, GoneTurns, SameKeys
<1>3. ASSUME NEW kind \in Kinds, Type(kind) PROVE TurnsInv' /\ KeysInv'
  <2>1. typed' = Append(typed, kind) /\ UNCHANGED <<program, history>> BY <1>3 DEF Type
  <2>2. \A n \in 1 .. read : typed'[n] = typed[n] BY <1>0, <2>1, AppendProperties
  <2>3. CalmStack BY <1>0, <2>1, NoneIsCalm DEF program
  <2> QED BY <1>0, <2>1, <2>2, <2>3, CalmTurns, SameKeys DEF program, history
<1>4. CASE Click
  <2>1. UNCHANGED <<stack, typed, read, Event, got, merged>> BY <1>4 DEF Click, program, history
  <2> QED BY <1>0, <1>1, <2>1, NoneIsCalm
<1>5. ASSUME NEW w \in Windows, Execute(w) PROVE TurnsInv' /\ KeysInv'
  <2>1. Push(NewExec(w)) /\ UNCHANGED <<typed, read, Event, got, merged>>
    BY <1>5 DEF Execute, input, history
  <2>2. CalmStack BY <1>0, <2>1, PushIsCalm
  <2> QED BY <1>1, <2>1, <2>2
<1>6. ASSUME NEW w \in Windows, NEW m \in Messages, Send(w, m) PROVE TurnsInv' /\ KeysInv'
  <2>1. UNCHANGED <<stack, typed, read, Event, got, merged>> BY <1>6 DEF Send, input, history
  <2> QED BY <1>0, <1>1, <2>1, NoneIsCalm
<1>7. CASE StartApp
  <2>1. Push(NewMain) /\ UNCHANGED <<typed, read, Event, got, merged>>
    BY <1>7 DEF StartApp, input, history
  <2>2. CalmStack BY <1>0, <2>1, PushIsCalm
  <2> QED BY <1>1, <2>1, <2>2
<1>8. CASE BreakApp
  <2>1. stack' = <<>> /\ UNCHANGED <<typed, read, Event, got, merged>>
    BY <1>8 DEF BreakApp, Unwind, input
  <2> QED BY <1>2, <2>1
<1>9. ASSUME NEW moved \in BOOLEAN, Poll(moved) PROVE TurnsInv' /\ KeysInv'
  BY <1>9, PollTurns
<1>10. CASE TimersDone BY <1>10, TimersDoneTurns
<1>11. CASE Launched BY <1>11, LaunchedTurns
<1>12. ASSUME NEW r \in BOOLEAN, Return(r) PROVE TurnsInv' /\ KeysInv'
  BY <1>12, ReturnTurns
<1>13. CASE PollTasks
  <2>1. /\ stack # <<>> /\ Top.at = "tasks" /\ UNCHANGED <<typed, read, Event, got, merged>>
        /\ stack' = <<>> \/ Pop
    BY <1>13 DEF PollTasks, TopIs, input, Unwind
  <2>2. Pop => CalmStack BY <1>0, <2>1, PopIsCalm
  <2> QED BY <1>1, <1>2, <2>1, <2>2
<1>14. CASE MainReturns \/ ModalReturn
  <2>1. /\ stack # <<>> /\ Top.at \in {"app", "wait"} /\ Pop
        /\ UNCHANGED <<typed, read, Event, got, merged>>
    BY <1>14 DEF MainReturns, ModalReturn, TopIs, input, history
  <2>2. CalmStack BY <1>0, <2>1, PopIsCalm
  <2> QED BY <1>1, <2>1, <2>2
<1>15. CASE Turn \/ ModalTurn
  <2>1. Push(NewTurn) /\ UNCHANGED <<typed, read, Event, got, merged>>
    BY <1>15 DEF Turn, ModalTurn, input, history
  <2>2. CalmStack BY <1>0, <2>1, PushIsCalm
  <2> QED BY <1>1, <2>1, <2>2
<1>16. CASE LoopEnds \/ SystemReady \/ UNCHANGED vars
  <2>1. UNCHANGED <<stack, typed, read, Event, got, merged>>
    BY <1>16 DEF LoopEnds, SystemReady, vars, input, program, history
  <2> QED BY <1>0, <1>1, <2>1, NoneIsCalm
<1> QED
  BY <1>3, <1>4, <1>5, <1>6, <1>7, <1>8, <1>9, <1>10, <1>11, <1>12, <1>13, <1>14, <1>15, <1>16
  DEF Next, User, Application, Kernel

(* A key that was read has been passed to the focused widget, or came with *)
(* the mouse, and shortcuts are never passed (KeyLostOnlyToMouse): for any *)
(* number of keys and any depth of turns that share the Event.             *)
THEOREM KeysArrive == Spec => []KeyLostOnlyToMouse
<1>1. InputInv => KeyLostOnlyToMouse BY DEF InputInv, KeysInv
<1> QED BY <1>1, InitInput, NextInput, PTL DEF Spec

(* Only a handler that comes back to an Event of an inner turn passes a    *)
(* key again.                                                              *)
LEMMA RepeatedByMarked ==
    ASSUME InputInv, [Next]_vars, NEW n \in 1 .. MaxKeys, got'[n] > got[n], got[n] > 0
    PROVE  Top.nested
<1>1. DataTypes /\ stack \in Seq(Frames) /\ got[n] \in Nat
  BY TypeParts DEF InputInv, FrameTypes, DataTypes
<1>2. ASSUME UNCHANGED got PROVE FALSE BY <1>1, <1>2
<1>3. ASSUME NEW moved \in BOOLEAN, Poll(moved) PROVE FALSE
  <2> DEFINE e == Generated(moved)
  <2>1. /\ e.type \subseteq {"key", "mouse"}
        /\ "key" \in e.type => /\ e.key = read + 1 /\ typed[e.key] \in Kinds
    BY <1>1, EventPolled
  <2>2. got' = IF Dispatch(e) = "keyed" THEN [got EXCEPT ![e.key] = @ + 1] ELSE got
    BY <1>3 DEF Poll
  <2> HIDE DEF e
  <2>3. Dispatch(e) = "keyed" => e.type = {"key"} BY <2>1, Dispatched
  <2>4. Dispatch(e) = "keyed" /\ n = e.key BY <1>1, <1>2, <2>2, Counted DEF DataTypes
  <2>5. n > read BY <1>1, <2>1, <2>3, <2>4, LenProperties DEF DataTypes
  <2>6. got[n] = 0 BY <2>5 DEF InputInv, KeysInv, UnreadUnpassed
  <2> QED BY <2>6
<1>4. ASSUME NEW r \in BOOLEAN, Return(r) PROVE Top.nested
  <2>1. PICK s \in {"over", "down", "up", "keyed"}, z \in {"down", "up", "keyed", "timers"} :
           /\ stack # <<>> /\ Top.k = "turn" /\ Top.at = s /\ GoTo(z)
           /\ z = "keyed" => s # "keyed" /\ Event.type = {"key"}
    BY <1>4, Returned
  <2>2. z = "keyed" BY <1>2, <2>1 DEF GoTo
  <2>3. Depth \in 1 .. Depth /\ Top = stack[Depth] BY <1>1, <2>1, StackType DEF Top
  <2>4. Event.type # {"mouse"} BY <2>1, <2>2
  <2> QED BY <2>1, <2>2, <2>3, <2>4 DEF InputInv, TurnsInv, OwnEvent
<1>5. CASE TimersDone \/ Launched BY <1>2, <1>5 DEF TimersDone, Launched, GoTo
<1> QED
  BY <1>2, <1>3, <1>4, <1>5
  DEF Next, User, Application, Kernel, Click, Type, Execute, Send, StartApp, BreakApp, PollTasks,
      MainReturns, SystemReady, Turn, LoopEnds, ModalTurn, ModalReturn, vars, history

(* A key is passed a second time only by a turn that another one has       *)
(* marked, whose Event is not the one it polled: the action property of    *)
(* the same name, for any number of keys.                                  *)
THEOREM RepeatsAreStale == Spec => KeyRepeatedOnlyByStaleEvent
<1>1. InputInv /\ [Next]_vars =>
         [\A n \in 1 .. MaxKeys : got'[n] > got[n] /\ got[n] > 0 => Top.nested]_vars
  BY RepeatedByMarked
<1> QED BY <1>1, InitInput, NextInput, PTL DEF Spec, KeyRepeatedOnlyByStaleEvent

-----------------------------------------------------------------------------
(* The stages in which a button matters are stages of turns. *)
LEMMA ButtonStages ==
    ASSUME NEW f \in Frames, f.at \in {"over", "down", "up"}
    PROVE  f.k = "turn" /\ f.nested \in BOOLEAN
BY DEF Frames

LEMMA CalmButtons ==
    ASSUME stack \in Seq(Frames), ButtonInv, CalmStack, UNCHANGED <<Mouse, downs, ups, upset>>
    PROVE  ButtonInv'
<1>1. SUFFICES ASSUME ~ upset PROVE ButtonInv'
  BY DEF ButtonInv
<1>2. Depth \in Nat BY StackType
<1>3. ASSUME NEW i \in 1 .. Depth', stack'[i].at \in {"over", "down", "up"}
      PROVE  i \in 1 .. Depth /\ stack'[i] = stack[i]
  BY <1>3 DEF CalmStack
<1>4. ASSUME NEW i \in 1 .. Depth, stack[i].at = "over"
      PROVE  i \in 1 .. Depth' /\ stack'[i] = stack[i]
  BY <1>2, <1>4 DEF CalmStack
<1>5. Entered' <=> Entered BY <1>3, <1>4 DEF Entered
<1>6. Down' = Down BY DEF Down
<1> QED BY <1>1, <1>3, <1>5, <1>6 DEF ButtonInv

(* A turn goes on without a press or a release. *)
LEMMA QuietButtons ==
    ASSUME stack \in Seq(Frames), ButtonInv, stack # <<>>, Top.k = "turn", Top.at # "over",
           NEW z \in Stages \ {"over", "down", "up"}, GoTo(z),
           downs \in Nat, ups \in Nat, UNCHANGED Mouse, ~ upset' => ~ upset
    PROVE  ButtonInv'
<1>1. SUFFICES ASSUME ~ upset, ~ upset' PROVE ButtonInv'
  BY DEF ButtonInv
<1>2. /\ Depth' = Depth /\ Depth \in 1 .. Depth /\ stack'[Depth].at = z /\ stack[Depth].at # "over"
      /\ \A i \in 1 .. Depth : i # Depth => stack'[i] = stack[i]
  BY GoToStack DEF Top
<1>3. downs' = downs /\ ups' = ups
  <2>1. downs' = downs + 0 /\ ups' = ups + 0 BY DEF GoTo
  <2> QED BY <2>1
<1>4. Entered' <=> Entered BY <1>2 DEF Entered
<1>5. Down' = Down BY DEF Down
<1>6. ASSUME NEW i \in 1 .. Depth', stack'[i].at \in {"over", "down", "up"}
      PROVE  i \in 1 .. Depth /\ stack'[i] = stack[i]
  BY <1>2, <1>6
<1> QED BY <1>1, <1>3, <1>4, <1>5, <1>6 DEF ButtonInv

LEMMA ReturnButtons ==
    ASSUME InputInv, ButtonInv, NEW r \in BOOLEAN, Return(r)
    PROVE  ButtonInv'
<1>1. /\ stack \in Seq(Frames) /\ downs \in Nat /\ ups \in Nat /\ upset \in BOOLEAN
      /\ OuterTurnsMarked /\ Mouse.b \in BOOLEAN
  BY DEF InputInv, TypeOK, TurnsInv
<1>2. PICK s \in {"over", "down", "up", "keyed"}, z \in {"down", "up", "keyed", "timers"} :
         /\ stack # <<>> /\ Top.k = "turn" /\ Top.at = s /\ GoTo(z)
         /\ z = "down" <=> s = "over" /\ Mouse.changes /\ Mouse.b
         /\ z = "up" => s \in {"over", "down"} /\ Mouse.changes /\ ~ Mouse.b
         /\ s = "over" /\ Mouse.changes /\ ~ Mouse.b => z = "up"
         /\ s # "over" /\ r => z = "timers"
  BY Returned
<1>3. upset' = (upset \/ (Top.nested /\ ~ r)) /\ UNCHANGED Mouse BY DEF Return
<1>4. SUFFICES ASSUME ~ upset, ~ (Top.nested /\ ~ r) PROVE ButtonInv'
  BY <1>1, <1>3 DEF ButtonInv
<1>5. z \in Stages BY DEF Stages
<1>6. /\ Depth' = Depth /\ Depth \in Nat /\ Depth \in 1 .. Depth /\ Top = stack[Depth] /\ Top \in Frames
      /\ stack'[Depth].at = z
      /\ \A i \in 1 .. Depth : i # Depth => stack'[i] = stack[i]
  BY <1>1, <1>2, <1>5, StackType, GoToStack DEF Top
<1>7. /\ \A i \in 1 .. Depth : stack[i].at = "over" => ~ stack[i].nested
      /\ \A i \in 1 .. Depth : ~ stack[i].nested /\ stack[i].at = "down" => Mouse.b
      /\ \A i \in 1 .. Depth : ~ stack[i].nested /\ stack[i].at = "up" => ~ Mouse.b
      /\ IF Entered /\ Mouse.changes THEN downs = ups + 1 - Down ELSE downs = ups + Down
  BY <1>4 DEF ButtonInv
<1>8. CASE s # "over"
  <2>1. z \notin {"down", "up"}
    <3>1. CASE r BY <1>2, <1>8, <3>1
    <3>2. CASE ~ r
      <4>1. ~ Top.nested BY <1>4, <3>2
      <4> QED BY <1>2, <1>6, <1>7, <1>8, <4>1
    <3> QED BY <3>1, <3>2
  <2>2. ~ upset' => ~ upset BY <1>4
  <2> QED BY <1>1, <1>2, <1>3, <1>5, <1>8, <2>1, <2>2, QuietButtons
<1>9. CASE s = "over"
  <2>1. Entered BY <1>2, <1>6, <1>9 DEF Entered
  <2>2. ~ Entered'
    <3>1. SUFFICES ASSUME NEW i \in 1 .. Depth, stack'[i].at = "over" PROVE FALSE
      BY <1>6 DEF Entered
    <3>2. i # Depth /\ i < Depth /\ stack[i] \in Frames /\ stack[i].at = "over"
      BY <1>1, <1>6, <3>1, StackType
    <3>3. stack[i].k = "turn" BY <3>2, ButtonStages
    <3>4. stack[i].nested BY <1>1, <1>2, <1>6, <1>9, <3>2, <3>3 DEF OuterTurnsMarked
    <3> QED BY <1>7, <3>2, <3>4
  <2>3. Down' = Down /\ Down \in {0, 1} /\ (Down = 1 <=> Mouse.b) BY <1>1, <1>3 DEF Down
  <2>4. downs' = downs + (IF z = "down" THEN 1 ELSE 0) /\ ups' = ups + (IF z = "up" THEN 1 ELSE 0)
    BY <1>2 DEF GoTo
  <2>5. downs' = ups' + Down'
    <3>1. CASE z = "down" BY <1>1, <1>2, <1>7, <2>1, <2>3, <2>4, <3>1
    <3>2. CASE z = "up" BY <1>1, <1>2, <1>7, <2>1, <2>3, <2>4, <3>2
    <3>3. CASE z \notin {"down", "up"}
      <4>1. ~ Mouse.changes BY <1>2, <1>9, <3>3
      <4>2. downs = ups + Down BY <1>7, <4>1
      <4> QED BY <1>1, <2>3, <2>4, <3>3, <4>2
    <3> QED BY <3>1, <3>2, <3>3
  <2>6. ASSUME NEW i \in 1 .. Depth, ~ stack'[i].nested
        PROVE  (stack'[i].at = "down" => Mouse.b) /\ (stack'[i].at = "up" => ~ Mouse.b)
    <3>1. CASE i = Depth BY <1>2, <1>6, <3>1
    <3>2. CASE i # Depth BY <1>6, <1>7, <2>6, <3>2
    <3> QED BY <3>1, <3>2
  <2> QED BY <1>3, <1>6, <2>2, <2>5, <2>6 DEF ButtonInv, Entered
<1> QED BY <1>8, <1>9

LEMMA PollButtons ==
    ASSUME InputInv, ButtonInv, NEW moved \in BOOLEAN, Poll(moved)
    PROVE  ButtonInv'
<1> DEFINE e == Generated(moved)
           s == Dispatch(e)
<1>1. DataTypes /\ stack \in Seq(Frames) BY TypeParts DEF InputInv, FrameTypes
<1>2. /\ e.type \subseteq {"key", "mouse"}
      /\ button # Mouse.b => "mouse" \in e.type
      /\ "key" \in e.type => typed[e.key] \in Kinds
  BY <1>1, EventPolled
<1>3. s \notin {"down", "up"} /\ (e.type = {"mouse"} => s = "over")
  <2> HIDE DEF e
  <2> QED BY <1>2, Dispatched DEF s
<1>4. /\ Mouse' = [b |-> button, changes |-> button # Mouse.b] /\ UNCHANGED <<downs, ups>>
      /\ upset' = \/ upset
                  \/ "key" \in e.type /\ button # Mouse.b
                  \/ \E i \in 1 .. Depth - 1 : stack[i].at = "over"
      /\ stack # <<>> /\ Top.at = "events"
  BY DEF Poll, TopIs
<1>5. /\ stack' \in Seq(Frames) /\ Depth \in 1 .. Depth
      /\ \A i \in 1 .. Depth - 1 : stack'[i] = Marked(stack[i])
      /\ stack'[Depth].k = "turn" /\ stack'[Depth].at = s /\ ~ stack'[Depth].nested
      /\ Depth' = Depth \/ (Depth' = Depth + 1 /\ stack'[Depth + 1] = NewMain)
  BY <1>1, PollStack
<1> HIDE DEF e, s
<1>6. SUFFICES ASSUME ~ upset, ~ ("key" \in e.type /\ button # Mouse.b),
                      \A i \in 1 .. Depth - 1 : stack[i].at # "over"
               PROVE  ButtonInv'
  BY <1>4 DEF ButtonInv
<1>7. Depth \in Nat /\ stack \in [1 .. Depth -> Frames] BY <1>1, StackType
<1>8. ~ Entered
  <2>1. \A i \in 1 .. Depth : i = Depth \/ i \in 1 .. Depth - 1 BY <1>7
  <2> QED BY <1>4, <1>6, <2>1 DEF Entered, Top
<1>9. downs = ups + Down BY <1>6, <1>8 DEF ButtonInv
<1>10. ASSUME NEW i \in 1 .. Depth', stack'[i].at \in {"over", "down", "up"}, ~ stack'[i].nested \/ stack'[i].at = "over"
       PROVE  i = Depth
  <2>1. (i = Depth + 1 /\ Depth' = Depth + 1) \/ i = Depth \/ i \in 1 .. Depth - 1 BY <1>5, <1>7
  <2>2. CASE i = Depth + 1 /\ Depth' = Depth + 1
    <3>1. stack'[i] = NewMain BY <1>5, <1>7, <2>2
    <3> QED BY <1>10, <3>1 DEF NewMain
  <2>3. CASE i \in 1 .. Depth - 1
    <3>1. stack[i] \in Frames /\ stack'[i] = Marked(stack[i]) BY <1>5, <1>7, <2>3
    <3>2. stack'[i].at = stack[i].at BY <3>1, MarkedFrame
    <3>3. stack[i].k = "turn" BY <1>10, <3>1, <3>2, ButtonStages
    <3>4. stack'[i].nested BY <3>1, <3>3, MarkedFrame
    <3> QED BY <1>6, <1>10, <2>3, <3>2, <3>4
  <2> QED BY <2>1, <2>2, <2>3
<1>11. Mouse'.b = button /\ (Mouse'.changes <=> button # Mouse.b) BY <1>4
<1>12. IF Entered' /\ Mouse'.changes THEN downs' = ups' + 1 - Down' ELSE downs' = ups' + Down'
  <2>1. button \in BOOLEAN /\ Mouse.b \in BOOLEAN /\ downs \in Nat /\ ups \in Nat BY <1>1 DEF DataTypes
  <2>2. CASE button = Mouse.b
    <3>1. Down' = Down BY <1>11, <2>2 DEF Down
    <3> QED BY <1>4, <1>9, <1>11, <2>2, <3>1
  <2>3. CASE button # Mouse.b
    <3>1. e.type = {"mouse"} BY <1>2, <1>6, <2>3
    <3>2. Depth \in 1 .. Depth' BY <1>5, <1>7
    <3>3. Entered' BY <1>3, <1>5, <3>1, <3>2 DEF Entered
    <3>4. Down' = 1 - Down BY <1>11, <2>1, <2>3 DEF Down
    <3>5. Down \in {0, 1} BY DEF Down
    <3> QED BY <1>4, <1>9, <1>11, <2>1, <2>3, <3>3, <3>4, <3>5
  <2> QED BY <2>2, <2>3
<1> QED BY <1>3, <1>5, <1>10, <1>12 DEF ButtonInv

LEMMA InitButtons == Init => ButtonInv
<1> SUFFICES ASSUME Init PROVE ButtonInv OBVIOUS
<1>1. Depth = 0 BY EmptySeq DEF Init, Depth
<1>2. ~ Mouse.b /\ downs = 0 /\ ups = 0 /\ ~ Mouse.changes BY DEF Init
<1>3. Down = 0 BY <1>2 DEF Down
<1> QED BY <1>1, <1>2, <1>3 DEF ButtonInv

LEMMA NextButtons == InputInv /\ ButtonInv /\ [Next]_vars => ButtonInv'
<1> SUFFICES ASSUME InputInv, ButtonInv, [Next]_vars PROVE ButtonInv' OBVIOUS
<1>0. stack \in Seq(Frames) /\ downs \in Nat /\ ups \in Nat BY DEF InputInv, TypeOK
<1>1. ASSUME CalmStack, UNCHANGED <<Mouse, downs, ups, upset>> PROVE ButtonInv'
  BY <1>0, <1>1, CalmButtons
<1>2. ASSUME upset' = TRUE PROVE ButtonInv' BY <1>2 DEF ButtonInv
<1>3. ASSUME UNCHANGED <<stack, Mouse, downs, ups, upset>> PROVE ButtonInv'
  BY <1>0, <1>1, <1>3, NoneIsCalm
<1>4. CASE User BY <1>3, <1>4 DEF User, Click, Type, program, history
<1>5. ASSUME NEW w \in Windows, Execute(w) PROVE ButtonInv'
  <2>1. CalmStack BY <1>0, <1>5, PushIsCalm DEF Execute
  <2> QED BY <1>1, <1>5, <2>1 DEF Execute, history
<1>6. ASSUME NEW w \in Windows, NEW m \in Messages, Send(w, m) PROVE ButtonInv'
  BY <1>3, <1>6 DEF Send, history
<1>7. CASE StartApp
  <2>1. CalmStack BY <1>0, <1>7, PushIsCalm DEF StartApp
  <2> QED BY <1>1, <1>7, <2>1 DEF StartApp, history
<1>8. CASE BreakApp BY <1>2, <1>8 DEF BreakApp, Unwind
<1>9. ASSUME NEW moved \in BOOLEAN, Poll(moved) PROVE ButtonInv' BY <1>9, PollButtons
<1>10. CASE TimersDone \/ Launched
  <2>1. /\ stack # <<>> /\ Top.k = "turn" /\ Top.at # "over"
        /\ (GoTo("tasks") \/ GoTo("timers")) /\ UNCHANGED <<Mouse, upset>>
    BY <1>10 DEF TimersDone, Launched, TopIs
  <2>2. {"tasks", "timers"} \subseteq Stages \ {"over", "down", "up"} BY DEF Stages
  <2> QED BY <1>0, <2>1, <2>2, QuietButtons
<1>11. ASSUME NEW r \in BOOLEAN, Return(r) PROVE ButtonInv' BY <1>11, ReturnButtons
<1>12. CASE PollTasks
  <2>1. CASE Unwind BY <1>2, <2>1 DEF Unwind
  <2>2. CASE ~ Unwind
    <3>1. Pop /\ stack # <<>> /\ Top.at = "tasks" /\ UNCHANGED <<Mouse, downs, ups, upset>>
      BY <1>12, <2>2 DEF PollTasks, TopIs
    <3>2. CalmStack BY <1>0, <3>1, PopIsCalm
    <3> QED BY <1>1, <3>1, <3>2
  <2> QED BY <2>1, <2>2
<1>13. CASE MainReturns \/ ModalReturn
  <2>1. /\ stack # <<>> /\ Top.at \in {"app", "wait"} /\ Pop /\ UNCHANGED <<Mouse, downs, ups, upset>>
    BY <1>13 DEF MainReturns, ModalReturn, TopIs, history
  <2>2. CalmStack BY <1>0, <2>1, PopIsCalm
  <2> QED BY <1>1, <2>1, <2>2
<1>14. CASE Turn \/ ModalTurn
  <2>1. Push(NewTurn) /\ UNCHANGED <<Mouse, downs, ups, upset>>
    BY <1>14 DEF Turn, ModalTurn, history
  <2>2. CalmStack BY <1>0, <2>1, PushIsCalm
  <2> QED BY <1>1, <2>1, <2>2
<1>15. CASE LoopEnds \/ SystemReady \/ UNCHANGED vars
  BY <1>3, <1>15 DEF LoopEnds, SystemReady, vars, program, history
<1> QED
  BY <1>4, <1>5, <1>6, <1>7, <1>8, <1>9, <1>10, <1>11, <1>12, <1>13, <1>14, <1>15
  DEF Next, Application, Kernel

(* The widgets see presses and releases by turns until one of the named    *)
(* hazards meets a click (ButtonsAlternate): for any number of clicks and  *)
(* any depth of turns that share the Mouse.                                *)
THEOREM ClicksAlternate == Spec => []ButtonsAlternate
<1>1. InputInv /\ ButtonInv => ButtonsAlternate
  <2>1. Down \in {0, 1} BY DEF Down
  <2>2. InputInv => downs \in Nat /\ ups \in Nat BY DEF InputInv, TypeOK
  <2> QED BY <2>1, <2>2 DEF ButtonInv, ButtonsAlternate
<1> QED BY <1>1, InitInput, NextInput, InitButtons, NextButtons, PTL DEF Spec
=============================================================================
