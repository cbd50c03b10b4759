----------------------------- MODULE EventLoop ------------------------------
(***************************************************************************)
(* The main loop of src/main.c and what runs inside it: events.c, the two  *)
(* event handlers (the system's and WidgetEventHandler of xlib/widget.c),  *)
(* WidgetExecute, and the start and break of applications as the loop sees *)
(* them (dynld.c).  There is one thread.  A callback may run the loop's    *)
(* body again, for a modal window or in an application's Main, so that     *)
(* turns of the loop nest on the C stack while Event and Mouse are single  *)
(* objects that each turn overwrites.                                      *)
(*                                                                         *)
(* Only the keyboard and the left button are modelled.  The device drivers *)
(* run at any time but are read in Generate alone, so a step of the        *)
(* program is all it does up to the next point where it calls an           *)
(* application back.                                                       *)
(***************************************************************************)
EXTENDS Naturals, Sequences, FiniteSets

CONSTANTS
    Windows,    \* windows an application may wait for with WidgetExecute
    Messages,   \* messages other than 0
    NoWindow,
    MaxKeys,    \* bound on the keys typed
    MaxClicks,  \* bound on the changes of the button
    MaxDepth,   \* bound on the frames of the stack
    MaxOps      \* bound on what applications do

ASSUME EventAssumption ==
    /\ NoWindow \notin Windows
    /\ Messages \subseteq Nat \ {0}
    /\ {MaxKeys, MaxClicks, MaxOps} \subseteq Nat /\ MaxDepth \in Nat \ {0}

VARIABLES
    typed,      \* the keys typed so far, in order, and how many of them
    read,       \* have been read
    button,     \* mouse_b, as the hand holds it
    clicks,     \* its changes, counted
    Event,      \* type: what it is OR-ed from; key: its Keyb
    Mouse,      \* b: State.b; changes: ButtonChanges
    GSExit,
    ready,      \* _SystemInit is over, setjmp(MainPoint) has been called
    ended,      \* the main loop is left
    stack,      \* the C stack, the innermost frame last
    executing,  \* the windows whose Flags hold WFExecuting
    msg,        \* MessageBuffer of every window
    starting,   \* how many applications are in state DYNLD_STRATING
    crashed,    \* longjmp was called before setjmp
    ops,
    got,        \* history: how often each key was passed to the focused widget
    merged,     \* history: the keys that were read together with a click
    downs, ups, \* history: presses and releases passed to the widgets
    upset,      \* history: a press or a release has met one of the hazards
    broken      \* history: BreakApp has unwound the stack

input == <<typed, button, clicks>>
history == <<got, merged, downs, ups, upset, broken>>
program == <<read, Event, Mouse, GSExit, ready, ended, stack, executing, msg, starting, crashed, ops>>
vars == <<input, program, history>>

Shortcuts == {"altx", "altf"}

Kinds == Shortcuts \cup {"char"}

(* Where a turn is: about to generate its event, in the application that   *)
(* Alt-F runs, in a callback of the widget handler (leave, enter, move and *)
(* focus notices; the press; the release; the key), in one of TimersPoll,  *)
(* or in PollTasks.                                                        *)
Stages == {"events", "launch", "over", "down", "up", "keyed", "timers", "tasks"}

Callbacks == {"over", "down", "up", "keyed", "timers"}

(* nested: a turn has begun inside this one since it generated its event.  *)
Frames ==
    [k : {"turn"}, at : Stages, w : {NoWindow}, nested : BOOLEAN]
    \cup [k : {"exec"}, at : {"wait"}, w : Windows, nested : {FALSE}]
    \cup [k : {"main"}, at : {"app"}, w : {NoWindow}, nested : {FALSE}]

NewTurn == [k |-> "turn", at |-> "events", w |-> NoWindow, nested |-> FALSE]
NewExec(w) == [k |-> "exec", at |-> "wait", w |-> w, nested |-> FALSE]
NewMain == [k |-> "main", at |-> "app", w |-> NoWindow, nested |-> FALSE]

Depth == Len(stack)
Top == stack[Depth]
Running == ~ ended /\ ~ crashed
TopIs(k, at) == Running /\ stack # <<>> /\ Top.k = k /\ Top.at = at

Below == SubSeq(stack, 1, Depth - 1)
Push(f) == stack' = Append(stack, f)
Pop == stack' = Below

Waiting == {stack[i].w : i \in {j \in 1 .. Depth : stack[j].k = "exec"}}

Init ==
    /\ typed = <<>> /\ read = 0 /\ button = FALSE /\ clicks = 0
    /\ Event = [type |-> {}, key |-> 0]
    /\ Mouse = [b |-> FALSE, changes |-> FALSE]
    /\ GSExit = FALSE /\ ready = FALSE /\ ended = FALSE /\ crashed = FALSE
    /\ stack = <<>>
    /\ executing = {} /\ msg = [w \in Windows |-> 0]
    /\ starting = 0 /\ ops = 0
    /\ got = [n \in 1 .. MaxKeys |-> 0] /\ merged = {}
    /\ downs = 0 /\ ups = 0 /\ upset = FALSE /\ broken = FALSE

-----------------------------------------------------------------------------
(* The user. *)
Type(kind) ==
    /\ Len(typed) < MaxKeys /\ ~ ended
    /\ typed' = Append(typed, kind)
    /\ UNCHANGED <<button, clicks, program, history>>

Click ==
    /\ clicks < MaxClicks /\ ~ ended
    /\ clicks' = clicks + 1
    /\ button' = ~ button
    /\ UNCHANGED <<typed, program, history>>

-----------------------------------------------------------------------------
(* The rest of WidgetEventHandler behind each of its callbacks, which      *)
(* reads Event and Mouse as they are then.                                 *)
AfterUp == IF Event.type = {"key"} THEN "keyed" ELSE "timers"

(* Mutant: a button that is up is taken for one that was released. *)
AfterDownLevel == IF ~ Mouse.b THEN "up" ELSE AfterUp

AfterDown == IF Mouse.changes /\ ~ Mouse.b THEN "up" ELSE AfterUp
AfterOver == IF Mouse.changes /\ Mouse.b THEN "down" ELSE AfterDown

(* The turn goes on to a stage of its own, which passes something on.      *)
GoTo(s) ==
    /\ stack' = [stack EXCEPT ![Depth].at = s]
    /\ got' = IF s = "keyed" THEN [got EXCEPT ![Event.key] = @ + 1] ELSE got
    /\ downs' = downs + (IF s = "down" THEN 1 ELSE 0)
    /\ ups' = ups + (IF s = "up" THEN 1 ELSE 0)

(* The callback answers r: TRUE, for a press or a release, ends the        *)
(* handler.                                                                *)
Return(r) ==
    /\ \E s \in Callbacks \ {"timers"} :
          /\ TopIs("turn", s)
          /\ GoTo(CASE s = "over" -> AfterOver
                    [] s = "down" -> IF r THEN "timers" ELSE AfterDown
                    [] s = "up"   -> IF r THEN "timers" ELSE AfterUp
                    [] s = "keyed" -> "timers")
    /\ upset' = (upset \/ (Top.nested /\ ~ r))
    /\ UNCHANGED <<input, read, Event, Mouse, GSExit, ready, ended, executing, msg, starting, crashed,
                   ops, merged, broken>>

TimersDone ==
    /\ TopIs("turn", "timers")
    /\ GoTo("tasks")
    /\ UNCHANGED <<input, read, Event, Mouse, GSExit, ready, ended, executing, msg, starting, crashed,
                   ops, merged, upset, broken>>

(* The application that Alt-F ran has started: whatever event is the last  *)
(* is cleared.                                                             *)
Launched ==
    /\ TopIs("turn", "launch")
    /\ GoTo("timers")
    /\ Event' = [type |-> {}, key |-> 0]
    /\ UNCHANGED <<input, read, Mouse, GSExit, ready, ended, executing, msg, starting, crashed,
                   ops, merged, upset, broken>>

-----------------------------------------------------------------------------
(* What the generators make of the devices: at most one key, and a mouse   *)
(* event if it moved or its button is not as it was.  Keyb stays when      *)
(* there is no key.                                                        *)
Generated(moved) ==
    [type |-> (IF read < Len(typed) THEN {"key"} ELSE {})
                 \cup (IF moved \/ button # Mouse.b THEN {"mouse"} ELSE {}),
     key |-> IF read < Len(typed) THEN read + 1 ELSE Event.key]

(* Mutant: the shortcuts are only seen when nothing else happened. *)
IsAlone(e, kind) == e.type = {"key"} /\ typed[e.key] = kind

Is(e, kind) == "key" \in e.type /\ typed[e.key] = kind

(* The first stage of HandleEvent(e) that calls an application: the system *)
(* handler tests the type by & and looks for its shortcuts, the widget     *)
(* handler wants the type to be exactly one of its own.                    *)
Dispatch(e) ==
    CASE Is(e, "altx") -> "timers"
      [] Is(e, "altf") -> "launch"
      [] Is(e, "char") /\ e.type = {"key"} -> "keyed"
      [] e.type = {"mouse"} -> "over"
      [] OTHER -> "timers"

(* Mutant: the event of Alt-X is not cleared. *)
ClearedNot(e) == e

Cleared(e) == IF Is(e, "altx") THEN [type |-> {}, key |-> 0] ELSE e

(* Mutant: the key is looked at and left in the buffer. *)
TakenNot(e) == read

Taken(e) == IF "key" \in e.type THEN read + 1 ELSE read

(* PollEvents.  Alt-X is turned into MSG_QUIT, handled at once (it sets    *)
(* GSExit) and cleared; Alt-F runs an application's Main, if it is found.  *)
Poll(moved) ==
    LET e == Generated(moved)
        s == Dispatch(e)
        under == [i \in 1 .. Depth - 1 |->
                    IF stack[i].k = "turn" THEN [stack[i] EXCEPT !.nested = TRUE] ELSE stack[i]]
        turn == [NewTurn EXCEPT !.at = s]
        found == IF s = "launch" /\ Depth < MaxDepth THEN BOOLEAN ELSE {FALSE}
    IN
    /\ TopIs("turn", "events")
    /\ \E launched \in found :
          /\ stack' = under \o <<turn>> \o (IF launched THEN <<NewMain>> ELSE <<>>)
          /\ starting' = starting + (IF launched THEN 1 ELSE 0)
    /\ Event' = Cleared(e)
    /\ GSExit' = (GSExit \/ Is(e, "altx"))
    /\ Mouse' = [b |-> button, changes |-> button # Mouse.b]
    /\ read' = Taken(e)
    /\ got' = IF s = "keyed" THEN [got EXCEPT ![e.key] = @ + 1] ELSE got
    /\ merged' = IF e.type = {"key", "mouse"} THEN merged \cup {e.key} ELSE merged
    /\ upset' = \/ upset
                \/ "key" \in e.type /\ button # Mouse.b
                \/ \E i \in 1 .. Depth - 1 : stack[i].at = "over"
    /\ UNCHANGED <<input, ready, ended, executing, msg, crashed, ops, downs, ups, broken>>

-----------------------------------------------------------------------------
(* longjmp(MainPoint): every frame is gone, and nothing else is undone.    *)
Unwind ==
    /\ stack' = <<>>
    /\ crashed' = ~ ready
    /\ broken' = TRUE
    /\ upset' = TRUE

(* Mutant: BreakApp comes back. *)
PollTasksReturns ==
    /\ TopIs("turn", "tasks")
    /\ Pop
    /\ starting' = IF GSExit /\ starting > 0 THEN starting - 1 ELSE starting
    /\ UNCHANGED <<input, read, Event, Mouse, GSExit, ready, ended, executing, msg, ops,
                   crashed, history>>

(* PollTasks, that is DynLdTCP: once the system is quitting it breaks an   *)
(* application that is still in its Main.                                  *)
PollTasks ==
    /\ TopIs("turn", "tasks")
    /\ IF GSExit /\ starting > 0
       THEN Unwind /\ starting' = starting - 1
       ELSE Pop /\ UNCHANGED <<crashed, broken, upset, starting>>
    /\ UNCHANGED <<input, read, Event, Mouse, GSExit, ready, ended, executing, msg, ops,
                   got, merged, downs, ups>>

(* The loop of main, and that of WidgetExecute, which has its message.     *)
Turn ==
    /\ Running /\ stack = <<>> /\ ready /\ ~ GSExit
    /\ Push(NewTurn)
    /\ UNCHANGED <<input, read, Event, Mouse, GSExit, ready, ended, executing, msg, starting, crashed,
                   ops, history>>

LoopEnds ==
    /\ Running /\ stack = <<>> /\ ready /\ GSExit
    /\ ended' = TRUE
    /\ UNCHANGED <<input, read, Event, Mouse, GSExit, ready, stack, executing, msg, starting, crashed,
                   ops, history>>

(* Mutant: the loop does not look at the buffer. *)
ModalTurnDeaf ==
    /\ TopIs("exec", "wait")
    /\ Depth < MaxDepth
    /\ Push(NewTurn)
    /\ UNCHANGED <<input, read, Event, Mouse, GSExit, ready, ended, executing, msg, starting, crashed,
                   ops, history>>

ModalTurn ==
    /\ TopIs("exec", "wait")
    /\ msg[Top.w] = 0
    /\ Depth < MaxDepth
    /\ Push(NewTurn)
    /\ UNCHANGED <<input, read, Event, Mouse, GSExit, ready, ended, executing, msg, starting, crashed,
                   ops, history>>

(* Mutant: the message stays in the buffer. *)
ModalReturnKeeps ==
    /\ TopIs("exec", "wait")
    /\ msg[Top.w] # 0
    /\ executing' = executing \ {Top.w}
    /\ Pop
    /\ UNCHANGED <<input, read, Event, Mouse, GSExit, ready, ended, msg, starting, crashed,
                   ops, history>>

ModalReturn ==
    /\ TopIs("exec", "wait")
    /\ msg[Top.w] # 0
    /\ executing' = executing \ {Top.w}
    /\ msg' = [msg EXCEPT ![Top.w] = 0]
    /\ Pop
    /\ UNCHANGED <<input, read, Event, Mouse, GSExit, ready, ended, starting, crashed, ops, history>>

-----------------------------------------------------------------------------
(* An application runs in a callback or in its Main. *)
InCallback == Running /\ stack # <<>> /\ Top.k = "turn" /\ Top.at \in Callbacks

AppRuns == (InCallback \/ TopIs("main", "app")) /\ ops < MaxOps

(* Mutant: no test of WFExecuting. *)
ExecuteAgain(w) ==
    /\ AppRuns /\ Depth + 1 < MaxDepth
    /\ executing' = executing \cup {w}
    /\ Push(NewExec(w))
    /\ ops' = ops + 1
    /\ UNCHANGED <<input, read, Event, Mouse, GSExit, ready, ended, msg, starting, crashed, history>>

(* WidgetExecute; for a window that is waiting already it returns 0.       *)
Execute(w) ==
    /\ AppRuns /\ Depth + 1 < MaxDepth
    /\ w \notin executing
    /\ executing' = executing \cup {w}
    /\ Push(NewExec(w))
    /\ ops' = ops + 1
    /\ UNCHANGED <<input, read, Event, Mouse, GSExit, ready, ended, msg, starting, crashed, history>>

(* WidgetSendEventEx to a window that waits; to another one it is the      *)
(* window's own handler that is called.                                    *)
Send(w, m) ==
    /\ AppRuns
    /\ w \in executing
    /\ msg' = [msg EXCEPT ![w] = m]
    /\ ops' = ops + 1
    /\ UNCHANGED <<input, read, Event, Mouse, GSExit, ready, ended, stack, executing, starting, crashed,
                   history>>

(* DynLdRun from an application, or from RegistryRunEntries at startup,    *)
(* and the return of Main.                                                 *)
StartApp ==
    /\ Running /\ ops < MaxOps /\ Depth < MaxDepth
    /\ AppRuns \/ (stack = <<>> /\ ~ ready)
    /\ Push(NewMain)
    /\ starting' = starting + 1
    /\ ops' = ops + 1
    /\ UNCHANGED <<input, read, Event, Mouse, GSExit, ready, ended, executing, msg, crashed, history>>

MainReturns ==
    /\ TopIs("main", "app")
    /\ Pop
    /\ starting' = starting - 1
    /\ UNCHANGED <<input, read, Event, Mouse, GSExit, ready, ended, executing, msg, crashed, ops, history>>

(* BreakApp from a callback, of an application that is starting or one     *)
(* that runs.                                                              *)
BreakApp ==
    /\ AppRuns /\ InCallback
    /\ Unwind
    /\ starting' \in {starting} \cup (IF starting > 0 THEN {starting - 1} ELSE {})
    /\ ops' = ops + 1
    /\ UNCHANGED <<input, read, Event, Mouse, GSExit, ready, ended, executing, msg,
                   got, merged, downs, ups>>

(* _SystemInit returns and setjmp is called. *)
SystemReady ==
    /\ Running /\ stack = <<>> /\ ~ ready
    /\ ready' = TRUE
    /\ UNCHANGED <<input, read, Event, Mouse, GSExit, ended, stack, executing, msg, starting, crashed,
                   ops, history>>

-----------------------------------------------------------------------------
User == Click \/ \E kind \in Kinds : Type(kind)

Application ==
    \/ \E w \in Windows : Execute(w) \/ \E m \in Messages : Send(w, m)
    \/ StartApp \/ BreakApp

Kernel ==
    \/ \E moved \in BOOLEAN : Poll(moved)
    \/ TimersDone \/ Launched \/ PollTasks
    \/ \E r \in BOOLEAN : Return(r)
    \/ MainReturns \/ SystemReady
    \/ Turn \/ LoopEnds \/ ModalTurn \/ ModalReturn

Next == User \/ Application \/ Kernel

Spec == Init /\ [][Next]_vars

(* The program runs, its callbacks and Mains return.  The user and what    *)
(* applications choose to do owe nothing.                                  *)
FairSpec == Spec /\ WF_vars(Kernel)

-----------------------------------------------------------------------------
(* Type invariant.  Every Main on the C stack belongs to an application in *)
(* state DYNLD_STRATING, so that DynLdTCP can find and break it.           *)
TypeOK ==
    /\ typed \in Seq(Kinds) /\ Len(typed) <= MaxKeys /\ read \in 0 .. Len(typed)
    /\ button \in BOOLEAN /\ clicks \in 0 .. MaxClicks
    /\ Event \in [type : SUBSET {"key", "mouse"}, key : 0 .. read]
    /\ Mouse \in [b : BOOLEAN, changes : BOOLEAN]
    /\ {GSExit, ready, ended, crashed} \subseteq BOOLEAN
    /\ stack \in Seq(Frames) /\ Depth <= MaxDepth
    /\ executing \subseteq Windows /\ msg \in [Windows -> Messages \cup {0}]
    /\ starting \in Nat /\ ops \in 0 .. MaxOps
    /\ Cardinality({i \in 1 .. Depth : stack[i].k = "main"}) <= starting
    /\ got \in [1 .. MaxKeys -> Nat] /\ merged \subseteq 1 .. MaxKeys
    /\ downs \in Nat /\ ups \in Nat /\ {upset, broken} \subseteq BOOLEAN

(* A key that has been read is passed to the focused widget, unless the    *)
(* mouse moved or clicked in the same turn: the widget handler compares    *)
(* the type with == and drops the two together.  A shortcut is never       *)
(* passed, although its event is shared with the turns around it.          *)
KeyLostOnlyToMouse ==
    \A n \in 1 .. read :
       IF typed[n] \in Shortcuts THEN got[n] = 0 ELSE got[n] > 0 \/ n \in merged

(* A key is passed a second time only by a handler of a mouse event whose  *)
(* callback ran the loop: it comes back to a shared Event that holds the   *)
(* key of the inner turn.                                                  *)
KeyRepeatedOnlyByStaleEvent ==
    [][ \A n \in 1 .. MaxKeys : got'[n] > got[n] /\ got[n] > 0 => Top.nested ]_vars

(* The widgets see presses and releases by turns, as long as no click came *)
(* together with a key, the loop did not run inside a notice that comes    *)
(* before the press, nor inside the callback of a press or a release that  *)
(* was then refused, and no callback was unwound.                          *)
ButtonsAlternate == ~ upset => ups <= downs /\ downs <= ups + 1

(* A window waits for one message at a time; and WFExecuting means that it *)
(* does, until BreakApp unwinds a WidgetExecute, whose window keeps it.    *)
WaitingOnce ==
    /\ \A i, j \in 1 .. Depth :
          stack[i].k = "exec" /\ stack[j].k = "exec" /\ stack[i].w = stack[j].w => i = j
    /\ Waiting \subseteq executing
    /\ ~ broken => executing = Waiting

(* A window that is executed finds no answer left over from the last time. *)
NoOldAnswer == \A w \in Windows : msg[w] # 0 => w \in executing

(* main.c, at setjmp: the return point is secure, nothing jumps there      *)
(* before it is set.                                                       *)
SecureReturnPoint == ~ crashed

(* Alt-X sets GSExit, in whatever loop and with whatever else it is read.  *)
AltXQuits ==
    (\E n \in 1 .. Len(typed) : typed[n] = "altx") ~> (GSExit \/ crashed)

Innermost(w) ==
    \E i \in 1 .. Depth : /\ stack[i].k = "exec" /\ stack[i].w = w
                          /\ \A j \in i + 1 .. Depth : stack[j].k # "exec"

(* A message for the innermost waiting window ends its WidgetExecute, or   *)
(* another window is executed on top of it.                                *)
InnermostAnswered ==
    \A w \in Windows : (Innermost(w) /\ msg[w] # 0) ~> (~ Innermost(w) \/ crashed)

(* main.c, at GSExit: setting it ends the main program loop.               *)
QuitEndsLoop == GSExit ~> (ended \/ crashed)
=============================================================================
