---------------------------- MODULE WidgetEvents ----------------------------
(***************************************************************************)
(* What the widget system does with a mouse event, a key, and a change of  *)
(* focus (src/xlib/widget.c:1040-1352), over the tree of WidgetTree.       *)
(*                                                                         *)
(* Each of these is a call that sends notices to widgets, one after the    *)
(* other, and between two notices it goes by TopWidget, FocusedWidget and  *)
(* DragCaller as they are by then.  While a handler has a notice it may do *)
(* whatever applications do: dispose of widgets, its own among them, or    *)
(* run the main loop, so that the next event is handled on top of it.      *)
(*                                                                         *)
(* Whether the mouse has moved and which of its buttons have changed is    *)
(* read from Mouse again before every notice; that is the subject of       *)
(* EventLoop, and here any answer is possible every time.                  *)
(***************************************************************************)
EXTENDS WidgetTree

CONSTANTS
    Focusable,
    Orders,     \* what is on the desktop at first, in the order of insertion
    MaxDepth,   \* bound on calls under way
    MaxOps      \* bound on what applications do

ASSUME WidgetEventsAssumption ==
    /\ Windows \subseteq Focusable /\ Focusable \subseteq Widgets
    /\ Orders \subseteq Seq(Widgets \ {DeskTop}) /\ \A s \in Orders : Distinct(s)
    /\ MaxDepth \in Nat \ {0} /\ MaxOps \in Nat

VARIABLES
    ws,         \* the widget system
    stack,      \* the calls under way, the innermost first
    ops,
    over,       \* history: widgets that were told the mouse entered, not that it left
    told,       \* history: widgets that were told they got the focus, not that they lost it
    cause       \* history: how freed memory or NULL came to be read

vars == <<ws, stack, ops, over, told, cause>>

(* A call: where it goes on, OldTopWidget or the widget that is focused,   *)
(* whose handler has a notice, how that was sent, and whether TopWidget    *)
(* was disposed of since the call began (history).                         *)
Places == {"focused", "left", "enter", "notices", "select", "button", "end",
           "dragleft", "dragenter", "dragmove", "drop", "data", "after", "cancel", "stop"}

Calls == [pc : Places, old : Pointers, at : Pointers,
          how : {"mouse", "message", "call"}, lost : BOOLEAN]

Call(pc, old) == [pc |-> pc, old |-> old, at |-> NULL, how |-> "call", lost |-> FALSE]

Fine == ws.bad = "none"

(* The innermost call runs; or an application does. *)
Runs(pc) == Fine /\ stack # <<>> /\ stack[1].at = NULL /\ stack[1].pc = pc

Acts == Fine /\ (stack # <<>> => stack[1].at # NULL)

Frame == stack[1]

GoesTo(pc) == stack' = [stack EXCEPT ![1].pc = pc]

Ends == stack' = Tail(stack)

(* w has a notice, and the call will go on at pc. *)
Sends(w, how, pc) == stack' = [stack EXCEPT ![1].pc = pc, ![1].at = w, ![1].how = how]

(* A pointer is used for a widget. *)
Breaks(w, why) ==
    /\ w \notin ws.live
    /\ ws' = [ws EXCEPT !.bad = IF w = NULL THEN "null" ELSE "freed"]
    /\ cause' = why
    /\ UNCHANGED <<stack, ops, over, told>>

Known == UNCHANGED <<ws, ops, told, cause>>

-----------------------------------------------------------------------------
(* A handler has returned.  A message that it did not take goes to the     *)
(* parent of the widget; WidgetSendEvent looks for one in any case.        *)
Back(taken) ==
    LET goes(pc) == [stack EXCEPT ![1].pc = pc, ![1].at = NULL, ![1].how = "call"] IN
    IF Frame.how = "message" /\ ~ taken /\ ws.parent[Frame.at] # NULL
    THEN [stack EXCEPT ![1].at = ws.parent[Frame.at]]
    ELSE IF Frame.pc = "end" \/ (Frame.pc = "button" /\ taken) THEN Tail(stack)
    ELSE goes(IF Frame.pc = "data" /\ ~ taken THEN "cancel" ELSE Frame.pc)

Returns(taken) ==
    /\ Fine /\ stack # <<>> /\ Frame.at # NULL
    /\ IF Frame.how # "call" /\ ~ taken /\ Frame.at \notin ws.live
       THEN Breaks(Frame.at, "own")
       ELSE stack' = Back(taken) /\ UNCHANGED <<ws, ops, over, told, cause>>

-----------------------------------------------------------------------------
(* WidgetSetFocus: o or the nearest focusable widget it is in. *)
FocusTarget(o) == FirstIn(Path(ws, o), Focusable)

(* Mutant: the widget that had the focus keeps its flag. *)
FocusedTwice(f) == [ws EXCEPT !.focused = f, !.focusFlag = @ \cup {f}]

Focused(f) == [ws EXCEPT !.focused = f, !.focusFlag = (@ \ {ws.focused}) \cup {f}]

(* WidgetSetFocus with the first notice it sends, if any; rest is what is  *)
(* on the stack below.                                                     *)
SetFocus(o, rest) ==
    LET f == FocusTarget(o)
        sent(w, pc) == <<[Call(pc, f) EXCEPT !.at = w, !.how = "message"]>> \o rest
    IN
    IF f = NULL
    THEN /\ stack' = IF ws.focused = NULL THEN rest ELSE sent(ws.focused, "end")
         /\ UNCHANGED <<ws, told>>
    ELSE IF f = ws.focused THEN stack' = rest /\ UNCHANGED <<ws, told>>
    ELSE /\ ws' = Focused(f)
         /\ told' = told \ {ws.focused}
         /\ stack' = IF ws.focused = NULL THEN <<Call("focused", f)>> \o rest
                     ELSE sent(ws.focused, "focused")

(* Mutant: the widget that was given the focus is told, not the one that   *)
(* has it by now.                                                          *)
NotifyFocusedOwn ==
    /\ Runs("focused")
    /\ IF Frame.old \notin ws.live THEN Ends /\ UNCHANGED told
       ELSE Sends(Frame.old, "message", "end") /\ told' = told \cup {Frame.old}
    /\ UNCHANGED <<ws, ops, over, cause>>

NotifyFocused ==
    /\ Runs("focused")
    /\ IF ws.focused = NULL THEN Ends /\ UNCHANGED told
       ELSE Sends(ws.focused, "message", "end") /\ told' = told \cup {ws.focused}
    /\ UNCHANGED <<ws, ops, over, cause>>

KeyEvent ==
    /\ Acts /\ Len(stack) < MaxDepth /\ ws.focused # NULL
    /\ stack' = <<[Call("end", NULL) EXCEPT !.at = ws.focused, !.how = "message"]>> \o stack
    /\ UNCHANGED <<ws, ops, over, told, cause>>

-----------------------------------------------------------------------------
(* Where the handling of a mouse event begins. *)
FirstPlace(top) ==
    IF top = ws.top THEN IF ws.dragging THEN "dragmove" ELSE "notices"
    ELSE IF ws.top = NULL THEN IF ws.dragging THEN "dragenter" ELSE "enter"
    ELSE IF ws.dragging THEN "dragleft" ELSE "left"

(* Mutant: OldTopWidget is read when TopWidget has been set. *)
MouseEventLate(t) ==
    LET top == IF ws.master # NULL THEN ws.master ELSE t IN
    /\ Acts /\ Len(stack) < MaxDepth /\ t \in ws.live
    /\ ws' = [ws EXCEPT !.top = top]
    /\ stack' = <<Call(FirstPlace(top), top)>> \o stack
    /\ UNCHANGED <<ops, over, told, cause>>

(* A mouse event with the pointer over t. *)
MouseEvent(t) ==
    LET top == IF ws.master # NULL THEN ws.master ELSE t IN
    /\ Acts /\ Len(stack) < MaxDepth /\ t \in ws.live
    /\ ws' = [ws EXCEPT !.top = top]
    /\ stack' = <<Call(FirstPlace(top), IF top = ws.top THEN NULL ELSE ws.top)>> \o stack
    /\ UNCHANGED <<ops, over, told, cause>>

Left ==
    /\ Runs("left") \/ Runs("dragleft")
    /\ Sends(Frame.old, "mouse", IF Frame.pc = "left" THEN "enter" ELSE "dragenter")
    /\ over' = over \ {Frame.old}
    /\ Known

(* In a drag OldTopWidget loses a flag after its handler has run. *)
LeftFlag ==
    /\ Runs("dragenter") /\ Frame.old # NULL
    /\ Breaks(Frame.old, "drag")

Enter ==
    /\ Runs("enter") \/ (Runs("dragenter") /\ Frame.old \in ws.live \cup {NULL})
    /\ IF ws.top \notin ws.live THEN Breaks(ws.top, "top")
       ELSE /\ stack' = [stack EXCEPT ![1] =
                   [Frame EXCEPT !.pc = IF @ = "enter" THEN "notices" ELSE "drop",
                             !.old = NULL, !.at = ws.top, !.how = "mouse"]]
            /\ over' = over \cup {ws.top} /\ Known

(* Wheel messages and moves. *)
Notice ==
    /\ Runs("notices") \/ Runs("dragmove")
    /\ IF ws.top \notin ws.live THEN Breaks(ws.top, "top")
       ELSE /\ Sends(ws.top, "mouse", IF Frame.pc = "notices" THEN "notices" ELSE "drop")
            /\ Known /\ UNCHANGED over

NoButton ==
    /\ Runs("notices") /\ Ends
    /\ Known /\ UNCHANGED over

(* WidgetSetFocus(TopWidget), then WidgetSelect(TopWidget). *)
Press ==
    /\ Runs("notices")
    /\ IF ws.top \notin ws.live THEN Breaks(ws.top, "top")
       ELSE /\ SetFocus(ws.top, [stack EXCEPT ![1].pc = "select"])
            /\ UNCHANGED <<ops, over, cause>>

Select ==
    /\ Runs("select")
    /\ IF ws.top \notin ws.live THEN Breaks(ws.top, "top")
       ELSE /\ ws' = WidgetSelect(ws, ws.top)
            /\ cause' = IF ws'.bad # "none" THEN "first" ELSE cause
            /\ GoesTo("button")
            /\ UNCHANGED <<ops, over, told>>

(* if ( !TopWidget ) return *)
Release ==
    /\ Runs("notices")
    /\ IF ws.top = NULL THEN Ends ELSE GoesTo("button")
    /\ Known /\ UNCHANGED over

Button ==
    /\ Runs("button")
    /\ IF ws.top \notin ws.live THEN Breaks(ws.top, "top")
       ELSE Sends(ws.top, "mouse", "button") /\ Known /\ UNCHANGED over

NoMoreButtons ==
    /\ Runs("button") /\ Ends
    /\ Known /\ UNCHANGED over

-----------------------------------------------------------------------------
(* The end of a drag: DragBeforeDrop, DropData, DragAfterDrop, or a notice *)
(* that it is cancelled.                                                   *)
NoDrop ==
    /\ (Runs("dragmove") \/ Runs("drop")) /\ Ends
    /\ Known /\ UNCHANGED over

Drop(accepted) ==
    /\ (Runs("dragmove") \/ Runs("drop"))
    /\ IF ws.top \notin ws.live THEN Breaks(ws.top, "top")
       ELSE IF accepted /\ ws.caller \notin ws.live THEN Breaks(ws.caller, "caller")
       ELSE /\ IF accepted THEN Sends(ws.caller, "call", "data") ELSE GoesTo("cancel")
            /\ Known /\ UNCHANGED over

Cancel ==
    /\ Runs("cancel")
    /\ IF ws.caller \notin ws.live THEN Breaks(ws.caller, "caller")
       ELSE Sends(ws.caller, "mouse", "stop") /\ Known /\ UNCHANGED over

DropData ==
    /\ Runs("data")
    /\ IF ws.top \notin ws.live THEN Breaks(ws.top, "top")
       ELSE Sends(ws.top, "call", "after") /\ Known /\ UNCHANGED over

DragAfterDrop ==
    /\ Runs("after")
    /\ IF ws.caller \notin ws.live THEN Breaks(ws.caller, "caller")
       ELSE Sends(ws.caller, "call", "stop") /\ Known /\ UNCHANGED over

Dropped(S) == [S EXCEPT !.dragging = FALSE, !.caller = NULL]

DragStop ==
    /\ Runs("stop") /\ Ends
    /\ ws' = IF ws.dragging THEN Dropped(ws) ELSE ws
    /\ UNCHANGED <<ops, over, told, cause>>

-----------------------------------------------------------------------------
(* What applications do: in a handler, a timer, or their Main. *)
Does == Acts /\ ops < MaxOps /\ ops' = ops + 1

(* The tree becomes S. *)
Become(S, why) ==
    /\ ws' = S
    /\ stack' = [i \in DOMAIN stack |->
                    [stack[i] EXCEPT !.lost = @ \/ (ws.top # NULL /\ S.top = NULL)]]
    /\ cause' = IF S.bad # "none" THEN why ELSE cause
    /\ over' = over \cap S.live /\ told' = told \cap S.live

Insert(o, i) ==
    /\ Does /\ o \in ws.live /\ i \in ws.fresh
    /\ o = DeskTop \/ (i \notin Windows /\ ws.parent[o] = DeskTop)
    /\ Become(_WidgetInsert(ws, o, i), "insert")

Dispose(o) ==
    /\ Does /\ o \in ws.live \ {DeskTop}
    /\ Become(WidgetDispose(ws, o), "first")

CloseApp(app) ==
    /\ Does
    /\ Become(DisposeAllAppWidgets(ws, app), "close")

WidgetSetFirst(o) ==
    /\ Does /\ o \in ws.live \cap Windows
    /\ LET S == _WidgetSetFirstEx(ws, ws.parent[o], o) IN
       Become(IF S.bad # "none" THEN S ELSE WidgetSelect(S, o), "first")

WidgetSetFocus(o) ==
    /\ Does /\ o \in ws.live /\ Len(stack) < MaxDepth
    /\ SetFocus(o, stack)
    /\ UNCHANGED <<over, cause>>

(* A scroll bar, a slider or a window that is dragged takes all mouse      *)
(* events, until it lets go of them.                                       *)
MasterWidget(p) ==
    /\ Does /\ stack # <<>> /\ Frame.how = "mouse" /\ Frame.at \in ws.live
    /\ p \in {NULL, Frame.at} /\ p # ws.master
    /\ ws' = [ws EXCEPT !.master = p]
    /\ UNCHANGED <<stack, over, told, cause>>

(* DragStart ends the drag before it, and looks at TopWidget. *)
DragStart ==
    /\ Does /\ stack # <<>> /\ Frame.how = "mouse" /\ Frame.at \in ws.live
    /\ ws' = [ws EXCEPT !.dragging = TRUE, !.caller = Frame.at,
                        !.bad = IF ws.top = NULL THEN "null" ELSE @]
    /\ cause' = IF ws.top = NULL THEN "top" ELSE cause
    /\ UNCHANGED <<stack, over, told>>

-----------------------------------------------------------------------------
(* The desktop with s put on it, the first one first. *)
Filled(s) ==
    LET with[k \in 0 .. Len(s)] ==
            IF k = 0 THEN Bare ELSE _WidgetInsert(with[k - 1], DeskTop, s[k])
    IN  with[Len(s)]

Init ==
    /\ \E s \in Orders : ws = Filled(s)
    /\ stack = <<>> /\ ops = 0 /\ over = {} /\ told = {} /\ cause = "none"

Next ==
    \/ \E taken \in BOOLEAN : Returns(taken)
    \/ NotifyFocused \/ KeyEvent
    \/ \E t \in Widgets : MouseEvent(t)
    \/ Left \/ LeftFlag \/ Enter \/ Notice \/ NoButton \/ Press \/ Select
    \/ Release \/ Button \/ NoMoreButtons
    \/ NoDrop \/ (\E accepted \in BOOLEAN : Drop(accepted)) \/ Cancel
    \/ DropData \/ DragAfterDrop \/ DragStop
    \/ \E o, i \in Widgets : Insert(o, i)
    \/ \E o \in Widgets : Dispose(o) \/ WidgetSetFirst(o) \/ WidgetSetFocus(o)
    \/ \E app \in Apps : CloseApp(app)
    \/ \E p \in Pointers : MasterWidget(p)
    \/ DragStart

Spec == Init /\ [][Next]_vars

-----------------------------------------------------------------------------
TypeOK ==
    /\ ws \in Systems
    /\ stack \in Seq(Calls) /\ Len(stack) <= 2 * MaxDepth
    /\ ops \in 0 .. MaxOps
    /\ over \subseteq Widgets /\ told \subseteq Widgets
    /\ cause \in {"none", "own", "drag", "top", "caller", "first", "insert", "close"}

(* The children of every widget are one ring that agrees in both           *)
(* directions and ends at Last, and every widget but the desktop is in the *)
(* ring of its parent: through insertion, disposal, and windows that come  *)
(* to the front because another one was disposed of or pressed on          *)
(* (widget.c:577-708).                                                     *)
TreeLinked ==
    /\ TypeOK
    /\ Fine =>
      /\ \A o \in ws.live : LET s == Kids(ws, o) IN
            Range(s) = Children(ws, o) /\ Distinct(s) /\ Linked(Ring(ws, o), s)
      /\ \A w \in ws.live \ {DeskTop} : ws.parent[w] \in ws.live

(* The references that the widget system keeps lead to widgets that are    *)
(* there, the focused widget is the one with the flag, and it is the only  *)
(* one that can think it has the focus: whatever handlers do to widgets    *)
(* and to the focus while they are told of a change (widget.c:1040-1091,   *)
(* 1368-1394).                                                             *)
FocusAgrees ==
    Fine =>
      /\ {ws.top, ws.master, ws.focused} \subseteq ws.live \cup {NULL}
      /\ ws.focusFlag = {ws.focused} \ {NULL}
      /\ told \subseteq {ws.focused}

(* At most one widget thinks the mouse is over it, and that is TopWidget:  *)
(* what was entered has been left when another one is entered, also when   *)
(* events are handled inside the handlers of an event (widget.c:1150-1257).*)
MouseOverOne ==
    Fine => Cardinality(over) <= 1 /\ (stack = <<>> => over \subseteq {ws.top})

(* What is freed is read in few ways: a handler has disposed of its own    *)
(* widget and not taken the event; in a drag, OldTopWidget's handler has,  *)
(* or the widget that started it is gone; the walk of DisposeAllAppWidgets *)
(* has emptied a ring.  TopWidget and FocusedWidget are never among them.  *)
(* TopWidget is NULL where it is used only if some handler of this very    *)
(* event disposed of a TopWidget (widget.c:1150-1340 tests it once).       *)
FatalOnlyIf ==
    /\ ws.bad = "freed" => cause \in {"own", "drag", "caller", "close"}
    /\ ws.bad = "null" /\ cause = "top" => stack[1].lost

(* DisposeAllAppWidgets leaves nothing of the application and takes nothing *)
(* but what is in its widgets, provided that no ring has one of them at     *)
(* Last and that none of its windows is selected: then the end of a walk    *)
(* stays where it is, and no window is moved behind it (widget.c:1418-1435).*)
CloseAppLeaves ==
    [][ \A app \in Apps : CloseApp(app) =>
          LET mine == {w \in ws.live : AppOwner[w] = app}
              ends == {o \in ws.live : ws.last[o] \in mine}
          IN  ends = {} /\ mine \cap ws.selected = {} =>
                ws'.live = {w \in ws.live : w \notin mine /\ ws.parent[w] \notin mine} ]_vars
=============================================================================
