----------------------------- MODULE WidgetTree -----------------------------
(***************************************************************************)
(* The widget tree of src/xlib/widget.c: the children of a widget are a    *)
(* ring (module ListLinks), its head is the one in front.  An operation is *)
(* an operator from the state of the widget system to its next state.      *)
(*                                                                         *)
(* The tree has three levels: the desktop, what is on it (windows, and     *)
(* widgets that are no windows), and parts of those.  Only windows are     *)
(* selectable (window.c:794), and a window that is told that it is         *)
(* selected comes to the front (window.c:395-400).  Other handlers of      *)
(* select notices only draw.                                               *)
(***************************************************************************)
EXTENDS ListLinks, SequencesExt

CONSTANTS
    Widgets,    \* blocks a widget may be in
    DeskTop,
    Windows,
    Apps,
    AppOwner    \* the application a widget was made for

ASSUME WidgetAssumption ==
    /\ IsFiniteSet(Widgets) /\ NULL \notin Widgets
    /\ Windows \subseteq Widgets /\ DeskTop \in Widgets \ Windows
    /\ NULL \notin Apps
    /\ AppOwner \in [Widgets -> Apps \cup {NULL}] /\ AppOwner[DeskTop] = NULL

Pointers == Widgets \cup {NULL}

(* bad: "freed" or "null" if a widget that was freed, or none at all, has  *)
(* been read for a widget.  Nothing is known of what follows.              *)
Systems ==
    [live : SUBSET Widgets, fresh : SUBSET Widgets,
     parent : [Widgets -> Pointers], last : [Widgets -> Pointers],
     next : [Widgets -> Pointers], prev : [Widgets -> Pointers],
     selected : SUBSET Windows, focusFlag : SUBSET Widgets,
     top : Pointers, master : Pointers, focused : Pointers,
     dragging : BOOLEAN, caller : Pointers, bad : {"none", "freed", "null"}]

Alone == [w \in Widgets |-> NULL]

(* The desktop with nothing on it. *)
Bare == [live |-> {DeskTop}, fresh |-> Widgets \ {DeskTop},
         parent |-> Alone, last |-> Alone, next |-> Alone, prev |-> Alone,
         selected |-> {}, focusFlag |-> {}, top |-> NULL, master |-> NULL,
         focused |-> NULL, dragging |-> FALSE, caller |-> NULL, bad |-> "none"]

Ring(S, o) == [last |-> S.last[o], next |-> S.next, prev |-> S.prev]

WithRing(S, o, m) == [S EXCEPT !.last[o] = m.last, !.next = m.next, !.prev = m.prev]

Children(S, o) == {w \in S.live : S.parent[w] = o}

(* The children of o, the front one first. *)
Kids(S, o) == WalkAlong(S.next[S.last[o]], S.next, Cardinality(Children(S, o)))

FirstIn(s, T) ==
    LET hits == {k \in DOMAIN s : s[k] \in T}
    IN  IF hits = {} THEN NULL ELSE s[Min(hits)]

(* o and the widgets it is in, up to the desktop. *)
Path(S, o) ==
    LET p == S.parent[o] IN
    IF p = NULL THEN <<o>>
    ELSE IF S.parent[p] = NULL THEN <<o, p>> ELSE <<o, p, S.parent[p]>>

-----------------------------------------------------------------------------
RemoveWidgetEx(S, o, i) ==
    [WithRing(S, o, Unlink(Ring(S, o), i)) EXCEPT !.parent[i] = NULL]

_WidgetInsertBefore(S, o, i, b) ==
    [WithRing(S, o, LinkBefore(Ring(S, o), i, b)) EXCEPT !.parent[i] = o]

(* For an only child o->Last is NULL when its Next is read. *)
_WidgetSetFirstEx(S, o, i) ==
    LET R == RemoveWidgetEx(S, o, i) IN
    IF R.last[o] = NULL THEN [R EXCEPT !.bad = "null"]
    ELSE _WidgetInsertBefore(R, o, i, R.next[R.last[o]])

(* WidgetSelect at one widget of the path: WidgetSetFirst selects it again, *)
(* which changes nothing more, and the windows beside it are unselected.    *)
SelectOne(S, o) ==
    LET p == S.parent[o]
        A == IF o \in Windows /\ o \notin S.selected
             THEN _WidgetSetFirstEx([S EXCEPT !.selected = @ \cup {o}], p, o) ELSE S
    IN  IF S.bad # "none" \/ p = NULL THEN S
        ELSE [A EXCEPT !.selected = @ \ (Children(S, p) \ {o})]

(* Then at its parent.  What that is in is the desktop or nothing, where    *)
(* nothing is left to select.                                               *)
WidgetSelect(S, o) ==
    LET A == SelectOne(S, o)
    IN  IF S.parent[o] = NULL THEN A ELSE SelectOne(A, S.parent[o])

(* Insertion in front; no window in o stays selected, and o is. *)
_WidgetInsert(S, o, i) ==
    _WidgetInsertBefore([S EXCEPT !.selected = (@ \ Children(S, o)) \cup ({o} \cap Windows),
                                  !.live = @ \cup {i}, !.fresh = @ \ {i}],
                        o, i, IF S.last[o] = NULL THEN NULL ELSE S.next[S.last[o]])

(* If the widget was selected, the first window that is left is now. *)
_WidgetRemove(S, o, i) ==
    LET R == RemoveWidgetEx(S, o, i)
        w == FirstIn(Kids(R, o), Windows)
    IN  IF i \in S.selected /\ w # NULL THEN WidgetSelect(R, w) ELSE R

(* Memory without some widgets; what was in them is not looked at again. *)
Cleared(S, gone) ==
    LET without(f) == [w \in Widgets |-> IF w \in gone THEN NULL ELSE f[w]]
    IN  [S EXCEPT !.live = @ \ gone, !.selected = @ \ gone, !.focusFlag = @ \ gone,
                  !.parent = without(@), !.last = without(@),
                  !.next = without(@), !.prev = without(@)]

(* Mutant: MasterWidget is not looked at. *)
WidgetDisposeExMaster(S, o) ==
    LET gone == {w \in S.live : w = o \/ S.parent[w] = o}
        kept(p) == IF p \in gone THEN NULL ELSE p
    IN  [Cleared(S, gone) EXCEPT
                  !.top = kept(@), !.focused = kept(@)]

(* Mutant: only the widget itself is compared with TopWidget. *)
WidgetDisposeExShallow(S, o) ==
    LET gone == {w \in S.live : w = o \/ S.parent[w] = o}
        kept(p) == IF p \in gone THEN NULL ELSE p
    IN  [Cleared(S, gone) EXCEPT
                  !.top = IF @ = o THEN NULL ELSE @, !.master = kept(@), !.focused = kept(@)]

(* o and all below it: three references to them are cleared, DragCaller    *)
(* is not.                                                                 *)
WidgetDisposeEx(S, o) ==
    LET gone == {w \in S.live : w = o \/ S.parent[w] = o}
        kept(p) == IF p \in gone THEN NULL ELSE p
    IN  [Cleared(S, gone) EXCEPT
                  !.top = kept(@), !.master = kept(@), !.focused = kept(@)]

WidgetDispose(S, o) ==
    LET R == _WidgetRemove(S, S.parent[o], o)
    IN  IF R.bad # "none" THEN R ELSE WidgetDisposeEx(R, o)

-----------------------------------------------------------------------------
(* The walk of _DisposeAllAppWidgets over the children of o.  It goes to   *)
(* the Next that was read before a child was disposed of, and it ends at   *)
(* what is Last by then.  Turns bounds its turns.                          *)
Turns == Cardinality(Widgets) * Cardinality(Widgets)

DisposalWalks == [s : Systems, a : Pointers, on : BOOLEAN]

DisposalStep(X, o, Visit(_, _)) ==
    LET n == X.s.next[X.a]
        R == Visit(X.s, X.a)
    IN  IF ~ X.on \/ X.s.bad # "none" THEN X
        ELSE IF X.a \notin X.s.live THEN [X EXCEPT !.s.bad = "freed"]
        ELSE [s |-> R, a |-> n, on |-> n # R.last[o]]

DisposalWalk(S, o, Visit(_, _)) ==
    IF S.last[o] = NULL THEN S
    ELSE WalkAlong([s |-> S, a |-> S.last[o], on |-> TRUE],
                   [X \in DisposalWalks |-> DisposalStep(X, o, Visit)], Turns + 1)[Turns + 1].s

(* Mutant: one widget is disposed of, no more. *)
DisposeAllAppWidgetsOnce(S, app) ==
    LET child(R, w) == IF AppOwner[w] = app /\ R.live = S.live THEN WidgetDispose(R, w) ELSE R
    IN  DisposalWalk(S, DeskTop, child)

DisposeAllAppWidgets(S, app) ==
    LET owned(w) == AppOwner[w] = app
        part(R, w) == IF owned(w) THEN WidgetDispose(R, w) ELSE R
        child(R, w) == IF owned(w) THEN WidgetDispose(R, w) ELSE DisposalWalk(R, w, part)
    IN  DisposalWalk(S, DeskTop, child)
=============================================================================
