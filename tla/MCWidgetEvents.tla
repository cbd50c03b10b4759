--------------------------- MODULE MCWidgetEvents ---------------------------
(* WidgetEvents with a desktop, two windows of two programs, and a field   *)
(* of the first program, which lies on the desktop or is put into a window. *)
EXTENDS WidgetEvents

MCOwner == [w \in Widgets |-> CASE w = "desktop" -> NULL
                               [] w \in {"window1", "field"} -> "editor"
                               [] w = "window2" -> "player"]

MCOrders == {<<"window2", "window1">>}
=============================================================================
