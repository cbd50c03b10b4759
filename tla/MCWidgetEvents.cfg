CONSTANTS
    NULL = NULL
    Widgets = {"desktop", "window1", "window2", "field"}
    DeskTop = "desktop"
    Windows = {"window1", "window2"}
    Apps = {"editor", "player"}
    AppOwner <- MCOwner
    Focusable = {"window1", "window2", "field"}
    Orders <- MCOrders
    MaxDepth = 2
    MaxOps = 2
SPECIFICATION Spec
INVARIANTS TreeLinked FocusAgrees MouseOverOne FatalOnlyIf
PROPERTY CloseAppLeaves
CHECK_DEADLOCK FALSE
