------------------------------ MODULE MCDynLd -------------------------------
(* DynLd with a widget library, a console library that needs it and exports *)
(* with SYSEXPORT, a windowed program and a console program.                *)
EXTENDS DynLd

MCFiles == {"widget", "conlib", "editor", "console"}
MCLibs == {"widget", "conlib"}
MCNeeds == [f \in MCFiles |-> CASE f = "widget" -> <<>>
                                [] f = "conlib" -> <<"widget">>
                                [] f = "editor" -> <<"widget">>
                                [] f = "console" -> <<"widget", "conlib">>]
MCImports == [f \in MCFiles |-> CASE f = "widget" -> {}
                                  [] f = "conlib" -> {"widget"}
                                  [] f = "editor" -> {"widget"}
                                  [] f = "console" -> {"conlib"}]
MCAnonymous == {"conlib"}
=============================================================================
