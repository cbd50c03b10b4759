----------------------------- MODULE MCRegistry -----------------------------
(* Registry with the names "x", "X" and "y".  The default tree has a       *)
(* directory of startup entries, "X", with two of them, and nothing else,  *)
(* so that a path through "x" can get a directory beside it.               *)
EXTENDS Registry

MCFold(n) == IF n = "X" THEN "x" ELSE n

MCDefaults == << <<"X", "x">>, <<"X", "y">> >>

MCStartup == <<"X">>
=============================================================================
