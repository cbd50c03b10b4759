---------------------------- MODULE MCTimerQueue ----------------------------
(* TimerQueue with three timer blocks and two walks at a time, and, for the *)
(* liveness properties, with two blocks.                                    *)
EXTENDS TimerQueue, TLC

Blocks == Permutations(Timers)
=============================================================================
