---------------------------- MODULE MCEventLoop -----------------------------
(* EventLoop with two modal windows and a stack of five frames: a turn, a  *)
(* modal window in one of its callbacks, a turn of that window's loop, a   *)
(* second window or an application in it, and its turn.                    *)
EXTENDS EventLoop
=============================================================================
