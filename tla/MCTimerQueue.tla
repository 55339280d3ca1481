---------------------------- MODULE MCTimerQueue ----------------------------
(* TLC instance of TimerQueue; the constants are in the .cfg files. *)
EXTENDS TimerQueue
=============================================================================
