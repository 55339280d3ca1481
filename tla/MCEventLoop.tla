---------------------------- MODULE MCEventLoop ----------------------------
(* TLC instance of EventLoop; the constants are in MCEventLoop.cfg. *)
EXTENDS EventLoop
=============================================================================
