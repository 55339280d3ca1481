----------------------- MODULE MCEventLoopThreadPool -----------------------
(* TLC instance of EventLoopThreadPool. *)
EXTENDS EventLoopThreadPool
=============================================================================
