------------------------------ MODULE MCPoller ------------------------------
(***************************************************************************)
(* TLC instance of Poller.  Channels a and b are built for the same        *)
(* descriptor, as Connector's and TcpConnection's are.                     *)
(***************************************************************************)
EXTENDS Poller

CONSTANTS a, b, c, f1, f2

MCFd == [x \in Channels |-> IF x = c THEN f2 ELSE f1]
=============================================================================
