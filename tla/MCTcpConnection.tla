-------------------------- MODULE MCTcpConnection --------------------------
(* TLC instances of TcpConnection. *)
EXTENDS TcpConnection

\* The server in another loop and threads that only send; the server in the same
\* loop and threads that shut down as well.
UsesBoth == {[sameLoop |-> FALSE, foreign |-> {"send"}],
             [sameLoop |-> TRUE, foreign |-> {"send", "shutdown"}]}

UsesForce == {[sameLoop |-> FALSE, foreign |-> {"forceClose"}]}
UsesLateSend == {[sameLoop |-> FALSE, foreign |-> {"send", "shutdown"}]}

=============================================================================
