---------------------------- MODULE MCChildProcess -----------------------------
(* A small instance of ChildProcess for TLC.                               *)
EXTENDS ChildProcess

=============================================================================
