------------------------------ MODULE MCSharedWork -----------------------------
(* A small instance of SharedWork for TLC.                                 *)
EXTENDS SharedWork

=============================================================================
