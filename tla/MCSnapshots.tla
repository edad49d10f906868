------------------------------ MODULE MCSnapshots ------------------------------
(* A small instance of Snapshots for TLC.                                  *)
EXTENDS Snapshots, TLC

Symmetry == Permutations(Refreshes) \cup Permutations(Users)

=============================================================================
