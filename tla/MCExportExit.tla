----------------------------- MODULE MCExportExit -----------------------------
(* Small instance of ExportExit for TLC.                                   *)
EXTENDS ExportExit, TLC

Symmetry == Permutations(Producers)

=============================================================================
