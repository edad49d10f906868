---------------------------- MODULE MCExportStore -----------------------------
(* A small instance of ExportStore for TLC.                                *)
EXTENDS ExportStore

=============================================================================
