------------------------------- MODULE MCUpload -------------------------------
(* A small instance of Upload for TLC: two trees of which only one has k1  *)
(* and which disagree on k2.                                               *)
EXTENDS Upload, TLC

CONSTANTS t1, t2, k1, k2, x1, x2

TwoTrees == (t1 :> (k1 :> x1 @@ k2 :> x1)) @@ (t2 :> (k2 :> x2))

=============================================================================
