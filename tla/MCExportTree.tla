----------------------------- MODULE MCExportTree ------------------------------
(* A small instance of ExportTree for TLC: two versions of one key, whose  *)
(* first file has one name, a key with a name that differs in case only    *)
(* from another one's, a key whose directory does, and an empty export.    *)
EXTENDS ExportTree, TLC

CONSTANTS e1, e2, e3, e4, e5

File(n, x) == [name |-> n, artifact |-> x, content |-> x]

AssetKeys == e1 :> "a" @@ e2 :> "a" @@ e3 :> "b" @@ e4 :> "c" @@ e5 :> "A"
Directories == "a" :> "a" @@ "b" :> "b" @@ "c" :> "c" @@ "A" :> "a"
Folded == "a/x" :> "a/x" @@ "a/y" :> "a/y" @@ "b/z" :> "b/z" @@ "b/Z" :> "b/z"
          @@ "A/w" :> "a/w"

SomeFiles ==
    e1 :> {File("a/x", "x1"), File("a/y", "y1")}
    @@ e2 :> {File("a/x", "x2")}
    @@ e3 :> {File("b/z", "z1"), File("b/Z", "z2")}
    @@ e4 :> {}
    @@ e5 :> {File("A/w", "w1")}

SomeSelections == {{e1, e4}, {e2}, {e1, e3}, {e4, e5}}

Symmetry == Permutations(Runs)

=============================================================================
