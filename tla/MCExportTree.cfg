CONSTANTS
    e1 = e1
    e2 = e2
    e3 = e3
    e4 = e4
    e5 = e5
    Runs = {r1, r2, r3}
    Exports = {e1, e2, e3, e4, e5}
    Key <- AssetKeys
    FoldKey <- Directories
    Files <- SomeFiles
    Fold <- Folded
    Selections <- SomeSelections
    None = None
SPECIFICATION TreeSpec
SYMMETRY Symmetry
CHECK_DEADLOCK FALSE
INVARIANTS
    IndexIsTrue
    SuccessIsComplete
    RerunIsAccepted
PROPERTIES
    NamesAreStable
