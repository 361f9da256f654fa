SPECIFICATION Spec
CONSTANTS
    a = a
    b = b
    x = x
    X = X
    Names = {a, b}
    Refs = {a, b, x, X}
    Fold <- FoldCase
    Found <- FoundOne
    MaxFailures = 2
    MaxCrashes = 2
    None = None
INVARIANTS
    IndexExact
    RefSpaceUnique
    ServedAsPromised
    NoHalfDirectory
CHECK_DEADLOCK FALSE
