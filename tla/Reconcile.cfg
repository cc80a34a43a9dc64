CONSTANTS
    me = me
    Keys = {k1, k2}
    Subs = {me}
    MaxRevision = 2
    Batched = TRUE
    Lossy = TRUE
SPECIFICATION Spec
INVARIANT NothingForgotten
INVARIANT ReportsAreTrue
SYMMETRY Symmetry
