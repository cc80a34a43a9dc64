CONSTANTS
    me = me
    Keys = {k1}
    Subs = {me}
    MaxRevision = 2
    Batched = FALSE
    Lossy = TRUE
SPECIFICATION Spec
PROPERTY Converges
