CONSTANTS
    Keys = {k1, k2}
    Subs = {s1}
    MaxRevision = 3
    MaxTombstones = 1
SPECIFICATION Spec
INVARIANT StreamsHold
PROPERTY ImplementsFeed
PROPERTY Converges
