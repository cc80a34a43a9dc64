SPECIFICATION Spec
CONSTANTS
    Parts = {"maps", "nodeport", "services", "maglev"}
    MaxChanges = 3
    FlowSets <- MCFlowSets
    Cpus = {"u1", "u2"}
    MaxEvicted = 1
INVARIANTS
    LookupSound
    FlowsSound
PROPERTIES
    MapsConverge
