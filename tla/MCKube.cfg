SPECIFICATION Spec
CONSTANTS
    Parts = {"watch", "routes", "identities", "annotations"}
    MaxVersion = 3
    MaxFaults = 1
    MaxLists = 2
    MaxEvents = 1
INVARIANTS
    ViewIsAVersion
    OwnersRespected
PROPERTIES
    AgentCatchesUp
CHECK_DEADLOCK FALSE
