CONSTANTS
    a1 = a1  a2 = a2  pod = pod
    Attachments = {a1, a2}
    Owners = {pod}
    OwnerOf <- MCOwnerOf
    Capacity <- MCCapacity
    Excluded <- MCExcluded
    Free = Free  Infra = Infra  NoEndpoint = NoEndpoint
    MaxCalls = 3
    MaxCrashes = 1
    MaxBacklog = 2
SPECIFICATION Spec
INVARIANT AddHolds
SYMMETRY Symmetry
PROPERTY RollbackKeepsEndpoint
