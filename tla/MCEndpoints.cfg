CONSTANTS
    a1 = a1  a2 = a2
    l1 = l1  l2 = l2  l3 = l3
    ip1 = ip1  ip2 = ip2
    pod = pod
    Attachments = {a1, a2}
    Addrs = {ip1, ip2}
    IdMax = 2
    Links = {l1, l2, l3}
    IndexOf <- MCIndexOf
    Owners = {pod}
    OwnerOf <- MCOwnerOf
    Pinned = TRUE
    None = None  Empty = Empty  Dead = Dead
SYMMETRY Symmetry
SPECIFICATION Spec
INVARIANTS IntentCoversKernel DiskOwnersUnique MemoryIsTrue
PROPERTY NothingLeftNothingCut
