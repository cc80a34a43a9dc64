CONSTANTS
    eth0 = eth0  eth1 = eth1  one = one  all = all  foreign = foreign
    Attachments = {eth0, eth1}
    Requests = {one, all}
    Covers <- MCCovers
    Junk = {foreign}
    MaxEntries = 2
    MaxCrashes = 1
    MaxRepeats = 1
SPECIFICATION Spec
INVARIANT NoDeletionLost
INVARIANT QueueBounded
INVARIANT NothingMissed
PROPERTY DeletedAtLast
