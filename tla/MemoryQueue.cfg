SPECIFICATION FairSpec
CONSTANTS
    Ids = {a, b}
    Consumers = {s1, s2}
    NoId = none
    Cap = 2
    MaxSwaps = 2
INVARIANTS
    TypeOK
    PendingIsDeliverable
    NoLostWake
PROPERTY WakeIsServed
