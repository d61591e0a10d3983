SPECIFICATION FairSpec
CONSTANTS
    Requests = {r1, r2, r3}
    Spacing = 1
    RetryAfters = {1, 2}
    MaxPosts = 1
INVARIANTS
    OneGetAtATime
PROPERTIES
    StartsInOrder
    EveryCallEnds
CHECK_DEADLOCK FALSE
