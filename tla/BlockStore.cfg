CONSTANTS
    Ids = {x, y}
    Touched = {alice, bob}
    Prefunded = {alice}
    MAX_BLOCKS_IN_MEMORY = 2
    MaxHeight = 3
    MaxCrashes = 2
    MaxFailures = 1
SPECIFICATION StoreSpec
INVARIANTS
    StoreTypeOK
    HeadResolvable
    NeverTwice
    NeverBothForks
CHECK_DEADLOCK FALSE
