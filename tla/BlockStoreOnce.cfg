CONSTANTS
    Ids = {x}
    Touched = {alice, bob}
    Prefunded = {alice}
    MAX_BLOCKS_IN_MEMORY = 2
    MaxHeight = 3
    MaxCrashes = 1
    MaxFailures = 0
SPECIFICATION StoreSpec
INVARIANT
    ExactlyOnce
CHECK_DEADLOCK FALSE
