CONSTANTS
    Ids = {x}
    Touched = {alice, bob}
    Prefunded = {alice}
    MAX_BLOCKS_IN_MEMORY = 2
    MaxHeight = 3
    MaxCrashes = 1
    MaxFailures = 0
SPECIFICATION StoreSpec
PROPERTY
    RestartKeepsAccounts
CHECK_DEADLOCK FALSE
