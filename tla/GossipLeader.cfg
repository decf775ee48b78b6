CONSTANTS
    StakeModulus = 64
    MAX_VALIDATORS = 4
    Stake <- Stakes_211
    Leader <- FirstLeads
    NoBlock = NoBlock
    Watched = {}
    RECENT_BLOCKS_CAP = 2
    Faulty = {3}
    FaultyMessages <- Reuses_3
    Dedup = FALSE
    Lossy = FALSE
    Bodies = {x, y}
    MaxHeight = 1
    MaxRound = 0
    Timed = {1, 2, 3}
SPECIFICATION Spec
INVARIANTS
    TalliesAreGenuine
PROPERTIES
    ImplementsVoting
