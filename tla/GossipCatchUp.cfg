CONSTANTS
    StakeModulus = 64
    MAX_VALIDATORS = 4
    Stake <- Stakes_31
    Leader <- FirstLeads
    NoBlock = NoBlock
    Watched = {}
    RECENT_BLOCKS_CAP = 1
    Faulty = {}
    FaultyMessages <- NoMessages
    Dedup = FALSE
    Lossy = TRUE
    Bodies = {x}
    MaxHeight = 3
    MaxRound = 0
    Timed = {1, 2}
SPECIFICATION Spec
INVARIANTS
    RecentServesHead
PROPERTIES
    ImplementsVoting
