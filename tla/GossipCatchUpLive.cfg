CONSTANTS
    StakeModulus = 64
    MAX_VALIDATORS = 4
    Stake <- Stakes_31
    Leader <- OneLeads
    NoBlock = NoBlock
    Watched = {}
    RECENT_BLOCKS_CAP = 2
    Faulty = {}
    FaultyMessages <- NoMessages
    Dedup = TRUE
    Lossy = FALSE
    Bodies = {x}
    MaxHeight = 2
    MaxRound = 1
    Timed = {2}
SPECIFICATION FairSpec
PROPERTIES
    CatchUp
CHECK_DEADLOCK FALSE
