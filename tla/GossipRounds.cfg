CONSTANTS
    StakeModulus = 64
    MAX_VALIDATORS = 4
    Stake <- Stakes_211
    Leader <- ThirdLeads
    NoBlock = NoBlock
    Watched = {1}
    RECENT_BLOCKS_CAP = 2
    Faulty = {3}
    FaultyMessages <- Leads_3
    Dedup = FALSE
    Lossy = FALSE
    Bodies = {x, y}
    MaxHeight = 1
    MaxRound = 1
    Timed = {1, 2, 3}
SPECIFICATION Spec
INVARIANTS
    TypeOK
    EngineCoherent
    TalliesAreGenuine
    HonestNeverAccused
PROPERTIES
    ImplementsVoting
