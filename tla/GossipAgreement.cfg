CONSTANTS
    StakeModulus = 64
    MAX_VALIDATORS = 4
    Stake <- Stakes_211
    Leader <- OneLeads
    NoBlock = NoBlock
    Watched = {}
    RECENT_BLOCKS_CAP = 2
    Faulty = {3}
    FaultyMessages <- Late_3
    Dedup = FALSE
    Lossy = FALSE
    Bodies = {x}
    MaxHeight = 1
    MaxRound = 1
    Timed = {1, 2, 3}
SPECIFICATION Spec
INVARIANTS
    Agreement
