CONSTANTS
    StakeModulus = 64
    MAX_VALIDATORS = 3
    MaxSize = 4
    MaxStake = 5
SPECIFICATION Spec
INVARIANTS
    QuorumsOverlap
    QuorumReachable
    LeaderWeightedByStake
