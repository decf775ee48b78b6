CONSTANTS
    StakeModulus = 64
    MAX_VALIDATORS = 4
    Stake <- MCStake
    Faulty = {3}
    Bodies = {x, y}
    MaxHeight = 1
    MaxRound = 1
SPECIFICATION Spec
INVARIANTS
    TypeOK
    NoEquivocation
    RoundAgreement
    ChainIsJustified
CHECK_DEADLOCK FALSE
