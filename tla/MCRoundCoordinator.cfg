CONSTANTS
    StakeModulus = 64
    MAX_VALIDATORS = 3
    Stake <- MCStake
    Leader <- MCLeader
    NoBlock = NoBlock
    Blocks = {b1, b2}
    Height = 1
    MaxRound = 2
SPECIFICATION Spec
INVARIANTS
    TypeOK
    FinalityIsTwoPhase
    LockHasPolc
PROPERTIES
    LockAdvances
    CommitIsTerminal
CHECK_DEADLOCK FALSE
