---------------------------- MODULE ValidatorSet ----------------------------
(***************************************************************************)
(* The stake-weighted validator set of aii-consensus-bft (bft.rs).  A set  *)
(* is the canonical `Vec<Validator>`, of which only the stakes matter      *)
(* here: `vs` is a sequence of stakes and a validator is an index of it.   *)
(* Stakes are unsigned integers with StakeModulus values (2^64 for u64).   *)
(***************************************************************************)
EXTENDS Integers, Sequences, FiniteSets

CONSTANTS
    StakeModulus,   \* number of values of the integer type that holds a stake
    MAX_VALIDATORS  \* size limit of a set (128: the width of the signer bitmap)

ASSUME WidthAssumption == StakeModulus \in Nat \ {0} /\ MAX_VALIDATORS \in Nat

\* Summed stake of the signers in S, counted unit by unit.
SignerStake(vs, S) == Cardinality(UNION {{i} \X (1..vs[i]) : i \in S})

TotalStake(vs) == SignerStake(vs, DOMAIN vs)

\* ValidatorSet::new builds the set: not empty, not too large, and the checked
\* sum of its stakes neither overflows nor is zero.
New(vs) ==
    /\ vs # << >>
    /\ Len(vs) <= MAX_VALIDATORS
    /\ TotalStake(vs) \in 1..(StakeModulus - 1)

\* A variant that drops the "+ 1".
QuorumThreshold_RoundedDown(vs) == ((TotalStake(vs) * 2) % StakeModulus) \div 3

\* A variant that asks for one unit too many.
QuorumThreshold_Strict(vs) == ((TotalStake(vs) * 2) % StakeModulus) \div 3 + 2

\* (2 * total) / 3 + 1 in the arithmetic of the stake type: the doubling wraps
\* in a release build.
QuorumThreshold(vs) == ((TotalStake(vs) * 2) % StakeModulus) \div 3 + 1

IsQuorum(vs, S) == SignerStake(vs, S) >= QuorumThreshold(vs)

\* A variant that compares with <=.
SelectLeader_AtSum(vs, pick) ==
    CHOOSE i \in DOMAIN vs :
        /\ pick <= SignerStake(vs, 1..i)
        /\ i = 1 \/ pick > SignerStake(vs, 1..(i - 1))

\* The first validator whose running stake sum exceeds `pick`, which stands
\* for the hash of (height, round, seed) reduced modulo the total stake.
SelectLeader(vs, pick) ==
    CHOOSE i \in DOMAIN vs :
        /\ pick < SignerStake(vs, 1..i)
        /\ i = 1 \/ pick >= SignerStake(vs, 1..(i - 1))

=============================================================================
