-------------------------- MODULE ValidatorSetSpec --------------------------
(***************************************************************************)
(* Every validator set that ValidatorSet::new accepts, of at most MaxSize  *)
(* members with stakes up to MaxStake: what an engine may be given at boot *)
(* or at a rotation.  When an engine takes a set is not part of this       *)
(* module.                                                                 *)
(***************************************************************************)
EXTENDS ValidatorSet

CONSTANTS
    MaxSize,    \* bound on the members of a candidate set
    MaxStake    \* bound on the stake of a member

ASSUME BoundAssumption == MaxSize \in Nat /\ MaxStake \in Nat

VARIABLE vs   \* a set that new has built

Candidates == UNION {[1..k -> 0..MaxStake] : k \in 0..MaxSize}

Init == vs \in {c \in Candidates : New(c)}

\* A candidate that new refuses is an error: the caller keeps what it has.
Construct(c) == vs' = IF New(c) THEN c ELSE vs

Next == \E c \in Candidates : Construct(c)

Spec == Init /\ [][Next]_vs

-----------------------------------------------------------------------------
(* Two quorums of one set share more than a third of its stake, whatever   *)
(* the stakes, as long as doubling the total fits the integer type         *)
(* (quorum_threshold, bft.rs): the arithmetic fact all BFT safety needs.   *)
QuorumsOverlap ==
    2 * TotalStake(vs) < StakeModulus =>
        \A S, T \in SUBSET DOMAIN vs :
            IsQuorum(vs, S) /\ IsQuorum(vs, T)
                => 3 * SignerStake(vs, S \cap T) > TotalStake(vs)

(* The threshold is the weakest one with that property: a set of signers   *)
(* whose complement holds less than a third of the stake always passes, so *)
(* silent validators below one third cannot stop a quorum from forming.    *)
QuorumReachable ==
    2 * TotalStake(vs) < StakeModulus =>
        \A S \in SUBSET DOMAIN vs :
            3 * SignerStake(vs, DOMAIN vs \ S) < TotalStake(vs) => IsQuorum(vs, S)

(* select_leader is stake-weighted: of the total_stake values the reduced  *)
(* hash can take, exactly stake(i) elect validator i, so a member without  *)
(* stake never leads and the loop's fall-through is never taken.           *)
LeaderWeightedByStake ==
    \A i \in DOMAIN vs :
        Cardinality({p \in 0..(TotalStake(vs) - 1) : SelectLeader(vs, p) = i}) = vs[i]

=============================================================================
