----------------------- MODULE RoundCoordinatorProofs -----------------------
(***************************************************************************)
(* The coordinator's guarantees for every validator set, any number of     *)
(* blocks and any number of rounds.                                        *)
(*                                                                         *)
(* The invariant says of every phase what the talliers hold: only votes    *)
(* heard for the block and round under vote, none of a phase that has not  *)
(* begun, and a quorum in every phase that is over.                        *)
(***************************************************************************)
EXTENDS RoundCoordinatorSpec, QuorumLemmas

HeardIsKnown ==
    \A v \in heard.prevote \cup heard.precommit : v.from \in Validators

TalliesAreHeard ==
    /\ coord.prevotes \subseteq VotersFor("prevote", coord.block, coord.round)
    /\ coord.precommits \subseteq VotersFor("precommit", coord.block, coord.round)

PhaseInv ==
    /\ coord.phase \in {"AwaitingProposal", "Prevoting"} =>
        /\ coord.precommits = {}
        /\ coord.locked = NoLock \/ coord.locked.round < coord.round
    /\ coord.phase = "AwaitingProposal" => coord.prevotes = {}
    /\ coord.phase \in {"Precommitting", "Committed"} =>
        /\ IsQuorum(Stake, coord.prevotes)
        /\ coord.locked = [block |-> coord.block, round |-> coord.round]
    /\ coord.phase = "Committed" => IsQuorum(Stake, coord.precommits)

\* The lock is on a block that a PRE-VOTE quorum was heard for.
LockInv ==
    coord.locked # NoLock =>
        /\ coord.locked.round <= coord.round
        /\ IsQuorum(Stake, VotersFor("prevote", coord.locked.block, coord.locked.round))

IInv == TypeOK /\ HeardIsKnown /\ TalliesAreHeard /\ PhaseInv /\ LockInv

-----------------------------------------------------------------------------
(* More signers are a quorum, too (quorum_threshold does not depend on the *)
(* signers).                                                               *)
LEMMA QuorumMonotone ==
    ASSUME NEW T \in SUBSET Validators, NEW S \in SUBSET T, IsQuorum(Stake, S)
    PROVE  IsQuorum(Stake, T)
<1>1. Stake \in Seq(Nat)
  BY Zenon, StakeAssumption
<1>2. T \in SUBSET DOMAIN Stake /\ S \in SUBSET DOMAIN Stake
  BY Zenon DEF Validators
<1>3. SignerStake(Stake, S) <= SignerStake(Stake, T)
  BY Zenon, <1>1, <1>2, StakeMonotone
<1>4. SignerStake(Stake, S) \in Nat /\ SignerStake(Stake, T) \in Nat
  BY Zenon, <1>1, <1>2, UnitsFinite
<1>5. QuorumThreshold(Stake) \in Int
  <2>1. TotalStake(Stake) \in Nat
    BY Zenon, <1>1, UnitsFinite DEF TotalStake
  <2> QED
    BY <2>1, WidthAssumption DEF QuorumThreshold
<1> QED
  BY <1>3, <1>4, <1>5 DEF IsQuorum

(* A new coordinator satisfies the invariant.                              *)
LEMMA InitIInv == Init => IInv
<1> SUFFICES ASSUME Init PROVE IInv
  BY Zenon
<1> USE DEF Init, NewCoordinator
<1>1. TypeOK
  BY HostAssumption DEF TypeOK, Phases, NoLock
<1>2. HeardIsKnown
  BY Zenon DEF HeardIsKnown
<1>3. TalliesAreHeard
  BY Zenon DEF TalliesAreHeard
<1>4. PhaseInv
  BY Zenon DEF PhaseInv
<1>5. LockInv
  BY Zenon DEF LockInv
<1> QED
  BY Zenon, <1>1, <1>2, <1>3, <1>4, <1>5 DEF IInv

(* submit_proposal starts a tally with no votes.                           *)
LEMMA ProposalKeeps ==
    ASSUME IInv, NEW b \in Blocks, NEW p \in Proofs, ReceiveProposal(b, p)
    PROVE  IInv'
<1> USE DEF IInv, ReceiveProposal, ProposalOk, SubmitProposal
<1>1. TypeOK'
  BY Zenon DEF TypeOK, Phases
<1>2. HeardIsKnown'
  BY Zenon DEF HeardIsKnown
<1>3. TalliesAreHeard' /\ PhaseInv'
  BY Zenon DEF TypeOK, TalliesAreHeard, PhaseInv
<1>4. LockInv'
  BY Zenon DEF TypeOK, LockInv, VotersFor
<1> QED
  BY Zenon, <1>1, <1>2, <1>3, <1>4

(* submit_prevote: a vote is counted, and the quorum it may complete is a  *)
(* POLC that becomes the lock.                                             *)
LEMMA PrevoteKeeps ==
    ASSUME IInv, NEW v \in Votes, ReceivePrevote(v)
    PROVE  IInv'
<1> DEFINE received == coord.prevotes \cup {v.from}
<1> USE DEF IInv
<1>1. /\ coord.phase = "Prevoting" /\ Tallies(coord, coord.prevotes, v)
      /\ heard' = [heard EXCEPT !.prevote = @ \cup {v}]
      /\ coord' = SubmitPrevote(coord, v)
  BY Zenon DEF ReceivePrevote, PrevoteOk
<1>2. /\ v.block = coord.block /\ v.height = Height /\ v.round = coord.round
      /\ v.from \in Validators /\ v.signed
  BY Zenon, <1>1 DEF Tallies, TypeOK
<1>3. /\ heard'.prevote = heard.prevote \cup {v}
      /\ heard'.precommit = heard.precommit
      /\ heard' \in [prevote : SUBSET Votes, precommit : SUBSET Votes]
  BY Zenon, <1>1 DEF TypeOK
<1>4. /\ coord'.height = coord.height /\ coord'.block = coord.block
      /\ coord'.round = coord.round /\ coord'.prevotes = received
      /\ coord'.precommits = {}
  <2>1. coord.precommits = {}
    BY Zenon, <1>1 DEF PhaseInv
  <2> QED
    BY Zenon, <1>1, <2>1 DEF SubmitPrevote, TypeOK
<1>5. received \in SUBSET Validators
  BY Zenon, <1>2 DEF TypeOK
<1>6. TypeOK'
  <2>1. Relock(coord) \in [block : Blocks \cup {NoBlock}, round : 0..MaxRound]
    BY Zenon DEF Relock, TypeOK
  <2> QED
    BY Zenon, <1>1, <1>3, <1>5, <2>1 DEF TypeOK, SubmitPrevote, Phases
<1>7. HeardIsKnown'
  BY Zenon, <1>2, <1>3 DEF HeardIsKnown
<1>8. TalliesAreHeard'
  <2>1. coord.prevotes \subseteq VotersFor("prevote", coord.block, coord.round)
    BY Zenon DEF TalliesAreHeard
  <2>2. v \in heard'.prevote
    BY Zenon, <1>3
  <2> QED
    BY <1>2, <1>3, <1>4, <2>1, <2>2 DEF TalliesAreHeard, VotersFor
<1>9. \A b, r : /\ VotersFor("prevote", b, r) \subseteq VotersFor("prevote", b, r)'
               /\ VotersFor("prevote", b, r)' \in SUBSET Validators
  BY Zenon, <1>3, <1>7 DEF VotersFor, HeardIsKnown
<1>10. CASE IsQuorum(Stake, received)
  <2>1. coord' = [coord EXCEPT !.prevotes = received, !.precommits = {},
                               !.locked = Relock(coord), !.phase = "Precommitting"]
    BY Zenon, <1>1, <1>10 DEF SubmitPrevote
  <2>2. Relock(coord) = [block |-> coord.block, round |-> coord.round]
    BY <1>1 DEF Relock, PhaseInv, TypeOK
  <2>3. /\ coord'.phase = "Precommitting"
        /\ coord'.locked = [block |-> coord.block, round |-> coord.round]
    BY Zenon, <2>1, <2>2 DEF TypeOK
  <2>4. PhaseInv'
    BY Zenon, <1>4, <1>10, <2>3 DEF PhaseInv
  <2>5. IsQuorum(Stake, VotersFor("prevote", coord.block, coord.round)')
    <3>1. received \subseteq VotersFor("prevote", coord.block, coord.round)'
      BY Zenon, <1>4, <1>8 DEF TalliesAreHeard
    <3> QED
      BY Zenon, <1>9, <1>10, <3>1, QuorumMonotone
  <2>6. LockInv'
    BY <1>4, <2>3, <2>5 DEF LockInv, TypeOK
  <2> QED
    BY Zenon, <1>6, <1>7, <1>8, <2>4, <2>6
<1>11. CASE ~IsQuorum(Stake, received)
  <2>1. coord' = [coord EXCEPT !.prevotes = received]
    BY Zenon, <1>1, <1>11 DEF SubmitPrevote
  <2>2. coord'.phase = coord.phase /\ coord'.locked = coord.locked
    BY Zenon, <2>1 DEF TypeOK
  <2>3. PhaseInv'
    BY Zenon, <1>1, <1>4, <2>2 DEF PhaseInv
  <2>4. LockInv'
    BY <1>4, <1>9, <2>2, QuorumMonotone DEF LockInv
  <2> QED
    BY Zenon, <1>6, <1>7, <1>8, <2>3, <2>4
<1> QED
  BY Zenon, <1>10, <1>11

(* submit_precommit: a vote is counted, and may complete the certificate.  *)
LEMMA PrecommitKeeps ==
    ASSUME IInv, NEW v \in Votes, ReceivePrecommit(v)
    PROVE  IInv'
<1> DEFINE received == coord.precommits \cup {v.from}
<1> USE DEF IInv
<1>1. /\ coord.phase = "Precommitting" /\ Tallies(coord, coord.precommits, v)
      /\ heard' = [heard EXCEPT !.precommit = @ \cup {v}]
      /\ coord' = SubmitPrecommit(coord, v)
  BY Zenon DEF ReceivePrecommit, PrecommitOk
<1>2. /\ v.block = coord.block /\ v.height = Height /\ v.round = coord.round
      /\ v.from \in Validators /\ v.signed
  BY Zenon, <1>1 DEF Tallies, TypeOK
<1>3. /\ heard'.precommit = heard.precommit \cup {v}
      /\ heard'.prevote = heard.prevote
      /\ heard' \in [prevote : SUBSET Votes, precommit : SUBSET Votes]
  BY Zenon, <1>1 DEF TypeOK
<1>4. /\ coord'.block = coord.block /\ coord'.round = coord.round
      /\ coord'.prevotes = coord.prevotes /\ coord'.precommits = received
      /\ coord'.locked = coord.locked
      /\ coord'.phase = IF IsQuorum(Stake, received) THEN "Committed" ELSE "Precommitting"
  BY Zenon, <1>1 DEF SubmitPrecommit, TypeOK
<1>5. TypeOK'
  BY Zenon, <1>1, <1>2, <1>3 DEF TypeOK, SubmitPrecommit, Phases
<1>6. HeardIsKnown'
  BY Zenon, <1>2, <1>3 DEF HeardIsKnown
<1>7. TalliesAreHeard'
  <2>1. coord.precommits \subseteq VotersFor("precommit", coord.block, coord.round)
    BY Zenon DEF TalliesAreHeard
  <2>2. coord.prevotes \subseteq VotersFor("prevote", coord.block, coord.round)
    BY Zenon DEF TalliesAreHeard
  <2>3. v \in heard'.precommit
    BY Zenon, <1>3
  <2> QED
    BY <1>2, <1>3, <1>4, <2>1, <2>2, <2>3 DEF TalliesAreHeard, VotersFor
<1>8. PhaseInv'
  BY Zenon, <1>1, <1>4 DEF PhaseInv
<1>9. LockInv'
  BY Zenon, <1>3, <1>4 DEF LockInv, VotersFor
<1> QED
  BY Zenon, <1>5, <1>6, <1>7, <1>8, <1>9

(* fire_timeout clears the talliers and keeps the lock.                    *)
LEMMA TimeoutKeeps ==
    ASSUME IInv, Timeout
    PROVE  IInv'
<1> USE DEF IInv
<1>1. heard' = heard
  BY Zenon DEF Timeout
<1>2. CASE coord.phase = "Committed"
  <2>1. coord' = coord
    BY Zenon, <1>2 DEF Timeout, FireTimeout
  <2> QED
    BY Zenon, <1>1, <2>1 DEF TypeOK, HeardIsKnown, TalliesAreHeard, PhaseInv, LockInv, VotersFor
<1>3. CASE coord.phase # "Committed"
  <2>1. /\ coord' = [coord EXCEPT !.round = @ + 1, !.phase = "AwaitingProposal",
                        !.block = NoBlock, !.prevotes = {}, !.precommits = {}]
        /\ coord.round < MaxRound
    BY Zenon, <1>3 DEF Timeout, FireTimeout
  <2>2. TypeOK'
    <3>1. coord.round + 1 \in 0..MaxRound
      BY <2>1, HostAssumption DEF TypeOK
    <3> QED
      BY Zenon, <1>1, <2>1, <3>1 DEF TypeOK, Phases
  <2>3. /\ coord'.prevotes = {} /\ coord'.precommits = {} /\ coord'.locked = coord.locked
        /\ coord'.round = coord.round + 1 /\ coord'.phase = "AwaitingProposal"
    BY Zenon, <2>1 DEF TypeOK
  <2>4. HeardIsKnown' /\ TalliesAreHeard'
    BY Zenon, <1>1, <2>3 DEF HeardIsKnown, TalliesAreHeard
  <2>5. coord.round \in Int /\ coord.locked.round \in Int
    BY HostAssumption DEF TypeOK
  <2>6. coord.locked = NoLock \/ coord.locked.round <= coord.round
    BY Zenon DEF LockInv
  <2>7. PhaseInv'
    BY <2>3, <2>5, <2>6 DEF PhaseInv
  <2>8. LockInv'
    BY <1>1, <2>3, <2>5 DEF LockInv, VotersFor
  <2> QED
    BY Zenon, <2>2, <2>4, <2>7, <2>8
<1> QED
  BY Zenon, <1>2, <1>3

(* Every step keeps the invariant.                                         *)
LEMMA NextIInv == IInv /\ [Next]_vars => IInv'
<1> SUFFICES ASSUME IInv, [Next]_vars PROVE IInv'
  BY Zenon
<1>1. CASE \E b \in Blocks, p \in Proofs : ReceiveProposal(b, p)
  BY Zenon, <1>1, ProposalKeeps
<1>2. CASE \E v \in Votes : ReceivePrevote(v)
  BY Zenon, <1>2, PrevoteKeeps
<1>3. CASE \E v \in Votes : ReceivePrecommit(v)
  BY Zenon, <1>3, PrecommitKeeps
<1>4. CASE Timeout
  BY Zenon, <1>4, TimeoutKeeps
<1>5. CASE UNCHANGED vars
  BY Zenon, <1>5 DEF vars, IInv, TypeOK, HeardIsKnown, TalliesAreHeard, PhaseInv, LockInv, VotersFor
<1> QED
  BY Zenon, <1>1, <1>2, <1>3, <1>4, <1>5 DEF Next

(* The invariant holds throughout.                                        *)
LEMMA Invariance == Spec => []IInv
BY InitIInv, NextIInv, PTL DEF Spec

-----------------------------------------------------------------------------
(* A coordinator that reports Committed has a PRE-VOTE and a PRE-COMMIT    *)
(* quorum for its block in its own round (submit_prevote,                  *)
(* submit_precommit), for every validator set and number of rounds.        *)
THEOREM FinalityTakesTwoQuorums == Spec => []FinalityIsTwoPhase
<1>1. IInv => FinalityIsTwoPhase
  BY Zenon DEF IInv, TypeOK, PhaseInv, TalliesAreHeard, FinalityIsTwoPhase,
         CertificateVerifies, Certificate
<1> QED
  BY <1>1, Invariance, PTL

(* The lock is on the block of a POLC of the current or an earlier round,  *)
(* and from the POLC on it is the block under vote (LockedState).          *)
THEOREM LockIsJustified == Spec => []LockHasPolc
<1>1. IInv => LockHasPolc
  BY Zenon DEF IInv, PhaseInv, LockInv, LockHasPolc
<1> QED
  BY <1>1, Invariance, PTL

(* A lock changes only to one of a later round (submit_prevote compares    *)
(* with >=, and the same round cannot form a POLC twice).                  *)
THEOREM LockOnlyAdvances == Spec => LockAdvances
<1>1. ASSUME IInv, [Next]_vars
      PROVE  [coord'.locked # coord.locked =>
                \/ coord.locked = NoLock
                \/ coord'.locked.round > coord.locked.round]_vars
  <2> SUFFICES ASSUME coord'.locked # coord.locked, coord.locked # NoLock
               PROVE  coord'.locked.round > coord.locked.round
    BY Zenon
  <2>1. PICK v \in Votes : ReceivePrevote(v)
    BY Zenon, <1>1 DEF IInv, TypeOK, Next, vars, ReceiveProposal, SubmitProposal,
                ReceivePrecommit, SubmitPrecommit, Timeout, FireTimeout
  <2>2. coord.phase = "Prevoting" /\ coord' = SubmitPrevote(coord, v)
    BY Zenon, <2>1 DEF ReceivePrevote, PrevoteOk
  <2>3. coord'.locked = Relock(coord)
    BY Zenon, <1>1, <2>2 DEF SubmitPrevote, IInv, TypeOK
  <2>4. /\ coord.locked.round < coord.round
        /\ coord.round \in Int /\ coord.locked.round \in Int
    BY <1>1, <2>2, HostAssumption DEF IInv, PhaseInv, TypeOK
  <2> QED
    BY <2>3, <2>4 DEF Relock
<1> QED
  BY <1>1, Invariance, PTL DEF Spec, LockAdvances

=============================================================================
