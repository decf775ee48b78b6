------------------------ MODULE RoundCoordinatorSpec ------------------------
(***************************************************************************)
(* One coordinator and its host, which may submit any proposal, any vote   *)
(* and any timeout at any time.                                            *)
(***************************************************************************)
EXTENDS RoundCoordinator

CONSTANTS
    Blocks,     \* block hashes a leader may propose
    Height,     \* the height being finalised
    MaxRound    \* bound on the rounds the host lets time out

ASSUME HostAssumption ==
    /\ NoBlock \notin Blocks
    /\ Height \in Nat /\ MaxRound \in Nat
    /\ \A r \in 0..MaxRound : Leader(Height, r) \in Validators

VARIABLES
    coord,  \* the coordinator
    heard   \* the votes the talliers have accepted, by phase

vars == <<coord, heard>>

\* Votes for this height and, to be told apart, the next one; indices beyond
\* the set and bad signatures included.
Votes ==
    [block : Blocks, height : {Height, Height + 1}, round : 0..MaxRound,
     from : Validators \cup {Len(Stake) + 1}, signed : BOOLEAN]

Proofs ==
    [by : Validators, height : {Height, Height + 1}, round : 0..MaxRound]

Init ==
    /\ coord = NewCoordinator(Height)
    /\ heard = [prevote |-> {}, precommit |-> {}]

ReceiveProposal(b, proof) ==
    /\ ProposalOk(coord, proof)
    /\ coord' = SubmitProposal(coord, b)
    /\ UNCHANGED heard

\* A refused proposal or vote leaves the coordinator as it is.
ReceivePrevote(v) ==
    /\ PrevoteOk(coord, v)
    /\ coord' = SubmitPrevote(coord, v)
    /\ heard' = [heard EXCEPT !.prevote = @ \cup {v}]

ReceivePrecommit(v) ==
    /\ PrecommitOk(coord, v)
    /\ coord' = SubmitPrecommit(coord, v)
    /\ heard' = [heard EXCEPT !.precommit = @ \cup {v}]

Timeout ==
    /\ coord.round < MaxRound
    /\ coord' = FireTimeout(coord)
    /\ UNCHANGED heard

Next ==
    \/ \E b \in Blocks, p \in Proofs : ReceiveProposal(b, p)
    \/ \E v \in Votes : ReceivePrevote(v)
    \/ \E v \in Votes : ReceivePrecommit(v)
    \/ Timeout

Spec == Init /\ [][Next]_vars

-----------------------------------------------------------------------------
TypeOK ==
    /\ coord \in [height : {Height}, round : 0..MaxRound, phase : Phases,
                  block : Blocks \cup {NoBlock}, prevotes : SUBSET Validators,
                  precommits : SUBSET Validators,
                  locked : [block : Blocks \cup {NoBlock}, round : 0..MaxRound]]
    /\ heard \in [prevote : SUBSET Votes, precommit : SUBSET Votes]

\* The validators whose vote for (b, Height, r) was submitted in a phase.
VotersFor(phase, b, r) ==
    {v.from : v \in {w \in heard[phase] :
        w.block = b /\ w.height = Height /\ w.round = r /\ w.signed}}

(* Finality is two-phase within one round (bft.rs:18-32): when the         *)
(* coordinator reports Committed, its certificate verifies, every signer   *)
(* really submitted a signed PRE-COMMIT for exactly this block, height and *)
(* round, and a PRE-VOTE quorum for the same triple had formed before it;  *)
(* no vote of an earlier round and no vote for another block was counted.  *)
FinalityIsTwoPhase ==
    coord.phase = "Committed" =>
        /\ CertificateVerifies(Certificate(coord))
        /\ coord.precommits \subseteq VotersFor("precommit", coord.block, coord.round)
        /\ IsQuorum(Stake, coord.prevotes)
        /\ coord.prevotes \subseteq VotersFor("prevote", coord.block, coord.round)

(* A lock is only on a block that a PRE-VOTE quorum chose in the lock's    *)
(* round, never in a round yet to come, and a committed block is the       *)
(* locked one (LockedState, coordinator.rs:40-60).                         *)
LockHasPolc ==
    /\ coord.locked # NoLock =>
        /\ coord.locked.round <= coord.round
        /\ IsQuorum(Stake, VotersFor("prevote", coord.locked.block, coord.locked.round))
    /\ coord.phase \in {"Precommitting", "Committed"} =>
        coord.locked = [block |-> coord.block, round |-> coord.round]

(* "Preserved across `fire_timeout` and superseded only by a strictly      *)
(* newer POLC" (coordinator.rs:97-98), although the code compares with >=. *)
LockAdvances ==
    [][coord'.locked # coord.locked =>
          \/ coord.locked = NoLock
          \/ coord'.locked.round > coord.locked.round]_vars

(* Committed is terminal: no later vote, proposal or timeout moves the     *)
(* coordinator (fire_timeout is a no-op, every submission is WrongPhase).  *)
CommitIsTerminal ==
    [][coord.phase = "Committed" => UNCHANGED coord]_vars

=============================================================================
