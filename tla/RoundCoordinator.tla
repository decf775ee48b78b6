-------------------------- MODULE RoundCoordinator --------------------------
(***************************************************************************)
(* The round-change coordinator of one height (coordinator.rs) with the    *)
(* two vote talliers it drives (bft.rs): a coordinator value and the       *)
(* operations on it.  RoundCoordinatorSpec is the state machine of one     *)
(* coordinator; BftGossip gives one to every validator.                    *)
(*                                                                         *)
(* A tallier is the set of indices it has received: its stake, bitmap and  *)
(* aggregate signature are functions of that set.  A certificate is the    *)
(* (block, height, round) of the tallier and its signers.                  *)
(***************************************************************************)
EXTENDS ValidatorSet

CONSTANTS
    Stake,          \* the validator set in force: stakes in canonical order
    Leader(_, _),   \* Leader(h, r): select_leader for the seed of height h
    NoBlock         \* no block hash

ASSUME StakeAssumption == Stake \in Seq(Nat) /\ New(Stake)

Validators == DOMAIN Stake

Phases == {"AwaitingProposal", "Prevoting", "Precommitting", "Committed"}

\* POL state: None is the lock on NoBlock.
NoLock == [block |-> NoBlock, round |-> 0]

NewCoordinator(h) ==
    [height |-> h, round |-> 0, phase |-> "AwaitingProposal", block |-> NoBlock,
     prevotes |-> {}, precommits |-> {}, locked |-> NoLock]

\* The finality certificate of a committed coordinator.
Certificate(c) ==
    [block |-> c.block, height |-> c.height, round |-> c.round, signers |-> c.precommits]

\* PrecommitCertificate::verify: known signers holding a quorum of the stake
\* (the aggregate signature stands for the votes behind it).
CertificateVerifies(cert) ==
    cert.signers \subseteq Validators /\ IsQuorum(Stake, cert.signers)

\* A proposal carries a leader proof, bound to its author, height and round.
ProposalOk(c, proof) ==
    /\ c.phase = "AwaitingProposal"
    /\ proof = [by |-> Leader(c.height, c.round), height |-> c.height, round |-> c.round]

SubmitProposal(c, block) ==
    [c EXCEPT !.block = block, !.prevotes = {}, !.phase = "Prevoting"]

\* A tallier that forgets to compare the round.
Tallies_AnyRound(c, received, v) ==
    /\ v.block = c.block
    /\ v.height = c.height
    /\ v.from \in Validators
    /\ v.from \notin received
    /\ v.signed

\* A tallier that counts votes for any block.
Tallies_AnyBlock(c, received, v) ==
    /\ v.height = c.height /\ v.round = c.round
    /\ v.from \in Validators
    /\ v.from \notin received
    /\ v.signed

\* The tallier's checks, in its order: the block hash comes first, so a vote
\* for another block is refused for good, while a vote for this block at
\* another height or round may be offered again later.
Tallies(c, received, v) ==
    /\ v.block = c.block
    /\ v.height = c.height /\ v.round = c.round
    /\ v.from \in Validators
    /\ v.from \notin received
    /\ v.signed

OffRound(c, v) ==
    v.block = c.block /\ (v.height # c.height \/ v.round # c.round)

PrevoteOk(c, v) == c.phase = "Prevoting" /\ Tallies(c, c.prevotes, v)

\* WrongPhase, WrongRound or WrongHeight: the vote may become valid later.
PrevoteEarly(c, v) == c.phase # "Prevoting" \/ OffRound(c, v)

\* A lock that the first POLC of the height keeps for ever.
Relock_FirstWins(c) ==
    IF c.locked = NoLock THEN [block |-> c.block, round |-> c.round] ELSE c.locked

\* A lock that is recorded for the round after its POLC.
Relock_NextRound(c) == [block |-> c.block, round |-> c.round + 1]

\* A newly formed POLC supersedes the lock of an earlier round.
Relock(c) ==
    IF c.locked = NoLock \/ c.round >= c.locked.round
    THEN [block |-> c.block, round |-> c.round]
    ELSE c.locked

SubmitPrevote(c, v) ==
    LET received == c.prevotes \cup {v.from}
    IN  IF IsQuorum(Stake, received)
        THEN [c EXCEPT !.prevotes = received, !.precommits = {},
                       !.locked = Relock(c), !.phase = "Precommitting"]
        ELSE [c EXCEPT !.prevotes = received]

PrecommitOk(c, v) == c.phase = "Precommitting" /\ Tallies(c, c.precommits, v)

PrecommitEarly(c, v) == c.phase # "Precommitting" \/ OffRound(c, v)

SubmitPrecommit(c, v) ==
    LET received == c.precommits \cup {v.from}
    IN  [c EXCEPT !.precommits = received,
                  !.phase = IF IsQuorum(Stake, received) THEN "Committed" ELSE @]

\* Timeouts that ignore the phase, that reset the round without leaving it, and
\* that advance it twice.
FireTimeout_Always(c) ==
    [c EXCEPT !.round = @ + 1, !.phase = "AwaitingProposal", !.block = NoBlock,
              !.prevotes = {}, !.precommits = {}]
FireTimeout_SameRound(c) ==
    IF c.phase = "Committed" THEN c
    ELSE [c EXCEPT !.phase = "AwaitingProposal", !.block = NoBlock,
                   !.prevotes = {}, !.precommits = {}]
FireTimeout_Twice(c) ==
    IF c.phase = "Committed" THEN c
    ELSE [c EXCEPT !.round = @ + 2, !.phase = "AwaitingProposal", !.block = NoBlock,
                   !.prevotes = {}, !.precommits = {}]

\* fire_timeout keeps the lock and nothing else of the round.
FireTimeout(c) ==
    IF c.phase = "Committed" THEN c
    ELSE [c EXCEPT !.round = @ + 1, !.phase = "AwaitingProposal", !.block = NoBlock,
                   !.prevotes = {}, !.precommits = {}]

=============================================================================
