# AII in TLA+

A TLA+ development kept beside the AII node (a Rust workspace of 27 crates):
modules that model its consensus and its block store, TLC configurations that
check them on small instances, and TLAPS proofs of the facts that BFT safety
rests on. `PROJECT.json` holds the machine-readable side: components, runs,
mutants, the map from definitions to source lines, findings, hazards, theorems.

## The system

| Part | Source | Modelled by |
|---|---|---|
| Validator set, quorum, leader choice | `aii-consensus-bft/src/bft.rs` | `ValidatorSet`, `ValidatorSetSpec` |
| Vote talliers, round coordinator | `bft.rs`, `coordinator.rs` | `RoundCoordinator`, `RoundCoordinatorSpec` |
| Engine, buffers, certificates, catch-up | `engine.rs` | `BftEngine` |
| Equivocation detector | `slashing.rs` | `BftEngine` (`Record`) |
| Gossip driver | `gossip.rs` | `BftGossip` |
| Transport, relay, dedup ring | `aii-node/src/bft_p2p.rs` | `BftGossip` (`sent`, `ring`) |
| Round timer of the host loop | `aii-node/src/main.rs` | `BftGossip` (`Timeout`) |
| What engine and driver promise | `engine.rs`, `gossip.rs` | `BftVoting` |
| Block commit, forks, recovery | `aii-node/src/lib.rs`, `main.rs` | `BlockStore` |

A node runs a host loop. Every 50 ms it ticks the gossip driver, which empties
the transport's inbox into the engine, harvests finalised blocks and drives the
round: propose, PRE-VOTE, PRE-COMMIT. The engine owns a coordinator for the
height after its head; the coordinator owns the talliers. Harvested blocks go to
`NodeState::commit_block`, which executes them, and `set_head`. A round timer
moves to the next round when nothing was finalised. A validator that sees
messages of a height beyond its next one asks for the missing block and adopts it
by its certificate.

Parts that are not modelled (yet) are at the end.

## Modules and how they correspond to the code

**ValidatorSet** (operators). A set is the sequence of stakes of the
canonical `Vec<Validator>`. `SignerStake` counts stake units, so that a sum over
any signers is a cardinality and its additivity can be proved. `QuorumThreshold`
is the code's expression in arithmetic modulo `StakeModulus`. `SelectLeader`
takes the reduced hash as its argument. **ValidatorSetSpec** is any set that `New`
accepts.

**RoundCoordinator** (operators). A coordinator is a record of height,
round, phase, proposed block, received PRE-VOTEs and PRE-COMMITs and the lock. One
operator per method (`SubmitProposal`, `SubmitPrevote`, `SubmitPrecommit`,
`FireTimeout`); `...Ok` is the conjunction of the method's early returns, and
`...Early` tells the errors the engine treats as "may become valid later".
**RoundCoordinatorSpec** feeds one coordinator anything at any time, bad
signatures, unknown indices and other heights included.

**BftEngine** (operators). The value behind `BftEngine`'s mutex: head,
coordinator, captured proposal, buffered votes, cache of certified blocks,
detector. A block is the chain it ends, so equal blocks are blocks with equal
hashes; an entry keeps the number of its header, which `head_number` is copied from.
The detector records a vote before anything is checked (`Record`);
`EvidenceVerifies` is the re-check that evidence offers. Draining a buffer returns the set of possible results: the buffer's order
only decides which votes are reached before a quorum changes the phase.

**BftGossip** (state machine). One engine, one `RoundFlags` and one dedup ring
per validator, and the set of messages broadcast so far. Actions are the message
handlers (`ReceiveFuture`, `ReceiveProposal`, `ReceiveVote`,
`ReceiveBlockRequest`, `ReceiveBlockResponse`), `Propose`, `Vote` and `Timeout`;
each contains the harvest that follows it in the code. A message stays available
after it is handled, because the driver re-broadcasts its last proposal and votes
on every tick; with `Dedup` the ring lets each through once. Messages that are
sent only once may be lost when `Lossy` holds. The PRE-COMMIT that completes a quorum
is one of these in the code, because its author leaves the phase in which it is
repeated; the model keeps it, so `CatchUp` is about links that stay up. The ring
compares bytes, which do not name the sender. Faulty validators broadcast a fixed set
of messages: any leader proof that is theirs or published, votes in anybody's name
(with a signature only in their own), certificates of votes that were cast.

**BftVoting** (abstract specification). Validators have a head, a round, the
position of their last vote per phase, and a set of votes. Faulty validators back
every block at all times. `BftGossip` implements it: `ImplementsVoting` instantiates
it with the heads and rounds of the engines, the flags and the broadcast votes.

**BlockStore** (state machine). A node under `--bft`: recovery, cold-join sync, boot
of the engine, genesis allocation, then the blocks of the engine. `commit_block` and
`set_head` are the sequence of writes that reach the database one by one, with a crash
between any two; any of them may be refused, which the code logs and ignores. The
state is a counter per account of how often a block's effects are in it, pre-funded
accounts apart from the others. Two scans of `recover` that see different blocks at a
number are a choice, since the scan order is that of the hashes. The engine hands over
the block after its own head; PoA and dev producers, which number from genesis again
after a restart, are not covered, nor are blocks of a mis-numbered chain (below).

`MC...` modules hold the stakes, leader schedules and faulty messages of the
instances. Operators named `X_Something` before a definition `X` are variants with
a plausible mistake; they are used only to show that a property would notice it.

## Runs

| Run | Question | Answer |
|---|---|---|
| `validator_sets` | Do quorums overlap by a third, can they form without a third, is the leader stake-weighted? | yes, all sets of up to 3 stakes up to 5 |
| `round_coordinator` | Is finality two-phase within a round, the lock justified and monotone, Committed terminal? | yes |
| `voting_two_blocks` | Does the abstract protocol keep rounds from forking and chains justified? | yes |
| `gossip_rounds` | Do drivers over two rounds, with a faulty leader, timeouts, fast-forwards, buffers and redelivery, implement the protocol, with genuine tallies and no verifying evidence against an honest validator? | yes |
| `gossip_leader` | The same with a validator that reuses a published leader proof and votes for two blocks | yes |
| `gossip_catch_up` | The same with a validator that falls behind and a cache of one block; can the head always be served? | yes |
| `gossip_catch_up_live` | Does a validator that is behind catch up? | yes, if requests and answers are not lost |
| `gossip_catch_up_lost` | And if a request is lost? | no: it is never repeated |
| `gossip_agreement` | Can two rounds of a height finalise different blocks? | yes: the lock does not bind votes |
| `block_store` | Over crashes and forks: is the head resolvable, is no block applied twice and no two blocks of a height? | yes, from block 2 on |
| `block_store_once` | Is every block applied exactly once? | no: a crash between persisting and executing loses it |
| `block_store_restart` | Does a restart leave the accounts alone? | no: the genesis allocation is written again |

The runs with an answer that contradicts the repository check one property that
quotes a comment or document of it; the finding in `PROJECT.json` names the line.

Three more disagreements are in the models, not in a run of their own. The doubling
in `quorum_threshold` wraps for totals of 2^63 and more, which `ValidatorSet::new`
accepts (bft.rs:71-72 calls the arithmetic overflow-free). The votes and proposals a
node casts itself do not drain its buffers (engine.rs:783-785 says that every phase
change does). `fast_forward_to_round` drops the lock (coordinator.rs:96-98 says that
a lock is only superseded by a newer POLC): the properties of the lock are the
coordinator's, not the engine's.

Two limits of what is claimed. `HonestNeverAccused` is about evidence that passes
`EquivocationEvidence::verify`. The detector records votes before their signatures are
checked and the host loop debits the stake without that call, so nothing is claimed of
evidence as it is parked. `ImplementsVoting` is about faulty leaders that number their
blocks by height (`FaultyNumbersAreHeights`): `handle_proposal_msg` rebuilds a block
with the number a proposal states, so one for an old height can be decided and moves
`head_number` back.

### Bounds

- Stakes 2, 1, 1 have quorum 3: no validator alone and not the two light ones, and
  one unit may be faulty. Stakes 3, 1 make the first validator a quorum by itself,
  which is how the second one falls behind. Stakes 1, 1 need both.
- Two rounds are enough for a timeout, a fast-forward, a stale vote and a relock;
  the coordinator alone gets three. Catch-up gets three heights so that a cache of
  one block evicts; its liveness is checked over two, because a message of a future
  height is dropped for good by the ring and asks for one block only, and what asks
  for the next block, the traffic of the height after it, lies beyond the bound.
- `gossip_rounds` follows only validator 1 in the detectors (`Watched`): it is the
  one that leads, votes and changes rounds. `gossip_catch_up_live` lets the timer
  of validator 2 fire only (`Timed`); `CatchUp` speaks of heights below `MaxHeight`
  because only these are followed by messages of a later height.
- `BlockStore` has three heights with a cache of two, so that a block is evicted
  whose height is then on disk only, two crashes, so that a boot is itself
  interrupted, and one refused write. `RecentServesHead` starts at genesis: the cache
  of an engine that is booted on a recovered head is empty.

### Fairness

Only `gossip_catch_up_live` and `gossip_catch_up_lost` assume any: weak fairness,
per validator, of handling the inbox, of proposing and of voting, since the host
loop ticks every 50 ms and a tick does all three. Nothing is assumed of the round
timer. With `Dedup` each message is handled once, so a fair inbox is emptied.

Deadlock is checked wherever messages may be handled again; it is not where the
bounds end the behaviour (`CHECK_DEADLOCK FALSE`).

## Proofs

All for every value of the constants that satisfies the named assumptions.

- **QuorumLemmas**: stakes are finite sums, monotone and additive
  (`UnitsFinite`, `StakeMonotone`, ...), and from these the overlap of two quorums.
- **ValidatorSetProofs**: `QuorumsAlwaysOverlap` and `QuorumAlwaysReachable`, the two
  sides of the choice of threshold, for every set `New` accepts whose doubled total
  fits the integer type.
- **RoundCoordinatorProofs**: `FinalityTakesTwoQuorums`, `LockIsJustified` and
  `LockOnlyAdvances`, for any host that submits anything at any time. The inductive
  invariant says of every phase what the talliers hold: only votes heard for the
  block and round under vote, none of a phase that has not begun, a quorum in every
  phase that is over, and before the POLC a lock of an earlier round only.
- **BftVotingProofs**: `TypeCorrect`, `HonestNeverEquivocate`, `RoundsNeverFork` and
  `ChainsAreJustified`. The inductive invariant `IInv` adds to type correctness that
  no vote lies ahead of its author and one at the author's position is remembered
  by the flag (`VotesBehind`), that a vote is for a block of its own height and round
  (`VotesBound`), and that every PRE-COMMIT has a PRE-VOTE quorum behind it
  (`PrecommitsJustified`). Without the first, "has not voted here" says nothing about
  the votes already broadcast; without the last, a certificate does not justify its
  block. `RoundsNeverFork` then takes the honest voter that two quorums share.

  Assumptions: the set is one that `New` accepts, its doubled total does not
  overflow and the faulty validators hold less than a third of the stake
  (`VotingAssumption`).

Only model-checked: that `BftGossip` implements `BftVoting`, everything about
buffers, certificates, evidence and the block store, and liveness (outside the
prover's reach).

## Plan

1. Proofs about the block store (`NeverTwice`, `NeverBothForks`) and of the safety
   half of `ImplementsVoting`.
2. `BftRestart`: the host loop iteration (tick, commit, timer, snapshot) with crash
   and restart; the validator that restarts counts as faulty in `BftVoting`.
3. Rotation and slashing: DPoS election, `rotate_bft_engine_to_latest_dpos`, evidence
   across a rotation, composed with `Staking`.
4. `Staking`, `Governance`, `Htlc`, `Federation`: ledgers of their own, with
   conservation and at-most-once properties, proved where they are inductive.
5. `ReleaseInstall` with `HeadWatchdog`: install, rollback, sentinel and restart limit
   with crashes between the file operations.
6. `TxPool`, `SyncEngine`, `Poa`, `Microchain`, `Kademlia`, the dedup ring with
   wrap-around, peer cache.

## Not modelled

Byte encodings (`aii-codec`, `aii-block`, `wire.rs`), cryptography (`aii-crypto`,
`aii-wallet`, Noise), EVM and WASM interpreters, storage back ends (a map with atomic
batches), the RPC server, command line, MCP server, metrics and configuration: they
hold no protocol state, or delegate to libraries. Signatures, VRF proofs and hashes
are assumed sound. The single-validator path `advance_single` and the pending
transactions of the engine are left for the pool's module.
