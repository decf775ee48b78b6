----------------------------- MODULE BftEngine ------------------------------
(***************************************************************************)
(* The multi-validator engine (engine.rs): the value behind BftEngine's    *)
(* mutex and one operator per method the gossip driver calls on it.        *)
(*                                                                         *)
(* A block is the chain it ends: the sequence of entries [number, round,   *)
(* body] of the blocks up to it, so that equal blocks are those with equal *)
(* hashes.  `number` is the header's number, `round` the round of the      *)
(* leader proof that mix_hash commits to, `body` stands for body and       *)
(* coinbase.  A vote carries its phase, which tells the pending_prevotes   *)
(* from the pending_precommits and the two maps of the detector apart; its *)
(* `from` is the index it names, `signed` whether the signature is that    *)
(* validator's.                                                            *)
(*                                                                         *)
(* Leader(h, r) does not depend on the chain: engines on different chains  *)
(* refuse each other's proposals by hash before the leader is looked at.   *)
(*                                                                         *)
(* The buffers are sets.  They are filled in order of arrival and drained  *)
(* in that order; the order only decides which votes a drain reaches       *)
(* before a quorum changes the phase, so a drain may take any order.       *)
(***************************************************************************)
EXTENDS RoundCoordinator

CONSTANTS
    Watched,            \* validators whose votes the detectors remember (the
                        \* code: all; an instance may follow only some)
    RECENT_BLOCKS_CAP   \* committed blocks kept for peers that fell behind

ASSUME EngineAssumption == Watched \subseteq Validators /\ RECENT_BLOCKS_CAP \in Nat

\* `coordinator: None` is a coordinator of height 0, the height of genesis.
NoCoordinator == NewCoordinator(0)

\* BftEngine::from_recovered (and ::new, on genesis).
FromRecovered(chain) ==
    [head |-> chain, coord |-> NoCoordinator, proposal |-> NoBlock,
     pending |-> {}, recent |-> {}, seen |-> {}, evidence |-> {}]

\* The number in a block's header; genesis has number 0.
Number(b) == IF b = << >> THEN 0 ELSE b[Len(b)].number

\* head_number is copied from the header of the head, whatever it says.
HeadNumber(g) == Number(g.head)
NextHeight(g) == HeadNumber(g) + 1

\* build_block_with_body: a block on the head with number h, for a leader
\* proof's round.
BuildBlock(g, h, r, body) == Append(g.head, [number |-> h, round |-> r, body |-> body])

EnsureCoordinator(g) ==
    IF g.coord = NoCoordinator THEN [g EXCEPT !.coord = NewCoordinator(NextHeight(g))] ELSE g

\* The (height, round) the engine is working on.
RoundPosition(g) == <<NextHeight(g), g.coord.round>>

\* A coordinator that keeps the lock and the tallies of the round it leaves.
FastForwardToRound_Keep(g, r) == [g EXCEPT !.coord.round = r, !.coord.height = NextHeight(g)]

\* fast_forward_to_round: a fresh coordinator that times out r times.  The
\* lock goes with the old one; a captured proposal stays.
FastForwardToRound(g, r) ==
    [g EXCEPT !.coord = [NewCoordinator(NextHeight(g)) EXCEPT !.round = r]]

-----------------------------------------------------------------------------
(* Votes of either phase. *)

Accepts(c, v) == IF v.phase = "prevote" THEN PrevoteOk(c, v) ELSE PrecommitOk(c, v)
Early(c, v) == IF v.phase = "prevote" THEN PrevoteEarly(c, v) ELSE PrecommitEarly(c, v)
Submit(c, v) == IF v.phase = "prevote" THEN SubmitPrevote(c, v) ELSE SubmitPrecommit(c, v)

Received(c, p) == IF p = "prevote" THEN c.prevotes ELSE c.precommits

\* The coordinator after accepting votes of phase p that form no quorum yet.
AcceptAll(c, p, votes) ==
    LET senders == {v.from : v \in votes}
    IN  IF p = "prevote" THEN [c EXCEPT !.prevotes = @ \cup senders]
                         ELSE [c EXCEPT !.precommits = @ \cup senders]

\* One pass over the buffered votes of phase p: the possible coordinators and
\* the votes left over.  A vote is applied, kept when it is early or refused
\* for good; when votes complete a quorum the phase changes and the rest of
\* the buffer is kept.
Pass(c, pool, p) ==
    LET mine == {v \in pool : v.phase = p}
        ok == {v \in mine : Accepts(c, v)}
        refused == {v \in mine : ~Accepts(c, v) /\ ~Early(c, v)}
        Quorum(votes) == IsQuorum(Stake, Received(c, p) \cup {v.from : v \in votes})
    IN  IF ok = {} \/ ~Quorum(ok)
        THEN {[coord |-> AcceptAll(c, p, ok), left |-> pool \ (ok \cup refused)]}
        ELSE UNION {
               {[coord |-> Submit(AcceptAll(c, p, before), last),
                 left |-> pool \ (before \cup {last} \cup dropped)]
                 : last \in {v \in ok \ before : Quorum(before \cup {v})},
                   dropped \in SUBSET refused}
               : before \in {b \in SUBSET ok : ~Quorum(b)}}

\* drain_pending_votes: the stale votes go, then the PRE-VOTEs and the
\* PRE-COMMITs are applied.  The loop's second pass finds nothing to apply.
DrainPendingVotes(g) ==
    LET live == {v \in g.pending : v.height > HeadNumber(g)}
    IN  UNION {{[g EXCEPT !.coord = d.coord, !.pending = d.left]
                  : d \in Pass(e.coord, e.left, "precommit")}
               : e \in Pass(g.coord, live, "prevote")}

\* EquivocationDetector: the first vote of (validator, height, round, phase)
\* is remembered, a later one for another block is evidence.  No signature is
\* looked at: the index is the one the vote names.
Record(g, v) ==
    LET prior == {w \in g.seen : /\ w.from = v.from /\ w.phase = v.phase
                                 /\ w.height = v.height /\ w.round = v.round}
    IN  IF v.from \notin Watched THEN g
        ELSE IF prior = {} THEN [g EXCEPT !.seen = @ \cup {v}]
        ELSE [g EXCEPT !.evidence = @ \cup {{w, v} : w \in {u \in prior : u.block # v.block}}]

\* A re-check that looks at one of the signatures only.
EvidenceVerifies_OneSignature(ev) ==
    \E a, b \in ev :
        /\ ev = {a, b} /\ a.phase = b.phase
        /\ a.from = b.from /\ a.height = b.height /\ a.round = b.round
        /\ a.block # b.block
        /\ a.from \in Validators /\ a.signed

\* EquivocationEvidence::verify.
EvidenceVerifies(ev) ==
    \E a, b \in ev :
        /\ ev = {a, b} /\ a.phase = b.phase
        /\ a.from = b.from /\ a.height = b.height /\ a.round = b.round
        /\ a.block # b.block
        /\ a.from \in Validators /\ a.signed /\ b.signed

\* submit_remote_prevote and submit_remote_precommit: the detector comes before
\* every check.  An early vote is buffered as it is; one that is refused, its
\* signature included, is gone.
SubmitRemoteVote(g, v) ==
    LET r == Record(g, v)
        buffered == [r EXCEPT !.pending = @ \cup {v}]
    IN  IF v.height <= HeadNumber(g) THEN {r}
        ELSE IF g.coord = NoCoordinator THEN {buffered}
        ELSE IF Accepts(g.coord, v) THEN DrainPendingVotes([r EXCEPT !.coord = Submit(@, v)])
        ELSE IF Early(g.coord, v) THEN {buffered}
        ELSE {r}

\* submit_remote_proposal: a refused proposal still leaves a coordinator.
SubmitRemoteProposal(g, block, proof) ==
    LET e == EnsureCoordinator(g)
    IN  IF ProposalOk(e.coord, proof)
        THEN DrainPendingVotes([e EXCEPT !.coord = SubmitProposal(@, block), !.proposal = block])
        ELSE {e}

-----------------------------------------------------------------------------
(* This node's own proposal and votes.  They are not followed by a drain. *)

CanCastProposal(g, n) ==
    LET c == EnsureCoordinator(g).coord
    IN  c.phase = "AwaitingProposal" /\ Leader(c.height, c.round) = n

CastProposal(g, body) ==
    LET e == EnsureCoordinator(g)
        block == BuildBlock(g, e.coord.height, e.coord.round, body)
    IN  [e EXCEPT !.coord = SubmitProposal(@, block), !.proposal = block]

\* The vote of validator n in phase p for the coordinator's block.
OwnVote(g, n, p) ==
    [phase |-> p, height |-> g.coord.height, round |-> g.coord.round,
     block |-> g.coord.block, from |-> n, signed |-> TRUE]

CastVote(g, v) == [g EXCEPT !.coord = Submit(@, v)]

TickTimeout(g) ==
    DrainPendingVotes([EnsureCoordinator(g) EXCEPT !.coord = FireTimeout(@), !.proposal = NoBlock])

-----------------------------------------------------------------------------
(* Finality. *)

\* A full cache that refuses new blocks.
CacheRecentBlock_KeepOldest(recent, cert) ==
    IF Cardinality(recent) < RECENT_BLOCKS_CAP THEN recent \cup {cert} ELSE recent

\* cache_recent_block: one block per number, the lowest evicted beyond the cap.
CacheRecentBlock(recent, cert) ==
    LET all == {c \in recent : Number(c.block) # Number(cert.block)} \cup {cert}
    IN  {c \in all : Cardinality({d \in all : Number(d.block) > Number(c.block)})
                        < RECENT_BLOCKS_CAP}

\* A harvest that leaves the coordinator behind.
TryHarvestCommitted_KeepCoordinator(g) ==
    IF g.coord.phase = "Committed" /\ g.proposal # NoBlock
    THEN [g EXCEPT !.head = g.proposal, !.proposal = NoBlock,
                   !.recent = CacheRecentBlock(@, Certificate(g.coord))]
    ELSE g

\* try_harvest_committed: the captured proposal becomes the head.
TryHarvestCommitted(g) ==
    IF g.coord.phase = "Committed" /\ g.proposal # NoBlock
    THEN [g EXCEPT !.head = g.proposal, !.coord = NoCoordinator, !.proposal = NoBlock,
                   !.recent = CacheRecentBlock(@, Certificate(g.coord))]
    ELSE g

\* Adoption only of a block decided in the round the engine is in.
CanAdopt_SameRound(g, block, cert) ==
    /\ Number(block) = NextHeight(g) /\ cert.height = Number(block)
    /\ SubSeq(block, 1, Len(block) - 1) = g.head /\ cert.block = block
    /\ CertificateVerifies(cert) /\ cert.round = g.coord.round

\* adopt_synced_block: the checks (number, parent, certificate), and the
\* catch-up.
CanAdopt(g, block, cert) ==
    /\ Number(block) = NextHeight(g) /\ cert.height = Number(block)
    /\ SubSeq(block, 1, Len(block) - 1) = g.head /\ cert.block = block
    /\ CertificateVerifies(cert)

\* A catch-up that leaves the coordinator behind.
AdoptSyncedBlock_KeepCoordinator(g, block, cert) ==
    [g EXCEPT !.head = block, !.proposal = NoBlock,
              !.pending = {}, !.recent = CacheRecentBlock(@, cert)]

AdoptSyncedBlock(g, block, cert) ==
    [g EXCEPT !.head = block, !.coord = NoCoordinator, !.proposal = NoBlock,
              !.pending = {}, !.recent = CacheRecentBlock(@, cert)]

=============================================================================
