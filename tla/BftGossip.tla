----------------------------- MODULE BftGossip ------------------------------
(***************************************************************************)
(* A network of validators, each an engine (BftEngine) driven by BftGossip *)
(* (gossip.rs) and the round timer of the host loop (aii-node, main.rs).   *)
(*                                                                         *)
(* A tick is taken apart: every message of the inbox is a step (dispatch   *)
(* and auto_harvest), and so is the drive of the round that follows, so    *)
(* that an inbox of any length and content is covered.                     *)
(*                                                                         *)
(* `sent` holds the messages broadcast so far.  Any of them may reach any  *)
(* other validator at any time, late or never: the driver re-broadcasts    *)
(* its last proposal and votes on every tick, links come and go and peers  *)
(* relay.  With Dedup the transport's ring lets a message through once;    *)
(* without it (other transports, or a ring that has wrapped) any number of *)
(* times.  A validator's own messages do not come back: the ring is seeded *)
(* with them.  The ring compares bytes, which do not name the sender, so   *)
(* two validators' requests for one height are one message to it.  A       *)
(* request or an answer broadcast with no peer connected is lost (Lossy).  *)
(* Nothing is lost in a fair behaviour without Lossy: links stay up, and   *)
(* the PRE-COMMIT that completes a quorum, which is broadcast once, then   *)
(* reaches its peers too.                                                  *)
(*                                                                         *)
(* The round timer may fire at any moment between two ticks.               *)
(***************************************************************************)
EXTENDS BftEngine

CONSTANTS
    Faulty,         \* validators that do not run this code
    FaultyMessages, \* what they broadcast
    Dedup, Lossy,   \* BOOLEAN: the transport (see above)
    Bodies,         \* bodies a leader may pack from its pending transactions
    MaxHeight,      \* bound on the heights
    MaxRound,       \* bound on the rounds of a height
    Timed           \* validators whose round timer may fire (the code: all;
                    \* an instance may bound them)

Honest == Validators \ Faulty

Rounds == 0..MaxRound
Chains == Seq([number : Nat, round : Rounds, body : Bodies])
VotePhases == {"prevote", "precommit"}
Ballots == [phase : VotePhases, height : Nat, round : Rounds, block : Chains,
            from : Validators, signed : BOOLEAN]
Certificates == [block : Chains, height : Nat, round : Rounds, signers : SUBSET Validators]
Proofs == [by : Validators, height : Nat, round : Rounds]

\* Less than a third of the stake is faulty, and doubling the total fits.  What
\* faulty validators broadcast decodes; a vote may name any validator, but the
\* signatures they make are their own.
ASSUME GossipAssumption ==
    /\ 2 * TotalStake(Stake) < StakeModulus
    /\ Faulty \subseteq Validators
    /\ 3 * SignerStake(Stake, Faulty) < TotalStake(Stake)
    /\ MaxHeight \in Nat /\ MaxRound \in Nat
    /\ \A m \in FaultyMessages :
        /\ m.from \in Faulty
        /\ \/ /\ m.type = "Proposal" /\ m.height \in Nat /\ m.round \in Rounds
              /\ m.proof \in Proofs /\ m.block \in Chains
              /\ Len(m.block) \in 1..MaxHeight
           \/ /\ m.type = "Vote" /\ m.vote \in Ballots /\ m.vote.height = m.height
              /\ m.vote.signed => m.vote.from \in Faulty
           \/ m.type = "BlockRequest" /\ m.height \in Nat
           \/ m.type = "BlockResponse" /\ m.cert \in Certificates
    /\ NoBlock \notin Chains
    /\ Timed \subseteq Validators
    /\ Dedup \in BOOLEAN /\ Lossy \in BOOLEAN

\* The blocks faulty leaders propose carry the number after their parent's.
\* Nothing in handle_proposal_msg ensures it: see ImplementsVoting.
FaultyNumbersAreHeights ==
    \A m \in FaultyMessages : m.type = "Proposal" => Number(m.block) = Len(m.block)

VARIABLES
    eng,    \* eng[n]: the engine of validator n
    flags,  \* flags[n]: its RoundFlags
    sent,   \* the messages broadcast so far
    ring    \* ring[n]: the messages the dedup ring of n has let through

vars == <<eng, flags, sent, ring>>

NoPosition == <<0, 0>>

NewFlags ==
    [proposed |-> NoPosition, voted |-> [p \in VotePhases |-> NoPosition], requested |-> {}]

\* `from` is the peer a message comes from, and not part of it.  `block` stands
\* for the block hash, the coinbase and the body.
Proposal(g, n) ==
    [type |-> "Proposal", height |-> g.coord.height, round |-> g.coord.round,
     block |-> g.proposal, from |-> n,
     proof |-> [by |-> n, height |-> g.coord.height, round |-> g.coord.round]]
VoteMessage(v) == [type |-> "Vote", height |-> v.height, vote |-> v, from |-> v.from]
BlockRequest(h, n) == [type |-> "BlockRequest", height |-> h, from |-> n]
BlockResponse(cert, n) == [type |-> "BlockResponse", cert |-> cert, from |-> n]

\* What the dedup ring compares.
Bytes(m) == [m EXCEPT !.from = 0]

Init ==
    /\ eng = [n \in Honest |-> FromRecovered(<< >>)]
    /\ flags = [n \in Honest |-> NewFlags]
    /\ sent = FaultyMessages
    /\ ring = [n \in Honest |-> {}]

-----------------------------------------------------------------------------
(* Inbound messages. *)

\* The validators that signed the vote (p, h, r, b), by the messages broadcast.
Signers(p, h, r, b) ==
    {v.from : v \in {w \in {m.vote : m \in {k \in sent : k.type = "Vote"}} :
                        /\ w.phase = p /\ w.height = h /\ w.round = r
                        /\ w.block = b /\ w.signed}}

\* What signatures leave to a faulty validator: it may use a leader proof of its
\* own or one that is published, and aggregate votes that were cast.
Makeable(m) ==
    /\ m.type = "Proposal" =>
        \/ m.proof.by \in Faulty
        \/ \E w \in sent : w.type = "Proposal" /\ w.from \in Honest /\ w.proof = m.proof
    /\ m.type = "BlockResponse" =>
        m.cert.signers \subseteq Signers("precommit", m.cert.height, m.cert.round, m.cert.block)

Inbox(n) ==
    {m \in sent : m.from # n /\ Bytes(m) \notin ring[n] /\ (m.from \in Faulty => Makeable(m))}

\* The ring of n after n has read or broadcast the messages msgs.
Observe(n, msgs) ==
    ring' = IF Dedup THEN [ring EXCEPT ![n] = @ \cup {Bytes(m) : m \in msgs}] ELSE ring

\* Every handled message is followed by auto_harvest.
Becomes(n, engines) == \E g \in engines : eng' = [eng EXCEPT ![n] = TryHarvestCommitted(g)]

\* A message that is not re-broadcast.
BroadcastOnce(msgs) == sent' \in {sent \cup msgs} \cup (IF Lossy THEN {sent} ELSE {})

FutureHeight(n, m) == m.height > NextHeight(eng[n])

\* request_catchup_if_future_height: the message itself is dropped, the next
\* block is requested unless it has been.
ReceiveFuture(n, m) ==
    LET h == NextHeight(eng[n])
    IN  /\ m.type \in {"Proposal", "Vote"} /\ FutureHeight(n, m)
        /\ flags' = [flags EXCEPT ![n].requested = @ \cup {h}]
        /\ IF h \in flags[n].requested
           THEN UNCHANGED sent /\ Observe(n, {m})
           ELSE BroadcastOnce({BlockRequest(h, n)}) /\ Observe(n, {m, BlockRequest(h, n)})
        /\ UNCHANGED eng

\* handle_proposal_msg: a later round of the height is joined before anything
\* is checked; the block rebuilt on the own head, with the number and the leader
\* proof of the message, must have the stated hash.
HandleProposal(g, m) ==
    LET joins == /\ m.height = NextHeight(g) /\ m.round > 0
                 /\ \/ g.coord = NoCoordinator
                    \/ g.coord.height = m.height /\ m.round > g.coord.round
        f == IF joins THEN FastForwardToRound(g, m.round) ELSE g
        body == m.block[Len(m.block)].body
    IN  IF m.block = BuildBlock(g, m.height, m.proof.round, body)
        THEN SubmitRemoteProposal(f, m.block, m.proof)
        ELSE {f}

ReceiveProposal(n, m) ==
    /\ m.type = "Proposal" /\ ~FutureHeight(n, m)
    /\ Becomes(n, HandleProposal(eng[n], m))
    /\ Observe(n, {m})
    /\ UNCHANGED <<flags, sent>>

ReceiveVote(n, m) ==
    /\ m.type = "Vote" /\ ~FutureHeight(n, m)
    /\ Becomes(n, SubmitRemoteVote(eng[n], m.vote))
    /\ Observe(n, {m})
    /\ UNCHANGED <<flags, sent>>

\* committed_block_at.  A request carries no requester: the answer is broadcast.
ReceiveBlockRequest(n, m) ==
    LET answers == {BlockResponse(c, n) : c \in {d \in eng[n].recent : Number(d.block) = m.height}}
    IN  /\ m.type = "BlockRequest"
        /\ BroadcastOnce(answers)
        /\ Observe(n, {m} \cup answers)
        /\ UNCHANGED <<eng, flags>>

\* handle_block_response.
ReceiveBlockResponse(n, m) ==
    /\ m.type = "BlockResponse"
    /\ IF CanAdopt(eng[n], m.cert.block, m.cert)
       THEN /\ Becomes(n, {AdoptSyncedBlock(eng[n], m.cert.block, m.cert)})
            /\ flags' = [flags EXCEPT ![n].requested = @ \ {m.cert.height}]
       ELSE UNCHANGED <<eng, flags>>
    /\ Observe(n, {m})
    /\ UNCHANGED sent

-----------------------------------------------------------------------------
(* Driving the round (drive_phase, bootstrap_propose) and its timer. *)

\* maybe_propose looks at the flag; bootstrap_propose, which starts a height
\* without a coordinator, does not.
Propose(n, body) ==
    LET g == eng[n]
    IN  /\ Len(g.head) < MaxHeight
        /\ CanCastProposal(g, n)
        /\ g.coord = NoCoordinator \/ flags[n].proposed # RoundPosition(g)
        /\ eng' = [eng EXCEPT ![n] = CastProposal(g, body)]
        /\ flags' = [flags EXCEPT ![n].proposed = RoundPosition(g)]
        /\ sent' = sent \cup {Proposal(eng'[n], n)}
        /\ Observe(n, {Proposal(eng'[n], n)})

VotingPhase(p) == IF p = "prevote" THEN "Prevoting" ELSE "Precommitting"

\* maybe_prevote and maybe_precommit, with the final harvest of the tick.
Vote(n, p) ==
    LET g == eng[n]
        v == OwnVote(g, n, p)
    IN  /\ g.coord.phase = VotingPhase(p)
        /\ flags[n].voted[p] # RoundPosition(g)
        /\ Accepts(g.coord, v)
        /\ eng' = [eng EXCEPT ![n] = TryHarvestCommitted(CastVote(g, v))]
        /\ flags' = [flags EXCEPT ![n].voted[p] = RoundPosition(g)]
        /\ sent' = sent \cup {VoteMessage(v)}
        /\ Observe(n, {VoteMessage(v)})

Timeout(n) ==
    /\ n \in Timed
    /\ Len(eng[n].head) < MaxHeight /\ eng[n].coord.round < MaxRound
    /\ \E g \in TickTimeout(eng[n]) : eng' = [eng EXCEPT ![n] = g]
    /\ UNCHANGED <<flags, sent, ring>>

Receive(n, m) ==
    \/ ReceiveFuture(n, m)
    \/ ReceiveProposal(n, m)
    \/ ReceiveVote(n, m)
    \/ ReceiveBlockRequest(n, m)
    \/ ReceiveBlockResponse(n, m)

Next ==
    \E n \in Honest :
        \/ \E m \in Inbox(n) : Receive(n, m)
        \/ \E body \in Bodies : Propose(n, body)
        \/ \E p \in VotePhases : Vote(n, p)
        \/ Timeout(n)

Spec == Init /\ [][Next]_vars

\* The host loop ticks every 50 ms: what is connected is delivered, and a
\* round is driven.  Nothing is assumed of the timer.
FairSpec ==
    /\ Spec
    /\ \A n \in Honest :
        /\ WF_vars(\E m \in Inbox(n) : Receive(n, m))
        /\ WF_vars(\E body \in Bodies : Propose(n, body))
        /\ WF_vars(\E p \in VotePhases : Vote(n, p))

-----------------------------------------------------------------------------
HonestVotes == {m.vote : m \in {w \in sent : w.type = "Vote" /\ w.from \in Honest}}

\* What BftVoting sees of the network.
Voting == INSTANCE BftVoting WITH
    head <- [n \in Honest |-> eng[n].head],
    round <- [n \in Honest |-> eng[n].coord.round],
    voted <- [p \in VotePhases |-> [n \in Honest |-> flags[n].voted[p]]],
    votes <- {[phase |-> v.phase, height |-> v.height, round |-> v.round,
               block |-> v.block, from |-> v.from] : v \in HonestVotes}

(* Engines, buffers, drains, fast-forwards, certificates and catch-up      *)
(* implement the voting protocol: whatever a driver does in a step is one  *)
(* of BftVoting's, or none.  This holds for faulty leaders that number     *)
(* their blocks by height (FaultyNumbersAreHeights): a proposal for an old *)
(* height is rebuilt with that number and, once decided, moves head_number *)
(* back (gossip.rs, engine.rs), which no voting protocol does.             *)
ImplementsVoting == Voting!Spec

EntryOK(e) == e.number \in Nat /\ e.round \in Rounds /\ e.body \in Bodies
BlockOK(b) == Len(b) \in 1..MaxHeight /\ \A i \in 1..Len(b) : EntryOK(b[i])

TypeOK ==
    /\ \A n \in Honest :
        /\ eng[n].head = << >> \/ BlockOK(eng[n].head)
        /\ eng[n].proposal = NoBlock \/ BlockOK(eng[n].proposal)
        /\ eng[n].coord.round \in 0..MaxRound /\ eng[n].coord.phase \in Phases
        /\ eng[n].coord.block = NoBlock \/ BlockOK(eng[n].coord.block)
        /\ eng[n].coord.prevotes \subseteq Validators
        /\ eng[n].coord.precommits \subseteq Validators
        /\ \A v \in eng[n].pending : v.phase \in VotePhases /\ BlockOK(v.block)
        /\ flags[n].requested \subseteq 1..MaxHeight + 1
    /\ \A m \in sent : m.from \in Validators

(* An engine is never wedged (try_harvest_committed, tick_timeout): its    *)
(* coordinator is for the height after its head, a block under vote is the *)
(* captured proposal, extends the head and carries the proof of the        *)
(* coordinator's round, and no engine rests in Committed between steps,    *)
(* where a timeout would clear the proposal and leave it there for ever.   *)
EngineCoherent ==
    \A n \in Honest :
        LET g == eng[n]
        IN  g.coord # NoCoordinator =>
                /\ g.coord.height = NextHeight(g)
                /\ g.coord.phase # "Committed"
                /\ g.coord.phase # "AwaitingProposal" =>
                    /\ g.proposal = g.coord.block
                    /\ SubSeq(g.proposal, 1, Len(g.head)) = g.head
                    /\ Len(g.proposal) = NextHeight(g)
                    /\ g.proposal[NextHeight(g)].round = g.coord.round

(* No vote is counted that was not cast: the signers of every tally and of *)
(* every certificate an engine keeps for its peers have broadcast exactly  *)
(* that vote, so that buffering, draining, round changes and catch-up      *)
(* never carry a vote over to another block, height or round.              *)
TalliesAreGenuine ==
    \A n \in Honest :
        LET g == eng[n]
            c == g.coord
        IN  /\ c.prevotes \subseteq Signers("prevote", c.height, c.round, c.block)
            /\ c.precommits \subseteq Signers("precommit", c.height, c.round, c.block)
            /\ \A cert \in g.recent :
                cert.signers \subseteq Signers("precommit", cert.height, cert.round, cert.block)

(* Evidence that verifies is sound (EquivocationEvidence::verify): late,   *)
(* repeated, reordered and unsigned votes of several rounds and phases     *)
(* never yield evidence against a validator that runs this code which      *)
(* passes the re-check.  Nothing is claimed of evidence as the detector    *)
(* parks it, before any signature has been looked at.                      *)
HonestNeverAccused ==
    \A n \in Honest : \A ev \in eng[n].evidence :
        EvidenceVerifies(ev) => \A v \in ev : v.from \in Faulty

(* Catch-up can be served (committed_block_at): an engine keeps verifying  *)
(* certificates for its head and the blocks before it, one per height, up  *)
(* to the cap.                                                             *)
RecentServesHead ==
    \A n \in Honest :
        LET g == eng[n]
            low == Len(g.head) - RECENT_BLOCKS_CAP
        IN  /\ {c.height : c \in g.recent} = {h \in 1..Len(g.head) : h > low}
            /\ \A c \in g.recent :
                /\ CertificateVerifies(c)
                /\ c.block = SubSeq(g.head, 1, c.height)

(* A validator that sees the network work on a height beyond its own next  *)
(* one finalises the block it is missing: by the certificate a peer sends  *)
(* on request, or by the votes that are still on their way.                *)
CatchUp ==
    \A n \in Honest, h \in 1..MaxHeight - 1 :
        (\E m \in sent : m.type \in {"Proposal", "Vote"} /\ m.height > h)
            ~> Len(eng[n].head) >= h

(* Finality without forks across rounds: of any two honest heads one       *)
(* extends the other.                                                      *)
Agreement ==
    \A n, k \in Honest :
        Len(eng[n].head) <= Len(eng[k].head)
            => SubSeq(eng[k].head, 1, Len(eng[n].head)) = eng[n].head

=============================================================================
