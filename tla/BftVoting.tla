----------------------------- MODULE BftVoting ------------------------------
(***************************************************************************)
(* What the voting protocol of aii-consensus-bft promises, without engine, *)
(* buffers, certificates or transport: validators move through (height,    *)
(* round) positions and vote at most once per phase in each.  BftGossip is *)
(* the detailed specification that implements this one.                    *)
(*                                                                         *)
(* A block is the chain it ends: the sequence of the entries of the blocks *)
(* up to it, so that two blocks are equal when their hashes are (a header  *)
(* commits to its parent).  An entry holds the header's number, the round  *)
(* of the leader proof, which mix_hash commits to, and the body.           *)
(*                                                                         *)
(* Faulty validators may say anything: every block always has their vote.  *)
(* A validator that restarts and so forgets what it voted counts as one.   *)
(***************************************************************************)
EXTENDS ValidatorSet

CONSTANTS
    Stake,      \* the validator set: stakes in canonical order
    Faulty,     \* validators whose votes are not constrained
    Bodies,     \* bodies a leader may pack
    MaxHeight,  \* bound on the heights
    MaxRound    \* bound on the rounds of a height

Validators == DOMAIN Stake
Honest == Validators \ Faulty

\* Less than a third of the stake is faulty, and doubling the total fits.
ASSUME VotingAssumption ==
    /\ Stake \in Seq(Nat) /\ New(Stake)
    /\ 2 * TotalStake(Stake) < StakeModulus
    /\ Faulty \subseteq Validators
    /\ 3 * SignerStake(Stake, Faulty) < TotalStake(Stake)
    /\ MaxHeight \in Nat /\ MaxRound \in Nat

Rounds == 0..MaxRound
Entries == [number : Nat, round : Rounds, body : Bodies]
Chains == Seq(Entries)
Genesis == << >>
Phases == {"prevote", "precommit"}
Votes == [phase : Phases, height : Nat, round : Rounds, block : Chains, from : Honest]

VARIABLES
    head,   \* head[n]: the last block n has finalised
    round,  \* round[n]: its round at the next height
    voted,  \* voted[p][n]: the position of its last vote in phase p
    votes   \* the votes the honest validators have broadcast

vars == <<head, round, voted, votes>>

\* Height 0 is genesis: no validator is ever there.
NoPosition == <<0, 0>>
Position(n) == <<Len(head[n]) + 1, round[n]>>

Vote(p, n, b) ==
    [phase |-> p, height |-> Len(b), round |-> round[n], block |-> b, from |-> n]

Voters(p, h, r, b, vs) ==
    {v.from : v \in {w \in vs : w.phase = p /\ w.height = h /\ w.round = r /\ w.block = b}}

\* A quorum of the stake backs b in phase p of (h, r), by the votes vs.
QuorumFor(p, h, r, b, vs) == IsQuorum(Stake, Faulty \cup Voters(p, h, r, b, vs))

Init ==
    /\ head = [n \in Honest |-> Genesis]
    /\ round = [n \in Honest |-> 0]
    /\ voted = [p \in Phases |-> [n \in Honest |-> NoPosition]]
    /\ votes = {}

\* A block that n can finalise: it extends n's head and has the next number.
Successor(n, r, x) ==
    Append(head[n], [number |-> Len(head[n]) + 1, round |-> r, body |-> x])

\* The block n would vote for: its leader proof is for n's round.
Candidate(n, x) == Successor(n, round[n], x)

\* A validator that forgets where it has voted.
Prevote_NoFlag(n, x) ==
    /\ Len(head[n]) < MaxHeight
    /\ voted' = [voted EXCEPT !["prevote"][n] = Position(n)]
    /\ votes' = votes \cup {Vote("prevote", n, Candidate(n, x))}
    /\ UNCHANGED <<head, round>>

Prevote(n, x) ==
    /\ Len(head[n]) < MaxHeight
    /\ voted["prevote"][n] # Position(n)
    /\ voted' = [voted EXCEPT !["prevote"][n] = Position(n)]
    /\ votes' = votes \cup {Vote("prevote", n, Candidate(n, x))}
    /\ UNCHANGED <<head, round>>

\* A PRE-COMMIT that does not wait for the POLC.
CastPrecommit_NoPolc(n, b) ==
    /\ voted["precommit"][n] # Position(n)
    /\ voted' = [voted EXCEPT !["precommit"][n] = Position(n)]
    /\ votes' = votes \cup {Vote("precommit", n, b)}

CastPrecommit(n, b) ==
    /\ voted["precommit"][n] # Position(n)
    /\ voted' = [voted EXCEPT !["precommit"][n] = Position(n)]
    /\ QuorumFor("prevote", Len(b), round[n], b, votes)
    /\ votes' = votes \cup {Vote("precommit", n, b)}

\* A new height that goes on counting the rounds of the last one.
Finalise_NextRound(n, b, vs) ==
    /\ head' = [head EXCEPT ![n] = b]
    /\ \E r \in Rounds : QuorumFor("precommit", Len(b), r, b, vs)
    /\ round' = [round EXCEPT ![n] = @ + 1]

Finalise(n, b, vs) ==
    /\ head' = [head EXCEPT ![n] = b]
    /\ \E r \in Rounds : QuorumFor("precommit", Len(b), r, b, vs)
    /\ round' = [round EXCEPT ![n] = 0]

Precommit(n, x) ==
    /\ Len(head[n]) < MaxHeight
    /\ CastPrecommit(n, Candidate(n, x))
    /\ UNCHANGED <<head, round>>

\* The vote that completes a quorum finalises the block in the same step.
PrecommitAndFinalise(n, x) ==
    /\ Len(head[n]) < MaxHeight
    /\ CastPrecommit(n, Candidate(n, x))
    /\ Finalise(n, Candidate(n, x), votes')

\* A certificate of any round finalises the block it is for.
Decide(n, r, x) ==
    /\ Len(head[n]) < MaxHeight
    /\ Finalise(n, Successor(n, r, x), votes)
    /\ UNCHANGED <<voted, votes>>

\* A timeout, or a proposal of a later round.
AdvanceRound(n, r) ==
    /\ r > round[n]
    /\ round' = [round EXCEPT ![n] = r]
    /\ UNCHANGED <<head, voted, votes>>

Next ==
    \E n \in Honest :
        \/ \E x \in Bodies :
            Prevote(n, x) \/ Precommit(n, x) \/ PrecommitAndFinalise(n, x)
        \/ \E r \in Rounds, x \in Bodies : Decide(n, r, x)
        \/ \E r \in Rounds : AdvanceRound(n, r)

Spec == Init /\ [][Next]_vars

-----------------------------------------------------------------------------
TypeOK ==
    /\ head \in [Honest -> Chains]
    /\ round \in [Honest -> Rounds]
    /\ voted \in [Phases -> [Honest -> Nat \X Rounds]]
    /\ votes \in SUBSET Votes

(* An honest validator never votes for two blocks in one phase of one      *)
(* (height, round): its votes are no evidence for EquivocationDetector.    *)
NoEquivocation ==
    \A v, w \in votes :
        /\ v.phase = w.phase /\ v.from = w.from
        /\ v.height = w.height /\ v.round = w.round
        => v.block = w.block

(* Two certificates of one (height, round) are for the same block, whoever *)
(* assembled them and whatever the faulty validators signed.               *)
RoundAgreement ==
    \A v, w \in votes :
        /\ v.height = w.height /\ v.round = w.round
        /\ QuorumFor("precommit", v.height, v.round, v.block, votes)
        /\ QuorumFor("precommit", w.height, w.round, w.block, votes)
        => v.block = w.block

(* Every block of an honest validator's chain, the ones it adopted from    *)
(* peers included, got a PRE-VOTE and a PRE-COMMIT quorum in the round its *)
(* own leader proof is for.                                                *)
ChainIsJustified ==
    \A n \in Honest : \A k \in 1..Len(head[n]) :
        LET b == SubSeq(head[n], 1, k)
        IN  \A p \in Phases : QuorumFor(p, k, head[n][k].round, b, votes)

=============================================================================
