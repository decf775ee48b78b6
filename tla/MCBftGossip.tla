---------------------------- MODULE MCBftGossip -----------------------------
(***************************************************************************)
(* Small networks for BftGossip: three validators with stakes 2, 1, 1      *)
(* (quorum 3, one faulty unit tolerated), two equal ones, and two of which *)
(* one is a quorum by itself, so that the other can fall behind.           *)
(***************************************************************************)
EXTENDS BftGossip

Stakes_211 == <<2, 1, 1>>
Stakes_11 == <<1, 1>>
Stakes_31 == <<3, 1>>

\* The leaders of the rounds: in turn from the first validator on or from the
\* third, or always the first.
FirstLeads(h, r) == 1 + r
ThirdLeads(h, r) == IF r = 0 THEN 3 ELSE r

OneLeads(h, r) == 1

NoMessages == {}

Block(r, body) == <<[number |-> 1, round |-> r, body |-> body]>>

Vote_3(p, r, x) ==
    VoteMessage([phase |-> p, height |-> 1, round |-> r, block |-> Block(r, x),
                 from |-> 3, signed |-> TRUE])

\* Validator 3 votes for every block of round 0 in both phases.
Votes_3 == {Vote_3(p, 0, x) : p \in VotePhases, x \in Bodies}

\* It is cut off in round 0 and votes, like the others, in round 1.
Late_3 == {Vote_3(p, 1, x) : p \in VotePhases, x \in Bodies}

Proposal_3(h, b, proof) ==
    [type |-> "Proposal", height |-> h, round |-> proof.round, block |-> b,
     from |-> 3, proof |-> proof]

\* It proposes every block of round 0 under the leader proof of validator i, its
\* own or one that is published.
Proposals_3(i) ==
    {Proposal_3(1, Block(0, x), [by |-> i, height |-> 1, round |-> 0]) : x \in Bodies}

\* It sends a PRE-VOTE for a block of round 0 that names validator 1, which has
\* not signed it.
Unsigned_3 ==
    {[type |-> "Vote", height |-> 1, from |-> 3,
      vote |-> [phase |-> "prevote", height |-> 1, round |-> 0,
                block |-> Block(0, CHOOSE x \in Bodies : TRUE),
                from |-> 1, signed |-> FALSE]]}

Leads_3 == Proposals_3(3) \cup Unsigned_3
Reuses_3 == Proposals_3(1) \cup Votes_3

=============================================================================
