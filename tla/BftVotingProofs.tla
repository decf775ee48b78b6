-------------------------- MODULE BftVotingProofs ---------------------------
(***************************************************************************)
(* The safety properties of BftVoting, for every validator set with less   *)
(* than a third of the stake faulty and every number of heights, rounds    *)
(* and bodies.                                                             *)
(*                                                                         *)
(* NoEquivocation is not inductive: a validator must not come back to a    *)
(* position it has left.  VotesBehind says that its votes are at or before *)
(* its position, and at its position only when the flag remembers it.      *)
(***************************************************************************)
EXTENDS BftVoting, QuorumLemmas

\* No vote lies ahead of its author, and one at the author's position is
\* remembered by the flag that keeps the author from voting there again.
VotesBehind ==
    \A v \in votes :
        /\ \/ v.height < Len(head[v.from]) + 1
           \/ v.height = Len(head[v.from]) + 1 /\ v.round <= round[v.from]
        /\ (v.height = Len(head[v.from]) + 1 /\ v.round = round[v.from])
             => voted[v.phase][v.from] = <<v.height, v.round>>

\* A vote is for a block of its own height and round.
VotesBound ==
    \A v \in votes :
        v.height = Len(v.block) /\ v.height >= 1 /\ v.block[v.height].round = v.round

\* A PRE-COMMIT has a PRE-VOTE quorum behind it.
PrecommitsJustified ==
    \A v \in votes :
        v.phase = "precommit" => QuorumFor("prevote", v.height, v.round, v.block, votes)

IInv ==
    /\ TypeOK
    /\ VotesBehind
    /\ VotesBound
    /\ NoEquivocation
    /\ PrecommitsJustified
    /\ ChainIsJustified

-----------------------------------------------------------------------------
(* A quorum stays one when more votes are cast.                            *)
LEMMA QuorumForMonotone ==
    ASSUME NEW vs \in SUBSET Votes, NEW ws \in SUBSET Votes, vs \subseteq ws,
           NEW p, NEW h, NEW r, NEW b, QuorumFor(p, h, r, b, vs)
    PROVE  QuorumFor(p, h, r, b, ws)
<1> DEFINE S == Faulty \cup Voters(p, h, r, b, vs)
           T == Faulty \cup Voters(p, h, r, b, ws)
<1>1. S \subseteq T
  BY Zenon DEF Voters
<1>2. T \in SUBSET DOMAIN Stake
  BY Zenon, VotingAssumption DEF Voters, Votes, Honest, Validators
<1>3. SignerStake(Stake, S) <= SignerStake(Stake, T)
  BY Zenon, <1>1, <1>2, StakeMonotone, VotingAssumption
<1>4. /\ SignerStake(Stake, S) \in Nat /\ SignerStake(Stake, T) \in Nat
      /\ QuorumThreshold(Stake) \in Nat
  BY Zenon, <1>1, <1>2, UnitsFinite, ThresholdAboveTwoThirds, VotingAssumption
<1>5. SignerStake(Stake, S) >= QuorumThreshold(Stake)
  BY Zenon DEF QuorumFor, IsQuorum
<1>6. SignerStake(Stake, T) >= QuorumThreshold(Stake)
  <2> HIDE DEF S, T
  <2> QED
    BY <1>3, <1>4, <1>5
<1> QED
  BY Zenon, <1>6 DEF QuorumFor, IsQuorum

(* Two quorums have a vote of the same honest validator each.              *)
LEMMA QuorumsShareVoter ==
    ASSUME NEW vs \in SUBSET Votes,
           NEW p, NEW h, NEW r, NEW b, QuorumFor(p, h, r, b, vs),
           NEW q, NEW i, NEW s, NEW c, QuorumFor(q, i, s, c, vs)
    PROVE  \E v, w \in vs :
               /\ v.phase = p /\ v.height = h /\ v.round = r /\ v.block = b
               /\ w.phase = q /\ w.height = i /\ w.round = s /\ w.block = c
               /\ v.from = w.from
<1> DEFINE S == Faulty \cup Voters(p, h, r, b, vs)
           T == Faulty \cup Voters(q, i, s, c, vs)
<1>1. S \in SUBSET DOMAIN Stake /\ T \in SUBSET DOMAIN Stake
  BY Zenon, VotingAssumption DEF Voters, Votes, Honest, Validators
<1>2. IsQuorum(Stake, S) /\ IsQuorum(Stake, T)
  BY Zenon DEF QuorumFor
<1>3. PICK n \in S \cap T : n \notin Faulty
  <2> HIDE DEF S, T
  <2>1. Faulty \in SUBSET DOMAIN Stake
    BY Zenon, VotingAssumption DEF Validators
  <2> QED
    BY Zenon, <1>1, <1>2, <2>1, QuorumsShareHonest, VotingAssumption
<1> QED
  BY Zenon, <1>3 DEF Voters

-----------------------------------------------------------------------------
(* The initial states satisfy the inductive invariant.                     *)
LEMMA InitIInv == Init => IInv
<1> SUFFICES ASSUME Init PROVE IInv
  BY Zenon
<1>1. TypeOK
  BY VotingAssumption DEF Init, TypeOK, Chains, Genesis, Rounds, NoPosition, Votes
<1>2. votes = {} /\ \A n \in Honest : head[n] = << >>
  BY Zenon DEF Init, Genesis
<1>3. ChainIsJustified
  BY <1>2 DEF ChainIsJustified
<1> QED
  BY Zenon, <1>1, <1>2, <1>3
     DEF IInv, VotesBehind, VotesBound, NoEquivocation, PrecommitsJustified

(* Casting a vote for a block that extends the head, in the position's     *)
(* round, with the flag clear before and set after: the part of the        *)
(* invariant that is about votes is kept.                                  *)
LEMMA CastKeepsVotes ==
    ASSUME IInv, NEW n \in Honest, NEW x \in Bodies, NEW p \in Phases,
           Len(head[n]) < MaxHeight,
           voted[p][n] # Position(n),
           votes' = votes \cup {Vote(p, n, Candidate(n, x))},
           voted' = [voted EXCEPT ![p][n] = Position(n)]
    PROVE  /\ votes' \in SUBSET Votes
           /\ voted' \in [Phases -> [Honest -> Nat \X Rounds]]
           /\ VotesBound' /\ NoEquivocation'
           /\ \A v \in votes' :
                /\ \/ v.height < Len(head[v.from]) + 1
                   \/ v.height = Len(head[v.from]) + 1 /\ v.round <= round[v.from]
                /\ (v.height = Len(head[v.from]) + 1 /\ v.round = round[v.from])
                     => voted'[v.phase][v.from] = <<v.height, v.round>>
<1> DEFINE b == Candidate(n, x)
           new == Vote(p, n, b)
<1> USE DEF IInv
<1>1. /\ head[n] \in Seq(Entries) /\ round[n] \in Rounds /\ Len(head[n]) \in Nat
      /\ Rounds \subseteq Nat
  BY VotingAssumption DEF TypeOK, Chains, Rounds
<1>2. /\ b \in Seq(Entries) /\ Len(b) = Len(head[n]) + 1
      /\ b[Len(b)] = [number |-> Len(head[n]) + 1, round |-> round[n], body |-> x]
  <2>1. [number |-> Len(head[n]) + 1, round |-> round[n], body |-> x] \in Entries
    BY <1>1 DEF Entries
  <2> QED
    BY <1>1, <2>1 DEF Candidate, Successor
<1>3. /\ new.phase = p /\ new.height = Len(b) /\ new.round = round[n]
      /\ new.block = b /\ new.from = n /\ new \in Votes
  BY <1>1, <1>2 DEF Vote, Votes, Chains
<1>4. Position(n) = <<Len(b), round[n]>>
  BY Zenon, <1>2 DEF Position
<1> HIDE DEF b, new
<1>5. votes' = votes \cup {new} /\ votes \in SUBSET Votes
  BY Zenon DEF new, b, TypeOK
<1>6. \A q \in Phases, m \in Honest :
        voted'[q][m] = IF q = p /\ m = n THEN Position(n) ELSE voted[q][m]
  BY Zenon DEF TypeOK
<1>7. voted' \in [Phases -> [Honest -> Nat \X Rounds]]
  <2>1. Position(n) \in Nat \X Rounds
    BY <1>1 DEF Position
  <2> QED
    BY Zenon, <2>1 DEF TypeOK
<1>8. VotesBound'
  <2>1. new.height = Len(new.block) /\ new.height >= 1
          /\ new.block[new.height].round = new.round
    BY <1>1, <1>2, <1>3
  <2> QED
    BY Zenon, <1>5, <2>1 DEF VotesBound
<1>9. ASSUME NEW v \in votes, v.phase = p, v.from = n
      PROVE  ~(v.height = Len(b) /\ v.round = round[n])
  BY Zenon, <1>2, <1>4, <1>9 DEF VotesBehind
<1>10. NoEquivocation'
  BY <1>3, <1>5, <1>9 DEF NoEquivocation
<1>11. ASSUME NEW v \in votes'
       PROVE  /\ \/ v.height < Len(head[v.from]) + 1
                 \/ v.height = Len(head[v.from]) + 1 /\ v.round <= round[v.from]
              /\ (v.height = Len(head[v.from]) + 1 /\ v.round = round[v.from])
                   => voted'[v.phase][v.from] = <<v.height, v.round>>
  <2>1. CASE v = new
    BY <1>1, <1>2, <1>3, <1>4, <1>6, <2>1
  <2>2. CASE v \in votes
    <3>1. v.phase \in Phases /\ v.from \in Honest
      BY Zenon, <1>5, <2>2 DEF Votes
    <3>2. voted[v.phase][v.from] = <<v.height, v.round>>
            => voted'[v.phase][v.from] = voted[v.phase][v.from]
                 \/ voted'[v.phase][v.from] = Position(n)
      BY <1>6, <3>1
    <3>3. (v.phase = p /\ v.from = n)
            => ~(v.height = Len(head[v.from]) + 1 /\ v.round = round[v.from])
      BY Zenon, <1>2, <1>9, <2>2
    <3> QED
      BY ZenonT(40), <1>6, <2>2, <3>1, <3>3 DEF VotesBehind
  <2> QED
    BY Zenon, <1>5, <2>1, <2>2
<1> QED
  BY Zenon, <1>5, <1>3, <1>7, <1>8, <1>10, <1>11

(* PRE-COMMITs stay justified when a vote is added that is a PRE-VOTE or   *)
(* has its PRE-VOTE quorum.                                                *)
LEMMA CastKeepsJustified ==
    ASSUME votes \in SUBSET Votes, votes' \in SUBSET Votes, PrecommitsJustified,
           NEW new, votes' = votes \cup {new},
           new.phase = "precommit"
             => QuorumFor("prevote", new.height, new.round, new.block, votes)
    PROVE  PrecommitsJustified'
<1> SUFFICES ASSUME NEW v \in votes', v.phase = "precommit"
             PROVE  QuorumFor("prevote", v.height, v.round, v.block, votes')
  BY Zenon DEF PrecommitsJustified, QuorumFor, Voters
<1>1. QuorumFor("prevote", v.height, v.round, v.block, votes)
  BY Zenon DEF PrecommitsJustified
<1> QED
  BY Zenon, <1>1, QuorumForMonotone

(* The chains stay justified while the votes grow and the heads stay.      *)
LEMMA ChainStaysJustified ==
    ASSUME votes \in SUBSET Votes, votes' \in SUBSET Votes, votes \subseteq votes',
           ChainIsJustified, head' = head
    PROVE  ChainIsJustified'
<1> SUFFICES ASSUME NEW n \in Honest, NEW k \in 1..Len(head[n]), NEW p \in Phases
             PROVE  QuorumFor(p, k, head[n][k].round, SubSeq(head[n], 1, k), votes')
  BY DEF ChainIsJustified, QuorumFor, Voters
<1>1. QuorumFor(p, k, head[n][k].round, SubSeq(head[n], 1, k), votes)
  BY Zenon DEF ChainIsJustified
<1> QED
  BY <1>1, QuorumForMonotone

(* A block with a PRE-COMMIT quorum in some round was voted for in the     *)
(* round of its own leader proof, by an honest validator that had seen the *)
(* PRE-VOTE quorum.                                                        *)
LEMMA CertificateIsJustified ==
    ASSUME NEW vs \in SUBSET Votes, NEW r, NEW b, NEW h,
           QuorumFor("precommit", h, r, b, vs),
           \A v \in vs : v.height = Len(v.block) /\ v.block[v.height].round = v.round,
           \A v \in vs : v.phase = "precommit"
                => QuorumFor("prevote", v.height, v.round, v.block, vs)
    PROVE  \A p \in Phases : QuorumFor(p, h, b[h].round, b, vs)
<1>1. PICK v \in vs :
        v.phase = "precommit" /\ v.height = h /\ v.round = r /\ v.block = b
  BY QuorumsShareVoter
<1>2. b[h].round = r
  BY Zenon, <1>1
<1>3. QuorumFor("prevote", h, r, b, vs)
  BY Zenon, <1>1
<1> QED
  BY Zenon, <1>2, <1>3 DEF Phases

(* Finalising the next block keeps the chains justified and leaves every   *)
(* vote behind its author.                                                 *)
LEMMA FinaliseKeeps ==
    ASSUME TypeOK, ChainIsJustified, NEW n \in Honest, NEW e \in Entries,
           votes' \in SUBSET Votes, votes \subseteq votes',
           VotesBound', PrecommitsJustified',
           \A v \in votes' :
                /\ \/ v.height < Len(head[v.from]) + 1
                   \/ v.height = Len(head[v.from]) + 1 /\ v.round <= round[v.from]
                /\ (v.height = Len(head[v.from]) + 1 /\ v.round = round[v.from])
                     => voted'[v.phase][v.from] = <<v.height, v.round>>,
           Finalise(n, Append(head[n], e), votes')
    PROVE  /\ head' \in [Honest -> Chains]
           /\ round' \in [Honest -> Rounds]
           /\ ChainIsJustified'
           /\ VotesBehind'
<1> DEFINE b == Append(head[n], e)
           h == Len(head[n]) + 1
<1>1. head[n] \in Seq(Entries) /\ Len(head[n]) \in Nat
  BY DEF TypeOK, Chains
<1>2. b \in Seq(Entries) /\ Len(b) = h /\ b[h] = e
  BY <1>1
<1>3. /\ head' = [head EXCEPT ![n] = b]
      /\ round' = [round EXCEPT ![n] = 0]
      /\ \E r \in Rounds : QuorumFor("precommit", h, r, b, votes')
  BY Zenon, <1>2 DEF Finalise
<1>4. head' \in [Honest -> Chains] /\ round' \in [Honest -> Rounds]
  BY <1>2, <1>3, VotingAssumption DEF TypeOK, Chains, Rounds
<1>5. \A p \in Phases : QuorumFor(p, h, b[h].round, b, votes')
  <2>1. PICK r \in Rounds : QuorumFor("precommit", h, r, b, votes')
    BY Zenon, <1>3
  <2>2. \A v \in votes' : v.height = Len(v.block) /\ v.block[v.height].round = v.round
    BY Zenon DEF VotesBound
  <2>3. \A v \in votes' : v.phase = "precommit"
            => QuorumFor("prevote", v.height, v.round, v.block, votes')
    BY Zenon DEF PrecommitsJustified, QuorumFor, Voters
  <2> HIDE DEF b, h
  <2> QED
    BY Zenon, <2>1, <2>2, <2>3, CertificateIsJustified
<1>6. ChainIsJustified'
  <2> SUFFICES ASSUME NEW m \in Honest, NEW k \in 1..Len(head'[m]), NEW p \in Phases
               PROVE  QuorumFor(p, k, head'[m][k].round, SubSeq(head'[m], 1, k), votes')
    BY Zenon DEF ChainIsJustified, QuorumFor, Voters
  <2>1. CASE m # n \/ k < h
    <3>1. /\ k \in 1..Len(head[m]) /\ head'[m][k] = head[m][k]
          /\ SubSeq(head'[m], 1, k) = SubSeq(head[m], 1, k)
      <4>1. CASE m # n
        BY Zenon, <1>3, <4>1 DEF TypeOK
      <4>2. CASE m = n /\ k < h
        <5>1. head'[m] = b
          BY Zenon, <1>3, <4>2 DEF TypeOK
        <5>2. k \in 1..Len(head[n]) /\ b[k] = head[n][k]
          BY <1>1, <1>2, <4>2
        <5>3. SubSeq(b, 1, k) = SubSeq(head[n], 1, k)
          BY <1>1, <1>2, <5>2
        <5> QED
          BY Zenon, <4>2, <5>1, <5>2, <5>3
      <4> QED
        BY Zenon, <2>1, <4>1, <4>2
    <3>2. QuorumFor(p, k, head[m][k].round, SubSeq(head[m], 1, k), votes)
      BY Zenon, <3>1 DEF ChainIsJustified
    <3>3. votes \in SUBSET Votes
      BY Zenon DEF TypeOK
    <3> QED
      BY ZenonT(40), <3>1, <3>2, <3>3, QuorumForMonotone
  <2>2. CASE m = n /\ k = h
    <3>1. head'[m] = b /\ SubSeq(b, 1, h) = b
      BY <1>1, <1>2, <1>3, <2>2 DEF TypeOK
    <3> QED
      BY Zenon, <1>5, <2>2, <3>1
  <2>3. m = n => k <= h
    BY <1>2, <1>3 DEF TypeOK
  <2> QED
    BY <1>1, <2>1, <2>2, <2>3
<1>7. VotesBehind'
  <2> SUFFICES ASSUME NEW v \in votes'
               PROVE  /\ \/ v.height < Len(head'[v.from]) + 1
                         \/ v.height = Len(head'[v.from]) + 1 /\ v.round <= round'[v.from]
                      /\ (v.height = Len(head'[v.from]) + 1 /\ v.round = round'[v.from])
                           => voted'[v.phase][v.from] = <<v.height, v.round>>
    BY Zenon DEF VotesBehind
  <2>1. v.from \in Honest /\ v.height \in Nat
    BY Zenon DEF Votes
  <2>2. CASE v.from = n
    <3>1. Len(head'[n]) = h
      BY Zenon, <1>2, <1>3 DEF TypeOK
    <3> QED
      BY <1>1, <2>1, <2>2, <3>1
  <2>3. CASE v.from # n
    BY Zenon, <1>3, <2>1, <2>3 DEF TypeOK
  <2> QED
    BY Zenon, <2>2, <2>3
<1> QED
  BY Zenon, <1>4, <1>6, <1>7

(* Every step of the protocol keeps the inductive invariant.               *)
LEMMA NextIInv == IInv /\ [Next]_vars => IInv'
<1> SUFFICES ASSUME IInv, [Next]_vars PROVE IInv'
  BY Zenon
<1> USE DEF IInv
<1>0. votes \in SUBSET Votes /\ TypeOK
  BY Zenon DEF TypeOK
<1>1. ASSUME NEW n \in Honest, NEW x \in Bodies, Prevote(n, x)
      PROVE  IInv'
  <2> DEFINE new == Vote("prevote", n, Candidate(n, x))
  <2>1. /\ Len(head[n]) < MaxHeight /\ voted["prevote"][n] # Position(n)
        /\ votes' = votes \cup {new}
        /\ voted' = [voted EXCEPT !["prevote"][n] = Position(n)]
        /\ head' = head /\ round' = round
    BY Zenon, <1>1 DEF Prevote
  <2>2. /\ votes' \in SUBSET Votes
        /\ voted' \in [Phases -> [Honest -> Nat \X Rounds]]
        /\ VotesBound' /\ NoEquivocation' /\ VotesBehind'
    <3>1. "prevote" \in Phases
      BY Zenon DEF Phases
    <3> QED
      BY Zenon, <2>1, <3>1, CastKeepsVotes DEF VotesBehind
  <2>3. new.phase = "prevote"
    BY Zenon DEF Vote
  <2> HIDE DEF new
  <2>4. PrecommitsJustified'
    BY Zenon, <1>0, <2>1, <2>2, <2>3, CastKeepsJustified
  <2>5. ChainIsJustified'
    BY Zenon, <1>0, <2>1, <2>2, ChainStaysJustified
  <2> QED
    BY Zenon, <2>1, <2>2, <2>4, <2>5 DEF TypeOK
<1>2. ASSUME NEW n \in Honest, NEW x \in Bodies, Len(head[n]) < MaxHeight,
             CastPrecommit(n, Candidate(n, x))
      PROVE  /\ votes' \in SUBSET Votes /\ votes \subseteq votes'
             /\ voted' \in [Phases -> [Honest -> Nat \X Rounds]]
             /\ VotesBound' /\ NoEquivocation' /\ PrecommitsJustified'
             /\ \A v \in votes' :
                  /\ \/ v.height < Len(head[v.from]) + 1
                     \/ v.height = Len(head[v.from]) + 1 /\ v.round <= round[v.from]
                  /\ (v.height = Len(head[v.from]) + 1 /\ v.round = round[v.from])
                       => voted'[v.phase][v.from] = <<v.height, v.round>>
  <2> DEFINE b == Candidate(n, x)
             new == Vote("precommit", n, b)
  <2>1. /\ voted["precommit"][n] # Position(n)
        /\ QuorumFor("prevote", Len(b), round[n], b, votes)
        /\ votes' = votes \cup {new}
        /\ voted' = [voted EXCEPT !["precommit"][n] = Position(n)]
    BY Zenon, <1>2 DEF CastPrecommit
  <2>2. /\ votes' \in SUBSET Votes
        /\ voted' \in [Phases -> [Honest -> Nat \X Rounds]]
        /\ VotesBound' /\ NoEquivocation'
        /\ \A v \in votes' :
             /\ \/ v.height < Len(head[v.from]) + 1
                \/ v.height = Len(head[v.from]) + 1 /\ v.round <= round[v.from]
             /\ (v.height = Len(head[v.from]) + 1 /\ v.round = round[v.from])
                  => voted'[v.phase][v.from] = <<v.height, v.round>>
    <3>1. "precommit" \in Phases
      BY Zenon DEF Phases
    <3> QED
      BY Zenon, <1>2, <2>1, <3>1, CastKeepsVotes
  <2>3. new.height = Len(b) /\ new.round = round[n] /\ new.block = b
    BY Zenon DEF Vote
  <2> HIDE DEF new, b
  <2>4. PrecommitsJustified'
    BY Zenon, <1>0, <2>1, <2>2, <2>3, CastKeepsJustified
  <2> QED
    BY Zenon, <2>1, <2>2, <2>4
<1>3. ASSUME NEW n \in Honest, NEW x \in Bodies, Precommit(n, x)
      PROVE  IInv'
  <2>1. Len(head[n]) < MaxHeight /\ CastPrecommit(n, Candidate(n, x))
        /\ head' = head /\ round' = round
    BY Zenon, <1>3 DEF Precommit
  <2>2. /\ votes' \in SUBSET Votes /\ votes \subseteq votes'
        /\ voted' \in [Phases -> [Honest -> Nat \X Rounds]]
        /\ VotesBound' /\ NoEquivocation' /\ PrecommitsJustified' /\ VotesBehind'
    BY Zenon, <1>2, <2>1 DEF VotesBehind
  <2>3. ChainIsJustified'
    BY Zenon, <1>0, <2>1, <2>2, ChainStaysJustified
  <2> QED
    BY Zenon, <2>1, <2>2, <2>3 DEF TypeOK
<1>4. ASSUME NEW n \in Honest, NEW x \in Bodies, PrecommitAndFinalise(n, x)
      PROVE  IInv'
  <2> DEFINE e == [number |-> Len(head[n]) + 1, round |-> round[n], body |-> x]
  <2>1. Len(head[n]) < MaxHeight /\ CastPrecommit(n, Candidate(n, x))
        /\ Finalise(n, Append(head[n], e), votes')
    BY Zenon, <1>4 DEF PrecommitAndFinalise, Candidate, Successor
  <2>2. e \in Entries
    <3>1. Len(head[n]) + 1 \in Nat
      BY DEF TypeOK, Chains
    <3>2. round[n] \in Rounds
      BY Zenon DEF TypeOK
    <3> QED
      BY Zenon, <3>1, <3>2 DEF Entries
  <2> HIDE DEF e
  <2>3. /\ votes' \in SUBSET Votes /\ votes \subseteq votes'
        /\ voted' \in [Phases -> [Honest -> Nat \X Rounds]]
        /\ VotesBound' /\ NoEquivocation' /\ PrecommitsJustified'
    BY Zenon, <1>2, <2>1
  <2>4. /\ head' \in [Honest -> Chains] /\ round' \in [Honest -> Rounds]
        /\ ChainIsJustified' /\ VotesBehind'
    BY Zenon, <1>2, <2>1, <2>2, <2>3, FinaliseKeeps
  <2> QED
    BY Zenon, <2>3, <2>4 DEF TypeOK
<1>5. ASSUME NEW n \in Honest, NEW r \in Rounds, NEW x \in Bodies, Decide(n, r, x)
      PROVE  IInv'
  <2> DEFINE e == [number |-> Len(head[n]) + 1, round |-> r, body |-> x]
  <2>0. e \in Entries
    <3>1. Len(head[n]) + 1 \in Nat
      BY DEF TypeOK, Chains
    <3> QED
      BY Zenon, <3>1 DEF Entries
  <2>1. /\ Finalise(n, Append(head[n], e), votes')
        /\ votes' = votes /\ voted' = voted
    BY Zenon, <1>5 DEF Decide, Successor
  <2> HIDE DEF e
  <2>2. VotesBound' /\ NoEquivocation' /\ PrecommitsJustified'
    BY Zenon, <2>1 DEF VotesBound, NoEquivocation, PrecommitsJustified, QuorumFor, Voters
  <2>3. /\ head' \in [Honest -> Chains] /\ round' \in [Honest -> Rounds]
        /\ ChainIsJustified' /\ VotesBehind'
    <3>1. \A v \in votes' :
            /\ \/ v.height < Len(head[v.from]) + 1
               \/ v.height = Len(head[v.from]) + 1 /\ v.round <= round[v.from]
            /\ (v.height = Len(head[v.from]) + 1 /\ v.round = round[v.from])
                 => voted'[v.phase][v.from] = <<v.height, v.round>>
      BY Zenon, <2>1 DEF VotesBehind
    <3>2. votes' \in SUBSET Votes /\ votes \subseteq votes'
      BY Zenon, <1>0, <2>1
    <3>3. ChainIsJustified
      BY Zenon
    <3> QED
      BY Zenon, <1>0, <2>0, <2>1, <2>2, <3>1, <3>2, <3>3, FinaliseKeeps
  <2> QED
    BY Zenon, <1>0, <2>1, <2>2, <2>3 DEF TypeOK
<1>6. ASSUME NEW n \in Honest, NEW r \in Rounds, AdvanceRound(n, r)
      PROVE  IInv'
  <2>1. /\ r > round[n] /\ round' = [round EXCEPT ![n] = r]
        /\ head' = head /\ voted' = voted /\ votes' = votes
    BY Zenon, <1>6 DEF AdvanceRound
  <2>2. TypeOK'
    BY Zenon, <2>1 DEF TypeOK
  <2>3. VotesBound' /\ NoEquivocation' /\ PrecommitsJustified' /\ ChainIsJustified'
    BY <2>1 DEF VotesBound, NoEquivocation, PrecommitsJustified, ChainIsJustified,
                QuorumFor, Voters
  <2>4. VotesBehind'
    <3> SUFFICES ASSUME NEW v \in votes
                 PROVE  /\ \/ v.height < Len(head[v.from]) + 1
                           \/ v.height = Len(head[v.from]) + 1 /\ v.round <= round'[v.from]
                        /\ (v.height = Len(head[v.from]) + 1 /\ v.round = round'[v.from])
                             => voted[v.phase][v.from] = <<v.height, v.round>>
      BY Zenon, <2>1 DEF VotesBehind
    <3>1. /\ v.from \in Honest /\ v.round \in Nat /\ round[v.from] \in Nat /\ r \in Nat
          /\ round'[v.from] = IF v.from = n THEN r ELSE round[v.from]
      BY <2>1, VotingAssumption DEF TypeOK, Votes, Rounds
    <3>2. /\ \/ v.height < Len(head[v.from]) + 1
             \/ v.height = Len(head[v.from]) + 1 /\ v.round <= round[v.from]
          /\ (v.height = Len(head[v.from]) + 1 /\ v.round = round[v.from])
               => voted[v.phase][v.from] = <<v.height, v.round>>
      BY Zenon DEF VotesBehind
    <3>3. CASE v.from = n
      <4>1. v.height = Len(head[v.from]) + 1
              => v.round <= round'[v.from] /\ v.round # round'[v.from]
        BY <2>1, <3>1, <3>2, <3>3
      <4> QED
        BY Zenon, <3>2, <4>1
    <3>4. CASE v.from # n
      BY Zenon, <3>1, <3>2, <3>4
    <3> QED
      BY Zenon, <3>3, <3>4
  <2> QED
    BY Zenon, <2>2, <2>3, <2>4
<1>7. CASE UNCHANGED vars
  <2>1. head' = head /\ round' = round /\ voted' = voted /\ votes' = votes
    BY Zenon, <1>7 DEF vars
  <2>2. TypeOK' /\ VotesBehind' /\ VotesBound' /\ NoEquivocation'
    BY Zenon, <2>1 DEF TypeOK, VotesBehind, VotesBound, NoEquivocation
  <2>3. PrecommitsJustified' /\ ChainIsJustified'
    BY <2>1 DEF PrecommitsJustified, ChainIsJustified, QuorumFor, Voters
  <2> QED
    BY Zenon, <2>2, <2>3
<1> QED
  BY Zenon, <1>1, <1>3, <1>4, <1>5, <1>6, <1>7 DEF Next

(* The protocol keeps its inductive invariant for ever.                    *)
LEMMA Invariance == Spec => []IInv
BY InitIInv, NextIInv, PTL DEF Spec

(* Every reachable state is well-typed.                                    *)
THEOREM TypeCorrect == Spec => []TypeOK
<1>1. IInv => TypeOK
  BY Zenon DEF IInv
<1> QED
  BY <1>1, Invariance, PTL

(* An honest validator that does not lose its round flags never signs two  *)
(* blocks in one phase of one (height, round).                             *)
THEOREM HonestNeverEquivocate == Spec => []NoEquivocation
<1>1. IInv => NoEquivocation
  BY Zenon DEF IInv
<1> QED
  BY <1>1, Invariance, PTL

(* Within a round the protocol cannot fork: two PRE-COMMIT certificates of *)
(* one (height, round) are for the same block.                             *)
THEOREM RoundsNeverFork == Spec => []RoundAgreement
<1>1. IInv => RoundAgreement
  <2> SUFFICES ASSUME IInv, NEW v \in votes, NEW w \in votes,
                      v.height = w.height, v.round = w.round,
                      QuorumFor("precommit", v.height, v.round, v.block, votes),
                      QuorumFor("precommit", w.height, w.round, w.block, votes)
               PROVE  v.block = w.block
    BY Zenon DEF RoundAgreement
  <2>1. votes \in SUBSET Votes
    BY Zenon DEF IInv, TypeOK
  <2>2. PICK y, z \in votes :
          /\ y.phase = "precommit" /\ y.height = v.height /\ y.round = v.round
          /\ y.block = v.block
          /\ z.phase = "precommit" /\ z.height = w.height /\ z.round = w.round
          /\ z.block = w.block
          /\ y.from = z.from
    BY <2>1, QuorumsShareVoter
  <2> QED
    BY Zenon, <2>2 DEF IInv, NoEquivocation
<1> QED
  BY <1>1, Invariance, PTL

(* Every block an honest validator finalises, from its own tally or from a *)
(* peer's certificate, went through both voting phases in its own round.   *)
THEOREM ChainsAreJustified == Spec => []ChainIsJustified
<1>1. IInv => ChainIsJustified
  BY Zenon DEF IInv
<1> QED
  BY <1>1, Invariance, PTL

=============================================================================
