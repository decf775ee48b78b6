------------------------- MODULE ValidatorSetProofs -------------------------
(***************************************************************************)
(* The quorum properties of ValidatorSetSpec, for sets of every size and   *)
(* every stake.                                                            *)
(***************************************************************************)
EXTENDS ValidatorSetSpec, QuorumLemmas

(* Whatever set there is was accepted by ValidatorSet::new.                *)
LEMMA InForceIsNew == Spec => [](vs \in Seq(Nat) /\ New(vs))
<1> DEFINE Inv == vs \in Seq(Nat) /\ New(vs)
<1>1. Candidates \subseteq Seq(Nat)
  <2>1. ASSUME NEW k \in 0..MaxSize, NEW c \in [1..k -> 0..MaxStake]
        PROVE  c \in Seq(Nat)
    <3>1. k \in Nat /\ c \in [1..k -> Nat]
      BY BoundAssumption
    <3> QED
      BY <3>1
  <2> QED
    BY Zenon, <2>1 DEF Candidates
<1>2. Init => Inv
  BY Zenon, <1>1 DEF Init
<1>3. Inv /\ [Next]_vs => Inv'
  <2>1. SUFFICES ASSUME Inv, [Next]_vs PROVE Inv'
    BY Zenon
  <2>2. ASSUME NEW c \in Candidates, Construct(c) PROVE Inv'
    <3>1. CASE New(c)
      <4>1. vs' = c
        BY Zenon, <2>2, <3>1 DEF Construct
      <4>2. c \in Seq(Nat)
        BY Zenon, <1>1
      <4> QED
        BY Zenon, <3>1, <4>1, <4>2 DEF New, TotalStake, SignerStake
    <3>2. CASE ~New(c)
      <4>1. vs' = vs
        BY Zenon, <2>2, <3>2 DEF Construct
      <4> QED
        BY Zenon, <2>1, <4>1 DEF New, TotalStake, SignerStake
    <3> QED
      BY Zenon, <3>1, <3>2
  <2>3. CASE UNCHANGED vs
    BY Zenon, <2>1, <2>3 DEF New, TotalStake, SignerStake
  <2> QED
    BY Zenon, <2>1, <2>2, <2>3 DEF Next
<1> QED
  BY <1>2, <1>3, PTL DEF Spec

(* In every validator set the engine can be running with, two quorums      *)
(* share more than a third of the stake.                                   *)
THEOREM QuorumsAlwaysOverlap == Spec => []QuorumsOverlap
<1>1. vs \in Seq(Nat) => QuorumsOverlap
  BY Zenon, QuorumsShareAThird DEF QuorumsOverlap
<1> QED
  BY <1>1, InForceIsNew, PTL

(* In every validator set the engine can be running with, the validators   *)
(* left when less than a third of the stake is silent form a quorum.       *)
THEOREM QuorumAlwaysReachable == Spec => []QuorumReachable
<1>1. vs \in Seq(Nat) => QuorumReachable
  BY Zenon, HonestMajorityIsQuorum DEF QuorumReachable
<1> QED
  BY <1>1, InForceIsNew, PTL

=============================================================================
