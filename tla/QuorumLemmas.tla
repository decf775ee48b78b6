---------------------------- MODULE QuorumLemmas ----------------------------
(***************************************************************************)
(* The arithmetic of stake-weighted quorums, for every validator set.      *)
(***************************************************************************)
EXTENDS ValidatorSet, FiniteSetTheorems, FunctionTheorems, TLAPS

\* The stake units of the signers in S, which SignerStake counts.
Units(vs, S) == UNION {{i} \X (1..vs[i]) : i \in S}

(* The units of any signers of a set are finitely many, so their stake is  *)
(* a natural number.                                                       *)
LEMMA UnitsFinite ==
    ASSUME NEW vs \in Seq(Nat), NEW S \in SUBSET DOMAIN vs
    PROVE  /\ IsFiniteSet(Units(vs, S))
           /\ SignerStake(vs, S) = Cardinality(Units(vs, S))
           /\ SignerStake(vs, S) \in Nat
<1>1. IsFiniteSet(DOMAIN vs)
  <2>1. DOMAIN vs = 1..Len(vs) /\ Len(vs) \in Nat
    OBVIOUS
  <2> QED
    BY <2>1, FS_Interval
<1>2. IsFiniteSet(S)
  BY Zenon, <1>1, FS_Subset
<1> DEFINE f == [i \in S |-> {i} \X (1..vs[i])]
<1>3. IsFiniteSet({f[i] : i \in S})
  <2>1. f \in [S -> {f[i] : i \in S}]
    BY Zenon
  <2>2. f \in Surjection(S, {f[i] : i \in S})
    BY Zenon, <2>1 DEF Surjection
  <2> HIDE DEF f
  <2> QED
    BY Zenon, <1>2, <2>2, FS_Surjection
<1>4. {f[i] : i \in S} = {{i} \X (1..vs[i]) : i \in S}
  BY Zenon
<1>5. ASSUME NEW i \in S
      PROVE  IsFiniteSet({i} \X (1..vs[i]))
  <2>1. vs[i] \in Nat
    OBVIOUS
  <2>2. IsFiniteSet(1..vs[i])
    BY <2>1, FS_Interval
  <2>3. IsFiniteSet({i})
    BY Zenon, FS_Singleton
  <2> QED
    BY Zenon, <2>2, <2>3, FS_Product
<1>6. \A u \in {{i} \X (1..vs[i]) : i \in S} : IsFiniteSet(u)
  BY Zenon, <1>5
<1>7. IsFiniteSet(Units(vs, S))
  BY Zenon, <1>3, <1>4, <1>6, FS_UNION DEF Units
<1>8. SignerStake(vs, S) = Cardinality(Units(vs, S))
  BY Zenon DEF SignerStake, Units
<1> QED
  BY Zenon, <1>7, <1>8, FS_CardinalityType

(* More signers never hold less stake.                                     *)
LEMMA StakeMonotone ==
    ASSUME NEW vs \in Seq(Nat), NEW T \in SUBSET DOMAIN vs, NEW S \in SUBSET T
    PROVE  SignerStake(vs, S) <= SignerStake(vs, T)
<1>1. S \in SUBSET DOMAIN vs
  BY Zenon
<1>2. Units(vs, S) \subseteq Units(vs, T)
  BY Zenon DEF Units
<1> QED
  BY <1>1, <1>2, UnitsFinite, FS_Subset

(* Stake is additive: what two groups of signers hold together and what    *)
(* they share add up to what each of them holds.                           *)
LEMMA StakeAdditive ==
    ASSUME NEW vs \in Seq(Nat),
           NEW S \in SUBSET DOMAIN vs, NEW T \in SUBSET DOMAIN vs
    PROVE  SignerStake(vs, S \cup T) + SignerStake(vs, S \cap T)
             = SignerStake(vs, S) + SignerStake(vs, T)
<1>1. Units(vs, S \cup T) = Units(vs, S) \cup Units(vs, T)
  BY Zenon DEF Units
<1>2. Units(vs, S \cap T) = Units(vs, S) \cap Units(vs, T)
  <2>1. ASSUME NEW i, NEW j, NEW u, u \in {i} \X (1..vs[i]), u \in {j} \X (1..vs[j])
        PROVE  i = j
    BY Zenon, <2>1
  <2> QED
    BY <2>1 DEF Units
<1>3. /\ S \cup T \in SUBSET DOMAIN vs
      /\ S \cap T \in SUBSET DOMAIN vs
  BY Zenon
<1>4. /\ SignerStake(vs, S) = Cardinality(Units(vs, S))
      /\ SignerStake(vs, T) = Cardinality(Units(vs, T))
      /\ SignerStake(vs, S \cup T) = Cardinality(Units(vs, S) \cup Units(vs, T))
      /\ SignerStake(vs, S \cap T) = Cardinality(Units(vs, S) \cap Units(vs, T))
      /\ SignerStake(vs, S) \in Nat /\ SignerStake(vs, T) \in Nat
      /\ SignerStake(vs, S \cup T) \in Nat /\ SignerStake(vs, S \cap T) \in Nat
      /\ IsFiniteSet(Units(vs, S)) /\ IsFiniteSet(Units(vs, T))
  BY Zenon, <1>1, <1>2, <1>3, UnitsFinite
<1>5. SignerStake(vs, S \cup T)
        = SignerStake(vs, S) + SignerStake(vs, T) - SignerStake(vs, S \cap T)
  BY <1>4, FS_Union
<1> QED
  BY <1>4, <1>5

(* The threshold the code computes is more than two thirds of the stake,   *)
(* when doubling the total does not wrap.                                  *)
LEMMA ThresholdAboveTwoThirds ==
    ASSUME NEW vs \in Seq(Nat), 2 * TotalStake(vs) < StakeModulus
    PROVE  /\ QuorumThreshold(vs) \in Nat
           /\ 3 * QuorumThreshold(vs) > 2 * TotalStake(vs)
           /\ 3 * QuorumThreshold(vs) <= 2 * TotalStake(vs) + 3
<1>1. TotalStake(vs) \in Nat
  BY Zenon, UnitsFinite DEF TotalStake
<1>2. (TotalStake(vs) * 2) % StakeModulus = 2 * TotalStake(vs)
  BY <1>1, WidthAssumption
<1> QED
  BY <1>1, <1>2 DEF QuorumThreshold

(* Two quorums of one validator set share more than a third of its stake.  *)
THEOREM QuorumsShareAThird ==
    ASSUME NEW vs \in Seq(Nat), 2 * TotalStake(vs) < StakeModulus,
           NEW S \in SUBSET DOMAIN vs, NEW T \in SUBSET DOMAIN vs,
           IsQuorum(vs, S), IsQuorum(vs, T)
    PROVE  3 * SignerStake(vs, S \cap T) > TotalStake(vs)
<1>1. SignerStake(vs, S \cup T) <= TotalStake(vs)
  BY Zenon, StakeMonotone DEF TotalStake
<1>2. /\ SignerStake(vs, S) \in Nat /\ SignerStake(vs, T) \in Nat
      /\ SignerStake(vs, S \cup T) \in Nat /\ SignerStake(vs, S \cap T) \in Nat
      /\ TotalStake(vs) \in Nat
  BY Zenon, UnitsFinite DEF TotalStake
<1>3. SignerStake(vs, S \cup T) + SignerStake(vs, S \cap T)
        = SignerStake(vs, S) + SignerStake(vs, T)
  BY Zenon, StakeAdditive
<1>4. /\ QuorumThreshold(vs) \in Nat
      /\ 3 * QuorumThreshold(vs) > 2 * TotalStake(vs)
  BY Zenon, ThresholdAboveTwoThirds
<1>5. /\ SignerStake(vs, S) >= QuorumThreshold(vs)
      /\ SignerStake(vs, T) >= QuorumThreshold(vs)
  BY Zenon DEF IsQuorum
<1> QED
  BY <1>1, <1>2, <1>3, <1>4, <1>5

(* A quorum's complement of less than a third cannot block one: signers    *)
(* who miss less than a third of the stake are a quorum.                   *)
THEOREM HonestMajorityIsQuorum ==
    ASSUME NEW vs \in Seq(Nat), 2 * TotalStake(vs) < StakeModulus,
           NEW S \in SUBSET DOMAIN vs,
           3 * SignerStake(vs, DOMAIN vs \ S) < TotalStake(vs)
    PROVE  IsQuorum(vs, S)
<1> DEFINE R == DOMAIN vs \ S
<1>1. /\ SignerStake(vs, S) \in Nat /\ SignerStake(vs, R) \in Nat
      /\ TotalStake(vs) \in Nat
  BY Zenon, UnitsFinite DEF TotalStake
<1>2. S \cup R = DOMAIN vs /\ S \cap R = {}
  BY Zenon
<1>3. SignerStake(vs, {}) = 0
  <2>1. UNION {{i} \X (1..vs[i]) : i \in {}} = {}
    BY Zenon
  <2> QED
    BY Zenon, <2>1, FS_EmptySet DEF SignerStake
<1>4. SignerStake(vs, S \cup R) + SignerStake(vs, S \cap R)
        = SignerStake(vs, S) + SignerStake(vs, R)
  BY Zenon, StakeAdditive
<1>5. TotalStake(vs) = SignerStake(vs, S) + SignerStake(vs, R)
  <2>1. /\ SignerStake(vs, S \cup R) = TotalStake(vs)
        /\ SignerStake(vs, S \cap R) = 0
    BY <1>2, <1>3, Zenon DEF TotalStake
  <2> HIDE DEF R
  <2> QED
    BY <1>1, <1>4, <2>1
<1> QED
  BY <1>1, <1>5, ThresholdAboveTwoThirds DEF IsQuorum

(* Less than a third of the stake is never a common part of two quorums:   *)
(* two quorums share a validator outside any such set.                     *)
THEOREM QuorumsShareHonest ==
    ASSUME NEW vs \in Seq(Nat), 2 * TotalStake(vs) < StakeModulus,
           NEW F \in SUBSET DOMAIN vs, 3 * SignerStake(vs, F) < TotalStake(vs),
           NEW S \in SUBSET DOMAIN vs, NEW T \in SUBSET DOMAIN vs,
           IsQuorum(vs, S), IsQuorum(vs, T)
    PROVE  \E i \in S \cap T : i \notin F
<1>1. 3 * SignerStake(vs, S \cap T) > TotalStake(vs)
  BY Zenon, QuorumsShareAThird
<1>2. SUFFICES ASSUME S \cap T \subseteq F PROVE FALSE
  BY Zenon
<1>3. SignerStake(vs, S \cap T) <= SignerStake(vs, F)
  BY Zenon, <1>2, StakeMonotone
<1> QED
  BY <1>1, <1>3, UnitsFinite DEF TotalStake

=============================================================================
