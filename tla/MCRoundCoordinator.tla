------------------------- MODULE MCRoundCoordinator -------------------------
(***************************************************************************)
(* One coordinator of three validators, two blocks and three rounds.       *)
(***************************************************************************)
EXTENDS RoundCoordinatorSpec

\* Three validators with stakes 2, 1, 1: quorum 3, so neither the heavy
\* validator alone nor the two light ones are a quorum.
MCStake == <<2, 1, 1>>

MCLeader(h, r) == 1 + ((h + r) % 3)

=============================================================================
