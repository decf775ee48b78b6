---------------------------- MODULE MCBftVoting -----------------------------
(***************************************************************************)
(* BftVoting with two honest validators and a faulty one of a quarter of   *)
(* the stake.                                                              *)
(***************************************************************************)
EXTENDS BftVoting

MCStake == <<2, 1, 1>>

=============================================================================
