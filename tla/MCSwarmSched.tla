----------------------------- MODULE MCSwarmSched -----------------------------
(***************************************************************************)
(* Instances of SwarmSched for TLC: two pieces, of one and of two blocks.  *)
(***************************************************************************)
EXTENDS SwarmSched, TLC

OneTwo == <<1, 2>>
=============================================================================
