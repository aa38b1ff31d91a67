------------------------------- MODULE MCBdx -------------------------------
(* Bdx for TLC. *)
EXTENDS Bdx
=============================================================================
