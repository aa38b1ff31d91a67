------------------------------- MODULE MCBtp -------------------------------
(* Btp for TLC. *)
EXTENDS Btp
=============================================================================
