------------------------- MODULE MCReplayProtection -------------------------
(***************************************************************************)
(* ReplayProtection for TLC: the cfg gives every constant its value.       *)
(***************************************************************************)
EXTENDS ReplayProtection
=============================================================================
