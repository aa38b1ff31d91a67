---------------------------- MODULE MCMessaging ----------------------------
(* Messaging for TLC. *)
EXTENDS Messaging, TLC

MCExchangeIds == 0 .. 2
MCSymmetry == Permutations(SessionIds) \cup Permutations(Fabrics)
=============================================================================
