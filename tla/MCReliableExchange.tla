------------------------- MODULE MCReliableExchange -------------------------
(* ReliableExchange for TLC. *)
EXTENDS ReliableExchange

MCBodies == 1 .. 2
MCWide == [n \in Ends |-> IF n = "initiator" THEN 3 ELSE 2]
=============================================================================
