---------------------------- MODULE MCCaseChannel ----------------------------
(* Two fabrics: the device may hold two NOCs on A and one on B, with one     *)
(* initiator on each.                                                        *)
EXTENDS CaseChannel, TLC

CONSTANTS a1, a2, b1, n1, n2

MCCreds == {a1, a2, b1}
MCFabricOf == (a1 :> "A") @@ (a2 :> "A") @@ (b1 :> "B")
MCFabricId == [f \in {"A", "B"} |-> IF f = "A" THEN 1 ELSE 2]
MCNodes == {n1, n2}
MCMemberOf == (n1 :> "A") @@ (n2 :> "B")
==============================================================================
