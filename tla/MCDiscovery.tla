---------------------------- MODULE MCDiscovery ----------------------------
(* Two hosts, two names.  A tick is an twelfth of a second.                 *)
EXTENDS Discovery

CONSTANTS a, b, n1, n2

MCHosts == {a, b}
MCNames == {n1, n2}
MCRank == [h \in MCHosts |-> IF h = a THEN 1 ELSE 2]
=============================================================================
