---------------------------- MODULE MCReporting ----------------------------
(* Reporting for TLC: one subscriber on a fabric with two paths and events,  *)
(* and one over PASE that asks for no path and hears keep-alives only.       *)
EXTENDS Reporting

CONSTANTS a, b, f, p, q, k

MCPeers == {a, b}
MCFabricOf == [x \in MCPeers |-> IF x = a THEN f ELSE None]
MCRequest ==
    [x \in MCPeers |->
        IF x = a THEN [paths |-> <<p, q>>, kinds |-> <<k>>, urgent |-> {k}, min |-> 1, max |-> 2]
        ELSE [paths |-> <<>>, kinds |-> <<>>, urgent |-> {}, min |-> 0, max |-> 1]]
=============================================================================
