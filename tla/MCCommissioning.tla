-------------------------- MODULE MCCommissioning --------------------------
(* A node with room for two fabrics, whose indexes are soon used again. *)
EXTENDS Commissioning, TLC

CONSTANTS k1, k2, k3, r1, r2

MCHandles == {k1, k2, k3}
MCRoots == {r1, r2}
MCSymmetry == Permutations(MCHandles) \cup Permutations(MCRoots)
=============================================================================
