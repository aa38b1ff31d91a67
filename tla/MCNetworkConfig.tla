--------------------------- MODULE MCNetworkConfig ---------------------------
(***************************************************************************)
(* Four networks for a list of three, and two administrators.  The networks *)
(* are interchangeable, and so are the administrators.                     *)
(***************************************************************************)
EXTENDS NetworkConfig, TLC

Symmetry == Permutations(NetworkIds) \union Permutations(Fabrics)
==============================================================================
