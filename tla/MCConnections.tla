--------------------------- MODULE MCConnections ----------------------------
(* Constants of Connections for TLC.                                       *)
EXTENDS Connections, TLC

ConnSymmetry == Permutations(Ops) \cup Permutations(Nonces)
=============================================================================
