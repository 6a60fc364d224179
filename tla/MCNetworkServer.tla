---------------------------- MODULE MCNetworkServer ----------------------------
(* An instance of NetworkServer for TLC.                                      *)
EXTENDS NetworkServerInvariant, TLC

MCSymmetry == Permutations(Gateways) \union Permutations(Messages)
=============================================================================
