-------------------------- MODULE MCClassAExchange --------------------------
(***************************************************************************)
(* Constants for checking ClassAExchange with TLC.  One unit of time is a  *)
(* quarter of a second, so that a frame may travel one unit and return     *)
(* within the three units of a preamble.                                   *)
(***************************************************************************)
EXTENDS ClassAExchange, TLC

CONSTANTS b1, b2

SubBandsOfRun == {b1, b2}
LimitsOfRun == [sb \in SubBandsOfRun |-> IF sb = b1 THEN 2 ELSE 5]

PktSymmetry == Permutations(Pkts)
=============================================================================
