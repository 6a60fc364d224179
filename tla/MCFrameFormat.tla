--------------------------- MODULE MCFrameFormat ---------------------------
(***************************************************************************)
(* Constants for checking FrameFormat with TLC: the counters on both sides *)
(* of a byte and of the 16 bits of the header, payloads that look like a   *)
(* command, and the ends of the ranges of data rate and power.             *)
(***************************************************************************)
EXTENDS FrameFormat

AddressesOfRun == {1, 196611}
CountersOfRun == {1, 255, 256, 65535, 65539}
CommandsOfRun == {<<0, 0>>, <<3, 7>>, <<5, 2>>}
PayloadsOfRun == {<<>>, <<3>>, <<3, 3, 3, 3, 3, 3, 3, 3>>}
=============================================================================
