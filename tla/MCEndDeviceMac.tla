--------------------------- MODULE MCEndDeviceMac ---------------------------
(***************************************************************************)
(* Constants for checking EndDeviceMac with TLC.  One unit of time is half *)
(* a second, so RECEIVE_DELAY1 is 2 and RECEIVE_DELAY2 is 4.  The duty     *)
(* cycle limits are small, and still longer than one exchange or shorter.  *)
(***************************************************************************)
EXTENDS EndDeviceMacInvariant, TLC

CONSTANTS b1, b2

TwoSubBands == {b1, b2}
TwoLimits == [sb \in TwoSubBands |-> IF sb = b1 THEN 2 ELSE 9]
=============================================================================
