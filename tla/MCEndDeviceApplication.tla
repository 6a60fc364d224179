------------------------- MODULE MCEndDeviceApplication -------------------------
(***************************************************************************)
(* EndDeviceApplication needs no definitions of constants for TLC.  The    *)
(* limits are 2 and 3 packets instead of 32 each.                          *)
(***************************************************************************)
EXTENDS EndDeviceApplication
=============================================================================
