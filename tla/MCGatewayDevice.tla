-------------------------- MODULE MCGatewayDevice --------------------------
(***************************************************************************)
(* Three MACs: two channels of a sub band of a quarter and the channel of  *)
(* the second window in a sub band of a half (the limits of the region are *)
(* 100 and 10, but only that they differ and exceed 1 matters).            *)
(***************************************************************************)
EXTENDS GatewayDevice, TLC

CONSTANTS m1, m2, m3, b1, b2

MCSubBandOf == (m1 :> b1) @@ (m2 :> b1) @@ (m3 :> b2)
MCDutyCycleLimit == (b1 :> 4) @@ (b2 :> 2)
=============================================================================
