-------------------------- MODULE HalfDuplexRadio --------------------------
(***************************************************************************)
(* What a gateway promises to the network server and to the end devices:   *)
(* it listens on every channel and data rate at once, or it sends on one   *)
(* of them, and a sending gateway hears nothing.                           *)
(***************************************************************************)
CONSTANTS
  Macs,  \* one for each channel and data rate
  NoMac

VARIABLES
  sending,  \* the MAC whose frame is on the air, or NoMac
  hearing   \* the MACs that are in the middle of a frame they can receive

hdVars == <<sending, hearing>>

HDInit ==
  /\ sending = NoMac
  /\ hearing = {}

\* A transmission begins and destroys every reception.
BeginSending(m) ==
  /\ sending = NoMac
  /\ sending' = m
  /\ hearing' = {}

EndSending ==
  /\ sending # NoMac
  /\ sending' = NoMac
  /\ UNCHANGED hearing

BeginHearing(m) ==
  /\ sending = NoMac
  /\ m \notin hearing
  /\ hearing' = hearing \union {m}
  /\ UNCHANGED sending

EndHearing(m) ==
  /\ m \in hearing
  /\ hearing' = hearing \ {m}
  /\ UNCHANGED sending

HDNext ==
  \/ \E m \in Macs : BeginSending(m) \/ BeginHearing(m) \/ EndHearing(m)
  \/ EndSending

HDSpec == HDInit /\ [][HDNext]_hdVars
=============================================================================
