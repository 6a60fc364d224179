--------------------------- MODULE UplinkService ---------------------------
(***************************************************************************)
(* What a class A device promises its application, without time, radio or  *)
(* duty cycle: requests are served one after the other in the order they   *)
(* were made.  The oldest one is transmitted up to the number of times that *)
(* was asked for.  An unconfirmed request succeeds with its first          *)
(* transmission; a confirmed one succeeds with an acknowledgement, never   *)
(* before its first transmission, and fails only when all are used up.     *)
(***************************************************************************)
EXTENDS Naturals, Sequences

CONSTANTS Pkts, MaxTransmissions

VARIABLES
  backlog,  \* the accepted requests, oldest first
  attempts, \* transmissions of the oldest request so far
  outcome   \* what the application was told last about each handle

vars == <<backlog, attempts, outcome>>

Requests == [id : Pkts, conf : BOOLEAN, req : 1 .. MaxTransmissions]

Oldest == Head(backlog)

Tell(p, what) == outcome' = [outcome EXCEPT ![p] = what]

Serve == backlog' = Tail(backlog) /\ attempts' = 0

-----------------------------------------------------------------------------
Init ==
  /\ backlog = <<>>
  /\ attempts = 0
  /\ outcome = [p \in Pkts |-> "none"]

Accept(p, conf, n) ==
  /\ \A i \in 1 .. Len(backlog) : backlog[i].id # p
  /\ backlog' = Append(backlog, [id |-> p, conf |-> conf, req |-> n])
  /\ Tell(p, "waiting")
  /\ UNCHANGED attempts

\* A transmission after which the request stays the oldest one.
Transmit ==
  /\ backlog # <<>>
  /\ attempts < Oldest.req
  /\ Oldest.conf \/ attempts + 1 < Oldest.req
  /\ attempts' = attempts + 1
  /\ IF Oldest.conf THEN UNCHANGED outcome ELSE Tell(Oldest.id, "ok")
  /\ UNCHANGED backlog

\* The last transmission of an unconfirmed request.
TransmitLast ==
  /\ backlog # <<>>
  /\ ~Oldest.conf
  /\ attempts + 1 = Oldest.req
  /\ Tell(Oldest.id, "ok")
  /\ Serve

Acknowledge ==
  /\ backlog # <<>>
  /\ attempts > 0
  /\ Tell(Oldest.id, "ok")
  /\ Serve

GiveUp ==
  /\ backlog # <<>>
  /\ Oldest.conf
  /\ attempts = Oldest.req
  /\ Tell(Oldest.id, "noack")
  /\ Serve

Work == Transmit \/ TransmitLast \/ Acknowledge \/ GiveUp

Next ==
  \/ \E p \in Pkts, conf \in BOOLEAN, n \in 1 .. MaxTransmissions :
       Accept(p, conf, n)
  \/ Work

Spec == Init /\ [][Next]_vars
FairSpec == Spec /\ WF_vars(Work)
=============================================================================
