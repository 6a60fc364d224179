------------------------ MODULE NetworkServerInvariant ------------------------
(***************************************************************************)
(* The inductive invariant of NetworkServer.  What the server knows of the *)
(* last uplink depends on whether a copy of it has arrived.                *)
(***************************************************************************)
EXTENDS NetworkServer

Quiet == rw1Timer = NotRunning /\ rw2Timer = NotRunning /\ downlink = NoFrame

\* Copies come within Jitter, and none comes without an uplink.
CopiesInv ==
  /\ copies # {} => sinceTx <= Jitter
  /\ uplink.pkt = 0 => uplink.heard = {} /\ ~uplink.asks

\* No copy of the uplink has arrived.  A copy will not be taken for a duplicate:
\* the last one is long ago, or the first packet is the first to be heard.
Unheard ==
  /\ Quiet /\ answered = 0 /\ ~got
  /\ \/ sinceSeen > DuplicateTime
     \/ /\ fCntUp = 0 /\ lastGWs = {}
        /\ uplink.pkt = 0 \/ (uplink.pkt = 1 /\ sinceSeen >= sinceTx)

\* A copy of the uplink was accepted, and further ones are duplicates.  Each
\* timer keeps the distance to its window, and is off after an answer.
Heard ==
  /\ ~IsNew
  /\ lastGWs = uplink.heard \ copies
  /\ sinceSeen <= sinceTx /\ sinceTx <= sinceSeen + Jitter
  /\ rw1Timer # NotRunning => /\ rw1Timer + sinceSeen = ReceiveDelay1
                              /\ rw2Timer = NotRunning
  /\ rw2Timer # NotRunning => /\ rw2Timer + sinceSeen = ReceiveDelay2
                              /\ rw1Timer = NotRunning
  /\ answered # 0 => rw1Timer = NotRunning /\ rw2Timer = NotRunning
  /\ answered = 0 => (uplink.asks => setAck) /\ ~got /\ downlink = NoFrame
  /\ downlink # NoFrame =>
       /\ downlink.window = answered
       /\ sinceSeen = IF answered = 1 THEN ReceiveDelay1 ELSE ReceiveDelay2
       /\ downlink.gw \in uplink.heard
       /\ uplink.asks => downlink.ack

ExchangeInv == IF copies = uplink.heard THEN Unheard ELSE Heard

\* While counters do not wrap, the server remembers the last packet heard.
CounterInv ==
  MaxPackets < CounterModulus =>
    /\ fCntUp = truth.last
    /\ truth.last <= uplink.pkt
    /\ ClassifiedRight

\* Each downstream packet has one place: not generated, in the queue, or gone.
QueueInv ==
  /\ \A i, j \in DOMAIN dsQueue : dsQueue[i].id = dsQueue[j].id => i = j
  /\ \A i \in DOMAIN dsQueue : ~dsQueue[i].conf => dsQueue[i].left = 1
  /\ \A m \in Messages : fate[m] = "none" => sends[m] = 0
  /\ QueueAccounts

\* A confirmed frame that was received is acknowledged already, or its Ack is in
\* an uplink the server has not seen, or the device owes it.
AckInv ==
  /\ IsFiniteSet(Acked)
  /\ Cardinality(Acked) + acksOwed + (IF uplink.ack /\ IsNew THEN 1 ELSE 0)
       <= received

\* The inductive invariant of Spec.
IInv == TypeOK /\ CopiesInv /\ ExchangeInv /\ CounterInv /\ QueueInv /\ AckInv
=============================================================================
