---------------------------- MODULE NetworkServer ----------------------------
(***************************************************************************)
(* LoRaWANNetworkServer as one end device sees it: its entry in            *)
(* m_endDevices.  Entries share nothing but the gateways, and whether a    *)
(* gateway can send at once (CanSendImmediatelyOnChannel) is left open, so *)
(* one entry is enough.  LoRaWANGatewayApplication only passes packets on. *)
(*                                                                         *)
(* Every gateway that hears a transmission delivers a copy of it, in any   *)
(* order and at most Jitter later than the device ended it.  Time passes   *)
(* in Tick; a timer holds the time left.  The device is the environment:   *)
(* it ends its transmissions as far apart as EndDeviceMac does.            *)
(***************************************************************************)
EXTENDS Integers, Sequences, FiniteSets

CONSTANTS
  Gateways,
  Messages,        \* downstream packets the server may generate
  ConfirmedDown,   \* the values m_confirmedData of the server takes
  DsTransmissions, \* DEFAULT_NUMBER_DS_TRANSMISSIONS
  AdrFrequency,    \* ADR_FREQUENCY
  CounterModulus,  \* the frame counter of a header is counted modulo this
  DuplicateTime,   \* the second within which a known frame is a duplicate
  ReceiveDelay1,   \* RECEIVE_DELAY1
  ReceiveDelay2,   \* RECEIVE_DELAY2
  Jitter,          \* spread of the copies of a transmission
  MaxPackets,      \* bound: packets of the device
  MaxAttempts      \* bound: transmissions of each of them

ASSUME ServerAssumption ==
  /\ ConfirmedDown \subseteq BOOLEAN
  /\ DsTransmissions \in Nat \ {0}
  /\ AdrFrequency \in Nat \ {0}
  /\ CounterModulus \in Nat \ {0, 1}
  /\ MaxPackets \in Nat /\ MaxAttempts \in Nat \ {0}
\* Copies of one transmission come within a second of each other, and a
\* second is not longer than RECEIVE_DELAY1 (in the code both are one second).
ASSUME DelayAssumption ==
  /\ DuplicateTime \in Nat /\ Jitter \in Nat
  /\ ReceiveDelay1 \in Nat /\ ReceiveDelay2 \in Nat
  /\ Jitter <= DuplicateTime
  /\ DuplicateTime <= ReceiveDelay1
  /\ ReceiveDelay1 + Jitter < ReceiveDelay2

VARIABLES
  lastGWs,   \* m_lastGWs
  sinceSeen, \* Now - m_lastSeen, not counted past what matters
  fCntUp,    \* m_fCntUp
  setAck,    \* m_setAck
  setAdr,    \* m_setAdr
  rw1Timer,  \* m_rw1Timer
  rw2Timer,  \* m_rw2Timer
  dsQueue,   \* m_downstreamQueue
  counts,    \* m_nUniqueUSPackets, m_nUSRetransmission, m_nUSDuplicates
  downlink,  \* the frame that a gateway has just been asked to send
  fate,      \* message -> what the DSMsg... traces said of it last
  sends,     \* message -> how often it was sent
  uplink,    \* the last transmission of the device
  copies,    \* gateways whose copy of it is still to come
  sinceTx,   \* time since it ended, not counted past what matters
  answered,  \* the window in which the server answered it, or 0
  got,       \* the device received the answer
  received,  \* confirmed frames the device received
  acksOwed,  \* those of them it has not yet acknowledged
  truth      \* what was really heard: last packet, packets, transmissions

entry == <<lastGWs, sinceSeen, fCntUp, counts>>
timers == <<rw1Timer, rw2Timer>>
queue == <<dsQueue, fate>>
reply == <<downlink, answered>>
device == <<uplink, sinceTx, got, received, acksOwed>>
vars == <<entry, setAck, setAdr, timers, queue, sends, reply, device, copies,
          truth>>

-----------------------------------------------------------------------------
NotRunning == -1
NoFrame == [window |-> 0]
Horizon == ReceiveDelay2 + Jitter + 1

Elements == [id : Messages, conf : BOOLEAN, left : 1 .. DsTransmissions]
\* asks: a confirmed packet, or one with ADRACKReq, which counts as much.
Uplinks == [pkt : 0 .. MaxPackets, attempt : 0 .. MaxAttempts,
            asks : BOOLEAN, ack : BOOLEAN, heard : SUBSET Gateways]
Downlinks == [window : {1, 2}, gw : Gateways, ack : BOOLEAN, conf : BOOLEAN]

Frame(pkt, attempt, asks, ack, heard) ==
  [pkt |-> pkt, attempt |-> attempt, asks |-> asks, ack |-> ack,
   heard |-> heard]
FrameCounter == uplink.pkt % CounterModulus

Init ==
  /\ lastGWs = {} /\ sinceSeen = 0 /\ fCntUp = 0
  /\ counts = [unique |-> 0, retx |-> 0, dup |-> 0]
  /\ setAck = FALSE /\ setAdr = FALSE
  /\ rw1Timer = NotRunning /\ rw2Timer = NotRunning
  /\ dsQueue = <<>>
  /\ fate = [m \in Messages |-> "none"]
  /\ sends = [m \in Messages |-> 0]
  /\ downlink = NoFrame /\ answered = 0
  /\ uplink = Frame(0, 0, FALSE, FALSE, {})
  /\ copies = {} /\ sinceTx = Horizon /\ got = FALSE
  /\ received = 0 /\ acksOwed = 0
  /\ truth = [last |-> 0, packets |-> 0, transmissions |-> 0]

-----------------------------------------------------------------------------
(***************************************************************************)
(* HandleUSPacket: a copy of the uplink reaches the server through gw.     *)
(***************************************************************************)
\* Mutant: the gateways of earlier transmissions are kept.
SeeGatewayKept(gw) == lastGWs' = {gw} \union lastGWs
\* m_lastGWs is cleared when the copy starts a new transmission.
SeeGateway(gw) ==
  lastGWs' = {gw} \union IF sinceSeen > DuplicateTime THEN {} ELSE lastGWs

\* firstRX is never true: m_nUSPackets has been incremented before.
IsNew == FrameCounter > fCntUp
\* Mutant: every known frame counter is a retransmission.
IsDuplicateNever == FALSE
IsDuplicate == ~IsNew /\ sinceSeen <= DuplicateTime

\* The Ack bit removes the confirmed packet at the head of the queue.
ProcessAck ==
  IF uplink.ack /\ dsQueue # <<>> /\ Head(dsQueue).conf
    THEN /\ dsQueue' = Tail(dsQueue)
         /\ fate' = [fate EXCEPT ![Head(dsQueue).id] = "acked"]
    ELSE UNCHANGED queue

DropDuplicate ==
  /\ IsDuplicate
  /\ counts' = [counts EXCEPT !.dup = @ + 1]
  /\ UNCHANGED <<sinceSeen, fCntUp, setAck, setAdr, timers, queue>>

\* Mutant: the frame counter is not remembered.
AcceptNewForgotten ==
  /\ IsNew
  /\ UNCHANGED fCntUp
  /\ counts' = [counts EXCEPT !.unique = @ + 1]
  /\ setAdr' = (setAdr \/ (counts.unique + 1) % AdrFrequency = 0)
  /\ ProcessAck
AcceptNew ==
  /\ IsNew
  /\ fCntUp' = FrameCounter
  /\ counts' = [counts EXCEPT !.unique = @ + 1]
  /\ setAdr' = (setAdr \/ (counts.unique + 1) % AdrFrequency = 0)
  /\ ProcessAck

\* Mutant: the Ack bit of a retransmission is processed again.
AcceptRetransmissionAck ==
  /\ ~IsNew /\ ~IsDuplicate
  /\ counts' = [counts EXCEPT !.retx = @ + 1]
  /\ ProcessAck
  /\ UNCHANGED <<fCntUp, setAdr>>
\* A retransmission repeats an Ack bit that was processed before.
AcceptRetransmission ==
  /\ ~IsNew /\ ~IsDuplicate
  /\ counts' = [counts EXCEPT !.retx = @ + 1]
  /\ UNCHANGED <<fCntUp, setAdr, queue>>

\* Mutant: only a new packet is acknowledged.
OweAckNew == setAck' = (setAck \/ (uplink.asks /\ IsNew))
OweAck == setAck' = (setAck \/ uplink.asks)

Accept ==
  /\ AcceptNew \/ AcceptRetransmission
  /\ OweAck
  /\ sinceSeen' = 0
  /\ rw1Timer' = ReceiveDelay1
  /\ UNCHANGED rw2Timer

\* Ghost: the first copy of a transmission, and of a packet, to arrive.
Witness ==
  truth' =
    IF copies # uplink.heard THEN truth
    ELSE [last |-> uplink.pkt,
          packets |-> truth.packets + IF uplink.pkt > truth.last THEN 1 ELSE 0,
          transmissions |-> truth.transmissions + 1]

HandleUSPacket(gw) ==
  /\ gw \in copies
  /\ copies' = copies \ {gw}
  /\ SeeGateway(gw)
  /\ DropDuplicate \/ Accept
  /\ Witness
  /\ UNCHANGED <<sends, reply, device>>

-----------------------------------------------------------------------------
(***************************************************************************)
(* The receive windows.  SendDSPacket sends the head of the queue, or an   *)
(* empty packet when only an Ack or a command is due, or nothing.          *)
(***************************************************************************)
\* The frame; AdaptiveDataRate succeeds for a known device.
Emit(gw, window, conf) ==
  /\ downlink' = [window |-> window, gw |-> gw, ack |-> setAck, conf |-> conf]
  /\ answered' = window
  /\ setAck' = FALSE /\ setAdr' = FALSE

Spent(head) == [head EXCEPT !.left = @ - 1]

\* A confirmed packet stays until its last transmission or its Ack.
SpendTransmission(head) ==
  IF head.conf /\ head.left > 1
    THEN /\ dsQueue' = [dsQueue EXCEPT ![1] = Spent(head)]
         /\ UNCHANGED fate
    ELSE /\ dsQueue' = Tail(dsQueue)
         /\ fate' = [fate EXCEPT
                       ![head.id] = IF head.conf THEN "dropped" ELSE "sent"]

SendHead(gw, window) ==
  /\ dsQueue # <<>>
  /\ Emit(gw, window, Head(dsQueue).conf)
  /\ sends' = [sends EXCEPT ![Head(dsQueue).id] = @ + 1]
  /\ SpendTransmission(Head(dsQueue))

SendEmpty(gw, window) ==
  /\ dsQueue = <<>> /\ (setAdr \/ setAck)
  /\ Emit(gw, window, FALSE)
  /\ UNCHANGED <<queue, sends>>

SendNothing ==
  /\ dsQueue = <<>> /\ ~setAdr /\ ~setAck
  /\ UNCHANGED <<queue, sends, reply, setAck, setAdr>>

SendDSPacket(gw, window) ==
  SendHead(gw, window) \/ SendEmpty(gw, window) \/ SendNothing

\* A gateway heard last sends now; if none of them can, RW2 is tried.
RW1TimerExpired ==
  /\ rw1Timer = 0
  /\ rw1Timer' = NotRunning
  /\ \/ /\ \E gw \in lastGWs : SendDSPacket(gw, 1)
        /\ UNCHANGED rw2Timer
     \/ /\ rw2Timer' = ReceiveDelay2 - sinceSeen
        /\ UNCHANGED <<queue, sends, reply, setAck, setAdr>>
  /\ UNCHANGED <<entry, device, copies, truth>>

RW2TimerExpired ==
  /\ rw2Timer = 0
  /\ rw2Timer' = NotRunning
  /\ \/ \E gw \in lastGWs : SendDSPacket(gw, 2)
     \/ UNCHANGED <<queue, sends, reply, setAck, setAdr>>
  /\ UNCHANGED <<entry, rw1Timer, device, copies, truth>>

\* The traffic generator adds a packet to the queue.
DSTimerExpired ==
  \E m \in {n \in Messages : fate[n] = "none"}, conf \in ConfirmedDown :
    /\ dsQueue' = Append(dsQueue,
                    [id |-> m, conf |-> conf,
                     left |-> IF conf THEN DsTransmissions ELSE 1])
    /\ fate' = [fate EXCEPT ![m] = "queued"]
    /\ UNCHANGED <<entry, setAck, setAdr, timers, sends, reply, device, copies,
                   truth>>

-----------------------------------------------------------------------------
(***************************************************************************)
(* The device.  It opens RW2 unless it received a frame in RW1, and ends   *)
(* no transmission before the windows of the one before are over.  An Ack  *)
(* of a downstream packet goes into a packet made after its arrival, which *)
(* need not be the next one: packets may wait in the queue of the MAC.     *)
(***************************************************************************)
Ready ==
  /\ copies = {} /\ downlink = NoFrame
  /\ sinceTx > Jitter + IF got /\ answered = 1 THEN ReceiveDelay1
                                               ELSE ReceiveDelay2
Ends(frame) ==
  /\ Ready
  /\ uplink' = frame
  /\ copies' = frame.heard
  /\ sinceTx' = 0 /\ got' = FALSE /\ answered' = 0
  /\ UNCHANGED <<entry, setAck, setAdr, timers, queue, sends, downlink,
                 received, truth>>

TransmitNew ==
  \E asks \in BOOLEAN, ack \in BOOLEAN, heard \in SUBSET Gateways :
    /\ uplink.pkt < MaxPackets
    /\ ack => acksOwed > 0
    /\ Ends(Frame(uplink.pkt + 1, 1, asks, ack, heard))
    /\ acksOwed' = acksOwed - IF ack THEN 1 ELSE 0

TransmitAgain ==
  \E heard \in SUBSET Gateways :
    /\ uplink.asks /\ ~got /\ uplink.attempt < MaxAttempts
    /\ Ends(Frame(uplink.pkt, uplink.attempt + 1, uplink.asks, uplink.ack, heard))
    /\ UNCHANGED acksOwed

\* The frame reaches the device or is lost.
Deliver ==
  /\ downlink # NoFrame
  /\ downlink' = NoFrame
  /\ \/ /\ got' = TRUE
        /\ received' = received + IF downlink.conf THEN 1 ELSE 0
        /\ acksOwed' = acksOwed + IF downlink.conf THEN 1 ELSE 0
     \/ UNCHANGED <<got, received, acksOwed>>
  /\ UNCHANGED <<entry, setAck, setAdr, timers, queue, sends, answered, uplink,
                 sinceTx, copies, truth>>

Later(timer) == IF timer = NotRunning THEN NotRunning ELSE timer - 1
Older(age) == IF age < Horizon THEN age + 1 ELSE age
Tick ==
  /\ rw1Timer # 0 /\ rw2Timer # 0 /\ downlink = NoFrame
  /\ copies = {} \/ sinceTx < Jitter
  /\ rw1Timer' = Later(rw1Timer) /\ rw2Timer' = Later(rw2Timer)
  /\ sinceSeen' = Older(sinceSeen) /\ sinceTx' = Older(sinceTx)
  /\ UNCHANGED <<lastGWs, fCntUp, counts, setAck, setAdr, queue, sends, reply,
                 uplink, got, received, acksOwed, copies, truth>>

Server ==
  \/ \E gw \in Gateways : HandleUSPacket(gw)
  \/ RW1TimerExpired
  \/ RW2TimerExpired
  \/ DSTimerExpired
Next == Server \/ TransmitNew \/ TransmitAgain \/ Deliver \/ Tick
Spec == Init /\ [][Next]_vars

-----------------------------------------------------------------------------
Timers == {NotRunning} \union 0 .. ReceiveDelay2

\* Every variable has its type: in particular a packet in the downstream queue
\* has transmissions left, so that m_downstreamTransmissionsRemaining, an
\* unsigned byte, never passes zero.
TypeOK ==
  /\ lastGWs \subseteq Gateways /\ copies \subseteq uplink.heard
  /\ sinceSeen \in 0 .. Horizon /\ sinceTx \in 0 .. Horizon
  /\ fCntUp \in Nat
  /\ counts \in [unique : Nat, retx : Nat, dup : Nat]
  /\ setAck \in BOOLEAN /\ setAdr \in BOOLEAN /\ got \in BOOLEAN
  /\ rw1Timer \in Timers /\ rw2Timer \in Timers
  /\ dsQueue \in Seq(Elements)
  /\ fate \in [Messages -> {"none", "queued", "sent", "acked", "dropped"}]
  /\ sends \in [Messages -> Nat]
  /\ downlink \in Downlinks \union {NoFrame} /\ answered \in 0 .. 2
  /\ uplink \in Uplinks
  /\ received \in Nat /\ acksOwed \in Nat
  /\ truth \in [last : 0 .. MaxPackets, packets : Nat, transmissions : Nat]

\* A copy that starts the RW1 timer finds neither timer running, and the
\* time left to RW2 is positive when it starts: the error messages of
\* HandleUSPacket and RW1TimerExpired are never printed, its assertion holds.
TimersFree ==
  [][/\ sinceSeen' < sinceSeen => rw1Timer = NotRunning /\ rw2Timer = NotRunning
     /\ rw2Timer' > rw2Timer => rw2Timer = NotRunning /\ rw2Timer' > 0]_vars

\* The server answers in a window of the last uplink of the device, never in
\* one of an earlier uplink, and through a gateway that heard that uplink.
AnswersInWindow ==
  downlink # NoFrame =>
    /\ downlink.gw \in uplink.heard
    /\ sinceTx - (IF downlink.window = 1 THEN ReceiveDelay1 ELSE ReceiveDelay2)
         \in 0 .. Jitter

\* An uplink is answered once, however many gateways heard it.
AtMostOneAnswer ==
  [][downlink = NoFrame /\ downlink' # NoFrame => answered = 0]_vars

\* Whatever answers a confirmed packet, or one with ADRACKReq, carries the
\* Ack bit, also when only a repetition of that packet was heard or answered.
ConfirmedIsAcked == downlink # NoFrame /\ uplink.asks => downlink.ack

\* The counters of new packets and retransmissions agree with what gateways
\* heard: a copy is never taken for a transmission, nor a repeated packet for
\* a new one.
ClassifiedRight ==
  /\ counts.unique = truth.packets
  /\ counts.unique + counts.retx = truth.transmissions

\* Only the head of the queue has been sent, as often as its counter says; a
\* packet leaves the queue after all its transmissions or an Ack.
QueueAccounts ==
  /\ \A i \in DOMAIN dsQueue :
       LET e == dsQueue[i]
       IN  /\ fate[e.id] = "queued"
           /\ sends[e.id] = (IF e.conf THEN DsTransmissions ELSE 1) - e.left
           /\ i > 1 => sends[e.id] = 0
  /\ \A m \in Messages :
       /\ fate[m] = "dropped" => sends[m] = DsTransmissions
       /\ fate[m] = "sent" => sends[m] = 1

Acked == {m \in Messages : fate[m] = "acked"}
\* A confirmed frame that the device received removes one packet at most,
\* however often the uplink that carries its Ack is repeated.
AcksPaidFor == Cardinality(Acked) + acksOwed <= received

\* "End device confirmed reception of DS packet, so we can remove it": a
\* packet that counts as acknowledged has been sent.
AckedWasSent == \A m \in Acked : sends[m] > 0
=============================================================================
