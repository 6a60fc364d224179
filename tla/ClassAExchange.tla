--------------------------- MODULE ClassAExchange ---------------------------
(***************************************************************************)
(* An end device (EndDeviceMac) and its entry in the network server, which *)
(* share nothing but the air: two pairs of timers, started by the end of   *)
(* an uplink on one side and by its arrival on the other, must agree about *)
(* when a frame meets an open window.                                      *)
(*                                                                         *)
(* An uplink reaches the server Delay after its last bit left the device,  *)
(* a reply begins at the device Delay after a gateway began to send it.    *)
(* Of the server only what decides about a reply is kept (NetworkServer    *)
(* has the rest), and of several gateways only the first copy of a frame,  *)
(* for the others start no timer.                                          *)
(***************************************************************************)
EXTENDS EndDeviceMac

CONSTANTS
  Delay  \* propagation delay between device and gateway

\* The way there and back, microseconds over a few kilometres, takes less than
\* the preamble that the device waits for, or any frame.  It takes some time:
\* with no distance at all a reply could begin in the instant in which the
\* window that it meets is yet to be opened.
ASSUME LinkAssumption ==
  /\ Delay \in Nat \ {0} /\ 2 * Delay < PreambleTime
  /\ \A a \in AirTimes : 2 * Delay < a

VARIABLES
  lossy,     \* FALSE: frames arrive and a gateway can send in RW2
  uplink,    \* the uplink frame on its way to the server
  rw1Timer,  \* m_rw1Timer
  rw2Timer,  \* m_rw2Timer
  setAck,    \* m_setAck
  reply,     \* the downlink frame on its way to the device
  heard,     \* packets of which the server received a transmission
  disturbed  \* another frame came in a window of the last uplink

server == <<rw1Timer, rw2Timer, setAck>>
link == <<uplink, reply, heard, disturbed>>
exchangeVars == <<vars, server, link, lossy>>

NoUplink == [left |-> NotRunning, id |-> NoPkt, conf |-> FALSE]
NoReply == [left |-> NotRunning, window |-> "RW1", frame |-> "other"]

-----------------------------------------------------------------------------
\* The device on its own: requests and all events but the end of a
\* transmission and those of a reception, which concern the link.
Request ==
  \E p \in Pkts, conf \in BOOLEAN, sb \in SubBands, t \in AirTimes,
     n \in 1 .. MaxTransmissions :
    /\ Send(p, conf, sb, t, n)
    /\ heard' = heard \ {p}
    /\ UNCHANGED <<server, uplink, reply, disturbed>>

DeviceAlone ==
  /\ \/ EnterIdle
     \/ EnterTx
     \/ EnterWaitForRW1
     \/ \E w \in {"RW1", "RW2"} : EnterWindow(w)
     \/ EnterWaitForRW2
     \/ MissRW2
     \/ EnterAckTimeout
     \/ CheckPhyPreamble
     \/ AckTimeoutExpired
     \/ \E sb \in SubBands : SubBandTimerExpired(sb)
     \/ EndRxAccepted
     \/ lossy /\ EndRxDropped
  /\ UNCHANGED <<server, link>>

EndUplink ==
  /\ EndTx
  /\ uplink' = [left |-> Delay, id |-> txPkt, conf |-> Head(txQueue).conf]
  /\ disturbed' = FALSE
  /\ UNCHANGED <<server, reply, heard>>

\* A frame for another device, or sent upstream, on the window's channel.
ForeignFrame ==
  /\ lossy
  /\ \E t \in FrameTimes : StartRx("other", t)
  /\ disturbed' = TRUE
  /\ UNCHANGED <<server, uplink, reply, heard>>

-----------------------------------------------------------------------------
\* Mutant: the Ack that a repetition asks for is forgotten.
OweAckOnce ==
  setAck' = (setAck \/ (uplink.conf /\ uplink.id \notin heard))
OweAck == setAck' = (setAck \/ uplink.conf)

\* Mutant: a gateway passes on frames that were destroyed.
HandleUSPacketDestroyed ==
  /\ uplink.left = 0
  /\ uplink' = NoUplink
  /\ OweAck
  /\ rw1Timer' = ReceiveDelay1
  /\ \/ heard' = heard \union {uplink.id}
     \/ lossy /\ UNCHANGED heard
  /\ UNCHANGED <<vars, rw2Timer, reply, disturbed>>

\* HandleUSPacket, unless no gateway hears the frame.
HandleUSPacket ==
  /\ uplink.left = 0
  /\ uplink' = NoUplink
  /\ \/ /\ OweAck
        /\ rw1Timer' = ReceiveDelay1
        /\ heard' = heard \union {uplink.id}
     \/ /\ lossy
        /\ UNCHANGED <<setAck, rw1Timer, heard>>
  /\ UNCHANGED <<vars, rw2Timer, reply, disturbed>>

\* SendDSPacket: every reply carries the Ack that is due; one without may
\* bring data or a command, and there may be nothing to send.
SendDSPacket(window) ==
  \/ \E frame \in {"ack", "data"} :
       /\ frame = "ack" <=> setAck
       /\ reply' = [left |-> Delay, window |-> window, frame |-> frame]
       /\ setAck' = FALSE
  \/ ~setAck /\ UNCHANGED <<setAck, reply>>

\* Mutant: the delay in the comment of RW1TimerExpired, counted from now.
DelayToRW2FromNow == ReceiveDelay2
\* m_lastSeen + RECEIVE_DELAY2 - Now: the RW1 timer has run RECEIVE_DELAY1.
DelayToRW2 == ReceiveDelay2 - ReceiveDelay1

\* A gateway sends in RW1; when none can, RW2 is tried.
RW1TimerExpired ==
  /\ rw1Timer = 0
  /\ rw1Timer' = NotRunning
  /\ \/ SendDSPacket("RW1") /\ UNCHANGED rw2Timer
     \/ rw2Timer' = DelayToRW2 /\ UNCHANGED <<setAck, reply>>
  /\ UNCHANGED <<vars, uplink, heard, disturbed>>

RW2TimerExpired ==
  /\ rw2Timer = 0
  /\ rw2Timer' = NotRunning
  /\ \/ SendDSPacket("RW2")
     \/ lossy /\ UNCHANGED <<setAck, reply>>
  /\ UNCHANGED <<vars, rw1Timer, uplink, heard, disturbed>>

\* The radio can synchronise with a frame that begins now.
Receptive == trxState = "RX_ON" /\ setMacState = <<>>

\* The first bit of the reply reaches the device, which receives it or not.
ReplyArrives ==
  /\ reply.left = 0
  /\ reply' = NoReply
  /\ \/ \E t \in FrameTimes : StartRx(reply.frame, t)
     \/ (Receptive => lossy) /\ UNCHANGED vars
  /\ UNCHANGED <<server, uplink, heard, disturbed>>

\* Time passes on both sides.
Pass ==
  /\ 0 \notin {rw1Timer, rw2Timer, uplink.left, reply.left}
  /\ Tick
  /\ rw1Timer' = After(rw1Timer)
  /\ rw2Timer' = After(rw2Timer)
  /\ uplink' = [uplink EXCEPT !.left = After(@)]
  /\ reply' = [reply EXCEPT !.left = After(@)]
  /\ UNCHANGED <<setAck, heard, disturbed>>

-----------------------------------------------------------------------------
ExchangeInit ==
  /\ Init
  /\ lossy \in BOOLEAN
  /\ uplink = NoUplink /\ reply = NoReply
  /\ rw1Timer = NotRunning /\ rw2Timer = NotRunning /\ setAck = FALSE
  /\ heard = {} /\ disturbed = FALSE

ExchangeNext ==
  /\ UNCHANGED lossy
  /\ \/ Request
     \/ DeviceAlone
     \/ EndUplink
     \/ ForeignFrame
     \/ HandleUSPacket
     \/ RW1TimerExpired
     \/ RW2TimerExpired
     \/ ReplyArrives
     \/ Pass

ExchangeSpec == ExchangeInit /\ [][ExchangeNext]_exchangeVars

-----------------------------------------------------------------------------
\* Every variable has its type; in particular the time left to RW2 is positive
\* when its timer is scheduled, as RW1TimerExpired asserts.
ExchangeTypeOK ==
  /\ uplink \in [left : {NotRunning} \union 0 .. Delay,
                 id : Pkts \union {NoPkt}, conf : BOOLEAN]
  /\ reply \in [left : {NotRunning} \union 0 .. Delay,
                window : {"RW1", "RW2"}, frame : Frames]
  /\ rw1Timer \in {NotRunning} \union 0 .. ReceiveDelay1
  /\ rw2Timer \in {NotRunning} \union 0 .. ReceiveDelay2
  /\ lossy \in BOOLEAN /\ setAck \in BOOLEAN /\ disturbed \in BOOLEAN
  /\ heard \subseteq Pkts

\* The timers of both sides agree: a reply begins while the device listens in
\* the very window the server meant, with no state change due, unless another
\* frame has kept the device busy in one of the windows.
RepliesMeetWindow ==
  reply.left = 0 /\ ~disturbed => Receptive /\ macState = reply.window

\* Module NetworkServer relies on it: when an uplink ends, nothing of the last
\* exchange is left, so the server's two timers and the frame in the air never
\* belong to an older uplink.
ExchangesApart ==
  endTx = 0 => /\ rw1Timer = NotRunning /\ rw2Timer = NotRunning
               /\ uplink = NoUplink /\ reply = NoReply

\* The two sides of an exchange keep to each other.
ExchangeInv == ExchangeTypeOK /\ RepliesMeetWindow /\ ExchangesApart

\* End to end: a confirmed packet that m_dataConfirmCallback reports as
\* acknowledged has reached the network server, although an Ack names no packet
\* and the server keeps an Ack it could not send for a later reply.
AckedWasHeard ==
  [][\A p \in Pkts : AwaitsAck /\ txPkt = p /\ outcome'[p] = "ok"
       => p \in heard]_exchangeVars

\* When nothing is lost and a gateway can send in RW2 at the latest, every
\* confirmed packet is acknowledged after its first transmission.
IdealLinkAcks ==
  lossy \/ /\ \A p \in Pkts : outcome[p] # "noack"
           /\ AwaitsAck => retransmission = 0

\* The server does what EndDeviceMac assumes of it and its proofs need
\* (DataAnswers = FALSE): no frame without Ack answers a confirmed uplink.
Assumed == INSTANCE EndDeviceMac WITH DataAnswers <- FALSE
AnswersAsAssumed == Assumed!Spec
=============================================================================
