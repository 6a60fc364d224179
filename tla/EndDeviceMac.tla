---------------------------- MODULE EndDeviceMac ----------------------------
(***************************************************************************)
(* The class A end device of the lorawan module: LoRaWANMac together with  *)
(* the LoRaWANPhy it drives and the duty cycle object LoRaWANMacRDC.       *)
(*                                                                         *)
(* The simulator executes one event at a time and runs the events of one   *)
(* instant in the order in which they were scheduled.  An action of this   *)
(* module is one event with every synchronous call it makes.  Time passes  *)
(* in Tick, one unit at a time, and only when no event is due.  A timer    *)
(* holds the time that is left until it fires, NotRunning when it is off.  *)
(*                                                                         *)
(* Channel, power, code rate and payload never influence the control flow  *)
(* of a class A device (SetTxConf accepts every value that is requested),  *)
(* so a queue element keeps its sub band, its air time and the attempts.   *)
(***************************************************************************)
EXTENDS Integers, Sequences

CONSTANTS
  Pkts,             \* request handles of the upper layer
  NoPkt,            \* m_txPkt = 0
  SubBands,         \* the sub bands of the regional plan
  DutyCycleLimit,   \* sub band -> dutyCycleLimit (100 stands for 1%)
  AirTimes,         \* possible air times of an uplink frame
  FrameTimes,       \* possible air times of a downlink frame
  PreambleTime,     \* CalculatePreambleTime
  ReceiveDelay1,    \* RECEIVE_DELAY1
  ReceiveDelay2,    \* RECEIVE_DELAY2
  AckTimeouts,      \* the values StartAckTimeoutTimer may draw
  MaxTransmissions, \* largest m_numberOfTransmissions of a request
  DataAnswers,      \* TRUE: a frame without Ack may answer a confirmed uplink
  ArrivalAtClose    \* TRUE: a frame may begin in the instant a window closes

ASSUME PktsAssumption == NoPkt \notin Pkts
ASSUME TimesAssumption ==
  /\ AirTimes \subseteq Nat \ {0}
  /\ FrameTimes \subseteq Nat \ {0}
  /\ AckTimeouts \subseteq Nat \ {0}
  /\ PreambleTime \in Nat \ {0}
  /\ ReceiveDelay1 \in Nat \ {0}
  /\ ReceiveDelay2 \in Nat \ {0}
  /\ MaxTransmissions \in Nat \ {0}
  /\ DutyCycleLimit \in [SubBands -> Nat \ {0}]
  /\ DataAnswers \in BOOLEAN
  /\ ArrivalAtClose \in BOOLEAN
\* A preamble is shorter than any frame and than RECEIVE_DELAY1 (at most 0.4 s
\* against 1 s), RW1 precedes RW2, and the earliest Ack timeout (1 s) comes
\* after the preamble check of the window in which the timer was started.
ASSUME OrderAssumption ==
  /\ \A d \in FrameTimes : PreambleTime < d
  /\ PreambleTime < ReceiveDelay1
  /\ ReceiveDelay1 + PreambleTime <= ReceiveDelay2
  /\ \A d \in AckTimeouts : PreambleTime < d

VARIABLES
  macState,       \* m_LoRaWANMacState
  txQueue,        \* m_txQueue
  txPkt,          \* m_txPkt
  retransmission, \* m_retransmission
  setMacState,    \* scheduled SetLoRaWANMacState events, oldest first
  preambleCheck,  \* m_preambleDetected, the CheckPhyPreamble event
  ackTimeOut,     \* m_ackTimeOut
  sinceUplink,    \* Now - m_lastUplinkBitTime, not counted past RW2
  trxState,       \* LoRaWANPhy::m_trxState
  endTx,          \* the EndTx event
  rx,             \* m_currentRxPacket and its EndRx event
  offTime,        \* sub band -> time until it is available again
  subBandTimers,  \* sub band -> m_subBandTimers
  outcome,        \* handle -> what m_dataConfirmCallback reported last
  reported        \* handles whose sending m_sentPktTrace has reported

mac == <<macState, setMacState, preambleCheck, ackTimeOut, sinceUplink>>
queue == <<txQueue, txPkt, retransmission, outcome, reported>>
phy == <<trxState, endTx, rx>>
rdc == <<offTime, subBandTimers>>
vars == <<mac, queue, phy, rdc>>

-----------------------------------------------------------------------------
MacStates == {"IDLE", "TX", "WAITFORRW1", "RW1", "WAITFORRW2", "RW2",
              "ACK_TIMEOUT"}
TrxStates == {"TRX_OFF", "IDLE", "RX_ON", "BUSY_RX", "BUSY_TX"}

NotRunning == -1
Timers == Nat \union {NotRunning}

\* "ack" and "data" are downstream frames for this device, with and without
\* the Ack bit; "other" is an upstream frame or one for another device.
Frames == {"ack", "data", "other"}
NoRx == [left |-> NotRunning, frame |-> "other"]

\* left: m_numberOfTransmissions, req: its value when the request was made.
Elements == [id : Pkts, conf : BOOLEAN, sb : SubBands, air : AirTimes,
             req : 1 .. MaxTransmissions, left : 0 .. MaxTransmissions]

StateEvents == [to : MacStates, in : Nat]
Event(to, delay) == [to |-> to, in |-> delay]

InQueue(p) == \E i \in 1 .. Len(txQueue) : txQueue[i].id = p

\* The frame in flight is confirmed, so that its Ack is still expected.
AwaitsAck == txPkt # NoPkt /\ Head(txQueue).conf

-----------------------------------------------------------------------------
(***************************************************************************)
(* LoRaWANMacRDC.  A frame of air time a blocks its sub band until a times *)
(* the duty cycle limit after its first bit: LastTxFinishedTimestamp is    *)
(* Now + a and timeoff is a * limit - a.                                   *)
(***************************************************************************)
\* Mutant: one unit of time too early.
IsSubBandAvailableEarly(sb) == offTime[sb] <= 1
IsSubBandAvailable(sb) == offTime[sb] = 0

UpdateRDCTimerForSubBand(sb, air) ==
  offTime' = [offTime EXCEPT ![sb] = air * DutyCycleLimit[sb]]

\* Mutant: the timer is forgotten.
ScheduleNoTimer(sb, timers) == timers

\* The sub band timers after ScheduleSubBandTimer, given those that run.
ScheduleSubBandTimer(sb, timers) ==
  [timers EXCEPT ![sb] = IF @ = NotRunning THEN offTime[sb] ELSE @]

(***************************************************************************)
(* CheckQueue, called in MAC state macState' with these queue contents,    *)
(* frame in flight, scheduled state changes and running sub band timers:   *)
(* it starts a transmission, or waits for the sub band, or does nothing.   *)
(***************************************************************************)
CheckQueue(elements, pkt, pending, timers) ==
  LET ready == macState' = "IDLE" /\ elements # <<>> /\ pkt = NoPkt
                 /\ pending = <<>>
  IN \/ /\ ready
        /\ IsSubBandAvailable(Head(elements).sb)
        /\ txPkt' = Head(elements).id
        /\ setMacState' = <<Event("TX", 0)>>
        /\ subBandTimers' = timers
     \/ /\ ready
        /\ ~IsSubBandAvailable(Head(elements).sb)
        /\ subBandTimers' = ScheduleSubBandTimer(Head(elements).sb, timers)
        /\ txPkt' = pkt
        /\ setMacState' = pending
     \/ /\ ~ready
        /\ txPkt' = pkt
        /\ setMacState' = pending
        /\ subBandTimers' = timers

(***************************************************************************)
(* RemoveFirstTxQElement, except for m_txPkt := 0, which the callers set.  *)
(* m_sentPktTrace fires only for a packet that counts as sent.             *)
(***************************************************************************)
RemoveFirstTxQElement(sentPacket) ==
  /\ txQueue' = Tail(txQueue)
  /\ retransmission' = 0
  /\ reported' = IF sentPacket THEN reported \union {Head(txQueue).id}
                               ELSE reported

\* Mutant: one attempt too few.
ExhaustedEarly(e) == e.conf /\ e.left <= 1

\* A confirmed frame that has used up its attempts.
Exhausted(e) == e.conf /\ e.left = 0

(***************************************************************************)
(* CheckRetransmission for m_txPkt: it gives a confirmed frame up after    *)
(* its last attempt, and repeats any other one when its sub band allows.   *)
(***************************************************************************)
CheckRetransmission(pending, timers) ==
  LET e == Head(txQueue)
      free == ~Exhausted(e) /\ pending = <<>>
  IN \/ /\ Exhausted(e)
        /\ outcome' = [outcome EXCEPT ![e.id] = "noack"]
        /\ RemoveFirstTxQElement(FALSE)
        /\ CheckQueue(Tail(txQueue), NoPkt, pending, timers)
     \/ /\ free
        /\ IsSubBandAvailable(e.sb)
        /\ retransmission' = retransmission + 1
        /\ setMacState' = <<Event("TX", 0)>>
        /\ subBandTimers' = timers
        /\ UNCHANGED <<txQueue, txPkt, outcome, reported>>
     \/ /\ free
        /\ ~IsSubBandAvailable(e.sb)
        /\ subBandTimers' = ScheduleSubBandTimer(e.sb, timers)
        /\ setMacState' = pending
        /\ UNCHANGED queue
     \/ /\ ~Exhausted(e) /\ ~free
        /\ setMacState' = pending
        /\ subBandTimers' = timers
        /\ UNCHANGED queue

(***************************************************************************)
(* OpenRW: the transceiver listens for the time of a preamble, and the Ack *)
(* timer of a confirmed frame starts with the second window.               *)
(***************************************************************************)
OpenRW(window) ==
  /\ trxState' = "RX_ON"
  /\ preambleCheck' = PreambleTime
  /\ IF window = "RW2" /\ AwaitsAck
       THEN ackTimeOut' \in AckTimeouts
       ELSE UNCHANGED ackTimeOut

\* Mutant: the device sleeps after RW1 whether or not it was answered.
AfterWindowSkippingRW2(window, ackRunning) ==
  IF window = "RW2" /\ AwaitsAck /\ ackRunning THEN "ACK_TIMEOUT" ELSE "IDLE"

\* The state in which CloseRW continues, given whether m_ackTimeOut runs.
AfterWindow(window, ackRunning) ==
  CASE window = "RW1" -> "WAITFORRW2"
    [] window = "RW2" /\ AwaitsAck /\ ackRunning -> "ACK_TIMEOUT"
    [] OTHER -> "IDLE"

\* CloseRW outside a receive window only logs an error.
CloseRW ==
  setMacState' =
    IF macState \in {"RW1", "RW2"}
      THEN Append(setMacState,
                  Event(AfterWindow(macState, ackTimeOut # NotRunning), 0))
      ELSE setMacState

-----------------------------------------------------------------------------
(***************************************************************************)
(* The upper layer.  Send is sendMACPayloadRequest for an accepted request *)
(* (upstream type, known channel, size within the limit).  A handle can be *)
(* used again once its packet has left the queue.                          *)
(***************************************************************************)
Send(p, conf, sb, air, n) ==
  LET elements == Append(txQueue, [id |-> p, conf |-> conf, sb |-> sb,
                                   air |-> air, req |-> n, left |-> n])
  IN /\ ~InQueue(p)
     /\ macState' = macState
     /\ txQueue' = elements
     /\ outcome' = [outcome EXCEPT ![p] = "waiting"]
     /\ reported' = reported \ {p}
     /\ CheckQueue(elements, txPkt, setMacState, subBandTimers)
     /\ UNCHANGED <<retransmission, preambleCheck, ackTimeOut,
                    sinceUplink, offTime, phy>>

-----------------------------------------------------------------------------
(***************************************************************************)
(* The scheduler.  State changes are scheduled with ScheduleNow, or for    *)
(* the start of a receive window; timers that are due in the same instant  *)
(* were scheduled earlier and run first.                                   *)
(***************************************************************************)
TimerDue ==
  \/ preambleCheck = 0
  \/ ackTimeOut = 0
  \/ endTx = 0
  \/ rx.left = 0
  \/ \E sb \in SubBands : subBandTimers[sb] = 0

Fires(to) ==
  /\ setMacState # <<>>
  /\ Head(setMacState) = Event(to, 0)
  /\ ~TimerDue

\* SetLoRaWANMacState (MAC_IDLE): the radio is switched off, and the frame in
\* flight or the head of the queue is considered for transmission.
EnterIdle ==
  /\ Fires("IDLE")
  /\ macState' = "IDLE"
  /\ trxState' = "TRX_OFF"
  /\ \/ /\ txPkt # NoPkt
        /\ CheckRetransmission(Tail(setMacState), subBandTimers)
     \/ /\ txPkt = NoPkt
        /\ CheckQueue(txQueue, txPkt, Tail(setMacState), subBandTimers)
        /\ UNCHANGED <<txQueue, retransmission, outcome, reported>>
  /\ UNCHANGED <<preambleCheck, ackTimeOut, sinceUplink, endTx, rx, offTime>>

\* ConfigurePhyForTX with SetTxConf, which refuses a transmitting radio.
ConfigurePhyForTX == txPkt # NoPkt /\ trxState # "BUSY_TX"

\* SetLoRaWANMacState (MAC_TX), SetTRXStateConfirm and PdDataRequest.
EnterTx ==
  /\ Fires("TX")
  /\ macState' = "TX"
  /\ setMacState' = Tail(setMacState)
  /\ IF ConfigurePhyForTX
       THEN /\ trxState' = "BUSY_TX"
            /\ endTx' = Head(txQueue).air
            /\ UpdateRDCTimerForSubBand(Head(txQueue).sb, Head(txQueue).air)
       ELSE UNCHANGED <<trxState, endTx, offTime>>
  /\ UNCHANGED <<queue, preambleCheck, ackTimeOut, sinceUplink, rx,
                 subBandTimers>>

\* SetLoRaWANMacState (MAC_WAITFORRW1).
EnterWaitForRW1 ==
  /\ Fires("WAITFORRW1")
  /\ macState' = "WAITFORRW1"
  /\ trxState' = "IDLE"
  /\ setMacState' = Append(Tail(setMacState), Event("RW1", ReceiveDelay1))
  /\ UNCHANGED <<queue, preambleCheck, ackTimeOut, sinceUplink, endTx, rx, rdc>>

\* SetLoRaWANMacState (MAC_RW1) and (MAC_RW2).
EnterWindow(window) ==
  /\ Fires(window)
  /\ macState' = window
  /\ setMacState' = Tail(setMacState)
  /\ OpenRW(window)
  /\ UNCHANGED <<queue, sinceUplink, endTx, rx, rdc>>

\* Mutant: the delay of RW2 counted from the end of RW1.
EnterWaitForRW2Late ==
  /\ Fires("WAITFORRW2")
  /\ sinceUplink <= ReceiveDelay2
  /\ macState' = "WAITFORRW2"
  /\ trxState' = "IDLE"
  /\ setMacState' = Append(Tail(setMacState), Event("RW2", ReceiveDelay2))
  /\ UNCHANGED <<queue, preambleCheck, ackTimeOut, sinceUplink, endTx, rx, rdc>>

\* SetLoRaWANMacState (MAC_WAITFORRW2), while the start of RW2 lies ahead.
EnterWaitForRW2 ==
  /\ Fires("WAITFORRW2")
  /\ sinceUplink <= ReceiveDelay2
  /\ macState' = "WAITFORRW2"
  /\ trxState' = "IDLE"
  /\ setMacState' = Append(Tail(setMacState),
                           Event("RW2", ReceiveDelay2 - sinceUplink))
  /\ UNCHANGED <<queue, preambleCheck, ackTimeOut, sinceUplink, endTx, rx, rdc>>

\* The same event after a long reception in RW1: RW2 is opened and closed.
MissRW2 ==
  /\ Fires("WAITFORRW2")
  /\ sinceUplink > ReceiveDelay2
  /\ macState' = "RW2"
  /\ OpenRW("RW2")
  /\ setMacState' = Append(Tail(setMacState),
                           Event(AfterWindow("RW2", ackTimeOut' # NotRunning), 0))
  /\ UNCHANGED <<queue, sinceUplink, endTx, rx, rdc>>

\* Mutant: the request for LORAWAN_PHY_IDLE that the code has commented out.
EnterAckTimeoutStandby ==
  /\ Fires("ACK_TIMEOUT")
  /\ macState' = "ACK_TIMEOUT"
  /\ trxState' = "IDLE"
  /\ setMacState' = Tail(setMacState)
  /\ UNCHANGED <<queue, preambleCheck, ackTimeOut, sinceUplink, endTx, rx, rdc>>

\* SetLoRaWANMacState (MAC_ACK_TIMEOUT): wait, with the radio switched off.
EnterAckTimeout ==
  /\ Fires("ACK_TIMEOUT")
  /\ macState' = "ACK_TIMEOUT"
  /\ trxState' = "TRX_OFF"
  /\ setMacState' = Tail(setMacState)
  /\ UNCHANGED <<queue, preambleCheck, ackTimeOut, sinceUplink, endTx, rx, rdc>>

\* CheckPhyPreamble: an ongoing reception keeps the window open.
CheckPhyPreamble ==
  /\ preambleCheck = 0
  /\ preambleCheck' = NotRunning
  /\ IF trxState = "BUSY_RX" THEN UNCHANGED setMacState ELSE CloseRW
  /\ UNCHANGED <<macState, queue, ackTimeOut, sinceUplink, phy, rdc>>

\* Mutants: it switches to MAC_IDLE in RW2 as well, or in no state at all.
AckTimeoutExpiredAnyState ==
  /\ ackTimeOut = 0
  /\ ackTimeOut' = NotRunning
  /\ setMacState' = Append(setMacState, Event("IDLE", 0))
  /\ UNCHANGED <<macState, queue, preambleCheck, sinceUplink, phy, rdc>>
AckTimeoutExpiredIgnored ==
  /\ ackTimeOut = 0
  /\ ackTimeOut' = NotRunning
  /\ UNCHANGED <<macState, setMacState, queue, preambleCheck, sinceUplink, phy,
                 rdc>>

\* AckTimeoutExpired: in RW2 the end of the reception decides what follows.
AckTimeoutExpired ==
  /\ ackTimeOut = 0
  /\ ackTimeOut' = NotRunning
  /\ setMacState' = IF macState = "ACK_TIMEOUT"
                      THEN Append(setMacState, Event("IDLE", 0))
                      ELSE setMacState
  /\ UNCHANGED <<macState, queue, preambleCheck, sinceUplink, phy, rdc>>

\* SubBandTimerExpired and SubBandTimerCallback.
SubBandTimerExpired(sb) ==
  LET timers == [subBandTimers EXCEPT ![sb] = NotRunning]
  IN /\ subBandTimers[sb] = 0
     /\ macState' = macState
     /\ \/ /\ txPkt # NoPkt
           /\ CheckRetransmission(setMacState, timers)
        \/ /\ txPkt = NoPkt
           /\ CheckQueue(txQueue, txPkt, setMacState, timers)
           /\ UNCHANGED <<txQueue, retransmission, outcome, reported>>
     /\ UNCHANGED <<preambleCheck, ackTimeOut, sinceUplink, offTime, phy>>

-----------------------------------------------------------------------------
(***************************************************************************)
(* The radio.                                                              *)
(***************************************************************************)
\* m_numberOfTransmissions-- of the frame in flight.
OneAttemptLess(elements) == [elements EXCEPT ![1].left = @ - 1]

\* EndTx and PdDataConfirm (LORAWAN_PHY_SUCCESS).  An unconfirmed packet is
\* reported as sent each time, and removed after its last repetition.
EndTx ==
  LET e == Head(txQueue)
  IN /\ endTx = 0
     /\ endTx' = NotRunning
     /\ sinceUplink' = 0
     /\ outcome' = IF e.conf THEN outcome
                             ELSE [outcome EXCEPT ![e.id] = "ok"]
     /\ \/ /\ ~e.conf /\ e.left = 1
           /\ RemoveFirstTxQElement(TRUE)
           /\ txPkt' = NoPkt
        \/ /\ e.conf \/ e.left # 1
           /\ txQueue' = OneAttemptLess(txQueue)
           /\ UNCHANGED <<txPkt, retransmission, reported>>
     /\ setMacState' = Append(setMacState, Event("WAITFORRW1", 0))
     /\ UNCHANGED <<macState, preambleCheck, ackTimeOut, trxState, rx, rdc>>

\* StartRx of a frame on the channel and data rate of the open window, strong
\* enough to be received.  Any other signal can at most destroy it.
StartRx(frame, air) ==
  /\ trxState = "RX_ON"
  /\ frame = "data" => DataAnswers \/ ~AwaitsAck
  /\ ArrivalAtClose \/ setMacState = <<>>
  /\ trxState' = "BUSY_RX"
  /\ rx' = [left |-> air, frame |-> frame]
  /\ UNCHANGED <<mac, queue, endTx, rdc>>

\* The Ack timer was scheduled when the window opened, before the EndRx of any
\* frame received in it, so it runs first if both are due.
EndRxDue == rx.left = 0 /\ ackTimeOut # 0

RadioAfterRx ==
  /\ rx' = NoRx
  /\ trxState' = IF trxState = "BUSY_RX" THEN "RX_ON" ELSE trxState

\* EndRx of a frame that was destroyed (PdDataDestroyed), or that
\* PdDataIndication does not accept: the window is closed.
EndRxDropped ==
  /\ EndRxDue
  /\ CloseRW
  /\ RadioAfterRx
  /\ UNCHANGED <<macState, preambleCheck, ackTimeOut, sinceUplink, queue,
                 endTx, rdc>>

\* Mutant: the Ack leaves m_ackTimeOut running.
EndRxAcceptedNoCancel ==
  /\ EndRxDue
  /\ rx.frame # "other"
  /\ RadioAfterRx
  /\ setMacState' = Append(setMacState, Event("IDLE", 0))
  /\ IF rx.frame = "ack" /\ txPkt # NoPkt
       THEN /\ outcome' = [outcome EXCEPT ![Head(txQueue).id] = "ok"]
            /\ RemoveFirstTxQElement(TRUE)
            /\ txPkt' = NoPkt
       ELSE UNCHANGED queue
  /\ UNCHANGED <<macState, preambleCheck, ackTimeOut, sinceUplink, endTx, rdc>>

\* EndRx of a frame that PdDataIndication accepts.  An Ack completes the frame
\* in flight; in any case the MAC goes to MAC_IDLE and skips what it had
\* scheduled instead (m_setMacState.Cancel).
EndRxAccepted ==
  /\ EndRxDue
  /\ rx.frame # "other"
  /\ RadioAfterRx
  /\ setMacState' = Append(IF setMacState = <<>> THEN <<>>
                             ELSE SubSeq(setMacState, 1, Len(setMacState) - 1),
                           Event("IDLE", 0))
  /\ IF rx.frame = "ack" /\ txPkt # NoPkt
       THEN /\ ackTimeOut' = NotRunning
            /\ outcome' = [outcome EXCEPT ![Head(txQueue).id] = "ok"]
            /\ RemoveFirstTxQElement(TRUE)
            /\ txPkt' = NoPkt
       ELSE UNCHANGED <<ackTimeOut, queue>>
  /\ UNCHANGED <<macState, preambleCheck, sinceUplink, endTx, rdc>>

-----------------------------------------------------------------------------
\* Time passes when no event is due.
After(t) == IF t = NotRunning THEN NotRunning ELSE t - 1
Sooner(event) == [event EXCEPT !.in = @ - 1]

Tick ==
  /\ ~TimerDue
  /\ \A i \in 1 .. Len(setMacState) : setMacState[i].in # 0
  /\ setMacState' = [i \in 1 .. Len(setMacState) |-> Sooner(setMacState[i])]
  /\ preambleCheck' = After(preambleCheck)
  /\ ackTimeOut' = After(ackTimeOut)
  /\ endTx' = After(endTx)
  /\ rx' = [rx EXCEPT !.left = After(@)]
  /\ sinceUplink' = IF sinceUplink <= ReceiveDelay2 THEN sinceUplink + 1
                                                    ELSE sinceUplink
  /\ offTime' = [sb \in SubBands |->
                   IF offTime[sb] = 0 THEN 0 ELSE offTime[sb] - 1]
  /\ subBandTimers' = [sb \in SubBands |-> After(subBandTimers[sb])]
  /\ UNCHANGED <<macState, queue, trxState>>

-----------------------------------------------------------------------------
Init ==
  /\ macState = "IDLE"
  /\ txQueue = <<>>
  /\ txPkt = NoPkt
  /\ retransmission = 0
  /\ setMacState = <<>>
  /\ preambleCheck = NotRunning
  /\ ackTimeOut = NotRunning
  /\ sinceUplink = ReceiveDelay2 + 1
  /\ trxState = "TRX_OFF"
  /\ endTx = NotRunning
  /\ rx = NoRx
  /\ offTime = [sb \in SubBands |-> 0]
  /\ subBandTimers = [sb \in SubBands |-> NotRunning]
  /\ outcome = [p \in Pkts |-> "none"]
  /\ reported = {}

\* What happens without the environment: the events of the device and time.
Device ==
  \/ EnterIdle
  \/ EnterTx
  \/ EnterWaitForRW1
  \/ \E w \in {"RW1", "RW2"} : EnterWindow(w)
  \/ EnterWaitForRW2
  \/ MissRW2
  \/ EnterAckTimeout
  \/ CheckPhyPreamble
  \/ AckTimeoutExpired
  \/ \E sb \in SubBands : SubBandTimerExpired(sb)
  \/ EndTx
  \/ EndRxDropped
  \/ EndRxAccepted
  \/ Tick

Environment ==
  \/ \E p \in Pkts, conf \in BOOLEAN, sb \in SubBands, air \in AirTimes,
       n \in 1 .. MaxTransmissions : Send(p, conf, sb, air, n)
  \/ \E frame \in Frames, air \in FrameTimes : StartRx(frame, air)

Next == Device \/ Environment

Spec == Init /\ [][Next]_vars

\* The simulator runs every event that is scheduled, and time goes on.
FairSpec == Spec /\ WF_vars(Device)

-----------------------------------------------------------------------------
(***************************************************************************)
(* Properties.                                                             *)
(***************************************************************************)
\* Every variable has its type; the counters of attempts stay in their range
\* (m_numberOfTransmissions is a uint8_t that must not wrap below zero).
TypeOK ==
  /\ macState \in MacStates
  /\ txQueue \in Seq(Elements)
  /\ txPkt \in Pkts \union {NoPkt}
  /\ retransmission \in 0 .. MaxTransmissions
  /\ setMacState \in Seq(StateEvents)
  /\ preambleCheck \in Timers
  /\ ackTimeOut \in Timers
  /\ sinceUplink \in Nat
  /\ trxState \in TrxStates
  /\ endTx \in Timers
  /\ rx \in [left : Timers, frame : Frames]
  /\ offTime \in [SubBands -> Nat]
  /\ subBandTimers \in [SubBands -> Timers]
  /\ outcome \in [Pkts -> {"none", "waiting", "ok", "noack"}]
  /\ reported \in SUBSET Pkts

\* The states from which SetLoRaWANMacState asserts that a state is entered.
SourceStates(to) ==
  CASE to = "IDLE" -> {"TX", "RW1", "RW2", "ACK_TIMEOUT"}
    [] to = "TX" -> {"IDLE"}
    [] to = "WAITFORRW1" -> {"TX"}
    [] to = "RW1" -> {"WAITFORRW1"}
    [] to = "WAITFORRW2" -> {"RW1"}
    [] to = "RW2" -> {"WAITFORRW2"}
    [] to = "ACK_TIMEOUT" -> {"TX", "RW2"}

\* Two timers, the radio and the upper layer all schedule state changes through
\* the one m_setMacState: there is never a second one under way, and the
\* assertion on the source state holds for the one that is.
StateChangesLegal ==
  /\ Len(setMacState) <= 1
  /\ \A i \in 1 .. Len(setMacState) :
       macState \in SourceStates(setMacState[i].to)

\* No reception or transmission is under way when a state change is due, so
\* that the radio grants what the MAC asks for: SetTRXStateRequest aborts the
\* program on TRX_OFF in IDLE, BUSY_RX or BUSY_TX, and TX_ON while busy.
TransceiverRequestsGranted ==
  \A to \in MacStates : Fires(to) =>
    CASE to \in {"IDLE", "ACK_TIMEOUT"} -> trxState \in {"TRX_OFF", "RX_ON"}
      [] to = "TX" -> trxState \in {"TRX_OFF", "IDLE", "RX_ON"}
      [] to = "WAITFORRW1" -> trxState = "BUSY_TX"
      [] to = "WAITFORRW2" -> trxState = "RX_ON"
      [] OTHER -> trxState = "IDLE"

\* MAC and radio, which only talk through requests and confirmations, agree:
\* asleep in MAC_IDLE and MAC_ACK_TIMEOUT, transmitting in MAC_TX, listening
\* or receiving in a window.
RadioFollowsMac ==
  /\ macState \in {"IDLE", "ACK_TIMEOUT"} => trxState = "TRX_OFF"
  /\ macState = "TX" => trxState = "BUSY_TX"
  /\ macState \in {"WAITFORRW1", "WAITFORRW2"} => trxState = "IDLE"
  /\ macState \in {"RW1", "RW2"} => trxState \in {"RX_ON", "BUSY_RX"}
  /\ rx.left # NotRunning <=> trxState = "BUSY_RX"
  /\ endTx # NotRunning => macState = "TX"

\* The preamble check of a missed RW2 may still run when the next frame is in the
\* air.  It is over when that frame's windows open, so that the one event
\* m_preambleDetected is never overwritten, nor closes the wrong window.
PreambleCheckFree ==
  \A to \in {"RW1", "WAITFORRW2", "RW2"} :
    Fires(to) => preambleCheck = NotRunning

\* The assertion of PdDataIndication for a class A device: a reception ends in
\* the receive window in which it began.
IndicationInWindow == rx.left = 0 => macState \in {"RW1", "RW2"}

\* The assertion and comment of AckTimeoutExpired: the timer, which the MAC
\* cancels in one place only, expires in RW2 or while waiting for it.
AckTimerExpiresWhileWaiting ==
  ackTimeOut = 0 => macState \in {"RW2", "ACK_TIMEOUT"}

\* SubBandTimerCallback may call CheckRetransmission, which asserts MAC_IDLE:
\* a sub band timer runs only while the MAC is idle.
SubBandTimerOnlyWhenIdle ==
  \A sb \in SubBands : subBandTimers[sb] # NotRunning => macState = "IDLE"

\* The next attempt of the frame in flight is scheduled or in the air.
Sending == \/ macState = "IDLE" /\ setMacState # <<>>
           \/ macState = "TX" /\ setMacState = <<>>

\* m_txPkt is the head of m_txQueue, and m_retransmission, which the trace of
\* the sent packet reports, agrees with the attempts that the head has used.
AttemptsCounted ==
  IF txPkt = NoPkt
    THEN /\ retransmission = 0
         /\ txQueue # <<>> => Head(txQueue).left = Head(txQueue).req
    ELSE /\ txQueue # <<>>
         /\ Head(txQueue).id = txPkt
         /\ retransmission + (IF Sending THEN 0 ELSE 1)
              = Head(txQueue).req - Head(txQueue).left

\* There is no backup timer for a window or for the queue: in every state some
\* event that leads out of it is scheduled, or there is nothing to send.
NoLostWakeup ==
  \/ setMacState # <<>>
  \/ macState = "IDLE" /\ txQueue = <<>>
  \/ macState = "IDLE" /\ subBandTimers[Head(txQueue).sb] # NotRunning
  \/ macState = "TX" /\ endTx # NotRunning
  \/ /\ macState \in {"RW1", "RW2"}
     /\ preambleCheck # NotRunning \/ rx.left # NotRunning
  \/ macState = "ACK_TIMEOUT" /\ ackTimeOut # NotRunning

\* The upper layer is told about every packet: m_dataConfirmCallback has spoken
\* when a packet leaves the queue, and m_sentPktTrace has reported the packets
\* that left it with success, and no other.
OutcomesAgree ==
  \A p \in Pkts :
    /\ outcome[p] = "waiting" => InQueue(p)
    /\ p \in reported <=> ~InQueue(p) /\ outcome[p] = "ok"

\* A transmission starts only in a sub band whose duty cycle allows it, although
\* queue and frame in flight may have changed since CheckQueue looked.
DutyCycleRespected ==
  [][endTx = NotRunning /\ endTx' # NotRunning
       => offTime[Head(txQueue).sb] = 0]_vars

\* NO_ACK is reported for a confirmed frame only, after every transmission that
\* was asked for and the Ack timer of the last one.
GivesUpAfterLastAttempt ==
  [][\A p \in Pkts : outcome[p] # "noack" /\ outcome'[p] = "noack"
       => /\ txPkt = p /\ Head(txQueue).conf
          /\ retransmission + 1 = Head(txQueue).req
          /\ ackTimeOut = NotRunning]_vars

\* The radio starts to listen exactly RECEIVE_DELAY1 and RECEIVE_DELAY2 after
\* the end of the uplink, or later than RECEIVE_DELAY2 when RW2 was missed.
WindowsOnTime ==
  [][trxState # "BUSY_RX" /\ trxState' = "RX_ON" /\ macState' # macState
       => CASE macState = "WAITFORRW1" -> sinceUplink = ReceiveDelay1
            [] macState = "WAITFORRW2" -> sinceUplink = ReceiveDelay2
            [] OTHER -> sinceUplink > ReceiveDelay2]_vars

\* A confirmed frame is repeated only after both windows and the Ack timeout.
RepeatsAfterAckTimeout ==
  [][retransmission' > retransmission /\ AwaitsAck
       => sinceUplink > ReceiveDelay2 /\ ackTimeOut = NotRunning]_vars

\* Module NetworkServer relies on it: no uplink ends until more than
\* RECEIVE_DELAY1 has passed since the one before, and whatever ends RW1 leads to
\* RW2, except an Ack or data received in RW1.
WindowsBeforeNextUplink ==
  [][/\ endTx = 0 /\ endTx' = NotRunning => sinceUplink > ReceiveDelay1
     /\ macState = "RW1" /\ Len(setMacState') > Len(setMacState)
          => \/ setMacState'[Len(setMacState')].to = "WAITFORRW2"
             \/ rx.left = 0 /\ rx.frame \in {"ack", "data"}]_vars

-----------------------------------------------------------------------------
(***************************************************************************)
(* The device implements UplinkService: the queue without its radio        *)
(* parameters is the backlog, and the attempts are those counted down.     *)
(***************************************************************************)
Backlog == [i \in 1 .. Len(txQueue) |->
              [id |-> txQueue[i].id, conf |-> txQueue[i].conf,
               req |-> txQueue[i].req]]
Attempts == IF txQueue = <<>> THEN 0
                              ELSE Head(txQueue).req - Head(txQueue).left

Service == INSTANCE UplinkService WITH backlog <- Backlog, attempts <- Attempts

\* Packets leave in the order in which they were requested, each after the
\* transmissions it was given, and success is reported only for what was sent.
ImplementsService == Service!Spec

\* The device keeps serving: it also implements the liveness of the service.
ImplementsFairService == Service!FairSpec
=============================================================================
