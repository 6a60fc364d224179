--------------------------- MODULE GatewayDevice ---------------------------
(***************************************************************************)
(* A gateway: LoRaWANNetDevice with one LoRaWANMac and one LoRaWANPhy for  *)
(* every channel and data rate, and the duty cycle object they share.      *)
(*                                                                         *)
(* An action is one event of the simulator with all its synchronous calls; *)
(* in particular MacBeginsTx and MacEndsTx call every other MAC within the *)
(* event of the MAC that sends.  Events scheduled with ScheduleNow run in  *)
(* the order of scheduling, after those that were due before.  An NS_ASSERT *)
(* or NS_FATAL_ERROR ends the program: it is a guard here, and the         *)
(* invariant AssertionsHold says that it is never the guard that fails.    *)
(*                                                                         *)
(* A request that sendMACPayloadRequest refuses changes nothing.  The tx   *)
(* configuration is always valid: the gateway asks for index 0.            *)
(***************************************************************************)
EXTENDS Integers, Sequences

CONSTANTS
  Macs,               \* m_macs
  NoMac,
  SubBands,
  SubBandOf,          \* MAC -> the sub band of its channel
  DutyCycleLimit,     \* sub band -> dutyCycleLimit (100 stands for 1%)
  AirTimes,           \* possible air times of a downstream frame
  FrameTimes,         \* possible air times of an upstream frame
  SimultaneousWindows \* TRUE: the windows of two devices may open at once

ASSUME MacsAssumption == NoMac \notin Macs
ASSUME BandsAssumption ==
  /\ SubBandOf \in [Macs -> SubBands]
  /\ DutyCycleLimit \in [SubBands -> Nat \ {0}]
ASSUME DurationsAssumption ==
  /\ AirTimes \subseteq Nat \ {0}
  /\ FrameTimes \subseteq Nat \ {0}
ASSUME SimultaneousAssumption == SimultaneousWindows \in BOOLEAN

VARIABLES
  macState,    \* MAC -> m_LoRaWANMacState
  txQueue,     \* MAC -> the air times of the frames in m_txQueue
  txPkt,       \* MAC -> m_txPkt # 0
  setMacState, \* scheduled SetLoRaWANMacState events, oldest first
  trxState,    \* MAC -> m_trxState of its LoRaWANPhy
  endTx,       \* MAC -> time until EndTx
  rx,          \* MAC -> m_currentRxPacket and time until its EndRx
  offTime      \* sub band -> time until it is available again

mac == <<macState, txQueue, txPkt, setMacState>>
phy == <<trxState, endTx, rx>>
vars == <<mac, phy, offTime>>

-----------------------------------------------------------------------------
NotRunning == -1
NoRx == [left |-> NotRunning, aborted |-> FALSE]
Events == [mac : Macs, to : {"IDLE", "TX"}]

\* IsLoRaWANMacStateRunning
Pending(m) == \E i \in 1 .. Len(setMacState) : setMacState[i].mac = m

\* Mutant: one unit of time too early.
IsSubBandAvailableEarly(b) == offTime[b] <= 1
IsSubBandAvailable(b) == offTime[b] = 0

\* Mutant: a MAC that is about to send is taken for free.
CanSendIgnoringEvent(m) ==
  IsSubBandAvailable(SubBandOf[m]) /\ macState[m] = "IDLE"

CanSendImmediatelyOnChannel(m) ==
  /\ IsSubBandAvailable(SubBandOf[m])
  /\ macState[m] = "IDLE"
  /\ ~Pending(m)

\* The condition under which CheckQueue sends the frame at the head of the
\* queue; with another frame in the queue a gateway stops the program.
MaySend(m) ==
  /\ macState[m] = "IDLE"
  /\ ~txPkt[m]
  /\ ~Pending(m)
  /\ IsSubBandAvailable(SubBandOf[m])

(***************************************************************************)
(* The receive window of a device opens.  The network server asks whether  *)
(* MAC m can send and in the same event hands it a frame: Send,            *)
(* sendMACPayloadRequest and CheckQueue.                                   *)
(***************************************************************************)
Window(m, air) ==
  /\ SimultaneousWindows
       \/ \A i \in 1 .. Len(setMacState) : setMacState[i].to # "TX"
  /\ CanSendImmediatelyOnChannel(m)
  /\ MaySend(m)
  /\ txQueue' = [txQueue EXCEPT ![m] = Append(@, air)]
  /\ txPkt' = [txPkt EXCEPT ![m] = TRUE]
  /\ setMacState' = Append(setMacState, [mac |-> m, to |-> "TX"])
  /\ UNCHANGED <<macState, phy, offTime>>

(***************************************************************************)
(* SetLoRaWANMacState(MAC_TX).  MacBeginsTx makes every MAC unavailable    *)
(* and forces its transceiver off, which aborts what it receives; then m   *)
(* configures its transceiver, which starts to send as soon as it is on.   *)
(***************************************************************************)
\* Mutant: the reception goes on.
ForcedOffKeepingRx(r) == r
ForcedOff(r) == IF r = NoRx THEN NoRx ELSE [r EXCEPT !.aborted = TRUE]

UpdateRDCTimerForSubBand(b, air) ==
  offTime' = [offTime EXCEPT ![b] = air * DutyCycleLimit[b]]

\* Mutant: the other MACs and their transceivers are left alone.
MacBeginsTxAlone(m) ==
  /\ macState' = [macState EXCEPT ![m] = "TX"]
  /\ trxState' = [trxState EXCEPT ![m] = "BUSY_TX"]
  /\ rx' = [rx EXCEPT ![m] = ForcedOff(@)]
MacBeginsTx(m) ==
  /\ macState' = [n \in Macs |-> IF n = m THEN "TX" ELSE "UNAVAILABLE"]
  /\ trxState' = [n \in Macs |-> IF n = m THEN "BUSY_TX" ELSE "TRX_OFF"]
  /\ rx' = [n \in Macs |-> ForcedOff(rx[n])]

BeginTx(m) ==
  /\ setMacState # <<>>
  /\ Head(setMacState) = [mac |-> m, to |-> "TX"]
  /\ \A n \in Macs : endTx[n] # 0 /\ rx[n].left # 0
  /\ macState[m] = "IDLE"
  /\ \A n \in Macs : macState[n] \in {"IDLE", "TX"}
  /\ txPkt[m]
  /\ MacBeginsTx(m)
  /\ endTx' = [endTx EXCEPT ![m] = Head(txQueue[m])]
  /\ UpdateRDCTimerForSubBand(SubBandOf[m], Head(txQueue[m]))
  /\ setMacState' = Tail(setMacState)
  /\ UNCHANGED <<txQueue, txPkt>>

(***************************************************************************)
(* EndTx and PdDataConfirm.  The frame leaves the queue, confirmed or not, *)
(* as a gateway sends it once; MacEndsTx makes every other MAC idle and    *)
(* switches its transceiver on; the own MAC follows in an event.           *)
(***************************************************************************)
\* Mutant: the transceivers stay off.
MacEndsTxOff(m) ==
  /\ macState' = [n \in Macs |-> IF n = m THEN macState[n] ELSE "IDLE"]
  /\ UNCHANGED trxState
MacEndsTx(m) ==
  /\ macState' = [n \in Macs |-> IF n = m THEN macState[n] ELSE "IDLE"]
  /\ trxState' = [n \in Macs |-> IF n = m THEN trxState[n] ELSE "RX_ON"]

RemoveFirstTxQElement(m) ==
  /\ txQueue' = [txQueue EXCEPT ![m] = Tail(@)]
  /\ txPkt' = [txPkt EXCEPT ![m] = FALSE]

EndTx(m) ==
  /\ endTx[m] = 0
  /\ trxState[m] = "BUSY_TX" /\ macState[m] = "TX" /\ txPkt[m]
  /\ \A n \in Macs \ {m} : macState[n] = "UNAVAILABLE" /\ ~txPkt[n]
                             /\ txQueue[n] = <<>>
  /\ endTx' = [endTx EXCEPT ![m] = NotRunning]
  /\ RemoveFirstTxQElement(m)
  /\ setMacState' = Append(setMacState, [mac |-> m, to |-> "IDLE"])
  /\ MacEndsTx(m)
  /\ UNCHANGED <<rx, offTime>>

\* SetLoRaWANMacState(MAC_IDLE) of the MAC that has sent; CheckQueue finds
\* an empty queue.
BecomeIdle(m) ==
  /\ setMacState # <<>>
  /\ Head(setMacState) = [mac |-> m, to |-> "IDLE"]
  /\ \A n \in Macs : endTx[n] # 0 /\ rx[n].left # 0
  /\ macState[m] \in {"TX", "UNAVAILABLE"} /\ ~txPkt[m] /\ txQueue[m] = <<>>
  /\ macState' = [macState EXCEPT ![m] = "IDLE"]
  /\ trxState' = [trxState EXCEPT ![m] = "RX_ON"]
  /\ setMacState' = Tail(setMacState)
  /\ UNCHANGED <<txQueue, txPkt, endTx, rx, offTime>>

-----------------------------------------------------------------------------
(***************************************************************************)
(* Upstream frames.  Only a transceiver that listens locks on to a frame   *)
(* (if it is strong enough, or else the frame is dropped at once); while   *)
(* it receives, or is off, a frame is but interference.  A frame that was  *)
(* aborted stays the current one until its EndRx or until another begins,  *)
(* and the EndRx of a frame that is not the current one does nothing.      *)
(***************************************************************************)
StartRx(m, duration) ==
  /\ trxState[m] = "RX_ON"
  /\ trxState' = [trxState EXCEPT ![m] = "BUSY_RX"]
  /\ rx' = [rx EXCEPT ![m] = [left |-> duration, aborted |-> FALSE]]
  /\ UNCHANGED <<mac, endTx, offTime>>

\* PdDataIndication, which asserts that the MAC is idle, or, for a frame that
\* was aborted or destroyed, a drop.
EndRx(m) ==
  /\ rx[m].left = 0
  /\ ~rx[m].aborted => macState[m] = "IDLE"
  /\ rx' = [rx EXCEPT ![m] = NoRx]
  /\ trxState' = [trxState EXCEPT ![m] = IF @ = "BUSY_RX" THEN "RX_ON" ELSE @]
  /\ UNCHANGED <<mac, endTx, offTime>>

-----------------------------------------------------------------------------
Left(t) == IF t > 0 THEN t - 1 ELSE t

\* Time passes when nothing is due.
Tick ==
  /\ setMacState = <<>>
  /\ \A m \in Macs : endTx[m] # 0 /\ rx[m].left # 0
  /\ endTx' = [m \in Macs |-> Left(endTx[m])]
  /\ rx' = [m \in Macs |-> [rx[m] EXCEPT !.left = Left(@)]]
  /\ offTime' = [b \in SubBands |-> Left(offTime[b])]
  /\ UNCHANGED <<mac, trxState>>

Init ==
  /\ macState = [m \in Macs |-> "IDLE"]
  /\ txQueue = [m \in Macs |-> <<>>]
  /\ txPkt = [m \in Macs |-> FALSE]
  /\ setMacState = <<>>
  /\ trxState = [m \in Macs |-> "RX_ON"]
  /\ endTx = [m \in Macs |-> NotRunning]
  /\ rx = [m \in Macs |-> NoRx]
  /\ offTime = [b \in SubBands |-> 0]

Next ==
  \/ \E m \in Macs :
       \/ \E air \in AirTimes : Window(m, air)
       \/ \E duration \in FrameTimes : StartRx(m, duration)
       \/ BeginTx(m) \/ EndTx(m) \/ BecomeIdle(m) \/ EndRx(m)
  \/ Tick

\* The simulator runs every event that is due, and time goes on.
Fairness ==
  /\ \A m \in Macs : WF_vars(BeginTx(m)) /\ WF_vars(EndTx(m))
                       /\ WF_vars(BecomeIdle(m)) /\ WF_vars(EndRx(m))
  /\ WF_vars(Tick)

Spec == Init /\ [][Next]_vars
FairSpec == Spec /\ Fairness

-----------------------------------------------------------------------------
(***************************************************************************)
(* Properties                                                              *)
(***************************************************************************)
\* The values of the variables.
TypeOK ==
  /\ macState \in [Macs -> {"IDLE", "TX", "UNAVAILABLE"}]
  /\ txQueue \in [Macs -> Seq(AirTimes)]
  /\ txPkt \in [Macs -> BOOLEAN]
  /\ setMacState \in Seq(Events)
  /\ trxState \in [Macs -> {"TRX_OFF", "RX_ON", "BUSY_RX", "BUSY_TX"}]
  /\ endTx \in [Macs -> Nat \union {NotRunning}]
  /\ rx \in [Macs -> [left : Nat \union {NotRunning}, aborted : BOOLEAN]]
  /\ offTime \in [SubBands -> Nat]

\* No NS_ASSERT and no NS_FATAL_ERROR of the gateway is ever reached: a MAC
\* whose TX event is next is idle and so are all others (or, at the end of
\* their own transmission, in TX); a MAC that becomes idle comes from TX with
\* nothing left to send; a MAC that can send at once has nothing else in hand;
\* a frame that was not aborted is delivered to an idle MAC.
AssertionsHold ==
  /\ setMacState # <<>> =>
       LET m == Head(setMacState).mac
       IN CASE Head(setMacState).to = "TX" ->
                 /\ macState[m] = "IDLE" /\ txPkt[m]
                 /\ \A n \in Macs : macState[n] \in {"IDLE", "TX"}
            [] OTHER -> /\ macState[m] \in {"TX", "UNAVAILABLE"}
                        /\ ~txPkt[m] /\ txQueue[m] = <<>>
  /\ \A m \in Macs :
       /\ CanSendImmediatelyOnChannel(m) => MaySend(m) /\ txQueue[m] = <<>>
       /\ endTx[m] = 0 =>
            /\ trxState[m] = "BUSY_TX" /\ macState[m] = "TX" /\ txPkt[m]
            /\ \A n \in Macs \ {m} : macState[n] = "UNAVAILABLE" /\ ~txPkt[n]
                                       /\ txQueue[n] = <<>>
       /\ rx[m].left = 0 /\ ~rx[m].aborted => macState[m] = "IDLE"

\* A frame is delivered only if its receiver was on and tuned to it from its
\* first to its last bit: the current frame of a transceiver is marked as
\* aborted as soon as the transceiver is not receiving.
DeliversWhole ==
  \A m \in Macs : rx[m] # NoRx => (rx[m].aborted <=> trxState[m] # "BUSY_RX")

\* Between two transmissions in a sub band lie as many air times of the first
\* one as the duty cycle limit asks for: no transmission begins in a sub band
\* that is off, whichever MACs use it, and what it begins with is the limit.
DutyCycleKept ==
  [][\A m \in Macs : trxState[m] # "BUSY_TX" /\ trxState'[m] = "BUSY_TX" =>
       /\ offTime[SubBandOf[m]] = 0
       /\ offTime'[SubBandOf[m]] = DutyCycleLimit[SubBandOf[m]] * endTx'[m]]_vars

\* After every transmission all MACs of the gateway listen again.
AllListening ==
  \A m \in Macs : macState[m] = "IDLE" /\ trxState[m] \in {"RX_ON", "BUSY_RX"}
ListensAgain == \A m \in Macs : trxState[m] = "BUSY_TX" ~> AllListening

-----------------------------------------------------------------------------
\* A gateway is a half duplex radio: what is on the air is what its EndTx
\* event is running for, what it hears are the frames not aborted.
Sender ==
  IF \E m \in Macs : endTx[m] # NotRunning
    THEN CHOOSE m \in Macs : endTx[m] # NotRunning
    ELSE NoMac
Hearing == {m \in Macs : rx[m] # NoRx /\ ~rx[m].aborted}

Radio == INSTANCE HalfDuplexRadio WITH sending <- Sender, hearing <- Hearing

\* A gateway implements the half duplex radio.
ImplementsHalfDuplex == Radio!HDSpec
=============================================================================
