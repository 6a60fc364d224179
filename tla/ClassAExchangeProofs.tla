------------------------ MODULE ClassAExchangeProofs ------------------------
(***************************************************************************)
(* The device and the server keep to each other: the invariants of the     *)
(* device hold whatever the server may answer, LinkInv ties the stages of  *)
(* an exchange to the clock of the device, and the properties of           *)
(* ClassAExchange follow.                                                  *)
(***************************************************************************)
EXTENDS ClassAExchangeInvariant, EndDeviceMacProofs

\* The constants of the link as numbers.
LEMMA LinkTimes ==
  /\ Delay \in Nat /\ Delay > 0 /\ 2 * Delay < PreambleTime
  /\ \A a \in AirTimes : a \in Nat /\ 2 * Delay < a
  /\ PreambleTime \in Nat /\ ReceiveDelay1 \in Nat /\ ReceiveDelay2 \in Nat
  /\ PreambleTime < ReceiveDelay1
  /\ ReceiveDelay1 + PreambleTime <= ReceiveDelay2
BY LinkAssumption, TimesAssumption, OrderAssumption

-----------------------------------------------------------------------------
(***************************************************************************)
(* The steps of the device that leave the link alone.                      *)
(***************************************************************************)
StateChange ==
  \/ EnterIdle
  \/ EnterTx
  \/ EnterWaitForRW1
  \/ \E w \in {"RW1", "RW2"} : EnterWindow(w)
  \/ EnterWaitForRW2
  \/ MissRW2
  \/ EnterAckTimeout

SomeSend ==
  \E p \in Pkts, conf \in BOOLEAN, sb \in SubBands, t \in AirTimes,
     n \in 1 .. MaxTransmissions : Send(p, conf, sb, t, n)

Alone ==
  \/ StateChange
  \/ CheckPhyPreamble
  \/ AckTimeoutExpired
  \/ \E sb \in SubBands : SubBandTimerExpired(sb)
  \/ EndRxAccepted
  \/ lossy /\ EndRxDropped
  \/ SomeSend

\* Every such step is one of the device, and no time passes in it.
LEMMA AloneIsNext ==
  ASSUME Alone
  PROVE  Next /\ sinceUplink' = sinceUplink
<1>1. Next
  BY DEF Alone, StateChange, SomeSend, Next, Device, Environment
<1>2. StateChange => sinceUplink' = sinceUplink
  BY DEF StateChange, EnterIdle, EnterTx, EnterWaitForRW1, EnterWindow,
     EnterWaitForRW2, MissRW2, EnterAckTimeout
<1>3. SomeSend => sinceUplink' = sinceUplink
  BY DEF SomeSend, Send
<1>4. (\E sb \in SubBands : SubBandTimerExpired(sb)) => sinceUplink' = sinceUplink
  BY DEF SubBandTimerExpired
<1>5. CheckPhyPreamble \/ AckTimeoutExpired \/ EndRxAccepted \/ EndRxDropped
        => sinceUplink' = sinceUplink
  BY DEF CheckPhyPreamble, AckTimeoutExpired, EndRxAccepted, EndRxDropped
<1> QED BY <1>1, <1>2, <1>3, <1>4, <1>5 DEF Alone

\* The invariant of the device after such a step.
LEMMA AloneIInv ==
  ASSUME IInv, Alone
  PROVE  IInv'
<1>1. StateChange => IInv'
  BY EnterIdleStep, EnterTxStep, EnterWaitForRW1Step, EnterWindowStep,
     EnterWaitForRW2Step, MissRW2Step, EnterAckTimeoutStep DEF StateChange
<1>2. SomeSend => IInv'
  BY SendStep DEF SomeSend
<1> QED BY <1>1, <1>2, CheckPhyPreambleStep, AckTimeoutExpiredStep,
     SubBandTimerExpiredStep, EndRxDroppedStep, EndRxAcceptedStep DEF Alone

\* A request, and the expiry of a sub band timer, change the state of the MAC
\* only when it is idle.
LEMMA QueueSteps ==
  ASSUME IInv, SomeSend \/ \E sb \in SubBands : SubBandTimerExpired(sb)
  PROVE  /\ UNCHANGED <<macState, preambleCheck, ackTimeOut, trxState, endTx, rx>>
         /\ macState # "IDLE" => UNCHANGED <<setMacState, txPkt, retransmission>>
<1>1. CASE SomeSend
  BY <1>1, CheckQueueNotReady DEF SomeSend, Send, phy
<1>2. ASSUME NEW sb \in SubBands, SubBandTimerExpired(sb)
      PROVE  macState = "IDLE"
  BY <1>2, TimerType DEF IInv, SubBandInv, SubBandTimerExpired
<1> QED BY <1>1, <1>2 DEF SubBandTimerExpired, phy

\* A state change finds no reception under way, and takes these ways.
LEMMA StateChangeFacts ==
  ASSUME IInv, StateChange
  PROVE  /\ rx = NoRx /\ rx' = NoRx
         /\ \/ /\ EnterIdle /\ macState' = "IDLE" /\ Pending("IDLE", 0)
               /\ macState \in {"RW1", "RW2", "ACK_TIMEOUT"}
            \/ EnterTx /\ macState = "IDLE" /\ macState' = "TX" /\ setMacState' = <<>>
            \/ /\ macState = "TX" /\ setMacState # <<>> /\ sinceUplink = 0
               /\ macState' = "WAITFORRW1"
            \/ /\ macState = "WAITFORRW1" /\ sinceUplink = ReceiveDelay1
               /\ macState' = "RW1" /\ setMacState' = <<>>
               /\ preambleCheck' = PreambleTime
            \/ /\ macState = "WAITFORRW2" /\ sinceUplink = ReceiveDelay2
               /\ macState' = "RW2" /\ setMacState' = <<>>
               /\ preambleCheck' = PreambleTime
            \/ /\ macState = "RW1" /\ macState' = "WAITFORRW2"
               /\ preambleCheck = NotRunning /\ sinceUplink <= ReceiveDelay2
            \/ /\ macState = "RW1" /\ macState' = "RW2" /\ sinceUplink > ReceiveDelay2
               /\ preambleCheck = NotRunning
            \/ /\ macState = "RW2" /\ macState' = "ACK_TIMEOUT" /\ setMacState # <<>>
         /\ ~EnterTx => endTx' = endTx
         /\ ~EnterIdle => UNCHANGED <<txQueue, txPkt, retransmission>>
<1>1. CASE EnterIdle
  BY <1>1, FiresFacts, FiresAlone DEF EnterIdle, Pending, RadioIdle, StateChange
<1>2. CASE EnterTx
  BY <1>2, FiresFacts, FiresAlone DEF EnterTx, RadioIdle, queue
<1>3. CASE EnterWaitForRW1
  BY <1>3, FiresFacts, FiresAlone DEF EnterWaitForRW1, RadioIdle, queue, Fires
<1>4. ASSUME NEW w \in {"RW1", "RW2"}, EnterWindow(w)
      PROVE  /\ macState = IF w = "RW1" THEN "WAITFORRW1" ELSE "WAITFORRW2"
             /\ sinceUplink = IF w = "RW1" THEN ReceiveDelay1 ELSE ReceiveDelay2
             /\ macState' = w /\ setMacState' = <<>> /\ preambleCheck' = PreambleTime
             /\ rx = NoRx /\ rx' = rx /\ endTx' = endTx
             /\ UNCHANGED <<txQueue, txPkt, retransmission>>
  BY <1>4, FiresFacts, FiresAlone DEF EnterWindow, OpenRW, RadioIdle, queue
<1>5. CASE EnterWaitForRW2
  BY <1>5, FiresFacts DEF EnterWaitForRW2, RadioIdle, queue
<1>6. CASE MissRW2
  BY <1>6, FiresFacts DEF MissRW2, RadioIdle, queue
<1>7. CASE EnterAckTimeout
  BY <1>7, FiresFacts DEF EnterAckTimeout, RadioIdle, queue, Fires
<1>8. CASE \E w \in {"RW1", "RW2"} : EnterWindow(w)
  BY <1>8, <1>4
<1> QED BY <1>1, <1>2, <1>3, <1>5, <1>6, <1>7, <1>8 DEF StateChange

\* What a timer, the end of a reception, or a frame that ends it changes.
LEMMA TimerFacts ==
  ASSUME IInv, CheckPhyPreamble \/ AckTimeoutExpired \/ EndRxDropped \/ EndRxAccepted
  PROVE  /\ UNCHANGED <<macState, endTx>>
         /\ \/ rx' = rx
            \/ (EndRxDropped \/ EndRxAccepted) /\ rx.left = 0 /\ rx' = NoRx
         /\ \/ preambleCheck' = preambleCheck
            \/ CheckPhyPreamble /\ preambleCheck = 0 /\ preambleCheck' = NotRunning
         /\ macState \notin {"RW1", "RW2", "ACK_TIMEOUT"} => setMacState' = setMacState
         /\ ~EndRxAccepted => UNCHANGED <<txQueue, txPkt, retransmission>>
<1>0. TypeOK /\ macState \in MacStates
  BY DEF IInv, TypeOK
<1>1. CASE CheckPhyPreamble
  BY <1>1 DEF CheckPhyPreamble, CloseRW, phy, queue
<1>2. CASE AckTimeoutExpired
  BY <1>2 DEF AckTimeoutExpired, phy, queue
<1>3. CASE EndRxDropped
  BY <1>3, RxDueFacts DEF EndRxDropped, EndRxDue, RadioAfterRx, queue
<1>4. CASE EndRxAccepted
  BY <1>4, RxDueFacts DEF EndRxAccepted, EndRxDue, RadioAfterRx
<1> QED BY <1>1, <1>2, <1>3, <1>4

-----------------------------------------------------------------------------
(***************************************************************************)
(* PhaseInv: the first window ends PreambleTime after it opened at the     *)
(* earliest.                                                               *)
(***************************************************************************)
\* Before the first uplink the clock stands past the second window.
LEMMA InitPhase == Init => PhaseInv
BY LinkTimes DEF Init, PhaseInv

\* The device goes through its windows.
LEMMA AlonePhase ==
  ASSUME IInv, PhaseInv, Alone
  PROVE  PhaseInv'
<1>0. /\ TypeOK /\ sinceUplink \in Nat /\ sinceUplink' = sinceUplink
      /\ macState \in MacStates /\ preambleCheck \in Timers
  BY AloneIsNext DEF IInv, TypeOK
<1>1. CASE StateChange
  <2>1. macState = "RW1" /\ Pending("IDLE", 0) => preambleCheck = NotRunning
    <3>1. macState = "RW1" /\ Pending("IDLE", 0) => setMacState # <<>>
      BY Singleton DEF Pending
    <3> QED BY <3>1 DEF IInv, WindowInv
  <2>2. macState' # "RW1" /\ RW1Over' => RW1Over
    BY <1>0, <1>1, <2>1, StateChangeFacts DEF RW1Over, WindowsOver
  <2>3. macState' = "RW1" => sinceUplink + preambleCheck' = ReceiveDelay1 + PreambleTime
                               /\ preambleCheck' # NotRunning
    BY <1>0, <1>1, StateChangeFacts, LinkTimes, TimerType
  <2> QED BY <1>0, <2>2, <2>3 DEF PhaseInv, RW1Over, WindowsOver
<1>2. CASE CheckPhyPreamble \/ AckTimeoutExpired \/ EndRxDropped \/ EndRxAccepted
  <2>1. UNCHANGED macState
    BY <1>2, TimerFacts
  <2>2. CASE preambleCheck' = preambleCheck
    <3>1. RW1Over' => RW1Over
      BY <1>2, <2>1, <2>2, TimerFacts DEF RW1Over, WindowsOver
    <3> QED BY <1>0, <2>1, <2>2, <3>1 DEF PhaseInv
  <2>3. CASE preambleCheck = 0 /\ preambleCheck' = NotRunning
    <3>1. RW1Over' => RW1Over \/ macState = "RW1"
      BY <1>2, <2>1, <2>3, TimerFacts DEF RW1Over, WindowsOver
    <3>2. macState = "RW1" => sinceUplink >= ReceiveDelay1 + PreambleTime
      BY <1>0, <2>3, LinkTimes, TimerType DEF PhaseInv
    <3> QED BY <1>0, <2>1, <2>3, <3>1, <3>2 DEF PhaseInv
  <2> QED BY <1>2, <2>2, <2>3, TimerFacts
<1>3. CASE SomeSend \/ \E sb \in SubBands : SubBandTimerExpired(sb)
  <2>1. RW1Over' => RW1Over
    BY <1>3, QueueSteps DEF RW1Over, WindowsOver
  <2> QED BY <1>0, <1>3, <2>1, QueueSteps DEF PhaseInv
<1> QED BY <1>1, <1>2, <1>3 DEF Alone

\* A new uplink starts the clock again.
LEMMA EndTxPhase ==
  ASSUME IInv, EndTx
  PROVE  /\ PhaseInv'
         /\ macState = "TX" /\ macState' = "TX" /\ setMacState = <<>>
         /\ Pending("WAITFORRW1", 0)' /\ setMacState' # <<>>
         /\ sinceUplink' = 0 /\ rx = NoRx /\ rx' = NoRx
<1>1. macState = "TX" /\ macState' = macState
  <2>1. endTx # NotRunning
    BY DEF EndTx, NotRunning
  <2> QED BY <2>1, StateInvariants DEF RadioFollowsMac, EndTx
<1>2. setMacState = <<>> /\ rx = NoRx
  BY <1>1, TimerType DEF EndTx, IInv, TxInv
<1>3. Pending("WAITFORRW1", 0)' /\ setMacState' # <<>>
  BY <1>2, Singleton DEF EndTx, Pending
<1> QED BY <1>1, <1>2, <1>3 DEF EndTx, PhaseInv, RW1Over, WindowsOver

\* A frame that begins changes nothing in the MAC.
LEMMA StartRxPhase ==
  ASSUME PhaseInv, NEW frame, NEW t, StartRx(frame, t)
  PROVE  PhaseInv'
BY DEF StartRx, mac, PhaseInv, RW1Over, WindowsOver

\* Time passes: the clock and the preamble check together.
LEMMA TickPhase ==
  ASSUME IInv, PhaseInv, Tick
  PROVE  PhaseInv'
<1>1. /\ TypeOK /\ sinceUplink \in Nat /\ preambleCheck \in Timers /\ preambleCheck # 0
      /\ macState' = macState /\ preambleCheck' = After(preambleCheck)
      /\ sinceUplink' = IF sinceUplink <= ReceiveDelay2 THEN sinceUplink + 1
                                                        ELSE sinceUplink
  BY DEF IInv, TypeOK, Tick, TimerDue
<1>2. /\ preambleCheck' = NotRunning <=> preambleCheck = NotRunning
      /\ preambleCheck # NotRunning => preambleCheck' = preambleCheck - 1
      /\ preambleCheck # NotRunning => preambleCheck \in Nat
  BY <1>1, AfterFacts, TimerType
<1>3. setMacState' = <<>> => setMacState = <<>>
  <2>1. setMacState \in Seq(StateEvents)
    BY <1>1 DEF TypeOK
  <2> QED BY <2>1 DEF Tick
<1>4. RW1Over' => RW1Over
  BY <1>1, <1>2, <1>3 DEF RW1Over, WindowsOver
<1>5. sinceUplink' >= sinceUplink
  BY <1>1
<1>6. ASSUME macState = "RW1", preambleCheck # NotRunning
      PROVE  sinceUplink' + preambleCheck' = ReceiveDelay1 + PreambleTime
  <2>1. sinceUplink + preambleCheck = ReceiveDelay1 + PreambleTime
    BY <1>6 DEF PhaseInv
  <2> QED BY <1>1, <1>2, <1>6, <2>1, LinkTimes
<1> QED BY <1>1, <1>2, <1>4, <1>5, <1>6, LinkTimes DEF PhaseInv

-----------------------------------------------------------------------------
(***************************************************************************)
(* What these steps mean for an exchange.                                  *)
(***************************************************************************)
\* The device starts no transmission but from MAC_IDLE, and leaves its windows
\* after RECEIVE_DELAY2 or because it was answered in RW1.
LEMMA AloneLeaves ==
  ASSUME IInv, ClockInv, Alone
  PROVE  /\ endTx' = endTx \/ (macState = "IDLE" /\ endTx' \in AirTimes)
         /\ WindowsOver' => \/ WindowsOver
                            \/ sinceUplink > ReceiveDelay2
                            \/ macState = "RW1" /\ Pending("IDLE", 0)
         /\ rx' = rx \/ rx' = NoRx
         /\ macState' = "RW1" /\ Pending("IDLE", 0)' =>
              \/ macState = "RW1" /\ Pending("IDLE", 0)
              \/ rx.left # NotRunning /\ rx.frame # "other"
<1>0. /\ TypeOK /\ sinceUplink \in Nat /\ macState \in MacStates
      /\ Pending("IDLE", 0) => setMacState # <<>>
  BY Singleton DEF IInv, TypeOK, Pending
<1>1. CASE StateChange
  <2>1. endTx' = endTx \/ (macState = "IDLE" /\ endTx' \in AirTimes)
    <3>1. CASE EnterTx
      <4>1. macState = "IDLE" /\ txPkt # NoPkt /\ Fires("TX")
        BY <3>1, FiresFacts DEF EnterTx
      <4>2. Head(txQueue) \in Elements
        BY <1>0, <4>1, TailLemma DEF IInv, QueueInv, TypeOK
      <4> QED BY <3>1, <4>1, <4>2, ElementType DEF EnterTx
    <3> QED BY <1>1, <3>1, StateChangeFacts
  <2>2. macState \in {"RW2", "ACK_TIMEOUT"} /\ setMacState # <<>>
          => sinceUplink > ReceiveDelay2
    BY <1>0, Clock DEF ClockInv, FreshWindow
  <2>3. WindowsOver' => \/ WindowsOver
                        \/ sinceUplink > ReceiveDelay2
                        \/ macState = "RW1" /\ Pending("IDLE", 0)
    BY <1>0, <1>1, <2>2, StateChangeFacts DEF WindowsOver
  <2>4. ~(macState' = "RW1" /\ Pending("IDLE", 0)')
    <3>1. Pending("IDLE", 0)' => setMacState' # <<>>
      BY Singleton DEF Pending
    <3> QED BY <1>1, <3>1, StateChangeFacts
  <2> QED BY <1>1, <2>1, <2>3, <2>4, StateChangeFacts
<1>2. CASE CheckPhyPreamble \/ AckTimeoutExpired \/ EndRxDropped \/ EndRxAccepted
  <2>1. macState' = macState /\ endTx' = endTx /\ (rx' = rx \/ rx' = NoRx)
    BY <1>2, TimerFacts
  <2>2. WindowsOver' => WindowsOver
    BY <1>0, <1>2, TimerFacts DEF WindowsOver
  <2>3. ASSUME macState = "RW1", Pending("IDLE", 0)', ~EndRxAccepted
        PROVE  Pending("IDLE", 0)
    <3>1. UNCHANGED setMacState \/ CloseRW
      BY <1>2, <2>3 DEF CheckPhyPreamble, AckTimeoutExpired, EndRxDropped
    <3>2. ASSUME CloseRW PROVE FALSE
      <4>1. setMacState' = Append(setMacState, Event("WAITFORRW2", 0))
        BY <2>3, <3>2 DEF CloseRW, AfterWindow
      <4>2. setMacState \in Seq(StateEvents) /\ setMacState' = <<Event("IDLE", 0)>>
        BY <1>0, <2>3 DEF TypeOK, Pending
      <4>3. setMacState'[Len(setMacState')] = Event("WAITFORRW2", 0)
        BY <4>1, <4>2
      <4>4. setMacState'[Len(setMacState')] = Event("IDLE", 0)
        BY <4>2, Singleton
      <4> QED BY <4>3, <4>4, EventFields
    <3> QED BY <2>3, <3>1, <3>2 DEF Pending
  <2>4. EndRxAccepted => rx.left # NotRunning /\ rx.frame # "other"
    BY DEF EndRxAccepted, EndRxDue, NotRunning
  <2> QED BY <1>0, <2>1, <2>2, <2>3, <2>4
<1>3. CASE SomeSend \/ \E sb \in SubBands : SubBandTimerExpired(sb)
  <2>1. UNCHANGED <<macState, endTx, rx>>
        /\ (macState # "IDLE" => UNCHANGED setMacState)
    BY <1>3, QueueSteps
  <2> QED BY <2>1 DEF WindowsOver, Pending
<1> QED BY <1>1, <1>2, <1>3 DEF Alone

\* A device on its way to a window stays on it.
LEMMA AloneOnTrack ==
  ASSUME IInv, ClockInv, PhaseInv, Alone, OnTrack,
         macState = "RW2" => preambleCheck > 0
  PROVE  /\ OnTrack'
         /\ macState' = "RW2" =>
              \/ macState = "RW2" /\ preambleCheck' = preambleCheck
              \/ sinceUplink = ReceiveDelay2 /\ preambleCheck' = PreambleTime
<1>0. /\ TypeOK /\ sinceUplink \in Nat /\ macState \in MacStates
      /\ sinceUplink' = sinceUplink /\ preambleCheck \in Timers
      /\ Pending("IDLE", 0) => setMacState # <<>>
      /\ rx = NoRx /\ rx.left = NotRunning
  BY Singleton, AloneIsNext, NoRxType DEF IInv, TypeOK, Pending, OnTrack
<1>1. macState = "RW1" => sinceUplink <= ReceiveDelay2
  BY <1>0, LinkTimes DEF OnTrack
<1>2. CASE StateChange
  <2>0. Pending("IDLE", 0)' => setMacState' # <<>>
    BY Singleton DEF Pending
  <2>1. ~EnterIdle /\ macState # "IDLE"
    BY <1>0, <1>2, StateChangeFacts DEF OnTrack, EnterIdle, Fires, Pending
  <2>2. macState' # "ACK_TIMEOUT"
    BY <1>0, <1>2, <2>1, StateChangeFacts DEF OnTrack
  <2>3. macState' \in {"WAITFORRW1", "RW1", "WAITFORRW2", "RW2"}
    BY <1>0, <1>2, <2>1, <2>2, StateChangeFacts
  <2>4. macState' = "RW2" => /\ setMacState' = <<>>
                             /\ sinceUplink = ReceiveDelay2
                             /\ preambleCheck' = PreambleTime
    BY <1>0, <1>1, <1>2, <2>1, StateChangeFacts, LinkTimes
  <2>5. macState' = "RW1" => /\ setMacState' = <<>> /\ sinceUplink = ReceiveDelay1
    BY <1>0, <1>2, <2>1, StateChangeFacts
  <2> QED BY <1>0, <1>2, <2>0, <2>3, <2>4, <2>5, StateChangeFacts, LinkTimes,
             TimerType DEF OnTrack
<1>3. CASE CheckPhyPreamble \/ AckTimeoutExpired \/ EndRxDropped \/ EndRxAccepted
  <2>1. ~EndRxDropped /\ ~EndRxAccepted
    BY <1>0, TimerType DEF EndRxDropped, EndRxAccepted, EndRxDue
  <2>2. macState' = macState /\ rx' = NoRx
    BY <1>0, <1>3, <2>1, TimerFacts
  <2>3. ~(macState' = "RW1" /\ Pending("IDLE", 0)')
    BY <1>0, <1>3, <2>2, AloneLeaves DEF OnTrack
  <2>4. macState = "RW2" => setMacState' = setMacState /\ preambleCheck' = preambleCheck
    BY <1>0, <1>3, <2>1, TimerType DEF CheckPhyPreamble, AckTimeoutExpired
  <2>5. macState = "TX" => setMacState' = setMacState
    BY <1>3, TimerFacts
  <2> QED BY <1>0, <2>2, <2>3, <2>4, <2>5 DEF OnTrack
<1>4. CASE SomeSend \/ \E sb \in SubBands : SubBandTimerExpired(sb)
  <2>1. UNCHANGED <<macState, preambleCheck, rx, setMacState>>
    BY <1>4, QueueSteps DEF OnTrack
  <2> QED BY <1>0, <2>1 DEF OnTrack, Pending
<1> QED BY <1>2, <1>3, <1>4 DEF Alone

\* A request keeps the head of a queue that is not empty.
LEMMA SendHead ==
  ASSUME IInv, NEW p \in Pkts, NEW conf \in BOOLEAN, NEW sb \in SubBands,
         NEW t \in AirTimes, NEW n \in 1 .. MaxTransmissions, Send(p, conf, sb, t, n)
  PROVE  /\ txQueue # <<>> => Head(txQueue') = Head(txQueue)
         /\ \A i \in 1 .. Len(txQueue) : txQueue'[i] = txQueue[i]
         /\ Len(txQueue') = Len(txQueue) + 1
         /\ txQueue'[Len(txQueue) + 1].id = p
         /\ txPkt # p
<1> DEFINE e == [id |-> p, conf |-> conf, sb |-> sb, air |-> t, req |-> n, left |-> n]
<1>0. TypeOK /\ txQueue \in Seq(Elements) /\ (txPkt # NoPkt => txQueue # <<>>)
  BY DEF IInv, TypeOK, QueueInv
<1>1. e \in Elements /\ e.id = p
  BY Times DEF Elements
<1>2. txQueue' = Append(txQueue, e) /\ ~InQueue(p)
  BY DEF Send
<1>3. txPkt # p
  <2>1. CASE txPkt = NoPkt
    BY <2>1, PktsAssumption
  <2>2. CASE txPkt # NoPkt
    <3>1. 1 \in 1 .. Len(txQueue) /\ txQueue[1] = Head(txQueue)
      BY <1>0, <2>2
    <3> QED BY <1>2, <2>2, <3>1 DEF InQueue, IInv, QueueInv
  <2> QED BY <2>1, <2>2
<1> HIDE DEF e
<1> QED BY <1>0, <1>1, <1>2, <1>3, AppendLemma

\* Outside MAC_IDLE no frame starts to wait for its Ack, and none is repeated.
LEMMA AloneAwaits ==
  ASSUME IInv, Alone, AwaitsAck', macState' # "IDLE"
  PROVE  /\ AwaitsAck /\ UNCHANGED <<txPkt, retransmission>>
         /\ ~WindowsOver' => ~WindowsOver
<1>0. TypeOK /\ (txPkt # NoPkt => txQueue # <<>>)
  BY DEF IInv, QueueInv
<1>1. CASE StateChange
  <2>1. ~EnterIdle
    BY DEF EnterIdle
  <2>2. UNCHANGED <<txQueue, txPkt, retransmission>>
    BY <1>1, <2>1, StateChangeFacts
  <2>3. ~WindowsOver' => ~WindowsOver
    <3>1. EnterTx => WindowsOver'
      BY FiresAlone DEF EnterTx, WindowsOver
    <3> QED BY <1>1, <2>1, <3>1, StateChangeFacts DEF WindowsOver
  <2> QED BY <2>2, <2>3 DEF AwaitsAck
<1>2. CASE CheckPhyPreamble \/ AckTimeoutExpired \/ EndRxDropped \/ EndRxAccepted
  <2>1. ~WindowsOver' => ~WindowsOver
    <3>1. macState' = macState /\ (macState = "TX" => setMacState' = setMacState)
      BY <1>2, TimerFacts
    <3> QED BY <3>1 DEF WindowsOver
  <2>2. CASE UNCHANGED <<txQueue, txPkt, retransmission>>
    BY <2>1, <2>2 DEF AwaitsAck
  <2>3. CASE EndRxAccepted
    <3>1. UNCHANGED queue \/ txPkt' = NoPkt
      BY <2>3 DEF EndRxAccepted
    <3> QED BY <2>1, <3>1 DEF AwaitsAck, queue
  <2> QED BY <1>2, <2>2, <2>3, TimerFacts
<1>3. CASE SomeSend \/ \E sb \in SubBands : SubBandTimerExpired(sb)
  <2>1. /\ macState # "IDLE" /\ macState' = macState
        /\ UNCHANGED <<setMacState, txPkt, retransmission>>
    BY <1>3, QueueSteps
  <2>2. CASE SomeSend
    <3>1. txPkt # NoPkt => Head(txQueue') = Head(txQueue)
      BY <1>0, <2>2, SendHead DEF SomeSend
    <3> QED BY <2>1, <3>1 DEF AwaitsAck, WindowsOver
  <2>3. ASSUME NEW sb \in SubBands, SubBandTimerExpired(sb)
        PROVE  FALSE
    BY <2>1, <2>3, TimerType DEF IInv, SubBandInv, SubBandTimerExpired
  <2> QED BY <1>3, <2>2, <2>3
<1> QED BY <1>1, <1>2, <1>3 DEF Alone

\* A frame that starts to wait for its Ack is about to be transmitted for the
\* first time, unless one that already waited is given up or repeated.
LEMMA AloneFirst ==
  ASSUME IInv, Alone, AwaitsAck', macState' = "IDLE",
         AwaitsAck => /\ ~EnterIdle /\ retransmission = 0
                      /\ macState = "IDLE" => setMacState # <<>>
  PROVE  retransmission' = 0 /\ setMacState' # <<>>
<1>0. /\ TypeOK /\ QueueInv /\ (txPkt # NoPkt => txQueue # <<>>)
      /\ (txPkt = NoPkt => retransmission = 0)
  BY DEF IInv, QueueInv, AttemptsCounted
<1>1. ASSUME NEW elements, NEW pending, NEW timers, txPkt = NoPkt,
             CheckQueue(elements, txPkt, pending, timers), UNCHANGED retransmission
      PROVE  retransmission' = 0 /\ setMacState' # <<>>
  <2>1. txPkt' # NoPkt /\ retransmission' = 0
    BY <1>0, <1>1 DEF AwaitsAck
  <2>2. setMacState' = <<Event("TX", 0)>>
    BY <1>1, <2>1 DEF CheckQueue
  <2> QED BY <2>1, <2>2, Singleton
<1>2. ASSUME NEW pending, NEW timers, txPkt # NoPkt, ~Head(txQueue).conf,
             CheckRetransmission(pending, timers)
      PROVE  FALSE
  <2>1. ~Exhausted(Head(txQueue))
    BY <1>2 DEF Exhausted
  <2>2. UNCHANGED <<txQueue, txPkt>>
    BY <1>2, <2>1 DEF CheckRetransmission, queue
  <2> QED BY <1>2, <2>2 DEF AwaitsAck
<1>3. CASE EnterIdle
  <2>1. ~AwaitsAck
    BY <1>3
  <2>2. CASE txPkt = NoPkt
    BY <1>1, <1>3, <2>2 DEF EnterIdle
  <2>3. CASE txPkt # NoPkt
    BY <1>2, <1>3, <2>1, <2>3 DEF EnterIdle, AwaitsAck
  <2> QED BY <2>2, <2>3
<1>4. ASSUME NEW sb \in SubBands, SubBandTimerExpired(sb)
      PROVE  retransmission' = 0 /\ setMacState' # <<>>
  <2> DEFINE timers == [subBandTimers EXCEPT ![sb] = NotRunning]
  <2>0. macState = "IDLE" /\ (txPkt # NoPkt => ~Exhausted(Head(txQueue)))
    BY <1>4, TimerType DEF IInv, SubBandInv, IdleInv, SubBandTimerExpired, Exhausted
  <2>1. CASE txPkt = NoPkt
    BY <1>1, <1>4, <2>1 DEF SubBandTimerExpired
  <2>2. CASE txPkt # NoPkt /\ ~Head(txQueue).conf
    BY <1>2, <1>4, <2>2 DEF SubBandTimerExpired
  <2>3. CASE AwaitsAck
    <3>1. setMacState # <<>> /\ retransmission = 0
      BY <2>0, <2>3
    <3>2. CheckRetransmission(setMacState, timers)
      BY <1>4, <2>3 DEF SubBandTimerExpired, AwaitsAck
    <3>3. UNCHANGED retransmission /\ setMacState' = setMacState
      BY <2>0, <2>3, <3>1, <3>2 DEF CheckRetransmission, AwaitsAck, queue
    <3> QED BY <3>1, <3>3
  <2> QED BY <2>1, <2>2, <2>3 DEF AwaitsAck
<1>5. ASSUME NEW p \in Pkts, NEW conf \in BOOLEAN, NEW sb \in SubBands,
             NEW t \in AirTimes, NEW n \in 1 .. MaxTransmissions,
             Send(p, conf, sb, t, n)
      PROVE  retransmission' = 0 /\ setMacState' # <<>>
  <2> DEFINE e == [id |-> p, conf |-> conf, sb |-> sb, air |-> t, req |-> n, left |-> n]
  <2>1. /\ CheckQueue(Append(txQueue, e), txPkt, setMacState, subBandTimers)
        /\ UNCHANGED retransmission /\ macState' = macState
    BY <1>5 DEF Send
  <2>2. CASE txPkt = NoPkt
    BY <1>1, <2>1, <2>2
  <2>3. CASE txPkt # NoPkt
    <3>1. txPkt' = txPkt /\ setMacState' = setMacState
      BY <2>1, <2>3, CheckQueueNotReady
    <3>2. AwaitsAck
      BY <1>0, <1>5, <2>3, <3>1, SendHead DEF AwaitsAck
    <3> QED BY <2>1, <3>1, <3>2
  <2> QED BY <2>2, <2>3
<1>6. CASE CheckPhyPreamble \/ AckTimeoutExpired \/ EndRxDropped \/ EndRxAccepted
  <2>1. macState = "IDLE"
    BY <1>6, TimerFacts
  <2>2. ~EndRxDropped /\ ~EndRxAccepted /\ ~AckTimeoutExpired
    BY <2>1, RxDueFacts, TimerType DEF EndRxDropped, EndRxAccepted, EndRxDue,
       AckTimeoutExpired, IInv, IdleInv
  <2>3. UNCHANGED <<txQueue, txPkt, retransmission, setMacState>>
    BY <1>6, <2>1, <2>2, TimerFacts
  <2>4. AwaitsAck
    BY <2>3 DEF AwaitsAck
  <2> QED BY <2>1, <2>3, <2>4
<1>7. StateChange => EnterIdle
  BY DEF StateChange, EnterTx, EnterWaitForRW1, EnterWindow, EnterWaitForRW2,
     MissRW2, EnterAckTimeout
<1> QED BY <1>3, <1>4, <1>5, <1>6, <1>7 DEF Alone, SomeSend

-----------------------------------------------------------------------------
(***************************************************************************)
(* A confirmed packet has no outcome before it leaves the queue.           *)
(***************************************************************************)
\* The end of a transmission reports an unconfirmed frame only.
LEMMA EndTxWait ==
  ASSUME IInv, ToldInv, ConfirmedWait, EndTx
  PROVE  ConfirmedWait'
<1> DEFINE e == Head(txQueue)
<1>1. txQueue # <<>> /\ e.left > 0 /\ TypeOK /\ Distinct
  <2>1. endTx # NotRunning
    BY DEF EndTx, NotRunning
  <2>2. txPkt # NoPkt /\ e.left > 0
    BY <2>1, EndTxPhase DEF IInv, TxInv
  <2> QED BY <2>2 DEF IInv, QueueInv, ToldInv
<1>2. /\ Len(txQueue) \in Nat /\ 1 \in 1 .. Len(txQueue) /\ e = txQueue[1]
      /\ e \in Elements /\ e.id \in Pkts
  BY <1>1, TailLemma, ElementType DEF TypeOK
<1>3. \A i \in 2 .. Len(txQueue) : outcome'[txQueue[i].id] = outcome[txQueue[i].id]
  <2> SUFFICES ASSUME NEW i \in 2 .. Len(txQueue)
               PROVE  outcome'[txQueue[i].id] = outcome[txQueue[i].id]
    OBVIOUS
  <2>1. i \in 1 .. Len(txQueue) /\ i # 1
    BY <1>2
  <2>2. txQueue[i].id # e.id /\ txQueue[i].id \in Pkts
    <3>1. txQueue[i] \in Elements
      BY <1>1, <2>1 DEF TypeOK
    <3> QED BY <1>1, <1>2, <2>1, <3>1, ElementType DEF Distinct
  <2> QED BY <1>1, <1>2, <2>2 DEF EndTx, TypeOK
<1>4. CASE txQueue' = Tail(txQueue)
  <2>1. /\ Len(txQueue') = Len(txQueue) - 1
        /\ \A i \in 1 .. Len(txQueue') : txQueue'[i] = txQueue[i + 1]
    BY <1>1, <1>4, TailLemma DEF TypeOK
  <2> SUFFICES ASSUME NEW i \in 1 .. Len(txQueue'), txQueue'[i].conf
               PROVE  outcome'[txQueue'[i].id] = "waiting"
    BY DEF ConfirmedWait
  <2>2. i + 1 \in 2 .. Len(txQueue) /\ i + 1 \in 1 .. Len(txQueue)
        /\ txQueue'[i] = txQueue[i + 1]
    BY <1>2, <2>1
  <2>3. outcome[txQueue[i + 1].id] = "waiting"
    BY <2>2 DEF ConfirmedWait
  <2> QED BY <1>3, <2>2, <2>3
<1>5. CASE txQueue' = OneAttemptLess(txQueue)
  <2>1. /\ Len(txQueue') = Len(txQueue)
        /\ txQueue'[1].id = e.id /\ txQueue'[1].conf = e.conf
        /\ \A i \in 2 .. Len(txQueue) : txQueue'[i] = txQueue[i]
    BY <1>1, <1>5, DecLemma, TailLemma DEF TypeOK
  <2> SUFFICES ASSUME NEW i \in 1 .. Len(txQueue'), txQueue'[i].conf
               PROVE  outcome'[txQueue'[i].id] = "waiting"
    BY DEF ConfirmedWait
  <2>2. CASE i = 1
    <3>1. e.conf /\ txQueue'[i].id = e.id
      BY <2>1, <2>2
    <3>2. outcome' = outcome
      BY <3>1 DEF EndTx
    <3> QED BY <1>2, <3>1, <3>2 DEF ConfirmedWait
  <2>3. CASE i # 1
    <3>1. i \in 2 .. Len(txQueue) /\ i \in 1 .. Len(txQueue)
      BY <1>2, <2>1, <2>3
    <3> QED BY <1>3, <2>1, <3>1 DEF ConfirmedWait
  <2> QED BY <2>2, <2>3
<1> QED BY <1>4, <1>5 DEF EndTx, RemoveFirstTxQElement

\* Every step of the device keeps it.
LEMMA NextWait ==
  ASSUME IInv, ToldInv, ConfirmedWait, [Next]_vars
  PROVE  ConfirmedWait'
<1>0. TypeOK /\ Distinct /\ (txPkt # NoPkt => txQueue # <<>>)
  BY DEF IInv, QueueInv, ToldInv
<1>1. CASE UNCHANGED <<txQueue, outcome, reported>>
  BY <1>1 DEF ConfirmedWait
<1>2. CASE EndTx
  BY <1>2, EndTxWait
<1>3. ASSUME NEW what, txQueue # <<>>, txQueue' = Tail(txQueue),
             outcome' = [outcome EXCEPT ![Head(txQueue).id] = what]
      PROVE  ConfirmedWait'
  <2>1. /\ Len(txQueue) \in Nat /\ Len(txQueue') = Len(txQueue) - 1
        /\ Head(txQueue) = txQueue[1]
        /\ \A i \in 1 .. Len(txQueue') : txQueue'[i] = txQueue[i + 1]
    BY <1>0, <1>3, TailLemma DEF TypeOK
  <2> SUFFICES ASSUME NEW i \in 1 .. Len(txQueue'), txQueue'[i].conf
               PROVE  outcome'[txQueue'[i].id] = "waiting"
    BY DEF ConfirmedWait
  <2>2. /\ i + 1 \in 1 .. Len(txQueue) /\ i + 1 # 1 /\ 1 \in 1 .. Len(txQueue)
        /\ txQueue'[i] = txQueue[i + 1]
    BY <2>1
  <2>3. txQueue[i + 1].id # Head(txQueue).id /\ txQueue[i + 1].id \in Pkts
    <3>1. txQueue[i + 1] \in Elements
      BY <1>0, <2>2 DEF TypeOK
    <3> QED BY <1>0, <2>1, <2>2, <3>1, ElementType DEF Distinct
  <2>4. outcome'[txQueue'[i].id] = outcome[txQueue[i + 1].id]
    BY <1>0, <1>3, <2>2, <2>3 DEF TypeOK
  <2> QED BY <2>2, <2>4 DEF ConfirmedWait
<1>4. CASE Completes
  BY <1>0, <1>3, <1>4 DEF Completes, EndRxAccepted, RemoveFirstTxQElement
<1>5. CASE GivesUp
  BY <1>0, <1>3, <1>5 DEF GivesUp, RemoveFirstTxQElement
<1>6. ASSUME NEW p \in Pkts, NEW conf \in BOOLEAN, NEW sb \in SubBands,
             NEW air \in AirTimes, NEW n \in 1 .. MaxTransmissions,
             Send(p, conf, sb, air, n)
      PROVE  ConfirmedWait'
  <2>1. /\ Len(txQueue) \in Nat /\ Len(txQueue') = Len(txQueue) + 1
        /\ \A i \in 1 .. Len(txQueue) : txQueue'[i] = txQueue[i]
        /\ txQueue'[Len(txQueue) + 1].id = p
        /\ ~InQueue(p) /\ outcome' = [outcome EXCEPT ![p] = "waiting"]
    BY <1>0, <1>6, SendHead DEF Send, TypeOK
  <2> SUFFICES ASSUME NEW i \in 1 .. Len(txQueue'), txQueue'[i].conf
               PROVE  outcome'[txQueue'[i].id] = "waiting"
    BY DEF ConfirmedWait
  <2>2. CASE i = Len(txQueue) + 1
    BY <1>0, <2>1, <2>2 DEF TypeOK
  <2>3. CASE i # Len(txQueue) + 1
    <3>1. i \in 1 .. Len(txQueue) /\ txQueue'[i] = txQueue[i]
      BY <2>1, <2>3
    <3>2. txQueue[i].id # p
      BY <2>1, <3>1 DEF InQueue
    <3>3. outcome'[txQueue[i].id] = outcome[txQueue[i].id]
      <4>1. txQueue[i].id \in Pkts
        BY <1>0, <3>1, ElementType DEF TypeOK
      <4> QED BY <1>0, <2>1, <3>2, <4>1 DEF TypeOK
    <3> QED BY <3>1, <3>3 DEF ConfirmedWait
  <2> QED BY <2>2, <2>3
<1> QED BY <1>1, <1>2, <1>4, <1>5, <1>6, WhoServes

\* A packet in flight that waits for its Ack has no outcome yet.
LEMMA InFlightWaits ==
  ASSUME IInv, ConfirmedWait, AwaitsAck
  PROVE  outcome[txPkt] = "waiting" /\ Head(txQueue).id = txPkt /\ txPkt \in Pkts
<1>1. TypeOK /\ txQueue # <<>> /\ Head(txQueue).id = txPkt /\ Head(txQueue).conf
      /\ txPkt \in Pkts
  BY DEF IInv, QueueInv, AwaitsAck, TypeOK
<1>2. 1 \in 1 .. Len(txQueue) /\ Head(txQueue) = txQueue[1]
  BY <1>1 DEF TypeOK
<1> QED BY <1>1, <1>2 DEF ConfirmedWait

-----------------------------------------------------------------------------
(***************************************************************************)
(* LinkInv, first under the steps of the device alone.                     *)
(***************************************************************************)
ExchangeIInv ==
  /\ IInv /\ ClockInv /\ ToldInv
  /\ PhaseInv /\ ConfirmedWait
  /\ ExchangeTypeOK
  /\ LinkInv /\ UplinkNamed /\ NothingFails

\* The timers of the link as numbers.
LEMMA LinkTypes ==
  ASSUME ExchangeTypeOK
  PROVE  /\ uplink.left # NotRunning => uplink.left \in 0 .. Delay
         /\ reply.left # NotRunning => reply.left \in 0 .. Delay
         /\ rw1Timer # NotRunning => rw1Timer \in 0 .. ReceiveDelay1
         /\ rw2Timer # NotRunning => rw2Timer \in 0 .. ReceiveDelay2
         /\ reply.window \in {"RW1", "RW2"} /\ reply.frame \in Frames
         /\ reply.left # NotRunning => Replying("RW1") \/ Replying("RW2")
BY DEF ExchangeTypeOK, Replying

\* The uplink, the RW1 timer and a reply in RW1 come before the preamble check of
\* that window is over.
LEMMA BeforeRW1Over ==
  ASSUME ExchangeIInv, uplink.left # NotRunning \/ rw1Timer # NotRunning \/ Replying("RW1")
  PROVE  /\ sinceUplink \in Nat
         /\ sinceUplink < ReceiveDelay1 + PreambleTime
         /\ sinceUplink < ReceiveDelay2
         /\ ~RW1Over
<1>1. sinceUplink \in Nat
  BY DEF ExchangeIInv, IInv, TypeOK
<1>2. sinceUplink < ReceiveDelay1 + PreambleTime
  <2>1. /\ uplink.left # NotRunning => uplink.left \in 0 .. Delay
        /\ rw1Timer # NotRunning => rw1Timer \in 0 .. ReceiveDelay1
        /\ Replying("RW1") => reply.left \in 0 .. Delay
    BY LinkTypes DEF ExchangeIInv, Replying
  <2>2. /\ uplink.left # NotRunning => sinceUplink + uplink.left = Delay
        /\ rw1Timer # NotRunning => sinceUplink + rw1Timer = ReceiveDelay1 + Delay
        /\ Replying("RW1") => sinceUplink + reply.left = ReceiveDelay1 + 2 * Delay
    BY DEF ExchangeIInv, LinkInv, ServerTimes
  <2>3. uplink.left # NotRunning => sinceUplink < ReceiveDelay1 + PreambleTime
    BY <1>1, <2>1, <2>2, LinkTimes
  <2>4. rw1Timer # NotRunning => sinceUplink < ReceiveDelay1 + PreambleTime
    BY <1>1, <2>1, <2>2, LinkTimes
  <2>5. Replying("RW1") => sinceUplink < ReceiveDelay1 + PreambleTime
    BY <1>1, <2>1, <2>2, LinkTimes
  <2> QED BY <2>3, <2>4, <2>5
<1>3. ~RW1Over
  BY <1>1, <1>2, LinkTimes DEF ExchangeIInv, PhaseInv
<1> QED BY <1>1, <1>2, <1>3, LinkTimes

\* The window of the reply in RW2 and its timer, past RECEIVE_DELAY2.
LEMMA PastRW2 ==
  ASSUME ExchangeIInv, Busy, sinceUplink > ReceiveDelay2
  PROVE  /\ uplink.left = NotRunning /\ rw1Timer = NotRunning
         /\ rw2Timer # NotRunning => rw2Timer \in Nat /\ rw2Timer < Delay
         /\ reply.left # NotRunning => Replying("RW2") /\ reply.left \in Nat
                                       /\ reply.left < 2 * Delay
<1>1. sinceUplink \in Nat /\ ServerTimes /\ ExchangeTypeOK
  BY DEF ExchangeIInv, IInv, TypeOK, LinkInv
<1>2. ~(uplink.left # NotRunning \/ rw1Timer # NotRunning \/ Replying("RW1"))
  BY <1>1, BeforeRW1Over, LinkTimes
<1>3. rw2Timer # NotRunning => rw2Timer \in Nat /\ rw2Timer < Delay
  <2> SUFFICES ASSUME rw2Timer # NotRunning PROVE rw2Timer \in Nat /\ rw2Timer < Delay
    OBVIOUS
  <2>1. rw2Timer \in Nat
    BY <1>1, LinkTypes, LinkTimes
  <2>2. sinceUplink + rw2Timer = ReceiveDelay2 + Delay \/ rw2Timer < Delay
    BY <1>1 DEF ServerTimes
  <2> QED BY <1>1, <2>1, <2>2, LinkTimes
<1>4. reply.left # NotRunning => Replying("RW2") /\ reply.left \in Nat
                                 /\ reply.left < 2 * Delay
  <2> SUFFICES ASSUME reply.left # NotRunning
               PROVE  Replying("RW2") /\ reply.left \in Nat /\ reply.left < 2 * Delay
    OBVIOUS
  <2>1. Replying("RW2") /\ reply.left \in Nat
    BY <1>1, <1>2, LinkTypes, LinkTimes
  <2>2. sinceUplink + reply.left = ReceiveDelay2 + 2 * Delay \/ reply.left < 2 * Delay
    BY <1>1, <2>1 DEF ServerTimes
  <2> QED BY <1>1, <2>1, <2>2, LinkTimes
<1> QED BY <1>2, <1>3, <1>4

\* When an uplink ends, the exchange of the one before is over on both sides.
LEMMA Apart ==
  ASSUME ExchangeIInv, endTx = 0
  PROVE  ~Busy
<1> SUFFICES ASSUME Busy PROVE FALSE
  OBVIOUS
<1>1. endTx # NotRunning /\ IInv
  BY DEF NotRunning, ExchangeIInv
<1>2. macState = "TX"
  BY <1>1, StateInvariants DEF RadioFollowsMac
<1>3. WindowsOver
  <2>1. ~(Pending("WAITFORRW1", 0) /\ endTx = NotRunning)
    BY <1>1
  <2> QED BY <1>1, <1>2, <2>1 DEF IInv, TxInv, WindowsOver
<1>4. sinceUplink > ReceiveDelay2
  BY <1>3 DEF ExchangeIInv, LinkInv, DoneBeforeUplink
<1>5. rw2Timer = NotRunning
  BY <1>1, <1>4, PastRW2, LinkTimes DEF ExchangeIInv, LinkInv, DoneBeforeUplink
<1>6. reply.left = NotRunning
  BY <1>1, <1>4, PastRW2, LinkTimes DEF ExchangeIInv, LinkInv, DoneBeforeUplink
<1> QED BY <1>4, <1>5, <1>6, PastRW2 DEF Busy

\* The device alone does not end the windows before the exchange.
LEMMA AloneDone ==
  ASSUME ExchangeIInv, Alone, UNCHANGED <<rw1Timer, rw2Timer, uplink, reply>>
  PROVE  DoneBeforeUplink'
<1>0. /\ IInv /\ ClockInv /\ DoneBeforeUplink /\ sinceUplink \in Nat
      /\ sinceUplink' = sinceUplink /\ (Busy' <=> Busy)
      /\ rw2Timer' = rw2Timer /\ reply' = reply
  BY AloneIsNext DEF ExchangeIInv, LinkInv, Busy, IInv, TypeOK
<1>1. WindowsOver' /\ Busy' => sinceUplink' > ReceiveDelay2
  BY <1>0, AloneLeaves DEF DoneBeforeUplink
<1>2. macState' = "RW1" /\ Pending("IDLE", 0)' => ~Busy'
  BY <1>0, AloneLeaves DEF DoneBeforeUplink
<1>3. rx'.left # NotRunning /\ rx'.frame # "other" => ~Busy'
  BY <1>0, AloneLeaves, NoRxType DEF DoneBeforeUplink
<1>4. ASSUME endTx' # NotRunning
      PROVE  /\ rw2Timer # NotRunning => rw2Timer + Delay < endTx'
             /\ reply.left # NotRunning => reply.left < endTx'
  <2>1. CASE endTx' = endTx
    BY <1>0, <1>4, <2>1 DEF DoneBeforeUplink
  <2>2. CASE macState = "IDLE" /\ endTx' \in AirTimes
    <3>1. Busy => sinceUplink > ReceiveDelay2
      BY <1>0, <2>2 DEF DoneBeforeUplink, WindowsOver
    <3>2. endTx' \in Nat /\ 2 * Delay < endTx'
      BY <2>2, LinkTimes
    <3>3. rw2Timer # NotRunning => rw2Timer \in Nat /\ rw2Timer < Delay
      BY <3>1, PastRW2 DEF Busy
    <3>4. reply.left # NotRunning => reply.left \in Nat /\ reply.left < 2 * Delay
      BY <3>1, PastRW2 DEF Busy
    <3> QED BY <3>2, <3>3, <3>4, LinkTimes
  <2> QED BY <1>0, <2>1, <2>2, AloneLeaves
<1> QED BY <1>0, <1>1, <1>2, <1>3, <1>4 DEF DoneBeforeUplink

\* It stays on its way to the next window.
LEMMA AloneOnTime ==
  ASSUME ExchangeIInv, Alone, UNCHANGED <<rw1Timer, rw2Timer, uplink, reply, disturbed>>
  PROVE  OnTime'
<1> SUFFICES ASSUME ~disturbed, Busy
             PROVE  /\ OnTrack'
                    /\ macState' = "RW2" =>
                         /\ rw2Timer # NotRunning
                              => rw2Timer + PreambleTime = Delay + preambleCheck'
                         /\ reply.left # NotRunning
                              => reply.left + PreambleTime = 2 * Delay + preambleCheck'
  BY DEF OnTime, Busy
<1>0. /\ IInv /\ ClockInv /\ PhaseInv /\ OnTrack /\ OnTime /\ ServerTimes /\ ExchangeTypeOK
      /\ sinceUplink \in Nat /\ preambleCheck \in Timers
  BY DEF ExchangeIInv, LinkInv, OnTime, IInv, TypeOK
<1>1. macState = "RW2" => preambleCheck > 0
  <2> SUFFICES ASSUME macState = "RW2" PROVE preambleCheck > 0
    OBVIOUS
  <2>1. uplink.left = NotRunning /\ rw1Timer = NotRunning
    BY BeforeRW1Over DEF RW1Over
  <2>2. /\ rw2Timer # NotRunning
             => rw2Timer + PreambleTime = Delay + preambleCheck
        /\ reply.left # NotRunning
             => reply.left + PreambleTime = 2 * Delay + preambleCheck
    BY <1>0 DEF OnTime
  <2>3. preambleCheck \in Int
    BY <1>0, TimerType
  <2>4. rw2Timer # NotRunning => preambleCheck > 0
    BY <1>0, <2>2, <2>3, LinkTypes, LinkTimes
  <2>5. reply.left # NotRunning => preambleCheck > 0
    BY <1>0, <2>2, <2>3, LinkTypes, LinkTimes
  <2> QED BY <2>1, <2>4, <2>5 DEF Busy
<1>2. /\ OnTrack'
      /\ macState' = "RW2" =>
           \/ macState = "RW2" /\ preambleCheck' = preambleCheck
           \/ sinceUplink = ReceiveDelay2 /\ preambleCheck' = PreambleTime
  BY <1>0, <1>1, AloneOnTrack
<1>3. ASSUME sinceUplink = ReceiveDelay2
      PROVE  /\ rw2Timer # NotRunning => rw2Timer = Delay
             /\ reply.left # NotRunning => reply.left = 2 * Delay
  <2>1. rw2Timer # NotRunning => rw2Timer = Delay
    BY <1>0, <1>3, LinkTypes, LinkTimes DEF ServerTimes
  <2>2. ~Replying("RW1")
    BY <1>3, BeforeRW1Over, LinkTimes
  <2>3. reply.left # NotRunning => reply.left = 2 * Delay
    BY <1>0, <1>3, <2>2, LinkTypes, LinkTimes DEF ServerTimes
  <2> QED BY <2>1, <2>3
<1>4. CASE macState' = "RW2" /\ sinceUplink = ReceiveDelay2 /\ preambleCheck' = PreambleTime
  BY <1>2, <1>3, <1>4, LinkTimes
<1>5. CASE macState' = "RW2" /\ macState = "RW2" /\ preambleCheck' = preambleCheck
  BY <1>0, <1>2, <1>5 DEF OnTime
<1> QED BY <1>2, <1>4, <1>5

\* What it waits for is still under way.
LEMMA AloneAckDue ==
  ASSUME ExchangeIInv, Alone, UNCHANGED <<rw1Timer, rw2Timer, setAck, uplink, reply>>,
         txPkt \in heard => txPkt \in heard'
  PROVE  AckDue'
<1> SUFFICES ASSUME AwaitsAck', ~WindowsOver'
             PROVE  /\ uplink.left # NotRunning => uplink.conf /\ uplink.id = txPkt'
                    /\ rw1Timer # NotRunning \/ rw2Timer # NotRunning
                         => setAck /\ txPkt' \in heard'
                    /\ reply.left # NotRunning => reply.frame = "ack" /\ txPkt' \in heard'
                    /\ rx'.left # NotRunning /\ rx'.frame = "ack" => txPkt' \in heard'
  BY DEF AckDue
<1>0. IInv /\ ClockInv /\ AckDue
  BY DEF ExchangeIInv, LinkInv
<1>1. AwaitsAck /\ ~WindowsOver /\ txPkt' = txPkt
  BY <1>0, AloneAwaits DEF WindowsOver
<1>2. rx' = rx \/ rx' = NoRx
  BY <1>0, AloneLeaves
<1> QED BY <1>0, <1>1, <1>2, NoRxType DEF AckDue

\* On an ideal link the frame in flight has its Ack when the device goes to sleep.
LEMMA NotGivenUp ==
  ASSUME ExchangeIInv, ~lossy, EnterIdle
  PROVE  ~AwaitsAck
<1> SUFFICES ASSUME AwaitsAck PROVE FALSE
  OBVIOUS
<1>0. IInv /\ FirstAttempt /\ OnTime
  BY DEF ExchangeIInv, LinkInv
<1>1. /\ Pending("IDLE", 0) /\ macState \in {"RW1", "RW2", "ACK_TIMEOUT"}
      /\ rx = NoRx /\ setMacState # <<>>
  BY <1>0, FiresAlone, FiresFacts DEF EnterIdle, Pending, RadioIdle, Fires
<1>2. Busy /\ ~disturbed
  BY <1>0, <1>1, NoRxType DEF FirstAttempt, WindowsOver
<1>3. OnTrack
  BY <1>0, <1>2 DEF OnTime
<1> QED BY <1>1, <1>3 DEF OnTrack

\* On an ideal link it repeats nothing: a device that still waits for its Ack
\* when its windows are over has missed the answer.
LEMMA AloneFirstAttempt ==
  ASSUME ExchangeIInv, Alone,
         UNCHANGED <<rw1Timer, rw2Timer, setAck, uplink, reply, disturbed, lossy>>
  PROVE  FirstAttempt'
<1> SUFFICES ASSUME ~lossy
             PROVE  /\ ~disturbed
                    /\ AwaitsAck' =>
                         /\ retransmission' = 0
                         /\ macState' = "IDLE" => setMacState' # <<>>
                         /\ \/ WindowsOver'
                            \/ Busy
                            \/ rx'.left # NotRunning /\ rx'.frame = "ack"
  BY DEF FirstAttempt, Busy
<1>0. /\ IInv /\ ClockInv /\ FirstAttempt /\ OnTime /\ DoneBeforeUplink /\ TypeOK
      /\ rx \in [left : Timers, frame : Frames]
  BY DEF ExchangeIInv, LinkInv, IInv, TypeOK
<1>1. ~disturbed
  BY <1>0 DEF FirstAttempt
<1>2. EnterIdle => ~AwaitsAck
  BY NotGivenUp
<1>3. ASSUME AwaitsAck', macState' = "IDLE"
      PROVE  retransmission' = 0 /\ setMacState' # <<>>
  BY <1>0, <1>2, <1>3, AloneFirst DEF FirstAttempt
<1>4. ASSUME AwaitsAck', macState' # "IDLE"
      PROVE  /\ retransmission' = 0
             /\ WindowsOver' \/ Busy \/ (rx'.left # NotRunning /\ rx'.frame = "ack")
  <2>1. AwaitsAck /\ retransmission' = retransmission /\ (~WindowsOver' => ~WindowsOver)
    BY <1>0, <1>4, AloneAwaits
  <2>2. ~(EndRxAccepted /\ rx.frame = "ack")
    <3>1. EndRxAccepted /\ rx.frame = "ack" => txPkt' = NoPkt
      BY <2>1 DEF EndRxAccepted, AwaitsAck
    <3> QED BY <1>4, <3>1 DEF AwaitsAck
  <2>3. rx' = rx \/ rx.frame # "ack" \/ rx.left = NotRunning
    <3>1. StateChange => rx.left = NotRunning
      BY <1>0, StateChangeFacts, NoRxType
    <3>2. SomeSend \/ (\E sb \in SubBands : SubBandTimerExpired(sb)) => rx' = rx
      BY <1>0, QueueSteps
    <3>3. CheckPhyPreamble \/ AckTimeoutExpired => rx' = rx
      BY DEF CheckPhyPreamble, AckTimeoutExpired, phy
    <3> QED BY <2>2, <3>1, <3>2, <3>3 DEF Alone
  <2> QED BY <1>0, <2>1, <2>3 DEF FirstAttempt
<1> QED BY <1>1, <1>3, <1>4 DEF WindowsOver

\* The device alone keeps the link as it is.
LEMMA AloneLink ==
  ASSUME ExchangeIInv, Alone,
         UNCHANGED <<rw1Timer, rw2Timer, setAck, uplink, reply, disturbed, lossy>>,
         txPkt \in heard => txPkt \in heard'
  PROVE  LinkInv'
<1>1. OneStage' /\ ServerTimes'
  BY AloneIsNext DEF ExchangeIInv, LinkInv, OneStage, ServerTimes, Replying
<1> QED BY <1>1, AloneDone, AloneOnTime, AloneAckDue, AloneFirstAttempt DEF LinkInv

-----------------------------------------------------------------------------
(***************************************************************************)
(* LinkInv under the steps of the link.                                    *)
(***************************************************************************)
\* An uplink starts the next exchange when the last one is over.
LEMMA EndUplinkLink ==
  ASSUME ExchangeIInv, EndUplink, UNCHANGED lossy
  PROVE  LinkInv'
<1>0. /\ IInv /\ OneStage /\ FirstAttempt /\ ~Busy /\ EndTx /\ TypeOK
      /\ rw1Timer' = rw1Timer /\ rw2Timer' = rw2Timer /\ reply' = reply /\ heard' = heard
      /\ uplink' = [left |-> Delay, id |-> txPkt, conf |-> Head(txQueue).conf]
      /\ disturbed' = FALSE
  BY Apart DEF EndUplink, EndTx, server, ExchangeIInv, LinkInv, IInv
<1>1. /\ rw1Timer' = NotRunning /\ rw2Timer' = NotRunning /\ reply' = NoReply
      /\ reply'.left = NotRunning
      /\ uplink'.left = Delay /\ uplink'.left # NotRunning
      /\ uplink'.id = txPkt /\ uplink'.conf = Head(txQueue).conf
  BY <1>0, LinkTimes DEF Busy, OneStage, NotRunning
<1>2. /\ macState = "TX" /\ macState' = "TX" /\ setMacState = <<>> /\ setMacState' # <<>>
      /\ sinceUplink' = 0 /\ rx' = NoRx /\ rx'.left = NotRunning
      /\ ~WindowsOver' /\ endTx' = NotRunning
  BY <1>0, EndTxPhase, NoRxType DEF WindowsOver, EndTx
<1>3. OneStage'
  BY <1>1 DEF OneStage
<1>4. ServerTimes'
  BY <1>1, <1>2, LinkTimes DEF ServerTimes, Replying
<1>5. DoneBeforeUplink'
  BY <1>1, <1>2 DEF DoneBeforeUplink
<1>6. OnTime'
  BY <1>1, <1>2 DEF OnTime, OnTrack
<1>7. AwaitsAck' => AwaitsAck /\ txPkt' = txPkt /\ retransmission' = retransmission
  <2> SUFFICES ASSUME AwaitsAck'
               PROVE  AwaitsAck /\ txPkt' = txPkt /\ retransmission' = retransmission
    OBVIOUS
  <2>1. txPkt' # NoPkt /\ Head(txQueue').conf
    BY DEF AwaitsAck
  <2>2. txQueue' = OneAttemptLess(txQueue) /\ UNCHANGED <<txPkt, retransmission>>
    BY <1>0, <2>1 DEF EndTx
  <2>3. txQueue # <<>> /\ Head(txQueue).left > 0
    <3>1. endTx # NotRunning
      BY <1>0 DEF EndTx, NotRunning
    <3> QED BY <1>0, <1>2, <3>1 DEF IInv, TxInv, QueueInv
  <2>4. Head(txQueue').conf = Head(txQueue).conf
    BY <1>0, <2>2, <2>3, DecLemma DEF TypeOK
  <2> QED BY <2>1, <2>2, <2>4 DEF AwaitsAck
<1>8. AckDue'
  BY <1>1, <1>2, <1>7 DEF AckDue, AwaitsAck
<1>9. FirstAttempt'
  BY <1>0, <1>1, <1>2, <1>7 DEF FirstAttempt, Busy
<1> QED BY <1>3, <1>4, <1>5, <1>6, <1>8, <1>9 DEF LinkInv

\* What the start of a reception leaves alone.
LEMMA StartRxFacts ==
  ASSUME IInv, NEW frame, NEW t, StartRx(frame, t)
  PROVE  /\ UNCHANGED <<macState, setMacState, preambleCheck, sinceUplink, txQueue, txPkt,
                        retransmission, outcome, endTx>>
         /\ rx' = [left |-> t, frame |-> frame] /\ rx'.left = t /\ rx'.frame = frame
         /\ trxState = "RX_ON" /\ macState \in {"RW1", "RW2"}
         /\ (AwaitsAck' <=> AwaitsAck) /\ (WindowsOver' <=> WindowsOver)
         /\ Pending("IDLE", 0)' <=> Pending("IDLE", 0)
<1>1. /\ UNCHANGED <<macState, setMacState, preambleCheck, sinceUplink, txQueue, txPkt,
                     retransmission, outcome, endTx>>
      /\ rx' = [left |-> t, frame |-> frame] /\ trxState = "RX_ON"
  BY DEF StartRx, mac, queue
<1>2. macState \in {"RW1", "RW2"}
  BY <1>1 DEF IInv, IdleInv, TxInv, WaitInv, AckInv, TypeOK, MacStates
<1> QED BY <1>1, <1>2 DEF AwaitsAck, WindowsOver, Pending

\* Another frame disturbs the exchange.
LEMMA ForeignFrameLink ==
  ASSUME ExchangeIInv, ForeignFrame, UNCHANGED lossy
  PROVE  LinkInv'
<1>0. PICK t \in FrameTimes : StartRx("other", t)
  BY DEF ForeignFrame
<1>1. /\ IInv /\ LinkInv /\ lossy /\ lossy' = lossy /\ disturbed' = TRUE
      /\ UNCHANGED <<rw1Timer, rw2Timer, setAck, uplink, reply, heard>>
  BY DEF ForeignFrame, server, ExchangeIInv
<1>2. OneStage' /\ ServerTimes' /\ OnTime' /\ FirstAttempt'
  BY <1>0, <1>1, StartRxFacts DEF LinkInv, OneStage, ServerTimes, Replying, OnTime,
     FirstAttempt
<1>3. DoneBeforeUplink'
  BY <1>0, <1>1, StartRxFacts DEF LinkInv, DoneBeforeUplink, Busy
<1>4. AckDue'
  BY <1>0, <1>1, StartRxFacts DEF LinkInv, AckDue
<1> QED BY <1>2, <1>3, <1>4 DEF LinkInv

\* The steps of the server leave the device alone.
LEMMA DeviceStays ==
  ASSUME UNCHANGED vars
  PROVE  /\ WindowsOver' <=> WindowsOver
         /\ AwaitsAck' <=> AwaitsAck
         /\ OnTrack' <=> OnTrack
         /\ UNCHANGED <<macState, setMacState, preambleCheck, sinceUplink, rx, endTx, txPkt,
                        retransmission>>
         /\ Pending("IDLE", 0)' <=> Pending("IDLE", 0)
BY DEF vars, mac, queue, phy, rdc, WindowsOver, AwaitsAck, OnTrack, Pending

\* The arrival of an uplink starts the RW1 timer.
LEMMA HandleUSPacketLink ==
  ASSUME ExchangeIInv, HandleUSPacket, UNCHANGED lossy
  PROVE  LinkInv'
<1>0. /\ IInv /\ LinkInv /\ uplink.left = 0 /\ uplink.left # NotRunning
      /\ uplink' = NoUplink /\ uplink'.left = NotRunning
      /\ UNCHANGED vars /\ UNCHANGED <<rw2Timer, reply, disturbed, lossy>>
  BY DEF HandleUSPacket, ExchangeIInv, NoUplink, NotRunning
<1>1. Busy /\ reply.left = NotRunning /\ rw1Timer = NotRunning /\ rw2Timer = NotRunning
  BY <1>0 DEF LinkInv, OneStage, Busy
<1>2. sinceUplink \in Nat /\ sinceUplink = Delay /\ ~RW1Over
  BY <1>0, BeforeRW1Over, LinkTimes DEF LinkInv, ServerTimes
<1>3. CASE /\ setAck' = (setAck \/ uplink.conf) /\ rw1Timer' = ReceiveDelay1
           /\ heard' = heard \union {uplink.id}
  <2>1. rw1Timer' # NotRunning /\ Busy'
    BY <1>3, LinkTimes DEF NotRunning, Busy
  <2>2. OneStage' /\ ServerTimes'
    BY <1>0, <1>1, <1>2, <1>3, DeviceStays, LinkTimes
       DEF LinkInv, OneStage, ServerTimes, Replying
  <2>3. DoneBeforeUplink'
    BY <1>0, <1>1, <2>1, DeviceStays DEF LinkInv, DoneBeforeUplink
  <2>4. OnTime'
    BY <1>0, <1>1, <1>2, DeviceStays DEF LinkInv, OnTime, RW1Over
  <2>5. AckDue'
    BY <1>0, <1>1, <1>3, DeviceStays DEF LinkInv, AckDue
  <2>6. FirstAttempt'
    BY <1>0, <2>1, DeviceStays DEF LinkInv, FirstAttempt
  <2> QED BY <2>2, <2>3, <2>4, <2>5, <2>6 DEF LinkInv
<1>4. CASE lossy /\ UNCHANGED <<setAck, rw1Timer, heard>>
  <2>1. ~Busy'
    BY <1>0, <1>1, <1>4 DEF Busy
  <2>2. OneStage' /\ ServerTimes'
    BY <1>0, <1>1, <1>4, DeviceStays DEF LinkInv, OneStage, ServerTimes, Replying
  <2>3. DoneBeforeUplink' /\ OnTime'
    BY <1>0, <1>1, <1>4, <2>1, DeviceStays DEF LinkInv, DoneBeforeUplink, OnTime
  <2>4. AckDue' /\ FirstAttempt'
    BY <1>0, <1>1, <1>4, DeviceStays DEF LinkInv, AckDue, FirstAttempt
  <2> QED BY <2>2, <2>3, <2>4 DEF LinkInv
<1> QED BY <1>3, <1>4 DEF HandleUSPacket, OweAck

\* When the RW1 timer of the server expires, the device has not done with RW1.
LEMMA RW1TimerExpiredLink ==
  ASSUME ExchangeIInv, RW1TimerExpired, UNCHANGED lossy
  PROVE  LinkInv'
<1>0. /\ IInv /\ LinkInv /\ rw1Timer = 0 /\ rw1Timer # NotRunning
      /\ rw1Timer' = NotRunning /\ UNCHANGED vars
      /\ UNCHANGED <<uplink, heard, disturbed, lossy>>
  BY DEF RW1TimerExpired, ExchangeIInv, NotRunning
<1>1. /\ Busy /\ uplink.left = NotRunning /\ uplink = NoUplink /\ rw2Timer = NotRunning
      /\ reply.left = NotRunning /\ reply = NoReply
  BY <1>0 DEF LinkInv, OneStage, Busy
<1>2. sinceUplink \in Nat /\ sinceUplink = ReceiveDelay1 + Delay /\ ~RW1Over
  BY <1>0, BeforeRW1Over, LinkTimes DEF LinkInv, ServerTimes
<1>3. ~WindowsOver /\ endTx = NotRunning /\ macState # "RW2"
  <2>1. ~WindowsOver /\ macState # "RW2"
    BY <1>2 DEF RW1Over
  <2>2. endTx # NotRunning => macState = "TX" /\ setMacState = <<>>
    BY <1>0, StateInvariants DEF RadioFollowsMac, IInv, TxInv
  <2> QED BY <2>1, <2>2 DEF WindowsOver
<1>4. AwaitsAck => setAck /\ txPkt \in heard
  BY <1>0, <1>3 DEF LinkInv, AckDue
<1>5. CASE reply'.left # NotRunning /\ rw2Timer' = rw2Timer
  <2>0. /\ reply' = [left |-> Delay, window |-> "RW1", frame |-> reply'.frame]
        /\ reply'.left = Delay /\ reply'.window = "RW1"
        /\ reply'.frame = "ack" <=> setAck
    <3>1. reply' # reply
      BY <1>1, <1>5
    <3>2. SendDSPacket("RW1")
      BY <3>1 DEF RW1TimerExpired
    <3> QED BY <3>1, <3>2 DEF SendDSPacket
  <2>1. Busy' /\ rw2Timer' = NotRunning /\ uplink'.left = NotRunning
    BY <1>0, <1>1, <1>5 DEF Busy
  <2>2. OneStage' /\ ServerTimes'
    BY <1>0, <1>1, <1>2, <1>5, <2>0, <2>1, DeviceStays, LinkTimes
       DEF OneStage, ServerTimes, Replying
  <2>3. DoneBeforeUplink' /\ OnTime'
    BY <1>0, <1>1, <1>3, <2>1, DeviceStays DEF LinkInv, DoneBeforeUplink, OnTime
  <2>4. AckDue' /\ FirstAttempt'
    BY <1>0, <1>4, <2>0, <2>1, DeviceStays DEF LinkInv, AckDue, FirstAttempt
  <2> QED BY <2>2, <2>3, <2>4 DEF LinkInv
<1>6. CASE ~setAck /\ UNCHANGED <<setAck, reply, rw2Timer>>
  <2>1. ~Busy' /\ ~AwaitsAck
    BY <1>0, <1>1, <1>4, <1>6 DEF Busy
  <2>2. OneStage' /\ ServerTimes'
    BY <1>0, <1>1, <1>6, DeviceStays DEF OneStage, ServerTimes, Replying
  <2>3. DoneBeforeUplink' /\ OnTime'
    BY <1>0, <1>1, <1>3, <1>6, <2>1, DeviceStays DEF LinkInv, DoneBeforeUplink, OnTime
  <2>4. AckDue' /\ FirstAttempt'
    BY <1>0, <2>1, DeviceStays DEF LinkInv, AckDue, FirstAttempt
  <2> QED BY <2>2, <2>3, <2>4 DEF LinkInv
<1>7. CASE rw2Timer' = DelayToRW2 /\ UNCHANGED <<setAck, reply>>
  <2>1. /\ Busy' /\ rw2Timer' # NotRunning
        /\ rw2Timer' = ReceiveDelay2 - ReceiveDelay1
    BY <1>7, LinkTimes DEF DelayToRW2, Busy, NotRunning
  <2>2. OneStage'
    BY <1>0, <1>1, <1>7, <2>1 DEF OneStage
  <2>3. ServerTimes'
    BY <1>0, <1>1, <1>2, <1>7, <2>1, DeviceStays, LinkTimes DEF ServerTimes, Replying
  <2>4. DoneBeforeUplink' /\ OnTime'
    BY <1>0, <1>1, <1>3, <2>1, DeviceStays DEF LinkInv, DoneBeforeUplink, OnTime
  <2>5. AckDue' /\ FirstAttempt'
    BY <1>0, <1>1, <1>4, <1>7, <2>1, DeviceStays DEF LinkInv, AckDue, FirstAttempt
  <2> QED BY <2>2, <2>3, <2>4, <2>5 DEF LinkInv
<1>8. \/ UNCHANGED rw2Timer /\ reply'.left # NotRunning
      \/ ~setAck /\ UNCHANGED <<setAck, reply, rw2Timer>>
      \/ rw2Timer' = DelayToRW2 /\ UNCHANGED <<setAck, reply>>
  BY LinkTimes DEF RW1TimerExpired, SendDSPacket, NotRunning
<1> QED BY <1>5, <1>6, <1>7, <1>8

\* When the RW2 timer expires, the preamble check of RW2 has still to come.
LEMMA RW2TimerExpiredLink ==
  ASSUME ExchangeIInv, RW2TimerExpired, UNCHANGED lossy
  PROVE  LinkInv'
<1>0. /\ IInv /\ LinkInv /\ rw2Timer = 0 /\ rw2Timer # NotRunning
      /\ rw2Timer' = NotRunning /\ UNCHANGED vars
      /\ UNCHANGED <<rw1Timer, uplink, heard, disturbed, lossy>>
  BY DEF RW2TimerExpired, ExchangeIInv, NotRunning
<1>1. /\ Busy /\ uplink.left = NotRunning /\ uplink = NoUplink /\ rw1Timer = NotRunning
      /\ reply.left = NotRunning /\ reply = NoReply
  BY <1>0 DEF LinkInv, OneStage, Busy
<1>2. sinceUplink \in Nat /\ sinceUplink > ReceiveDelay2 /\ endTx \in Timers
      /\ preambleCheck \in Timers
  BY <1>0, LinkTimes DEF LinkInv, ServerTimes, IInv, TypeOK
<1>3. AwaitsAck /\ ~WindowsOver => setAck /\ txPkt \in heard
  BY <1>0 DEF LinkInv, AckDue
<1>4. CASE reply'.left # NotRunning
  <2>0. /\ reply'.left = Delay /\ reply'.window = "RW2"
        /\ reply'.frame = "ack" <=> setAck
    <3>1. reply' # reply
      BY <1>1, <1>4
    <3>2. SendDSPacket("RW2")
      BY <3>1 DEF RW2TimerExpired
    <3> QED BY <3>1, <3>2 DEF SendDSPacket
  <2>1. Busy' /\ uplink'.left = NotRunning /\ rw1Timer' = NotRunning
    BY <1>0, <1>1, <1>4 DEF Busy
  <2>2. OneStage'
    BY <1>0, <1>1, <1>4, <2>1 DEF OneStage
  <2>3. ServerTimes'
    BY <1>0, <1>2, <2>0, <2>1, DeviceStays, LinkTimes DEF ServerTimes, Replying
  <2>4. DoneBeforeUplink'
    <3>1. endTx # NotRunning => Delay < endTx
      BY <1>0, <1>2, LinkTimes, TimerType DEF LinkInv, DoneBeforeUplink
    <3> QED BY <1>0, <1>1, <2>0, <3>1, DeviceStays DEF LinkInv, DoneBeforeUplink
  <2>5. OnTime'
    <3>1. ~disturbed /\ macState = "RW2" => PreambleTime = Delay + preambleCheck
      BY <1>0, <1>1, LinkTimes DEF LinkInv, OnTime
    <3>2. ~disturbed /\ macState = "RW2"
            => Delay + PreambleTime = 2 * Delay + preambleCheck
      BY <1>2, <3>1, LinkTimes, TimerType
    <3>3. ~disturbed => OnTrack
      BY <1>0, <1>1 DEF LinkInv, OnTime
    <3> QED BY <1>0, <2>0, <3>2, <3>3, DeviceStays DEF OnTime
  <2>6. AckDue' /\ FirstAttempt'
    BY <1>0, <1>3, <2>0, <2>1, DeviceStays DEF LinkInv, AckDue, FirstAttempt
  <2> QED BY <2>2, <2>3, <2>4, <2>5, <2>6 DEF LinkInv
<1>5. CASE UNCHANGED <<setAck, reply>> /\ (lossy \/ ~setAck)
  <2>1. ~Busy'
    BY <1>0, <1>1, <1>5 DEF Busy
  <2>2. OneStage' /\ ServerTimes'
    BY <1>0, <1>1, <1>5, DeviceStays DEF OneStage, ServerTimes, Replying
  <2>3. DoneBeforeUplink' /\ OnTime'
    BY <1>0, <1>1, <1>5, <2>1, DeviceStays DEF LinkInv, DoneBeforeUplink, OnTime
  <2>4. AckDue' /\ FirstAttempt'
    BY <1>0, <1>1, <1>3, <1>5, DeviceStays DEF LinkInv, AckDue, FirstAttempt
  <2> QED BY <2>2, <2>3, <2>4 DEF LinkInv
<1>6. reply'.left # NotRunning \/ (UNCHANGED <<setAck, reply>> /\ (lossy \/ ~setAck))
  BY LinkTimes DEF RW2TimerExpired, SendDSPacket, NotRunning
<1> QED BY <1>4, <1>5, <1>6

\* The timers of both sides agree, from LinkInv and what the device does meanwhile.
LEMMA ReplyMeets ==
  ASSUME ExchangeIInv
  PROVE  RepliesMeetWindow
<1> SUFFICES ASSUME reply.left = 0, ~disturbed
             PROVE  Receptive /\ macState = reply.window
  BY DEF RepliesMeetWindow
<1>0. /\ IInv /\ PhaseInv /\ ServerTimes /\ sinceUplink \in Nat
      /\ preambleCheck \in Timers /\ Busy /\ OnTrack
      /\ Replying("RW1") \/ Replying("RW2")
  <2>1. reply.left # NotRunning /\ Busy
    BY DEF Busy, NotRunning
  <2>2. OnTrack
    BY <2>1 DEF ExchangeIInv, LinkInv, OnTime
  <2> QED BY <2>1, <2>2, LinkTypes DEF ExchangeIInv, LinkInv, IInv, TypeOK
<1>1. sinceUplink > ReceiveDelay1
  BY <1>0, LinkTimes DEF ServerTimes
<1>2. macState \in {"RW1", "WAITFORRW2", "RW2"}
  <2>1. macState # "TX"
    BY <1>0, <1>1, LinkTimes DEF OnTrack, IInv, TxInv
  <2>2. macState # "WAITFORRW1"
    BY <1>0, <1>1, LinkTimes DEF IInv, WaitInv
  <2> QED BY <1>0, <2>1, <2>2 DEF OnTrack
<1>3. rx.left = NotRunning
  BY <1>0, NoRxType DEF OnTrack
<1>4. CASE Replying("RW1")
  <2>1. macState = "RW1" /\ preambleCheck # NotRunning
    BY <1>2, <1>4, BeforeRW1Over DEF RW1Over
  <2>2. ~(rx.left > preambleCheck)
    BY <1>0, <1>3, TimerType
  <2>3. Receptive
    BY <1>0, <2>1, <2>2 DEF IInv, WindowInv, Receptive
  <2> QED BY <1>4, <2>1, <2>3 DEF Replying
<1>5. CASE Replying("RW2")
  <2>1. sinceUplink > ReceiveDelay2
    BY <1>0, <1>5, LinkTimes DEF ServerTimes
  <2>2. macState = "RW2" /\ preambleCheck # NotRunning /\ setMacState = <<>>
    <3>1. macState # "RW1"
      BY <1>0, <2>1, LinkTimes DEF OnTrack
    <3>2. macState # "WAITFORRW2"
      BY <1>0, <2>1, LinkTimes DEF IInv, WaitInv
    <3> QED BY <1>0, <1>2, <3>1, <3>2 DEF OnTrack
  <2>3. ~(rx.left > preambleCheck)
    BY <1>0, <1>3, TimerType
  <2>4. trxState = "RX_ON"
    BY <1>0, <2>2, <2>3 DEF IInv, WindowInv
  <2> QED BY <1>5, <2>2, <2>4 DEF Receptive, Replying
<1> QED BY <1>0, <1>4, <1>5

\* The reply ends the exchange; on an ideal link the device receives it.
LEMMA ReplyArrivesLink ==
  ASSUME ExchangeIInv, ReplyArrives, UNCHANGED lossy
  PROVE  LinkInv'
<1>0. /\ IInv /\ LinkInv /\ reply.left = 0 /\ reply.left # NotRunning
      /\ reply' = NoReply /\ reply'.left = NotRunning
      /\ UNCHANGED <<rw1Timer, rw2Timer, setAck, uplink, heard, disturbed, lossy>>
  BY DEF ReplyArrives, server, ExchangeIInv, NotRunning, NoReply
<1>1. /\ uplink.left = NotRunning /\ uplink = NoUplink /\ rw1Timer = NotRunning
      /\ rw2Timer = NotRunning /\ ~Busy'
  BY <1>0 DEF LinkInv, OneStage, Busy
<1>2. OneStage'
  BY <1>0, <1>1 DEF OneStage
<1>3. ServerTimes'
  BY <1>0, <1>1 DEF ServerTimes, Replying
<1>4. OnTime'
  BY <1>1 DEF OnTime
<1>5. DoneBeforeUplink'
  BY <1>0, <1>1 DEF DoneBeforeUplink
<1>6. ASSUME NEW t \in FrameTimes, StartRx(reply.frame, t)
      PROVE  AckDue' /\ FirstAttempt'
  <2>1. /\ ~WindowsOver /\ rx'.left # NotRunning /\ rx'.frame = reply.frame
    <3>1. t # NotRunning
      BY Times, TimerType
    <3> QED BY <1>0, <1>6, <3>1, StartRxFacts DEF WindowsOver
  <2>2. AwaitsAck => reply.frame = "ack" /\ txPkt \in heard
    BY <1>0, <2>1 DEF LinkInv, AckDue
  <2>3. AckDue'
    BY <1>0, <1>1, <1>6, <2>2, StartRxFacts DEF AckDue
  <2>4. FirstAttempt'
    BY <1>0, <1>6, <2>1, <2>2, StartRxFacts DEF LinkInv, FirstAttempt
  <2> QED BY <2>3, <2>4
<1>7. ASSUME Receptive => lossy, UNCHANGED vars
      PROVE  AckDue' /\ FirstAttempt'
  <2>1. AckDue'
    BY <1>0, <1>7, <1>1, DeviceStays DEF LinkInv, AckDue
  <2>2. ~disturbed => Receptive
    BY <1>0, ReplyMeets DEF RepliesMeetWindow
  <2>3. lossy
    BY <1>0, <1>7, <2>2 DEF LinkInv, FirstAttempt
  <2> QED BY <1>0, <2>1, <2>3 DEF FirstAttempt
<1> QED BY <1>0, <1>2, <1>3, <1>4, <1>5, <1>6, <1>7 DEF ReplyArrives, LinkInv

\* What the passing of time means for the device.
LEMMA TickFacts ==
  ASSUME IInv, PhaseInv, Tick
  PROVE  /\ UNCHANGED <<macState, txQueue, txPkt, retransmission, outcome, trxState>>
         /\ setMacState' = <<>> <=> setMacState = <<>>
         /\ ~Pending("IDLE", 0)
         /\ macState \in {"RW1", "RW2"} => setMacState = <<>>
         /\ macState = "RW1" /\ rx = NoRx =>
              sinceUplink' <= ReceiveDelay1 + PreambleTime
         /\ sinceUplink \in Nat
         /\ sinceUplink <= ReceiveDelay2 => sinceUplink' = sinceUplink + 1
         /\ sinceUplink > ReceiveDelay2 => sinceUplink' = sinceUplink
         /\ endTx \in Timers /\ endTx' = After(endTx) /\ endTx # 0
         /\ preambleCheck \in Timers /\ preambleCheck' = After(preambleCheck)
         /\ preambleCheck # 0
         /\ rx = NoRx => rx' = NoRx
         /\ rx'.left # NotRunning <=> rx.left # NotRunning
         /\ rx'.frame = rx.frame
<1>1. TypeOK
  BY DEF IInv
<1>2. /\ UNCHANGED <<macState, txQueue, txPkt, retransmission, outcome, trxState>>
      /\ endTx \in Timers /\ endTx' = After(endTx) /\ endTx # 0
      /\ preambleCheck \in Timers /\ preambleCheck' = After(preambleCheck)
      /\ preambleCheck # 0 /\ sinceUplink \in Nat
      /\ rx \in [left : Timers, frame : Frames] /\ rx.left # 0
      /\ rx' = [rx EXCEPT !.left = After(@)]
  BY <1>1 DEF TypeOK, Tick, TimerDue, queue
<1>3. /\ sinceUplink <= ReceiveDelay2 => sinceUplink' = sinceUplink + 1
      /\ sinceUplink > ReceiveDelay2 => sinceUplink' = sinceUplink
  BY <1>2, LinkTimes DEF Tick
<1>4. setMacState' = <<>> <=> setMacState = <<>>
  <2>1. setMacState \in Seq(StateEvents)
    BY <1>1 DEF TypeOK
  <2> QED BY <2>1 DEF Tick
<1>5. \A to \in MacStates : ~Pending(to, 0)
  BY <1>1, TickEvents DEF TypeOK
<1>6. ~Pending("IDLE", 0) /\ (macState \in {"RW1", "RW2"} => setMacState = <<>>)
  <2>1. \A to \in {"IDLE", "WAITFORRW2", "ACK_TIMEOUT"} : ~Pending(to, 0)
    BY <1>5 DEF MacStates
  <2> QED BY <2>1 DEF IInv, WindowInv
<1>7. /\ rx'.left = After(rx.left) /\ rx'.frame = rx.frame
      /\ rx = NoRx => rx' = NoRx
      /\ rx'.left # NotRunning <=> rx.left # NotRunning
  BY <1>2, RxAfter, AfterFacts
<1>8. ASSUME macState = "RW1", rx = NoRx
      PROVE  sinceUplink' <= ReceiveDelay1 + PreambleTime
  <2>0. rx.left = NotRunning
    BY <1>8, NoRxType
  <2>1. preambleCheck # NotRunning
    <3>1. ~(rx.left > preambleCheck)
      BY <1>2, <2>0, TimerType
    <3>2. ~Pending("IDLE", 0) /\ ~Pending("WAITFORRW2", 0)
      BY <1>5 DEF MacStates
    <3> QED BY <1>8, <3>1, <3>2 DEF IInv, WindowInv
  <2>2. sinceUplink + preambleCheck = ReceiveDelay1 + PreambleTime /\ preambleCheck > 0
    BY <1>2, <1>8, <2>1, TimerType DEF PhaseInv
  <2> QED BY <1>2, <1>3, <2>2, LinkTimes, TimerType
<1> QED BY <1>2, <1>3, <1>4, <1>6, <1>7, <1>8

\* What it means for the link.
LEMMA PassFacts ==
  ASSUME ExchangeTypeOK, Pass
  PROVE  /\ Tick /\ UNCHANGED <<setAck, heard, disturbed>>
         /\ uplink'.left = After(uplink.left) /\ uplink.left \in Timers
         /\ uplink.left # 0 /\ uplink'.id = uplink.id /\ uplink'.conf = uplink.conf
         /\ uplink = NoUplink => uplink' = NoUplink
         /\ reply'.left = After(reply.left) /\ reply.left \in Timers
         /\ reply.left # 0 /\ reply'.window = reply.window /\ reply'.frame = reply.frame
         /\ reply = NoReply => reply' = NoReply
         /\ rw1Timer' = After(rw1Timer) /\ rw1Timer \in Timers /\ rw1Timer # 0
         /\ rw2Timer' = After(rw2Timer) /\ rw2Timer \in Timers /\ rw2Timer # 0
         /\ Busy' <=> Busy
         /\ \A w : Replying(w)' <=> Replying(w)
<1>1. /\ Tick /\ UNCHANGED <<setAck, heard, disturbed>>
      /\ uplink' = [uplink EXCEPT !.left = After(@)] /\ uplink.left # 0
      /\ reply' = [reply EXCEPT !.left = After(@)] /\ reply.left # 0
      /\ rw1Timer' = After(rw1Timer) /\ rw1Timer # 0
      /\ rw2Timer' = After(rw2Timer) /\ rw2Timer # 0
  BY DEF Pass
<1>2. /\ uplink \in [left : {NotRunning} \union 0 .. Delay,
                     id : Pkts \union {NoPkt}, conf : BOOLEAN]
      /\ reply \in [left : {NotRunning} \union 0 .. Delay,
                    window : {"RW1", "RW2"}, frame : Frames]
  BY DEF ExchangeTypeOK
<1>3. /\ uplink'.left = After(uplink.left) /\ uplink'.id = uplink.id
      /\ uplink'.conf = uplink.conf
      /\ reply'.left = After(reply.left) /\ reply'.window = reply.window
      /\ reply'.frame = reply.frame
      /\ uplink' = [left |-> After(uplink.left), id |-> uplink.id, conf |-> uplink.conf]
      /\ reply' = [left |-> After(reply.left), window |-> reply.window,
                   frame |-> reply.frame]
  BY <1>1, <1>2
<1>4. /\ uplink = NoUplink => uplink' = NoUplink
      /\ reply = NoReply => reply' = NoReply
  <2>1. After(NotRunning) = NotRunning
    BY DEF After
  <2>2. /\ NoUplink.left = NotRunning /\ NoUplink.id = NoPkt /\ NoUplink.conf = FALSE
        /\ NoReply.left = NotRunning /\ NoReply.window = "RW1" /\ NoReply.frame = "other"
    BY DEF NoUplink, NoReply
  <2> QED BY <1>3, <2>1, <2>2 DEF NoUplink, NoReply
<1>5. /\ uplink.left \in Timers /\ reply.left \in Timers
      /\ rw1Timer \in Timers /\ rw2Timer \in Timers
  BY LinkTypes, LinkTimes, TimerType
<1>6. Busy' <=> Busy
  BY <1>1, <1>3, <1>5, AfterFacts DEF Busy
<1>7. \A w : Replying(w)' <=> Replying(w)
  BY <1>1, <1>3, <1>5, AfterFacts DEF Replying
<1> QED BY <1>1, <1>3, <1>4, <1>5, <1>6, <1>7

\* Time passes alike on both sides.
LEMMA PassTimes ==
  ASSUME ExchangeIInv, Pass
  PROVE  OneStage' /\ ServerTimes' /\ DoneBeforeUplink'
<1>0. /\ IInv /\ PhaseInv /\ ExchangeTypeOK /\ OneStage /\ ServerTimes
      /\ DoneBeforeUplink /\ Tick
  BY PassFacts DEF ExchangeIInv, LinkInv
<1>1. OneStage'
  <2>1. /\ uplink'.left = NotRunning <=> uplink.left = NotRunning
        /\ reply'.left = NotRunning <=> reply.left = NotRunning
        /\ rw1Timer' = NotRunning <=> rw1Timer = NotRunning
        /\ rw2Timer' = NotRunning <=> rw2Timer = NotRunning
    BY <1>0, PassFacts, AfterFacts
  <2>2. /\ uplink = NoUplink => uplink' = NoUplink
        /\ reply = NoReply => reply' = NoReply
    BY <1>0, PassFacts
  <2> QED BY <1>0, <2>1, <2>2 DEF OneStage
<1>2. /\ sinceUplink \in Nat /\ Delay <= ReceiveDelay2
      /\ sinceUplink <= ReceiveDelay2 => sinceUplink' = sinceUplink + 1
      /\ sinceUplink > ReceiveDelay2 => sinceUplink' = sinceUplink
  BY <1>0, TickFacts, LinkTimes
<1>3. ServerTimes'
  <2>1. uplink'.left # NotRunning => sinceUplink' + uplink'.left = Delay
    <3> SUFFICES ASSUME uplink'.left # NotRunning
                 PROVE  sinceUplink' + uplink'.left = Delay
      OBVIOUS
    <3>1. uplink.left # NotRunning /\ uplink'.left = uplink.left - 1 /\ uplink.left \in Nat
      BY <1>0, PassFacts, AfterFacts, TimerType
    <3>2. sinceUplink < ReceiveDelay2
      BY <3>1, BeforeRW1Over
    <3> QED BY <1>0, <1>2, <3>1, <3>2, LinkTimes DEF ServerTimes
  <2>2. rw1Timer' # NotRunning => sinceUplink' + rw1Timer' = ReceiveDelay1 + Delay
    <3> SUFFICES ASSUME rw1Timer' # NotRunning
                 PROVE  sinceUplink' + rw1Timer' = ReceiveDelay1 + Delay
      OBVIOUS
    <3>0. rw1Timer' = After(rw1Timer) /\ rw1Timer \in Timers /\ rw1Timer # 0
      BY <1>0, PassFacts
    <3>1. rw1Timer # NotRunning /\ rw1Timer' = rw1Timer - 1 /\ rw1Timer \in Nat
      BY <3>0, AfterFacts, TimerType
    <3>2. sinceUplink < ReceiveDelay2
      BY <3>1, BeforeRW1Over
    <3> QED BY <1>0, <1>2, <3>1, <3>2, LinkTimes DEF ServerTimes
  <2>3. rw2Timer' # NotRunning =>
          \/ sinceUplink' + rw2Timer' = ReceiveDelay2 + Delay
          \/ sinceUplink' > ReceiveDelay2 /\ rw2Timer' < Delay
    <3> SUFFICES ASSUME rw2Timer' # NotRunning
                 PROVE  \/ sinceUplink' + rw2Timer' = ReceiveDelay2 + Delay
                        \/ sinceUplink' > ReceiveDelay2 /\ rw2Timer' < Delay
      OBVIOUS
    <3>0. rw2Timer' = After(rw2Timer) /\ rw2Timer \in Timers /\ rw2Timer # 0
      BY <1>0, PassFacts
    <3>1. rw2Timer # NotRunning /\ rw2Timer' = rw2Timer - 1 /\ rw2Timer \in Nat
      BY <3>0, AfterFacts, TimerType
    <3>2. \/ sinceUplink + rw2Timer = ReceiveDelay2 + Delay
          \/ sinceUplink > ReceiveDelay2 /\ rw2Timer < Delay
      BY <1>0, <3>1 DEF ServerTimes
    <3> QED BY <1>2, <3>1, <3>2, LinkTimes
  <2>4. Replying("RW1")' => sinceUplink' + reply'.left = ReceiveDelay1 + 2 * Delay
    <3> SUFFICES ASSUME Replying("RW1")'
                 PROVE  sinceUplink' + reply'.left = ReceiveDelay1 + 2 * Delay
      OBVIOUS
    <3>1. Replying("RW1") /\ reply.left # NotRunning
      BY <1>0, PassFacts DEF Replying
    <3>2. reply'.left = reply.left - 1 /\ reply.left \in Nat
      BY <1>0, <3>1, PassFacts, AfterFacts, TimerType
    <3>3. sinceUplink < ReceiveDelay2
      BY <3>1, BeforeRW1Over
    <3> QED BY <1>0, <1>2, <3>1, <3>2, <3>3, LinkTimes DEF ServerTimes
  <2>5. Replying("RW2")' =>
          \/ sinceUplink' + reply'.left = ReceiveDelay2 + 2 * Delay
          \/ sinceUplink' > ReceiveDelay2 /\ reply'.left < 2 * Delay
    <3> SUFFICES ASSUME Replying("RW2")'
                 PROVE  \/ sinceUplink' + reply'.left = ReceiveDelay2 + 2 * Delay
                        \/ sinceUplink' > ReceiveDelay2 /\ reply'.left < 2 * Delay
      OBVIOUS
    <3>1. Replying("RW2") /\ reply.left # NotRunning
      BY <1>0, PassFacts DEF Replying
    <3>2. reply'.left = reply.left - 1 /\ reply.left \in Nat
      BY <1>0, <3>1, PassFacts, AfterFacts, TimerType
    <3>3. \/ sinceUplink + reply.left = ReceiveDelay2 + 2 * Delay
          \/ sinceUplink > ReceiveDelay2 /\ reply.left < 2 * Delay
      BY <1>0, <3>1 DEF ServerTimes
    <3> QED BY <1>2, <3>2, <3>3, LinkTimes
  <2> QED BY <2>1, <2>2, <2>3, <2>4, <2>5 DEF ServerTimes
<1>4. WindowsOver' /\ Busy' => sinceUplink' > ReceiveDelay2
  <2>1. (WindowsOver' => WindowsOver) /\ (Busy' => Busy)
    BY <1>0, TickFacts, PassFacts DEF WindowsOver
  <2> QED BY <1>0, <1>2, <2>1 DEF DoneBeforeUplink
<1>5. macState' = "RW1" /\ Pending("IDLE", 0)' => ~Busy'
  <2>1. macState' = "RW1" => setMacState' = <<>>
    BY <1>0, TickFacts
  <2>2. Pending("IDLE", 0)' => setMacState' # <<>>
    BY Singleton DEF Pending
  <2> QED BY <2>1, <2>2
<1>6. rx'.left # NotRunning /\ rx'.frame # "other" => ~Busy'
  BY <1>0, TickFacts, PassFacts DEF DoneBeforeUplink
<1>7. ASSUME endTx' # NotRunning
      PROVE  /\ rw2Timer' # NotRunning => rw2Timer' + Delay < endTx'
             /\ reply'.left # NotRunning => reply'.left < endTx'
  <2>1. endTx # NotRunning /\ endTx' = endTx - 1 /\ endTx \in Nat
    BY <1>0, <1>7, TickFacts, AfterFacts, TimerType
  <2>2. rw2Timer' # NotRunning => /\ rw2Timer # NotRunning /\ rw2Timer' = rw2Timer - 1
                                 /\ rw2Timer \in Nat
    BY <1>0, PassFacts, AfterFacts, TimerType
  <2>3. reply'.left # NotRunning => /\ reply.left # NotRunning
                                   /\ reply'.left = reply.left - 1
                                   /\ reply.left \in Nat
    BY <1>0, PassFacts, AfterFacts, TimerType
  <2>4. /\ rw2Timer # NotRunning => rw2Timer + Delay < endTx
        /\ reply.left # NotRunning => reply.left < endTx
    BY <1>0, <2>1 DEF DoneBeforeUplink
  <2> QED BY <2>1, <2>2, <2>3, <2>4, LinkTimes
<1> QED BY <1>1, <1>3, <1>4, <1>5, <1>6, <1>7 DEF DoneBeforeUplink

\* The device gets nearer to its window as the server gets nearer to its reply.
LEMMA PassLink ==
  ASSUME ExchangeIInv, Pass, UNCHANGED lossy
  PROVE  LinkInv'
<1>0. /\ IInv /\ PhaseInv /\ ExchangeTypeOK /\ OnTime /\ AckDue /\ FirstAttempt /\ Tick
      /\ UNCHANGED <<setAck, heard, disturbed>>
  BY PassFacts DEF ExchangeIInv, LinkInv
<1>1. /\ (WindowsOver' <=> WindowsOver) /\ (AwaitsAck' <=> AwaitsAck)
      /\ (Busy' <=> Busy) /\ UNCHANGED <<macState, txPkt, retransmission>>
  BY <1>0, TickFacts, PassFacts DEF WindowsOver, AwaitsAck
<1>2. OnTime'
  <2> SUFFICES ASSUME ~disturbed', Busy'
               PROVE  /\ OnTrack'
                      /\ macState' = "RW2" =>
                           /\ rw2Timer' # NotRunning
                                => rw2Timer' + PreambleTime = Delay + preambleCheck'
                           /\ reply'.left # NotRunning
                                => reply'.left + PreambleTime = 2 * Delay + preambleCheck'
    BY DEF OnTime
  <2>1. /\ OnTrack /\ rx = NoRx
        /\ macState = "RW2" =>
             /\ rw2Timer # NotRunning
                  => rw2Timer + PreambleTime = Delay + preambleCheck
             /\ reply.left # NotRunning
                  => reply.left + PreambleTime = 2 * Delay + preambleCheck
    BY <1>0, <1>1 DEF OnTime, OnTrack
  <2>2. /\ preambleCheck \in Timers /\ preambleCheck # 0
        /\ preambleCheck' = After(preambleCheck)
        /\ preambleCheck' # NotRunning <=> preambleCheck # NotRunning
        /\ preambleCheck # NotRunning => preambleCheck' = preambleCheck - 1
        /\ preambleCheck # NotRunning => preambleCheck \in Nat
    BY <1>0, TickFacts, AfterFacts, TimerType
  <2>3. OnTrack'
    <3>1. Pending("IDLE", 0)' => setMacState' # <<>>
      BY Singleton DEF Pending
    <3>2. /\ rx' = NoRx /\ (setMacState' = <<>> <=> setMacState = <<>>)
          /\ macState \in {"RW1", "RW2"} => setMacState = <<>>
          /\ macState = "RW1" => sinceUplink' <= ReceiveDelay1 + PreambleTime
      BY <1>0, <2>1, TickFacts
    <3> QED BY <1>1, <2>1, <2>2, <3>1, <3>2 DEF OnTrack
  <2>4. ASSUME macState' = "RW2"
        PROVE  /\ rw2Timer' # NotRunning
                    => rw2Timer' + PreambleTime = Delay + preambleCheck'
               /\ reply'.left # NotRunning
                    => reply'.left + PreambleTime = 2 * Delay + preambleCheck'
    <3>1. preambleCheck # NotRunning
      BY <1>1, <2>1, <2>4 DEF OnTrack
    <3>2. rw2Timer' # NotRunning => /\ rw2Timer # NotRunning /\ rw2Timer' = rw2Timer - 1
                                   /\ rw2Timer \in Nat
      BY <1>0, PassFacts, AfterFacts, TimerType
    <3>3. reply'.left # NotRunning => /\ reply.left # NotRunning
                                     /\ reply'.left = reply.left - 1
                                     /\ reply.left \in Nat
      BY <1>0, PassFacts, AfterFacts, TimerType
    <3> QED BY <1>1, <2>1, <2>2, <2>4, <3>1, <3>2, <3>3, LinkTimes
  <2> QED BY <2>3, <2>4
<1>3. AckDue'
  <2>1. /\ uplink'.left # NotRunning => /\ uplink.left # NotRunning
                                        /\ uplink'.conf = uplink.conf /\ uplink'.id = uplink.id
        /\ rw1Timer' # NotRunning => rw1Timer # NotRunning
        /\ rw2Timer' # NotRunning => rw2Timer # NotRunning
        /\ reply'.left # NotRunning => reply.left # NotRunning /\ reply'.frame = reply.frame
        /\ rx'.left # NotRunning => rx.left # NotRunning /\ rx'.frame = rx.frame
    BY <1>0, PassFacts, TickFacts, AfterFacts
  <2> QED BY <1>0, <1>1, <2>1 DEF AckDue
<1>4. FirstAttempt'
  <2>1. /\ setMacState' = <<>> <=> setMacState = <<>>
        /\ (rx'.left # NotRunning <=> rx.left # NotRunning) /\ rx'.frame = rx.frame
    BY <1>0, TickFacts
  <2> QED BY <1>0, <1>1, <2>1 DEF FirstAttempt
<1> QED BY <1>2, <1>3, <1>4, PassTimes DEF LinkInv

-----------------------------------------------------------------------------
(***************************************************************************)
(* The composition: every step is one of the device, or leaves it alone.   *)
(***************************************************************************)
\* A request, and a step of the device alone.
LEMMA OwnStep ==
  ASSUME IInv, Request \/ DeviceAlone
  PROVE  /\ Alone
         /\ UNCHANGED <<rw1Timer, rw2Timer, setAck, uplink, reply, disturbed>>
         /\ heard' \subseteq heard /\ (txPkt \in heard => txPkt \in heard')
<1>1. CASE Request
  <2>1. PICK p \in Pkts, conf \in BOOLEAN, sb \in SubBands, t \in AirTimes,
             n \in 1 .. MaxTransmissions :
          /\ Send(p, conf, sb, t, n)
          /\ heard' = heard \ {p}
          /\ UNCHANGED <<server, uplink, reply, disturbed>>
    BY <1>1 DEF Request
  <2>2. txPkt # p
    BY <2>1, SendHead
  <2>3. Alone
    BY <2>1 DEF Alone, SomeSend
  <2> QED BY <2>1, <2>2, <2>3 DEF server
<1>2. CASE DeviceAlone
  <2>1. Alone /\ UNCHANGED <<server, link>>
    BY <1>2 DEF DeviceAlone, Alone, StateChange
  <2> QED BY <2>1 DEF server, link
<1> QED BY <1>1, <1>2

\* Nothing else happens to the device.
LEMMA ExchangeIsNext ==
  ASSUME IInv, ExchangeTypeOK, [ExchangeNext]_exchangeVars
  PROVE  [Next]_vars /\ lossy' = lossy
<1>1. CASE UNCHANGED exchangeVars
  BY <1>1 DEF exchangeVars
<1>2. CASE ExchangeNext
  <2>1. Request \/ DeviceAlone => Next
    BY OwnStep, AloneIsNext
  <2>2. EndUplink => Next
    BY DEF EndUplink, Next, Device
  <2>3. ForeignFrame => Next
    BY DEF ForeignFrame, Next, Environment, Frames
  <2>4. HandleUSPacket \/ RW1TimerExpired \/ RW2TimerExpired => UNCHANGED vars
    BY DEF HandleUSPacket, RW1TimerExpired, RW2TimerExpired
  <2>5. ReplyArrives => [Next]_vars
    BY LinkTypes DEF ReplyArrives, Next, Environment
  <2>6. Pass => Next
    BY DEF Pass, Next, Device
  <2> QED BY <1>2, <2>1, <2>2, <2>3, <2>4, <2>5, <2>6 DEF ExchangeNext
<1> QED BY <1>1, <1>2

\* The types of the link, and the packet on its way.
LEMMA LinkTypesStep ==
  ASSUME ExchangeIInv, [ExchangeNext]_exchangeVars
  PROVE  ExchangeTypeOK' /\ UplinkNamed'
<1>0. /\ IInv /\ ExchangeTypeOK /\ UplinkNamed /\ TypeOK /\ lossy' = lossy
      /\ Delay \in 0 .. Delay /\ LinkInv
  BY ExchangeIsNext, LinkTimes DEF ExchangeIInv, IInv
<1>1. CASE UNCHANGED exchangeVars \/ Request \/ DeviceAlone
  <2>1. UNCHANGED <<rw1Timer, rw2Timer, setAck, uplink, reply, disturbed>>
        /\ heard' \subseteq heard
    BY <1>0, <1>1, OwnStep DEF exchangeVars, server, link
  <2> QED BY <1>0, <2>1 DEF ExchangeTypeOK, UplinkNamed
<1>2. CASE EndUplink
  <2>1. txPkt \in Pkts /\ Head(txQueue).conf \in BOOLEAN
    <3>1. endTx = 0 /\ macState = "TX" /\ endTx # NotRunning
      <4>1. EndTx /\ endTx = 0
        BY <1>2 DEF EndUplink, EndTx
      <4> QED BY <1>0, <4>1, EndTxPhase, TimerType
    <3>2. txPkt # NoPkt /\ txQueue # <<>>
      BY <1>0, <3>1 DEF IInv, TxInv, QueueInv
    <3>3. Head(txQueue) \in Elements
      BY <1>0, <3>2, TailLemma DEF TypeOK
    <3> QED BY <1>0, <3>2, <3>3 DEF TypeOK, Elements
  <2>2. /\ uplink' = [left |-> Delay, id |-> txPkt, conf |-> Head(txQueue).conf]
        /\ disturbed' = FALSE /\ UNCHANGED <<rw1Timer, rw2Timer, setAck, reply, heard>>
    BY <1>2 DEF EndUplink, server
  <2> QED BY <1>0, <2>1, <2>2 DEF ExchangeTypeOK, UplinkNamed
<1>3. CASE ForeignFrame
  BY <1>0, <1>3 DEF ForeignFrame, server, ExchangeTypeOK, UplinkNamed
<1>4. CASE HandleUSPacket
  <2>1. uplink.id \in Pkts
    BY <1>0, <1>4 DEF HandleUSPacket, UplinkNamed, NotRunning
  <2>2. NoUplink \in [left : {NotRunning} \union 0 .. Delay,
                      id : Pkts \union {NoPkt}, conf : BOOLEAN]
    BY DEF NoUplink
  <2>3. ReceiveDelay1 \in 0 .. ReceiveDelay1
    BY LinkTimes
  <2>4. /\ uplink' = NoUplink /\ UNCHANGED <<rw2Timer, reply, disturbed>>
        /\ setAck' \in BOOLEAN /\ heard' \subseteq Pkts
        /\ rw1Timer' \in {NotRunning} \union 0 .. ReceiveDelay1
    BY <1>0, <1>4, <2>1, <2>3 DEF HandleUSPacket, OweAck, ExchangeTypeOK
  <2> QED BY <1>0, <2>2, <2>4 DEF ExchangeTypeOK, UplinkNamed, NoUplink
<1>5. ASSUME NEW window \in {"RW1", "RW2"}, SendDSPacket(window)
      PROVE  /\ setAck' \in BOOLEAN
             /\ reply' \in [left : {NotRunning} \union 0 .. Delay,
                            window : {"RW1", "RW2"}, frame : Frames]
  <2>1. CASE UNCHANGED <<setAck, reply>>
    BY <1>0, <2>1 DEF ExchangeTypeOK
  <2>2. ASSUME NEW frame \in {"ack", "data"}, setAck' = FALSE,
               reply' = [left |-> Delay, window |-> window, frame |-> frame]
        PROVE  /\ setAck' \in BOOLEAN
               /\ reply' \in [left : {NotRunning} \union 0 .. Delay,
                              window : {"RW1", "RW2"}, frame : Frames]
    <3>1. frame \in Frames /\ Delay \in {NotRunning} \union 0 .. Delay
      BY <1>0 DEF Frames
    <3> QED BY <2>2, <3>1
  <2> QED BY <1>5, <2>1, <2>2 DEF SendDSPacket
<1>6. CASE RW1TimerExpired
  <2>1. DelayToRW2 \in 0 .. ReceiveDelay2
    BY LinkTimes DEF DelayToRW2
  <2>2. /\ setAck' \in BOOLEAN
        /\ reply' \in [left : {NotRunning} \union 0 .. Delay,
                       window : {"RW1", "RW2"}, frame : Frames]
        /\ rw2Timer' \in {NotRunning} \union 0 .. ReceiveDelay2
    BY <1>0, <1>5, <1>6, <2>1 DEF RW1TimerExpired, ExchangeTypeOK
  <2>3. rw1Timer' = NotRunning /\ UNCHANGED <<uplink, heard, disturbed>>
    BY <1>6 DEF RW1TimerExpired
  <2> QED BY <1>0, <2>2, <2>3 DEF ExchangeTypeOK, UplinkNamed
<1>7. CASE RW2TimerExpired
  <2>1. /\ setAck' \in BOOLEAN
        /\ reply' \in [left : {NotRunning} \union 0 .. Delay,
                       window : {"RW1", "RW2"}, frame : Frames]
    BY <1>0, <1>5, <1>7 DEF RW2TimerExpired, ExchangeTypeOK
  <2>2. rw2Timer' = NotRunning /\ UNCHANGED <<rw1Timer, uplink, heard, disturbed>>
    BY <1>7 DEF RW2TimerExpired
  <2> QED BY <1>0, <2>1, <2>2 DEF ExchangeTypeOK, UplinkNamed
<1>8. CASE ReplyArrives
  <2>1. NoReply \in [left : {NotRunning} \union 0 .. Delay,
                     window : {"RW1", "RW2"}, frame : Frames]
    BY DEF NoReply, Frames
  <2> QED BY <1>0, <1>8, <2>1 DEF ReplyArrives, server, ExchangeTypeOK, UplinkNamed
<1>9. CASE Pass
  <2>1. /\ UNCHANGED <<setAck, heard, disturbed>>
        /\ uplink' = [uplink EXCEPT !.left = After(@)] /\ uplink.left # 0
        /\ reply' = [reply EXCEPT !.left = After(@)] /\ reply.left # 0
        /\ rw1Timer' = After(rw1Timer) /\ rw1Timer # 0
        /\ rw2Timer' = After(rw2Timer) /\ rw2Timer # 0
    BY <1>9 DEF Pass
  <2>2. \A n \in Nat : \A t \in {NotRunning} \union 0 .. n :
          t # 0 => After(t) \in {NotRunning} \union 0 .. n
    BY DEF After, NotRunning
  <2>3. /\ uplink.left \in {NotRunning} \union 0 .. Delay
        /\ reply.left \in {NotRunning} \union 0 .. Delay
        /\ rw1Timer \in {NotRunning} \union 0 .. ReceiveDelay1
        /\ rw2Timer \in {NotRunning} \union 0 .. ReceiveDelay2
    BY <1>0 DEF ExchangeTypeOK
  <2>4. /\ After(uplink.left) \in {NotRunning} \union 0 .. Delay
        /\ After(reply.left) \in {NotRunning} \union 0 .. Delay
        /\ After(rw1Timer) \in {NotRunning} \union 0 .. ReceiveDelay1
        /\ After(rw2Timer) \in {NotRunning} \union 0 .. ReceiveDelay2
    BY <2>1, <2>2, <2>3, LinkTimes
  <2>5. ExchangeTypeOK'
    BY <1>0, <2>1, <2>4 DEF ExchangeTypeOK
  <2>6. UplinkNamed'
    BY <1>0, <1>9, PassFacts, AfterFacts DEF UplinkNamed
  <2> QED BY <2>5, <2>6
<1> QED BY <1>1, <1>2, <1>3, <1>4, <1>6, <1>7, <1>8, <1>9 DEF ExchangeNext

\* The invariant of the device: a reply without Ack finds no confirmed uplink.
LEMMA ExchangeIInvStep ==
  ASSUME ArrivalAtClose = FALSE, ExchangeIInv, [ExchangeNext]_exchangeVars
  PROVE  IInv'
<1>0. IInv /\ LinkInv /\ ExchangeTypeOK
  BY DEF ExchangeIInv
<1>1. Request \/ DeviceAlone => IInv'
  BY <1>0, OwnStep, AloneIInv
<1>2. EndUplink => IInv'
  BY <1>0, EndTxStep DEF EndUplink
<1>3. ForeignFrame => IInv'
  <2>1. "other" \in Frames /\ "other" # "data"
    BY DEF Frames
  <2> QED BY <1>0, <2>1, StartRxStep DEF ForeignFrame
<1>4. UNCHANGED vars => IInv'
  BY <1>0, StutterIInv
<1>5. UNCHANGED exchangeVars \/ HandleUSPacket \/ RW1TimerExpired \/ RW2TimerExpired
        => UNCHANGED vars
  BY DEF exchangeVars, HandleUSPacket, RW1TimerExpired, RW2TimerExpired
<1>6. ASSUME NEW t \in FrameTimes, StartRx(reply.frame, t), reply.left = 0
      PROVE  IInv'
  <2>1. ~WindowsOver
    BY <1>0, <1>6, StartRxFacts DEF WindowsOver
  <2>2. reply.frame = "data" => ~AwaitsAck
    BY <1>0, <1>6, <2>1 DEF LinkInv, AckDue, NotRunning
  <2>3. reply.frame \in Frames
    BY <1>0, LinkTypes
  <2> QED BY <1>0, <1>6, <2>2, <2>3, StartRxStep
<1>7. ReplyArrives => IInv'
  BY <1>4, <1>6 DEF ReplyArrives
<1>8. Pass => IInv'
  BY <1>0, TickStep DEF Pass
<1> QED BY <1>1, <1>2, <1>3, <1>4, <1>5, <1>7, <1>8 DEF ExchangeNext

\* Only an exhausted frame fails, and on an ideal link none is.
LEMMA NothingFailsStep ==
  ASSUME ExchangeIInv, [Next]_vars, lossy' = lossy
  PROVE  NothingFails'
<1> SUFFICES ASSUME ~lossy, NEW p \in Pkts PROVE outcome'[p] # "noack"
  BY DEF NothingFails
<1>0. IInv /\ TypeOK /\ outcome[p] # "noack"
  BY DEF ExchangeIInv, IInv, NothingFails
<1>1. ~GivesUp
  <2>1. GivesUp => AwaitsAck /\ EnterIdle
    BY DEF GivesUp, Exhausted, AwaitsAck
  <2> QED BY <2>1, NotGivenUp
<1>2. \/ outcome' = outcome
      \/ \E q, what : what # "noack" /\ outcome' = [outcome EXCEPT ![q] = what]
  <2>1. EndTx => \/ outcome' = outcome
                 \/ outcome' = [outcome EXCEPT ![Head(txQueue).id] = "ok"]
    BY DEF EndTx
  <2>2. Completes => outcome' = [outcome EXCEPT ![Head(txQueue).id] = "ok"]
    BY DEF Completes, EndRxAccepted
  <2>3. (\E q \in Pkts, conf \in BOOLEAN, sb \in SubBands, air \in AirTimes,
           n \in 1 .. MaxTransmissions : Send(q, conf, sb, air, n))
          => \E q : outcome' = [outcome EXCEPT ![q] = "waiting"]
    BY DEF Send
  <2> QED BY <1>0, <1>1, <2>1, <2>2, <2>3, WhoServes
<1> QED BY <1>0, <1>2 DEF TypeOK

\* Every step preserves the invariant.
LEMMA ExchangeStep ==
  ASSUME ArrivalAtClose = FALSE, ExchangeIInv, [ExchangeNext]_exchangeVars
  PROVE  ExchangeIInv'
<1>0. IInv /\ ClockInv /\ ToldInv /\ PhaseInv /\ ConfirmedWait /\ ExchangeTypeOK
  BY DEF ExchangeIInv
<1>1. IInv' /\ [Next]_vars /\ lossy' = lossy
  BY <1>0, ExchangeIInvStep, ExchangeIsNext
<1>2. ClockInv' /\ ToldInv' /\ ConfirmedWait'
  BY <1>0, <1>1, NextClock, NextTold, NextWait
<1>3. PhaseInv'
  <2>1. Request \/ DeviceAlone => PhaseInv'
    BY <1>0, OwnStep, AlonePhase
  <2>2. EndUplink => PhaseInv'
    BY <1>0, EndTxPhase DEF EndUplink
  <2>3. ForeignFrame => PhaseInv'
    BY <1>0, StartRxPhase DEF ForeignFrame
  <2>4. UNCHANGED vars => PhaseInv'
    BY <1>0 DEF vars, mac, PhaseInv, RW1Over, WindowsOver
  <2>5. UNCHANGED exchangeVars \/ HandleUSPacket \/ RW1TimerExpired \/ RW2TimerExpired
          => UNCHANGED vars
    BY DEF exchangeVars, HandleUSPacket, RW1TimerExpired, RW2TimerExpired
  <2>6. ReplyArrives => PhaseInv'
    BY <1>0, <2>4, StartRxPhase DEF ReplyArrives
  <2>7. Pass => PhaseInv'
    BY <1>0, TickPhase DEF Pass
  <2> QED BY <2>1, <2>2, <2>3, <2>4, <2>5, <2>6, <2>7 DEF ExchangeNext
<1>4. LinkInv'
  <2>1. Request \/ DeviceAlone => LinkInv'
    BY <1>0, <1>1, OwnStep, AloneLink
  <2>2. UNCHANGED exchangeVars => LinkInv'
    <3> SUFFICES ASSUME UNCHANGED exchangeVars PROVE LinkInv'
      OBVIOUS
    <3>1. UNCHANGED vars /\ UNCHANGED <<server, link, lossy>>
      BY DEF exchangeVars
    <3> QED BY <3>1, DeviceStays DEF server, link, ExchangeIInv, LinkInv, OneStage,
            ServerTimes, Replying, DoneBeforeUplink, Busy, OnTime, AckDue, FirstAttempt
  <2> QED BY <1>1, <2>1, <2>2, EndUplinkLink, ForeignFrameLink, HandleUSPacketLink,
             RW1TimerExpiredLink, RW2TimerExpiredLink, ReplyArrivesLink, PassLink
             DEF ExchangeNext
<1> QED BY <1>1, <1>2, <1>3, <1>4, LinkTypesStep, NothingFailsStep DEF ExchangeIInv

\* Nothing is under way in the beginning.
LEMMA InitExchange == ExchangeInit => ExchangeIInv
<1> SUFFICES ASSUME ExchangeInit PROVE ExchangeIInv
  OBVIOUS
<1>1. Init /\ lossy \in BOOLEAN /\ uplink = NoUplink /\ reply = NoReply
      /\ rw1Timer = NotRunning /\ rw2Timer = NotRunning /\ setAck = FALSE
      /\ heard = {} /\ disturbed = FALSE
  BY DEF ExchangeInit
<1>2. NoUplink.left = NotRunning /\ NoReply.left = NotRunning
  BY DEF NoUplink, NoReply
<1>3. ~Busy /\ ~AwaitsAck /\ rx.left = NotRunning /\ setMacState = <<>>
  BY <1>1, <1>2, NoRxType DEF Init, Busy, AwaitsAck
<1>4. LinkInv
  <2>1. OneStage /\ ServerTimes
    BY <1>1, <1>2 DEF OneStage, ServerTimes, Replying
  <2>2. DoneBeforeUplink /\ OnTime /\ AckDue /\ FirstAttempt
    BY <1>1, <1>2, <1>3 DEF DoneBeforeUplink, OnTime, AckDue, FirstAttempt
  <2> QED BY <2>1, <2>2 DEF LinkInv
<1>5. ExchangeTypeOK /\ UplinkNamed
  BY <1>1, LinkTimes DEF ExchangeTypeOK, UplinkNamed, NoUplink, NoReply, Frames
<1>6. ConfirmedWait /\ NothingFails
  BY <1>1 DEF Init, ConfirmedWait, NothingFails
<1> QED BY <1>1, <1>4, <1>5, <1>6, InitIInv, InitClock, InitTold, InitPhase DEF ExchangeIInv

-----------------------------------------------------------------------------
(***************************************************************************)
(* The theorems.  DataAnswers may be TRUE: what EndDeviceMac must assume   *)
(* about the answers to a confirmed uplink is here a result.               *)
(***************************************************************************)
\* The stages of the exchange, the clock of the device and its MAC states fit at
\* every moment.
THEOREM ExchangeInvariance ==
  ASSUME ArrivalAtClose = FALSE
  PROVE  ExchangeSpec => []ExchangeIInv
<1>1. ExchangeIInv /\ [ExchangeNext]_exchangeVars => ExchangeIInv'
  BY ExchangeStep
<1> QED BY InitExchange, <1>1, PTL DEF ExchangeSpec

\* A reply begins in the very window that the server meant, unless another frame
\* came in between, and exchanges do not overlap: RW1TimerExpired,
\* RW2TimerExpired and HandleUSPacket never meet a stage of an older uplink.
THEOREM TwoSidesAgree ==
  ASSUME ArrivalAtClose = FALSE
  PROVE  ExchangeSpec => []ExchangeInv
<1>1. ExchangeIInv => ExchangeInv
  <2> SUFFICES ASSUME ExchangeIInv PROVE ExchangeInv
    OBVIOUS
  <2>1. endTx = 0 => uplink = NoUplink /\ reply = NoReply
    BY Apart DEF Busy, ExchangeIInv, LinkInv, OneStage
  <2>2. ExchangesApart
    BY <2>1, Apart DEF ExchangesApart, Busy
  <2> QED BY <2>2, ReplyMeets DEF ExchangeInv, ExchangeIInv
<1> QED BY <1>1, ExchangeInvariance, PTL

\* On an ideal link no confirmed packet is repeated or given up.
THEOREM IdealLink ==
  ASSUME ArrivalAtClose = FALSE
  PROVE  ExchangeSpec => []IdealLinkAcks
<1>1. ExchangeIInv => IdealLinkAcks
  BY DEF ExchangeIInv, LinkInv, NothingFails, FirstAttempt, IdealLinkAcks
<1> QED BY <1>1, ExchangeInvariance, PTL

\* Success of the frame in flight is reported when its Ack was received.
LEMMA OkMeansAck ==
  ASSUME ExchangeIInv, [Next]_vars, AwaitsAck, outcome'[txPkt] = "ok"
  PROVE  Completes
<1>0. IInv /\ TypeOK /\ outcome[txPkt] = "waiting" /\ txPkt \in Pkts
      /\ Head(txQueue).id = txPkt /\ Head(txQueue).conf
  BY InFlightWaits DEF ExchangeIInv, IInv, AwaitsAck
<1>1. outcome' # outcome
  BY <1>0
<1>2. ~EndTx
  BY <1>0, <1>1 DEF EndTx
<1>3. ~GivesUp
  BY <1>0 DEF GivesUp, TypeOK
<1>4. ASSUME NEW q \in Pkts, NEW conf \in BOOLEAN, NEW sb \in SubBands, NEW air \in AirTimes,
             NEW n \in 1 .. MaxTransmissions, Send(q, conf, sb, air, n)
      PROVE  FALSE
  <2>1. outcome' = [outcome EXCEPT ![q] = "waiting"]
    BY <1>4 DEF Send
  <2> QED BY <1>0, <2>1 DEF TypeOK
<1> QED BY <1>0, <1>1, <1>2, <1>3, <1>4, WhoServes

\* A confirmed packet that is reported as acknowledged was received by the
\* network server, in spite of Acks without a packet's name.
THEOREM AcksAreEarned ==
  ASSUME ArrivalAtClose = FALSE
  PROVE  ExchangeSpec => AckedWasHeard
<1>1. ExchangeIInv /\ [ExchangeNext]_exchangeVars =>
        [\A p \in Pkts : AwaitsAck /\ txPkt = p /\ outcome'[p] = "ok"
           => p \in heard]_exchangeVars
  <2> SUFFICES ASSUME ExchangeIInv, [ExchangeNext]_exchangeVars,
                      AwaitsAck, outcome'[txPkt] = "ok"
               PROVE  txPkt \in heard
    OBVIOUS
  <2>1. IInv /\ ExchangeTypeOK /\ AckDue
    BY DEF ExchangeIInv, LinkInv
  <2>2. Completes
    BY <2>1, ExchangeIsNext, OkMeansAck
  <2>3. rx.left = 0 /\ rx.left # NotRunning /\ rx.frame = "ack"
    BY <2>2, TimerType DEF Completes, EndRxAccepted, EndRxDue
  <2>4. ~WindowsOver
    BY <2>1, <2>3, RxDueFacts DEF WindowsOver
  <2> QED BY <2>1, <2>3, <2>4 DEF AckDue
<1> QED BY <1>1, ExchangeInvariance, PTL DEF ExchangeSpec, AckedWasHeard

-----------------------------------------------------------------------------
(***************************************************************************)
(* The instance of the device that is never answered without the Ack: its  *)
(* actions are the same, but for StartRx.                                  *)
(***************************************************************************)
\* The initial states.
LEMMA AssumedInit == Init => Assumed!Init
BY DEF Init, Assumed!Init, NotRunning, Assumed!NotRunning, NoRx, Assumed!NoRx

\* The variables.
LEMMA AssumedVars == UNCHANGED vars => UNCHANGED Assumed!vars
BY DEF vars, Assumed!vars, mac, Assumed!mac, queue, Assumed!queue, phy, Assumed!phy,
   rdc, Assumed!rdc

\* The device itself.
LEMMA AssumedDevice == Device => Assumed!Device
BY DEF Device, Assumed!Device, EnterIdle, Assumed!EnterIdle, EnterTx,
   Assumed!EnterTx, EnterWaitForRW1, Assumed!EnterWaitForRW1, EnterWindow,
   Assumed!EnterWindow, EnterWaitForRW2, Assumed!EnterWaitForRW2, MissRW2,
   Assumed!MissRW2, EnterAckTimeout, Assumed!EnterAckTimeout, CheckPhyPreamble,
   Assumed!CheckPhyPreamble, AckTimeoutExpired, Assumed!AckTimeoutExpired,
   SubBandTimerExpired, Assumed!SubBandTimerExpired, EndTx, Assumed!EndTx,
   EndRxDropped, Assumed!EndRxDropped, EndRxAccepted, Assumed!EndRxAccepted, Tick,
   Assumed!Tick, Event, Assumed!Event, NotRunning, Assumed!NotRunning, NoRx,
   Assumed!NoRx, AwaitsAck, Assumed!AwaitsAck, InQueue, Assumed!InQueue, TimerDue,
   Assumed!TimerDue, Fires, Assumed!Fires, IsSubBandAvailable,
   Assumed!IsSubBandAvailable, UpdateRDCTimerForSubBand,
   Assumed!UpdateRDCTimerForSubBand, ScheduleSubBandTimer,
   Assumed!ScheduleSubBandTimer, CheckQueue, Assumed!CheckQueue,
   RemoveFirstTxQElement, Assumed!RemoveFirstTxQElement, Exhausted,
   Assumed!Exhausted, CheckRetransmission, Assumed!CheckRetransmission, OpenRW,
   Assumed!OpenRW, AfterWindow, Assumed!AfterWindow, CloseRW, Assumed!CloseRW,
   ConfigurePhyForTX, Assumed!ConfigurePhyForTX, OneAttemptLess,
   Assumed!OneAttemptLess, EndRxDue, Assumed!EndRxDue, RadioAfterRx,
   Assumed!RadioAfterRx, After, Assumed!After, Sooner, Assumed!Sooner, mac,
   Assumed!mac, queue, Assumed!queue, phy, Assumed!phy, rdc, Assumed!rdc, vars,
   Assumed!vars

\* A request.
LEMMA AssumedSend ==
  ASSUME NEW p, NEW conf, NEW sb, NEW air, NEW n, Send(p, conf, sb, air, n)
  PROVE  Assumed!Send(p, conf, sb, air, n)
BY DEF Send, Assumed!Send, InQueue, Assumed!InQueue, CheckQueue, Assumed!CheckQueue,
   IsSubBandAvailable, Assumed!IsSubBandAvailable, ScheduleSubBandTimer,
   Assumed!ScheduleSubBandTimer, NotRunning, Assumed!NotRunning, Event,
   Assumed!Event, phy, Assumed!phy

\* A frame that begins, unless it has no Ack and one is expected.
LEMMA AssumedStartRx ==
  ASSUME NEW frame, NEW air, StartRx(frame, air), frame = "data" => ~AwaitsAck
  PROVE  Assumed!StartRx(frame, air)
BY DEF StartRx, Assumed!StartRx, AwaitsAck, Assumed!AwaitsAck, mac, Assumed!mac,
   queue, Assumed!queue, rdc, Assumed!rdc

\* The server never answers a confirmed uplink without the Ack.
LEMMA AssumedStep ==
  ASSUME ExchangeIInv, ExchangeIInv', [ExchangeNext]_exchangeVars
  PROVE  [Assumed!Next]_(Assumed!vars)
<1>0. IInv' /\ ExchangeTypeOK /\ IInv
  BY DEF ExchangeIInv
<1>1. [Next]_vars
  BY <1>0, ExchangeIsNext
<1>2. Device => Assumed!Next
  BY AssumedDevice DEF Assumed!Next
<1>3. ASSUME NEW frame \in Frames, NEW air \in FrameTimes, StartRx(frame, air)
      PROVE  Assumed!Next
  <2>1. rx'.left # NotRunning /\ rx'.frame = frame /\ (AwaitsAck' <=> AwaitsAck)
    <3>1. air # NotRunning
      BY Times, TimerType
    <3> QED BY <1>0, <1>3, <3>1, StartRxFacts
  <2>2. frame = "data" => ~AwaitsAck
    BY <1>0, <2>1 DEF IInv, AckInv
  <2>3. Assumed!StartRx(frame, air)
    BY <1>3, <2>2, AssumedStartRx
  <2>4. frame \in Assumed!Frames
    BY DEF Frames, Assumed!Frames
  <2> QED BY <2>3, <2>4 DEF Assumed!Next, Assumed!Environment
<1>4. Environment => Assumed!Next
  <2>1. ASSUME NEW p \in Pkts, NEW conf \in BOOLEAN, NEW sb \in SubBands,
               NEW air \in AirTimes, NEW n \in 1 .. MaxTransmissions,
               Send(p, conf, sb, air, n)
        PROVE  Assumed!Next
    BY <2>1, AssumedSend DEF Assumed!Next, Assumed!Environment
  <2> QED BY <1>3, <2>1 DEF Environment
<1>5. UNCHANGED vars => UNCHANGED Assumed!vars
  BY AssumedVars
<1> QED BY <1>1, <1>2, <1>4, <1>5 DEF Next

\* The server does what the theorems about the device assume: composed with it,
\* the device behaves as one with DataAnswers = FALSE, so that what is proved of
\* EndDeviceMac under that assumption holds of every exchange.
THEOREM AnswersCarryTheAck ==
  ASSUME ArrivalAtClose = FALSE
  PROVE  ExchangeSpec => AnswersAsAssumed
<1>1. ExchangeIInv /\ ExchangeIInv' /\ [ExchangeNext]_exchangeVars
        => [Assumed!Next]_(Assumed!vars)
  BY AssumedStep
<1>2. ExchangeInit => Assumed!Init
  BY AssumedInit DEF ExchangeInit
<1> QED BY <1>1, <1>2, ExchangeInvariance, PTL
        DEF ExchangeSpec, AnswersAsAssumed, Assumed!Spec
=============================================================================
