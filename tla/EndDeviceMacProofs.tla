------------------------ MODULE EndDeviceMacProofs ------------------------
(***************************************************************************)
(* IInv is an invariant of EndDeviceMac: lemmas about its data (timers,    *)
(* queue elements, state change events), one lemma for each action, and in *)
(* each lemma one step for each part of the invariant.  The properties of  *)
(* the end device follow from it.                                          *)
(*                                                                         *)
(* At the end is what the device promises: it implements UplinkService     *)
(* step by step, the upper layer hears of every packet as it ended, no     *)
(* uplink ends before the windows of the one before, and a frame is        *)
(* repeated only after its Ack timer.  The last two need another           *)
(* invariant, ClockInv, about the time that has passed since the last      *)
(* uplink.                                                                 *)
(***************************************************************************)
EXTENDS EndDeviceMacInvariant, SequenceTheorems, TLAPS

-----------------------------------------------------------------------------
(***************************************************************************)
(* The data, and what the inductive invariant says when a state change is  *)
(* due.                                                                    *)
(***************************************************************************)
\* The constants as numbers.
LEMMA Times ==
  /\ \A t \in AirTimes \union FrameTimes \union AckTimeouts : t \in Nat /\ t > 0
  /\ PreambleTime \in Nat /\ PreambleTime > 0
  /\ ReceiveDelay1 \in Nat /\ ReceiveDelay1 > 0
  /\ ReceiveDelay2 \in Nat /\ ReceiveDelay2 > 0
  /\ MaxTransmissions \in Nat /\ MaxTransmissions > 0
  /\ \A sb \in SubBands : DutyCycleLimit[sb] \in Nat
BY TimesAssumption

\* A timer is off or holds a natural number, and the two never compare equal.
LEMMA TimerType ==
  /\ NotRunning = -1
  /\ NotRunning \in Timers
  /\ \A t \in Nat : t \in Timers /\ t # NotRunning
  /\ \A t \in Timers : t \in Int /\ t >= -1 /\ (t # NotRunning => t \in Nat)
BY DEF Timers, NotRunning

\* Needed for the time off, a product of air time and duty cycle limit.
LEMMA ProductType == \A m, n \in Nat : m * n \in Nat
OBVIOUS

\* The at most one scheduled state change, as a sequence.
LEMMA Singleton ==
  ASSUME NEW x, NEW y
  PROVE  /\ Len(<<x>>) = 1
         /\ <<x>>[1] = x
         /\ Head(<<x>>) = x
         /\ Tail(<<x>>) = <<>>
         /\ Append(<<>>, y) = <<y>>
         /\ <<x>> # <<>>
         /\ Append(Tail(<<x>>), y) = <<y>>
OBVIOUS

\* What RemoveFirstTxQElement leaves of a queue.
LEMMA TailLemma ==
  ASSUME NEW S, NEW q \in Seq(S), q # <<>>
  PROVE  /\ Tail(q) \in Seq(S)
         /\ Head(q) = q[1]
         /\ Head(q) \in S
         /\ Len(q) > 0
         /\ Len(q) \in Nat
         /\ Len(Tail(q)) = Len(q) - 1
         /\ \A i \in 1 .. Len(Tail(q)) : Tail(q)[i] = q[i + 1]
         /\ Tail(q) # <<>> => Head(Tail(q)) = q[2] /\ 2 \in 1 .. Len(q)
OBVIOUS

\* What sendMACPayloadRequest makes of a queue.
LEMMA AppendLemma ==
  ASSUME NEW S, NEW q \in Seq(S), NEW e \in S
  PROVE  /\ Append(q, e) \in Seq(S)
         /\ Append(q, e) # <<>>
         /\ Len(Append(q, e)) = Len(q) + 1
         /\ Head(Append(q, e)) = IF q = <<>> THEN e ELSE Head(q)
         /\ \A i \in 1 .. Len(q) : Append(q, e)[i] = q[i]
         /\ Append(q, e)[Len(q) + 1] = e
OBVIOUS

\* The fields of a queue element.
LEMMA ElementType ==
  ASSUME NEW e \in Elements
  PROVE  /\ e.id \in Pkts /\ e.conf \in BOOLEAN
         /\ e.sb \in SubBands /\ e.air \in AirTimes
         /\ e.req \in Nat /\ e.req > 0 /\ e.req <= MaxTransmissions
         /\ e.left \in Nat /\ e.left <= MaxTransmissions
BY Times DEF Elements

\* Counting down the transmissions of one element changes nothing else.
LEMMA OneLess ==
  ASSUME NEW a \in Elements, a.left > 0, NEW e, e = [a EXCEPT !.left = @ - 1]
  PROVE  /\ e \in Elements
         /\ e.left = a.left - 1
         /\ e.id = a.id
         /\ e.conf = a.conf
         /\ e.req = a.req
         /\ e.sb = a.sb
         /\ e.air = a.air
<1>1. MaxTransmissions \in Nat
  BY TimesAssumption
<1>2. e = [id |-> a.id, conf |-> a.conf, sb |-> a.sb, air |-> a.air,
           req |-> a.req, left |-> a.left - 1]
  BY DEF Elements
<1> QED BY <1>1, <1>2 DEF Elements

\* OneAttemptLess changes the first element only.
LEMMA DecLemma ==
  ASSUME NEW q \in Seq(Elements), q # <<>>, Head(q).left > 0,
         NEW r, r = OneAttemptLess(q)
  PROVE  /\ r \in Seq(Elements)
         /\ Len(r) = Len(q)
         /\ r # <<>>
         /\ Head(r) = r[1]
         /\ r[1].left = Head(q).left - 1
         /\ r[1].id = Head(q).id
         /\ r[1].conf = Head(q).conf
         /\ r[1].req = Head(q).req
         /\ r[1].sb = Head(q).sb
         /\ \A i \in 2 .. Len(q) : r[i] = q[i]
<1> DEFINE e == [q[1] EXCEPT !.left = @ - 1]
<1>1. q[1] \in Elements /\ 1 \in 1 .. Len(q) /\ Head(q) = q[1]
  OBVIOUS
<1>2. /\ e \in Elements
      /\ e.left = q[1].left - 1
      /\ e.id = q[1].id /\ e.conf = q[1].conf /\ e.req = q[1].req /\ e.sb = q[1].sb
  BY <1>1, OneLess
<1>3. r = [q EXCEPT ![1] = e]
  BY Zenon DEF OneAttemptLess
<1> HIDE DEF e
<1> QED BY <1>1, <1>2, <1>3

\* State change events are equal only if target and delay are.
LEMMA EventFields ==
  ASSUME NEW a, NEW b, NEW c, NEW d
  PROVE  /\ Event(a, b).to = a
         /\ Event(a, b).in = b
         /\ Event(a, b) = Event(c, d) => a = c /\ b = d
         /\ a \in MacStates /\ b \in Nat => Event(a, b) \in StateEvents
BY DEF Event, StateEvents

\* A single state change event has the type of setMacState.
LEMMA EventSeq ==
  ASSUME NEW to \in MacStates, NEW delay \in Nat
  PROVE  <<Event(to, delay)>> \in Seq(StateEvents)
BY EventFields

\* The invariant allows at most one scheduled state change.
LEMMA AtMostOne ==
  ASSUME IInv
  PROVE  \/ setMacState = <<>>
         \/ \E to \in MacStates, delay \in Nat : setMacState = <<Event(to, delay)>>
<1> USE IInv DEF IInv, Pending, MacStates
<1>1. CASE macState \in {"WAITFORRW1", "WAITFORRW2"}
  BY <1>1, TimesAssumption DEF WaitInv, TypeOK
<1>2. CASE macState \in {"IDLE", "TX"}
  BY <1>2 DEF IdleInv, TxInv
<1>3. CASE macState \in {"RW1", "RW2"}
  BY <1>3 DEF WindowInv
<1>4. CASE macState = "ACK_TIMEOUT"
  BY <1>4 DEF AckInv
<1> QED BY <1>1, <1>2, <1>3, <1>4 DEF TypeOK

\* The state change that is due is the only one.
LEMMA FiresAlone ==
  ASSUME IInv, NEW to, Fires(to)
  PROVE  setMacState = <<Event(to, 0)>> /\ Tail(setMacState) = <<>>
<1>1. PICK st \in MacStates, delay \in Nat : setMacState = <<Event(st, delay)>>
  BY AtMostOne DEF Fires
<1>2. Head(setMacState) = Event(st, delay) /\ Tail(setMacState) = <<>>
  BY <1>1, Singleton
<1> QED BY <1>1, <1>2 DEF Fires

\* The pending state change is determined by setMacState.
LEMMA PendingIs ==
  ASSUME NEW to, NEW delay, setMacState = <<Event(to, delay)>>
  PROVE  /\ setMacState # <<>>
         /\ \A st, d : Pending(st, d) => st = to /\ d = delay
<1>1. \A st, d : Pending(st, d) => Event(st, d) = Event(to, delay)
  BY DEF Pending
<1> QED BY <1>1, EventFields, Singleton

\* What holds when a state change is due.
LEMMA FiresFacts ==
  ASSUME IInv, NEW to, Fires(to)
  PROVE  /\ to = "IDLE" => 
              /\ macState \in {"RW1", "RW2", "ACK_TIMEOUT"}
              /\ trxState \in {"TRX_OFF", "RX_ON"}
              /\ RadioIdle
              /\ ackTimeOut = NotRunning
         /\ to = "TX" =>
              /\ macState = "IDLE"
              /\ trxState = "TRX_OFF"
              /\ RadioIdle
              /\ ackTimeOut = NotRunning
              /\ txPkt # NoPkt
              /\ offTime[Head(txQueue).sb] = 0
              /\ Head(txQueue).left > 0
         /\ to = "WAITFORRW1" =>
              /\ macState = "TX"
              /\ trxState = "BUSY_TX"
              /\ RadioIdle
              /\ ackTimeOut = NotRunning
              /\ sinceUplink = 0
         /\ to = "RW1" =>
              /\ macState = "WAITFORRW1"
              /\ trxState = "IDLE"
              /\ RadioIdle
              /\ ackTimeOut = NotRunning
              /\ preambleCheck = NotRunning
              /\ sinceUplink = ReceiveDelay1
         /\ to = "WAITFORRW2" =>
              /\ macState = "RW1"
              /\ trxState = "RX_ON"
              /\ RadioIdle
              /\ ackTimeOut = NotRunning
              /\ preambleCheck = NotRunning
         /\ to = "RW2" =>
              /\ macState = "WAITFORRW2"
              /\ trxState = "IDLE"
              /\ RadioIdle
              /\ ackTimeOut = NotRunning
              /\ sinceUplink = ReceiveDelay2
              /\ preambleCheck = NotRunning
         /\ to = "ACK_TIMEOUT" =>
              /\ macState = "RW2"
              /\ trxState = "RX_ON"
              /\ RadioIdle
              /\ ackTimeOut > 0
         /\ to \in MacStates
<1>1. setMacState # <<>> /\ \A st, d : Pending(st, d) => st = to /\ d = 0
  BY FiresAlone, PendingIs
<1>2. macState \in MacStates
  BY DEF IInv, TypeOK
<1> USE <1>1, <1>2, IInv DEF IInv, RadioIdle, MacStates
<1>3. CASE macState = "IDLE"
  BY <1>3 DEF IdleInv
<1>4. CASE macState = "TX"
  BY <1>4 DEF TxInv
<1>5. CASE macState \in {"WAITFORRW1", "WAITFORRW2"}
  <2>1. WaitInv /\ sinceUplink \in Nat /\ preambleCheck \in Timers
    BY DEF TypeOK
  <2>2. CASE macState = "WAITFORRW1"
    <3>1. to = "RW1" /\ ReceiveDelay1 - sinceUplink = 0
      BY <2>1, <2>2 DEF WaitInv
    <3>2. sinceUplink = ReceiveDelay1 /\ preambleCheck = NotRunning
      BY <3>1, <2>1, <2>2, Times, TimerType, OrderAssumption DEF WaitInv
    <3> QED BY <2>1, <2>2, <3>1, <3>2 DEF WaitInv
  <2>3. CASE macState = "WAITFORRW2"
    BY <2>1, <2>3, Times DEF WaitInv
  <2> QED BY <1>5, <2>2, <2>3
<1>6. CASE macState \in {"RW1", "RW2"}
  BY <1>6 DEF WindowInv, AckInv
<1>7. CASE macState = "ACK_TIMEOUT"
  BY <1>7 DEF AckInv
<1> QED BY <1>3, <1>4, <1>5, <1>6, <1>7

-----------------------------------------------------------------------------
(***************************************************************************)
(* The actions.                                                            *)
(***************************************************************************)
\* The start of a transmission preserves the invariant.
LEMMA EnterTxStep ==
  ASSUME IInv, EnterTx
  PROVE  IInv'
<1>1. /\ macState = "IDLE" /\ macState' = "TX" /\ setMacState' = <<>>
      /\ trxState = "TRX_OFF" /\ RadioIdle /\ ackTimeOut = NotRunning
      /\ txPkt # NoPkt /\ Head(txQueue).left > 0
      /\ setMacState # <<>> /\ \A sb \in SubBands : subBandTimers[sb] # 0
      /\ offTime[Head(txQueue).sb] = 0
  BY FiresAlone, FiresFacts, Singleton DEF EnterTx, Fires, TimerDue
<1>2. /\ trxState' = "BUSY_TX" /\ endTx' = Head(txQueue).air
      /\ Head(txQueue) \in Elements /\ txQueue # <<>>
  BY <1>1, TailLemma DEF EnterTx, ConfigurePhyForTX, IInv, QueueInv, TypeOK
<1>3. endTx' \in Timers /\ endTx' # NotRunning
  BY <1>2, Times, TimerType DEF Elements
<1>4. offTime' \in [SubBands -> Nat]
  <2>1. /\ Head(txQueue).sb \in SubBands /\ Head(txQueue).air \in AirTimes
        /\ offTime \in [SubBands -> Nat]
    BY <1>2 DEF IInv, TypeOK, Elements
  <2>2. Head(txQueue).air * DutyCycleLimit[Head(txQueue).sb] \in Nat
    BY <2>1, Times, ProductType
  <2>3. offTime' = [offTime EXCEPT ![Head(txQueue).sb] =
                      Head(txQueue).air * DutyCycleLimit[Head(txQueue).sb]]
    BY <1>1 DEF EnterTx, ConfigurePhyForTX, UpdateRDCTimerForSubBand
  <2> QED BY <2>1, <2>2, <2>3
<1>5. TypeOK'
  BY <1>1, <1>2, <1>3, <1>4 DEF EnterTx, IInv, TypeOK, queue, MacStates, TrxStates
<1>6. IdleInv' /\ TxInv' /\ WaitInv' /\ WindowInv'
  BY <1>1, <1>2, <1>3 DEF EnterTx, IdleInv, TxInv, WaitInv, WindowInv, queue,
     RadioIdle
<1>7. AckInv'
  BY <1>1, <1>2 DEF EnterTx, AckInv, queue, RadioIdle, NoRx
<1>8. SubBandInv'
  BY <1>1 DEF EnterTx, IInv, SubBandInv
<1>9. QueueInv'
  BY <1>1 DEF EnterTx, IInv, QueueInv, AttemptsCounted, Sending, queue
<1> QED BY <1>5, <1>6, <1>7, <1>8, <1>9 DEF IInv, EnterTx

\* Waiting for RW1 preserves the invariant: RW1 is scheduled for its time.
LEMMA EnterWaitForRW1Step ==
  ASSUME IInv, EnterWaitForRW1
  PROVE  IInv'
<1>1. /\ macState = "TX" /\ macState' = "WAITFORRW1"
      /\ setMacState' = <<Event("RW1", ReceiveDelay1)>>
      /\ RadioIdle /\ ackTimeOut = NotRunning /\ sinceUplink = 0
      /\ trxState' = "IDLE" /\ setMacState # <<>>
  BY FiresAlone, FiresFacts, Singleton DEF EnterWaitForRW1, Fires
<1>2. TypeOK'
  BY <1>1, TimesAssumption, EventFields DEF EnterWaitForRW1, IInv, TypeOK,
     queue, rdc, MacStates, TrxStates
<1>3. WaitInv'
  <2>1. /\ sinceUplink' = 0 /\ sinceUplink' <= ReceiveDelay1
        /\ ReceiveDelay1 - sinceUplink' = ReceiveDelay1
    BY <1>1, Times DEF EnterWaitForRW1
  <2>2. preambleCheck' # NotRunning => preambleCheck' + sinceUplink' <= PreambleTime
    BY <2>1, Times, TimerType DEF EnterWaitForRW1, IInv, TypeOK
  <2>3. RadioIdle' /\ ackTimeOut' = NotRunning
    BY <1>1 DEF EnterWaitForRW1, RadioIdle
  <2> QED BY <1>1, <2>1, <2>2, <2>3 DEF WaitInv, Pending
<1>4. IdleInv' /\ TxInv' /\ WindowInv'
  BY <1>1 DEF EnterWaitForRW1, IdleInv, TxInv, WindowInv
<1>7. AckInv'
  BY <1>1 DEF EnterWaitForRW1, IInv, AckInv, queue, RadioIdle, NoRx
<1>8. SubBandInv'
  BY <1>1 DEF EnterWaitForRW1, IInv, SubBandInv, rdc
<1>9. QueueInv'
  BY <1>1 DEF EnterWaitForRW1, IInv, QueueInv, AttemptsCounted, Sending, queue
<1> QED BY <1>2, <1>3, <1>4, <1>7, <1>8, <1>9 DEF IInv, EnterWaitForRW1

\* Waiting for RW2 preserves the invariant: RW2 is scheduled for its time.
LEMMA EnterWaitForRW2Step ==
  ASSUME IInv, EnterWaitForRW2
  PROVE  IInv'
<1>1. /\ macState = "RW1" /\ macState' = "WAITFORRW2"
      /\ setMacState' = <<Event("RW2", ReceiveDelay2 - sinceUplink)>>
      /\ RadioIdle /\ ackTimeOut = NotRunning /\ preambleCheck = NotRunning
      /\ sinceUplink <= ReceiveDelay2
      /\ trxState' = "IDLE" /\ setMacState # <<>>
  BY FiresAlone, FiresFacts, Singleton DEF EnterWaitForRW2, Fires
<1>2. TypeOK'
  <2>1. ReceiveDelay2 - sinceUplink \in Nat
    BY <1>1, Times DEF IInv, TypeOK
  <2>2. setMacState' \in Seq(StateEvents)
    BY <1>1, <2>1, EventFields DEF MacStates
  <2> QED BY <1>1, <2>2 DEF EnterWaitForRW2, IInv, TypeOK, queue, rdc,
       MacStates, TrxStates
<1>3. WaitInv'
  BY <1>1, TimesAssumption DEF EnterWaitForRW2, IInv, TypeOK, WaitInv, Pending,
     RadioIdle, NoRx
<1>4. IdleInv' /\ TxInv' /\ WindowInv'
  BY <1>1 DEF EnterWaitForRW2, IdleInv, TxInv, WindowInv
<1>7. AckInv'
  BY <1>1 DEF EnterWaitForRW2, IInv, AckInv, queue, RadioIdle, NoRx
<1>8. SubBandInv'
  BY <1>1 DEF EnterWaitForRW2, IInv, SubBandInv, rdc
<1>9. QueueInv'
  BY <1>1 DEF EnterWaitForRW2, IInv, QueueInv, AttemptsCounted, Sending, queue
<1> QED BY <1>1, <1>2, <1>3, <1>4, <1>7, <1>8, <1>9 DEF IInv, EnterWaitForRW2

\* Waiting for the Ack timer preserves the invariant.
LEMMA EnterAckTimeoutStep ==
  ASSUME IInv, EnterAckTimeout
  PROVE  IInv'
<1>1. /\ macState = "RW2" /\ macState' = "ACK_TIMEOUT"
      /\ setMacState' = <<>>
      /\ RadioIdle /\ ackTimeOut > 0
      /\ trxState' = "TRX_OFF" /\ setMacState # <<>>
  BY FiresAlone, FiresFacts, Singleton DEF EnterAckTimeout, Fires
<1>2. TypeOK'
  BY <1>1 DEF EnterAckTimeout, IInv, TypeOK, queue, rdc, MacStates, TrxStates
<1>4. IdleInv' /\ TxInv' /\ WindowInv' /\ WaitInv'
  BY <1>1 DEF EnterAckTimeout, IdleInv, TxInv, WindowInv, WaitInv
<1>7. AckInv'
  BY <1>1 DEF EnterAckTimeout, IInv, AckInv, queue, RadioIdle, NoRx, AwaitsAck,
     NotRunning
<1>8. SubBandInv'
  BY <1>1 DEF EnterAckTimeout, IInv, SubBandInv, rdc
<1>9. QueueInv'
  BY <1>1 DEF EnterAckTimeout, IInv, QueueInv, AttemptsCounted, Sending, queue
<1> QED BY <1>2, <1>4, <1>7, <1>8, <1>9 DEF IInv, EnterAckTimeout

\* Opening a receive window preserves the invariant.
LEMMA EnterWindowStep ==
  ASSUME IInv, NEW w \in {"RW1", "RW2"}, EnterWindow(w)
  PROVE  IInv'
<1>1. /\ macState = (IF w = "RW1" THEN "WAITFORRW1" ELSE "WAITFORRW2")
      /\ macState' = w
      /\ setMacState' = <<>>
      /\ RadioIdle /\ ackTimeOut = NotRunning
      /\ trxState' = "RX_ON" /\ preambleCheck' = PreambleTime /\ setMacState # <<>>
  BY FiresAlone, FiresFacts, Singleton DEF EnterWindow, Fires, OpenRW
<1>0. ackTimeOut' = NotRunning \/ (w = "RW2" /\ AwaitsAck /\ ackTimeOut' \in AckTimeouts)
  BY <1>1 DEF EnterWindow, OpenRW
<1>2. TypeOK'
  BY <1>1, <1>0, Times, TimerType DEF EnterWindow, IInv, TypeOK, queue, rdc,
     MacStates, TrxStates
<1>4. IdleInv' /\ TxInv' /\ WaitInv'
  BY <1>1 DEF EnterWindow, IdleInv, TxInv, WaitInv
<1>5. WindowInv'
  BY <1>1, TimesAssumption DEF EnterWindow, WindowInv, RadioIdle, NotRunning
<1>7. AckInv'
  BY <1>1, <1>0, OrderAssumption DEF EnterWindow, IInv, AckInv, queue,
     RadioIdle, NoRx, AwaitsAck, NotRunning
<1>8. SubBandInv'
  BY <1>1 DEF EnterWindow, IInv, SubBandInv, rdc
<1>9. QueueInv'
  BY <1>1 DEF EnterWindow, IInv, QueueInv, AttemptsCounted, Sending, queue
<1> QED BY <1>1, <1>2, <1>4, <1>5, <1>7, <1>8, <1>9, TimesAssumption DEF IInv,
     EnterWindow

\* Opening RW2 too late and closing it at once preserves the invariant.
LEMMA MissRW2Step ==
  ASSUME IInv, MissRW2
  PROVE  IInv'
<1>0. Fires("WAITFORRW2")
  BY DEF MissRW2
<1>1. /\ macState = "RW1" 
      /\ macState' = "RW2"
      /\ setMacState # <<>>
      /\ RadioIdle /\ ackTimeOut = NotRunning
      /\ trxState' = "RX_ON" /\ preambleCheck' = PreambleTime
  BY <1>0, FiresAlone, FiresFacts, Singleton DEF MissRW2, Fires, OpenRW
<1>a. setMacState' = <<Event(AfterWindow("RW2", ackTimeOut' # NotRunning), 0)>>
  BY <1>0, FiresAlone, Singleton DEF MissRW2
<1>2. \/ ackTimeOut' = NotRunning /\ setMacState' = <<Event("IDLE", 0)>>
      \/ AwaitsAck /\ ackTimeOut' \in AckTimeouts /\ setMacState' = <<Event("ACK_TIMEOUT", 0)>>
  BY <1>1, <1>a, TimesAssumption DEF MissRW2, OpenRW, AfterWindow, NotRunning
<1>3. TypeOK'
  <2>1. ackTimeOut' \in Timers /\ preambleCheck' \in Timers
    BY <1>1, <1>2, Times, TimerType
  <2>2. setMacState' \in Seq(StateEvents)
    BY <1>2, EventSeq DEF MacStates
  <2>3. UNCHANGED <<queue, sinceUplink, endTx, rx, rdc>>
    BY DEF MissRW2
  <2> QED BY <1>1, <2>1, <2>2, <2>3 DEF IInv, TypeOK, queue, rdc, MacStates,
       TrxStates
<1>4. IdleInv' /\ TxInv' /\ WaitInv'
  BY <1>1 DEF MissRW2, IdleInv, TxInv, WaitInv
<1>5. WindowInv'
  BY <1>1, <1>2, Times, TimerType DEF MissRW2, WindowInv, RadioIdle, Pending
<1>7. AckInv'
  BY <1>1, <1>2, OrderAssumption DEF MissRW2, IInv, AckInv, queue, RadioIdle,
     NoRx, AwaitsAck, NotRunning
<1>8. SubBandInv'
  BY <1>1 DEF MissRW2, IInv, SubBandInv, rdc
<1>9. QueueInv'
  BY <1>1 DEF MissRW2, IInv, QueueInv, AttemptsCounted, Sending, queue
<1> QED BY <1>1, <1>3, <1>4, <1>5, <1>7, <1>8, <1>9, TimesAssumption DEF IInv,
     MissRW2

\* CloseRW schedules the state in which the MAC continues.
LEMMA CloseRWFacts ==
  ASSUME IInv, CloseRW, setMacState = <<>>, macState \in {"RW1", "RW2"}
  PROVE  setMacState' = <<Event(AfterWindow(macState, ackTimeOut # NotRunning), 0)>>
BY Singleton DEF CloseRW

\* The Ack timer alone tells where CloseRW goes from RW2: it runs only for a
\* confirmed frame.
LEMMA AfterWindowFacts ==
  ASSUME IInv
  PROVE  /\ macState = "RW1" => AfterWindow(macState, ackTimeOut # NotRunning) = "WAITFORRW2"
         /\ macState = "RW2" => AfterWindow(macState, ackTimeOut # NotRunning) =
              IF ackTimeOut # NotRunning THEN "ACK_TIMEOUT" ELSE "IDLE"
BY DEF IInv, AckInv, AfterWindow

\* The preamble check preserves the invariant, in a window and out of it.
LEMMA CheckPhyPreambleStep ==
  ASSUME IInv, CheckPhyPreamble
  PROVE  IInv'
<1>1. /\ preambleCheck = 0 /\ preambleCheck' = NotRunning
      /\ UNCHANGED <<macState, queue, ackTimeOut, sinceUplink, phy, rdc>>
  BY DEF CheckPhyPreamble
<1>2. \/ /\ UNCHANGED setMacState
         /\ macState \in {"RW1", "RW2"} => trxState = "BUSY_RX"
      \/ /\ macState \in {"RW1", "RW2"} /\ trxState = "RX_ON" /\ setMacState = <<>> /\ rx = NoRx
         /\ setMacState' = <<Event(AfterWindow(macState, ackTimeOut # NotRunning), 0)>>
  BY <1>1, CloseRWFacts DEF CheckPhyPreamble, CloseRW, IInv, WindowInv
<1>3. ASSUME UNCHANGED setMacState, macState \in {"RW1", "RW2"} => trxState = "BUSY_RX"
      PROVE  IInv'
  <2>1. TypeOK'
    BY <1>1, <1>3, TimerType DEF IInv, TypeOK, queue, phy, rdc
  <2>2. IdleInv' /\ TxInv'
    BY <1>1, <1>3 DEF IInv, IdleInv, TxInv, queue, phy, rdc, Pending, RadioIdle
  <2>3. WaitInv'
    BY <1>1, <1>3, TimerType, Times DEF IInv, TypeOK, WaitInv, queue, phy, rdc,
       Pending, RadioIdle
  <2>4. WindowInv'
    <3>1. ASSUME macState \in {"RW1", "RW2"}
          PROVE  /\ endTx' = NotRunning /\ trxState' = "BUSY_RX" /\ setMacState' = <<>>
                 /\ rx'.left > preambleCheck'
      <4>1. rx.left \in Timers
        BY DEF IInv, TypeOK
      <4>0. trxState = "BUSY_RX" /\ WindowInv
        BY <3>1, <1>3 DEF IInv
      <4>2. endTx = NotRunning /\ rx.left > preambleCheck /\ setMacState = <<>>
        BY <3>1, <4>0 DEF WindowInv
      <4>3. rx'.left > preambleCheck'
        <5>1. rx'.left = rx.left
          BY <1>1 DEF phy
        <5>2. rx.left \in Int /\ rx.left > 0
          BY <1>1, <4>1, <4>2, TimerType
        <5>3. preambleCheck' = -1
          BY <1>1, TimerType
        <5> QED BY <5>1, <5>2, <5>3
      <4> QED BY <3>1, <1>1, <1>3, <4>0, <4>2, <4>3 DEF phy
    <3> QED BY <1>1, <3>1 DEF WindowInv
  <2>5. AckInv'
    BY <1>1, <1>3 DEF IInv, AckInv, queue, phy, rdc, Pending, RadioIdle, AwaitsAck
  <2>6. SubBandInv' /\ QueueInv'
    BY <1>1, <1>3 DEF IInv, SubBandInv, QueueInv, AttemptsCounted, Sending,
       queue, rdc
  <2> QED BY <1>1, <2>1, <2>2, <2>3, <2>4, <2>5, <2>6, Times, TimerType DEF IInv
<1>4. ASSUME macState \in {"RW1", "RW2"}, trxState = "RX_ON", setMacState = <<>>, rx = NoRx,
             setMacState' = <<Event(AfterWindow(macState, ackTimeOut # NotRunning), 0)>>
      PROVE  IInv'
  <2>0. \/ macState = "RW1" /\ setMacState' = <<Event("WAITFORRW2", 0)>>
        \/ macState = "RW2" /\ ackTimeOut > 0 /\ setMacState' = <<Event("ACK_TIMEOUT", 0)>>
        \/ macState = "RW2" /\ ackTimeOut = NotRunning /\ setMacState' = <<Event("IDLE", 0)>>
    BY <1>1, <1>4, AfterWindowFacts, TimerType DEF IInv, AckInv, TypeOK
  <2>1. TypeOK'
    <3>1. setMacState' \in Seq(StateEvents)
      BY <2>0, EventSeq DEF MacStates
    <3> QED BY <1>1, <3>1, TimerType DEF IInv, TypeOK, queue, phy, rdc
  <2>2. IdleInv' /\ TxInv' /\ WaitInv'
    BY <1>1, <1>4 DEF IdleInv, TxInv, WaitInv
  <2>4. WindowInv'
    BY <1>1, <1>4, <2>0, TimerType DEF IInv, WindowInv, phy, Pending
  <2>5. AckInv'
    BY <1>1, <1>4 DEF IInv, AckInv, queue, phy, AwaitsAck, NoRx
  <2>6. SubBandInv' /\ QueueInv'
    BY <1>1, <1>4 DEF IInv, SubBandInv, QueueInv, AttemptsCounted, Sending,
       queue, rdc
  <2> QED BY <1>1, <2>1, <2>2, <2>4, <2>5, <2>6, Times, TimerType DEF IInv
<1> QED BY <1>2, <1>3, <1>4

\* The expiry of the Ack timer preserves the invariant.
LEMMA AckTimeoutExpiredStep ==
  ASSUME IInv, AckTimeoutExpired
  PROVE  IInv'
<1>1. /\ ackTimeOut = 0 /\ ackTimeOut' = NotRunning /\ ackTimeOut # NotRunning
      /\ UNCHANGED <<macState, queue, preambleCheck, sinceUplink, phy, rdc>>
  BY TimerType DEF AckTimeoutExpired
<1>2. AwaitsAck /\ macState \in {"RW2", "ACK_TIMEOUT"}
  BY <1>1 DEF IInv, AckInv
<1>3. ASSUME macState = "RW2"
      PROVE  IInv'
  <2>0. UNCHANGED setMacState
    BY <1>3 DEF AckTimeoutExpired
  <2>1. TypeOK'
    BY <1>1, <2>0, TimerType DEF IInv, TypeOK, queue, phy, rdc
  <2>2. IdleInv' /\ TxInv' /\ WaitInv'
    BY <1>1, <1>3 DEF IdleInv, TxInv, WaitInv
  <2>3. WindowInv'
    <3>0. WindowInv /\ AckInv /\ preambleCheck \in Timers
      BY DEF IInv, TypeOK
    <3>1. preambleCheck = NotRunning
      BY <3>0, <1>1, <1>3, TimerType DEF AckInv
    <3>2. /\ trxState = "BUSY_RX"
          /\ rx.left > preambleCheck
          /\ setMacState = <<>>
          /\ endTx = NotRunning
      BY <3>0, <3>1, <1>1, <1>3 DEF WindowInv, Pending
    <3> QED BY <3>2, <1>1, <2>0 DEF WindowInv, phy
  <2>4. AckInv'
    BY <1>1, <1>3 DEF IInv, AckInv, queue, phy, AwaitsAck
  <2>5. SubBandInv' /\ QueueInv'
    BY <1>1, <2>0 DEF IInv, SubBandInv, QueueInv, AttemptsCounted, Sending,
       queue, rdc
  <2> QED BY <1>1, <2>1, <2>2, <2>3, <2>4, <2>5 DEF IInv
<1>4. ASSUME macState = "ACK_TIMEOUT"
      PROVE  IInv'
  <2>0. trxState = "TRX_OFF" /\ RadioIdle /\ setMacState = <<>>
    BY <1>4, <1>1 DEF IInv, AckInv
  <2>a. setMacState' = <<Event("IDLE", 0)>>
    BY <1>4, <2>0, Singleton DEF AckTimeoutExpired
  <2>1. TypeOK'
    BY <1>1, <2>a, TimerType, EventSeq DEF IInv, TypeOK, queue, phy, rdc,
       MacStates
  <2>2. IdleInv' /\ TxInv' /\ WaitInv' /\ WindowInv'
    BY <1>1, <1>4 DEF IdleInv, TxInv, WaitInv, WindowInv
  <2>4. AckInv'
    BY <1>1, <1>4, <2>0, <2>a DEF AckInv, phy, Pending, RadioIdle, NoRx
  <2>5. SubBandInv' /\ QueueInv'
    BY <1>1, <1>4, <2>0, <2>a DEF IInv, SubBandInv, QueueInv, AttemptsCounted,
       Sending, queue, rdc
  <2> QED BY <1>1, <2>1, <2>2, <2>4, <2>5 DEF IInv
<1> QED BY <1>2, <1>3, <1>4

\* The start of a reception preserves the invariant if confirmed frames are
\* answered with Acks and no frame begins as a window closes.
LEMMA StartRxStep ==
  ASSUME IInv, NEW frame \in Frames, NEW air \in FrameTimes, StartRx(frame, air),
         frame = "data" => ~AwaitsAck, ArrivalAtClose = FALSE
  PROVE  IInv'
<1>1. /\ trxState = "RX_ON" /\ setMacState = <<>> /\ trxState' = "BUSY_RX"
      /\ rx' = [left |-> air, frame |-> frame]
      /\ frame = "data" => ~AwaitsAck
      /\ UNCHANGED <<mac, queue, endTx, rdc>>
  BY DEF StartRx
<1>2. macState \in {"RW1", "RW2"} /\ endTx = NotRunning
  BY <1>1 DEF IInv, IdleInv, TxInv, WaitInv, WindowInv, AckInv, TypeOK, MacStates
<1>3. air \in Nat /\ air > 0 /\ PreambleTime < air /\ rx'.left = air /\ rx'.frame = frame
  BY <1>1, Times, OrderAssumption
<1>4. TypeOK'
  BY <1>1, <1>3, TimerType DEF IInv, TypeOK, mac, queue, rdc, TrxStates
<1>5. IdleInv' /\ TxInv' /\ WaitInv'
  BY <1>1, <1>2 DEF IdleInv, TxInv, WaitInv, mac
<1>6. WindowInv'
  <2>1. air > preambleCheck
    BY <1>3, Times, TimerType DEF IInv, TypeOK
  <2> QED BY <1>1, <1>2, <1>3, <2>1 DEF WindowInv, mac
<1>7. AckInv'
  BY <1>1, <1>2, <1>3 DEF IInv, AckInv, mac, queue, AwaitsAck
<1>8. SubBandInv' /\ QueueInv'
  BY <1>1 DEF IInv, SubBandInv, QueueInv, AttemptsCounted, Sending, queue, rdc,
     mac
<1> QED BY <1>1, <1>4, <1>5, <1>6, <1>7, <1>8 DEF IInv, mac

\* A reception ends in an open window, after the preamble check.
LEMMA RxDueFacts ==
  ASSUME IInv, rx.left = 0
  PROVE  /\ macState \in {"RW1", "RW2"}
         /\ trxState = "BUSY_RX"
         /\ preambleCheck = NotRunning
         /\ setMacState = <<>>
         /\ endTx = NotRunning
<1>1. rx # NoRx /\ ~RadioIdle
  BY TimerType DEF NoRx, RadioIdle
<1>2. IdleInv /\ TxInv /\ WaitInv /\ WindowInv /\ AckInv
      /\ macState \in MacStates /\ preambleCheck \in Timers
  BY DEF IInv, TypeOK
<1>3. macState \in {"RW1", "RW2"}
  BY <1>1, <1>2 DEF IdleInv, TxInv, WaitInv, AckInv, MacStates
<1>4. /\ trxState = "BUSY_RX"
      /\ rx.left > preambleCheck
      /\ setMacState = <<>>
      /\ endTx = NotRunning
  BY <1>1, <1>2, <1>3 DEF WindowInv
<1> QED BY <1>2, <1>3, <1>4, TimerType

\* The radio without a reception.
LEMMA NoRxType == NoRx \in [left : Timers, frame : Frames] /\ NoRx.left = NotRunning
BY TimerType DEF NoRx, Frames

\* The end of a reception that is not accepted preserves the invariant.
LEMMA EndRxDroppedStep ==
  ASSUME IInv, EndRxDropped
  PROVE  IInv'
<1>1. /\ rx.left = 0 /\ ackTimeOut # 0
      /\ CloseRW /\ RadioAfterRx
      /\ UNCHANGED <<macState, preambleCheck, ackTimeOut, sinceUplink, queue, endTx, rdc>>
  BY DEF EndRxDropped, EndRxDue
<1>2. /\ macState \in {"RW1", "RW2"}
      /\ trxState' = "RX_ON" /\ rx' = NoRx
      /\ preambleCheck = NotRunning
      /\ setMacState = <<>>
      /\ endTx = NotRunning
  BY <1>1, RxDueFacts DEF RadioAfterRx
<1>3. \/ macState = "RW1" /\ setMacState' = <<Event("WAITFORRW2", 0)>>
      \/ macState = "RW2" /\ ackTimeOut > 0 /\ setMacState' = <<Event("ACK_TIMEOUT", 0)>>
      \/ macState = "RW2" /\ ackTimeOut = NotRunning /\ setMacState' = <<Event("IDLE", 0)>>
  BY <1>1, <1>2, CloseRWFacts, AfterWindowFacts, TimerType DEF IInv, TypeOK
<1>4. TypeOK'
  <2>1. setMacState' \in Seq(StateEvents)
    BY <1>3, EventSeq DEF MacStates
  <2> QED BY <1>1, <1>2, <2>1, NoRxType DEF IInv, TypeOK, queue, rdc, TrxStates
<1>5. IdleInv' /\ TxInv' /\ WaitInv'
  BY <1>1, <1>2 DEF IdleInv, TxInv, WaitInv
<1>6. WindowInv'
  BY <1>1, <1>2, <1>3, TimerType DEF WindowInv, Pending
<1>7. AckInv'
  BY <1>1, <1>2, NoRxType DEF IInv, AckInv, queue, AwaitsAck
<1>8. SubBandInv' /\ QueueInv'
  BY <1>1, <1>2 DEF IInv, SubBandInv, QueueInv, AttemptsCounted, Sending,
     queue, rdc
<1> QED BY <1>1, <1>4, <1>5, <1>6, <1>7, <1>8 DEF IInv

\* Removing the frame in flight leaves a queue of unused elements.
LEMMA PopFacts ==
  ASSUME TypeOK, QueueInv, txPkt # NoPkt,
         txQueue' = Tail(txQueue), txPkt' = NoPkt, retransmission' = 0
  PROVE  txQueue' \in Seq(Elements) /\ QueueInv'
<1>1. txQueue \in Seq(Elements) /\ txQueue # <<>>
  BY DEF TypeOK, QueueInv
<1>2. /\ txQueue' \in Seq(Elements)
      /\ \A i \in 1 .. Len(txQueue') : txQueue'[i] = txQueue[i + 1] /\ i + 1 \in 1 .. Len(txQueue) /\ i + 1 > 1
      /\ txQueue' # <<>> => Head(txQueue') = txQueue[2] /\ 2 \in 1 .. Len(txQueue)
  BY <1>1, TailLemma
<1>3. \A i \in 1 .. Len(txQueue) : i > 1 => txQueue[i].left = txQueue[i].req
  BY DEF QueueInv
<1>4. AttemptsCounted'
  BY <1>2, <1>3 DEF AttemptsCounted
<1> QED BY <1>2, <1>3, <1>4 DEF QueueInv

\* The end of a reception that is accepted preserves the invariant: the Ack
\* timer does not survive it.
LEMMA EndRxAcceptedStep ==
  ASSUME IInv, EndRxAccepted
  PROVE  IInv'
<1>1. /\ rx.left = 0 /\ ackTimeOut # 0 /\ rx.frame # "other"
      /\ RadioAfterRx
      /\ UNCHANGED <<macState, preambleCheck, sinceUplink, endTx, rdc>>
  BY DEF EndRxAccepted, EndRxDue
<1>2. /\ macState \in {"RW1", "RW2"}
      /\ trxState' = "RX_ON" /\ rx' = NoRx
      /\ preambleCheck = NotRunning
      /\ setMacState = <<>>
      /\ endTx = NotRunning
  BY <1>1, RxDueFacts DEF RadioAfterRx
<1>3. setMacState' = <<Event("IDLE", 0)>>
  BY <1>2, Singleton DEF EndRxAccepted
<1>4. /\ ackTimeOut' = NotRunning
      /\ txQueue' \in Seq(Elements) /\ QueueInv'
      /\ txPkt' \in Pkts \union {NoPkt} /\ retransmission' \in 0 .. MaxTransmissions
      /\ outcome' \in [Pkts -> {"none", "waiting", "ok", "noack"}]
      /\ reported' \in SUBSET Pkts
  <2>1. CASE rx.frame = "ack" /\ txPkt # NoPkt
    <3>1. /\ ackTimeOut' = NotRunning /\ txPkt' = NoPkt /\ retransmission' = 0
          /\ txQueue' = Tail(txQueue) 
          /\ outcome' = [outcome EXCEPT ![Head(txQueue).id] = "ok"]
          /\ reported' = reported \union {Head(txQueue).id}
      BY <2>1 DEF EndRxAccepted, RemoveFirstTxQElement
    <3>2. Head(txQueue).id \in Pkts
      BY <2>1 DEF IInv, QueueInv, TypeOK
    <3>3. txQueue' \in Seq(Elements) /\ QueueInv'
      BY <2>1, <3>1, PopFacts DEF IInv
    <3> QED BY <3>1, <3>2, <3>3, Times DEF IInv, TypeOK
  <2>2. CASE ~(rx.frame = "ack" /\ txPkt # NoPkt)
    <3>1. UNCHANGED <<ackTimeOut, queue>>
      BY <2>2 DEF EndRxAccepted
    <3>2. ~AwaitsAck
      BY <2>2, <1>1, TimerType DEF IInv, TypeOK, AckInv, AwaitsAck, Frames
    <3>3. ackTimeOut = NotRunning
      BY <3>2 DEF IInv, AckInv
    <3> QED BY <3>1, <3>3, <1>1, <1>2 DEF IInv, TypeOK, queue, QueueInv,
         AttemptsCounted, Sending
  <2> QED BY <2>1, <2>2
<1>5. TypeOK'
  <2>1. setMacState' \in Seq(StateEvents)
    BY <1>3, EventSeq DEF MacStates
  <2> QED BY <1>1, <1>2, <1>4, <2>1, NoRxType, TimerType DEF IInv, TypeOK, rdc,
       TrxStates
<1>6. IdleInv' /\ TxInv' /\ WaitInv'
  BY <1>1, <1>2 DEF IdleInv, TxInv, WaitInv
<1>7. WindowInv'
  BY <1>1, <1>2, <1>3, <1>4, TimerType DEF WindowInv, Pending
<1>8. AckInv'
  BY <1>1, <1>2, <1>4, NoRxType DEF AckInv
<1>9. SubBandInv'
  BY <1>1, <1>2 DEF IInv, SubBandInv, rdc
<1> QED BY <1>1, <1>4, <1>5, <1>6, <1>7, <1>8, <1>9 DEF IInv

\* The end of a transmission preserves the invariant: the attempt is counted.
LEMMA EndTxStep ==
  ASSUME IInv, EndTx
  PROVE  IInv'
<1>1. /\ endTx = 0 /\ endTx' = NotRunning /\ sinceUplink' = 0 /\ endTx # NotRunning
      /\ setMacState' = Append(setMacState, Event("WAITFORRW1", 0))
      /\ UNCHANGED <<macState, preambleCheck, ackTimeOut, trxState, rx, rdc>>
  BY TimerType DEF EndTx
<1>2. /\ macState = "TX" /\ setMacState = <<>> /\ txPkt # NoPkt
      /\ trxState = "BUSY_TX" /\ rx = NoRx /\ ackTimeOut = NotRunning
      /\ Head(txQueue).left > 0
  <2>1. IdleInv /\ TxInv /\ WaitInv /\ WindowInv /\ AckInv /\ macState \in MacStates
    BY DEF IInv, TypeOK
  <2>2. macState = "TX"
    BY <1>1, <2>1 DEF IdleInv, WaitInv, WindowInv, AckInv, RadioIdle, MacStates
  <2> QED BY <1>1, <2>1, <2>2 DEF TxInv
<1>3. setMacState' = <<Event("WAITFORRW1", 0)>>
  BY <1>1, <1>2, Singleton
<1>4. txQueue \in Seq(Elements) /\ txQueue # <<>> /\ Head(txQueue).id \in Pkts
  BY <1>2 DEF IInv, QueueInv, TypeOK
<1>5. outcome' \in [Pkts -> {"none", "waiting", "ok", "noack"}]
  BY <1>4 DEF EndTx, IInv, TypeOK
<1>6. /\ txQueue' \in Seq(Elements) /\ QueueInv'
      /\ txPkt' \in Pkts \union {NoPkt} /\ retransmission' \in 0 .. MaxTransmissions
      /\ reported' \in SUBSET Pkts
  <2>1. CASE ~Head(txQueue).conf /\ Head(txQueue).left = 1
    <3>1. RemoveFirstTxQElement(TRUE) /\ txPkt' = NoPkt
      BY <2>1 DEF EndTx
    <3>2. txQueue' = Tail(txQueue) /\ retransmission' = 0 /\ reported' = reported \union {Head(txQueue).id}
      BY <3>1 DEF RemoveFirstTxQElement
    <3>3. txQueue' \in Seq(Elements) /\ QueueInv'
      BY <1>2, <3>1, <3>2, PopFacts DEF IInv
    <3> QED BY <1>4, <3>1, <3>2, <3>3, Times DEF IInv, TypeOK
  <2>2. CASE Head(txQueue).conf \/ Head(txQueue).left # 1
    <3>1. txQueue' = OneAttemptLess(txQueue) /\ UNCHANGED <<txPkt, retransmission, reported>>
      BY <2>2 DEF EndTx
    <3>2. /\ txQueue' \in Seq(Elements)
          /\ Len(txQueue') = Len(txQueue)
          /\ txQueue' # <<>>
          /\ Head(txQueue') = txQueue'[1]
          /\ txQueue'[1].left = Head(txQueue).left - 1
          /\ txQueue'[1].id = Head(txQueue).id
          /\ txQueue'[1].conf = Head(txQueue).conf
          /\ txQueue'[1].req = Head(txQueue).req
          /\ \A i \in 2 .. Len(txQueue) : txQueue'[i] = txQueue[i]
      BY <1>2, <1>4, <3>1, DecLemma
    <3>3. /\ Head(txQueue).left \in Nat /\ Head(txQueue).req \in Nat /\ Head(txQueue).conf \in BOOLEAN
          /\ retransmission \in Nat
      <4>1. Head(txQueue) \in Elements
        BY <1>4
      <4> QED BY <4>1, ElementType, Times DEF IInv, TypeOK
    <3>4. /\ Head(txQueue).id = txPkt
          /\ Head(txQueue).left <= Head(txQueue).req
          /\ retransmission = Head(txQueue).req - Head(txQueue).left
          /\ \A i \in 1 .. Len(txQueue) : i > 1 => txQueue[i].left = txQueue[i].req
      <4>1. Sending /\ QueueInv
        BY <1>2 DEF Sending, IInv
      <4>2. retransmission + 0 = Head(txQueue).req - Head(txQueue).left
        BY <1>2, <4>1 DEF QueueInv, AttemptsCounted
      <4> QED BY <1>2, <3>3, <4>1, <4>2 DEF QueueInv
    <3>5. AttemptsCounted'
      <4>1. ~Sending'
        BY <1>1, <1>2, <1>3, Singleton DEF Sending
      <4>2. retransmission' + 1 = Head(txQueue').req - Head(txQueue').left
        <5>1. Head(txQueue').left = Head(txQueue).left - 1 /\ Head(txQueue').req = Head(txQueue).req
          BY <3>2
        <5> QED BY <5>1, <3>1, <3>3, <3>4
      <4> QED BY <1>2, <3>1, <3>2, <3>4, <4>1, <4>2 DEF AttemptsCounted
    <3>6. \A i \in 1 .. Len(txQueue') : i > 1 \/ txPkt' = NoPkt => txQueue'[i].left = txQueue'[i].req
      BY <1>2, <1>4, <3>1, <3>2, <3>4
    <3>7. QueueInv'
      BY <1>2, <2>2, <3>1, <3>2, <3>3, <3>4, <3>5, <3>6 DEF QueueInv
    <3> QED BY <3>1, <3>2, <3>7 DEF IInv, TypeOK
  <2> QED BY <2>1, <2>2 DEF EndTx
<1>7. TypeOK'
  <2>1. setMacState' \in Seq(StateEvents)
    BY <1>3, EventSeq DEF MacStates
  <2> QED BY <1>1, <1>5, <1>6, <2>1, TimerType DEF IInv, TypeOK, rdc
<1>8. IdleInv' /\ TxInv' /\ WaitInv' /\ WindowInv'
  BY <1>1, <1>2, <1>3 DEF IdleInv, TxInv, WaitInv, WindowInv, Pending
<1>9. AckInv'
  BY <1>1, <1>2, NoRxType DEF AckInv
<1>10. SubBandInv'
  BY <1>1, <1>2 DEF IInv, SubBandInv, rdc
<1> QED BY <1>1, <1>6, <1>7, <1>8, <1>9, <1>10 DEF IInv

\* What CheckQueue and CheckRetransmission leave behind in MAC_IDLE.
IdleChoice ==
  /\ \/ /\ setMacState = <<>>
        /\ txQueue # <<>> => subBandTimers[Head(txQueue).sb] # NotRunning
     \/ /\ Pending("TX", 0)
        /\ txPkt # NoPkt
        /\ offTime[Head(txQueue).sb] = 0
  /\ txPkt # NoPkt => Head(txQueue).left > 0

TimersFit(timers, elements) ==
  \A sb \in SubBands : timers[sb] # NotRunning =>
    /\ elements # <<>>
    /\ sb = Head(elements).sb
    /\ timers[sb] = offTime[sb]

\* ScheduleSubBandTimer keeps the timers in step with the sub bands.
LEMMA ScheduleFacts ==
  ASSUME NEW timers \in [SubBands -> Timers], NEW elements \in Seq(Elements), elements # <<>>,
         offTime \in [SubBands -> Nat], TimersFit(timers, elements),
         NEW new, new = ScheduleSubBandTimer(Head(elements).sb, timers)
  PROVE  /\ new \in [SubBands -> Timers]
         /\ new[Head(elements).sb] # NotRunning
         /\ TimersFit(new, elements)
<1>1. Head(elements).sb \in SubBands /\ offTime[Head(elements).sb] \in Nat
  BY ElementType
<1>2. new = [timers EXCEPT ![Head(elements).sb] = IF timers[Head(elements).sb] = NotRunning
                                                  THEN offTime[Head(elements).sb]
                                                  ELSE timers[Head(elements).sb]]
  BY Zenon DEF ScheduleSubBandTimer
<1> DEFINE h == Head(elements).sb
           t == IF timers[h] = NotRunning THEN offTime[h] ELSE timers[h]
<1>3. t \in Timers /\ t # NotRunning /\ t = offTime[h]
  BY <1>1, TimerType DEF TimersFit
<1>4. new = [timers EXCEPT ![h] = t]
  BY <1>2
<1> HIDE DEF t, h
<1>5. h = Head(elements).sb /\ h \in SubBands
  BY <1>1 DEF h
<1>6. new \in [SubBands -> Timers] /\ new[h] = t
  BY <1>3, <1>4, <1>5
<1>7. \A sb \in SubBands : sb # h => new[sb] = timers[sb]
  BY <1>4, <1>5
<1>8. TimersFit(new, elements)
  BY <1>3, <1>5, <1>6, <1>7 DEF TimersFit
<1> QED BY <1>3, <1>5, <1>6, <1>8

\* CheckQueue does nothing outside MAC_IDLE, with a frame in flight or a state
\* change under way.
LEMMA CheckQueueNotReady ==
  ASSUME NEW elements, NEW pkt, NEW pending, NEW timers,
         CheckQueue(elements, pkt, pending, timers),
         macState' # "IDLE" \/ pkt # NoPkt \/ pending # <<>> \/ elements = <<>>
  PROVE  txPkt' = pkt /\ setMacState' = pending /\ subBandTimers' = timers
BY DEF CheckQueue

\* CheckQueue in MAC_IDLE sends the head of the queue or waits for its sub band.
LEMMA CheckQueueIdle ==
  ASSUME NEW elements \in Seq(Elements), NEW timers \in [SubBands -> Timers],
         offTime \in [SubBands -> Nat], TimersFit(timers, elements),
         macState' = "IDLE",
         CheckQueue(elements, NoPkt, <<>>, timers)
  PROVE  /\ subBandTimers' \in [SubBands -> Timers]
         /\ TimersFit(subBandTimers', elements)
         /\ txPkt' \in Pkts \union {NoPkt}
         /\ setMacState' \in Seq(StateEvents)
         /\ \/ /\ setMacState' = <<>>
               /\ txPkt' = NoPkt
               /\ elements # <<>> => subBandTimers'[Head(elements).sb] # NotRunning
            \/ /\ setMacState' = <<Event("TX", 0)>>
               /\ setMacState' # <<>>
               /\ elements # <<>>
               /\ txPkt' = Head(elements).id
               /\ txPkt' # NoPkt
               /\ offTime[Head(elements).sb] = 0
<1>1. CASE elements = <<>>
  <2>1. txPkt' = NoPkt /\ setMacState' = <<>> /\ subBandTimers' = timers
    BY <1>1 DEF CheckQueue
  <2> QED BY <1>1, <2>1
<1>2. CASE elements # <<>> /\ IsSubBandAvailable(Head(elements).sb)
  <2>1. txPkt' = Head(elements).id /\ setMacState' = <<Event("TX", 0)>> /\ subBandTimers' = timers
    BY <1>2 DEF CheckQueue
  <2>2. Head(elements).id \in Pkts /\ Head(elements).id # NoPkt
    BY <1>2, ElementType, PktsAssumption
  <2>3. setMacState' \in Seq(StateEvents) /\ setMacState' # <<>>
    BY <2>1, EventSeq, Singleton DEF MacStates
  <2> QED BY <1>2, <2>1, <2>2, <2>3 DEF IsSubBandAvailable
<1>3. CASE elements # <<>> /\ ~IsSubBandAvailable(Head(elements).sb)
  <2>1. txPkt' = NoPkt /\ setMacState' = <<>> /\ subBandTimers' = ScheduleSubBandTimer(Head(elements).sb, timers)
    BY <1>3 DEF CheckQueue
  <2> QED BY <1>3, <2>1, ScheduleFacts
<1> QED BY <1>1, <1>2, <1>3

\* The head of a queue of unused elements is taken up with all its attempts.
LEMMA FreshQueue ==
  ASSUME txQueue' \in Seq(Elements), retransmission' = 0, macState' = "IDLE",
         \A i \in 1 .. Len(txQueue') : txQueue'[i].left = txQueue'[i].req,
         UNCHANGED offTime,
         /\ \/ /\ setMacState' = <<>>
               /\ txPkt' = NoPkt
               /\ txQueue' # <<>> => subBandTimers'[Head(txQueue').sb] # NotRunning
            \/ /\ setMacState' = <<Event("TX", 0)>>
               /\ setMacState' # <<>>
               /\ txQueue' # <<>>
               /\ txPkt' = Head(txQueue').id
               /\ txPkt' # NoPkt
               /\ offTime[Head(txQueue').sb] = 0
  PROVE  IdleChoice' /\ QueueInv'
<1>1. txQueue' # <<>> => /\ Head(txQueue') \in Elements
                        /\ Head(txQueue').left = Head(txQueue').req
                        /\ Head(txQueue').req \in Nat /\ Head(txQueue').req > 0
                        /\ Head(txQueue').left \in Nat
  <2>1. ASSUME txQueue' # <<>>
        PROVE  Head(txQueue') \in Elements /\ Head(txQueue').left = Head(txQueue').req
    BY <2>1, TailLemma
  <2> QED BY <2>1, ElementType
<1>2. CASE /\ setMacState' = <<>>
           /\ txPkt' = NoPkt
           /\ txQueue' # <<>> => subBandTimers'[Head(txQueue').sb] # NotRunning
  BY <1>1, <1>2 DEF IdleChoice, QueueInv, AttemptsCounted
<1>3. CASE /\ setMacState' = <<Event("TX", 0)>>
           /\ setMacState' # <<>>
           /\ txQueue' # <<>>
           /\ txPkt' = Head(txQueue').id
           /\ txPkt' # NoPkt
           /\ offTime[Head(txQueue').sb] = 0
  <2>1. IdleChoice'
    BY <1>1, <1>3 DEF IdleChoice, Pending
  <2>2. Sending'
    BY <1>3 DEF Sending
  <2>3. AttemptsCounted'
    BY <1>1, <1>3, <2>2 DEF AttemptsCounted
  <2> QED BY <1>1, <1>3, <2>1, <2>3 DEF QueueInv
<1> QED BY <1>2, <1>3

\* CheckRetransmission of a frame that has used at least one attempt.
LEMMA CheckRetransmissionIdle ==
  ASSUME TypeOK, QueueInv, txPkt # NoPkt, ~Sending,
         NEW timers \in [SubBands -> Timers], TimersFit(timers, txQueue),
         Exhausted(Head(txQueue)) => \A sb \in SubBands : timers[sb] = NotRunning,
         macState' = "IDLE", UNCHANGED offTime,
         CheckRetransmission(<<>>, timers)
  PROVE  /\ IdleChoice' /\ QueueInv'
         /\ TimersFit(subBandTimers', txQueue')
         /\ subBandTimers' \in [SubBands -> Timers]
         /\ txQueue' \in Seq(Elements)
         /\ setMacState' \in Seq(StateEvents)
         /\ txPkt' \in Pkts \union {NoPkt}
         /\ retransmission' \in 0 .. MaxTransmissions
         /\ outcome' \in [Pkts -> {"none", "waiting", "ok", "noack"}]
         /\ reported' \in SUBSET Pkts
<1> DEFINE e == Head(txQueue)
<1>1. /\ txQueue \in Seq(Elements) /\ txQueue # <<>> /\ e \in Elements
      /\ e.id = txPkt /\ e.id \in Pkts
      /\ e.left \in Nat /\ e.req \in Nat /\ e.left <= e.req /\ e.req <= MaxTransmissions
      /\ e.conf \in BOOLEAN
      /\ offTime \in [SubBands -> Nat]
  BY ElementType, TailLemma DEF TypeOK, QueueInv
<1>2. retransmission + 1 = e.req - e.left
  BY DEF QueueInv, AttemptsCounted
<1>3. \A i \in 1 .. Len(txQueue) : i > 1 => txQueue[i].left = txQueue[i].req
  BY DEF QueueInv
<1>4. CASE Exhausted(e)
  <2>1. /\ outcome' = [outcome EXCEPT ![e.id] = "noack"]
        /\ RemoveFirstTxQElement(FALSE)
        /\ CheckQueue(Tail(txQueue), NoPkt, <<>>, timers)
    BY <1>4 DEF CheckRetransmission
  <2>2. txQueue' = Tail(txQueue) /\ retransmission' = 0 /\ reported' = reported
    BY <2>1 DEF RemoveFirstTxQElement
  <2>3. /\ Tail(txQueue) \in Seq(Elements)
        /\ \A i \in 1 .. Len(txQueue') : txQueue'[i].left = txQueue'[i].req
    <3>1. \A i \in 1 .. Len(txQueue') :
            txQueue'[i] = txQueue[i + 1] /\ i + 1 \in 1 .. Len(txQueue) /\ i + 1 > 1
      BY <1>1, <2>2, TailLemma
    <3> QED BY <1>1, <1>3, <3>1, TailLemma
  <2>4. TimersFit(timers, Tail(txQueue))
    BY <1>4 DEF TimersFit
  <2>5. /\ subBandTimers' \in [SubBands -> Timers]
        /\ TimersFit(subBandTimers', txQueue')
        /\ txPkt' \in Pkts \union {NoPkt}
        /\ setMacState' \in Seq(StateEvents)
        /\ \/ /\ setMacState' = <<>>
              /\ txPkt' = NoPkt
              /\ txQueue' # <<>> => subBandTimers'[Head(txQueue').sb] # NotRunning
           \/ /\ setMacState' = <<Event("TX", 0)>>
              /\ setMacState' # <<>>
              /\ txQueue' # <<>>
              /\ txPkt' = Head(txQueue').id
              /\ txPkt' # NoPkt
              /\ offTime[Head(txQueue').sb] = 0
    BY <1>1, <2>1, <2>2, <2>3, <2>4, CheckQueueIdle
  <2>6. IdleChoice' /\ QueueInv'
    BY <2>2, <2>3, <2>5, FreshQueue
  <2> QED BY <1>1, <2>1, <2>2, <2>3, <2>5, <2>6, Times DEF TypeOK
<1>5. CASE ~Exhausted(e)
  <2>1. e.left > 0
    BY <1>1, <1>5 DEF Exhausted, QueueInv
  <2>2. UNCHANGED <<txQueue, txPkt, outcome, reported>>
    BY <1>5 DEF CheckRetransmission, queue
  <2>3. CASE IsSubBandAvailable(e.sb)
    <3>1. retransmission' = retransmission + 1 /\ setMacState' = <<Event("TX", 0)>> /\ subBandTimers' = timers
      BY <1>5, <2>3 DEF CheckRetransmission
    <3>2. setMacState' # <<>> /\ setMacState' \in Seq(StateEvents) /\ Sending'
      BY <3>1, Singleton, EventSeq DEF Sending, MacStates
    <3>3. retransmission' \in 0 .. MaxTransmissions /\ retransmission' + 0 = e.req - e.left
      BY <1>1, <1>2, <2>1, <3>1, Times DEF TypeOK
    <3>4. AttemptsCounted'
      BY <1>1, <2>2, <3>2, <3>3 DEF AttemptsCounted
    <3>5. QueueInv'
      BY <1>1, <1>3, <2>2, <3>4, <2>1 DEF QueueInv
    <3>6. IdleChoice'
      BY <2>1, <2>2, <2>3, <3>1 DEF IdleChoice, Pending, IsSubBandAvailable
    <3>7. TimersFit(subBandTimers', txQueue')
      BY <2>2, <3>1
    <3> QED BY <2>2, <3>1, <3>2, <3>3, <3>5, <3>6, <3>7 DEF TypeOK
  <2>4. CASE ~IsSubBandAvailable(e.sb)
    <3>1. retransmission' = retransmission /\ setMacState' = <<>> /\ subBandTimers' = ScheduleSubBandTimer(e.sb, timers)
      BY <1>5, <2>4 DEF CheckRetransmission, queue
    <3>2. /\ subBandTimers' \in [SubBands -> Timers]
          /\ subBandTimers'[e.sb] # NotRunning
          /\ TimersFit(subBandTimers', txQueue)
      BY <1>1, <3>1, ScheduleFacts
    <3>3. ~Sending'
      BY <3>1 DEF Sending
    <3>4. AttemptsCounted'
      BY <1>1, <1>2, <2>2, <3>1, <3>3 DEF AttemptsCounted
    <3>5. QueueInv'
      BY <1>1, <1>3, <2>2, <3>4, <2>1 DEF QueueInv
    <3>6. IdleChoice'
      BY <2>1, <2>2, <3>1, <3>2 DEF IdleChoice
    <3>7. TimersFit(subBandTimers', txQueue')
      BY <2>2, <3>2
    <3> QED BY <2>2, <3>1, <3>2, <3>5, <3>6, <3>7 DEF TypeOK
  <2> QED BY <2>3, <2>4
<1> QED BY <1>4, <1>5

\* In MAC_IDLE the invariant reduces to the choice that was made.
LEMMA IdleFromChoice ==
  ASSUME TypeOK', preambleCheck' <= PreambleTime,
         macState' = "IDLE", trxState' = "TRX_OFF", RadioIdle',
         ackTimeOut' = NotRunning, IdleChoice', QueueInv',
         TimersFit(subBandTimers', txQueue'), UNCHANGED offTime
  PROVE  IInv'
<1>1. IdleInv'
  BY DEF IdleInv, IdleChoice, Pending
<1>2. TxInv' /\ WaitInv' /\ WindowInv'
  BY DEF TxInv, WaitInv, WindowInv
<1>3. AckInv'
  BY NoRxType DEF AckInv, RadioIdle
<1>4. SubBandInv'
  BY DEF SubBandInv, TimersFit
<1> QED BY <1>1, <1>2, <1>3, <1>4 DEF IInv

\* Going to MAC_IDLE preserves the invariant.
LEMMA EnterIdleStep ==
  ASSUME IInv, EnterIdle
  PROVE  IInv'
<1>1. /\ macState' = "IDLE" /\ trxState' = "TRX_OFF"
      /\ UNCHANGED <<preambleCheck, ackTimeOut, sinceUplink, endTx, rx, offTime>>
      /\ Fires("IDLE")
  BY DEF EnterIdle
<1>2. /\ macState \in {"RW1", "RW2", "ACK_TIMEOUT"}
      /\ RadioIdle /\ ackTimeOut = NotRunning
      /\ Tail(setMacState) = <<>>
  BY <1>1, FiresFacts, FiresAlone
<1>3. /\ TypeOK /\ QueueInv /\ ~Sending
      /\ subBandTimers \in [SubBands -> Timers] /\ offTime \in [SubBands -> Nat]
      /\ \A sb \in SubBands : subBandTimers[sb] = NotRunning
      /\ \A q : TimersFit(subBandTimers, q)
  BY <1>2 DEF IInv, TypeOK, SubBandInv, Sending, TimersFit
<1>4. /\ IdleChoice' /\ QueueInv'
      /\ TimersFit(subBandTimers', txQueue')
      /\ subBandTimers' \in [SubBands -> Timers]
      /\ txQueue' \in Seq(Elements)
      /\ setMacState' \in Seq(StateEvents)
      /\ txPkt' \in Pkts \union {NoPkt}
      /\ retransmission' \in 0 .. MaxTransmissions
      /\ outcome' \in [Pkts -> {"none", "waiting", "ok", "noack"}]
      /\ reported' \in SUBSET Pkts
  <2>1. CASE txPkt # NoPkt
    <3>1. CheckRetransmission(<<>>, subBandTimers)
      BY <1>2, <2>1 DEF EnterIdle
    <3> QED BY <1>1, <1>3, <2>1, <3>1, CheckRetransmissionIdle
  <2>2. CASE txPkt = NoPkt
    <3>1. CheckQueue(txQueue, NoPkt, <<>>, subBandTimers)
          /\ UNCHANGED <<txQueue, retransmission, outcome, reported>>
      BY <1>2, <2>2 DEF EnterIdle
    <3>2. txQueue \in Seq(Elements)
      BY <1>3 DEF TypeOK
    <3>3. /\ subBandTimers' \in [SubBands -> Timers]
          /\ TimersFit(subBandTimers', txQueue')
          /\ txPkt' \in Pkts \union {NoPkt}
          /\ setMacState' \in Seq(StateEvents)
          /\ \/ /\ setMacState' = <<>>
                /\ txPkt' = NoPkt
                /\ txQueue' # <<>> => subBandTimers'[Head(txQueue').sb] # NotRunning
             \/ /\ setMacState' = <<Event("TX", 0)>>
                /\ setMacState' # <<>>
                /\ txQueue' # <<>>
                /\ txPkt' = Head(txQueue').id
                /\ txPkt' # NoPkt
                /\ offTime[Head(txQueue').sb] = 0
      BY <1>1, <1>3, <3>1, <3>2, CheckQueueIdle
    <3>4. /\ retransmission' = 0
          /\ \A i \in 1 .. Len(txQueue') : txQueue'[i].left = txQueue'[i].req
      BY <1>3, <2>2, <3>1 DEF QueueInv, AttemptsCounted
    <3>5. IdleChoice' /\ QueueInv'
      BY <1>1, <3>1, <3>2, <3>3, <3>4, FreshQueue
    <3> QED BY <1>3, <3>1, <3>2, <3>3, <3>5 DEF TypeOK
  <2> QED BY <2>1, <2>2
<1>5. TypeOK'
  BY <1>1, <1>3, <1>4 DEF TypeOK, MacStates, TrxStates
<1> QED BY <1>1, <1>2, <1>4, <1>5, IdleFromChoice DEF IInv, RadioIdle

\* The expiry of a sub band timer preserves the invariant.
LEMMA SubBandTimerExpiredStep ==
  ASSUME IInv, NEW sb \in SubBands, SubBandTimerExpired(sb)
  PROVE  IInv'
<1> DEFINE timers == [subBandTimers EXCEPT ![sb] = NotRunning]
<1>1. /\ subBandTimers[sb] = 0 /\ macState' = macState
      /\ UNCHANGED <<preambleCheck, ackTimeOut, sinceUplink, offTime, phy>>
  BY DEF SubBandTimerExpired
<1>2. /\ macState = "IDLE" /\ trxState = "TRX_OFF" /\ RadioIdle
      /\ ackTimeOut = NotRunning
      /\ txQueue # <<>> /\ sb = Head(txQueue).sb /\ offTime[sb] = 0
      /\ txPkt # NoPkt => Head(txQueue).left > 0
  BY <1>1, TimerType DEF IInv, SubBandInv, IdleInv
<1>3. /\ TypeOK /\ QueueInv
      /\ txQueue \in Seq(Elements)
      /\ timers \in [SubBands -> Timers] /\ offTime \in [SubBands -> Nat]
      /\ \A s \in SubBands : timers[s] = NotRunning
      /\ \A q : TimersFit(timers, q)
  BY <1>2, TimerType DEF IInv, TypeOK, SubBandInv, TimersFit
<1> HIDE DEF timers
<1>4. /\ IdleChoice' /\ QueueInv'
      /\ TimersFit(subBandTimers', txQueue')
      /\ subBandTimers' \in [SubBands -> Timers]
      /\ txQueue' \in Seq(Elements)
      /\ setMacState' \in Seq(StateEvents)
      /\ txPkt' \in Pkts \union {NoPkt}
      /\ retransmission' \in 0 .. MaxTransmissions
      /\ outcome' \in [Pkts -> {"none", "waiting", "ok", "noack"}]
      /\ reported' \in SUBSET Pkts
  <2>1. CASE txPkt # NoPkt /\ setMacState = <<>>
    <3>1. CheckRetransmission(<<>>, timers)
      BY <2>1 DEF SubBandTimerExpired, timers
    <3>2. ~Sending
      BY <1>2, <2>1 DEF Sending
    <3> QED BY <1>1, <1>2, <1>3, <2>1, <3>1, <3>2, CheckRetransmissionIdle
  <2>2. CASE txPkt = NoPkt
    <3>0. setMacState = <<>>
      BY <1>2, <2>2 DEF IInv, IdleInv
    <3>1. CheckQueue(txQueue, NoPkt, <<>>, timers)
          /\ UNCHANGED <<txQueue, retransmission, outcome, reported>>
      BY <2>2, <3>0 DEF SubBandTimerExpired, timers
    <3>3. /\ subBandTimers' \in [SubBands -> Timers]
          /\ TimersFit(subBandTimers', txQueue')
          /\ txPkt' \in Pkts \union {NoPkt}
          /\ setMacState' \in Seq(StateEvents)
          /\ \/ /\ setMacState' = <<>>
                /\ txPkt' = NoPkt
                /\ txQueue' # <<>> => subBandTimers'[Head(txQueue').sb] # NotRunning
             \/ /\ setMacState' = <<Event("TX", 0)>>
                /\ setMacState' # <<>>
                /\ txQueue' # <<>>
                /\ txPkt' = Head(txQueue').id
                /\ txPkt' # NoPkt
                /\ offTime[Head(txQueue').sb] = 0
      BY <1>1, <1>2, <1>3, <3>1, CheckQueueIdle
    <3>4. /\ retransmission' = 0
          /\ \A i \in 1 .. Len(txQueue') : txQueue'[i].left = txQueue'[i].req
      BY <1>3, <2>2, <3>1 DEF QueueInv, AttemptsCounted
    <3>5. IdleChoice' /\ QueueInv'
      BY <1>1, <1>2, <1>3, <3>1, <3>3, <3>4, FreshQueue
    <3> QED BY <1>3, <3>1, <3>3, <3>5 DEF TypeOK
  <2>3. CASE txPkt # NoPkt /\ setMacState # <<>>
    <3>1. CheckRetransmission(setMacState, timers) /\ ~Exhausted(Head(txQueue))
      BY <1>2, <2>3 DEF SubBandTimerExpired, timers, Exhausted
    <3>2. UNCHANGED <<setMacState, queue>> /\ subBandTimers' = timers
      BY <2>3, <3>1 DEF CheckRetransmission
    <3>3. IdleChoice'
      BY <1>1, <1>2, <2>3, <3>2 DEF IInv, IdleInv, IdleChoice, queue, Pending
    <3>4. QueueInv'
      BY <1>1, <1>3, <3>2 DEF QueueInv, AttemptsCounted, Sending, queue
    <3> QED BY <1>3, <3>2, <3>3, <3>4 DEF TypeOK, queue
  <2> QED BY <2>1, <2>2, <2>3
<1>5. TypeOK'
  BY <1>1, <1>3, <1>4 DEF TypeOK, phy
<1> QED BY <1>1, <1>2, <1>4, <1>5, IdleFromChoice DEF IInv, RadioIdle, phy

\* A request of the upper layer preserves the invariant, whenever it comes.
LEMMA SendStep ==
  ASSUME IInv, NEW p \in Pkts, NEW conf \in BOOLEAN, NEW sb \in SubBands,
         NEW air \in AirTimes, NEW n \in 1 .. MaxTransmissions,
         Send(p, conf, sb, air, n)
  PROVE  IInv'
<1> DEFINE e == [id |-> p, conf |-> conf, sb |-> sb, air |-> air,
                 req |-> n, left |-> n]
           elements == Append(txQueue, e)
<1>1. /\ macState' = macState /\ txQueue' = elements
      /\ outcome' = [outcome EXCEPT ![p] = "waiting"]
      /\ reported' = reported \ {p}
      /\ CheckQueue(elements, txPkt, setMacState, subBandTimers)
      /\ UNCHANGED <<retransmission, preambleCheck, ackTimeOut,
                     sinceUplink, offTime, phy>>
  BY DEF Send
<1>2. e \in Elements /\ e.left = n /\ e.req = n /\ n \in Nat
  BY Times DEF Elements
<1> HIDE DEF e
<1>3. txQueue \in Seq(Elements) /\ TypeOK /\ QueueInv
  BY DEF IInv, TypeOK
<1>4. /\ elements \in Seq(Elements) /\ elements # <<>>
      /\ Len(elements) = Len(txQueue) + 1
      /\ txQueue = <<>> => Head(elements) = e
      /\ txQueue # <<>> => Head(elements) = Head(txQueue)
      /\ \A i \in 1 .. Len(txQueue) : elements[i] = txQueue[i]
      /\ elements[Len(txQueue) + 1] = e
  BY <1>2, <1>3, AppendLemma
<1> HIDE DEF elements
<1>5. /\ outcome' \in [Pkts -> {"none", "waiting", "ok", "noack"}]
      /\ reported' \in SUBSET Pkts
  BY <1>1, <1>3 DEF TypeOK
<1>6. \A i \in 1 .. Len(txQueue') :
        i > 1 \/ txPkt = NoPkt => txQueue'[i].left = txQueue'[i].req
  <2>1. \A i \in 1 .. Len(txQueue) :
          i > 1 \/ txPkt = NoPkt => txQueue[i].left = txQueue[i].req
    BY <1>3 DEF QueueInv
  <2>2. \A i \in 1 .. Len(elements) : i \in 1 .. Len(txQueue) \/ i = Len(txQueue) + 1
    BY <1>3, <1>4
  <2> QED BY <1>1, <1>2, <1>4, <2>1, <2>2
<1>7. CASE macState = "IDLE" /\ setMacState = <<>> /\ txPkt = NoPkt
  <2>1. /\ trxState = "TRX_OFF" /\ RadioIdle /\ ackTimeOut = NotRunning
        /\ retransmission = 0
    BY <1>7 DEF IInv, IdleInv, QueueInv, AttemptsCounted
  <2>2. TimersFit(subBandTimers, elements)
    BY <1>4 DEF IInv, SubBandInv, TimersFit
  <2>3. offTime \in [SubBands -> Nat] /\ subBandTimers \in [SubBands -> Timers]
    BY <1>3 DEF TypeOK
  <2>4. CheckQueue(elements, NoPkt, <<>>, subBandTimers)
    BY <1>1, <1>7
  <2>5. /\ subBandTimers' \in [SubBands -> Timers]
        /\ TimersFit(subBandTimers', txQueue')
        /\ txPkt' \in Pkts \union {NoPkt}
        /\ setMacState' \in Seq(StateEvents)
        /\ \/ /\ setMacState' = <<>>
              /\ txPkt' = NoPkt
              /\ txQueue' # <<>> => subBandTimers'[Head(txQueue').sb] # NotRunning
           \/ /\ setMacState' = <<Event("TX", 0)>>
              /\ setMacState' # <<>>
              /\ txQueue' # <<>>
              /\ txPkt' = Head(txQueue').id
              /\ txPkt' # NoPkt
              /\ offTime[Head(txQueue').sb] = 0
    BY <1>1, <1>4, <1>7, <2>2, <2>3, <2>4, CheckQueueIdle
  <2>6. IdleChoice' /\ QueueInv'
    BY <1>1, <1>4, <1>6, <1>7, <2>1, <2>5, FreshQueue
  <2>7. TypeOK'
    BY <1>1, <1>3, <1>4, <1>5, <2>3, <2>5 DEF TypeOK, phy
  <2> QED BY <1>1, <1>7, <2>1, <2>5, <2>6, <2>7, IdleFromChoice DEF IInv,
       RadioIdle, phy
<1>8. CASE ~(macState = "IDLE" /\ setMacState = <<>> /\ txPkt = NoPkt)
  <2>1. UNCHANGED <<txPkt, setMacState, subBandTimers>>
    BY <1>1, <1>8 DEF CheckQueue
  <2>2. txPkt # NoPkt => txQueue # <<>> /\ Head(elements) = Head(txQueue)
    BY <1>3, <1>4 DEF QueueInv
  <2>3. TypeOK'
    BY <1>1, <1>3, <1>4, <1>5, <2>1 DEF TypeOK, phy
  <2>4. IdleInv'
    <3>1. ASSUME macState = "IDLE"
          PROVE  txPkt # NoPkt
      BY <1>8, <3>1 DEF IInv, IdleInv
    <3>2. IdleInv
      BY DEF IInv
    <3> QED BY <1>1, <2>1, <2>2, <3>1, <3>2 DEF IdleInv, RadioIdle, Pending, phy
  <2>5. TxInv' /\ WaitInv' /\ WindowInv'
    BY <1>1, <2>1, <2>2 DEF IInv, TxInv, WaitInv, WindowInv, RadioIdle,
       Pending, phy
  <2>6. AckInv'
    BY <1>1, <2>1, <2>2 DEF IInv, AckInv, AwaitsAck, RadioIdle, Pending, phy
  <2>7. SubBandInv'
    BY <1>1, <1>4, <2>1 DEF IInv, SubBandInv
  <2>8. AttemptsCounted'
    <3>1. CASE txPkt = NoPkt
      <4>1. retransmission' = 0 /\ Head(txQueue').left = Head(txQueue').req
        <5>1. Head(txQueue') = txQueue'[1] /\ 1 \in 1 .. Len(txQueue')
          BY <1>1, <1>4
        <5> QED BY <1>1, <1>3, <1>6, <3>1, <5>1 DEF QueueInv, AttemptsCounted
      <4> QED BY <2>1, <3>1, <4>1 DEF AttemptsCounted
    <3>2. CASE txPkt # NoPkt
      <4>1. Sending' <=> Sending
        BY <1>1, <2>1 DEF Sending
      <4> QED BY <1>1, <1>3, <1>4, <2>1, <2>2, <3>2, <4>1 DEF QueueInv,
           AttemptsCounted
    <3> QED BY <3>1, <3>2
  <2>9. QueueInv'
    BY <1>1, <1>3, <1>4, <1>6, <2>1, <2>2, <2>8 DEF QueueInv
  <2> QED BY <1>1, <2>3, <2>4, <2>5, <2>6, <2>7, <2>9 DEF IInv
<1> QED BY <1>7, <1>8

\* One unit of time neither starts nor stops a timer that is not due.
LEMMA AfterFacts ==
  ASSUME NEW t \in Timers, t # 0
  PROVE  /\ After(t) \in Timers
         /\ After(t) = NotRunning <=> t = NotRunning
         /\ t # NotRunning => After(t) = t - 1
         /\ After(t) <= t
BY TimerType DEF After

\* One unit of time brings the scheduled state change nearer.
LEMMA TickEvents ==
  ASSUME Tick, setMacState \in Seq(StateEvents)
  PROVE  /\ setMacState = <<>> => setMacState' = <<>>
         /\ \A to \in MacStates, delay \in Nat :
              Pending(to, delay) => delay # 0 /\ setMacState' = <<Event(to, delay - 1)>>
                                    /\ delay - 1 \in Nat
<1>1. /\ \A i \in 1 .. Len(setMacState) : setMacState[i].in # 0
      /\ setMacState' = [i \in 1 .. Len(setMacState) |-> Sooner(setMacState[i])]
  BY DEF Tick
<1>2. setMacState = <<>> => setMacState' = <<>>
  BY <1>1
<1>3. ASSUME NEW to \in MacStates, NEW delay \in Nat, setMacState = <<Event(to, delay)>>
      PROVE  delay # 0 /\ setMacState' = <<Event(to, delay - 1)>> /\ delay - 1 \in Nat
  <2>1. Len(setMacState) = 1 /\ setMacState[1] = Event(to, delay) /\ Event(to, delay).in = delay
    BY <1>3, Singleton, EventFields
  <2>2. delay # 0
    BY <1>1, <2>1
  <2>3. Sooner(Event(to, delay)) = Event(to, delay - 1)
    BY DEF Event, Sooner
  <2>4. setMacState' = [i \in 1 .. 1 |-> Event(to, delay - 1)]
    BY <1>1, <2>1, <2>3
  <2> QED BY <2>2, <2>4
<1> QED BY <1>2, <1>3 DEF Pending

\* One unit of time brings the end of a reception nearer.
LEMMA RxAfter ==
  ASSUME NEW r \in [left : Timers, frame : Frames], r.left # 0,
         NEW s, s = [r EXCEPT !.left = After(@)]
  PROVE  /\ s \in [left : Timers, frame : Frames]
         /\ s.left = After(r.left) /\ s.frame = r.frame
         /\ r = NoRx => s = NoRx
<1>1. s = [left |-> After(r.left), frame |-> r.frame]
  OBVIOUS
<1>2. After(r.left) \in Timers
  BY AfterFacts
<1>3. r = NoRx => After(r.left) = NotRunning /\ r.frame = "other"
  BY NoRxType DEF After, NoRx
<1> QED BY <1>1, <1>2, <1>3 DEF NoRx

\* The passage of time preserves the invariant.
LEMMA TickStep ==
  ASSUME IInv, Tick
  PROVE  IInv'
<1>1. /\ preambleCheck # 0 /\ ackTimeOut # 0 /\ endTx # 0 /\ rx.left # 0
      /\ \A sb \in SubBands : subBandTimers[sb] # 0
  BY DEF Tick, TimerDue
<1>2. /\ preambleCheck' = After(preambleCheck)
      /\ ackTimeOut' = After(ackTimeOut)
      /\ endTx' = After(endTx)
      /\ rx' = [rx EXCEPT !.left = After(@)]
      /\ sinceUplink' = IF sinceUplink <= ReceiveDelay2 THEN sinceUplink + 1
                                                        ELSE sinceUplink
      /\ offTime' = [sb \in SubBands |->
                       IF offTime[sb] = 0 THEN 0 ELSE offTime[sb] - 1]
      /\ subBandTimers' = [sb \in SubBands |-> After(subBandTimers[sb])]
      /\ UNCHANGED <<macState, queue, trxState>>
  BY DEF Tick
<1>3. /\ preambleCheck \in Timers /\ ackTimeOut \in Timers /\ endTx \in Timers
      /\ rx \in [left : Timers, frame : Frames] /\ rx.left \in Timers
      /\ sinceUplink \in Nat
      /\ offTime \in [SubBands -> Nat] /\ subBandTimers \in [SubBands -> Timers]
      /\ setMacState \in Seq(StateEvents)
      /\ TypeOK
  BY DEF IInv, TypeOK
<1>4. /\ preambleCheck' \in Timers /\ ackTimeOut' \in Timers /\ endTx' \in Timers
      /\ preambleCheck' = NotRunning <=> preambleCheck = NotRunning
      /\ ackTimeOut' = NotRunning <=> ackTimeOut = NotRunning
      /\ endTx' = NotRunning <=> endTx = NotRunning
      /\ preambleCheck # NotRunning => preambleCheck' = preambleCheck - 1
      /\ ackTimeOut # NotRunning => ackTimeOut' = ackTimeOut - 1
      /\ preambleCheck' <= preambleCheck
  BY <1>1, <1>2, <1>3, AfterFacts
<1>5. /\ rx' \in [left : Timers, frame : Frames]
      /\ rx'.left = After(rx.left) /\ rx'.frame = rx.frame
      /\ rx = NoRx => rx' = NoRx
  BY <1>1, <1>2, <1>3, RxAfter
<1>6. /\ rx'.left = NotRunning <=> rx.left = NotRunning
      /\ rx.left # NotRunning => rx'.left = rx.left - 1
  BY <1>1, <1>3, <1>5, AfterFacts
<1>7. /\ setMacState = <<>> => setMacState' = <<>>
      /\ \A to \in MacStates, delay \in Nat :
           Pending(to, delay) => delay # 0 /\ setMacState' = <<Event(to, delay - 1)>>
                                 /\ delay - 1 \in Nat
      /\ \A to \in MacStates : ~Pending(to, 0)
  BY <1>3, TickEvents
<1>8. /\ offTime' \in [SubBands -> Nat] /\ subBandTimers' \in [SubBands -> Timers]
      /\ \A sb \in SubBands :
           /\ subBandTimers'[sb] # NotRunning <=> subBandTimers[sb] # NotRunning
           /\ subBandTimers[sb] # NotRunning /\ subBandTimers[sb] = offTime[sb]
                => subBandTimers'[sb] = offTime'[sb]
  <2>1. \A sb \in SubBands :
          /\ After(subBandTimers[sb]) \in Timers
          /\ After(subBandTimers[sb]) = NotRunning <=> subBandTimers[sb] = NotRunning
          /\ subBandTimers[sb] # NotRunning => After(subBandTimers[sb]) = subBandTimers[sb] - 1
    BY <1>1, <1>3, AfterFacts
  <2> QED BY <1>1, <1>2, <1>3, <2>1
<1>9. IdleInv /\ TxInv /\ WaitInv /\ WindowInv /\ AckInv /\ SubBandInv /\ QueueInv
      /\ preambleCheck <= PreambleTime
  BY DEF IInv
<1>11. setMacState' \in Seq(StateEvents)
  BY <1>3, <1>7, AtMostOne, EventSeq DEF Pending
<1>12. TypeOK'
  BY <1>2, <1>3, <1>4, <1>5, <1>8, <1>11 DEF TypeOK, queue
<1>13. IdleInv'
  <2>1. ASSUME macState = "IDLE"
        PROVE  /\ trxState = "TRX_OFF" /\ RadioIdle /\ ackTimeOut = NotRunning
               /\ setMacState = <<>>
               /\ txQueue # <<>> => subBandTimers[Head(txQueue).sb] # NotRunning
               /\ txPkt # NoPkt => Head(txQueue).left > 0
    BY <1>7, <1>9, <2>1 DEF IdleInv, MacStates
  <2>2. txQueue # <<>> => Head(txQueue).sb \in SubBands
    BY <1>3, TailLemma, ElementType DEF TypeOK
  <2> QED BY <1>2, <1>4, <1>5, <1>7, <1>8, <2>1, <2>2 DEF IdleInv, RadioIdle,
       queue
<1>14. TxInv'
  <2>1. ASSUME macState = "TX"
        PROVE  /\ trxState = "BUSY_TX" /\ rx = NoRx /\ ackTimeOut = NotRunning
               /\ setMacState = <<>> /\ endTx # NotRunning
               /\ txPkt # NoPkt /\ Head(txQueue).left > 0
    BY <1>7, <1>9, <2>1 DEF TxInv, MacStates
  <2> QED BY <1>2, <1>4, <1>5, <1>7, <2>1 DEF TxInv, queue
<1>15. WaitInv'
  <2>1. macState \in {"WAITFORRW1", "WAITFORRW2"} =>
          trxState' = "IDLE" /\ RadioIdle' /\ ackTimeOut' = NotRunning
    BY <1>2, <1>4, <1>5, <1>9 DEF WaitInv, RadioIdle
  <2>2. ASSUME macState = "WAITFORRW1"
        PROVE  /\ sinceUplink' <= ReceiveDelay1
               /\ Pending("RW1", ReceiveDelay1 - sinceUplink)'
               /\ preambleCheck' # NotRunning => preambleCheck' + sinceUplink' <= PreambleTime
    <3>1. /\ sinceUplink <= ReceiveDelay1 /\ ReceiveDelay1 - sinceUplink \in Nat
          /\ Pending("RW1", ReceiveDelay1 - sinceUplink)
          /\ preambleCheck # NotRunning => preambleCheck + sinceUplink <= PreambleTime
      BY <1>3, <1>9, <2>2, Times DEF WaitInv
    <3>2. /\ ReceiveDelay1 - sinceUplink # 0
          /\ setMacState' = <<Event("RW1", (ReceiveDelay1 - sinceUplink) - 1)>>
      BY <1>7, <3>1 DEF MacStates
    <3>3. sinceUplink' = sinceUplink + 1
      <4>1. ReceiveDelay1 + PreambleTime <= ReceiveDelay2
        BY OrderAssumption
      <4>2. sinceUplink <= ReceiveDelay2
        BY <1>3, <3>1, <4>1, Times
      <4> QED BY <1>2, <4>2
    <3>4. (ReceiveDelay1 - sinceUplink) - 1 = ReceiveDelay1 - sinceUplink' /\ sinceUplink' <= ReceiveDelay1
      BY <1>3, <3>1, <3>2, <3>3, Times
    <3>5. preambleCheck' # NotRunning => preambleCheck' + sinceUplink' <= PreambleTime
      <4> SUFFICES ASSUME preambleCheck' # NotRunning
                   PROVE  preambleCheck' + sinceUplink' <= PreambleTime
        OBVIOUS
      <4>1. preambleCheck' = preambleCheck - 1 /\ preambleCheck + sinceUplink <= PreambleTime
        BY <1>4, <3>1
      <4>2. preambleCheck \in Int /\ PreambleTime \in Int
        BY <1>3, TimerType, Times
      <4> QED BY <1>3, <3>3, <4>1, <4>2
    <3> QED BY <3>2, <3>4, <3>5 DEF Pending
  <2>3. ASSUME macState = "WAITFORRW2"
        PROVE  /\ sinceUplink' <= ReceiveDelay2
               /\ Pending("RW2", ReceiveDelay2 - sinceUplink)'
               /\ preambleCheck' = NotRunning
    <3>1. /\ sinceUplink <= ReceiveDelay2 /\ ReceiveDelay2 - sinceUplink \in Nat
          /\ Pending("RW2", ReceiveDelay2 - sinceUplink)
          /\ preambleCheck = NotRunning
      BY <1>3, <1>9, <2>3, Times DEF WaitInv
    <3>2. /\ ReceiveDelay2 - sinceUplink # 0
          /\ setMacState' = <<Event("RW2", (ReceiveDelay2 - sinceUplink) - 1)>>
      BY <1>7, <3>1 DEF MacStates
    <3>3. sinceUplink' = sinceUplink + 1
      BY <1>2, <1>3, <3>1, Times
    <3>4. (ReceiveDelay2 - sinceUplink) - 1 = ReceiveDelay2 - sinceUplink' /\ sinceUplink' <= ReceiveDelay2
      BY <1>3, <3>1, <3>2, <3>3, Times
    <3> QED BY <1>4, <3>1, <3>2, <3>4 DEF Pending
  <2> QED BY <1>2, <2>1, <2>2, <2>3 DEF WaitInv
<1>16. WindowInv'
  <2>1. ASSUME macState \in {"RW1", "RW2"}
        PROVE  /\ endTx = NotRunning /\ setMacState = <<>>
               /\ \/ trxState = "BUSY_RX" /\ rx.left > preambleCheck
                  \/ trxState = "RX_ON" /\ rx = NoRx /\ preambleCheck # NotRunning
    BY <1>7, <1>9, <2>1 DEF WindowInv, MacStates
  <2>2. ASSUME rx.left > preambleCheck
        PROVE  rx'.left > preambleCheck'
    <3>1. rx.left \in Int /\ preambleCheck \in Int /\ preambleCheck >= -1
      BY <1>3, TimerType
    <3>2. rx.left # NotRunning /\ rx.left > 0
      BY <1>1, <2>2, <3>1, TimerType
    <3>3. rx'.left = rx.left - 1
      BY <1>6, <3>2
    <3>4. preambleCheck' = preambleCheck - 1 \/ preambleCheck' = -1
      BY <1>4, TimerType
    <3> QED BY <2>2, <3>1, <3>2, <3>3, <3>4
  <2> QED BY <1>2, <1>4, <1>5, <1>7, <2>1, <2>2 DEF WindowInv
<1>17. AckInv'
  <2>1. AwaitsAck' <=> AwaitsAck
    BY <1>2 DEF AwaitsAck, queue
  <2>2. ackTimeOut' # NotRunning => AwaitsAck' /\ macState' \in {"RW2", "ACK_TIMEOUT"}
    BY <1>2, <1>4, <1>9, <2>1 DEF AckInv
  <2>3. macState' = "RW2" /\ preambleCheck' # NotRunning /\ ackTimeOut' # NotRunning
          => preambleCheck' < ackTimeOut'
    BY <1>2, <1>3, <1>4, <1>9, TimerType DEF AckInv
  <2>4. ASSUME macState = "ACK_TIMEOUT"
        PROVE  /\ trxState' = "TRX_OFF" /\ RadioIdle'
               /\ setMacState' = <<>> /\ ackTimeOut' # NotRunning
    <3>1. /\ trxState = "TRX_OFF" /\ RadioIdle
          /\ setMacState = <<>> /\ ackTimeOut # NotRunning
      BY <1>7, <1>9, <2>4 DEF AckInv, MacStates
    <3> QED BY <1>2, <1>4, <1>5, <1>7, <3>1 DEF RadioIdle
  <2>5. rx'.left # NotRunning /\ rx'.frame = "data" => ~AwaitsAck'
    BY <1>5, <1>6, <1>9, <2>1 DEF AckInv
  <2> QED BY <1>2, <2>2, <2>3, <2>4, <2>5 DEF AckInv
<1>18. SubBandInv'
  BY <1>2, <1>8, <1>9 DEF SubBandInv, queue
<1>19. QueueInv'
  <2>1. Sending' <=> Sending
    <3>1. macState \in {"IDLE", "TX"} => setMacState = <<>>
      BY <1>7, <1>9 DEF IdleInv, TxInv, MacStates
    <3> QED BY <1>2, <1>7, <3>1 DEF Sending
  <2> QED BY <1>2, <1>9, <2>1 DEF QueueInv, AttemptsCounted, queue
<1>20. preambleCheck' <= PreambleTime
  BY <1>3, <1>4, <1>9, Times, TimerType
<1> QED BY <1>12, <1>13, <1>14, <1>15, <1>16, <1>17, <1>18, <1>19, <1>20 DEF IInv

\* The invariant holds initially.
LEMMA InitIInv == Init => IInv
<1> SUFFICES ASSUME Init PROVE IInv
  OBVIOUS
<1>1. TypeOK
  BY TimerType, NoRxType, Times DEF Init, TypeOK, MacStates, TrxStates
<1>2. preambleCheck <= PreambleTime
  BY Times, TimerType DEF Init
<1> QED BY <1>1, <1>2, NoRxType DEF Init, IInv, IdleInv, RadioIdle, TxInv,
     WaitInv, WindowInv, AckInv, SubBandInv, QueueInv, AttemptsCounted

\* The invariant depends on the variables of the specification only.
LEMMA StutterIInv ==
  ASSUME IInv, UNCHANGED vars
  PROVE  IInv'
<1>1. TypeOK'
  BY DEF IInv, TypeOK, vars, mac, queue, phy, rdc
<1>2. IdleInv' /\ TxInv' /\ WaitInv' /\ WindowInv' /\ AckInv' /\ SubBandInv' /\ QueueInv'
  BY DEF IInv, vars, mac, queue, phy, rdc, IdleInv, RadioIdle, TxInv, WaitInv,
     WindowInv, AckInv, SubBandInv, QueueInv, AttemptsCounted, Sending, AwaitsAck, Pending
<1> QED BY <1>1, <1>2 DEF IInv, vars, mac

\* Every step preserves the invariant.
LEMMA NextIInv ==
  ASSUME DataAnswers = FALSE, ArrivalAtClose = FALSE, IInv, [Next]_vars
  PROVE  IInv'
<1>1. CASE Device
  BY <1>1, EnterIdleStep, EnterTxStep, EnterWaitForRW1Step, EnterWindowStep,
     EnterWaitForRW2Step,
     MissRW2Step, EnterAckTimeoutStep, CheckPhyPreambleStep, AckTimeoutExpiredStep,
     SubBandTimerExpiredStep, EndTxStep, EndRxDroppedStep, EndRxAcceptedStep, TickStep DEF Device
<1>2. CASE Environment
  BY <1>2, SendStep, StartRxStep DEF Environment, StartRx
<1>3. CASE UNCHANGED vars
  BY <1>3, StutterIInv
<1> QED BY <1>1, <1>2, <1>3 DEF Next

-----------------------------------------------------------------------------
(***************************************************************************)
(* The theorems.  All of them assume that a confirmed uplink is answered   *)
(* with an Ack and that no frame begins in the instant in which a window   *)
(* closes: without the first the Ack timer expires in a state the code     *)
(* asserts it never does, without the second SetTRXStateRequest aborts.    *)
(***************************************************************************)
\* The inductive invariant: what radio, timers and queue do in each MAC state.
THEOREM Invariance ==
  ASSUME DataAnswers = FALSE, ArrivalAtClose = FALSE
  PROVE  Spec => []IInv
BY InitIInv, NextIInv, PTL DEF Spec

\* What the invariant says about a single state.
LEMMA StateInvariants ==
  ASSUME IInv
  PROVE  /\ StateChangesLegal
         /\ TransceiverRequestsGranted
         /\ RadioFollowsMac
         /\ PreambleCheckFree
         /\ IndicationInWindow
         /\ AckTimerExpiresWhileWaiting
         /\ SubBandTimerOnlyWhenIdle
         /\ NoLostWakeup
<1>0. /\ TypeOK /\ IdleInv /\ TxInv /\ WaitInv /\ WindowInv /\ AckInv /\ SubBandInv
      /\ macState \in MacStates
  BY DEF IInv, TypeOK
<1>1. StateChangesLegal
  <2>1. CASE setMacState = <<>>
    BY <2>1 DEF StateChangesLegal
  <2>2. ASSUME NEW to \in MacStates, NEW delay \in Nat, setMacState = <<Event(to, delay)>>
        PROVE  StateChangesLegal
    <3>1. Len(setMacState) = 1 /\ setMacState[1].to = to /\ setMacState # <<>>
      BY <2>2, Singleton, EventFields
    <3>2. \A st, d : Pending(st, d) => st = to
      BY <2>2, PendingIs
    <3>3. macState \in SourceStates(to)
      BY <1>0, <3>1, <3>2 DEF IdleInv, TxInv, WaitInv, WindowInv, AckInv,
         SourceStates, MacStates
    <3> QED BY <3>1, <3>3 DEF StateChangesLegal
  <2> QED BY <2>1, <2>2, AtMostOne
<1>2. TransceiverRequestsGranted
  BY FiresFacts DEF TransceiverRequestsGranted, MacStates
<1>3. RadioFollowsMac
  <2>1. /\ macState \in {"IDLE", "ACK_TIMEOUT"} => trxState = "TRX_OFF"
        /\ macState = "TX" => trxState = "BUSY_TX"
        /\ macState \in {"WAITFORRW1", "WAITFORRW2"} => trxState = "IDLE"
        /\ macState \in {"RW1", "RW2"} => trxState \in {"RX_ON", "BUSY_RX"}
    BY <1>0 DEF IdleInv, TxInv, WaitInv, WindowInv, AckInv
  <2>2. endTx # NotRunning => macState = "TX"
    BY <1>0 DEF IdleInv, WaitInv, WindowInv, AckInv, RadioIdle, MacStates
  <2>3. rx.left # NotRunning <=> trxState = "BUSY_RX"
    <3>1. preambleCheck \in Timers /\ rx.left \in Timers
      BY <1>0 DEF TypeOK
    <3>2. rx.left > preambleCheck => rx.left # NotRunning
      BY <3>1, TimerType
    <3>3. CASE macState \in {"RW1", "RW2"}
      BY <1>0, <3>2, <3>3, NoRxType DEF WindowInv
    <3>4. CASE ~(macState \in {"RW1", "RW2"})
      <4>1. rx = NoRx
        BY <1>0, <3>4 DEF IdleInv, TxInv, WaitInv, AckInv, RadioIdle, MacStates
      <4> QED BY <1>0, <2>1, <3>4, <4>1, NoRxType DEF MacStates
    <3> QED BY <3>3, <3>4
  <2> QED BY <2>1, <2>2, <2>3 DEF RadioFollowsMac
<1>4. PreambleCheckFree
  BY FiresFacts DEF PreambleCheckFree
<1>5. IndicationInWindow
  BY RxDueFacts DEF IndicationInWindow
<1>6. AckTimerExpiresWhileWaiting
  BY <1>0, TimerType DEF AckTimerExpiresWhileWaiting, AckInv
<1>7. SubBandTimerOnlyWhenIdle
  BY <1>0 DEF SubBandTimerOnlyWhenIdle, SubBandInv
<1>8. NoLostWakeup
  <2> SUFFICES ASSUME setMacState = <<>>
               PROVE  NoLostWakeup
    BY DEF NoLostWakeup
  <2>1. \A to, delay : ~Pending(to, delay)
    BY Singleton DEF Pending
  <2>2. CASE macState \in {"IDLE", "TX"}
    BY <1>0, <2>1, <2>2 DEF NoLostWakeup, IdleInv, TxInv
  <2>3. CASE macState \in {"RW1", "RW2"}
    <3>1. trxState = "BUSY_RX" \/ preambleCheck # NotRunning
      BY <1>0, <2>1, <2>3 DEF WindowInv
    <3>2. trxState = "BUSY_RX" => rx.left # NotRunning
      BY <1>3 DEF RadioFollowsMac
    <3> QED BY <2>3, <3>1, <3>2 DEF NoLostWakeup
  <2>4. CASE macState \in {"WAITFORRW1", "WAITFORRW2", "ACK_TIMEOUT"}
    BY <1>0, <2>1, <2>4 DEF NoLostWakeup, WaitInv, AckInv
  <2> QED BY <1>0, <2>2, <2>3, <2>4 DEF MacStates
<1> QED BY <1>1, <1>2, <1>3, <1>4, <1>5, <1>6, <1>7, <1>8

\* What the invariant says about a single step.
LEMMA StepProperties ==
  ASSUME IInv, Next
  PROVE  /\ endTx = NotRunning /\ endTx' # NotRunning => offTime[Head(txQueue).sb] = 0
         /\ \A p \in Pkts : outcome[p] # "noack" /\ outcome'[p] = "noack"
              => /\ txPkt = p /\ Head(txQueue).conf
                 /\ retransmission + 1 = Head(txQueue).req
                 /\ ackTimeOut = NotRunning
         /\ trxState # "BUSY_RX" /\ trxState' = "RX_ON" /\ macState' # macState
              => CASE macState = "WAITFORRW1" -> sinceUplink = ReceiveDelay1
                   [] macState = "WAITFORRW2" -> sinceUplink = ReceiveDelay2
                   [] OTHER -> sinceUplink > ReceiveDelay2
<1>1. endTx = NotRunning /\ endTx' # NotRunning => offTime[Head(txQueue).sb] = 0
  <2> SUFFICES ASSUME endTx = NotRunning, endTx' # NotRunning
               PROVE  offTime[Head(txQueue).sb] = 0
    OBVIOUS
  <2>1. EnterTx
    <3>1. ~Tick
      BY DEF Tick, After
    <3>2. ~EndTx
      BY DEF EndTx
    <3>3. ~CheckPhyPreamble /\ ~AckTimeoutExpired /\ ~EndRxDropped /\ ~EndRxAccepted
      BY DEF CheckPhyPreamble, AckTimeoutExpired, EndRxDropped, EndRxAccepted, phy
    <3>4. ~EnterIdle /\ ~EnterWaitForRW1 /\ ~EnterWaitForRW2 /\ ~MissRW2 /\ ~EnterAckTimeout
          /\ \A w : ~EnterWindow(w)
      BY DEF EnterIdle, EnterWaitForRW1, EnterWaitForRW2, MissRW2,
         EnterAckTimeout, EnterWindow
    <3>5. \A sb : ~SubBandTimerExpired(sb)
      BY DEF SubBandTimerExpired, phy
    <3>6. ~Environment
      BY DEF Environment, Send, StartRx, phy
    <3> QED BY <3>1, <3>2, <3>3, <3>4, <3>5, <3>6 DEF Next, Device
  <2> QED BY <2>1, FiresFacts DEF EnterTx
<1>2. trxState # "BUSY_RX" /\ trxState' = "RX_ON" /\ macState' # macState
              => CASE macState = "WAITFORRW1" -> sinceUplink = ReceiveDelay1
                   [] macState = "WAITFORRW2" -> sinceUplink = ReceiveDelay2
                   [] OTHER -> sinceUplink > ReceiveDelay2
  <2> SUFFICES ASSUME trxState # "BUSY_RX", trxState' = "RX_ON", macState' # macState
               PROVE  CASE macState = "WAITFORRW1" -> sinceUplink = ReceiveDelay1
                   [] macState = "WAITFORRW2" -> sinceUplink = ReceiveDelay2
                   [] OTHER -> sinceUplink > ReceiveDelay2
    OBVIOUS
  <2>1. MissRW2 \/ \E w \in {"RW1", "RW2"} : EnterWindow(w)
    <3>1. ~EnterIdle /\ ~EnterWaitForRW1 /\ ~EnterWaitForRW2 /\ ~EnterAckTimeout
      BY DEF EnterIdle, EnterWaitForRW1, EnterWaitForRW2, EnterAckTimeout
    <3>2. ~EnterTx
      BY FiresFacts DEF EnterTx
    <3>3. ~CheckPhyPreamble /\ ~AckTimeoutExpired /\ ~EndTx /\ ~EndRxDropped /\ ~EndRxAccepted /\ ~Tick
      BY DEF CheckPhyPreamble, AckTimeoutExpired, EndTx, EndRxDropped,
         EndRxAccepted, Tick
    <3>4. \A sb : ~SubBandTimerExpired(sb)
      BY DEF SubBandTimerExpired
    <3>5. ~Environment
      BY DEF Environment, Send, StartRx, mac
    <3> QED BY <3>1, <3>2, <3>3, <3>4, <3>5 DEF Next, Device
  <2>2. CASE MissRW2
    BY <2>2, FiresFacts DEF MissRW2
  <2>3. CASE \E w \in {"RW1", "RW2"} : EnterWindow(w)
    BY <2>3, FiresFacts DEF EnterWindow
  <2> QED BY <2>1, <2>2, <2>3
<1>3. ASSUME NEW p \in Pkts, outcome[p] # "noack", outcome'[p] = "noack"
      PROVE  /\ txPkt = p /\ Head(txQueue).conf
             /\ retransmission + 1 = Head(txQueue).req
             /\ ackTimeOut = NotRunning
  <2>0. TypeOK /\ outcome \in [Pkts -> {"none", "waiting", "ok", "noack"}]
    BY DEF IInv, TypeOK
  <2>1. EnterIdle \/ \E sb \in SubBands : SubBandTimerExpired(sb)
    BY <1>3, <2>0 DEF Next, Device, Environment, EnterTx, EnterWaitForRW1,
       EnterWindow, EnterWaitForRW2, MissRW2,
       EnterAckTimeout, CheckPhyPreamble, AckTimeoutExpired, EndTx, EndRxDropped, EndRxAccepted,
       Tick, Send, StartRx, queue
  <2>2. CASE EnterIdle
    <3>1. txPkt # NoPkt /\ Exhausted(Head(txQueue)) /\ outcome' = [outcome EXCEPT ![Head(txQueue).id] = "noack"]
      BY <1>3, <2>2 DEF EnterIdle, CheckRetransmission, queue
    <3>2. ackTimeOut = NotRunning /\ macState \in {"RW1", "RW2", "ACK_TIMEOUT"}
      BY <2>2, FiresFacts DEF EnterIdle
    <3>3. Head(txQueue).id = txPkt /\ txQueue # <<>>
      BY <3>1 DEF IInv, QueueInv
    <3>4. Head(txQueue) \in Elements /\ ~Sending
      BY <2>0, <3>2, <3>3, TailLemma DEF TypeOK, Sending
    <3>5. retransmission + 1 = Head(txQueue).req - Head(txQueue).left
      BY <3>1, <3>4 DEF IInv, QueueInv, AttemptsCounted
    <3>6. p = Head(txQueue).id
      BY <1>3, <2>0, <3>1
    <3> QED BY <3>1, <3>2, <3>3, <3>4, <3>5, <3>6, ElementType DEF Exhausted
  <2>3. ASSUME NEW sb \in SubBands, SubBandTimerExpired(sb)
        PROVE  FALSE
    <3>1. macState = "IDLE"
      BY <2>3, TimerType DEF IInv, SubBandInv, SubBandTimerExpired
    <3>2. txPkt # NoPkt => ~Exhausted(Head(txQueue))
      BY <3>1 DEF IInv, IdleInv, Exhausted
    <3> QED BY <1>3, <2>3, <3>2 DEF SubBandTimerExpired, CheckRetransmission,
         queue
  <2> QED BY <2>1, <2>2, <2>3
<1> QED BY <1>1, <1>2, <1>3

\* Every variable keeps its type; m_numberOfTransmissions never wraps below 0.
THEOREM TypeCorrect ==
  ASSUME DataAnswers = FALSE, ArrivalAtClose = FALSE
  PROVE  Spec => []TypeOK
<1>1. IInv => TypeOK
  BY DEF IInv
<1> QED BY <1>1, Invariance, PTL

\* The assertions of SetLoRaWANMacState on the state that is left hold.
THEOREM StateChangesAreLegal ==
  ASSUME DataAnswers = FALSE, ArrivalAtClose = FALSE
  PROVE  Spec => []StateChangesLegal
BY StateInvariants, Invariance, PTL

\* The radio grants every request of the MAC; no NS_ABORT of the PHY is reached.
THEOREM RequestsAreGranted ==
  ASSUME DataAnswers = FALSE, ArrivalAtClose = FALSE
  PROVE  Spec => []TransceiverRequestsGranted
BY StateInvariants, Invariance, PTL

\* MAC state and transceiver state agree.
THEOREM RadioFollows ==
  ASSUME DataAnswers = FALSE, ArrivalAtClose = FALSE
  PROVE  Spec => []RadioFollowsMac
BY StateInvariants, Invariance, PTL

\* The preamble check of an earlier exchange is over when a window opens.
THEOREM PreambleChecksDoNotOverlap ==
  ASSUME DataAnswers = FALSE, ArrivalAtClose = FALSE
  PROVE  Spec => []PreambleCheckFree
BY StateInvariants, Invariance, PTL

\* A reception ends in an open window, as PdDataIndication asserts.
THEOREM IndicationsInWindow ==
  ASSUME DataAnswers = FALSE, ArrivalAtClose = FALSE
  PROVE  Spec => []IndicationInWindow
BY StateInvariants, Invariance, PTL

\* The assertion of AckTimeoutExpired holds.
THEOREM AckTimerExpiresInTime ==
  ASSUME DataAnswers = FALSE, ArrivalAtClose = FALSE
  PROVE  Spec => []AckTimerExpiresWhileWaiting
BY StateInvariants, Invariance, PTL

\* CheckRetransmission is only called in MAC_IDLE, as it asserts.
THEOREM SubBandTimersOnlyWhenIdle ==
  ASSUME DataAnswers = FALSE, ArrivalAtClose = FALSE
  PROVE  Spec => []SubBandTimerOnlyWhenIdle
BY StateInvariants, Invariance, PTL

\* The attempts that the sent trace reports are those that were made.
THEOREM AttemptsAreCounted ==
  ASSUME DataAnswers = FALSE, ArrivalAtClose = FALSE
  PROVE  Spec => []AttemptsCounted
<1>1. IInv => AttemptsCounted
  BY DEF IInv, QueueInv
<1> QED BY <1>1, Invariance, PTL

\* In every state an event that leads out of it is scheduled, or the queue is
\* empty.
THEOREM NoWakeupIsLost ==
  ASSUME DataAnswers = FALSE, ArrivalAtClose = FALSE
  PROVE  Spec => []NoLostWakeup
BY StateInvariants, Invariance, PTL

\* No transmission starts in a sub band before its time off is over.
THEOREM DutyCycle ==
  ASSUME DataAnswers = FALSE, ArrivalAtClose = FALSE
  PROVE  Spec => DutyCycleRespected
<1>1. IInv /\ [Next]_vars => [endTx = NotRunning /\ endTx' # NotRunning
                                 => offTime[Head(txQueue).sb] = 0]_vars
  BY StepProperties
<1> QED BY <1>1, Invariance, PTL DEF Spec, DutyCycleRespected

\* NO_ACK is reported only after the last attempt and its Ack timer.
THEOREM GivesUpLast ==
  ASSUME DataAnswers = FALSE, ArrivalAtClose = FALSE
  PROVE  Spec => GivesUpAfterLastAttempt
<1>1. IInv /\ [Next]_vars => [\A p \in Pkts : outcome[p] # "noack" /\ outcome'[p] = "noack"
          => /\ txPkt = p /\ Head(txQueue).conf
             /\ retransmission + 1 = Head(txQueue).req
             /\ ackTimeOut = NotRunning]_vars
  BY StepProperties
<1> QED BY <1>1, Invariance, PTL DEF Spec, GivesUpAfterLastAttempt

\* The windows open RECEIVE_DELAY1 and RECEIVE_DELAY2 after the uplink.
THEOREM WindowsAreOnTime ==
  ASSUME DataAnswers = FALSE, ArrivalAtClose = FALSE
  PROVE  Spec => WindowsOnTime
<1>1. IInv /\ [Next]_vars => [trxState # "BUSY_RX" /\ trxState' = "RX_ON" /\ macState' # macState
          => CASE macState = "WAITFORRW1" -> sinceUplink = ReceiveDelay1
               [] macState = "WAITFORRW2" -> sinceUplink = ReceiveDelay2
               [] OTHER -> sinceUplink > ReceiveDelay2]_vars
  BY StepProperties
<1> QED BY <1>1, Invariance, PTL DEF Spec, WindowsOnTime
-----------------------------------------------------------------------------
(***************************************************************************)
(* The queue as the backlog of the service.                                *)
(***************************************************************************)
RequestOf(e) == [id |-> e.id, conf |-> e.conf, req |-> e.req]

Requests(q) == [i \in 1 .. Len(q) |-> RequestOf(q[i])]
ServiceRequests == [id : Pkts, conf : BOOLEAN, req : Nat]

\* The requests of a queue, one by one.
LEMMA RequestsFacts ==
  ASSUME NEW q \in Seq(Elements)
  PROVE  /\ Requests(q) \in Seq(ServiceRequests)
         /\ Len(Requests(q)) = Len(q)
         /\ Len(q) \in Nat
         /\ \A i \in 1 .. Len(q) : Requests(q)[i] = RequestOf(q[i])
         /\ Requests(q) = <<>> <=> q = <<>>
         /\ q # <<>> => Head(Requests(q)) = RequestOf(Head(q))
<1>1. \A i \in 1 .. Len(q) : RequestOf(q[i]) \in ServiceRequests
  BY ElementType DEF RequestOf, ServiceRequests
<1> HIDE DEF ServiceRequests, RequestOf
<1>2. /\ Requests(q) \in Seq(ServiceRequests)
      /\ Len(Requests(q)) = Len(q)
      /\ Len(q) \in Nat
      /\ \A i \in 1 .. Len(q) : Requests(q)[i] = RequestOf(q[i])
  BY <1>1 DEF Requests
<1>3. Requests(q) = <<>> <=> q = <<>>
  BY <1>2
<1>4. q # <<>> => Head(Requests(q)) = RequestOf(Head(q))
  BY <1>2, <1>3
<1> QED BY <1>2, <1>3, <1>4

\* The backlog of the service holds the requests of the queue.
LEMMA BacklogIs ==
  /\ Backlog = Requests(txQueue)
  /\ Backlog' = Requests(txQueue')
BY DEF Backlog, Requests, RequestOf

\* RemoveFirstTxQElement takes the oldest request from the backlog; the next
\* one has not been attempted.
LEMMA BacklogServed ==
  ASSUME IInv, TypeOK', txQueue # <<>>, txQueue' = Tail(txQueue)
  PROVE  Service!Serve
<1>1. txQueue \in Seq(Elements) /\ TypeOK
  BY DEF IInv, TypeOK
<1>2. Backlog' = Tail(Backlog)
  <2>1. /\ Tail(txQueue) \in Seq(Elements) /\ Len(Tail(txQueue)) = Len(txQueue) - 1
        /\ Len(txQueue) \in Nat /\ Len(txQueue) > 0
        /\ \A i \in 1 .. Len(Tail(txQueue)) : Tail(txQueue)[i] = txQueue[i + 1]
    BY <1>1, TailLemma
  <2>2. /\ Requests(Tail(txQueue)) \in Seq(ServiceRequests)
        /\ Len(Requests(Tail(txQueue))) = Len(txQueue) - 1
        /\ \A i \in 1 .. Len(txQueue) - 1 :
             Requests(Tail(txQueue))[i] = RequestOf(txQueue[i + 1])
    BY <2>1, RequestsFacts
  <2>3. /\ Requests(txQueue) \in Seq(ServiceRequests) /\ Requests(txQueue) # <<>>
        /\ Len(Requests(txQueue)) = Len(txQueue)
        /\ \A i \in 1 .. Len(txQueue) : Requests(txQueue)[i] = RequestOf(txQueue[i])
    BY <1>1, RequestsFacts
  <2>4. /\ Tail(Requests(txQueue)) \in Seq(ServiceRequests)
        /\ Len(Tail(Requests(txQueue))) = Len(txQueue) - 1
        /\ \A i \in 1 .. Len(txQueue) - 1 :
             Tail(Requests(txQueue))[i] = Requests(txQueue)[i + 1]
    BY <2>3, TailLemma
  <2>5. \A i \in 1 .. Len(txQueue) - 1 :
          Requests(Tail(txQueue))[i] = Tail(Requests(txQueue))[i]
    BY <2>1, <2>2, <2>3, <2>4
  <2>6. Requests(Tail(txQueue)) = Tail(Requests(txQueue))
    BY <2>2, <2>4, <2>5, SeqEqual
  <2> QED BY <2>6, BacklogIs
<1>3. Attempts' = 0
  <2>1. CASE txQueue' = <<>>
    BY <2>1 DEF Attempts
  <2>2. CASE txQueue' # <<>>
    <3>1. Head(txQueue') = txQueue[2] /\ 2 \in 1 .. Len(txQueue)
      BY <1>1, <2>2, TailLemma
    <3>2. txQueue[2].left = txQueue[2].req
      BY <3>1 DEF IInv, QueueInv
    <3>3. txQueue[2].req \in Nat
      BY <1>1, <3>1, ElementType
    <3> QED BY <2>2, <3>1, <3>2, <3>3 DEF Attempts
  <2> QED BY <2>1, <2>2
<1> QED BY <1>2, <1>3 DEF Service!Serve

\* What the head of the queue says about the attempts of the service.
LEMMA AttemptsFacts ==
  ASSUME IInv, txQueue # <<>>
  PROVE  /\ Head(txQueue) \in Elements
         /\ Backlog # <<>>
         /\ Service!Oldest = RequestOf(Head(txQueue))
         /\ Attempts = Head(txQueue).req - Head(txQueue).left
<1>1. txQueue \in Seq(Elements) /\ TypeOK
  BY DEF IInv, TypeOK
<1> QED BY <1>1, RequestsFacts, BacklogIs DEF Attempts, Service!Oldest

\* The end of a transmission is Transmit or TransmitLast.
LEMMA EndTxServes ==
  ASSUME IInv, IInv', EndTx
  PROVE  Service!Next
<1> DEFINE e == Head(txQueue)
<1>1. /\ txQueue # <<>> /\ e.left > 0 /\ TypeOK /\ TypeOK'
      /\ txQueue \in Seq(Elements)
  <2>1. endTx # NotRunning
    BY DEF EndTx, NotRunning
  <2>2. macState = "TX"
    BY <2>1, StateInvariants DEF RadioFollowsMac
  <2>3. txPkt # NoPkt /\ e.left > 0
    BY <2>1, <2>2 DEF IInv, TxInv
  <2> QED BY <2>3 DEF IInv, QueueInv, TypeOK
<1>2. /\ e \in Elements /\ Backlog # <<>> /\ Service!Oldest = RequestOf(e)
      /\ Attempts = e.req - e.left
      /\ e.req \in Nat /\ e.left \in Nat /\ e.conf \in BOOLEAN
  BY <1>1, AttemptsFacts, ElementType
<1>3. /\ Service!Oldest.id = e.id /\ Service!Oldest.conf = e.conf
      /\ Service!Oldest.req = e.req
  BY <1>2 DEF RequestOf
<1>4. outcome' = IF e.conf THEN outcome ELSE [outcome EXCEPT ![e.id] = "ok"]
  BY DEF EndTx
<1>5. CASE ~e.conf /\ e.left = 1 /\ RemoveFirstTxQElement(TRUE)
  <2>1. Service!Serve
    BY <1>1, <1>5, BacklogServed DEF RemoveFirstTxQElement
  <2>2. Attempts + 1 = Service!Oldest.req
    BY <1>2, <1>3, <1>5
  <2>3. Service!Tell(Service!Oldest.id, "ok")
    BY <1>3, <1>4, <1>5 DEF Service!Tell
  <2>4. Service!TransmitLast
    BY <1>2, <1>3, <1>5, <2>1, <2>2, <2>3 DEF Service!TransmitLast
  <2> QED BY <2>4 DEF Service!Next, Service!Work
<1>6. CASE (e.conf \/ e.left # 1) /\ txQueue' = OneAttemptLess(txQueue)
  <2>1. /\ Len(txQueue') = Len(txQueue) /\ txQueue' # <<>>
        /\ Head(txQueue') = txQueue'[1] /\ txQueue'[1].left = e.left - 1
        /\ txQueue'[1].id = e.id /\ txQueue'[1].conf = e.conf
        /\ txQueue'[1].req = e.req
        /\ \A i \in 2 .. Len(txQueue) : txQueue'[i] = txQueue[i]
    BY <1>1, <1>6, DecLemma
  <2>2. \A i \in 1 .. Len(txQueue) : RequestOf(txQueue'[i]) = RequestOf(txQueue[i])
    BY <1>1, <2>1 DEF RequestOf
  <2>3. Backlog' = Backlog
    <3>1. Backlog = [i \in 1 .. Len(txQueue) |-> RequestOf(txQueue[i])]
      BY DEF Backlog, RequestOf
    <3>2. Backlog' = [i \in 1 .. Len(txQueue') |-> RequestOf(txQueue'[i])]
      BY DEF Backlog, RequestOf
    <3> QED BY <2>1, <2>2, <3>1, <3>2
  <2>4. Attempts' = Attempts + 1
    <3>1. Attempts' = Head(txQueue').req - Head(txQueue').left
      BY <2>1 DEF Attempts
    <3> QED BY <1>2, <2>1, <3>1
  <2>5. Attempts < e.req /\ (e.conf \/ Attempts + 1 < e.req)
    BY <1>1, <1>2, <1>6
  <2>6. IF Service!Oldest.conf THEN UNCHANGED outcome
                               ELSE Service!Tell(Service!Oldest.id, "ok")
    BY <1>3, <1>4 DEF Service!Tell
  <2>7. Service!Transmit
    BY <1>2, <1>3, <2>3, <2>4, <2>5, <2>6 DEF Service!Transmit
  <2> QED BY <2>7 DEF Service!Next, Service!Work
<1> QED BY <1>5, <1>6 DEF EndTx

\* A request of the upper layer is accepted by the service.
LEMMA SendServes ==
  ASSUME IInv, IInv', NEW p \in Pkts, NEW conf \in BOOLEAN, NEW sb \in SubBands,
         NEW air \in AirTimes, NEW n \in 1 .. MaxTransmissions,
         Send(p, conf, sb, air, n)
  PROVE  Service!Next
<1> DEFINE e == [id |-> p, conf |-> conf, sb |-> sb, air |-> air, req |-> n,
                 left |-> n]
<1>1. /\ ~InQueue(p) /\ txQueue' = Append(txQueue, e)
      /\ outcome' = [outcome EXCEPT ![p] = "waiting"]
  BY DEF Send
<1>2. /\ TypeOK /\ TypeOK' /\ txQueue \in Seq(Elements) /\ e \in Elements
      /\ n \in Nat /\ Len(txQueue) \in Nat
  BY Times DEF IInv, TypeOK, Elements
<1>3. RequestOf(e) = [id |-> p, conf |-> conf, req |-> n] /\ e.req = n /\ e.left = n
  BY DEF RequestOf
<1> HIDE DEF e
<1>4. /\ txQueue' # <<>> /\ Len(txQueue') = Len(txQueue) + 1
      /\ Head(txQueue') = IF txQueue = <<>> THEN e ELSE Head(txQueue)
      /\ \A i \in 1 .. Len(txQueue) : txQueue'[i] = txQueue[i]
      /\ txQueue'[Len(txQueue) + 1] = e
  BY <1>1, <1>2, AppendLemma
<1>5. Attempts' = Attempts
  BY <1>2, <1>3, <1>4 DEF Attempts
<1>6. Backlog' = Append(Backlog, RequestOf(e))
  <2>1. /\ Requests(txQueue) \in Seq(ServiceRequests)
        /\ Len(Requests(txQueue)) = Len(txQueue)
        /\ \A i \in 1 .. Len(txQueue) : Requests(txQueue)[i] = RequestOf(txQueue[i])
    BY <1>2, RequestsFacts
  <2>2. /\ Requests(txQueue') \in Seq(ServiceRequests)
        /\ Len(Requests(txQueue')) = Len(txQueue) + 1
        /\ \A i \in 1 .. Len(txQueue) + 1 :
             Requests(txQueue')[i] = RequestOf(txQueue'[i])
    BY <1>2, <1>4, RequestsFacts DEF TypeOK
  <2>3. RequestOf(e) \in ServiceRequests
    BY <1>2, <1>3 DEF ServiceRequests
  <2>4. /\ Append(Requests(txQueue), RequestOf(e)) \in Seq(ServiceRequests)
        /\ Len(Append(Requests(txQueue), RequestOf(e))) = Len(txQueue) + 1
        /\ \A i \in 1 .. Len(txQueue) :
             Append(Requests(txQueue), RequestOf(e))[i] = Requests(txQueue)[i]
        /\ Append(Requests(txQueue), RequestOf(e))[Len(txQueue) + 1] = RequestOf(e)
    BY <2>1, <2>3, AppendLemma
  <2>5. \A i \in 1 .. Len(txQueue) + 1 :
          Requests(txQueue')[i] = Append(Requests(txQueue), RequestOf(e))[i]
    <3> SUFFICES ASSUME NEW i \in 1 .. Len(txQueue) + 1
                 PROVE  Requests(txQueue')[i] = Append(Requests(txQueue), RequestOf(e))[i]
      OBVIOUS
    <3>1. CASE i = Len(txQueue) + 1
      BY <1>4, <2>2, <2>4, <3>1
    <3>2. CASE i \in 1 .. Len(txQueue)
      BY <1>4, <2>1, <2>2, <2>4, <3>2
    <3>3. Len(txQueue) \in Nat
      BY <1>2
    <3>4. i = Len(txQueue) + 1 \/ i \in 1 .. Len(txQueue)
      BY <3>3
    <3> QED BY <3>1, <3>2, <3>4
  <2>6. Requests(txQueue') = Append(Requests(txQueue), RequestOf(e))
    BY <2>2, <2>4, <2>5, SeqEqual
  <2> QED BY <2>6, BacklogIs
<1>7. \A i \in 1 .. Len(Backlog) : Backlog[i].id # p
  <2>1. \A i \in 1 .. Len(txQueue) : txQueue[i].id # p
    BY <1>1 DEF InQueue
  <2>2. /\ Len(Backlog) = Len(txQueue)
        /\ \A i \in 1 .. Len(txQueue) : Backlog[i] = RequestOf(txQueue[i])
    BY <1>2, RequestsFacts, BacklogIs
  <2>3. \A q : RequestOf(q).id = q.id
    BY DEF RequestOf
  <2> QED BY <2>1, <2>2, <2>3
<1>8. Service!Accept(p, conf, n)
  BY <1>1, <1>3, <1>5, <1>6, <1>7 DEF Service!Accept, Service!Tell
<1> QED BY <1>8 DEF Service!Next

\* An Ack completes a request that was transmitted.
LEMMA EndRxAcceptedServes ==
  ASSUME IInv, IInv', EndRxAccepted, rx.frame = "ack", txPkt # NoPkt
  PROVE  Service!Next
<1>1. /\ txQueue # <<>> /\ TypeOK /\ TypeOK' /\ retransmission \in Nat
      /\ AttemptsCounted
  BY Times DEF IInv, QueueInv, TypeOK
<1>2. macState \in {"RW1", "RW2"}
  BY RxDueFacts DEF EndRxAccepted, EndRxDue
<1>3. /\ Backlog # <<>> /\ Service!Oldest.id = Head(txQueue).id
      /\ Attempts = Head(txQueue).req - Head(txQueue).left
  BY <1>1, AttemptsFacts DEF RequestOf
<1>4. Attempts > 0
  BY <1>1, <1>2, <1>3 DEF AttemptsCounted, Sending
<1>5. /\ outcome' = [outcome EXCEPT ![Head(txQueue).id] = "ok"]
      /\ RemoveFirstTxQElement(TRUE)
  BY DEF EndRxAccepted
<1>6. Service!Serve
  BY <1>1, <1>5, BacklogServed DEF RemoveFirstTxQElement
<1>7. Service!Acknowledge
  BY <1>3, <1>4, <1>5, <1>6 DEF Service!Acknowledge, Service!Tell
<1> QED BY <1>7 DEF Service!Next, Service!Work

\* CheckRetransmission gives up a request that was transmitted as often as was
\* asked for.
LEMMA GivingUpServes ==
  ASSUME IInv, IInv', txPkt # NoPkt, Exhausted(Head(txQueue)),
         outcome' = [outcome EXCEPT ![Head(txQueue).id] = "noack"],
         RemoveFirstTxQElement(FALSE)
  PROVE  Service!Next
<1>1. txQueue # <<>> /\ TypeOK /\ TypeOK'
  BY DEF IInv, QueueInv, TypeOK
<1>2. /\ Backlog # <<>> /\ Service!Oldest = RequestOf(Head(txQueue))
      /\ Attempts = Head(txQueue).req - Head(txQueue).left
      /\ Head(txQueue).req \in Nat
  BY <1>1, AttemptsFacts, ElementType
<1>3. Attempts = Service!Oldest.req /\ Service!Oldest.conf
      /\ Service!Oldest.id = Head(txQueue).id
  BY <1>2 DEF Exhausted, RequestOf
<1>4. Service!Serve
  BY <1>1, BacklogServed DEF RemoveFirstTxQElement
<1>5. Service!GiveUp
  BY <1>2, <1>3, <1>4 DEF Service!GiveUp, Service!Tell
<1> QED BY <1>5 DEF Service!Next, Service!Work

\* An event that leaves queue and outcomes alone is a stutter of the service.
LEMMA OthersStutter ==
  ASSUME UNCHANGED <<txQueue, outcome>>
  PROVE  UNCHANGED Service!vars
BY DEF Backlog, Attempts, Service!vars

(***************************************************************************)
(* Five kinds of step touch queue or outcomes.  A sub band timer never     *)
(* gives a packet up, for it runs in MAC_IDLE only, where the frame in     *)
(* flight has attempts left.                                               *)
(***************************************************************************)
GivesUp ==
  /\ EnterIdle
  /\ txPkt # NoPkt
  /\ Exhausted(Head(txQueue))
  /\ outcome' = [outcome EXCEPT ![Head(txQueue).id] = "noack"]
  /\ RemoveFirstTxQElement(FALSE)

Completes == EndRxAccepted /\ rx.frame = "ack" /\ txPkt # NoPkt

\* Queue and outcomes change by a request, the end of a transmission, an Ack or
\* a frame that is given up, and by nothing else.
LEMMA WhoServes ==
  ASSUME IInv, [Next]_vars
  PROVE  \/ UNCHANGED <<txQueue, outcome, reported>>
         \/ EndTx
         \/ Completes
         \/ GivesUp
         \/ \E p \in Pkts, conf \in BOOLEAN, sb \in SubBands, air \in AirTimes,
              n \in 1 .. MaxTransmissions : Send(p, conf, sb, air, n)
<1>1. CASE EnterTx \/ EnterWaitForRW1 \/ (\E w \in {"RW1", "RW2"} : EnterWindow(w))
           \/ EnterWaitForRW2 \/ MissRW2 \/ EnterAckTimeout
  BY <1>1 DEF EnterTx, EnterWaitForRW1, EnterWindow, EnterWaitForRW2, MissRW2,
     EnterAckTimeout, queue
<1>2. CASE CheckPhyPreamble \/ AckTimeoutExpired \/ EndRxDropped \/ Tick
  BY <1>2 DEF CheckPhyPreamble, AckTimeoutExpired, EndRxDropped, Tick, queue
<1>3. CASE EndRxAccepted
  BY <1>3 DEF EndRxAccepted, Completes, queue
<1>4. CASE EnterIdle
  BY <1>4 DEF EnterIdle, CheckRetransmission, GivesUp, queue
<1>5. ASSUME NEW sb \in SubBands, SubBandTimerExpired(sb)
      PROVE  UNCHANGED <<txQueue, outcome, reported>>
  <2>1. macState = "IDLE"
    BY <1>5, TimerType DEF IInv, SubBandInv, SubBandTimerExpired
  <2>2. txPkt # NoPkt => ~Exhausted(Head(txQueue))
    BY <2>1 DEF IInv, IdleInv, Exhausted
  <2> QED BY <1>5, <2>2 DEF SubBandTimerExpired, CheckRetransmission, queue
<1>6. ASSUME NEW frame \in Frames, NEW air \in FrameTimes, StartRx(frame, air)
      PROVE  UNCHANGED <<txQueue, outcome, reported>>
  BY <1>6 DEF StartRx, queue
<1>7. CASE UNCHANGED vars
  BY <1>7 DEF vars, queue
<1> QED BY <1>1, <1>2, <1>3, <1>4, <1>5, <1>6, <1>7 DEF Next, Device, Environment

\* The initial states of the device are initial states of the service.
LEMMA InitServes == Init => Service!Init
BY DEF Init, Service!Init, Backlog, Attempts

\* Every step of the device is a step or a stutter of the service.
LEMMA StepServes ==
  ASSUME IInv, IInv', [Next]_vars
  PROVE  [Service!Next]_(Service!vars)
BY WhoServes, OthersStutter, EndTxServes, EndRxAcceptedServes, GivingUpServes,
   SendServes DEF Completes, GivesUp

\* The device implements UplinkService: its packets are served in the order in
\* which they were accepted, each is transmitted as often as was asked for and
\* no more, and the upper layer hears of success only after a transmission and
\* of failure only after the last one.
THEOREM DeviceServes ==
  ASSUME DataAnswers = FALSE, ArrivalAtClose = FALSE
  PROVE  Spec => ImplementsService
<1>1. IInv /\ IInv' /\ [Next]_vars => [Service!Next]_(Service!vars)
  BY StepServes
<1> QED BY InitServes, <1>1, Invariance, PTL
        DEF Spec, ImplementsService, Service!Spec

-----------------------------------------------------------------------------
(***************************************************************************)
(* What the upper layer is told.                                           *)
(***************************************************************************)
\* The handles in the queue are distinct.
Distinct == \A i, j \in 1 .. Len(txQueue) : txQueue[i].id = txQueue[j].id => i = j

ToldInv == Distinct /\ OutcomesAgree

\* At first there is nothing to tell.
LEMMA InitTold == Init => ToldInv
BY DEF Init, ToldInv, Distinct, OutcomesAgree, InQueue

\* Without its head, the queue holds the same handles except that one.
LEMMA ServedHandles ==
  ASSUME TypeOK, Distinct, txQueue # <<>>, txQueue' = Tail(txQueue)
  PROVE  /\ Distinct'
         /\ \A p : InQueue(p)' <=> InQueue(p) /\ p # Head(txQueue).id
<1>1. /\ Len(txQueue) \in Nat /\ Len(txQueue) > 0
      /\ Len(txQueue') = Len(txQueue) - 1
      /\ Head(txQueue) = txQueue[1]
      /\ \A i \in 1 .. Len(txQueue') : txQueue'[i] = txQueue[i + 1]
  BY TailLemma DEF TypeOK
<1>2. Distinct'
  <2> SUFFICES ASSUME NEW i \in 1 .. Len(txQueue'), NEW j \in 1 .. Len(txQueue'),
                      txQueue'[i].id = txQueue'[j].id
               PROVE  i = j
    BY DEF Distinct
  <2>1. txQueue[i + 1].id = txQueue[j + 1].id
    BY <1>1
  <2>2. i + 1 \in 1 .. Len(txQueue) /\ j + 1 \in 1 .. Len(txQueue)
    BY <1>1
  <2>3. i + 1 = j + 1
    BY <2>1, <2>2 DEF Distinct
  <2> QED BY <2>3
<1>3. ASSUME NEW p, InQueue(p)'
      PROVE  InQueue(p) /\ p # Head(txQueue).id
  <2>1. PICK i \in 1 .. Len(txQueue') : txQueue'[i].id = p
    BY <1>3 DEF InQueue
  <2>2. i + 1 \in 1 .. Len(txQueue) /\ txQueue[i + 1].id = p /\ i + 1 # 1
        /\ 1 \in 1 .. Len(txQueue)
    BY <1>1, <2>1
  <2>3. p # txQueue[1].id
    BY <2>2 DEF Distinct
  <2> QED BY <1>1, <2>2, <2>3 DEF InQueue
<1>4. ASSUME NEW p, InQueue(p), p # Head(txQueue).id
      PROVE  InQueue(p)'
  <2>1. PICK i \in 1 .. Len(txQueue) : txQueue[i].id = p
    BY <1>4 DEF InQueue
  <2>2. i # 1
    BY <1>1, <1>4, <2>1
  <2>3. i - 1 \in 1 .. Len(txQueue') /\ (i - 1) + 1 = i
    BY <1>1, <2>2
  <2>4. txQueue'[i - 1].id = p
    BY <1>1, <2>1, <2>3
  <2> QED BY <2>3, <2>4 DEF InQueue
<1> QED BY <1>2, <1>3, <1>4

\* A packet leaves the queue with its trace if it succeeded, without otherwise.
LEMMA ServedTold ==
  ASSUME IInv, ToldInv, txQueue # <<>>, txQueue' = Tail(txQueue),
         NEW what \in {"ok", "noack"},
         outcome' = [outcome EXCEPT ![Head(txQueue).id] = what],
         reported' = IF what = "ok" THEN reported \union {Head(txQueue).id}
                                    ELSE reported
  PROVE  ToldInv'
<1> DEFINE h == Head(txQueue).id
<1>1. TypeOK /\ Distinct /\ OutcomesAgree
  BY DEF IInv, ToldInv
<1>2. Distinct' /\ \A p : InQueue(p)' <=> InQueue(p) /\ p # h
  BY <1>1, ServedHandles
<1>3. InQueue(h)
  <2>1. 1 \in 1 .. Len(txQueue) /\ txQueue[1] = Head(txQueue)
    BY <1>1, TailLemma DEF TypeOK
  <2> QED BY <2>1 DEF InQueue
<1>4. h \in Pkts
  BY <1>1, TailLemma, ElementType DEF TypeOK
<1>5. outcome'[h] = what /\ \A p \in Pkts : p # h => outcome'[p] = outcome[p]
  BY <1>1, <1>4 DEF TypeOK
<1>6. ASSUME NEW p \in Pkts
      PROVE  /\ outcome'[p] = "waiting" => InQueue(p)'
             /\ p \in reported' <=> ~InQueue(p)' /\ outcome'[p] = "ok"
  <2>1. /\ outcome[p] = "waiting" => InQueue(p)
        /\ p \in reported <=> ~InQueue(p) /\ outcome[p] = "ok"
    BY <1>1 DEF OutcomesAgree
  <2>2. CASE p = h
    <3>1. p \notin reported /\ ~InQueue(p)'
      BY <1>2, <1>3, <2>1, <2>2
    <3>2. p \in reported' <=> what = "ok"
      BY <2>2, <3>1
    <3>3. outcome'[p] = what
      BY <1>5, <2>2
    <3> QED BY <3>1, <3>2, <3>3
  <2>3. CASE p # h
    <3>1. p \in reported' <=> p \in reported
      BY <2>3
    <3>2. outcome'[p] = outcome[p] /\ (InQueue(p)' <=> InQueue(p))
      BY <1>2, <1>5, <2>3
    <3> QED BY <2>1, <3>1, <3>2
  <2> QED BY <2>2, <2>3
<1>7. OutcomesAgree'
  BY <1>6 DEF OutcomesAgree
<1> QED BY <1>2, <1>7 DEF ToldInv

\* The end of a transmission.
LEMMA EndTxTold ==
  ASSUME IInv, ToldInv, EndTx
  PROVE  ToldInv'
<1> DEFINE e == Head(txQueue)
<1>1. txQueue # <<>> /\ e.left > 0 /\ TypeOK /\ Distinct /\ OutcomesAgree
  <2>1. endTx # NotRunning
    BY DEF EndTx, NotRunning
  <2>2. macState = "TX"
    BY <2>1, StateInvariants DEF RadioFollowsMac
  <2>3. txPkt # NoPkt /\ e.left > 0
    BY <2>1, <2>2 DEF IInv, TxInv
  <2> QED BY <2>3 DEF IInv, QueueInv, ToldInv
<1>2. CASE ~e.conf /\ RemoveFirstTxQElement(TRUE)
  <2>1. outcome' = [outcome EXCEPT ![e.id] = "ok"]
    BY <1>2 DEF EndTx
  <2>2. txQueue' = Tail(txQueue) /\ reported' = reported \union {e.id}
    BY <1>2 DEF RemoveFirstTxQElement
  <2> QED BY <1>1, <2>1, <2>2, ServedTold
<1>3. CASE txQueue' = OneAttemptLess(txQueue) /\ reported' = reported
  <2>1. /\ Len(txQueue') = Len(txQueue) /\ Len(txQueue) \in Nat
        /\ txQueue'[1].id = e.id /\ e = txQueue[1]
        /\ \A i \in 2 .. Len(txQueue) : txQueue'[i] = txQueue[i]
    BY <1>1, <1>3, DecLemma, TailLemma DEF TypeOK
  <2>2. \A i \in 1 .. Len(txQueue) : txQueue'[i].id = txQueue[i].id
    <3>1. \A i \in 1 .. Len(txQueue) : i = 1 \/ i \in 2 .. Len(txQueue)
      BY <2>1
    <3> QED BY <2>1, <3>1
  <2>3. Distinct' /\ \A p : InQueue(p)' <=> InQueue(p)
    BY <1>1, <2>1, <2>2 DEF Distinct, InQueue
  <2>4. e.id \in Pkts /\ InQueue(e.id)
    <3>1. e \in Elements /\ 1 \in 1 .. Len(txQueue)
      BY <1>1, TailLemma DEF TypeOK
    <3> QED BY <2>1, <3>1, ElementType DEF InQueue
  <2>5. outcome' = IF e.conf THEN outcome ELSE [outcome EXCEPT ![e.id] = "ok"]
    BY DEF EndTx
  <2>6. \A p \in Pkts : outcome'[p] = outcome[p] \/ (p = e.id /\ outcome'[p] = "ok")
    BY <1>1, <2>4, <2>5 DEF TypeOK
  <2>7. ASSUME NEW p \in Pkts
        PROVE  /\ outcome'[p] = "waiting" => InQueue(p)'
               /\ p \in reported' <=> ~InQueue(p)' /\ outcome'[p] = "ok"
    <3>1. /\ outcome[p] = "waiting" => InQueue(p)
          /\ p \in reported <=> ~InQueue(p) /\ outcome[p] = "ok"
      BY <1>1 DEF OutcomesAgree
    <3>2. (InQueue(p)' <=> InQueue(p)) /\ (p \in reported' <=> p \in reported)
      BY <1>3, <2>3
    <3>3. outcome'[p] = outcome[p] \/ (InQueue(p) /\ outcome'[p] = "ok")
      BY <2>4, <2>6
    <3> QED BY <3>1, <3>2, <3>3
  <2>8. OutcomesAgree'
    BY <2>7 DEF OutcomesAgree
  <2> QED BY <2>3, <2>8 DEF ToldInv
<1>4. \/ ~e.conf /\ RemoveFirstTxQElement(TRUE)
      \/ txQueue' = OneAttemptLess(txQueue) /\ reported' = reported
  BY DEF EndTx
<1> QED BY <1>2, <1>3, <1>4

\* A request is waiting and unreported, also when its handle was used before.
LEMMA SendTold ==
  ASSUME IInv, ToldInv, NEW p \in Pkts, NEW conf \in BOOLEAN, NEW sb \in SubBands,
         NEW air \in AirTimes, NEW n \in 1 .. MaxTransmissions,
         Send(p, conf, sb, air, n)
  PROVE  ToldInv'
<1> DEFINE e == [id |-> p, conf |-> conf, sb |-> sb, air |-> air, req |-> n,
                 left |-> n]
<1>1. /\ ~InQueue(p) /\ txQueue' = Append(txQueue, e) /\ e.id = p
      /\ outcome' = [outcome EXCEPT ![p] = "waiting"]
      /\ reported' = reported \ {p}
  BY DEF Send
<1>2. TypeOK /\ Distinct /\ OutcomesAgree /\ e \in Elements
  BY Times DEF IInv, ToldInv, Elements
<1> HIDE DEF e
<1>3. /\ Len(txQueue) \in Nat /\ Len(txQueue') = Len(txQueue) + 1
      /\ \A i \in 1 .. Len(txQueue) : txQueue'[i] = txQueue[i]
      /\ txQueue'[Len(txQueue) + 1].id = p
  BY <1>1, <1>2, AppendLemma DEF TypeOK
<1>4. \A i \in 1 .. Len(txQueue') : i = Len(txQueue) + 1 \/ i \in 1 .. Len(txQueue)
  BY <1>3
<1>5. \A i \in 1 .. Len(txQueue) : txQueue[i].id # p
  BY <1>1 DEF InQueue
<1>6. Distinct'
  <2> SUFFICES ASSUME NEW i \in 1 .. Len(txQueue'), NEW j \in 1 .. Len(txQueue'),
                      txQueue'[i].id = txQueue'[j].id
               PROVE  i = j
    BY DEF Distinct
  <2>1. CASE i \in 1 .. Len(txQueue) /\ j \in 1 .. Len(txQueue)
    BY <1>2, <1>3, <2>1 DEF Distinct
  <2>2. CASE i = Len(txQueue) + 1 \/ j = Len(txQueue) + 1
    BY <1>3, <1>4, <1>5, <2>2
  <2> QED BY <1>4, <2>1, <2>2
<1>7. \A q : InQueue(q)' <=> InQueue(q) \/ q = p
  <2>1. \A q : InQueue(q)' => InQueue(q) \/ q = p
    BY <1>3, <1>4 DEF InQueue
  <2>2. Len(txQueue) + 1 \in 1 .. Len(txQueue')
        /\ \A i \in 1 .. Len(txQueue) : i \in 1 .. Len(txQueue')
    BY <1>3
  <2>3. \A q : InQueue(q) \/ q = p => InQueue(q)'
    BY <1>3, <2>2 DEF InQueue
  <2> QED BY <2>1, <2>3
<1>8. outcome'[p] = "waiting" /\ \A q \in Pkts : q # p => outcome'[q] = outcome[q]
  BY <1>1, <1>2 DEF TypeOK
<1>9. ASSUME NEW q \in Pkts
      PROVE  /\ outcome'[q] = "waiting" => InQueue(q)'
             /\ q \in reported' <=> ~InQueue(q)' /\ outcome'[q] = "ok"
  <2>1. /\ outcome[q] = "waiting" => InQueue(q)
        /\ q \in reported <=> ~InQueue(q) /\ outcome[q] = "ok"
    BY <1>2 DEF OutcomesAgree
  <2>2. q \in reported' <=> q \in reported /\ q # p
    BY <1>1
  <2>3. CASE q = p
    BY <1>7, <1>8, <2>2, <2>3
  <2>4. CASE q # p
    <3>1. outcome'[q] = outcome[q] /\ (InQueue(q)' <=> InQueue(q))
      BY <1>7, <1>8, <2>4
    <3> QED BY <2>1, <2>2, <2>4, <3>1
  <2> QED BY <2>3, <2>4
<1>10. OutcomesAgree'
  BY <1>9 DEF OutcomesAgree
<1> QED BY <1>6, <1>10 DEF ToldInv

\* Every step keeps what the upper layer was told in agreement with the queue.
LEMMA NextTold ==
  ASSUME IInv, ToldInv, [Next]_vars
  PROVE  ToldInv'
<1>1. CASE UNCHANGED <<txQueue, outcome, reported>>
  <2>1. txQueue' = txQueue /\ outcome' = outcome /\ reported' = reported
    BY <1>1
  <2> QED BY <2>1 DEF ToldInv, Distinct, OutcomesAgree, InQueue
<1>2. CASE EndTx
  BY <1>2, EndTxTold
<1>3. CASE Completes
  <2>1. txQueue # <<>>
    BY <1>3 DEF Completes, IInv, QueueInv
  <2>2. /\ outcome' = [outcome EXCEPT ![Head(txQueue).id] = "ok"]
        /\ RemoveFirstTxQElement(TRUE)
    BY <1>3 DEF Completes, EndRxAccepted
  <2> QED BY <2>1, <2>2, ServedTold DEF RemoveFirstTxQElement
<1>4. CASE GivesUp
  <2>1. txQueue # <<>>
    BY <1>4 DEF GivesUp, IInv, QueueInv
  <2>2. /\ outcome' = [outcome EXCEPT ![Head(txQueue).id] = "noack"]
        /\ txQueue' = Tail(txQueue) /\ reported' = reported
    BY <1>4 DEF GivesUp, RemoveFirstTxQElement
  <2> QED BY <2>1, <2>2, ServedTold
<1>5. CASE \E p \in Pkts, conf \in BOOLEAN, sb \in SubBands, air \in AirTimes,
           n \in 1 .. MaxTransmissions : Send(p, conf, sb, air, n)
  BY <1>5, SendTold
<1> QED BY <1>1, <1>2, <1>3, <1>4, <1>5, WhoServes

\* The upper layer is told about every packet: one that is still waiting is in
\* the queue, and m_sentPktTrace has reported those that left it with success.
THEOREM UpperLayerIsTold ==
  ASSUME DataAnswers = FALSE, ArrivalAtClose = FALSE
  PROVE  Spec => []OutcomesAgree
<1>1. IInv /\ ToldInv /\ [Next]_vars => ToldInv'
  BY NextTold
<1>2. ToldInv => OutcomesAgree
  BY DEF ToldInv
<1> QED BY InitTold, <1>1, <1>2, Invariance, PTL DEF Spec

-----------------------------------------------------------------------------
(***************************************************************************)
(* When the device sends and repeats.  A window that opens on time has     *)
(* just been opened as long as no time has passed since; nothing can end   *)
(* it before time passes.                                                  *)
(***************************************************************************)
FreshWindow ==
  setMacState = <<>> /\ preambleCheck = PreambleTime /\ rx.left # 0 /\ ackTimeOut # 0

ClockInv ==
  /\ macState = "RW1" =>
       /\ sinceUplink >= ReceiveDelay1
       /\ sinceUplink = ReceiveDelay1 => FreshWindow
       /\ Pending("IDLE", 0) => ~AwaitsAck
  /\ macState = "RW2" =>
       /\ sinceUplink >= ReceiveDelay2
       /\ sinceUplink = ReceiveDelay2 => FreshWindow
  /\ macState = "WAITFORRW2" => sinceUplink > ReceiveDelay1
  /\ macState = "ACK_TIMEOUT" => sinceUplink > ReceiveDelay2
  /\ macState = "IDLE" =>
       /\ sinceUplink > ReceiveDelay1
       /\ setMacState = <<>> /\ AwaitsAck => sinceUplink > ReceiveDelay2
  /\ macState = "TX" /\ setMacState = <<>> => sinceUplink > ReceiveDelay1

\* The clock and the constants it is compared with.
LEMMA Clock ==
  ASSUME TypeOK
  PROVE  /\ sinceUplink \in Nat
         /\ ReceiveDelay1 \in Nat /\ ReceiveDelay2 \in Nat
         /\ ReceiveDelay1 < ReceiveDelay2
BY Times, OrderAssumption DEF TypeOK

\* Before the first uplink no window is awaited.
LEMMA InitClock == Init => ClockInv
<1> SUFFICES ASSUME Init PROVE ClockInv
  OBVIOUS
<1>1. sinceUplink > ReceiveDelay1
  BY Times, OrderAssumption DEF Init
<1> QED BY <1>1 DEF Init, ClockInv, AwaitsAck

\* The state changes of the MAC.
LEMMA StateChangeClock ==
  ASSUME IInv, ClockInv,
         \/ EnterTx \/ EnterWaitForRW1 \/ EnterWaitForRW2 \/ MissRW2 \/ EnterAckTimeout
         \/ \E w \in {"RW1", "RW2"} : EnterWindow(w)
  PROVE  ClockInv'
<1>0. TypeOK
  BY DEF IInv
<1>1. CASE EnterTx
  <2>1. macState = "IDLE" /\ macState' = "TX" /\ sinceUplink' = sinceUplink
    BY <1>1, FiresFacts DEF EnterTx
  <2> QED BY <2>1 DEF ClockInv
<1>2. CASE EnterWaitForRW1
  BY <1>2 DEF EnterWaitForRW1, ClockInv
<1>3. CASE EnterWaitForRW2
  <2>1. /\ macState = "RW1" /\ macState' = "WAITFORRW2" /\ setMacState # <<>>
        /\ sinceUplink' = sinceUplink
    BY <1>3, FiresFacts DEF EnterWaitForRW2, Fires
  <2>2. sinceUplink > ReceiveDelay1
    BY <1>0, <2>1, Clock DEF ClockInv, FreshWindow
  <2> QED BY <2>1, <2>2 DEF ClockInv
<1>4. CASE MissRW2
  <2>1. macState' = "RW2" /\ sinceUplink' = sinceUplink /\ sinceUplink > ReceiveDelay2
    BY <1>4 DEF MissRW2
  <2> QED BY <1>0, <2>1, Clock DEF ClockInv
<1>5. CASE EnterAckTimeout
  <2>1. /\ macState = "RW2" /\ macState' = "ACK_TIMEOUT" /\ setMacState # <<>>
        /\ sinceUplink' = sinceUplink
    BY <1>5, FiresFacts DEF EnterAckTimeout, Fires
  <2>2. sinceUplink > ReceiveDelay2
    BY <1>0, <2>1, Clock DEF ClockInv, FreshWindow
  <2> QED BY <2>1, <2>2 DEF ClockInv
<1>6. ASSUME NEW w \in {"RW1", "RW2"}, EnterWindow(w)
      PROVE  ClockInv'
  <2>1. /\ macState' = w /\ setMacState' = <<>> /\ sinceUplink' = sinceUplink
        /\ preambleCheck' = PreambleTime /\ rx' = NoRx
        /\ ackTimeOut = NotRunning
        /\ sinceUplink = IF w = "RW1" THEN ReceiveDelay1 ELSE ReceiveDelay2
    BY <1>6, FiresAlone, FiresFacts DEF EnterWindow, OpenRW, RadioIdle
  <2>2. ackTimeOut' # 0
    BY <1>6, <2>1, Times, TimerType DEF EnterWindow, OpenRW
  <2>3. FreshWindow'
    BY <2>1, <2>2, NoRxType, TimerType DEF FreshWindow
  <2>4. ~Pending("IDLE", 0)'
    BY <2>1, Singleton DEF Pending
  <2> QED BY <1>0, <2>1, <2>3, <2>4, Clock DEF ClockInv
<1> QED BY <1>1, <1>2, <1>3, <1>4, <1>5, <1>6

\* Windows are closed, and receptions and Ack timers end, only after time has
\* passed.
LEMMA WindowClock ==
  ASSUME IInv, IInv', ClockInv, CheckPhyPreamble \/ AckTimeoutExpired \/ EndRxDropped
  PROVE  ClockInv'
<1>1. /\ TypeOK /\ macState' = macState /\ sinceUplink' = sinceUplink
      /\ txQueue' = txQueue /\ txPkt' = txPkt
      /\ ~FreshWindow
  BY Times DEF IInv, CheckPhyPreamble, AckTimeoutExpired, EndRxDropped, queue,
     FreshWindow, EndRxDue
<1>2. AwaitsAck' <=> AwaitsAck
  BY <1>1 DEF AwaitsAck
<1>3. CASE macState = "RW1"
  <2>1. sinceUplink > ReceiveDelay1
    BY <1>1, <1>3, Clock DEF ClockInv
  <2>2. Pending("IDLE", 0)' => Pending("IDLE", 0)
    <3>1. UNCHANGED setMacState \/ CloseRW
      BY <1>3 DEF CheckPhyPreamble, AckTimeoutExpired, EndRxDropped
    <3>2. ASSUME CloseRW, Pending("IDLE", 0)' PROVE FALSE
      <4>1. setMacState' = Append(setMacState, Event("WAITFORRW2", 0))
        BY <1>3, <3>2 DEF CloseRW, AfterWindow
      <4>2. setMacState \in Seq(StateEvents) /\ setMacState' = <<Event("IDLE", 0)>>
        BY <1>1, <3>2 DEF TypeOK, Pending
      <4>3. setMacState'[Len(setMacState')] = Event("WAITFORRW2", 0)
        BY <4>1, <4>2
      <4>4. setMacState'[Len(setMacState')] = Event("IDLE", 0)
        BY <4>2, Singleton
      <4> QED BY <4>3, <4>4, EventFields
    <3> QED BY <3>1, <3>2 DEF Pending
  <2> QED BY <1>1, <1>2, <1>3, <2>1, <2>2, Clock DEF ClockInv
<1>4. CASE macState = "RW2"
  BY <1>1, <1>4, Clock DEF ClockInv
<1>5. CASE macState \notin {"RW1", "RW2"}
  <2>1. macState # "IDLE" \/ ~AckTimeoutExpired
    BY TimerType DEF IInv, IdleInv, AckTimeoutExpired
  <2>2. macState # "TX" \/ ~AckTimeoutExpired
    BY TimerType DEF IInv, TxInv, AckTimeoutExpired
  <2>3. ~EndRxDropped
    BY <1>5, RxDueFacts DEF EndRxDropped, EndRxDue
  <2>4. CheckPhyPreamble => UNCHANGED setMacState
    BY <1>5 DEF CheckPhyPreamble, CloseRW
  <2>5. macState \in {"IDLE", "TX"} => setMacState' = setMacState
    BY <2>1, <2>2, <2>3, <2>4
  <2> QED BY <1>1, <1>2, <1>5, <2>5 DEF ClockInv
<1> QED BY <1>3, <1>4, <1>5

\* A frame that is accepted ends the exchange; in RW1 it leaves none that waits
\* for its Ack.
LEMMA EndRxAcceptedClock ==
  ASSUME IInv, ClockInv, EndRxAccepted
  PROVE  ClockInv'
<1>1. /\ TypeOK /\ macState' = macState /\ sinceUplink' = sinceUplink
      /\ macState \in {"RW1", "RW2"} /\ rx.left = 0 /\ rx.left # NotRunning
      /\ rx.frame \in Frames /\ rx.frame # "other"
  BY RxDueFacts, TimerType DEF IInv, EndRxAccepted, EndRxDue, TypeOK
<1>2. ~FreshWindow
  BY <1>1 DEF FreshWindow
<1>3. ~AwaitsAck'
  <2>1. CASE rx.frame = "data"
    BY <1>1, <2>1 DEF IInv, AckInv, EndRxAccepted, queue, AwaitsAck
  <2>2. CASE rx.frame = "ack" /\ txPkt # NoPkt
    BY <2>2 DEF EndRxAccepted, AwaitsAck
  <2>3. CASE rx.frame = "ack" /\ txPkt = NoPkt
    BY <2>3 DEF EndRxAccepted, AwaitsAck, queue
  <2> QED BY <1>1, <2>1, <2>2, <2>3 DEF Frames
<1> QED BY <1>1, <1>2, <1>3, Clock DEF ClockInv

\* The end of a transmission starts the clock again.
LEMMA EndTxClock ==
  ASSUME IInv, ClockInv, EndTx
  PROVE  ClockInv'
<1>1. macState = "TX" /\ macState' = macState
  <2>1. endTx # NotRunning
    BY DEF EndTx, NotRunning
  <2> QED BY <2>1, StateInvariants DEF RadioFollowsMac, EndTx
<1>2. setMacState' # <<>>
  <2>1. setMacState \in Seq(StateEvents)
    BY DEF IInv, TypeOK
  <2>2. setMacState' = Append(setMacState, Event("WAITFORRW1", 0))
    BY DEF EndTx
  <2> QED BY <2>1, <2>2
<1> QED BY <1>1, <1>2 DEF ClockInv

\* The beginning of a reception, which takes time to end.
LEMMA StartRxClock ==
  ASSUME IInv, ClockInv, NEW frame \in Frames, NEW air \in FrameTimes,
         StartRx(frame, air)
  PROVE  ClockInv'
<1>1. /\ UNCHANGED <<macState, setMacState, preambleCheck, ackTimeOut, sinceUplink,
                     txQueue, txPkt>>
      /\ rx' = [left |-> air, frame |-> frame]
  BY DEF StartRx, mac, queue
<1>2. rx'.left # 0
  BY <1>1, Times
<1>3. FreshWindow => FreshWindow'
  BY <1>1, <1>2 DEF FreshWindow
<1> QED BY <1>1, <1>3 DEF ClockInv, Pending, AwaitsAck

\* Time passes.
LEMMA TickClock ==
  ASSUME IInv, ClockInv, Tick
  PROVE  ClockInv'
<1>1. /\ TypeOK /\ macState' = macState /\ txQueue' = txQueue /\ txPkt' = txPkt
      /\ sinceUplink' = IF sinceUplink <= ReceiveDelay2 THEN sinceUplink + 1
                                                        ELSE sinceUplink
  BY DEF IInv, Tick, queue
<1>2. /\ sinceUplink >= ReceiveDelay1 => sinceUplink' > ReceiveDelay1
      /\ sinceUplink >= ReceiveDelay2 => sinceUplink' > ReceiveDelay2
      /\ sinceUplink' \in Nat
  BY <1>1, Clock
<1>3. macState \in {"RW1", "IDLE", "TX"} => setMacState = <<>> /\ setMacState' = <<>>
  <2>1. setMacState \in Seq(StateEvents) /\ 0 \in Nat
    BY <1>1 DEF TypeOK
  <2>2. \A to \in MacStates : ~Pending(to, 0)
    BY <2>1, TickEvents
  <2>3. /\ ~Pending("TX", 0) /\ ~Pending("WAITFORRW1", 0)
        /\ ~Pending("IDLE", 0) /\ ~Pending("WAITFORRW2", 0)
    BY <2>2 DEF MacStates
  <2>4. macState \in {"RW1", "IDLE", "TX"} => setMacState = <<>>
    BY <2>3 DEF IInv, WindowInv, IdleInv, TxInv
  <2> QED BY <2>1, <2>4, TickEvents
<1>4. macState = "RW1" => ~Pending("IDLE", 0)'
  BY <1>3, Singleton DEF Pending
<1>5. AwaitsAck' <=> AwaitsAck
  BY <1>1 DEF AwaitsAck
<1> QED BY <1>1, <1>2, <1>3, <1>4, <1>5, Clock DEF ClockInv

\* A request of the upper layer: in MAC_IDLE it may start a transmission.
LEMMA SendClock ==
  ASSUME IInv, ClockInv, NEW p \in Pkts, NEW conf \in BOOLEAN, NEW sb \in SubBands,
         NEW air \in AirTimes, NEW n \in 1 .. MaxTransmissions,
         Send(p, conf, sb, air, n)
  PROVE  ClockInv'
<1> DEFINE e == [id |-> p, conf |-> conf, sb |-> sb, air |-> air, req |-> n,
                 left |-> n]
<1>1. /\ macState' = macState /\ sinceUplink' = sinceUplink
      /\ UNCHANGED <<preambleCheck, ackTimeOut, rx>>
      /\ txQueue' = Append(txQueue, e)
      /\ CheckQueue(txQueue', txPkt, setMacState, subBandTimers)
  BY DEF Send, phy
<1>2. /\ TypeOK /\ txQueue \in Seq(Elements) /\ e \in Elements
  BY Times DEF IInv, TypeOK, Elements
<1> HIDE DEF e
<1>3. txPkt # NoPkt => txQueue # <<>> /\ Head(txQueue') = Head(txQueue)
  BY <1>1, <1>2, AppendLemma DEF IInv, QueueInv
<1>4. CASE macState # "IDLE" \/ txPkt # NoPkt \/ setMacState # <<>>
  <2>1. txPkt' = txPkt /\ setMacState' = setMacState
    BY <1>1, <1>4, CheckQueueNotReady
  <2>2. AwaitsAck' <=> AwaitsAck
    BY <1>3, <2>1 DEF AwaitsAck
  <2>3. (FreshWindow' <=> FreshWindow) /\ (Pending("IDLE", 0)' <=> Pending("IDLE", 0))
    BY <1>1, <2>1 DEF FreshWindow, Pending
  <2> QED BY <1>1, <2>1, <2>2, <2>3 DEF ClockInv
<1>5. CASE macState = "IDLE" /\ txPkt = NoPkt /\ setMacState = <<>>
  <2>1. setMacState' = <<>> => txPkt' = NoPkt
    BY <1>1, <1>5, Singleton DEF CheckQueue
  <2>2. setMacState' = <<>> => ~AwaitsAck'
    BY <2>1 DEF AwaitsAck
  <2> QED BY <1>1, <1>5, <2>2 DEF ClockInv
<1> QED BY <1>4, <1>5

\* In MAC_IDLE: a frame that still waits for its Ack was not answered in RW1, so
\* that RW2 is over too.
LEMMA EnterIdleClock ==
  ASSUME IInv, ClockInv, EnterIdle
  PROVE  ClockInv'
<1>1. /\ TypeOK /\ macState' = "IDLE" /\ sinceUplink' = sinceUplink
      /\ macState \in {"RW1", "RW2", "ACK_TIMEOUT"}
      /\ setMacState = <<Event("IDLE", 0)>> /\ Tail(setMacState) = <<>>
  BY FiresAlone, FiresFacts DEF IInv, EnterIdle
<1>2. setMacState # <<>> /\ Pending("IDLE", 0) /\ ~FreshWindow
  BY <1>1, Singleton DEF Pending, FreshWindow
<1>3. sinceUplink > ReceiveDelay1 /\ (AwaitsAck => sinceUplink > ReceiveDelay2)
  BY <1>1, <1>2, Clock DEF ClockInv
<1>4. ASSUME setMacState' = <<>>, AwaitsAck'
      PROVE  AwaitsAck
  <2>1. CASE txPkt = NoPkt
    <3>1. CheckQueue(txQueue, NoPkt, <<>>, subBandTimers)
      BY <1>1, <2>1 DEF EnterIdle
    <3>2. txPkt' = NoPkt
      BY <1>4, <3>1, Singleton DEF CheckQueue
    <3> QED BY <1>4, <3>2 DEF AwaitsAck
  <2>2. CASE txPkt # NoPkt
    <3>1. CheckRetransmission(<<>>, subBandTimers)
      BY <1>1, <2>2 DEF EnterIdle
    <3>2. \/ CheckQueue(Tail(txQueue), NoPkt, <<>>, subBandTimers)
          \/ txQueue' = txQueue /\ txPkt' = txPkt
      BY <3>1 DEF CheckRetransmission, queue
    <3>3. ASSUME CheckQueue(Tail(txQueue), NoPkt, <<>>, subBandTimers)
          PROVE  txPkt' = NoPkt
      BY <1>4, <3>3, Singleton DEF CheckQueue
    <3> QED BY <1>4, <3>2, <3>3 DEF AwaitsAck
  <2> QED BY <2>1, <2>2
<1> QED BY <1>1, <1>3, <1>4 DEF ClockInv

\* The timer of a sub band only wakes the queue up.
LEMMA SubBandTimerClock ==
  ASSUME IInv, ClockInv, NEW sb \in SubBands, SubBandTimerExpired(sb)
  PROVE  ClockInv'
<1>1. macState = "IDLE" /\ macState' = macState /\ sinceUplink' = sinceUplink
  BY TimerType DEF IInv, SubBandInv, SubBandTimerExpired
<1>2. ASSUME setMacState' = <<>>, AwaitsAck'
      PROVE  setMacState = <<>> /\ AwaitsAck
  <2> DEFINE timers == [subBandTimers EXCEPT ![sb] = NotRunning]
  <2>1. CASE txPkt = NoPkt
    <3>1. CheckQueue(txQueue, NoPkt, setMacState, timers)
      BY <2>1 DEF SubBandTimerExpired
    <3>2. txPkt' = NoPkt
      BY <1>2, <3>1, Singleton DEF CheckQueue
    <3> QED BY <1>2, <3>2 DEF AwaitsAck
  <2>2. CASE txPkt # NoPkt
    <3>1. CheckRetransmission(setMacState, timers) /\ ~Exhausted(Head(txQueue))
      BY <1>1, <2>2 DEF SubBandTimerExpired, IInv, IdleInv, Exhausted
    <3>2. setMacState' = setMacState /\ txQueue' = txQueue /\ txPkt' = txPkt
      BY <1>2, <3>1, Singleton DEF CheckRetransmission, queue
    <3> QED BY <1>2, <3>2 DEF AwaitsAck
  <2> QED BY <2>1, <2>2
<1> QED BY <1>1, <1>2 DEF ClockInv

\* Every step keeps the time since the last uplink in line with the MAC.
LEMMA NextClock ==
  ASSUME IInv, IInv', ClockInv, [Next]_vars
  PROVE  ClockInv'
<1>1. CASE Device
  BY <1>1, StateChangeClock, WindowClock, EndRxAcceptedClock, EndTxClock,
     TickClock, EnterIdleClock, SubBandTimerClock DEF Device
<1>2. CASE Environment
  BY <1>2, SendClock, StartRxClock DEF Environment
<1>3. CASE UNCHANGED vars
  BY <1>3 DEF vars, mac, queue, phy, ClockInv, FreshWindow, Pending, AwaitsAck
<1> QED BY <1>1, <1>2, <1>3 DEF Next

\* The time since the last uplink says which windows and timers are over in each
\* state of the MAC: what "before" and "after" in the next theorems rest on.
THEOREM ClockInvariance ==
  ASSUME DataAnswers = FALSE, ArrivalAtClose = FALSE
  PROVE  Spec => []ClockInv
<1>1. IInv /\ IInv' /\ ClockInv /\ [Next]_vars => ClockInv'
  BY NextClock
<1> QED BY InitClock, <1>1, Invariance, PTL DEF Spec

\* An uplink ends after the windows of the one before.
LEMMA UplinkApart ==
  ASSUME IInv, ClockInv, endTx = 0
  PROVE  sinceUplink > ReceiveDelay1
<1>1. endTx # NotRunning
  BY DEF NotRunning
<1>2. macState = "TX"
  BY <1>1, StateInvariants DEF RadioFollowsMac
<1>3. setMacState = <<>>
  BY <1>1, <1>2 DEF IInv, TxInv
<1> QED BY <1>2, <1>3 DEF ClockInv

\* Who schedules a further state change in RW1.
LEMMA AfterRW1 ==
  ASSUME IInv, [Next]_vars, macState = "RW1", Len(setMacState') > Len(setMacState)
  PROVE  \/ setMacState'[Len(setMacState')].to = "WAITFORRW2"
         \/ rx.left = 0 /\ rx.frame \in {"ack", "data"}
<1>1. /\ TypeOK /\ setMacState \in Seq(StateEvents) /\ Len(setMacState) \in Nat
      /\ ackTimeOut = NotRunning
  BY DEF IInv, TypeOK, AckInv
<1>2. setMacState' # setMacState
  BY <1>1
<1>3. \A st : Fires(st) => Len(setMacState) = 1 /\ Tail(setMacState) = <<>>
  BY FiresAlone, Singleton
<1>4. \A ev : Len(<<ev>>) = 1
  OBVIOUS
<1>5. CASE CloseRW
  <2>1. setMacState' = Append(setMacState, Event("WAITFORRW2", 0))
    BY <1>5 DEF CloseRW, AfterWindow
  <2>2. setMacState'[Len(setMacState')] = Event("WAITFORRW2", 0)
    BY <1>1, <2>1
  <2> QED BY <2>2, EventFields
<1>6. CASE EndRxAccepted
  <2>1. rx.left = 0 /\ rx.frame # "other" /\ rx.frame \in Frames
    BY <1>1, <1>6 DEF EndRxAccepted, EndRxDue, TypeOK
  <2> QED BY <2>1 DEF Frames
<1>7. CASE EnterTx \/ EnterWaitForRW1 \/ EnterWaitForRW2 \/ MissRW2 \/ EnterAckTimeout
           \/ \E w \in {"RW1", "RW2"} : EnterWindow(w)
  <2>1. /\ Len(setMacState) = 1
        /\ setMacState' = <<>> \/ \E ev : setMacState' = <<ev>>
    BY <1>3, <1>7, Singleton DEF EnterTx, EnterWaitForRW1, EnterWaitForRW2,
       MissRW2, EnterAckTimeout, EnterWindow
  <2>2. Len(setMacState') = 0 \/ Len(setMacState') = 1
    BY <1>4, <2>1
  <2> QED BY <2>1, <2>2
<1>8. CASE EnterIdle
  <2>1. Len(setMacState) = 1 /\ Tail(setMacState) = <<>>
    BY <1>3, <1>8 DEF EnterIdle
  <2>2. setMacState' = <<>> \/ \E ev : setMacState' = <<ev>>
    BY <1>8, <2>1 DEF EnterIdle, CheckRetransmission, CheckQueue
  <2>3. Len(setMacState') = 0 \/ Len(setMacState') = 1
    BY <1>4, <2>2
  <2> QED BY <2>1, <2>3
<1>9. CASE Tick
  <2>1. Len(setMacState') = Len(setMacState)
    BY <1>1, <1>9 DEF Tick
  <2> QED BY <1>1, <2>1
<1>10. ~EndTx
  <2>1. endTx = NotRunning
    BY DEF IInv, WindowInv
  <2> QED BY <2>1 DEF EndTx, NotRunning
<1>11. ~AckTimeoutExpired /\ \A sb \in SubBands : ~SubBandTimerExpired(sb)
  BY <1>1, TimerType DEF AckTimeoutExpired, SubBandTimerExpired, IInv, SubBandInv
<1>12. ASSUME NEW p \in Pkts, NEW conf \in BOOLEAN, NEW sb \in SubBands,
              NEW air \in AirTimes, NEW n \in 1 .. MaxTransmissions,
              Send(p, conf, sb, air, n)
       PROVE  FALSE
  <2>1. macState' = "RW1"
    BY <1>12 DEF Send
  <2>2. setMacState' = setMacState
    BY <1>12, <2>1, CheckQueueNotReady DEF Send
  <2> QED BY <1>2, <2>2
<1>13. CASE \/ CheckPhyPreamble \/ EndRxDropped \/ UNCHANGED vars
            \/ \E frame \in Frames, air \in FrameTimes : StartRx(frame, air)
  BY <1>2, <1>5, <1>13 DEF CheckPhyPreamble, EndRxDropped, StartRx, vars, mac
<1> QED BY <1>6, <1>7, <1>8, <1>9, <1>10, <1>11, <1>12, <1>13
        DEF Next, Device, Environment

\* A device ends no uplink before the windows of the one before are over, and
\* skips RW2 only when it was answered in RW1.
THEOREM WindowsPrecedeUplink ==
  ASSUME DataAnswers = FALSE, ArrivalAtClose = FALSE
  PROVE  Spec => WindowsBeforeNextUplink
<1>1. IInv /\ ClockInv /\ [Next]_vars =>
        [/\ endTx = 0 /\ endTx' = NotRunning => sinceUplink > ReceiveDelay1
         /\ macState = "RW1" /\ Len(setMacState') > Len(setMacState)
              => \/ setMacState'[Len(setMacState')].to = "WAITFORRW2"
                 \/ rx.left = 0 /\ rx.frame \in {"ack", "data"}]_vars
  BY UplinkApart, AfterRW1
<1> QED BY <1>1, Invariance, ClockInvariance, PTL
        DEF Spec, WindowsBeforeNextUplink

\* Who counts a retransmission: CheckRetransmission, of a frame that is not
\* given up.
LEMMA WhoRepeats ==
  ASSUME IInv, [Next]_vars, retransmission' > retransmission
  PROVE  EnterIdle \/ (macState = "IDLE" /\ setMacState = <<>>)
<1>1. TypeOK /\ retransmission \in Nat
  BY Times DEF IInv, TypeOK
<1>2. ~(retransmission' = retransmission) /\ ~(retransmission' = 0)
  BY <1>1
<1>3. CASE EnterTx \/ EnterWaitForRW1 \/ (\E w \in {"RW1", "RW2"} : EnterWindow(w))
           \/ EnterWaitForRW2 \/ MissRW2 \/ EnterAckTimeout
  BY <1>2, <1>3 DEF EnterTx, EnterWaitForRW1, EnterWindow, EnterWaitForRW2,
     MissRW2, EnterAckTimeout, queue
<1>4. CASE CheckPhyPreamble \/ AckTimeoutExpired \/ EndRxDropped \/ Tick \/ UNCHANGED vars
  BY <1>2, <1>4 DEF CheckPhyPreamble, AckTimeoutExpired, EndRxDropped, Tick,
     queue, vars
<1>5. ~EndRxAccepted /\ ~EndTx
  BY <1>2 DEF EndRxAccepted, EndTx, RemoveFirstTxQElement, queue
<1>6. ASSUME NEW sb \in SubBands, SubBandTimerExpired(sb)
      PROVE  macState = "IDLE" /\ setMacState = <<>>
  <2>1. macState = "IDLE"
    BY <1>6, TimerType DEF IInv, SubBandInv, SubBandTimerExpired
  <2>2. txPkt # NoPkt /\ ~Exhausted(Head(txQueue))
    BY <1>2, <1>6, <2>1 DEF SubBandTimerExpired, IInv, IdleInv, Exhausted
  <2> QED BY <1>2, <1>6, <2>1, <2>2 DEF SubBandTimerExpired, CheckRetransmission,
       queue
<1>7. ~Environment
  BY <1>2 DEF Environment, Send, StartRx, queue
<1> QED BY <1>3, <1>4, <1>5, <1>6, <1>7 DEF Next, Device

\* A confirmed frame is repeated only after both windows and its Ack timer.
LEMMA RepeatApart ==
  ASSUME IInv, ClockInv, [Next]_vars, retransmission' > retransmission, AwaitsAck
  PROVE  sinceUplink > ReceiveDelay2 /\ ackTimeOut = NotRunning
<1>1. CASE EnterIdle
  <2>1. /\ TypeOK /\ macState \in {"RW1", "RW2", "ACK_TIMEOUT"}
        /\ setMacState = <<Event("IDLE", 0)>> /\ ackTimeOut = NotRunning
    BY <1>1, FiresAlone, FiresFacts DEF IInv, EnterIdle
  <2>2. Pending("IDLE", 0) /\ ~FreshWindow
    BY <2>1, Singleton DEF Pending, FreshWindow
  <2>3. sinceUplink > ReceiveDelay2
    BY <2>1, <2>2, Clock DEF ClockInv
  <2> QED BY <2>1, <2>3
<1>2. CASE macState = "IDLE" /\ setMacState = <<>>
  BY <1>2 DEF ClockInv, IInv, IdleInv
<1> QED BY <1>1, <1>2, WhoRepeats

\* A confirmed frame is repeated only after both windows and its Ack timer.
THEOREM RepeatsInTime ==
  ASSUME DataAnswers = FALSE, ArrivalAtClose = FALSE
  PROVE  Spec => RepeatsAfterAckTimeout
<1>1. IInv /\ ClockInv /\ [Next]_vars =>
        [retransmission' > retransmission /\ AwaitsAck
           => sinceUplink > ReceiveDelay2 /\ ackTimeOut = NotRunning]_vars
  BY RepeatApart
<1> QED BY <1>1, Invariance, ClockInvariance, PTL
        DEF Spec, RepeatsAfterAckTimeout
=============================================================================
