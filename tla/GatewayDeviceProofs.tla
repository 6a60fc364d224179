------------------------ MODULE GatewayDeviceProofs ------------------------
(***************************************************************************)
(* Proofs about GatewayDevice, for any number of MACs, any sub bands and   *)
(* any air times, while no two windows open in the same instant.           *)
(***************************************************************************)
EXTENDS GatewayDevice, TLAPS, SequenceTheorems

-----------------------------------------------------------------------------
(***************************************************************************)
(* The inductive invariant.  The gateway is in one of four phases, told    *)
(* apart by the events that are scheduled and the EndTx that runs.         *)
(***************************************************************************)
ToIdle(m) == [mac |-> m, to |-> "IDLE"]
ToTx(m) == [mac |-> m, to |-> "TX"]
Sending(m) == endTx[m] # NotRunning
Ending(m) == setMacState # <<>> /\ Head(setMacState) = ToIdle(m)

\* At most one MAC ends a transmission and one begins the next, in this order.
EventsInOrder ==
  \/ setMacState = <<>>
  \/ \E m \in Macs : setMacState = <<ToTx(m)>>
  \/ \E m \in Macs : setMacState = <<ToIdle(m)>>
  \/ \E m, n \in Macs : m # n /\ setMacState = <<ToIdle(m), ToTx(n)>>

Starting(m) == setMacState = <<ToTx(m)>>
                 \/ \E n \in Macs : setMacState = <<ToIdle(n), ToTx(m)>>

\* While m sends every other MAC is unavailable and off, without a frame.
SenderAlone ==
  \A m \in Macs : Sending(m) =>
    /\ setMacState = <<>>
    /\ macState[m] = "TX" /\ trxState[m] = "BUSY_TX"
    /\ \A n \in Macs \ {m} : /\ macState[n] = "UNAVAILABLE"
                             /\ trxState[n] = "TRX_OFF"
                             /\ endTx[n] = NotRunning

\* A MAC that has sent and is not idle yet finds every other one idle.
EnderAlone ==
  \A m \in Macs : Ending(m) =>
    /\ macState[m] = "TX" /\ trxState[m] = "BUSY_TX"
    /\ \A n \in Macs \ {m} : macState[n] = "IDLE"

\* Why a MAC is not idle, and what an idle one does.
StateReason ==
  \A m \in Macs :
    /\ macState[m] = "TX" => Sending(m) \/ Ending(m)
    /\ macState[m] = "UNAVAILABLE" => \E n \in Macs : Sending(n)
    /\ macState[m] = "IDLE" => trxState[m] \in {"RX_ON", "BUSY_RX"}

\* A MAC holds a frame, and one frame only, while it begins or sends.
OneFrame ==
  \A m \in Macs :
    /\ txPkt[m] <=> (Sending(m) \/ Starting(m))
    /\ txQueue[m] = <<>> <=> ~txPkt[m]
    /\ txPkt[m] => \E air \in AirTimes : txQueue[m] = <<air>>
    /\ Starting(m) => macState[m] = "IDLE"

\* The sub band of a MAC that begins to send is free.
BandFree == \A m \in Macs : Starting(m) => offTime[SubBandOf[m]] = 0

\* A transceiver receives exactly the frame that is current and not aborted.
Receiving ==
  \A m \in Macs :
    /\ trxState[m] = "BUSY_RX" <=> (rx[m] # NoRx /\ ~rx[m].aborted)
    /\ rx[m].left = NotRunning => rx[m] = NoRx

IInv ==
  /\ TypeOK /\ EventsInOrder /\ SenderAlone /\ EnderAlone
  /\ StateReason /\ OneFrame /\ BandFree /\ Receiving

-----------------------------------------------------------------------------
\* The initial states satisfy the invariant.
LEMMA InitIInv == Init => IInv
<1> SUFFICES ASSUME Init PROVE IInv
  OBVIOUS
<1> USE DEF Init
<1>1. TypeOK
  <2>1. /\ macState \in [Macs -> {"IDLE", "TX", "UNAVAILABLE"}]
        /\ txQueue \in [Macs -> Seq(AirTimes)]
        /\ txPkt \in [Macs -> BOOLEAN]
        /\ setMacState \in Seq(Events)
        /\ trxState \in [Macs -> {"TRX_OFF", "RX_ON", "BUSY_RX", "BUSY_TX"}]
        /\ endTx \in [Macs -> Nat \union {NotRunning}]
        /\ offTime \in [SubBands -> Nat]
    OBVIOUS
  <2>2. NoRx \in [left : Nat \union {NotRunning}, aborted : BOOLEAN]
    BY DEF NoRx
  <2>3. rx \in [Macs -> [left : Nat \union {NotRunning}, aborted : BOOLEAN]]
    BY <2>2
  <2> QED BY <2>1, <2>3 DEF TypeOK
<1>2. EventsInOrder /\ SenderAlone /\ EnderAlone /\ StateReason /\ OneFrame
        /\ BandFree
  BY DEF EventsInOrder, SenderAlone, EnderAlone, StateReason, OneFrame,
         BandFree, Sending, Ending, Starting
<1>3. Receiving
  BY DEF Receiving
<1> QED BY <1>1, <1>2, <1>3 DEF IInv

\* What the conditions on the scheduled events mean, given their order.
LEMMA WindowEvents ==
  ASSUME EventsInOrder, NEW m \in Macs, ~Pending(m),
         \A i \in 1 .. Len(setMacState) : setMacState[i].to # "TX"
  PROVE  setMacState = <<>>
           \/ \E k \in Macs : k # m /\ setMacState = <<ToIdle(k)>>
<1>1. CASE setMacState = <<>>
  BY <1>1
<1>2. ASSUME NEW k \in Macs, setMacState = <<ToTx(k)>> PROVE FALSE
  BY <1>2 DEF ToTx
<1>3. ASSUME NEW k \in Macs, setMacState = <<ToIdle(k)>> PROVE k # m
  BY <1>3 DEF ToIdle, Pending
<1>4. ASSUME NEW k \in Macs, NEW n \in Macs,
             setMacState = <<ToIdle(k), ToTx(n)>>
      PROVE  FALSE
  BY <1>4 DEF ToTx
<1> QED BY <1>1, <1>2, <1>3, <1>4 DEF EventsInOrder

\* The event that is next.
LEMMA NextTx ==
  ASSUME EventsInOrder, NEW m \in Macs, setMacState # <<>>,
         Head(setMacState) = ToTx(m)
  PROVE  setMacState = <<ToTx(m)>>
BY DEF EventsInOrder, ToTx, ToIdle

LEMMA NextIdle ==
  ASSUME EventsInOrder, NEW m \in Macs, setMacState # <<>>,
         Head(setMacState) = ToIdle(m)
  PROVE  setMacState = <<ToIdle(m)>>
           \/ \E n \in Macs : m # n /\ setMacState = <<ToIdle(m), ToTx(n)>>
BY DEF EventsInOrder, ToTx, ToIdle

-----------------------------------------------------------------------------
(***************************************************************************)
(* One lemma for each action.                                              *)
(***************************************************************************)
LEMMA AppendTwo ==
  ASSUME NEW S, NEW a \in S, NEW b \in S
  PROVE  Append(<<a>>, b) = <<a, b>>
<1>1. /\ Append(<<a>>, b) \in Seq(S)
      /\ <<a, b>> \in Seq(S)
  OBVIOUS
<1>2. Len(Append(<<a>>, b)) = 2 /\ Len(<<a, b>>) = 2
  OBVIOUS
<1>3. \A i \in 1 .. 2 : Append(<<a>>, b)[i] = <<a, b>>[i]
  OBVIOUS
<1> QED BY <1>1, <1>2, <1>3, SeqEqual

LEMMA WindowStep ==
  ASSUME IInv, ~SimultaneousWindows,
         NEW m \in Macs, NEW air \in AirTimes, Window(m, air)
  PROVE  IInv'
<1> USE DEF IInv
<1>1. macState[m] = "IDLE" /\ ~txPkt[m] /\ txQueue[m] = <<>>
  BY DEF Window, MaySend, OneFrame
<1>2. setMacState = <<>> \/ \E k \in Macs : k # m /\ setMacState = <<ToIdle(k)>>
  BY WindowEvents DEF Window, CanSendImmediatelyOnChannel
<1>3. setMacState' = <<ToTx(m)>>
        \/ \E k \in Macs : /\ k # m /\ setMacState = <<ToIdle(k)>>
                           /\ setMacState' = <<ToIdle(k), ToTx(m)>>
  <2>1. setMacState' = Append(setMacState, ToTx(m))
    BY DEF Window, ToTx
  <2>2. CASE setMacState = <<>>
    BY <2>1, <2>2
  <2>3. ASSUME NEW k \in Macs, k # m, setMacState = <<ToIdle(k)>>
        PROVE  setMacState' = <<ToIdle(k), ToTx(m)>>
    <3>1. ASSUME NEW a \in Events, NEW b \in Events
          PROVE  Append(<<a>>, b) = <<a, b>>
      BY AppendTwo
    <3>2. ToIdle(k) \in Events /\ ToTx(m) \in Events
      BY DEF Events, ToIdle, ToTx
    <3> QED BY <2>1, <2>3, <3>1, <3>2
  <2> QED BY <2>2, <2>3, <1>2
<1>4. TypeOK'
  <2>1. txQueue' \in [Macs -> Seq(AirTimes)]
    BY DEF Window, TypeOK
  <2>2. txPkt' \in [Macs -> BOOLEAN]
    BY DEF Window, TypeOK
  <2>3. [mac |-> m, to |-> "TX"] \in Events
    BY DEF Events
  <2>4. setMacState' \in Seq(Events)
    BY <2>3 DEF Window, TypeOK
  <2> QED BY <2>1, <2>2, <2>4 DEF Window, TypeOK, phy
<1>5. EventsInOrder'
  BY <1>3 DEF EventsInOrder
<1>6. \A k \in Macs : ~Sending(k)
  BY <1>1 DEF SenderAlone, Sending, Window
<1>7. \A k \in Macs : Ending(k)' <=> Ending(k)
  <2>1. CASE setMacState = <<>>
    <3>1. setMacState' = <<ToTx(m)>>
      BY <1>3, <2>1
    <3>2. Head(setMacState') = ToTx(m)
      BY <3>1
    <3>3. \A k \in Macs : ToTx(m) # ToIdle(k)
      BY DEF ToTx, ToIdle
    <3> QED BY <2>1, <3>2, <3>3 DEF Ending
  <2>2. ASSUME NEW k \in Macs, setMacState = <<ToIdle(k)>>,
               setMacState' = <<ToIdle(k), ToTx(m)>>
        PROVE  /\ Head(setMacState') = Head(setMacState)
               /\ setMacState # <<>> /\ setMacState' # <<>>
    BY <2>2
  <2>3. CASE setMacState # <<>>
    <3>1. setMacState' # <<ToTx(m)>>
      <4>1. PICK k \in Macs : setMacState = <<ToIdle(k)>>
        BY <1>2, <2>3
      <4>2. setMacState' = Append(setMacState, ToTx(m))
        BY DEF Window, ToTx
      <4> QED BY <4>1, <4>2
    <3>2. PICK k \in Macs : /\ setMacState = <<ToIdle(k)>>
                            /\ setMacState' = <<ToIdle(k), ToTx(m)>>
      BY <1>3, <3>1
    <3> QED BY <2>2, <3>2 DEF Ending
  <2> QED BY <2>1, <2>3
<1>8. \A k \in Macs : Starting(k)' <=> k = m
  BY <1>2, <1>3 DEF Starting, ToTx, ToIdle
<1>9. \A k \in Macs : ~Starting(k)
  <2> SUFFICES ASSUME NEW k \in Macs PROVE ~Starting(k)
    OBVIOUS
  <2>1. CASE setMacState = <<>>
    BY <2>1 DEF Starting
  <2>2. CASE \E n \in Macs : setMacState = <<ToIdle(n)>>
    <3>1. PICK n \in Macs : setMacState = <<ToIdle(n)>>
      BY <2>2
    <3>2. ToIdle(n) # ToTx(k)
      BY DEF ToTx, ToIdle
    <3> QED BY <3>1, <3>2 DEF Starting
  <2> QED BY <1>2, <2>1, <2>2
<1>10. SenderAlone'
  BY <1>6 DEF SenderAlone, Sending, Window, phy
<1>11. EnderAlone'
  BY <1>7 DEF EnderAlone, Window, phy
<1>12. StateReason'
  BY <1>7, <1>6 DEF StateReason, Sending, Window, phy
<1>13. OneFrame'
  <2> SUFFICES ASSUME NEW k \in Macs
               PROVE  /\ txPkt'[k] <=> (Sending(k)' \/ Starting(k)')
                      /\ txQueue'[k] = <<>> <=> ~txPkt'[k]
                      /\ txPkt'[k] => \E a \in AirTimes : txQueue'[k] = <<a>>
                      /\ Starting(k)' => macState'[k] = "IDLE"
    BY DEF OneFrame
  <2>1. ~Sending(k)' /\ (Starting(k)' <=> k = m)
    BY <1>6, <1>8 DEF Sending, Window, phy
  <2>2. CASE k = m
    <3>1. txQueue'[k] = <<air>>
      BY <1>1, <2>2 DEF Window, TypeOK
    <3>2. txPkt'[k]
      BY <2>2 DEF Window, TypeOK
    <3>3. macState'[k] = "IDLE"
      BY <1>1, <2>2 DEF Window
    <3> QED BY <3>1, <3>2, <3>3, <2>1, <2>2
  <2>3. CASE k # m
    <3>1. txQueue'[k] = txQueue[k] /\ (txPkt'[k] <=> txPkt[k])
      BY <2>3 DEF Window, TypeOK
    <3>2. ~txPkt[k]
      BY <1>6, <1>9 DEF OneFrame
    <3> QED BY <3>1, <3>2, <2>1, <2>3 DEF OneFrame
  <2> QED BY <2>2, <2>3
<1>14. Receiving'
  BY DEF Receiving, Window, phy
<1>15. BandFree'
  BY <1>8 DEF BandFree, Window, CanSendImmediatelyOnChannel, IsSubBandAvailable
<1> QED BY <1>4, <1>5, <1>10, <1>11, <1>12, <1>13, <1>14, <1>15

LEMMA BeginTxStep ==
  ASSUME IInv, NEW m \in Macs, BeginTx(m)
  PROVE  IInv'
<1> USE DEF IInv
<1>1. setMacState = <<ToTx(m)>>
  BY NextTx DEF BeginTx, ToTx
<1>2. setMacState' = <<>>
  BY <1>1 DEF BeginTx
<1>3. PICK air \in AirTimes : txQueue[m] = <<air>>
  BY DEF OneFrame, BeginTx
<1>4. \A k \in Macs : ~Sending(k) /\ ~Ending(k) /\ (Starting(k) <=> k = m)
  BY <1>1 DEF SenderAlone, Sending, Ending, Starting, ToTx, ToIdle
<1>5. /\ endTx' = [endTx EXCEPT ![m] = air]
      /\ offTime' = [offTime EXCEPT ![SubBandOf[m]]
                       = air * DutyCycleLimit[SubBandOf[m]]]
  BY <1>3 DEF BeginTx, UpdateRDCTimerForSubBand
<1>6. TypeOK'
  <2>1. /\ macState' \in [Macs -> {"IDLE", "TX", "UNAVAILABLE"}]
        /\ trxState' \in [Macs -> {"TRX_OFF", "RX_ON", "BUSY_RX", "BUSY_TX"}]
    BY DEF BeginTx, MacBeginsTx
  <2>2. endTx' \in [Macs -> Nat \union {NotRunning}]
    BY <1>5, DurationsAssumption DEF TypeOK
  <2>3. air * DutyCycleLimit[SubBandOf[m]] \in Nat
    BY BandsAssumption, DurationsAssumption
  <2>4. offTime' \in [SubBands -> Nat]
    BY <1>5, <2>3 DEF TypeOK
  <2>5. \A k \in Macs : ForcedOff(rx[k]) \in
             [left : Nat \union {NotRunning}, aborted : BOOLEAN]
    BY DEF TypeOK, ForcedOff, NoRx
  <2>6. rx' \in [Macs -> [left : Nat \union {NotRunning}, aborted : BOOLEAN]]
    BY <2>5 DEF BeginTx, MacBeginsTx
  <2>7. setMacState' \in Seq(Events)
    BY <1>2
  <2> QED BY <2>1, <2>2, <2>4, <2>6, <2>7 DEF TypeOK, BeginTx
<1>7. EventsInOrder'
  BY <1>2 DEF EventsInOrder
<1>8. \A k \in Macs : /\ Sending(k)' <=> k = m
                      /\ ~Ending(k)' /\ ~Starting(k)'
  <2>1. air # NotRunning
    BY DurationsAssumption DEF NotRunning
  <2> QED BY <1>2, <1>4, <1>5, <2>1
          DEF Sending, Ending, Starting, ToTx, ToIdle, TypeOK
<1>9. \A k \in Macs :
        /\ macState'[k] = IF k = m THEN "TX" ELSE "UNAVAILABLE"
        /\ trxState'[k] = IF k = m THEN "BUSY_TX" ELSE "TRX_OFF"
  BY DEF BeginTx, MacBeginsTx
<1>10. SenderAlone'
  BY <1>2, <1>8, <1>9 DEF SenderAlone, Sending
<1>11. EnderAlone'
  BY <1>8 DEF EnderAlone
<1>12. StateReason'
  BY <1>8, <1>9 DEF StateReason
<1>13. OneFrame'
  <2>1. \A k \in Macs : txPkt[k] <=> k = m
    BY <1>4 DEF OneFrame
  <2> QED BY <2>1, <1>8 DEF OneFrame, BeginTx
<1>14. Receiving'
  <2> SUFFICES ASSUME NEW k \in Macs
               PROVE  /\ rx'[k] = NoRx \/ rx'[k].aborted
                      /\ rx'[k].left = NotRunning => rx'[k] = NoRx
    BY <1>9 DEF Receiving
  <2>1. rx'[k] = ForcedOff(rx[k])
    BY DEF BeginTx, MacBeginsTx
  <2>2. CASE rx[k] = NoRx
    BY <2>1, <2>2 DEF ForcedOff
  <2>3. CASE rx[k] # NoRx
    BY <2>1, <2>3 DEF ForcedOff, Receiving, TypeOK
  <2> QED BY <2>2, <2>3
<1>15. BandFree'
  BY <1>8 DEF BandFree
<1> QED BY <1>6, <1>7, <1>10, <1>11, <1>12, <1>13, <1>14, <1>15

LEMMA EndTxStep ==
  ASSUME IInv, NEW m \in Macs, EndTx(m)
  PROVE  IInv'
<1> USE DEF IInv
<1>1. Sending(m)
  BY DEF EndTx, Sending, NotRunning
<1>2. /\ setMacState = <<>>
      /\ setMacState' = <<ToIdle(m)>>
  <2>1. setMacState = <<>>
    BY <1>1 DEF SenderAlone
  <2>2. setMacState' = Append(setMacState, ToIdle(m))
    BY DEF EndTx, ToIdle
  <2> QED BY <2>1, <2>2
<1>3. \A k \in Macs : /\ Sending(k) <=> k = m
                      /\ ~Starting(k)
                      /\ ~Sending(k)'
                      /\ Ending(k)' <=> k = m
                      /\ ~Starting(k)'
  BY <1>1, <1>2 DEF SenderAlone, EndTx, Sending, Ending, Starting, ToIdle, ToTx,
                   TypeOK
<1>4. TypeOK'
  <2>1. PICK air \in AirTimes : txQueue[m] = <<air>>
    BY <1>1 DEF OneFrame
  <2>2. Tail(txQueue[m]) \in Seq(AirTimes)
    BY <2>1
  <2>3. txQueue' \in [Macs -> Seq(AirTimes)]
    BY <2>2 DEF EndTx, RemoveFirstTxQElement, TypeOK
  <2>4. txPkt' \in [Macs -> BOOLEAN]
    BY DEF EndTx, RemoveFirstTxQElement, TypeOK
  <2>5. ToIdle(m) \in Events
    BY DEF Events, ToIdle
  <2>6. setMacState' \in Seq(Events)
    BY <1>2, <2>5
  <2>7. /\ macState' \in [Macs -> {"IDLE", "TX", "UNAVAILABLE"}]
        /\ trxState' \in [Macs -> {"TRX_OFF", "RX_ON", "BUSY_RX", "BUSY_TX"}]
    BY DEF EndTx, MacEndsTx, TypeOK
  <2>8. endTx' \in [Macs -> Nat \union {NotRunning}]
    BY DEF EndTx, TypeOK
  <2> QED BY <2>3, <2>4, <2>6, <2>7, <2>8 DEF TypeOK, EndTx
<1>5. EventsInOrder'
  BY <1>2 DEF EventsInOrder
<1>6. SenderAlone'
  BY <1>3 DEF SenderAlone
<1>7. \A k \in Macs :
        /\ macState'[k] = IF k = m THEN "TX" ELSE "IDLE"
        /\ trxState'[k] = IF k = m THEN "BUSY_TX" ELSE "RX_ON"
  BY DEF EndTx, MacEndsTx
<1>8. EnderAlone'
  BY <1>3, <1>7 DEF EnderAlone
<1>9. StateReason'
  BY <1>3, <1>7 DEF StateReason
<1>10. OneFrame'
  <2> SUFFICES ASSUME NEW k \in Macs
               PROVE  ~txPkt'[k] /\ txQueue'[k] = <<>>
    BY <1>3 DEF OneFrame
  <2>1. CASE k = m
    <3>1. PICK air \in AirTimes : txQueue[m] = <<air>>
      BY <1>1 DEF OneFrame
    <3>2. Tail(txQueue[m]) = <<>>
      BY <3>1
    <3> QED BY <2>1, <3>2 DEF EndTx, RemoveFirstTxQElement, TypeOK
  <2>2. CASE k # m
    <3>1. ~txPkt[k] /\ txQueue[k] = <<>>
      BY <1>3, <2>2 DEF OneFrame
    <3> QED BY <2>2, <3>1 DEF EndTx, RemoveFirstTxQElement, TypeOK
  <2> QED BY <2>1, <2>2
<1>11. Receiving'
  <2>1. \A k \in Macs : trxState[k] # "BUSY_RX" /\ trxState'[k] # "BUSY_RX"
    BY <1>1, <1>7 DEF SenderAlone
  <2> QED BY <2>1 DEF Receiving, EndTx
<1>12. BandFree'
  BY <1>3 DEF BandFree
<1> QED BY <1>4, <1>5, <1>6, <1>8, <1>9, <1>10, <1>11, <1>12

LEMMA BecomeIdleStep ==
  ASSUME IInv, NEW m \in Macs, BecomeIdle(m)
  PROVE  IInv'
<1> USE DEF IInv
<1>1. /\ setMacState = <<ToIdle(m)>>
           \/ \E n \in Macs : m # n /\ setMacState = <<ToIdle(m), ToTx(n)>>
      /\ setMacState' = Tail(setMacState)
  BY NextIdle DEF BecomeIdle, ToIdle
<1>2. setMacState' = <<>> \/ \E n \in Macs : setMacState' = <<ToTx(n)>>
  <2>1. ASSUME NEW n \in Macs, setMacState = <<ToIdle(m), ToTx(n)>>
        PROVE  setMacState' = <<ToTx(n)>>
    BY <1>1, <2>1
  <2>2. CASE setMacState = <<ToIdle(m)>>
    BY <1>1, <2>2
  <2> QED BY <1>1, <2>1, <2>2
<1>3. /\ Ending(m)
      /\ \A k \in Macs : /\ ~Sending(k)
                         /\ ~Ending(k)'
                         /\ Ending(k) => k = m
                         /\ Starting(k) <=> Starting(k)'
  <2>1. Ending(m) /\ (\A k \in Macs : ~Ending(k)' /\ (Ending(k) => k = m))
    BY <1>1 DEF Ending, ToIdle, ToTx
  <2>2. \A k \in Macs : ~Sending(k)
    BY <1>1 DEF SenderAlone
  <2>3. ASSUME NEW k \in Macs PROVE Starting(k) <=> Starting(k)'
    <3>1. \A n \in Macs : ToIdle(n) # ToTx(k)
      BY DEF ToIdle, ToTx
    <3>2. CASE setMacState = <<ToIdle(m)>>
      <4>1. setMacState' = <<>>
        BY <1>1, <3>2
      <4> QED BY <3>1, <3>2, <4>1 DEF Starting
    <3>3. CASE \E n \in Macs : setMacState = <<ToIdle(m), ToTx(n)>>
      <4>1. PICK n \in Macs : setMacState = <<ToIdle(m), ToTx(n)>>
        BY <3>3
      <4>2. setMacState' = <<ToTx(n)>>
        BY <1>1, <4>1
      <4>3. Starting(k) <=> ToTx(n) = ToTx(k)
        BY <4>1 DEF Starting
      <4>4. Starting(k)' <=> ToTx(n) = ToTx(k)
        BY <4>2 DEF Starting
      <4> QED BY <4>3, <4>4
    <3> QED BY <1>1, <3>2, <3>3
  <2> QED BY <2>1, <2>2, <2>3
<1>4. TypeOK'
  <2>1. setMacState' \in Seq(Events)
    <3>1. \A n \in Macs : ToTx(n) \in Events
      BY DEF Events, ToTx
    <3>2. ASSUME NEW e \in Events PROVE <<e>> \in Seq(Events)
      OBVIOUS
    <3>3. <<>> \in Seq(Events)
      OBVIOUS
    <3> QED BY <1>2, <3>1, <3>2, <3>3
  <2>2. /\ macState' \in [Macs -> {"IDLE", "TX", "UNAVAILABLE"}]
        /\ trxState' \in [Macs -> {"TRX_OFF", "RX_ON", "BUSY_RX", "BUSY_TX"}]
    BY DEF BecomeIdle, TypeOK
  <2> QED BY <2>1, <2>2 DEF BecomeIdle, TypeOK
<1>5. EventsInOrder'
  BY <1>2 DEF EventsInOrder
<1>6. SenderAlone'
  BY <1>3 DEF SenderAlone, Sending, BecomeIdle
<1>7. EnderAlone'
  BY <1>3 DEF EnderAlone
<1>8. \A k \in Macs :
        /\ macState'[k] = "IDLE"
        /\ trxState'[k] = IF k = m THEN "RX_ON" ELSE trxState[k]
  BY <1>3 DEF EnderAlone, BecomeIdle, TypeOK
<1>9. StateReason'
  <2>1. \A k \in Macs \ {m} : macState[k] = "IDLE"
    BY <1>3 DEF EnderAlone
  <2> QED BY <1>8, <2>1 DEF StateReason
<1>10. OneFrame'
  BY <1>3, <1>8 DEF OneFrame, Sending, BecomeIdle
<1>11. Receiving'
  <2>1. trxState[m] = "BUSY_TX"
    BY <1>3 DEF EnderAlone
  <2> QED BY <1>8, <2>1 DEF Receiving, BecomeIdle
<1>12. BandFree'
  BY <1>3 DEF BandFree, BecomeIdle
<1> QED BY <1>4, <1>5, <1>6, <1>7, <1>9, <1>10, <1>11, <1>12

\* A step that changes neither a MAC nor what is sent.
LEMMA ReceptionStep ==
  ASSUME IInv, TypeOK', Receiving', UNCHANGED <<mac, endTx, offTime>>,
         \A k \in Macs : \/ trxState'[k] = trxState[k]
                        \/ /\ trxState[k] \in {"RX_ON", "BUSY_RX"}
                           /\ trxState'[k] \in {"RX_ON", "BUSY_RX"}
  PROVE  IInv'
<1> USE DEF IInv
<1>1. EventsInOrder'
  BY DEF EventsInOrder, mac
<1>2. \A k \in Macs : /\ Sending(k)' <=> Sending(k)
                      /\ Ending(k)' <=> Ending(k)
                      /\ Starting(k)' <=> Starting(k)
  BY DEF Sending, Ending, Starting, mac
<1>3. SenderAlone'
  BY <1>2 DEF SenderAlone, mac
<1>4. EnderAlone'
  BY <1>2 DEF EnderAlone, mac
<1>5. StateReason'
  BY <1>2 DEF StateReason, mac
<1>6. OneFrame'
  BY <1>2 DEF OneFrame, mac
<1>7. BandFree'
  BY <1>2 DEF BandFree
<1> QED BY <1>1, <1>3, <1>4, <1>5, <1>6, <1>7

LEMMA StartRxStep ==
  ASSUME IInv, NEW m \in Macs, NEW d \in FrameTimes, StartRx(m, d)
  PROVE  IInv'
<1> USE DEF IInv
<1>1. [left |-> d, aborted |-> FALSE] \in
        [left : Nat \union {NotRunning}, aborted : BOOLEAN]
  BY DurationsAssumption
<1>2. TypeOK'
  BY <1>1 DEF StartRx, TypeOK, mac
<1>3. Receiving'
  <2>1. [left |-> d, aborted |-> FALSE].left # NotRunning
    BY DurationsAssumption DEF NotRunning
  <2>2. [left |-> d, aborted |-> FALSE] # NoRx
    BY <2>1 DEF NoRx
  <2> QED BY <2>1, <2>2 DEF StartRx, Receiving, TypeOK
<1>4. \A k \in Macs : \/ trxState'[k] = trxState[k]
                      \/ /\ trxState[k] \in {"RX_ON", "BUSY_RX"}
                         /\ trxState'[k] \in {"RX_ON", "BUSY_RX"}
  BY DEF StartRx, TypeOK
<1> QED BY <1>2, <1>3, <1>4, ReceptionStep DEF StartRx

LEMMA EndRxStep ==
  ASSUME IInv, NEW m \in Macs, EndRx(m)
  PROVE  IInv'
<1> USE DEF IInv
<1>1. NoRx \in [left : Nat \union {NotRunning}, aborted : BOOLEAN]
  BY DEF NoRx
<1>2. TypeOK'
  BY <1>1 DEF EndRx, TypeOK, mac
<1>3. Receiving'
  BY DEF EndRx, Receiving, TypeOK
<1>4. \A k \in Macs : \/ trxState'[k] = trxState[k]
                      \/ /\ trxState[k] \in {"RX_ON", "BUSY_RX"}
                         /\ trxState'[k] \in {"RX_ON", "BUSY_RX"}
  BY DEF EndRx, TypeOK
<1> QED BY <1>2, <1>3, <1>4, ReceptionStep DEF EndRx

LEMMA TickStep ==
  ASSUME IInv, Tick
  PROVE  IInv'
<1> USE DEF IInv
<1>1. ASSUME NEW t \in Nat \union {NotRunning}
      PROVE  /\ Left(t) \in Nat \union {NotRunning}
             /\ t # 0 => (Left(t) = NotRunning <=> t = NotRunning)
  BY DEF Left, NotRunning
<1>2. ASSUME NEW t \in Nat PROVE Left(t) \in Nat
  BY DEF Left
<1>3. \A k \in Macs : /\ rx[k] \in [left : Nat \union {NotRunning}, aborted : BOOLEAN]
                      /\ rx[k].left \in Nat \union {NotRunning}
                      /\ rx'[k] = [rx[k] EXCEPT !.left = Left(@)]
                      /\ rx[k].left # 0
  BY DEF Tick, TypeOK
<1>4. TypeOK'
  <2>1. endTx' \in [Macs -> Nat \union {NotRunning}]
    BY <1>1 DEF Tick, TypeOK
  <2>2. offTime' \in [SubBands -> Nat]
    BY <1>2 DEF Tick, TypeOK
  <2>3. rx' \in [Macs -> [left : Nat \union {NotRunning}, aborted : BOOLEAN]]
    BY <1>1 DEF Tick, TypeOK
  <2> QED BY <2>1, <2>2, <2>3 DEF Tick, TypeOK, mac
<1>5. Receiving'
  <2> SUFFICES ASSUME NEW k \in Macs
               PROVE  /\ trxState[k] = "BUSY_RX"
                            <=> (rx'[k] # NoRx /\ ~rx'[k].aborted)
                      /\ rx'[k].left = NotRunning => rx'[k] = NoRx
    BY DEF Receiving, Tick
  <2>1. /\ rx'[k].left = Left(rx[k].left)
        /\ rx'[k].aborted <=> rx[k].aborted
        /\ rx'[k].left = NotRunning <=> rx[k].left = NotRunning
    BY <1>1, <1>3
  <2>2. CASE rx[k].left = NotRunning
    <3>1. rx[k] = NoRx
      BY <2>2 DEF Receiving
    <3>2. rx'[k] = NoRx
      BY <1>3, <3>1 DEF NoRx, Left, NotRunning
    <3> QED BY <3>1, <3>2 DEF Receiving
  <2>3. CASE rx[k].left # NotRunning
    <3>1. rx[k] # NoRx /\ rx'[k] # NoRx
      BY <2>1, <2>3 DEF NoRx
    <3> QED BY <2>1, <2>3, <3>1 DEF Receiving
  <2> QED BY <2>2, <2>3
<1>6. EventsInOrder'
  BY DEF EventsInOrder, Tick, mac
<1>7. \A k \in Macs : /\ Sending(k)' <=> Sending(k)
                      /\ Ending(k)' <=> Ending(k)
                      /\ Starting(k)' <=> Starting(k)
  <2>1. \A k \in Macs : Sending(k)' <=> Sending(k)
    BY <1>1 DEF Tick, Sending, TypeOK
  <2> QED BY <2>1 DEF Ending, Starting, Tick, mac
<1>8. SenderAlone'
  BY <1>7 DEF SenderAlone, Sending, Tick, mac
<1>9. EnderAlone'
  BY <1>7 DEF EnderAlone, Tick, mac
<1>10. StateReason'
  BY <1>7 DEF StateReason, Tick, mac
<1>11. OneFrame'
  BY <1>7 DEF OneFrame, Tick, mac
<1>12. BandFree'
  <2>1. \A k \in Macs : ~Starting(k)
    BY DEF Starting, Tick
  <2> QED BY <1>7, <2>1 DEF BandFree
<1> QED BY <1>4, <1>5, <1>6, <1>8, <1>9, <1>10, <1>11, <1>12

LEMMA NextIInv ==
  ASSUME IInv, ~SimultaneousWindows, [Next]_vars
  PROVE  IInv'
<1>1. CASE UNCHANGED vars
  <2>1. UNCHANGED <<mac, endTx, offTime>> /\ UNCHANGED <<trxState, rx>>
    BY <1>1 DEF vars, phy
  <2>2. TypeOK'
    BY <2>1 DEF IInv, TypeOK, mac
  <2>3. Receiving'
    BY <2>1 DEF IInv, Receiving
  <2> QED BY <2>1, <2>2, <2>3, ReceptionStep
<1>2. CASE Tick
  BY <1>2, TickStep
<1>3. ASSUME NEW m \in Macs, NEW air \in AirTimes, Window(m, air) PROVE IInv'
  BY <1>3, WindowStep
<1>4. ASSUME NEW m \in Macs, NEW d \in FrameTimes, StartRx(m, d) PROVE IInv'
  BY <1>4, StartRxStep
<1>5. ASSUME NEW m \in Macs, BeginTx(m) \/ EndTx(m) \/ BecomeIdle(m) \/ EndRx(m)
      PROVE  IInv'
  BY <1>5, BeginTxStep, EndTxStep, BecomeIdleStep, EndRxStep
<1> QED BY <1>1, <1>2, <1>3, <1>4, <1>5 DEF Next

-----------------------------------------------------------------------------
(***************************************************************************)
(* The theorems                                                            *)
(***************************************************************************)
\* The invariant holds in every state.
THEOREM Invariance == ASSUME ~SimultaneousWindows PROVE Spec => []IInv
BY InitIInv, NextIInv, PTL DEF Spec

\* Every variable of the gateway keeps its type.
THEOREM TypeCorrect == ASSUME ~SimultaneousWindows PROVE Spec => []TypeOK
<1>1. IInv => TypeOK
  BY DEF IInv
<1> QED BY Invariance, <1>1, PTL

\* Only whole frames are delivered: what a transceiver does not receive at
\* the moment is marked as aborted.
THEOREM WholeFrames == ASSUME ~SimultaneousWindows PROVE Spec => []DeliversWhole
<1>1. IInv => DeliversWhole
  BY DEF IInv, Receiving, DeliversWhole, TypeOK
<1> QED BY Invariance, <1>1, PTL

\* A transceiver that receives belongs to an idle MAC.
LEMMA ReceiverIdle ==
  ASSUME IInv, NEW m \in Macs, trxState[m] = "BUSY_RX"
  PROVE  macState[m] = "IDLE" /\ \A n \in Macs : ~Sending(n)
<1> USE DEF IInv
<1>1. \A n \in Macs : ~Sending(n)
  BY DEF SenderAlone
<1>2. ~Ending(m)
  BY DEF EnderAlone
<1> QED BY <1>1, <1>2 DEF StateReason, TypeOK

LEMMA AssertionsFollow == ASSUME IInv PROVE AssertionsHold
<1> USE DEF IInv
<1>1. ASSUME setMacState # <<>>, Head(setMacState).to = "TX"
      PROVE  LET m == Head(setMacState).mac
             IN /\ macState[m] = "IDLE" /\ txPkt[m]
                /\ \A n \in Macs : macState[n] \in {"IDLE", "TX"}
  <2>1. PICK m \in Macs : setMacState = <<ToTx(m)>>
    BY <1>1 DEF EventsInOrder, ToIdle
  <2>2. Head(setMacState).mac = m
    BY <2>1 DEF ToTx
  <2>3. Starting(m)
    BY <2>1 DEF Starting
  <2>4. macState[m] = "IDLE" /\ txPkt[m]
    BY <2>3 DEF OneFrame
  <2>5. \A n \in Macs : macState[n] # "UNAVAILABLE"
    BY <1>1 DEF StateReason, SenderAlone
  <2> QED BY <2>2, <2>4, <2>5 DEF TypeOK
<1>2. ASSUME setMacState # <<>>, Head(setMacState).to # "TX"
      PROVE  LET m == Head(setMacState).mac
             IN /\ macState[m] \in {"TX", "UNAVAILABLE"}
                /\ ~txPkt[m] /\ txQueue[m] = <<>>
  <2>1. PICK m \in Macs :
          \/ setMacState = <<ToIdle(m)>>
          \/ \E n \in Macs : m # n /\ setMacState = <<ToIdle(m), ToTx(n)>>
    BY <1>2 DEF EventsInOrder, ToTx
  <2>2. Head(setMacState) = ToIdle(m)
    BY <2>1
  <2>3. Head(setMacState).mac = m
    BY <2>2 DEF ToIdle
  <2>4. macState[m] = "TX"
    BY <1>2, <2>2 DEF EnderAlone, Ending
  <2>5. ~Sending(m) /\ ~Starting(m)
    BY <1>2, <2>4 DEF SenderAlone, OneFrame
  <2> QED BY <2>3, <2>4, <2>5 DEF OneFrame
<1>3. ASSUME NEW m \in Macs, CanSendImmediatelyOnChannel(m)
      PROVE  MaySend(m) /\ txQueue[m] = <<>>
  <2>1. ~Sending(m)
    BY <1>3 DEF SenderAlone, CanSendImmediatelyOnChannel
  <2>2. ~Starting(m)
    <3>1. ASSUME setMacState = <<ToTx(m)>> PROVE FALSE
      BY <1>3, <3>1 DEF CanSendImmediatelyOnChannel, Pending, ToTx
    <3>2. ASSUME NEW n \in Macs, setMacState = <<ToIdle(n), ToTx(m)>> PROVE FALSE
      <4>1. 2 \in 1 .. Len(setMacState) /\ setMacState[2] = ToTx(m)
        BY <3>2
      <4> QED BY <1>3, <4>1 DEF CanSendImmediatelyOnChannel, Pending, ToTx
    <3> QED BY <3>1, <3>2 DEF Starting
  <2> QED BY <1>3, <2>1, <2>2 DEF OneFrame, MaySend, CanSendImmediatelyOnChannel
<1>4. ASSUME NEW m \in Macs, endTx[m] = 0
      PROVE  /\ trxState[m] = "BUSY_TX" /\ macState[m] = "TX" /\ txPkt[m]
             /\ \A n \in Macs \ {m} : macState[n] = "UNAVAILABLE" /\ ~txPkt[n]
                                        /\ txQueue[n] = <<>>
  <2>1. Sending(m)
    BY <1>4 DEF Sending, NotRunning
  <2>2. setMacState = <<>>
    BY <2>1 DEF SenderAlone
  <2>3. \A n \in Macs \ {m} : ~Sending(n) /\ ~Starting(n)
    BY <2>1, <2>2 DEF SenderAlone, Sending, Starting
  <2> QED BY <2>1, <2>3 DEF SenderAlone, OneFrame
<1>5. ASSUME NEW m \in Macs, rx[m].left = 0, ~rx[m].aborted
      PROVE  macState[m] = "IDLE"
  <2>1. rx[m] # NoRx
    BY <1>5 DEF NoRx, NotRunning
  <2> QED BY <1>5, <2>1, ReceiverIdle DEF Receiving
<1> QED BY <1>1, <1>2, <1>3, <1>4, <1>5 DEF AssertionsHold

\* No assertion of the gateway fails and it never aborts the program, as long
\* as no two windows open in the same instant.
THEOREM NoAssertionFails ==
  ASSUME ~SimultaneousWindows PROVE Spec => []AssertionsHold
<1>1. IInv => AssertionsHold
  BY AssertionsFollow
<1> QED BY Invariance, <1>1, PTL

\* A transmission never begins in a sub band that is off, and switches it off
\* for what the duty cycle limit asks for, whichever MACs share the sub band.
THEOREM DutyCycleRespected ==
  ASSUME ~SimultaneousWindows PROVE Spec => DutyCycleKept
<1>1. ASSUME IInv, [Next]_vars, NEW m \in Macs,
             trxState[m] # "BUSY_TX", trxState'[m] = "BUSY_TX"
      PROVE  BeginTx(m)
  <2>1. CASE UNCHANGED vars
    BY <1>1, <2>1 DEF vars, phy
  <2>2. CASE Tick
    BY <1>1, <2>2 DEF Tick
  <2>3. ASSUME NEW n \in Macs, NEW air \in AirTimes, Window(n, air) PROVE FALSE
    BY <1>1, <2>3 DEF Window, phy
  <2>4. ASSUME NEW n \in Macs, NEW d \in FrameTimes, StartRx(n, d) PROVE FALSE
    BY <1>1, <2>4 DEF StartRx, IInv, TypeOK
  <2>5. ASSUME NEW n \in Macs, EndTx(n) \/ BecomeIdle(n) \/ EndRx(n) PROVE FALSE
    BY <1>1, <2>5 DEF EndTx, MacEndsTx, BecomeIdle, EndRx, IInv, TypeOK
  <2>6. ASSUME NEW n \in Macs, BeginTx(n) PROVE n = m
    BY <1>1, <2>6 DEF BeginTx, MacBeginsTx
  <2> QED BY <1>1, <2>1, <2>2, <2>3, <2>4, <2>5, <2>6 DEF Next
<1>2. ASSUME IInv, NEW m \in Macs, BeginTx(m)
      PROVE  /\ offTime[SubBandOf[m]] = 0
             /\ offTime'[SubBandOf[m]] = DutyCycleLimit[SubBandOf[m]] * endTx'[m]
  <2>1. setMacState = <<ToTx(m)>>
    BY <1>2, NextTx DEF BeginTx, ToTx, IInv
  <2>2. offTime[SubBandOf[m]] = 0
    BY <1>2, <2>1 DEF IInv, BandFree, Starting
  <2>3. PICK air \in AirTimes : txQueue[m] = <<air>>
    BY <1>2 DEF IInv, OneFrame, BeginTx
  <2>4. endTx'[m] = air /\ SubBandOf[m] \in SubBands
    <3>1. SubBandOf[m] \in SubBands
      BY BandsAssumption
    <3>2. Head(txQueue[m]) = air
      BY <2>3
    <3>3. endTx' = [endTx EXCEPT ![m] = air]
      BY <1>2, <3>2 DEF BeginTx
    <3>4. endTx \in [Macs -> Nat \union {NotRunning}]
      BY <1>2 DEF IInv, TypeOK
    <3> QED BY <3>1, <3>3, <3>4
  <2>5. offTime'[SubBandOf[m]] = air * DutyCycleLimit[SubBandOf[m]]
    BY <1>2, <2>3, <2>4 DEF BeginTx, UpdateRDCTimerForSubBand, IInv, TypeOK
  <2>6. /\ air \in Nat /\ DutyCycleLimit[SubBandOf[m]] \in Nat
    BY <2>4, BandsAssumption, DurationsAssumption
  <2> QED BY <2>2, <2>4, <2>5, <2>6
<1>3. IInv /\ [Next]_vars =>
        [\A m \in Macs : trxState[m] # "BUSY_TX" /\ trxState'[m] = "BUSY_TX" =>
           /\ offTime[SubBandOf[m]] = 0
           /\ offTime'[SubBandOf[m]]
                = DutyCycleLimit[SubBandOf[m]] * endTx'[m]]_vars
  BY <1>1, <1>2
<1> QED BY <1>3, Invariance, PTL DEF Spec, DutyCycleKept

(***************************************************************************)
(* The refinement.                                                         *)
(***************************************************************************)
LEMMA NobodySends ==
  ASSUME \A m \in Macs : endTx[m] = NotRunning PROVE Sender = NoMac
BY DEF Sender

LEMMA SomebodySends ==
  ASSUME NEW m \in Macs, endTx[m] # NotRunning,
         \A n \in Macs \ {m} : endTx[n] = NotRunning
  PROVE  Sender = m
<1>1. \E n \in Macs : endTx[n] # NotRunning
  OBVIOUS
<1>2. (CHOOSE n \in Macs : endTx[n] # NotRunning) = m
  OBVIOUS
<1> QED BY <1>1, <1>2 DEF Sender

\* Both facts about the next state.
LEMMA NobodySendsNext ==
  ASSUME \A m \in Macs : endTx'[m] = NotRunning PROVE Sender' = NoMac
BY DEF Sender

LEMMA SomebodySendsNext ==
  ASSUME NEW m \in Macs, endTx'[m] # NotRunning,
         \A n \in Macs \ {m} : endTx'[n] = NotRunning
  PROVE  Sender' = m
<1>1. \E n \in Macs : endTx'[n] # NotRunning
  OBVIOUS
<1>2. (CHOOSE n \in Macs : endTx'[n] # NotRunning) = m
  OBVIOUS
<1> QED BY <1>1, <1>2 DEF Sender

\* A step after which the same EndTx runs keeps the sender.
LEMMA SameSender ==
  ASSUME IInv, \A m \in Macs : endTx'[m] = NotRunning <=> endTx[m] = NotRunning
  PROVE  Sender' = Sender
<1>1. CASE \A m \in Macs : endTx[m] = NotRunning
  BY <1>1, NobodySends, NobodySendsNext
<1>2. CASE \E m \in Macs : endTx[m] # NotRunning
  <2>1. PICK m \in Macs : endTx[m] # NotRunning
    BY <1>2
  <2>2. \A n \in Macs \ {m} : endTx[n] = NotRunning
    BY <2>1 DEF IInv, SenderAlone, Sending
  <2> QED BY <2>1, <2>2, SomebodySends, SomebodySendsNext
<1> QED BY <1>1, <1>2

\* What the gateway hears is what its transceivers receive.
LEMMA HearingReceives ==
  ASSUME IInv PROVE Hearing = {m \in Macs : trxState[m] = "BUSY_RX"}
BY DEF IInv, Receiving, Hearing

LEMMA HearingNext ==
  ASSUME IInv' PROVE Hearing' = {m \in Macs : trxState'[m] = "BUSY_RX"}
BY DEF IInv, Receiving, Hearing

LEMMA StepRefines ==
  ASSUME IInv, IInv', [Next]_vars
  PROVE  [Radio!HDNext]_<<Sender, Hearing>>
<1> USE DEF Radio!HDNext
<1>1. CASE UNCHANGED vars
  BY <1>1 DEF vars, phy, Sender, Hearing
<1>2. CASE Tick
  <2>1. Sender' = Sender
    <3>1. \A m \in Macs : endTx'[m] = Left(endTx[m]) /\ endTx[m] # 0
                          /\ endTx[m] \in Nat \union {NotRunning}
      BY <1>2 DEF Tick, IInv, TypeOK
    <3>2. \A m \in Macs : endTx'[m] = NotRunning <=> endTx[m] = NotRunning
      BY <3>1 DEF Left, NotRunning
    <3> QED BY <3>2, SameSender
  <2>2. Hearing' = Hearing
    BY <1>2, HearingReceives, HearingNext DEF Tick
  <2> QED BY <2>1, <2>2
<1>3. ASSUME NEW m \in Macs, NEW air \in AirTimes, Window(m, air)
      PROVE  UNCHANGED <<Sender, Hearing>>
  BY <1>3 DEF Window, phy, Sender, Hearing
<1>4. ASSUME NEW m \in Macs, NEW d \in FrameTimes, StartRx(m, d)
      PROVE  Radio!HDNext
  <2>1. trxState[m] = "RX_ON" /\ trxState' = [trxState EXCEPT ![m] = "BUSY_RX"]
    BY <1>4 DEF StartRx
  <2>2. \A n \in Macs : endTx[n] = NotRunning
    BY <2>1 DEF IInv, SenderAlone, Sending
  <2>3. Sender = NoMac /\ Sender' = NoMac
    BY <1>4, <2>2, NobodySends, NobodySendsNext DEF StartRx
  <2>4. m \notin Hearing /\ Hearing' = Hearing \union {m}
    BY <2>1, HearingReceives, HearingNext DEF IInv, TypeOK
  <2> QED BY <2>3, <2>4 DEF Radio!BeginHearing
<1>5. ASSUME NEW m \in Macs, BeginTx(m) PROVE Radio!HDNext
  <2>1. setMacState = <<ToTx(m)>>
    BY <1>5, NextTx DEF BeginTx, ToTx, IInv
  <2>2. \A n \in Macs : endTx[n] = NotRunning
    BY <2>1 DEF IInv, SenderAlone, Sending
  <2>3. PICK air \in AirTimes : txQueue[m] = <<air>>
    BY <1>5 DEF IInv, OneFrame, BeginTx
  <2>4. air # NotRunning
    BY DurationsAssumption DEF NotRunning
  <2>5. endTx' = [endTx EXCEPT ![m] = air]
    BY <1>5, <2>3 DEF BeginTx
  <2>6. Sender = NoMac /\ Sender' = m
    BY <2>2, <2>4, <2>5, NobodySends, SomebodySendsNext DEF IInv, TypeOK
  <2>7. Hearing' = {}
    BY <1>5, HearingNext DEF BeginTx, MacBeginsTx
  <2> QED BY <2>6, <2>7 DEF Radio!BeginSending
<1>6. ASSUME NEW m \in Macs, EndTx(m) PROVE Radio!HDNext
  <2>1. endTx[m] # NotRunning /\ \A n \in Macs \ {m} : endTx[n] = NotRunning
    BY <1>6 DEF EndTx, NotRunning, IInv, SenderAlone, Sending
  <2>2. \A n \in Macs : endTx'[n] = NotRunning
    BY <1>6, <2>1 DEF EndTx, IInv, TypeOK
  <2>3. Sender = m /\ Sender' = NoMac
    BY <2>1, <2>2, SomebodySends, NobodySendsNext
  <2>4. Hearing' = Hearing
    BY <1>6 DEF EndTx, Hearing
  <2> QED BY <2>3, <2>4, MacsAssumption DEF Radio!EndSending
<1>7. ASSUME NEW m \in Macs, BecomeIdle(m) PROVE UNCHANGED <<Sender, Hearing>>
  BY <1>7 DEF BecomeIdle, Sender, Hearing
<1>8. ASSUME NEW m \in Macs, EndRx(m) PROVE [Radio!HDNext]_<<Sender, Hearing>>
  <2>1. Sender' = Sender
    BY <1>8 DEF EndRx, Sender
  <2>2. Hearing' = Hearing \ {m}
    BY <1>8, HearingReceives, HearingNext DEF EndRx, IInv, TypeOK
  <2>3. CASE m \in Hearing
    BY <2>1, <2>2, <2>3 DEF Radio!EndHearing
  <2>4. CASE m \notin Hearing
    BY <2>1, <2>2, <2>4
  <2> QED BY <2>3, <2>4
<1> QED BY <1>1, <1>2, <1>3, <1>4, <1>5, <1>6, <1>7, <1>8 DEF Next

\* The gateway is a half duplex radio.
THEOREM GatewayIsHalfDuplex ==
  ASSUME ~SimultaneousWindows PROVE Spec => ImplementsHalfDuplex
<1>1. Init => Radio!HDInit
  <2> SUFFICES ASSUME Init PROVE Sender = NoMac /\ Hearing = {}
    BY DEF Radio!HDInit
  <2>1. Sender = NoMac
    BY NobodySends DEF Init
  <2> QED BY <2>1 DEF Hearing, Init
<1>2. IInv /\ IInv' /\ [Next]_vars => [Radio!HDNext]_(Radio!hdVars)
  BY StepRefines DEF Radio!hdVars
<1> QED BY <1>1, <1>2, Invariance, PTL
        DEF Spec, ImplementsHalfDuplex, Radio!HDSpec
=============================================================================
