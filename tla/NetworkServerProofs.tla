------------------------- MODULE NetworkServerProofs -------------------------
(***************************************************************************)
(* Proof that IInv is an invariant of NetworkServer, and what follows:     *)
(* first the types of the variables and the part about the last uplink,    *)
(* its copies, the timers and the answer, then the counters.               *)
(***************************************************************************)
EXTENDS NetworkServerInvariant, FiniteSetTheorems, TLAPS

\* The constants as numbers.
LEMMA Delays ==
  /\ DuplicateTime \in Nat /\ Jitter \in Nat
  /\ ReceiveDelay1 \in Nat /\ ReceiveDelay2 \in Nat
  /\ Jitter <= DuplicateTime /\ DuplicateTime <= ReceiveDelay1
  /\ ReceiveDelay1 + Jitter < ReceiveDelay2
  /\ Horizon \in Nat /\ Horizon > ReceiveDelay2 + Jitter
  /\ NotRunning = -1
BY DelayAssumption DEF Horizon, NotRunning

LEMMA Bounds ==
  /\ DsTransmissions \in Nat /\ DsTransmissions >= 1
  /\ AdrFrequency \in Nat /\ CounterModulus \in Nat /\ CounterModulus >= 2
  /\ MaxPackets \in Nat /\ MaxAttempts \in Nat /\ MaxAttempts >= 1
  /\ ConfirmedDown \subseteq BOOLEAN
BY ServerAssumption

\* The header holds the packet number, cut off at the modulus.
LEMMA CounterRange ==
  \A n \in Nat : /\ n % CounterModulus \in 0 .. CounterModulus - 1
                 /\ n < CounterModulus => n % CounterModulus = n
BY Bounds

\* What is left of the queue when its head goes.
LEMMA TailFacts ==
  ASSUME NEW S, NEW q \in Seq(S), q # <<>>
  PROVE  /\ Tail(q) \in Seq(S) /\ Head(q) = q[1] /\ q[1] \in S
         /\ Len(q) \in Nat /\ Len(q) > 0 /\ 1 \in DOMAIN q
         /\ DOMAIN q = 1 .. Len(q)
         /\ DOMAIN Tail(q) = 1 .. Len(q) - 1
         /\ \A i \in DOMAIN Tail(q) : i + 1 \in DOMAIN q /\ Tail(q)[i] = q[i + 1]
OBVIOUS

\* What becomes of the queue when a packet is added.
LEMMA AppendFacts ==
  ASSUME NEW S, NEW q \in Seq(S), NEW e \in S
  PROVE  /\ Append(q, e) \in Seq(S)
         /\ Len(q) \in Nat /\ DOMAIN q = 1 .. Len(q)
         /\ DOMAIN Append(q, e) = 1 .. Len(q) + 1
         /\ \A i \in DOMAIN q : Append(q, e)[i] = q[i]
         /\ Append(q, e)[Len(q) + 1] = e
OBVIOUS

\* What becomes of the queue when its head is sent and stays.
LEMMA HeadFacts ==
  ASSUME NEW S, NEW q \in Seq(S), q # <<>>, NEW e \in S
  PROVE  /\ [q EXCEPT ![1] = e] \in Seq(S)
         /\ DOMAIN [q EXCEPT ![1] = e] = DOMAIN q
         /\ [q EXCEPT ![1] = e][1] = e
         /\ \A i \in DOMAIN q : i # 1 => [q EXCEPT ![1] = e][i] = q[i]
OBVIOUS

LEMMA InitIInv == Init => IInv
<1> SUFFICES ASSUME Init PROVE IInv
  OBVIOUS
<1> USE Delays, Bounds
<1>1. TypeOK
  <2>1. uplink \in Uplinks /\ copies \subseteq uplink.heard
    BY Bounds DEF Init, Uplinks, Frame
  <2>2. counts \in [unique : Nat, retx : Nat, dup : Nat]
    BY DEF Init
  <2>3. truth \in [last : 0 .. MaxPackets, packets : Nat, transmissions : Nat]
    BY DEF Init
  <2>4. dsQueue \in Seq(Elements) /\ downlink \in Downlinks \union {NoFrame}
    BY DEF Init
  <2>5. /\ fate \in [Messages -> {"none", "queued", "sent", "acked", "dropped"}]
        /\ sends \in [Messages -> Nat]
    BY DEF Init
  <2>6. /\ lastGWs \subseteq Gateways
        /\ setAck \in BOOLEAN /\ setAdr \in BOOLEAN /\ got \in BOOLEAN
    BY DEF Init
  <2>7. /\ sinceSeen \in 0 .. Horizon /\ sinceTx \in 0 .. Horizon
        /\ rw1Timer \in Timers /\ rw2Timer \in Timers
        /\ fCntUp \in Nat /\ answered \in 0 .. 2
        /\ received \in Nat /\ acksOwed \in Nat
    BY DEF Init, Timers
  <2> QED BY <2>1, <2>2, <2>3, <2>4, <2>5, <2>6, <2>7 DEF TypeOK
<1>2. CopiesInv
  BY DEF Init, Frame, CopiesInv
<1>3. ExchangeInv
  BY DEF Init, Frame, ExchangeInv, Unheard, Quiet
<1>4. CounterInv
  BY DEF Init, Frame, CounterInv, ClassifiedRight
<1>5. QueueInv
  BY DEF Init, QueueInv, QueueAccounts
<1>6. AckInv
  <2>1. Acked = {}
    BY DEF Init, Acked
  <2>2. IsFiniteSet(Acked) /\ Cardinality(Acked) = 0
    BY <2>1, FS_EmptySet
  <2> QED BY <2>2 DEF Init, Frame, AckInv
<1> QED BY <1>1, <1>2, <1>3, <1>4, <1>5, <1>6 DEF IInv

-----------------------------------------------------------------------------
(* Types.                                                                  *)

Fates == {"none", "queued", "sent", "acked", "dropped"}

\* The fields of the uplink.
LEMMA UplinkType ==
  ASSUME TypeOK
  PROVE  /\ uplink.pkt \in 0 .. MaxPackets /\ uplink.pkt \in Nat
         /\ uplink.attempt \in Nat
         /\ uplink.asks \in BOOLEAN /\ uplink.ack \in BOOLEAN
         /\ uplink.heard \subseteq Gateways
         /\ FrameCounter \in Nat /\ FrameCounter < CounterModulus
         /\ uplink.pkt < CounterModulus => FrameCounter = uplink.pkt
<1>1. /\ uplink.pkt \in 0 .. MaxPackets /\ uplink.attempt \in 0 .. MaxAttempts
      /\ uplink.asks \in BOOLEAN /\ uplink.ack \in BOOLEAN
      /\ uplink.heard \subseteq Gateways
  BY DEF TypeOK, Uplinks
<1>2. uplink.pkt \in Nat /\ uplink.attempt \in Nat
  BY <1>1, Bounds
<1>3. /\ FrameCounter \in 0 .. CounterModulus - 1
      /\ uplink.pkt < CounterModulus => FrameCounter = uplink.pkt
  BY <1>2, CounterRange DEF FrameCounter
<1> QED BY <1>1, <1>2, <1>3, Bounds

\* The head of the queue.
LEMMA HeadType ==
  ASSUME TypeOK, dsQueue # <<>>
  PROVE  /\ Head(dsQueue) = dsQueue[1] /\ Head(dsQueue) \in Elements
         /\ Head(dsQueue).id \in Messages /\ Head(dsQueue).conf \in BOOLEAN
         /\ Head(dsQueue).left \in 1 .. DsTransmissions
         /\ Head(dsQueue).left \in Nat
         /\ Tail(dsQueue) \in Seq(Elements)
<1>1. dsQueue \in Seq(Elements)
  BY DEF TypeOK
<1>2. /\ Head(dsQueue) = dsQueue[1] /\ dsQueue[1] \in Elements
      /\ Tail(dsQueue) \in Seq(Elements)
  BY <1>1, TailFacts
<1>3. /\ Head(dsQueue).id \in Messages /\ Head(dsQueue).conf \in BOOLEAN
      /\ Head(dsQueue).left \in 1 .. DsTransmissions
  BY <1>2 DEF Elements
<1> QED BY <1>2, <1>3, Bounds

LEMMA ProcessAckType ==
  ASSUME TypeOK, ProcessAck
  PROVE  dsQueue' \in Seq(Elements) /\ fate' \in [Messages -> Fates]
<1>1. dsQueue \in Seq(Elements) /\ fate \in [Messages -> Fates]
  BY DEF TypeOK, Fates
<1>2. CASE uplink.ack /\ dsQueue # <<>> /\ Head(dsQueue).conf
  <2>1. /\ dsQueue' = Tail(dsQueue)
        /\ fate' = [fate EXCEPT ![Head(dsQueue).id] = "acked"]
    BY <1>2 DEF ProcessAck
  <2> QED BY <1>1, <1>2, <2>1, HeadType DEF Fates
<1>3. CASE ~(uplink.ack /\ dsQueue # <<>> /\ Head(dsQueue).conf)
  BY <1>1, <1>3 DEF ProcessAck, queue
<1> QED BY <1>2, <1>3

\* A packet with one transmission less.
LEMMA SpentType ==
  ASSUME NEW head \in Elements, head.left > 1
  PROVE  /\ Spent(head) \in Elements
         /\ Spent(head).id = head.id /\ Spent(head).conf = head.conf
         /\ Spent(head).left = head.left - 1
<1>1. /\ head = [id |-> head.id, conf |-> head.conf, left |-> head.left]
      /\ head.id \in Messages /\ head.conf \in BOOLEAN
      /\ head.left \in 1 .. DsTransmissions
  BY DEF Elements
<1>2. Spent(head) = [id |-> head.id, conf |-> head.conf, left |-> head.left - 1]
  BY <1>1 DEF Spent
<1>3. head.left - 1 \in 1 .. DsTransmissions
  BY <1>1, Bounds
<1> QED BY <1>1, <1>2, <1>3 DEF Elements

\* The two ways in which the head of the queue is spent.
LEMMA SpendCases ==
  ASSUME TypeOK, dsQueue # <<>>, SpendTransmission(Head(dsQueue))
  PROVE  \/ /\ Head(dsQueue).conf /\ Head(dsQueue).left > 1
            /\ dsQueue' = [dsQueue EXCEPT ![1] = Spent(Head(dsQueue))]
            /\ fate' = fate
         \/ /\ ~(Head(dsQueue).conf /\ Head(dsQueue).left > 1)
            /\ dsQueue' = Tail(dsQueue)
            /\ fate' = [fate EXCEPT ![Head(dsQueue).id]
                          = IF Head(dsQueue).conf THEN "dropped" ELSE "sent"]
BY DEF SpendTransmission

LEMMA SpendType ==
  ASSUME TypeOK, dsQueue # <<>>, SpendTransmission(Head(dsQueue))
  PROVE  dsQueue' \in Seq(Elements) /\ fate' \in [Messages -> Fates]
<1>1. dsQueue \in Seq(Elements) /\ fate \in [Messages -> Fates]
  BY DEF TypeOK, Fates
<1>2. CASE /\ Head(dsQueue).conf /\ Head(dsQueue).left > 1
           /\ dsQueue' = [dsQueue EXCEPT ![1] = Spent(Head(dsQueue))]
           /\ fate' = fate
  <2>1. Spent(Head(dsQueue)) \in Elements
    BY <1>2, HeadType, SpentType
  <2> QED BY <1>1, <1>2, <2>1, HeadFacts
<1>3. CASE /\ dsQueue' = Tail(dsQueue)
           /\ fate' = [fate EXCEPT ![Head(dsQueue).id]
                         = IF Head(dsQueue).conf THEN "dropped" ELSE "sent"]
  BY <1>1, <1>3, HeadType DEF Fates
<1> QED BY <1>2, <1>3, SpendCases

LEMMA SendType ==
  ASSUME TypeOK, NEW gw \in Gateways, NEW window \in {1, 2},
         SendDSPacket(gw, window)
  PROVE  /\ dsQueue' \in Seq(Elements) /\ fate' \in [Messages -> Fates]
         /\ sends' \in [Messages -> Nat]
         /\ setAck' \in BOOLEAN /\ setAdr' \in BOOLEAN
         /\ downlink' \in Downlinks \union {NoFrame} /\ answered' \in 0 .. 2
<1>0. /\ dsQueue \in Seq(Elements) /\ fate \in [Messages -> Fates]
      /\ sends \in [Messages -> Nat]
      /\ setAck \in BOOLEAN /\ setAdr \in BOOLEAN
      /\ downlink \in Downlinks \union {NoFrame} /\ answered \in 0 .. 2
  BY DEF TypeOK, Fates
<1>1. ASSUME NEW conf \in BOOLEAN, Emit(gw, window, conf)
      PROVE  /\ setAck' \in BOOLEAN /\ setAdr' \in BOOLEAN
             /\ downlink' \in Downlinks \union {NoFrame} /\ answered' \in 0 .. 2
  <2>1. downlink' = [window |-> window, gw |-> gw, ack |-> setAck, conf |-> conf]
    BY <1>1 DEF Emit
  <2>2. downlink' \in Downlinks
    BY <1>0, <1>1, <2>1 DEF Downlinks
  <2>3. setAck' = FALSE /\ setAdr' = FALSE /\ answered' = window
    BY <1>1 DEF Emit
  <2>4. answered' \in 0 .. 2
    BY <2>3
  <2> QED BY <2>2, <2>3, <2>4, Zenon
<1>2. CASE SendHead(gw, window)
  <2>1. dsQueue # <<>> /\ SpendTransmission(Head(dsQueue))
    BY <1>2 DEF SendHead
  <2>2. dsQueue' \in Seq(Elements) /\ fate' \in [Messages -> Fates]
    BY <2>1, SpendType
  <2>3. Emit(gw, window, Head(dsQueue).conf) /\ Head(dsQueue).conf \in BOOLEAN
    BY <1>2, <2>1, HeadType DEF SendHead
  <2>4. sends' \in [Messages -> Nat]
    BY <1>0, <1>2, <2>1, HeadType DEF SendHead
  <2> QED BY <2>2, <2>3, <2>4, <1>1
<1>3. CASE SendEmpty(gw, window)
  <2>1. Emit(gw, window, FALSE)
    BY <1>3 DEF SendEmpty
  <2>2. UNCHANGED <<dsQueue, fate, sends>>
    BY <1>3 DEF SendEmpty, queue
  <2> QED BY <1>0, <1>1, <2>1, <2>2
<1>4. CASE SendNothing
  BY <1>0, <1>4 DEF SendNothing, queue, reply
<1> QED BY <1>2, <1>3, <1>4 DEF SendDSPacket

\* What a copy of the uplink does to the server.
LEMMA CopyType ==
  ASSUME TypeOK, NEW gw \in Gateways, HandleUSPacket(gw)
  PROVE  TypeOK'
<1>1. /\ fate \in [Messages -> Fates] /\ dsQueue \in Seq(Elements)
      /\ setAck \in BOOLEAN /\ setAdr \in BOOLEAN /\ fCntUp \in Nat
      /\ sinceSeen \in 0 .. Horizon /\ rw1Timer \in Timers /\ rw2Timer \in Timers
      /\ counts \in [unique : Nat, retx : Nat, dup : Nat]
      /\ uplink.asks \in BOOLEAN
  BY UplinkType DEF TypeOK, Fates
<1>2. UNCHANGED <<sends, downlink, answered, uplink, sinceTx, got, received, acksOwed>>
  BY DEF HandleUSPacket, reply, device
<1>3. lastGWs' \subseteq Gateways /\ copies' \subseteq uplink.heard
  BY DEF HandleUSPacket, SeeGateway, TypeOK
<1>4. truth' \in [last : 0 .. MaxPackets, packets : Nat, transmissions : Nat]
  <2>1. truth \in [last : 0 .. MaxPackets, packets : Nat, transmissions : Nat]
    BY DEF TypeOK
  <2>2. CASE truth' = truth
    BY <2>1, <2>2
  <2>3. CASE truth' = [last |-> uplink.pkt,
          packets |-> truth.packets + IF uplink.pkt > truth.last THEN 1 ELSE 0,
          transmissions |-> truth.transmissions + 1]
    BY <2>1, <2>3, UplinkType
  <2> QED BY <2>2, <2>3 DEF HandleUSPacket, Witness
<1>5. /\ \A n \in Nat : n + 1 \in Nat
      /\ counts.unique + 1 \in Nat /\ counts.retx + 1 \in Nat
      /\ counts.dup + 1 \in Nat
  BY <1>1
<1>6. CASE DropDuplicate
  <2>1. counts' \in [unique : Nat, retx : Nat, dup : Nat]
    BY <1>1, <1>5, <1>6 DEF DropDuplicate
  <2>2. UNCHANGED <<sinceSeen, fCntUp, setAck, setAdr, rw1Timer, rw2Timer, dsQueue, fate>>
    BY <1>6 DEF DropDuplicate, timers, queue
  <2> QED BY <1>2, <1>3, <1>4, <2>1, <2>2 DEF TypeOK
<1>7. CASE Accept
  <2>1. /\ sinceSeen' \in 0 .. Horizon /\ setAck' \in BOOLEAN
        /\ rw1Timer' \in Timers /\ rw2Timer' \in Timers
    BY <1>1, <1>7, Delays DEF Accept, OweAck, Timers
  <2>2. CASE AcceptNew
    <3>1. counts' \in [unique : Nat, retx : Nat, dup : Nat]
      BY <1>1, <1>5, <2>2 DEF AcceptNew
    <3>2. fCntUp' \in Nat /\ setAdr' \in BOOLEAN
      BY <1>1, <2>2, UplinkType DEF AcceptNew
    <3>3. dsQueue' \in Seq(Elements) /\ fate' \in [Messages -> Fates]
      BY <2>2, ProcessAckType DEF AcceptNew
    <3> QED BY <1>2, <1>3, <1>4, <2>1, <3>1, <3>2, <3>3 DEF TypeOK, Fates
  <2>3. CASE AcceptRetransmission
    <3>1. counts' \in [unique : Nat, retx : Nat, dup : Nat]
      BY <1>1, <1>5, <2>3 DEF AcceptRetransmission
    <3>2. UNCHANGED <<fCntUp, setAdr, dsQueue, fate>>
      BY <2>3 DEF AcceptRetransmission, queue
    <3> QED BY <1>2, <1>3, <1>4, <2>1, <3>1, <3>2 DEF TypeOK, Fates
  <2> QED BY <1>7, <2>2, <2>3 DEF Accept
<1> QED BY <1>6, <1>7 DEF HandleUSPacket

\* The frames of the device.
LEMMA FrameFields ==
  ASSUME NEW pkt \in 0 .. MaxPackets, NEW attempt \in 0 .. MaxAttempts,
         NEW asks \in BOOLEAN, NEW ack \in BOOLEAN, NEW heard \in SUBSET Gateways,
         NEW frame, frame = Frame(pkt, attempt, asks, ack, heard)
  PROVE  /\ frame \in Uplinks
         /\ frame.pkt = pkt /\ frame.attempt = attempt
         /\ frame.asks = asks /\ frame.ack = ack /\ frame.heard = heard
<1>1. frame = [pkt |-> pkt, attempt |-> attempt, asks |-> asks, ack |-> ack,
               heard |-> heard]
  BY DEF Frame
<1>2. /\ frame.pkt = pkt /\ frame.attempt = attempt
      /\ frame.asks = asks /\ frame.ack = ack /\ frame.heard = heard
  BY <1>1
<1>3. frame \in Uplinks
  <2>1. [pkt |-> pkt, attempt |-> attempt, asks |-> asks, ack |-> ack,
         heard |-> heard] \in Uplinks
    BY DEF Uplinks
  <2> QED BY <1>1, <2>1, Zenon
<1> QED BY <1>2, <1>3, Zenon

LEMMA EndsType ==
  ASSUME TypeOK, NEW frame \in Uplinks, Ends(frame), acksOwed' \in Nat
  PROVE  TypeOK'
<1>1. /\ UNCHANGED <<lastGWs, sinceSeen, fCntUp, counts, setAck, setAdr, rw1Timer,
                     rw2Timer, dsQueue, fate, sends, downlink, received, truth>>
      /\ uplink' = frame /\ copies' = frame.heard
      /\ sinceTx' = 0 /\ got' = FALSE /\ answered' = 0
  BY DEF Ends, entry, timers, queue
<1>2. sinceTx' \in 0 .. Horizon /\ answered' \in 0 .. 2 /\ got' \in BOOLEAN
  <2>1. 0 \in 0 .. Horizon /\ 0 \in 0 .. 2 /\ FALSE \in BOOLEAN
    BY Delays
  <2> QED BY <1>1, <2>1, Zenon
<1>3. uplink' \in Uplinks /\ copies' \subseteq uplink'.heard
  BY <1>1
<1> QED BY <1>1, <1>2, <1>3 DEF TypeOK

LEMMA TypeStep ==
  ASSUME TypeOK, ExchangeInv, [Next]_vars
  PROVE  TypeOK'
<1> USE Delays
<1>1. CASE \E gw \in Gateways : HandleUSPacket(gw)
  BY <1>1, CopyType
<1>2. CASE RW1TimerExpired
  <2>1. /\ UNCHANGED <<lastGWs, sinceSeen, fCntUp, counts, uplink, sinceTx, got,
                       received, acksOwed, copies, truth>>
        /\ rw1Timer' \in Timers
    BY <1>2 DEF RW1TimerExpired, entry, device, Timers
  <2>2. /\ dsQueue' \in Seq(Elements) /\ fate' \in [Messages -> Fates]
        /\ sends' \in [Messages -> Nat]
        /\ setAck' \in BOOLEAN /\ setAdr' \in BOOLEAN
        /\ downlink' \in Downlinks \union {NoFrame} /\ answered' \in 0 .. 2
    BY <1>2, SendType DEF RW1TimerExpired, TypeOK, Fates, queue, reply
  <2>3. rw2Timer' \in Timers
    <3>1. rw2Timer' = rw2Timer \/ rw2Timer' = ReceiveDelay2 - sinceSeen
      BY <1>2 DEF RW1TimerExpired
    <3>2. sinceSeen = ReceiveDelay1
      BY <1>2 DEF RW1TimerExpired, ExchangeInv, Heard, Unheard, Quiet, TypeOK
    <3> QED BY <3>1, <3>2 DEF TypeOK, Timers
  <2> QED BY <2>1, <2>2, <2>3 DEF TypeOK, Fates
<1>3. CASE RW2TimerExpired
  <2>1. /\ UNCHANGED <<lastGWs, sinceSeen, fCntUp, counts, uplink, sinceTx, got,
                       received, acksOwed, copies, truth, rw1Timer>>
        /\ rw2Timer' \in Timers
    BY <1>3 DEF RW2TimerExpired, entry, device, Timers
  <2>2. /\ dsQueue' \in Seq(Elements) /\ fate' \in [Messages -> Fates]
        /\ sends' \in [Messages -> Nat]
        /\ setAck' \in BOOLEAN /\ setAdr' \in BOOLEAN
        /\ downlink' \in Downlinks \union {NoFrame} /\ answered' \in 0 .. 2
    BY <1>3, SendType DEF RW2TimerExpired, TypeOK, Fates, queue, reply
  <2> QED BY <2>1, <2>2 DEF TypeOK, Fates
<1>4. CASE DSTimerExpired
  <2>1. PICK m \in Messages, conf \in BOOLEAN :
          /\ dsQueue' = Append(dsQueue, [id |-> m, conf |-> conf,
                           left |-> IF conf THEN DsTransmissions ELSE 1])
          /\ fate' = [fate EXCEPT ![m] = "queued"]
    BY <1>4, Bounds DEF DSTimerExpired
  <2>2. [id |-> m, conf |-> conf, left |-> IF conf THEN DsTransmissions ELSE 1]
          \in Elements
    BY Bounds DEF Elements
  <2>3. dsQueue' \in Seq(Elements)
    BY <2>1, <2>2 DEF TypeOK
  <2>4. fate' \in [Messages -> Fates]
    BY <2>1 DEF TypeOK, Fates
  <2>5. UNCHANGED <<lastGWs, sinceSeen, fCntUp, counts, uplink, sinceTx, got,
                    received, acksOwed, copies, truth, rw1Timer, rw2Timer,
                    setAck, setAdr, sends, downlink, answered>>
    BY <1>4 DEF DSTimerExpired, entry, timers, device, reply
  <2> QED BY <2>3, <2>4, <2>5 DEF TypeOK, Fates
<1>5. CASE TransmitNew
  <2>1. PICK asks \in BOOLEAN, ack \in BOOLEAN, heard \in SUBSET Gateways :
          /\ uplink.pkt < MaxPackets
          /\ ack => acksOwed > 0
          /\ Ends(Frame(uplink.pkt + 1, 1, asks, ack, heard))
          /\ acksOwed' = acksOwed - IF ack THEN 1 ELSE 0
    BY <1>5 DEF TransmitNew
  <2>2. Frame(uplink.pkt + 1, 1, asks, ack, heard) \in Uplinks
    <3>1. uplink.pkt + 1 \in 0 .. MaxPackets /\ 1 \in 0 .. MaxAttempts
      BY <2>1, UplinkType, Bounds
    <3> QED BY <3>1, FrameFields
  <2>3. acksOwed' \in Nat
    <3>1. acksOwed \in Nat
      BY DEF TypeOK
    <3>2. ack => acksOwed > 0 /\ acksOwed' = acksOwed - 1
      BY <2>1
    <3>3. ~ack => acksOwed' = acksOwed - 0
      BY <2>1
    <3> QED BY <3>1, <3>2, <3>3
  <2> QED BY <2>1, <2>2, <2>3, EndsType
<1>6. CASE TransmitAgain
  <2>1. PICK heard \in SUBSET Gateways :
          /\ uplink.attempt < MaxAttempts
          /\ Ends(Frame(uplink.pkt, uplink.attempt + 1, uplink.asks,
                        uplink.ack, heard))
          /\ acksOwed' = acksOwed
    BY <1>6 DEF TransmitAgain
  <2>2. Frame(uplink.pkt, uplink.attempt + 1, uplink.asks, uplink.ack, heard)
          \in Uplinks
    <3>1. uplink.attempt + 1 \in 0 .. MaxAttempts
      BY <2>1, UplinkType, Bounds
    <3> QED BY <3>1, UplinkType, FrameFields
  <2> QED BY <2>1, <2>2, EndsType DEF TypeOK
<1>7. CASE Deliver
  <2>1. received' \in Nat /\ acksOwed' \in Nat /\ got' \in BOOLEAN
    <3>1. \A n \in Nat : n + 1 \in Nat /\ n + 0 \in Nat
      OBVIOUS
    <3>2. received \in Nat /\ acksOwed \in Nat /\ got \in BOOLEAN
      BY DEF TypeOK
    <3>3. \/ received' = received + 1 /\ acksOwed' = acksOwed + 1 /\ got' = TRUE
          \/ received' = received + 0 /\ acksOwed' = acksOwed + 0 /\ got' = TRUE
          \/ UNCHANGED <<got, received, acksOwed>>
      BY <1>7, Zenon DEF Deliver
    <3> QED BY <3>1, <3>2, <3>3, Zenon
  <2>2. /\ UNCHANGED <<lastGWs, sinceSeen, fCntUp, counts, uplink, sinceTx,
                       copies, truth, rw1Timer, rw2Timer, dsQueue, fate, sends,
                       setAck, setAdr, answered>>
        /\ downlink' = NoFrame
    BY <1>7 DEF Deliver, entry, timers, queue
  <2> QED BY <2>1, <2>2 DEF TypeOK
<1>8. CASE Tick
  <2>1. /\ rw1Timer' \in Timers /\ rw2Timer' \in Timers
        /\ sinceSeen' \in 0 .. Horizon /\ sinceTx' \in 0 .. Horizon
    <3>1. /\ rw1Timer \in Timers /\ rw2Timer \in Timers
          /\ sinceSeen \in 0 .. Horizon /\ sinceTx \in 0 .. Horizon
      BY DEF TypeOK
    <3>2. ASSUME NEW t \in Timers, t # 0
          PROVE  Later(t) \in Timers
      BY <3>2 DEF Later, Timers
    <3>3. ASSUME NEW a \in 0 .. Horizon
          PROVE  Older(a) \in 0 .. Horizon
      BY DEF Older
    <3> QED BY <1>8, <3>1, <3>2, <3>3 DEF Tick
  <2>2. UNCHANGED <<lastGWs, fCntUp, counts, uplink, got, received, acksOwed,
                    copies, truth, dsQueue, fate, sends, setAck, setAdr,
                    downlink, answered>>
    BY <1>8 DEF Tick, queue, reply
  <2> QED BY <2>1, <2>2 DEF TypeOK
<1>9. CASE UNCHANGED vars
  BY <1>9 DEF vars, TypeOK, entry, timers, queue, reply, device
<1> QED BY <1>1, <1>2, <1>3, <1>4, <1>5, <1>6, <1>7, <1>8, <1>9 DEF Next, Server

-----------------------------------------------------------------------------
(* The exchange: uplink, copies, timers, answer.                           *)

\* The numbers among the variables.
LEMMA NumberType ==
  ASSUME TypeOK
  PROVE  /\ sinceSeen \in Nat /\ sinceSeen <= Horizon
         /\ sinceTx \in Nat /\ sinceTx <= Horizon
         /\ fCntUp \in Nat /\ answered \in Nat /\ answered <= 2
         /\ rw1Timer \in Int /\ rw2Timer \in Int
         /\ rw1Timer # NotRunning => rw1Timer \in Nat
         /\ rw2Timer # NotRunning => rw2Timer \in Nat
BY Delays DEF TypeOK, Timers

\* The first copy of an uplink is accepted, every other one is a duplicate.
LEMMA CopyCases ==
  ASSUME TypeOK, CopiesInv, ExchangeInv, NEW gw \in copies
  PROVE  IF copies = uplink.heard
           THEN Unheard /\ ~IsDuplicate
                /\ (SeeGateway(gw) => lastGWs' = {gw})
           ELSE Heard /\ ~IsNew /\ sinceSeen <= DuplicateTime
<1> USE Delays, NumberType, UplinkType
<1>1. CASE copies = uplink.heard
  <2>1. Unheard
    BY <1>1 DEF ExchangeInv
  <2>2. CASE sinceSeen > DuplicateTime
    BY <1>1, <2>1, <2>2 DEF IsDuplicate, SeeGateway
  <2>3. CASE fCntUp = 0 /\ lastGWs = {} /\ (uplink.pkt = 0 \/ uplink.pkt = 1)
    <3>1. uplink.pkt # 0
      BY <1>1 DEF CopiesInv
    <3>2. FrameCounter = 1
      BY <2>3, <3>1, Bounds
    <3>3. IsNew
      BY <2>3, <3>2 DEF IsNew
    <3>4. SeeGateway(gw) => lastGWs' = {gw}
      BY <2>3 DEF SeeGateway
    <3> QED BY <1>1, <2>1, <3>3, <3>4 DEF IsDuplicate
  <2> QED BY <2>1, <2>2, <2>3 DEF Unheard
<1>2. CASE copies # uplink.heard
  <2>1. Heard
    BY <1>2 DEF ExchangeInv
  <2>2. sinceSeen <= sinceTx /\ sinceTx <= Jitter
    BY <2>1 DEF Heard, CopiesInv
  <2> QED BY <1>2, <2>1, <2>2 DEF Heard
<1> QED BY <1>1, <1>2

LEMMA CopyExchange ==
  ASSUME TypeOK, CopiesInv, ExchangeInv, NEW gw \in Gateways, HandleUSPacket(gw)
  PROVE  CopiesInv' /\ ExchangeInv'
<1> USE Delays, NumberType, UplinkType
<1>1. /\ gw \in copies /\ copies' = copies \ {gw}
      /\ UNCHANGED <<downlink, answered, uplink, sinceTx, got>>
      /\ copies \subseteq uplink.heard
  BY DEF HandleUSPacket, reply, device, TypeOK
<1>2. CopiesInv'
  BY <1>1 DEF CopiesInv
<1>3. copies' # uplink'.heard
  BY <1>1
<1>4. CASE copies = uplink.heard
  <2>1. Unheard /\ ~IsDuplicate /\ lastGWs' = {gw}
    BY <1>1, <1>4, CopyCases DEF HandleUSPacket
  <2>2. Accept
    BY <2>1 DEF HandleUSPacket, DropDuplicate
  <2>3. /\ sinceSeen' = 0 /\ rw1Timer' = ReceiveDelay1 /\ rw2Timer' = rw2Timer
        /\ setAck' = (setAck \/ uplink.asks)
    BY <2>2 DEF Accept, OweAck
  <2>4. ~IsNew'
    <3>1. fCntUp' = FrameCounter \/ (fCntUp' = fCntUp /\ ~IsNew)
      BY <2>2 DEF Accept, AcceptNew, AcceptRetransmission
    <3>2. FrameCounter' = FrameCounter
      BY <1>1 DEF FrameCounter
    <3> QED BY <3>1, <3>2 DEF IsNew
  <2>5. lastGWs' = uplink'.heard \ copies'
    BY <1>1, <1>4, <2>1
  <2>6. sinceTx <= Jitter
    BY <1>1 DEF CopiesInv
  <2>7. answered = 0 /\ ~got /\ downlink = NoFrame /\ rw2Timer = NotRunning
    BY <2>1 DEF Unheard, Quiet
  <2>8. Heard'
    BY <1>1, <2>3, <2>4, <2>5, <2>6, <2>7 DEF Heard
  <2> QED BY <1>2, <1>3, <2>8 DEF ExchangeInv
<1>5. CASE copies # uplink.heard
  <2>1. Heard /\ ~IsNew /\ sinceSeen <= DuplicateTime
    BY <1>1, <1>5, CopyCases
  <2>2. DropDuplicate
    BY <2>1 DEF HandleUSPacket, Accept, AcceptNew, AcceptRetransmission, IsDuplicate
  <2>3. UNCHANGED <<sinceSeen, fCntUp, setAck, rw1Timer, rw2Timer>>
    BY <2>2 DEF DropDuplicate, timers
  <2>4. lastGWs' = lastGWs \union {gw}
    BY <2>1 DEF HandleUSPacket, SeeGateway
  <2>5. lastGWs' = uplink'.heard \ copies'
    BY <1>1, <2>1, <2>4 DEF Heard
  <2>6. ~IsNew'
    BY <1>1, <2>1, <2>3 DEF IsNew, FrameCounter
  <2>7. Heard'
    BY <1>1, <2>1, <2>3, <2>5, <2>6 DEF Heard
  <2> QED BY <1>2, <1>3, <2>7 DEF ExchangeInv
<1> QED BY <1>4, <1>5

\* What SendDSPacket changes of the answer.
LEMMA SendReply ==
  ASSUME NEW gw, NEW window, SendDSPacket(gw, window)
  PROVE  \/ /\ downlink'.window = window /\ downlink'.gw = gw
            /\ downlink'.ack = setAck
            /\ answered' = window
         \/ UNCHANGED <<downlink, answered, setAck>>
<1>1. ASSUME NEW conf, Emit(gw, window, conf)
      PROVE  /\ downlink'.window = window /\ downlink'.gw = gw
             /\ downlink'.ack = setAck /\ answered' = window
  BY <1>1 DEF Emit
<1>2. CASE SendHead(gw, window)
  <2>1. Emit(gw, window, Head(dsQueue).conf)
    BY <1>2 DEF SendHead
  <2> QED BY <1>1, <2>1
<1>3. CASE SendEmpty(gw, window)
  <2>1. Emit(gw, window, FALSE)
    BY <1>3 DEF SendEmpty
  <2> QED BY <1>1, <2>1
<1>4. CASE SendNothing
  BY <1>4 DEF SendNothing, reply
<1> QED BY <1>2, <1>3, <1>4 DEF SendDSPacket

\* A timer that runs belongs to the last uplink, which is not yet answered.
LEMMA TimerRuns ==
  ASSUME TypeOK, ExchangeInv, rw1Timer # NotRunning \/ rw2Timer # NotRunning
  PROVE  /\ copies # uplink.heard /\ Heard /\ answered = 0
         /\ downlink = NoFrame /\ ~got
         /\ lastGWs \subseteq uplink.heard
         /\ uplink.asks => setAck
         /\ rw1Timer # NotRunning => rw1Timer + sinceSeen = ReceiveDelay1
                                     /\ rw2Timer = NotRunning
         /\ rw2Timer # NotRunning => rw2Timer + sinceSeen = ReceiveDelay2
                                     /\ rw1Timer = NotRunning
<1>1. copies # uplink.heard /\ Heard
  BY DEF ExchangeInv, Unheard, Quiet
<1>2. answered = 0
  BY <1>1 DEF Heard
<1> QED BY <1>1, <1>2 DEF Heard

LEMMA WindowExchange ==
  ASSUME TypeOK, CopiesInv, ExchangeInv, RW1TimerExpired \/ RW2TimerExpired
  PROVE  CopiesInv' /\ ExchangeInv'
<1> USE Delays, NumberType
<1>1. /\ UNCHANGED <<lastGWs, sinceSeen, fCntUp, uplink, sinceTx, got, copies>>
      /\ rw1Timer = 0 \/ rw2Timer = 0
  BY DEF RW1TimerExpired, RW2TimerExpired, entry, device
<1>2. /\ copies # uplink.heard /\ Heard /\ answered = 0
      /\ downlink = NoFrame /\ ~got /\ lastGWs \subseteq uplink.heard
      /\ uplink.asks => setAck
  BY <1>1, TimerRuns
<1>3. CopiesInv'
  BY <1>1 DEF CopiesInv
<1>4. /\ ~IsNew' /\ lastGWs' = uplink'.heard \ copies'
      /\ sinceSeen' <= sinceTx' /\ sinceTx' <= sinceSeen' + Jitter
  BY <1>1, <1>2 DEF Heard, IsNew, FrameCounter
<1>5. ASSUME NEW gw \in lastGWs, NEW window \in {1, 2}, SendDSPacket(gw, window),
             rw1Timer' = NotRunning, rw2Timer' = NotRunning,
             sinceSeen = IF window = 1 THEN ReceiveDelay1 ELSE ReceiveDelay2
      PROVE  ExchangeInv'
  <2>1. CASE /\ downlink'.window = window /\ downlink'.gw = gw
             /\ downlink'.ack = setAck
             /\ answered' = window
    <3>1. Heard'
      BY <1>1, <1>2, <1>4, <1>5, <2>1 DEF Heard
    <3> QED BY <1>1, <1>2, <3>1 DEF ExchangeInv
  <2>2. CASE UNCHANGED <<downlink, answered, setAck>>
    <3>1. Heard'
      BY <1>1, <1>2, <1>4, <1>5, <2>2 DEF Heard
    <3> QED BY <1>1, <1>2, <3>1 DEF ExchangeInv
  <2> QED BY <1>5, <2>1, <2>2, SendReply
<1>6. ASSUME downlink' = downlink, answered' = answered, setAck' = setAck,
             rw1Timer' = NotRunning,
             \/ rw2Timer' = NotRunning
             \/ rw2Timer' + sinceSeen = ReceiveDelay2
      PROVE  ExchangeInv'
  <2>1. /\ downlink' = downlink /\ answered' = answered /\ setAck' = setAck
        /\ uplink' = uplink /\ got' = got /\ sinceSeen' = sinceSeen
    BY <1>1, <1>6
  <2>2. answered' = 0 /\ ~got' /\ downlink' = NoFrame /\ (uplink'.asks => setAck')
    BY <1>2, <2>1
  <2>3. Heard'
    BY <1>4, <1>6, <2>1, <2>2 DEF Heard
  <2> QED BY <1>1, <1>2, <2>3 DEF ExchangeInv
<1>7. CASE RW1TimerExpired
  <2>1. /\ rw1Timer = 0 /\ rw1Timer' = NotRunning
        /\ rw2Timer = NotRunning /\ sinceSeen = ReceiveDelay1
    BY <1>7, TimerRuns DEF RW1TimerExpired
  <2>2. ASSUME NEW gw \in lastGWs, SendDSPacket(gw, 1), UNCHANGED rw2Timer
        PROVE  ExchangeInv'
    <3>1. /\ 1 \in {1, 2} /\ rw2Timer' = NotRunning
          /\ sinceSeen = IF 1 = 1 THEN ReceiveDelay1 ELSE ReceiveDelay2
      BY <2>1, <2>2
    <3> QED BY <1>5, <2>1, <2>2, <3>1, Zenon
  <2>3. ASSUME rw2Timer' = ReceiveDelay2 - sinceSeen, UNCHANGED reply,
               UNCHANGED setAck
        PROVE  ExchangeInv'
    <3>1. downlink' = downlink /\ answered' = answered /\ setAck' = setAck
      BY <2>3 DEF reply
    <3>2. rw2Timer' + sinceSeen = ReceiveDelay2
      BY <2>1, <2>3
    <3> QED BY <1>6, <2>1, <3>1, <3>2, Zenon
  <2>4. \/ (\E gw \in lastGWs : SendDSPacket(gw, 1)) /\ UNCHANGED rw2Timer
        \/ /\ rw2Timer' = ReceiveDelay2 - sinceSeen
           /\ UNCHANGED reply /\ UNCHANGED setAck
    BY <1>7 DEF RW1TimerExpired
  <2> QED BY <1>3, <2>2, <2>3, <2>4
<1>8. CASE RW2TimerExpired
  <2>1. /\ rw2Timer = 0 /\ rw2Timer' = NotRunning
        /\ rw1Timer = NotRunning /\ rw1Timer' = NotRunning
        /\ sinceSeen = ReceiveDelay2
    BY <1>8, TimerRuns DEF RW2TimerExpired
  <2>2. ASSUME NEW gw \in lastGWs, SendDSPacket(gw, 2)
        PROVE  ExchangeInv'
    <3>1. /\ 2 \in {1, 2}
          /\ sinceSeen = IF 2 = 1 THEN ReceiveDelay1 ELSE ReceiveDelay2
      BY <2>1
    <3> QED BY <1>5, <2>1, <2>2, <3>1, Zenon
  <2>3. ASSUME UNCHANGED reply, UNCHANGED setAck
        PROVE  ExchangeInv'
    <3>1. downlink' = downlink /\ answered' = answered /\ setAck' = setAck
      BY <2>3 DEF reply
    <3> QED BY <1>6, <2>1, <3>1, Zenon
  <2>4. \/ \E gw \in lastGWs : SendDSPacket(gw, 2)
        \/ UNCHANGED reply /\ UNCHANGED setAck
    BY <1>8 DEF RW2TimerExpired
  <2> QED BY <1>3, <2>2, <2>3, <2>4
<1> QED BY <1>3, <1>7, <1>8

\* When the device may transmit again, the server has done with the last uplink.
LEMMA ReadyFacts ==
  ASSUME TypeOK, CopiesInv, ExchangeInv, Ready
  PROVE  /\ Quiet
         /\ \/ sinceSeen > DuplicateTime
            \/ fCntUp = 0 /\ lastGWs = {} /\ uplink.pkt = 0
<1> USE Delays, NumberType
<1>1. /\ copies = {} /\ downlink = NoFrame
      /\ sinceTx > Jitter + ReceiveDelay1
      /\ ~(got /\ answered = 1) => sinceTx > Jitter + ReceiveDelay2
  BY DEF Ready
<1>2. CASE Unheard
  BY <1>1, <1>2 DEF Unheard
<1>3. CASE Heard
  <2>1. sinceTx <= sinceSeen + Jitter
    BY <1>3 DEF Heard
  <2>2. sinceSeen > ReceiveDelay1
    BY <1>1, <2>1
  <2>3. CASE got /\ answered = 1
    BY <1>1, <1>3, <2>2, <2>3 DEF Heard, Quiet
  <2>4. CASE ~(got /\ answered = 1)
    <3>1. sinceSeen > ReceiveDelay2
      BY <1>1, <2>1, <2>4
    <3> QED BY <1>1, <1>3, <3>1 DEF Heard, Quiet
  <2> QED BY <2>3, <2>4
<1> QED BY <1>2, <1>3 DEF ExchangeInv

LEMMA EndsExchange ==
  ASSUME TypeOK, CopiesInv, ExchangeInv, NEW frame, Ends(frame),
         frame.pkt \in Nat, frame.pkt # 0,
         uplink.pkt = 0 => frame.pkt = 1
  PROVE  CopiesInv' /\ ExchangeInv'
<1> USE Delays, NumberType
<1>1. /\ UNCHANGED <<lastGWs, sinceSeen, fCntUp, rw1Timer, rw2Timer, downlink>>
      /\ uplink' = frame /\ copies' = frame.heard
      /\ sinceTx' = 0 /\ answered' = 0
  BY DEF Ends, entry, timers
<1>2. ~got'
  BY DEF Ends
<1>3. CopiesInv'
  BY <1>1 DEF CopiesInv
<1>4. Quiet'
  BY <1>1, ReadyFacts DEF Ends, Quiet
<1>5. Unheard'
  BY <1>1, <1>2, <1>4, ReadyFacts DEF Ends, Unheard
<1> QED BY <1>1, <1>3, <1>5 DEF ExchangeInv

LEMMA DeliverExchange ==
  ASSUME TypeOK, CopiesInv, ExchangeInv, Deliver
  PROVE  CopiesInv' /\ ExchangeInv'
<1> USE Delays, NumberType
<1>1. /\ UNCHANGED <<lastGWs, sinceSeen, fCntUp, setAck, rw1Timer, rw2Timer,
                     answered, uplink, sinceTx, copies>>
      /\ downlink # NoFrame /\ downlink' = NoFrame
  BY DEF Deliver, entry, timers
<1>2. copies # uplink.heard /\ Heard
  BY <1>1 DEF ExchangeInv, Unheard, Quiet
<1>3. ~IsNew'
  BY <1>1, <1>2 DEF Heard, IsNew, FrameCounter
<1>4. Heard'
  BY <1>1, <1>2, <1>3 DEF Heard
<1> QED BY <1>1, <1>2, <1>4 DEF CopiesInv, ExchangeInv

LEMMA TickExchange ==
  ASSUME TypeOK, CopiesInv, ExchangeInv, Tick
  PROVE  CopiesInv' /\ ExchangeInv'
<1> USE Delays, NumberType
<1>1. /\ UNCHANGED <<lastGWs, fCntUp, setAck, downlink, answered, uplink, got,
                     copies>>
      /\ rw1Timer # 0 /\ rw2Timer # 0 /\ downlink = NoFrame
      /\ copies = {} \/ sinceTx < Jitter
  BY DEF Tick, reply
<1>2. /\ rw1Timer' = IF rw1Timer = NotRunning THEN NotRunning ELSE rw1Timer - 1
      /\ rw2Timer' = IF rw2Timer = NotRunning THEN NotRunning ELSE rw2Timer - 1
      /\ sinceSeen' = IF sinceSeen < Horizon THEN sinceSeen + 1 ELSE sinceSeen
      /\ sinceTx' = IF sinceTx < Horizon THEN sinceTx + 1 ELSE sinceTx
  BY DEF Tick, Later, Older
<1>3. CopiesInv'
  BY <1>1, <1>2 DEF CopiesInv
<1>4. CASE copies = uplink.heard
  <2>1. Unheard
    BY <1>4 DEF ExchangeInv
  <2>2. Unheard'
    BY <1>1, <1>2, <2>1 DEF Unheard, Quiet
  <2> QED BY <1>1, <1>3, <1>4, <2>2 DEF ExchangeInv
<1>5. CASE copies # uplink.heard
  <2>1. Heard
    BY <1>5 DEF ExchangeInv
  <2>2. ~IsNew' /\ lastGWs' = uplink'.heard \ copies'
    BY <1>1, <2>1 DEF Heard, IsNew, FrameCounter
  <2>3. sinceSeen' <= sinceTx' /\ sinceTx' <= sinceSeen' + Jitter
    BY <1>2, <2>1 DEF Heard
  <2>4. /\ rw1Timer' # NotRunning => rw1Timer' + sinceSeen' = ReceiveDelay1
                                     /\ rw2Timer' = NotRunning
        /\ rw2Timer' # NotRunning => rw2Timer' + sinceSeen' = ReceiveDelay2
                                     /\ rw1Timer' = NotRunning
    BY <1>1, <1>2, <2>1 DEF Heard
  <2>5. Heard'
    BY <1>1, <1>2, <2>1, <2>2, <2>3, <2>4 DEF Heard
  <2> QED BY <1>1, <1>3, <1>5, <2>5 DEF ExchangeInv
<1> QED BY <1>4, <1>5

\* What the device transmits.
LEMMA NewFrame ==
  ASSUME TransmitNew
  PROVE  \E frame : /\ Ends(frame)
                    /\ frame.pkt = uplink.pkt + 1
                    /\ uplink.pkt < MaxPackets
                    /\ IF frame.ack THEN acksOwed > 0 /\ acksOwed' = acksOwed - 1
                                    ELSE acksOwed' = acksOwed - 0
<1>1. PICK asks \in BOOLEAN, ack \in BOOLEAN, heard \in SUBSET Gateways :
        /\ uplink.pkt < MaxPackets
        /\ ack => acksOwed > 0
        /\ Ends(Frame(uplink.pkt + 1, 1, asks, ack, heard))
        /\ acksOwed' = acksOwed - IF ack THEN 1 ELSE 0
  BY DEF TransmitNew
<1> DEFINE frame == Frame(uplink.pkt + 1, 1, asks, ack, heard)
<1>2. frame.pkt = uplink.pkt + 1 /\ frame.ack = ack
  BY DEF Frame
<1>3. /\ ack => acksOwed > 0 /\ acksOwed' = acksOwed - 1
      /\ ~ack => acksOwed' = acksOwed - 0
  BY <1>1
<1>4. Ends(frame) /\ uplink.pkt < MaxPackets
  BY <1>1
<1> HIDE DEF frame
<1> QED BY <1>2, <1>3, <1>4

LEMMA OldFrame ==
  ASSUME TransmitAgain
  PROVE  \E frame : /\ Ends(frame)
                    /\ frame.pkt = uplink.pkt /\ frame.ack = uplink.ack
                    /\ acksOwed' = acksOwed
<1>1. PICK heard \in SUBSET Gateways :
        Ends(Frame(uplink.pkt, uplink.attempt + 1, uplink.asks, uplink.ack, heard))
  BY DEF TransmitAgain
<1> DEFINE frame == Frame(uplink.pkt, uplink.attempt + 1, uplink.asks,
                          uplink.ack, heard)
<1>2. frame.pkt = uplink.pkt /\ frame.ack = uplink.ack
  BY DEF Frame
<1>3. Ends(frame) /\ acksOwed' = acksOwed
  BY <1>1 DEF TransmitAgain
<1> HIDE DEF frame
<1> QED BY <1>2, <1>3

LEMMA ExchangeStep ==
  ASSUME TypeOK, CopiesInv, ExchangeInv, [Next]_vars
  PROVE  CopiesInv' /\ ExchangeInv'
<1>1. CASE \E gw \in Gateways : HandleUSPacket(gw)
  BY <1>1, CopyExchange
<1>2. CASE RW1TimerExpired \/ RW2TimerExpired
  BY <1>2, WindowExchange
<1>3. CASE TransmitNew
  <2>1. PICK frame : Ends(frame) /\ frame.pkt = uplink.pkt + 1
    BY <1>3, NewFrame
  <2> QED BY <2>1, EndsExchange, UplinkType
<1>4. CASE TransmitAgain
  <2>1. uplink.asks
    BY <1>4 DEF TransmitAgain
  <2>2. PICK frame : Ends(frame) /\ frame.pkt = uplink.pkt
    BY <1>4, OldFrame
  <2>3. uplink.pkt # 0
    BY <2>1 DEF CopiesInv
  <2> QED BY <2>2, <2>3, EndsExchange, UplinkType
<1>5. CASE Deliver
  BY <1>5, DeliverExchange
<1>6. CASE Tick
  BY <1>6, TickExchange
<1>7. CASE DSTimerExpired \/ UNCHANGED vars
  <2>1. UNCHANGED <<lastGWs, sinceSeen, fCntUp, setAck, rw1Timer, rw2Timer,
                    downlink, answered, uplink, sinceTx, got, copies>>
    BY <1>7 DEF DSTimerExpired, vars, entry, timers, reply, device
  <2>2. IsNew' <=> IsNew
    BY <2>1 DEF IsNew, FrameCounter
  <2> QED BY <2>1, <2>2 DEF CopiesInv, ExchangeInv, Unheard, Heard, Quiet
<1> QED BY <1>1, <1>2, <1>3, <1>4, <1>5, <1>6, <1>7 DEF Next, Server

-----------------------------------------------------------------------------
(* The counters.                                                           *)

\* The first copy is accepted and counted, the others are dropped.
LEMMA CopyDecides ==
  ASSUME TypeOK, CopiesInv, ExchangeInv, NEW gw \in Gateways, HandleUSPacket(gw)
  PROVE  \/ /\ copies = uplink.heard /\ Accept
            /\ truth' = [last |-> uplink.pkt,
                         packets |-> truth.packets
                                       + IF uplink.pkt > truth.last THEN 1 ELSE 0,
                         transmissions |-> truth.transmissions + 1]
         \/ copies # uplink.heard /\ ~IsNew /\ DropDuplicate /\ truth' = truth
<1>1. gw \in copies /\ (DropDuplicate \/ Accept) /\ Witness
  BY DEF HandleUSPacket
<1>2. CASE copies = uplink.heard
  <2>1. ~IsDuplicate
    BY <1>1, <1>2, CopyCases
  <2>2. Accept
    BY <1>1, <2>1 DEF DropDuplicate
  <2> QED BY <1>1, <1>2, <2>2 DEF Witness
<1>3. CASE copies # uplink.heard
  <2>1. ~IsNew /\ sinceSeen <= DuplicateTime
    BY <1>1, <1>3, CopyCases
  <2>2. DropDuplicate
    BY <1>1, <2>1 DEF Accept, AcceptNew, AcceptRetransmission, IsDuplicate
  <2> QED BY <1>1, <1>3, <2>1, <2>2 DEF Witness
<1> QED BY <1>2, <1>3

\* What an accepted copy does to the counters.
LEMMA CountType ==
  ASSUME TypeOK
  PROVE  /\ counts.unique \in Nat /\ counts.retx \in Nat
         /\ truth.last \in Nat /\ truth.packets \in Nat
         /\ truth.transmissions \in Nat
         /\ DOMAIN counts = {"unique", "retx", "dup"}
         /\ fCntUp \in Nat
<1>1. /\ counts \in [unique : Nat, retx : Nat, dup : Nat] /\ fCntUp \in Nat
      /\ truth \in [last : 0 .. MaxPackets, packets : Nat, transmissions : Nat]
  BY DEF TypeOK
<1> QED BY <1>1, Bounds

LEMMA CopyCounter ==
  ASSUME TypeOK, CopiesInv, ExchangeInv, CounterInv,
         NEW gw \in Gateways, HandleUSPacket(gw)
  PROVE  CounterInv'
<1> SUFFICES ASSUME MaxPackets < CounterModulus
             PROVE  fCntUp' = truth'.last /\ truth'.last <= uplink'.pkt
                    /\ ClassifiedRight'
  BY DEF CounterInv
<1> USE CountType
<1>1. /\ fCntUp = truth.last /\ truth.last <= uplink.pkt
      /\ counts.unique = truth.packets
      /\ counts.unique + counts.retx = truth.transmissions
  BY DEF CounterInv, ClassifiedRight
<1>2. FrameCounter = uplink.pkt /\ uplink.pkt \in Nat
  BY UplinkType, Bounds
<1>3. uplink' = uplink
  BY DEF HandleUSPacket, device
<1>4. CASE DropDuplicate /\ truth' = truth
  <2>1. /\ counts'.unique = counts.unique /\ counts'.retx = counts.retx
        /\ fCntUp' = fCntUp
    BY <1>4 DEF DropDuplicate
  <2> QED BY <1>1, <1>3, <1>4, <2>1 DEF ClassifiedRight
<1>5. CASE /\ Accept
           /\ truth' = [last |-> uplink.pkt,
                        packets |-> truth.packets
                                      + IF uplink.pkt > truth.last THEN 1 ELSE 0,
                        transmissions |-> truth.transmissions + 1]
  <2>1. /\ truth'.last = uplink.pkt
        /\ truth'.packets
             = truth.packets + IF uplink.pkt > truth.last THEN 1 ELSE 0
        /\ truth'.transmissions = truth.transmissions + 1
    BY <1>5
  <2>2. CASE AcceptNew
    <3>1. /\ counts'.unique = counts.unique + 1 /\ counts'.retx = counts.retx
          /\ fCntUp' = FrameCounter /\ FrameCounter > fCntUp
      BY <2>2 DEF AcceptNew, IsNew
    <3> QED BY <1>1, <1>2, <1>3, <2>1, <3>1 DEF ClassifiedRight
  <2>3. CASE AcceptRetransmission
    <3>1. /\ counts'.unique = counts.unique /\ counts'.retx = counts.retx + 1
          /\ fCntUp' = fCntUp /\ ~(FrameCounter > fCntUp)
      BY <2>3 DEF AcceptRetransmission, IsNew
    <3> QED BY <1>1, <1>2, <1>3, <2>1, <3>1 DEF ClassifiedRight
  <2> QED BY <1>5, <2>2, <2>3 DEF Accept
<1> QED BY <1>4, <1>5, CopyDecides

LEMMA CounterStep ==
  ASSUME TypeOK, CopiesInv, ExchangeInv, CounterInv, [Next]_vars
  PROVE  CounterInv'
<1> USE CountType, UplinkType
<1>1. CASE \E gw \in Gateways : HandleUSPacket(gw)
  BY <1>1, CopyCounter
<1>2. ASSUME NEW frame, Ends(frame), frame.pkt \in Nat, frame.pkt >= uplink.pkt
      PROVE  CounterInv'
  BY <1>2 DEF Ends, entry, CounterInv, ClassifiedRight
<1>3. CASE TransmitNew
  BY <1>2, <1>3, NewFrame
<1>4. CASE TransmitAgain
  BY <1>2, <1>4, OldFrame
<1>5. CASE UNCHANGED <<fCntUp, counts, truth, uplink>>
  BY <1>5 DEF CounterInv, ClassifiedRight
<1>6. RW1TimerExpired \/ RW2TimerExpired \/ DSTimerExpired \/ Deliver \/ Tick
        \/ UNCHANGED vars
        => UNCHANGED <<fCntUp, counts, truth, uplink>>
  BY DEF RW1TimerExpired, RW2TimerExpired, DSTimerExpired, Deliver, Tick, vars,
         entry, device
<1> QED BY <1>1, <1>3, <1>4, <1>5, <1>6 DEF Next, Server
-----------------------------------------------------------------------------
(* The downstream queue.                                                   *)

\* What TypeOK says of the packets in the queue and of their accounts.
LEMMA QueueType ==
  ASSUME TypeOK
  PROVE  /\ dsQueue \in Seq(Elements)
         /\ fate \in [Messages -> Fates] /\ sends \in [Messages -> Nat]
         /\ \A i \in DOMAIN dsQueue :
              /\ dsQueue[i] \in Elements
              /\ dsQueue[i].id \in Messages /\ dsQueue[i].conf \in BOOLEAN
              /\ dsQueue[i].left \in Nat
<1>1. /\ dsQueue \in Seq(Elements)
      /\ fate \in [Messages -> Fates] /\ sends \in [Messages -> Nat]
  BY DEF TypeOK, Fates
<1>2. \A i \in DOMAIN dsQueue : dsQueue[i] \in Elements
  BY <1>1
<1>3. ASSUME NEW e \in Elements
      PROVE  e.id \in Messages /\ e.conf \in BOOLEAN /\ e.left \in Nat
  BY Bounds DEF Elements
<1> QED BY <1>1, <1>2, <1>3

\* The head leaves the queue, with n transmissions behind it.
LEMMA HeadGoes ==
  ASSUME TypeOK, QueueInv, dsQueue # <<>>, dsQueue' = Tail(dsQueue),
         NEW end \in {"sent", "acked", "dropped"}, NEW n \in Nat,
         fate' = [fate EXCEPT ![Head(dsQueue).id] = end],
         sends' = [sends EXCEPT ![Head(dsQueue).id] = n],
         end = "dropped" => n = DsTransmissions, end = "sent" => n = 1
  PROVE  QueueInv'
<1> DEFINE h == Head(dsQueue).id
<1>1. /\ fate \in [Messages -> Fates] /\ sends \in [Messages -> Nat]
      /\ h \in Messages /\ h = dsQueue[1].id
  BY QueueType, HeadType
<1>2. /\ fate' \in [Messages -> Fates] /\ fate'[h] = end /\ sends'[h] = n
      /\ \A m \in Messages : m # h => fate'[m] = fate[m] /\ sends'[m] = sends[m]
  BY <1>1 DEF Fates
<1>3. /\ Len(dsQueue) \in Nat /\ Len(dsQueue) > 0 /\ 1 \in DOMAIN dsQueue
      /\ DOMAIN dsQueue' = 1 .. Len(dsQueue) - 1
      /\ DOMAIN dsQueue = 1 .. Len(dsQueue)
      /\ \A i \in DOMAIN dsQueue' :
           i + 1 \in DOMAIN dsQueue /\ dsQueue'[i] = dsQueue[i + 1]
  BY TailFacts, QueueType
<1>4. ASSUME NEW i \in DOMAIN dsQueue'
      PROVE  /\ i \in Nat /\ i > 0 /\ i + 1 \in DOMAIN dsQueue
             /\ dsQueue'[i] = dsQueue[i + 1]
             /\ dsQueue[i + 1].id \in Messages /\ dsQueue[i + 1].id # h
  <2>1. i \in Nat /\ i > 0 /\ i + 1 \in DOMAIN dsQueue /\ i + 1 # 1
    BY <1>3
  <2>2. dsQueue[i + 1].id # h
    BY <1>1, <1>3, <2>1 DEF QueueInv
  <2> QED BY <1>3, <2>1, <2>2, QueueType
<1> HIDE DEF h
<1>5. \A i, j \in DOMAIN dsQueue' : dsQueue'[i].id = dsQueue'[j].id => i = j
  <2> SUFFICES ASSUME NEW i \in DOMAIN dsQueue', NEW j \in DOMAIN dsQueue',
                      dsQueue'[i].id = dsQueue'[j].id
               PROVE  i = j
    OBVIOUS
  <2>1. dsQueue[i + 1].id = dsQueue[j + 1].id
    BY <1>4
  <2>2. i + 1 = j + 1
    BY <1>4, <2>1 DEF QueueInv
  <2> QED BY <1>4, <2>2
<1>6. \A i \in DOMAIN dsQueue' : ~dsQueue'[i].conf => dsQueue'[i].left = 1
  BY <1>4 DEF QueueInv
<1>7. \A m \in Messages : fate'[m] = "none" => sends'[m] = 0
  BY <1>2 DEF QueueInv
<1>8. QueueAccounts'
  <2>1. ASSUME NEW i \in DOMAIN dsQueue'
        PROVE  LET e == dsQueue'[i]
               IN  /\ fate'[e.id] = "queued"
                   /\ sends'[e.id] = (IF e.conf THEN DsTransmissions ELSE 1) - e.left
                   /\ i > 1 => sends'[e.id] = 0
    <3>1. LET e == dsQueue[i + 1]
          IN  /\ fate[e.id] = "queued" /\ sends[e.id] = 0
              /\ sends[e.id] = (IF e.conf THEN DsTransmissions ELSE 1) - e.left
      BY <1>4 DEF QueueInv, QueueAccounts
    <3> QED BY <1>2, <1>4, <3>1
  <2>2. ASSUME NEW m \in Messages
        PROVE  /\ fate'[m] = "dropped" => sends'[m] = DsTransmissions
               /\ fate'[m] = "sent" => sends'[m] = 1
    BY <1>2 DEF QueueInv, QueueAccounts
  <2> QED BY <2>1, <2>2 DEF QueueAccounts
<1> QED BY <1>5, <1>6, <1>7, <1>8 DEF QueueInv

\* The head is sent and stays in the queue.
LEMMA HeadStays ==
  ASSUME TypeOK, QueueInv, dsQueue # <<>>,
         Head(dsQueue).conf, Head(dsQueue).left > 1,
         dsQueue' = [dsQueue EXCEPT ![1] = Spent(Head(dsQueue))], fate' = fate,
         sends' = [sends EXCEPT ![Head(dsQueue).id] = @ + 1]
  PROVE  QueueInv'
<1> DEFINE h == Head(dsQueue).id
           s == Spent(Head(dsQueue))
<1>1. /\ fate \in [Messages -> Fates] /\ sends \in [Messages -> Nat]
      /\ h \in Messages /\ h = dsQueue[1].id /\ 1 \in DOMAIN dsQueue
  BY QueueType, HeadType, TailFacts
<1>2. /\ s \in Elements /\ s.id = h /\ s.conf /\ dsQueue[1].conf
      /\ s.left = dsQueue[1].left - 1
  BY HeadType, SpentType
<1>3. /\ sends'[h] = sends[h] + 1
      /\ \A m \in Messages : m # h => sends'[m] = sends[m]
  BY <1>1
<1> HIDE DEF s, h
<1>4. /\ DOMAIN dsQueue' = DOMAIN dsQueue /\ dsQueue'[1] = s
      /\ \A i \in DOMAIN dsQueue : i # 1 => dsQueue'[i] = dsQueue[i]
  BY <1>2, QueueType, HeadFacts DEF s
<1>5. /\ \A i \in DOMAIN dsQueue : dsQueue'[i].id = dsQueue[i].id
      /\ \A i \in DOMAIN dsQueue : dsQueue[i].id = h => i = 1
  BY <1>1, <1>2, <1>4 DEF QueueInv
<1>6. \A i, j \in DOMAIN dsQueue' : dsQueue'[i].id = dsQueue'[j].id => i = j
  BY <1>4, <1>5 DEF QueueInv
<1>7. \A i \in DOMAIN dsQueue' : ~dsQueue'[i].conf => dsQueue'[i].left = 1
  BY <1>2, <1>4 DEF QueueInv
<1>8. fate[h] = "queued" /\ sends[h] = DsTransmissions - dsQueue[1].left
  BY <1>1, <1>2 DEF QueueInv, QueueAccounts
<1>9. \A m \in Messages : fate'[m] = "none" => sends'[m] = 0
  BY <1>1, <1>3, <1>8 DEF QueueInv
<1>10. QueueAccounts'
  <2>1. ASSUME NEW i \in DOMAIN dsQueue'
        PROVE  LET e == dsQueue'[i]
               IN  /\ fate'[e.id] = "queued"
                   /\ sends'[e.id] = (IF e.conf THEN DsTransmissions ELSE 1) - e.left
                   /\ i > 1 => sends'[e.id] = 0
    <3>1. CASE i = 1
      <4>1. dsQueue[1].left \in Nat
        BY <1>1, QueueType
      <4>2. sends'[h] = DsTransmissions - s.left
        BY <1>2, <1>3, <1>8, <4>1, Bounds
      <4> QED BY <1>2, <1>4, <1>8, <3>1, <4>2
    <3>2. CASE i # 1
      <4>1. /\ dsQueue'[i] = dsQueue[i] /\ dsQueue[i].id # h
            /\ dsQueue[i].id \in Messages
        BY <1>4, <1>5, <3>2, QueueType
      <4> QED BY <1>3, <1>4, <4>1 DEF QueueInv, QueueAccounts
    <3> QED BY <3>1, <3>2
  <2>2. ASSUME NEW m \in Messages
        PROVE  /\ fate'[m] = "dropped" => sends'[m] = DsTransmissions
               /\ fate'[m] = "sent" => sends'[m] = 1
    BY <1>3, <1>8 DEF QueueInv, QueueAccounts
  <2> QED BY <2>1, <2>2 DEF QueueAccounts
<1> QED BY <1>6, <1>7, <1>9, <1>10 DEF QueueInv

\* A window that opens sends the head of the queue, or leaves the queue alone.
LEMMA SendQueue ==
  ASSUME TypeOK, QueueInv, NEW gw, NEW window, SendDSPacket(gw, window)
  PROVE  QueueInv'
<1>1. CASE SendHead(gw, window)
  <2> DEFINE h == Head(dsQueue)
  <2>1. /\ dsQueue # <<>> /\ SpendTransmission(h)
        /\ sends' = [sends EXCEPT ![h.id] = @ + 1]
    BY <1>1 DEF SendHead
  <2>2. /\ h = dsQueue[1] /\ h.id \in Messages /\ h.conf \in BOOLEAN
        /\ h.left \in Nat /\ h.left >= 1 /\ sends[h.id] \in Nat
        /\ 1 \in DOMAIN dsQueue
    BY <2>1, HeadType, QueueType, TailFacts
  <2>3. /\ sends[h.id] = (IF h.conf THEN DsTransmissions ELSE 1) - h.left
        /\ ~h.conf => h.left = 1
    BY <2>2 DEF QueueInv, QueueAccounts
  <2>4. CASE /\ h.conf /\ h.left > 1
             /\ dsQueue' = [dsQueue EXCEPT ![1] = Spent(h)] /\ fate' = fate
    BY <2>1, <2>4, HeadStays
  <2>5. CASE /\ ~(h.conf /\ h.left > 1) /\ dsQueue' = Tail(dsQueue)
             /\ fate' = [fate EXCEPT ![h.id] = IF h.conf THEN "dropped" ELSE "sent"]
    <3> DEFINE end == IF h.conf THEN "dropped" ELSE "sent"
               n == sends[h.id] + 1
    <3>1. /\ end \in {"sent", "acked", "dropped"} /\ n \in Nat
          /\ end = "dropped" => n = DsTransmissions
          /\ end = "sent" => n = 1
      BY <2>2, <2>3, <2>5, Bounds
    <3>2. /\ fate' = [fate EXCEPT ![h.id] = end]
          /\ sends' = [sends EXCEPT ![h.id] = n]
      BY <2>1, <2>2, <2>5
    <3> HIDE DEF end, n
    <3> QED BY <2>1, <2>5, <3>1, <3>2, HeadGoes
  <2> QED BY <2>1, <2>4, <2>5, SpendCases
<1>2. CASE UNCHANGED <<dsQueue, fate, sends>>
  BY <1>2 DEF QueueInv, QueueAccounts
<1> QED BY <1>1, <1>2 DEF SendDSPacket, SendEmpty, SendNothing, queue

LEMMA AckQueue ==
  ASSUME TypeOK, QueueInv, ProcessAck, UNCHANGED sends
  PROVE  QueueInv'
<1>1. CASE uplink.ack /\ dsQueue # <<>> /\ Head(dsQueue).conf
  <2> DEFINE n == sends[Head(dsQueue).id]
  <2>1. /\ dsQueue' = Tail(dsQueue)
        /\ fate' = [fate EXCEPT ![Head(dsQueue).id] = "acked"]
    BY <1>1 DEF ProcessAck
  <2>2. n \in Nat /\ sends' = [sends EXCEPT ![Head(dsQueue).id] = n]
    BY <1>1, HeadType, QueueType
  <2> HIDE DEF n
  <2> QED BY <1>1, <2>1, <2>2, HeadGoes
<1>2. CASE ~(uplink.ack /\ dsQueue # <<>> /\ Head(dsQueue).conf)
  BY <1>2 DEF ProcessAck, queue, QueueInv, QueueAccounts
<1> QED BY <1>1, <1>2

\* A generated packet goes to the end of the queue, its account empty.
LEMMA GeneratedQueue ==
  ASSUME TypeOK, QueueInv, DSTimerExpired
  PROVE  QueueInv'
<1>1. PICK m \in Messages, conf \in BOOLEAN :
        /\ fate[m] = "none"
        /\ dsQueue' = Append(dsQueue, [id |-> m, conf |-> conf,
                         left |-> IF conf THEN DsTransmissions ELSE 1])
        /\ fate' = [fate EXCEPT ![m] = "queued"]
  BY Bounds DEF DSTimerExpired
<1> DEFINE new == [id |-> m, conf |-> conf,
                   left |-> IF conf THEN DsTransmissions ELSE 1]
           last == Len(dsQueue) + 1
<1>2. /\ new \in Elements /\ new.id = m /\ new.conf = conf
      /\ new.left = IF conf THEN DsTransmissions ELSE 1
  BY Bounds DEF Elements
<1>3. dsQueue' = Append(dsQueue, new)
  BY <1>1
<1> HIDE DEF new
<1>4. /\ DOMAIN dsQueue' = DOMAIN dsQueue \union {last}
      /\ DOMAIN dsQueue = 1 .. Len(dsQueue) /\ Len(dsQueue) \in Nat
      /\ dsQueue'[last] = new
      /\ \A i \in DOMAIN dsQueue : dsQueue'[i] = dsQueue[i]
  BY <1>2, <1>3, QueueType, AppendFacts
<1> HIDE DEF last
<1>5. /\ fate'[m] = "queued" /\ sends' = sends /\ sends[m] = 0
      /\ \A n \in Messages : n # m => fate'[n] = fate[n]
  BY <1>1, QueueType DEF DSTimerExpired, QueueInv
<1>6. \A i \in DOMAIN dsQueue : dsQueue[i].id # m
  BY <1>1 DEF QueueInv, QueueAccounts
<1>7. \A i, j \in DOMAIN dsQueue' : dsQueue'[i].id = dsQueue'[j].id => i = j
  BY <1>2, <1>4, <1>6 DEF QueueInv
<1>8. \A i \in DOMAIN dsQueue' : ~dsQueue'[i].conf => dsQueue'[i].left = 1
  BY <1>2, <1>4 DEF QueueInv
<1>9. \A n \in Messages : fate'[n] = "none" => sends'[n] = 0
  BY <1>5 DEF QueueInv
<1>10. QueueAccounts'
  <2>1. ASSUME NEW i \in DOMAIN dsQueue'
        PROVE  LET e == dsQueue'[i]
               IN  /\ fate'[e.id] = "queued"
                   /\ sends'[e.id] = (IF e.conf THEN DsTransmissions ELSE 1) - e.left
                   /\ i > 1 => sends'[e.id] = 0
    <3>1. CASE i = last
      BY <1>2, <1>4, <1>5, <3>1, Bounds
    <3>2. CASE i \in DOMAIN dsQueue
      <4>1. dsQueue'[i] = dsQueue[i] /\ dsQueue[i].id \in Messages
        BY <1>4, <3>2, QueueType
      <4> QED BY <1>5, <1>6, <3>2, <4>1 DEF QueueInv, QueueAccounts
    <3> QED BY <1>4, <3>1, <3>2
  <2>2. ASSUME NEW n \in Messages
        PROVE  /\ fate'[n] = "dropped" => sends'[n] = DsTransmissions
               /\ fate'[n] = "sent" => sends'[n] = 1
    BY <1>5 DEF QueueInv, QueueAccounts
  <2> QED BY <2>1, <2>2 DEF QueueAccounts
<1> QED BY <1>7, <1>8, <1>9, <1>10 DEF QueueInv

LEMMA QueueStep ==
  ASSUME TypeOK, QueueInv, [Next]_vars
  PROVE  QueueInv'
<1>1. CASE UNCHANGED <<dsQueue, fate, sends>>
  BY <1>1 DEF QueueInv, QueueAccounts
<1>2. ASSUME NEW gw \in Gateways, HandleUSPacket(gw)
      PROVE  QueueInv'
  <2>1. UNCHANGED sends /\ (ProcessAck \/ UNCHANGED queue)
    BY <1>2 DEF HandleUSPacket, DropDuplicate, Accept, AcceptNew,
                AcceptRetransmission
  <2> QED BY <1>1, <2>1, AckQueue DEF queue
<1>3. CASE RW1TimerExpired \/ RW2TimerExpired
  <2>1. \/ \E gw \in lastGWs, window \in {1, 2} : SendDSPacket(gw, window)
        \/ UNCHANGED <<dsQueue, fate, sends>>
    BY <1>3 DEF RW1TimerExpired, RW2TimerExpired, queue
  <2> QED BY <1>1, <2>1, SendQueue
<1>4. CASE DSTimerExpired
  BY <1>4, GeneratedQueue
<1>5. TransmitNew \/ TransmitAgain \/ Deliver \/ Tick \/ UNCHANGED vars
        => UNCHANGED <<dsQueue, fate, sends>>
  BY DEF TransmitNew, TransmitAgain, Ends, Deliver, Tick, vars, queue
<1> QED BY <1>1, <1>2, <1>3, <1>4, <1>5 DEF Next, Server

-----------------------------------------------------------------------------
(* Acknowledged packets.                                                   *)

LEMMA AckType ==
  ASSUME TypeOK, AckInv
  PROVE  /\ IsFiniteSet(Acked) /\ Cardinality(Acked) \in Nat
         /\ received \in Nat /\ acksOwed \in Nat
         /\ Cardinality(Acked) + acksOwed <= received
         /\ uplink.ack /\ IsNew => Cardinality(Acked) + acksOwed + 1 <= received
<1>1. IsFiniteSet(Acked) /\ received \in Nat /\ acksOwed \in Nat
  BY DEF AckInv, TypeOK
<1>2. Cardinality(Acked) \in Nat
  BY <1>1, FS_CardinalityType
<1>3. CASE uplink.ack /\ IsNew
  BY <1>1, <1>2, <1>3 DEF AckInv
<1>4. CASE ~(uplink.ack /\ IsNew)
  BY <1>1, <1>2, <1>4 DEF AckInv
<1> QED BY <1>1, <1>2, <1>3, <1>4

\* The accounts balance again when fewer Acks are outstanding.
LEMMA AckKept ==
  ASSUME TypeOK, AckInv, UNCHANGED fate, UNCHANGED received,
         acksOwed' \in Nat, acksOwed' <= acksOwed,
         (uplink.ack /\ IsNew)' => (uplink.ack /\ IsNew) \/ acksOwed' < acksOwed
  PROVE  AckInv'
<1> USE AckType
<1>1. Acked' = Acked
  BY DEF Acked
<1>2. CASE (uplink.ack /\ IsNew)'
  <2>1. Cardinality(Acked) + acksOwed' + 1 <= received
    BY <1>2
  <2> QED BY <1>1, <1>2, <2>1 DEF AckInv
<1>3. CASE ~(uplink.ack /\ IsNew)'
  <2>1. Cardinality(Acked) + acksOwed' <= received
    OBVIOUS
  <2> QED BY <1>1, <1>3, <2>1 DEF AckInv
<1> QED BY <1>2, <1>3

\* No step but an Ack changes which packets are acknowledged.
LEMMA AckedKept ==
  ASSUME TypeOK, AckInv, NEW m \in Messages, NEW end \in Fates \ {"acked"},
         fate[m] # "acked",
         fate' = fate \/ fate' = [fate EXCEPT ![m] = end],
         UNCHANGED <<received, acksOwed, uplink, fCntUp>>
  PROVE  AckInv'
<1>1. Acked' = Acked
  BY QueueType DEF Acked
<1>2. IsNew' = IsNew
  BY DEF IsNew, FrameCounter
<1> QED BY <1>1, <1>2 DEF AckInv

LEMMA CopyAck ==
  ASSUME TypeOK, QueueInv, AckInv, NEW gw \in Gateways, HandleUSPacket(gw)
  PROVE  AckInv'
<1> USE AckType
<1>1. UNCHANGED <<received, acksOwed, uplink>>
  BY DEF HandleUSPacket, device
<1>2. FrameCounter' = FrameCounter
  BY <1>1 DEF FrameCounter
<1>3. CASE UNCHANGED <<fate, fCntUp>>
  BY <1>1, <1>2, <1>3, AckKept DEF IsNew
<1>4. CASE AcceptNew
  <2>1. IsNew /\ fCntUp' = FrameCounter /\ ProcessAck
    BY <1>4 DEF AcceptNew
  <2>2. ~IsNew'
    BY <1>2, <2>1, UplinkType DEF IsNew
  <2>3. CASE uplink.ack /\ dsQueue # <<>> /\ Head(dsQueue).conf
    <3> DEFINE h == Head(dsQueue).id
    <3>1. /\ fate' = [fate EXCEPT ![h] = "acked"]
          /\ h \in Messages /\ fate \in [Messages -> Fates]
      BY <2>1, <2>3, HeadType, QueueType DEF ProcessAck
    <3>2. fate[h] = "queued"
      BY <2>3, HeadType, TailFacts, QueueType DEF QueueInv, QueueAccounts
    <3> HIDE DEF h
    <3>3. Acked' = Acked \union {h} /\ h \notin Acked
      BY <3>1, <3>2 DEF Acked
    <3>4. /\ IsFiniteSet(Acked')
          /\ Cardinality(Acked') = Cardinality(Acked) + 1
      BY <3>3, FS_AddElement
    <3>5. Cardinality(Acked) + acksOwed + 1 <= received
      BY <2>1, <2>3
    <3> QED BY <1>1, <2>2, <3>4, <3>5 DEF AckInv
  <2>4. CASE ~(uplink.ack /\ dsQueue # <<>> /\ Head(dsQueue).conf)
    <3>1. fate' = fate
      BY <2>1, <2>4 DEF ProcessAck, queue
    <3> QED BY <1>1, <2>2, <3>1, AckKept
  <2> QED BY <2>3, <2>4
<1> QED BY <1>3, <1>4 DEF HandleUSPacket, DropDuplicate, Accept,
                          AcceptRetransmission, queue

LEMMA WindowAck ==
  ASSUME TypeOK, QueueInv, AckInv, RW1TimerExpired \/ RW2TimerExpired
  PROVE  AckInv'
<1>1. UNCHANGED <<received, acksOwed, uplink, fCntUp>>
  BY DEF RW1TimerExpired, RW2TimerExpired, entry, device
<1>2. \/ \E gw \in lastGWs, window \in {1, 2} : SendDSPacket(gw, window)
      \/ fate' = fate
  BY DEF RW1TimerExpired, RW2TimerExpired, queue
<1>3. CASE fate' = fate
  BY <1>1, <1>3, AckKept, AckType DEF IsNew, FrameCounter
<1>4. ASSUME NEW gw, NEW window, SendHead(gw, window)
      PROVE  AckInv'
  <2> DEFINE h == Head(dsQueue).id
             end == IF Head(dsQueue).conf THEN "dropped" ELSE "sent"
  <2>1. dsQueue # <<>> /\ SpendTransmission(Head(dsQueue))
    BY <1>4 DEF SendHead
  <2>2. h \in Messages /\ fate[h] = "queued" /\ end \in Fates \ {"acked"}
    BY <2>1, HeadType, TailFacts, QueueType DEF QueueInv, QueueAccounts, Fates
  <2>3. fate' = fate \/ fate' = [fate EXCEPT ![h] = end]
    BY <2>1, SpendCases
  <2> HIDE DEF h, end
  <2>4. fate[h] # "acked"
    BY <2>2
  <2> QED BY <1>1, <2>2, <2>3, <2>4, AckedKept
<1> QED BY <1>2, <1>3, <1>4 DEF SendDSPacket, SendEmpty, SendNothing, queue

LEMMA AckStep ==
  ASSUME TypeOK, QueueInv, AckInv, [Next]_vars
  PROVE  AckInv'
<1> USE AckType
<1>1. CASE \E gw \in Gateways : HandleUSPacket(gw)
  BY <1>1, CopyAck
<1>2. CASE RW1TimerExpired \/ RW2TimerExpired
  BY <1>2, WindowAck
<1>3. CASE DSTimerExpired
  <2>1. UNCHANGED <<received, acksOwed, uplink, fCntUp>>
    BY <1>3 DEF DSTimerExpired, entry, device
  <2>2. PICK m \in Messages :
          fate[m] = "none" /\ fate' = [fate EXCEPT ![m] = "queued"]
    BY <1>3 DEF DSTimerExpired
  <2> QED BY <2>1, <2>2, AckedKept DEF Fates
<1>4. CASE TransmitNew
  <2>1. PICK frame : /\ Ends(frame)
                     /\ IF frame.ack THEN acksOwed > 0 /\ acksOwed' = acksOwed - 1
                                     ELSE acksOwed' = acksOwed - 0
    BY <1>4, NewFrame
  <2>2. /\ fate' = fate /\ received' = received /\ uplink'.ack = frame.ack
        /\ acksOwed' \in Nat /\ acksOwed' <= acksOwed
        /\ uplink'.ack => acksOwed' < acksOwed
    BY <2>1 DEF Ends, queue
  <2> QED BY <2>2, AckKept
<1>5. CASE TransmitAgain
  <2>1. PICK frame : /\ Ends(frame) /\ frame.pkt = uplink.pkt
                     /\ frame.ack = uplink.ack /\ acksOwed' = acksOwed
    BY <1>5, OldFrame
  <2>2. /\ fate' = fate /\ received' = received /\ fCntUp' = fCntUp
        /\ uplink'.pkt = uplink.pkt /\ uplink'.ack = uplink.ack
    BY <2>1 DEF Ends, queue, entry
  <2>3. (uplink.ack /\ IsNew)' => uplink.ack /\ IsNew
    BY <2>2 DEF IsNew, FrameCounter
  <2> QED BY <2>1, <2>2, <2>3, AckKept
<1>6. CASE Deliver
  <2>1. UNCHANGED <<fate, uplink, fCntUp>>
    BY <1>6 DEF Deliver, queue, entry
  <2>2. Acked' = Acked /\ uplink'.ack = uplink.ack /\ IsNew' = IsNew
    BY <2>1 DEF Acked, IsNew, FrameCounter
  <2>3. \/ received' = received + 1 /\ acksOwed' = acksOwed + 1
        \/ received' = received /\ acksOwed' = acksOwed
    <3>1. \/ received' = received + 1 /\ acksOwed' = acksOwed + 1
          \/ received' = received + 0 /\ acksOwed' = acksOwed + 0
          \/ UNCHANGED <<got, received, acksOwed>>
      BY <1>6, Zenon DEF Deliver
    <3> QED BY <3>1
  <2>4. CASE uplink.ack /\ IsNew
    <3>1. Cardinality(Acked) + acksOwed' + 1 <= received'
      BY <2>3, <2>4
    <3> QED BY <2>2, <2>4, <3>1 DEF AckInv
  <2>5. CASE ~(uplink.ack /\ IsNew)
    <3>1. Cardinality(Acked) + acksOwed' + 0 <= received'
      BY <2>3
    <3>2. ~(uplink.ack /\ IsNew)'
      BY <2>2, <2>5
    <3> QED BY <2>2, <3>1, <3>2 DEF AckInv
  <2> QED BY <2>4, <2>5
<1>7. CASE Tick \/ UNCHANGED vars
  <2>1. UNCHANGED <<fate, received, acksOwed, uplink, fCntUp>>
    BY <1>7 DEF Tick, vars, queue, entry, device
  <2> QED BY <2>1, AckKept DEF IsNew, FrameCounter
<1> QED BY <1>1, <1>2, <1>3, <1>4, <1>5, <1>6, <1>7 DEF Next, Server

-----------------------------------------------------------------------------
(* The theorems.                                                           *)

\* IInv is inductive.
LEMMA IInvStep == IInv /\ [Next]_vars => IInv'
<1> SUFFICES ASSUME IInv, [Next]_vars PROVE IInv'
  OBVIOUS
<1>1. TypeOK /\ CopiesInv /\ ExchangeInv /\ CounterInv /\ QueueInv /\ AckInv
  BY DEF IInv
<1>2. TypeOK'
  BY <1>1, TypeStep
<1>3. CopiesInv' /\ ExchangeInv'
  BY <1>1, ExchangeStep
<1>4. CounterInv'
  BY <1>1, CounterStep
<1>5. QueueInv'
  BY <1>1, QueueStep
<1>6. AckInv'
  BY <1>1, AckStep
<1> QED BY <1>2, <1>3, <1>4, <1>5, <1>6 DEF IInv

\* What the server knows of an uplink, its timers, its queue and its counters
\* fit together in every state: HandleUSPacket, the two timers and SendDSPacket
\* keep it so.
THEOREM Invariance == Spec => []IInv
<1>1. Init => IInv
  BY InitIInv
<1>2. IInv /\ [Next]_vars => IInv'
  BY IInvStep
<1> QED BY <1>1, <1>2, PTL DEF Spec

\* The types of all variables; the transmissions that a queued packet has left
\* never pass zero.
THEOREM TypeCorrect == Spec => []TypeOK
<1>1. IInv => TypeOK
  BY DEF IInv
<1> QED BY <1>1, Invariance, PTL

\* RW1TimerExpired and RW2TimerExpired send in a window of the last uplink,
\* through a gateway that heard it.
THEOREM AnswersInTime == Spec => []AnswersInWindow
<1>1. IInv => AnswersInWindow
  <2> SUFFICES ASSUME IInv, downlink # NoFrame
               PROVE  /\ downlink.gw \in uplink.heard
                      /\ sinceTx - (IF downlink.window = 1 THEN ReceiveDelay1
                                                           ELSE ReceiveDelay2)
                           \in 0 .. Jitter
    BY DEF AnswersInWindow
  <2>1. Heard /\ TypeOK
    BY DEF IInv, ExchangeInv, Unheard, Quiet
  <2>2. /\ downlink.gw \in uplink.heard
        /\ sinceSeen = IF downlink.window = 1 THEN ReceiveDelay1 ELSE ReceiveDelay2
        /\ sinceSeen <= sinceTx /\ sinceTx <= sinceSeen + Jitter
    BY <2>1 DEF Heard
  <2> QED BY <2>1, <2>2, Delays, NumberType
<1> QED BY <1>1, Invariance, PTL

\* SendDSPacket sets the Ack bit of every frame that answers a packet that asks
\* for it, also when only a repetition of that packet was heard.
THEOREM AlwaysAcked == Spec => []ConfirmedIsAcked
<1>1. IInv => ConfirmedIsAcked
  BY DEF IInv, ExchangeInv, Unheard, Quiet, Heard, ConfirmedIsAcked
<1> QED BY <1>1, Invariance, PTL

\* Packets of the device are counted right, whatever copies and repetitions of
\* them come in, for as long as the frame counter does not wrap.
THEOREM CountersRight == MaxPackets < CounterModulus => (Spec => []ClassifiedRight)
<1> SUFFICES ASSUME MaxPackets < CounterModulus PROVE Spec => []ClassifiedRight
  OBVIOUS
<1>1. IInv => ClassifiedRight
  BY DEF IInv, CounterInv
<1> QED BY <1>1, Invariance, PTL

\* The downstream queue keeps account of what was sent of every packet.
THEOREM QueueRight == Spec => []QueueAccounts
<1>1. IInv => QueueAccounts
  BY DEF IInv, QueueInv
<1> QED BY <1>1, Invariance, PTL

\* The Ack bit of an uplink, however often it is repeated, removes one packet
\* from the downstream queue.
THEOREM AcksRight == Spec => []AcksPaidFor
<1>1. IInv => AcksPaidFor
  BY AckType DEF IInv, AcksPaidFor
<1> QED BY <1>1, Invariance, PTL

\* HandleUSPacket starts the RW1 timer and RW1TimerExpired the RW2 timer when
\* neither runs.
THEOREM TimersAreFree == Spec => TimersFree
<1>1. ASSUME IInv, [Next]_vars, sinceSeen' < sinceSeen
      PROVE  rw1Timer = NotRunning /\ rw2Timer = NotRunning
  <2>1. TypeOK /\ CopiesInv /\ ExchangeInv
    BY <1>1 DEF IInv
  <2>2. CASE \E gw \in Gateways : HandleUSPacket(gw)
    <3>1. PICK gw \in Gateways : HandleUSPacket(gw)
      BY <2>2
    <3>2. sinceSeen' # sinceSeen
      BY <1>1, <2>1, NumberType
    <3>3. copies = uplink.heard
      BY <2>1, <3>1, <3>2, CopyDecides DEF DropDuplicate
    <3> QED BY <2>1, <3>3 DEF ExchangeInv, Unheard, Quiet
  <2>3. CASE Tick
    <3>1. sinceSeen' = IF sinceSeen < Horizon THEN sinceSeen + 1 ELSE sinceSeen
      BY <2>3 DEF Tick, Older
    <3> QED BY <1>1, <2>1, <3>1, NumberType, Delays
  <2>4. RW1TimerExpired \/ RW2TimerExpired \/ DSTimerExpired \/ Deliver
          \/ TransmitNew \/ TransmitAgain \/ UNCHANGED vars
          => sinceSeen' = sinceSeen
    BY DEF RW1TimerExpired, RW2TimerExpired, DSTimerExpired, Deliver, TransmitNew,
           TransmitAgain, Ends, vars, entry
  <2> QED BY <1>1, <2>1, <2>2, <2>3, <2>4, NumberType DEF Next, Server
<1>2. ASSUME IInv, [Next]_vars, rw2Timer' > rw2Timer
      PROVE  rw2Timer = NotRunning /\ rw2Timer' > 0
  <2>1. TypeOK /\ CopiesInv /\ ExchangeInv
    BY <1>2 DEF IInv
  <2>2. CASE RW1TimerExpired
    <3>1. rw1Timer = 0
      BY <2>2 DEF RW1TimerExpired
    <3>2. rw2Timer = NotRunning /\ sinceSeen = ReceiveDelay1
      BY <2>1, <3>1, TimerRuns, NumberType, Delays
    <3>3. rw2Timer' = rw2Timer \/ rw2Timer' = ReceiveDelay2 - sinceSeen
      BY <2>2 DEF RW1TimerExpired
    <3> QED BY <1>2, <2>1, <3>2, <3>3, NumberType, Delays
  <2>3. CASE Tick
    <3>1. rw2Timer' <= rw2Timer
      BY <2>1, <2>3, NumberType, Delays DEF Tick, Later
    <3>2. rw2Timer' \in Int
      BY <2>1, <2>3, NumberType, Delays DEF Tick, Later
    <3> QED BY <1>2, <2>1, <3>1, <3>2, NumberType
  <2>4. CASE RW2TimerExpired
    <3>1. rw2Timer = 0 /\ rw2Timer' = NotRunning
      BY <2>4 DEF RW2TimerExpired
    <3> QED BY <1>2, <3>1, Delays
  <2>5. (\E gw \in Gateways : HandleUSPacket(gw)) \/ DSTimerExpired \/ Deliver
          \/ TransmitNew \/ TransmitAgain \/ UNCHANGED vars
          => rw2Timer' = rw2Timer
    BY DEF HandleUSPacket, DropDuplicate, Accept, DSTimerExpired, Deliver,
           TransmitNew, TransmitAgain, Ends, vars, timers
  <2> QED BY <1>2, <2>1, <2>2, <2>3, <2>4, <2>5, NumberType DEF Next, Server
<1>3. IInv /\ [Next]_vars =>
        [/\ sinceSeen' < sinceSeen => rw1Timer = NotRunning /\ rw2Timer = NotRunning
         /\ rw2Timer' > rw2Timer => rw2Timer = NotRunning /\ rw2Timer' > 0]_vars
  BY <1>1, <1>2
<1> QED BY <1>3, Invariance, PTL DEF Spec, TimersFree

\* RW1TimerExpired and RW2TimerExpired together answer an uplink once.
THEOREM AnsweredOnce == Spec => AtMostOneAnswer
<1>1. ASSUME IInv, [Next]_vars, downlink = NoFrame, downlink' # NoFrame
      PROVE  answered = 0
  <2>1. TypeOK /\ ExchangeInv
    BY <1>1 DEF IInv
  <2>2. CASE RW1TimerExpired \/ RW2TimerExpired
    <3>1. rw1Timer = 0 \/ rw2Timer = 0
      BY <2>2 DEF RW1TimerExpired, RW2TimerExpired
    <3> QED BY <2>1, <3>1, TimerRuns, Delays
  <2>3. (\E gw \in Gateways : HandleUSPacket(gw)) \/ DSTimerExpired \/ Tick
          \/ TransmitNew \/ TransmitAgain \/ UNCHANGED vars
          => downlink' = downlink
    BY DEF HandleUSPacket, DSTimerExpired, Tick, TransmitNew, TransmitAgain, Ends,
           vars, reply
  <2>4. Deliver => downlink' = NoFrame
    BY DEF Deliver
  <2> QED BY <1>1, <2>2, <2>3, <2>4 DEF Next, Server
<1>2. IInv /\ [Next]_vars =>
        [downlink = NoFrame /\ downlink' # NoFrame => answered = 0]_vars
  BY <1>1
<1> QED BY <1>2, Invariance, PTL DEF Spec, AtMostOneAnswer

=============================================================================
