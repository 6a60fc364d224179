----------------------- MODULE EndDeviceMacInvariant -----------------------
(***************************************************************************)
(* The inductive invariant of EndDeviceMac: for each MAC state, what the   *)
(* radio does, which event leads out of the state, and how the frame in    *)
(* flight stands.  It holds as long as a confirmed uplink is answered with *)
(* an Ack and no frame begins in the instant in which a window closes.     *)
(***************************************************************************)
EXTENDS EndDeviceMac

RadioIdle == endTx = NotRunning /\ rx = NoRx

Pending(to, delay) == setMacState = <<Event(to, delay)>>

\* MAC_IDLE: the radio sleeps, and the head of the queue is about to be sent or
\* waits for its sub band.
IdleInv == macState = "IDLE" =>
  /\ trxState = "TRX_OFF"
  /\ RadioIdle
  /\ ackTimeOut = NotRunning
  /\ \/ /\ setMacState = <<>>
        /\ txQueue # <<>> => subBandTimers[Head(txQueue).sb] # NotRunning
     \/ /\ Pending("TX", 0)
        /\ txPkt # NoPkt
        /\ offTime[Head(txQueue).sb] = 0
  /\ txPkt # NoPkt => Head(txQueue).left > 0

\* MAC_TX: the frame in flight is in the air, or its transmission just ended.
TxInv == macState = "TX" =>
  /\ trxState = "BUSY_TX"
  /\ rx = NoRx
  /\ ackTimeOut = NotRunning
  /\ \/ /\ setMacState = <<>>
        /\ endTx # NotRunning
        /\ txPkt # NoPkt
        /\ Head(txQueue).left > 0
     \/ /\ Pending("WAITFORRW1", 0)
        /\ endTx = NotRunning
        /\ sinceUplink = 0

\* MAC_WAITFORRW1 and MAC_WAITFORRW2: the window is scheduled for its time.  A
\* preamble check left over from a missed RW2 ends before RW1 begins.
WaitInv ==
  /\ macState \in {"WAITFORRW1", "WAITFORRW2"} =>
       /\ trxState = "IDLE"
       /\ RadioIdle
       /\ ackTimeOut = NotRunning
  /\ macState = "WAITFORRW1" =>
       /\ sinceUplink <= ReceiveDelay1
       /\ Pending("RW1", ReceiveDelay1 - sinceUplink)
       /\ preambleCheck # NotRunning =>
            preambleCheck + sinceUplink <= PreambleTime
  /\ macState = "WAITFORRW2" =>
       /\ sinceUplink <= ReceiveDelay2
       /\ Pending("RW2", ReceiveDelay2 - sinceUplink)
       /\ preambleCheck = NotRunning

\* An open window: a reception is under way that outlasts the preamble check,
\* or the check is to come, or the window is about to close.
WindowInv == macState \in {"RW1", "RW2"} =>
  /\ endTx = NotRunning
  /\ \/ /\ trxState = "BUSY_RX"
        /\ rx.left > preambleCheck
        /\ setMacState = <<>>
     \/ /\ trxState = "RX_ON"
        /\ rx = NoRx
        /\ preambleCheck # NotRunning
        /\ setMacState = <<>>
     \/ /\ trxState = "RX_ON"
        /\ rx = NoRx
        /\ macState = "RW1" => preambleCheck = NotRunning
        /\ preambleCheck # 0
        /\ \/ Pending("IDLE", 0) /\ ackTimeOut = NotRunning
           \/ macState = "RW1" /\ Pending("WAITFORRW2", 0)
           \/ macState = "RW2" /\ Pending("ACK_TIMEOUT", 0) /\ ackTimeOut > 0

\* The Ack timer runs for a confirmed frame, from the start of RW2, and not out
\* before the preamble check of that window.
AckInv ==
  /\ ackTimeOut # NotRunning =>
       AwaitsAck /\ macState \in {"RW2", "ACK_TIMEOUT"}
  /\ macState = "RW2" /\ preambleCheck # NotRunning /\ ackTimeOut # NotRunning
       => preambleCheck < ackTimeOut
  /\ macState = "ACK_TIMEOUT" =>
       /\ trxState = "TRX_OFF"
       /\ RadioIdle
       /\ \/ setMacState = <<>> /\ ackTimeOut # NotRunning
          \/ Pending("IDLE", 0) /\ ackTimeOut = NotRunning
  /\ rx.left # NotRunning /\ rx.frame = "data" => ~AwaitsAck

\* A sub band timer runs in MAC_IDLE, for the sub band of the head of the queue,
\* and expires when that becomes available.
SubBandInv ==
  \A sb \in SubBands : subBandTimers[sb] # NotRunning =>
    /\ macState = "IDLE"
    /\ txQueue # <<>>
    /\ sb = Head(txQueue).sb
    /\ subBandTimers[sb] = offTime[sb]

\* Only the head of the queue is in flight and has used attempts.
QueueInv ==
  /\ txPkt # NoPkt =>
       /\ txQueue # <<>>
       /\ Head(txQueue).id = txPkt
       /\ Head(txQueue).left <= Head(txQueue).req
       /\ Head(txQueue).conf \/ Head(txQueue).left > 0
  /\ \A i \in 1 .. Len(txQueue) :
       i > 1 \/ txPkt = NoPkt => txQueue[i].left = txQueue[i].req
  /\ AttemptsCounted

IInv ==
  /\ TypeOK
  /\ preambleCheck <= PreambleTime
  /\ IdleInv
  /\ TxInv
  /\ WaitInv
  /\ WindowInv
  /\ AckInv
  /\ SubBandInv
  /\ QueueInv
=============================================================================
