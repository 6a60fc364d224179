----------------------- MODULE ClassAExchangeInvariant -----------------------
(***************************************************************************)
(* The inductive invariant of ClassAExchange: at most one stage of an      *)
(* exchange is under way at any time (the uplink on its way, one of the    *)
(* two server timers, the reply on its way), its timer agrees with the     *)
(* time since the uplink ended, and until the device knows otherwise it    *)
(* keeps to the window that is to come.                                    *)
(***************************************************************************)
EXTENDS ClassAExchange, EndDeviceMacInvariant

\* The device has done with the windows of its last uplink.
WindowsOver ==
  \/ macState = "IDLE"
  \/ macState = "TX" /\ setMacState = <<>>

\* The preamble check of the first window is over.
RW1Over ==
  \/ macState = "RW1" /\ preambleCheck = NotRunning
  \/ macState \in {"WAITFORRW2", "RW2", "ACK_TIMEOUT"}
  \/ WindowsOver

\* The preamble check of RW1 tells the time like the clock of the uplink does.
PhaseInv ==
  /\ macState = "RW1" /\ preambleCheck # NotRunning
       => sinceUplink + preambleCheck = ReceiveDelay1 + PreambleTime
  /\ RW1Over => sinceUplink >= ReceiveDelay1 + PreambleTime

\* A confirmed packet that is queued or in flight has had no outcome yet.
ConfirmedWait ==
  \A i \in 1 .. Len(txQueue) :
    txQueue[i].conf => outcome[txQueue[i].id] = "waiting"

-----------------------------------------------------------------------------
Busy == \/ uplink.left # NotRunning \/ rw1Timer # NotRunning
        \/ rw2Timer # NotRunning \/ reply.left # NotRunning

Replying(window) == reply.left # NotRunning /\ reply.window = window

OneStage ==
  /\ uplink.left = NotRunning => uplink = NoUplink
  /\ reply.left = NotRunning => reply = NoReply
  /\ uplink.left # NotRunning => rw1Timer = NotRunning
  /\ uplink.left # NotRunning \/ rw1Timer # NotRunning => rw2Timer = NotRunning
  /\ uplink.left # NotRunning \/ rw1Timer # NotRunning \/ rw2Timer # NotRunning
       => reply.left = NotRunning

\* The stages take their place on the clock that the end of the uplink started;
\* past RECEIVE_DELAY2, where that clock is not counted, they are almost over.
ServerTimes ==
  /\ uplink.left # NotRunning => sinceUplink + uplink.left = Delay
  /\ rw1Timer # NotRunning => sinceUplink + rw1Timer = ReceiveDelay1 + Delay
  /\ rw2Timer # NotRunning =>
       \/ sinceUplink + rw2Timer = ReceiveDelay2 + Delay
       \/ sinceUplink > ReceiveDelay2 /\ rw2Timer < Delay
  /\ Replying("RW1") => sinceUplink + reply.left = ReceiveDelay1 + 2 * Delay
  /\ Replying("RW2") =>
       \/ sinceUplink + reply.left = ReceiveDelay2 + 2 * Delay
       \/ sinceUplink > ReceiveDelay2 /\ reply.left < 2 * Delay

\* A device that has left its windows did so too late to end another uplink
\* before the last stage is over, and one that was answered has none to come.
DoneBeforeUplink ==
  /\ WindowsOver /\ Busy => sinceUplink > ReceiveDelay2
  /\ macState = "RW1" /\ Pending("IDLE", 0) => ~Busy
  /\ rx.left # NotRunning /\ rx.frame # "other" => ~Busy
  /\ endTx # NotRunning /\ rw2Timer # NotRunning => rw2Timer + Delay < endTx
  /\ endTx # NotRunning /\ reply.left # NotRunning => reply.left < endTx

\* A device on its way to the next window, or listening in it.
OnTrack ==
  /\ rx = NoRx
  /\ macState \in {"TX", "WAITFORRW1", "RW1", "WAITFORRW2", "RW2"}
  /\ macState = "TX" => setMacState # <<>>
  /\ macState = "RW1" => /\ sinceUplink <= ReceiveDelay1 + PreambleTime
                         /\ ~Pending("IDLE", 0)
  /\ macState = "RW2" => setMacState = <<>> /\ preambleCheck # NotRunning

\* Nothing but another frame takes the device off its way; in RW2 its preamble
\* check tells how far the server has come.
OnTime ==
  ~disturbed /\ Busy =>
    /\ OnTrack
    /\ macState = "RW2" =>
         /\ rw2Timer # NotRunning
              => rw2Timer + PreambleTime = Delay + preambleCheck
         /\ reply.left # NotRunning
              => reply.left + PreambleTime = 2 * Delay + preambleCheck

\* As long as the device waits for its Ack, every stage carries it.
AckDue ==
  AwaitsAck /\ ~WindowsOver =>
    /\ uplink.left # NotRunning => uplink.conf /\ uplink.id = txPkt
    /\ rw1Timer # NotRunning \/ rw2Timer # NotRunning
         => setAck /\ txPkt \in heard
    /\ reply.left # NotRunning => reply.frame = "ack" /\ txPkt \in heard
    /\ rx.left # NotRunning /\ rx.frame = "ack" => txPkt \in heard

\* On an ideal link the first transmission is answered.
FirstAttempt ==
  ~lossy =>
    /\ ~disturbed
    /\ AwaitsAck =>
         /\ retransmission = 0
         /\ macState = "IDLE" => setMacState # <<>>
         /\ \/ WindowsOver
            \/ Busy
            \/ rx.left # NotRunning /\ rx.frame = "ack"

LinkInv ==
  /\ OneStage
  /\ ServerTimes
  /\ DoneBeforeUplink
  /\ OnTime
  /\ AckDue
  /\ FirstAttempt

\* The frame on its way to the server is that of a packet.
UplinkNamed == uplink.left # NotRunning => uplink.id \in Pkts

\* On an ideal link no confirmed packet is given up.
NothingFails == ~lossy => \A p \in Pkts : outcome[p] # "noack"
=============================================================================
