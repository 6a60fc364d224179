-------------------------------- MODULE AdrLoop --------------------------------
(***************************************************************************)
(* Adaptive data rate as a closed loop: the application of an end device,  *)
(* the packets its MAC serves one after the other, a link that loses       *)
(* frames in both directions, and the device's entry at the network        *)
(* server.  The device is EndDeviceApplication; here the MAC serves the    *)
(* head of requests in attempts of up to three steps (the transmission,    *)
(* the server's reply in a receive window, its arrival), and packets are   *)
(* made at any time in between.                                            *)
(*                                                                         *)
(* The link has one SNR, that of full power, and the radio receives no     *)
(* frame below what its data rate requires.  EndDeviceMac and              *)
(* NetworkServer have the timing of an attempt, which is left out here.    *)
(***************************************************************************)
EXTENDS AdrSettings, Sequences

CONSTANTS
  Adr, AdrAckLimit, AdrAckDelay, InitialDr, FitsFrom, MaxPackets, MaxQueue,
  Confirmed,    \* m_confirmedData of the device
  ConfirmedDown,\* the values m_confirmedData of the server takes; {}: no data
  AdrFrequency, \* ADR_FREQUENCY
  HistorySize,  \* length limit of m_frameSNRHistory (20)
  Gains         \* SNR at full power of the links considered

ASSUME LoopAssumption ==
  /\ Confirmed \in BOOLEAN /\ ConfirmedDown \subseteq BOOLEAN
  /\ AdrFrequency \in Nat \ {0} /\ HistorySize \in Nat \ {0}
  /\ Gains \subseteq Int

VARIABLES
  dataRateIndex, txPowerIndex, adrAckCnt, adrAckReq, setAck, linkAdrAns,
  totPackets, running, requests, silent, start, \* as in EndDeviceApplication
  known,    \* the server has heard the packet at the head of requests
  phase,    \* of its attempt: "idle", "heard", "replied" or "received"
  downlink, \* the frame sent in the receive window
  lastDr,   \* m_lastDataRateIndex
  lastTx,   \* m_lastTxPowerIndex
  unique,   \* m_nUniqueUSPackets modulo ADR_FREQUENCY
  setAdr,   \* m_setAdr
  owesAck,  \* m_setAck of the server's entry
  history,  \* m_frameSNRHistory, newest first
  gain      \* SNR of the link at full power

D == INSTANCE EndDeviceApplication
\* The constants of the device are as its own module assumes.
ASSUME DeviceOfLoop == D!DeviceAssumption

attempt == <<known, phase, downlink>>
entry == <<lastDr, lastTx, unique, setAdr, owesAck, history>>
device == <<dataRateIndex, txPowerIndex, adrAckCnt, adrAckReq, setAck,
            linkAdrAns, totPackets, running, requests, silent, start>>
vars == <<device, attempt, entry, gain>>

-----------------------------------------------------------------------------
NoDownlink == [conf |-> FALSE, cmd |-> D!NoCmd, sent |-> FALSE]
Snr(tx) == gain - PowerStep * tx
Receivable(dr, tx) == Snr(tx) >= Required[dr]

Init ==
  /\ D!Init
  /\ known = FALSE /\ phase = "idle" /\ downlink = NoDownlink
  /\ lastDr = 0 /\ lastTx = 0 /\ unique = 0
  /\ setAdr = FALSE /\ owesAck = FALSE /\ history = <<>>
  /\ gain \in Gains

-----------------------------------------------------------------------------
(***************************************************************************)
(* The device makes packets and may stop at any time.                      *)
(***************************************************************************)
SendPacket == D!SendPacket /\ UNCHANGED <<attempt, entry, gain>>
StopApplication == D!StopApplication /\ UNCHANGED <<attempt, entry, gain>>

(***************************************************************************)
(* An attempt of the MAC ends without a downlink: no gateway heard it, or  *)
(* nothing was due, or no gateway could send in the receive windows, or    *)
(* the downlink was lost.  The MAC goes on with the next packet, or with   *)
(* the same one when an Acknowledgment is missing.                         *)
(***************************************************************************)
\* Mutant: the MAC forgets the packets that wait.
NextPacketOnly ==
  /\ requests # <<>>
  /\ requests' = <<>>
  /\ phase' = "idle" /\ downlink' = NoDownlink /\ known' = FALSE
  /\ UNCHANGED <<dataRateIndex, txPowerIndex, adrAckCnt, adrAckReq, setAck,
                 linkAdrAns, totPackets, running, silent, start, entry, gain>>
NextPacket ==
  /\ D!Serve
  /\ phase' = "idle" /\ downlink' = NoDownlink /\ known' = FALSE
  /\ UNCHANGED <<entry, gain>>
Again ==
  /\ Confirmed
  /\ requests # <<>> /\ phase # "received"
  /\ phase' = "idle" /\ downlink' = NoDownlink
  /\ UNCHANGED <<device, known, entry, gain>>

-----------------------------------------------------------------------------
(***************************************************************************)
(* HandleUSPacket: the server hears the frame at the head of requests.     *)
(***************************************************************************)
Newest(snr) == SubSeq(<<snr>> \o history, 1,
                      Least(HistorySize, Len(history) + 1))

HearNew ==
  /\ ~known
  /\ unique' = (unique + 1) % AdrFrequency
  /\ setAdr' = (setAdr \/ unique' = 0)
  /\ history' = Newest(Snr(Head(requests).tx))
HearAgain ==
  /\ known
  /\ UNCHANGED <<unique, setAdr, history>>

Hear ==
  /\ phase = "idle" /\ requests # <<>>
  /\ Receivable(Head(requests).dr, Head(requests).tx)
  /\ HearNew \/ HearAgain
  /\ lastDr' = Head(requests).dr
  /\ owesAck' = (owesAck \/ Confirmed \/ Head(requests).req)
  /\ phase' = "heard" /\ known' = TRUE
  /\ UNCHANGED <<device, downlink, lastTx, gain>>

-----------------------------------------------------------------------------
(***************************************************************************)
(* SendDSPacket in a receive window: data, or an empty frame for an Ack or *)
(* a command, or nothing.  A window is missed when no gateway can send.    *)
(***************************************************************************)
BestSnr == CHOOSE s \in {history[i] : i \in DOMAIN history} :
             \A i \in DOMAIN history : history[i] <= s
Result == Adapted(BestSnr, lastDr, lastTx)

\* Mutant: data rate and power change places.
CmdSwapped ==
  IF setAdr /\ Result.dr # lastDr THEN [dr |-> Result.tx, tx |-> Result.dr]
                                  ELSE D!NoCmd
\* AdaptiveDataRate has stored the new power in the entry when its result is
\* compared with the entry: a command is sent when the data rate changes.
Cmd == IF setAdr /\ Result.dr # lastDr THEN Result ELSE D!NoCmd

Emit(conf) ==
  /\ phase = "heard"
  /\ downlink' = [conf |-> conf, cmd |-> Cmd, sent |-> TRUE]
  /\ lastTx' = IF setAdr THEN Result.tx ELSE lastTx
  /\ setAdr' = FALSE /\ owesAck' = FALSE
  /\ phase' = "replied"
  /\ UNCHANGED <<device, known, lastDr, unique, history, gain>>

SendData == \E conf \in ConfirmedDown : Emit(conf)
SendEmpty == (setAdr \/ owesAck) /\ Emit(FALSE)

\* The downlink reaches the device, whose application has stopped listening
\* when it is not running.
Receive ==
  /\ phase = "replied"
  /\ phase' = "received"
  /\ IF running
       THEN D!HandleDSPacket([conf |-> downlink.conf, cmd |-> downlink.cmd])
       ELSE UNCHANGED device
  /\ UNCHANGED <<known, downlink, entry, gain>>

Next ==
  \/ SendPacket \/ StopApplication
  \/ NextPacket \/ Again
  \/ Hear
  \/ SendData \/ SendEmpty
  \/ Receive
Spec == Init /\ [][Next]_vars
\* The next packet is always scheduled, and the MAC gets done with every
\* packet: it repeats one only so often.
Fairness == WF_vars(SendPacket) /\ WF_vars(NextPacket)
FairSpec == Spec /\ Fairness

-----------------------------------------------------------------------------
TypeOK ==
  /\ D!TypeOK
  /\ known \in BOOLEAN /\ phase \in {"idle", "heard", "replied", "received"}
  /\ downlink \in [conf : BOOLEAN, cmd : {D!NoCmd} \union D!Commands, sent : BOOLEAN]
  /\ lastDr \in 0 .. MaxDr /\ lastTx \in 0 .. MaxTx
  /\ unique \in 0 .. AdrFrequency - 1
  /\ setAdr \in BOOLEAN /\ owesAck \in BOOLEAN
  /\ history \in Seq(Int) /\ Len(history) <= HistorySize
  /\ gain \in Gains

\* The device of the loop is an EndDeviceApplication: what holds of it under
\* every downlink holds here.
ImplementsDevice == D!Spec

\* No command takes a device to a data rate that does not take its packets:
\* the server starts from the data rate of a frame that was sent.
CommandsFit == downlink.cmd # D!NoCmd => D!Fits(downlink.cmd.dr)

\* Both at once.
LoopInv == TypeOK /\ CommandsFit

\* A command leaves the link its margin as long as the server's idea of the
\* power is not below the power of the frames it heard.
SyncedCommandKeepsMargin ==
  [][downlink'.cmd # downlink.cmd /\ downlink'.cmd # D!NoCmd
     /\ (\A i \in DOMAIN history : history[i] <= Snr(lastTx)) =>
       Snr(downlink'.cmd.tx) - Required[downlink'.cmd.dr] >= MarginDb]_vars

\* A device that has become too fast or too quiet for the link gets through
\* again, at a data rate that takes its packets, or stops.  The slowest data
\* rate that takes them must be slow enough for the link.
LinkRecovers ==
  ~Receivable(dataRateIndex, txPowerIndex) ~>
    \/ ~running
    \/ Receivable(dataRateIndex, txPowerIndex) /\ D!Fits(dataRateIndex)

-----------------------------------------------------------------------------
(***************************************************************************)
(* What the code does not keep to.                                         *)
(***************************************************************************)
\* The power that the server keeps for a device is the one it told the device:
\* when AdaptiveDataRate changes it, the change is in the frame.
PowerChangeIsSent ==
  [][lastTx' # lastTx => downlink'.cmd # D!NoCmd /\ downlink'.cmd.tx = lastTx']_vars

=============================================================================
