-------------------------- MODULE EndDeviceApplication --------------------------
(***************************************************************************)
(* LoRaWANEndDeviceApplication: the periodic sender of a class A device,   *)
(* the device's half of adaptive data rate, and the answers it owes to     *)
(* what it receives.  A packet that the socket accepts joins requests, the *)
(* packets the MAC has still to serve; here the MAC takes them at any      *)
(* time and any downlink arrives at any time.  AdrLoop supplies the link   *)
(* and the network server instead.                                         *)
(***************************************************************************)
EXTENDS Integers, Sequences

CONSTANTS
  Adr,         \* m_adr
  MaxDr,       \* fastest data rate of a LinkADRReq (5)
  MaxTx,       \* lowest transmission power of a LinkADRReq, as an index (7)
  AdrAckLimit, \* ADR_ACK_LIMIT
  AdrAckDelay, \* ADR_ACK_DELAY
  InitialDr,   \* m_dataRateIndex when the application starts
  FitsFrom,    \* least data rate whose MTU takes a packet of m_pktSize
  MaxPackets,  \* m_maxBytes in packets, 0 when there is no limit
  MaxQueue     \* bound: packets waiting for the MAC

NoChange == 15 \* index of a LinkADRReq that leaves a setting alone
Reserved == 8  \* one of the indices that a device rejects

ASSUME DeviceAssumption ==
  /\ Adr \in BOOLEAN
  /\ MaxDr \in 0 .. 5 /\ MaxTx \in 0 .. 7
  /\ InitialDr \in 0 .. MaxDr /\ FitsFrom \in Nat
  /\ AdrAckLimit \in Nat \ {0} /\ AdrAckDelay \in Nat \ {0}
  /\ MaxPackets \in Nat /\ MaxQueue \in Nat \ {0}

VARIABLES
  dataRateIndex, \* m_dataRateIndex
  txPowerIndex,  \* m_txPowerIndex
  adrAckCnt,     \* m_adrAckCnt, not counted past what it is compared with
  adrAckReq,     \* m_adrAckReq
  setAck,        \* m_setAck
  linkAdrAns,    \* m_doSendLinkAdrAns and the status bits to send
  totPackets,    \* m_totBytes in packets, counted when there is a limit
  running,       \* m_txEvent is pending and the socket is open
  requests,      \* packets handed to the MAC, the first being served
  silent,        \* ghost: packets made since the last downlink, up to Horizon
  start          \* ghost: data rate and power when that downlink had been handled

settings == <<dataRateIndex, txPowerIndex>>
counter == <<adrAckCnt, adrAckReq>>
owed == <<setAck, linkAdrAns>>
life == <<totPackets, running>>
ghost == <<silent, start>>
vars == <<settings, counter, owed, life, requests, ghost>>

-----------------------------------------------------------------------------
NoAns == [power |-> FALSE, dataRate |-> FALSE, due |-> FALSE]
Answers == {NoAns} \union [power : BOOLEAN, dataRate : BOOLEAN, due : {TRUE}]
NoCmd == [dr |-> -1, tx |-> -1]
Commands == [dr : (0 .. MaxDr) \union {Reserved, NoChange},
             tx : (0 .. MaxTx) \union {Reserved, NoChange}]
Downlinks == [conf : BOOLEAN, cmd : {NoCmd} \union Commands]
Frames == [dr : 0 .. MaxDr, tx : 0 .. MaxTx, req : BOOLEAN, ack : BOOLEAN,
           ans : Answers]

Init ==
  /\ dataRateIndex = InitialDr /\ txPowerIndex = 0
  /\ adrAckCnt = 0 /\ adrAckReq = FALSE
  /\ setAck = FALSE /\ linkAdrAns = NoAns
  /\ totPackets = 0 /\ running = TRUE
  /\ requests = <<>>
  /\ silent = 0 /\ start = [dr |-> InitialDr, tx |-> 0]

-----------------------------------------------------------------------------
(***************************************************************************)
(* AdaptiveDataRate of the device.                                         *)
(***************************************************************************)
Degradable == txPowerIndex > 0 \/ dataRateIndex > 0
BackoffAt == AdrAckLimit + AdrAckDelay
\* The counter is compared with == only, so one past the last value is enough.
Counted == IF adrAckCnt > BackoffAt THEN adrAckCnt ELSE adrAckCnt + 1

\* The link cannot be made more robust.
NothingToGain ==
  /\ ~Degradable
  /\ adrAckCnt' = Counted /\ adrAckReq' = FALSE
  /\ UNCHANGED settings

CountSilence ==
  /\ Degradable /\ Counted # BackoffAt
  /\ adrAckCnt' = Counted
  /\ adrAckReq' = (adrAckReq \/ Counted = AdrAckLimit)
  /\ UNCHANGED settings

\* First full power, then one data rate down.
MoreRobust ==
  IF txPowerIndex > 0
    THEN txPowerIndex' = 0 /\ UNCHANGED dataRateIndex
    ELSE dataRateIndex' = dataRateIndex - 1 /\ UNCHANGED txPowerIndex

\* Mutant: the counter is not set back.
BackOffOnce ==
  /\ Degradable /\ Counted = BackoffAt
  /\ MoreRobust
  /\ adrAckCnt' = BackoffAt
  /\ UNCHANGED adrAckReq
BackOff ==
  /\ Degradable /\ Counted = BackoffAt
  /\ MoreRobust
  /\ adrAckCnt' = AdrAckLimit
  /\ UNCHANGED adrAckReq

AdaptiveDataRate ==
  IF Adr THEN NothingToGain \/ CountSilence \/ BackOff
         ELSE UNCHANGED <<settings, counter>>

-----------------------------------------------------------------------------
(***************************************************************************)
(* SendPacket.  The Ack bit and the LinkADRAns are taken from the state    *)
(* before, data rate, power and ADRACKReq from the state after, the        *)
(* adaptation.  Only a packet that the socket accepted resets the Ack bit; *)
(* the LinkADRAns is cleared as soon as it is in the header.               *)
(***************************************************************************)
Fits(dr) == dr >= FitsFrom
Frame == [dr |-> dataRateIndex', tx |-> txPowerIndex', req |-> adrAckReq',
          ack |-> setAck, ans |-> linkAdrAns]

Accepted ==
  /\ Fits(dataRateIndex')
  /\ requests' = Append(requests, Frame)
  /\ setAck' = FALSE
  /\ totPackets' = IF MaxPackets = 0 THEN 0 ELSE totPackets + 1
  /\ running' = (MaxPackets = 0 \/ totPackets' < MaxPackets)

\* Mutant: the Ack bit is reset although nothing was sent.
RefusedAckReset ==
  /\ ~Fits(dataRateIndex')
  /\ setAck' = FALSE
  /\ UNCHANGED <<requests, life>>
\* The packet is longer than the MTU of the data rate.
Refused ==
  /\ ~Fits(dataRateIndex')
  /\ UNCHANGED <<requests, setAck, life>>

Horizon == AdrAckLimit + AdrAckDelay * (MaxDr + 1) + 1
Longer == IF silent = Horizon THEN Horizon ELSE silent + 1

SendPacket ==
  /\ running
  /\ Len(requests) < MaxQueue
  /\ AdaptiveDataRate
  /\ linkAdrAns' = NoAns
  /\ Accepted \/ Refused
  /\ silent' = Longer /\ UNCHANGED start

\* The end of the application; SendPacket ends it after its last packet.
StopApplication ==
  /\ running
  /\ running' = FALSE
  /\ UNCHANGED <<settings, counter, owed, totPackets, requests, ghost>>

-----------------------------------------------------------------------------
(***************************************************************************)
(* HandleDSPacket, called for a downlink as long as the socket is open.    *)
(***************************************************************************)
\* A setting is taken over, left alone, or refused.
Apply(cmd) ==
  /\ dataRateIndex' = IF cmd.dr <= MaxDr THEN cmd.dr ELSE dataRateIndex
  /\ txPowerIndex' = IF cmd.tx <= MaxTx THEN cmd.tx ELSE txPowerIndex
  /\ linkAdrAns' = [power |-> cmd.tx # Reserved, dataRate |-> cmd.dr # Reserved,
                    due |-> TRUE]

ResetBackoff ==
  IF Adr THEN adrAckCnt' = 0 /\ adrAckReq' = FALSE ELSE UNCHANGED counter

HandleDSPacket(dl) ==
  /\ running
  /\ ResetBackoff
  /\ IF dl.cmd = NoCmd THEN UNCHANGED <<settings, linkAdrAns>> ELSE Apply(dl.cmd)
  /\ setAck' = (setAck \/ dl.conf)
  /\ silent' = 0 /\ start' = [dr |-> dataRateIndex', tx |-> txPowerIndex']
  /\ UNCHANGED <<life, requests>>

\* The MAC is done with a packet.
Serve ==
  /\ requests # <<>>
  /\ requests' = Tail(requests)
  /\ UNCHANGED <<settings, counter, owed, life, ghost>>

Next ==
  \/ SendPacket \/ StopApplication \/ Serve
  \/ \E dl \in Downlinks : HandleDSPacket(dl)
Spec == Init /\ [][Next]_vars

-----------------------------------------------------------------------------
TypeOK ==
  /\ dataRateIndex \in 0 .. MaxDr /\ txPowerIndex \in 0 .. MaxTx
  /\ adrAckCnt \in 0 .. BackoffAt + 1 /\ adrAckReq \in BOOLEAN
  /\ setAck \in BOOLEAN /\ linkAdrAns \in Answers
  /\ totPackets \in 0 .. MaxPackets /\ running \in BOOLEAN
  /\ requests \in Seq(Frames) /\ Len(requests) <= MaxQueue
  /\ silent \in 0 .. Horizon
  /\ start \in [dr : 0 .. MaxDr, tx : 0 .. MaxTx]

\* How often the settings were made more robust after n packets of silence.
Backoffs(n) ==
  IF n < AdrAckLimit THEN 0 ELSE (n - AdrAckLimit) \div AdrAckDelay
\* The settings which that leaves of the settings s.
Degraded(s, n) ==
  LET steps == IF s.tx > 0 /\ Backoffs(n) > 0 THEN Backoffs(n) - 1 ELSE Backoffs(n)
  IN  [dr |-> IF s.dr > steps THEN s.dr - steps ELSE 0,
       tx |-> IF Backoffs(n) > 0 THEN 0 ELSE s.tx]
Slowest == [dr |-> 0, tx |-> 0]

\* Data rate and power are given up on schedule: after ADR_ACK_LIMIT +
\* ADR_ACK_DELAY packets without a downlink full power is restored, and each
\* ADR_ACK_DELAY packets later the data rate is one lower, until the slowest.
\* The counter is compared with == and must never be past its value.
OnSchedule ==
  Adr => [dr |-> dataRateIndex, tx |-> txPowerIndex] = Degraded(start, silent)

\* An answer is asked for from the ADR_ACK_LIMITth silent packet on, until a
\* downlink arrives or the packet after the one that reached the slowest
\* settings.
AskedInTime ==
  adrAckReq <=> /\ Adr /\ silent >= AdrAckLimit
                /\ Degraded(start, silent - 1) # Slowest

\* The Ack of a confirmed downlink is not lost in a packet that the socket
\* refuses: it is only ever reset by a packet that carries it.
AckCarried ==
  [][setAck /\ ~setAck' =>
       requests' # requests /\ requests'[Len(requests')].ack]_vars

=============================================================================
