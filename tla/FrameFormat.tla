----------------------------- MODULE FrameFormat -----------------------------
(***************************************************************************)
(* The headers of a frame on their way from one application to the other.  *)
(* PHYPayload is MHDR | FHDR | FPort | FOpts | FRMPayload | MIC.  The      *)
(* applications write and read FHDR with LoRaWANFrameHeaderUplink and      *)
(* LoRaWANFrameHeaderDownlink, the MAC adds MHDR and MIC and looks at the  *)
(* first bytes of FHDR with a third class, LoRaWANFrameHeader.  No length  *)
(* is stored for FHDR but that of its options, so the payload is found     *)
(* only if sender and receiver count alike.                                *)
(*                                                                         *)
(* A frame is a sequence of bytes.  A field that the sender leaves         *)
(* uninitialised holds any byte.                                           *)
(***************************************************************************)
EXTENDS Integers, Sequences

CONSTANTS
  Addresses,   \* addresses of devices
  Counters,    \* 32 bit frame counters of the sender
  Garbage,     \* what uninitialised memory may hold
  PacketSize,  \* attribute PacketSize of the end device application
  MaxSize,     \* maxMACPayloadSize of the data rate
  Commands,    \* <<data rate, power>> that AdaptiveDataRate may return
  DownPayloads \* payloads of downstream packets

VARIABLES
  stage,  \* where the frame is
  sent,   \* what its sender meant
  frame,  \* its bytes, or those of its MACPayload
  peeked, \* the LoRaWANFrameHeader of PdDataIndication
  read    \* the header that the receiving application removed

frameVars == <<stage, sent, frame, peeked, read>>

Byte == 0 .. 255
Nothing == "nothing"
NoPort == 0
NoCommand == <<>>

\* Addresses and counters have 32 bits, data rate and power 4 each.  The size of
\* the payload of an uplink is a byte, and no frame is longer than the data rate
\* allows: a header has 8 bytes, and 5 more with a LinkADRReq.
ASSUME FrameAssumption ==
  /\ \A n \in Addresses \union Counters : n \in Nat /\ n \div 65536 < 65536
  /\ Garbage \subseteq Byte
  /\ Commands \subseteq (0 .. 15) \X (0 .. 15)
  /\ DownPayloads \subseteq Seq(Byte)
  /\ PacketSize \in 15 .. 268
  /\ MaxSize \in Nat /\ PacketSize - 5 <= MaxSize
  /\ \A payload \in DownPayloads \union {<<>>} : 13 + Len(payload) <= MaxSize

-----------------------------------------------------------------------------
\* The frame control byte.  Uplink: ADR, ADRACKReq, ACK, ClassB and FOptsLen;
\* downlink: ADR, RFU, ACK, FPending and FOptsLen.
ADR == 128
ADRACKREQ == 64
ACK == 32
CLASSB == 16
FPENDING == 16
FOPTSLEN == 16

IsSet(control, mask) == (control \div mask) % 2 = 1
Flag(on, mask) == IF on THEN mask ELSE 0

\* WriteU16 and WriteU32 of Buffer::Iterator, and their inverses.
U16(n) == <<n % 256, (n \div 256) % 256>>
U32(n) == U16(n) \o U16(n \div 65536)
ReadU16(bytes) == bytes[1] + 256 * bytes[2]
ReadU32(bytes) == ReadU16(bytes) + 65536 * ReadU16(SubSeq(bytes, 3, 4))

Without(bytes, n) == SubSeq(bytes, n + 1, Len(bytes))

\* The command identifier of LinkADRReq and of LinkADRAns.
LinkADR == 3

\* Mutant: the size without the identifier of the command.
SizeOfArguments(command) == Len(command) - 1
\* m_size of the commands, which includes their identifier.
SizeOfCommand(command) == Len(command)

\* AddLoRaADRReq: channel mask, chMaskCtrl and NbTrans are always zero.
LinkADRReq(cmd) == <<LinkADR, cmd[1] * 16 + cmd[2]>> \o U16(0) \o <<0>>

\* AddLoRaADRAns: power, data rate and channel mask.
LinkADRAns(ans) ==
  <<LinkADR, Flag(ans[1], 4) + Flag(ans[2], 2) + Flag(ans[3], 1)>>

\* What the receiver takes from the bytes of a command.
ReadLinkADR(up, bytes) ==
  CASE bytes = <<>> -> <<>>
    [] bytes # <<>> /\ up ->
         <<IsSet(bytes[2], 4), IsSet(bytes[2], 2), IsSet(bytes[2], 1)>>
    [] OTHER -> <<bytes[2] \div 16, bytes[2] % 16>>

\* FOptsLen, to which a command adds its size.
FOptsLen(options) == IF options = <<>> THEN 0 ELSE SizeOfCommand(options)

\* m_serializeFramePort is true from the start.
SerializesFramePort(port) == TRUE

GetSerializedSize(port, options) ==
  7 + FOptsLen(options) + IF SerializesFramePort(port) THEN 1 ELSE 0

\* Serialize: address, control and counter, then port and options.  An
\* uninitialised port is g.
Serialize(h, g) ==
  U32(h.addr) \o <<h.control>> \o U16(h.counter)
    \o IF SerializesFramePort(h.port)
         THEN <<IF h.port = NoPort THEN g ELSE h.port>> \o h.options
         ELSE <<>>

\* AddHeader reserves as many bytes as GetSerializedSize says.
AddHeader(header, size, payload) ==
  SubSeq(header \o [i \in 1 .. size |-> 0], 1, size) \o payload

\* The loop of Deserialize reads options as long as fOptsLen, an unsigned byte,
\* says: the identifier and arguments of the command it knows, and of any other
\* command byte after byte, to the end of the buffer at the latest.
ReadOptions(bytes, arguments) ==
  LET Options[p \in [fOptsLen : Byte, at : Nat]] ==
        IF p.fOptsLen = 0 \/ p.at + arguments > Len(bytes)
          THEN [command |-> <<>>, next |-> p.at]
        ELSE IF bytes[p.at] = LinkADR
          THEN [Options[[fOptsLen |-> (p.fOptsLen - 1 - arguments) % 256,
                         at |-> p.at + 1 + arguments]]
                  EXCEPT !.command = SubSeq(bytes, p.at, p.at + arguments)]
        ELSE Options[[fOptsLen |-> p.fOptsLen - 1, at |-> p.at + 1]]
  IN Options[[fOptsLen |-> bytes[5] % FOPTSLEN, at |-> 9]]

Deserialize(bytes, arguments) ==
  LET options == ReadOptions(bytes, arguments)
  IN [addr |-> ReadU32(bytes), control |-> bytes[5],
      counter |-> ReadU16(SubSeq(bytes, 6, 7)), port |-> bytes[8],
      command |-> options.command, payload |-> Without(bytes, options.next - 1)]

-----------------------------------------------------------------------------
Zeros(n) == [i \in 1 .. n |-> 0]

\* frmPayloadSize is an unsigned byte.
PayloadSize(port, options) ==
  (PacketSize - GetSerializedSize(port, options) - 1 - 4) % 256

Flags == [adr : BOOLEAN, adrAckReq : BOOLEAN, ack : BOOLEAN, classB : BOOLEAN]
Answers == BOOLEAN \X BOOLEAN \X BOOLEAN  \* power, data rate, mask
\* The queue holds packets for port 1; an empty packet has none.
Packets == [port : {1}, conf : BOOLEAN, payload : DownPayloads]
             \union {[port |-> NoPort, conf |-> FALSE, payload |-> <<>>]}

\* The header and the payload become the MACPayload.
Submits(meant, g) ==
  /\ stage = "idle"
  /\ stage' = "MACPayload"
  /\ sent' = meant
  /\ frame' = AddHeader(Serialize(meant, g),
                        GetSerializedSize(meant.port, meant.options),
                        meant.payload)
  /\ UNCHANGED <<peeked, read>>

\* SendPacket of the end device application; port 1 stands for any.
SendUSPacket(addr, f, counter, conf, answer) ==
  LET options == IF answer = NoCommand THEN <<>> ELSE LinkADRAns(answer)
  IN Submits([up |-> TRUE, conf |-> conf, addr |-> addr, counter |-> counter,
              control |-> Flag(f.adr, ADR) + Flag(f.adrAckReq, ADRACKREQ)
                            + Flag(f.ack, ACK) + Flag(f.classB, CLASSB)
                            + FOptsLen(options),
              port |-> 1, command |-> answer, options |-> options,
              payload |-> Zeros(PayloadSize(1, options))], 0)

\* SendDSPacket of the network server: a packet of the queue goes to port 1,
\* an empty packet sets no port.
SendDSPacket(addr, ack, pending, counter, packet, command, g) ==
  LET options == IF command = NoCommand THEN <<>> ELSE LinkADRReq(command)
  IN Submits([up |-> FALSE, conf |-> packet.conf, addr |-> addr,
              counter |-> counter,
              control |-> Flag(ack, ACK) + Flag(pending, FPENDING)
                            + FOptsLen(options),
              port |-> packet.port, command |-> command, options |-> options,
              payload |-> packet.payload], g)

\* LoRaWANMsgType.
MsgType(up, conf) ==
  CASE up /\ ~conf -> 2 [] ~up /\ ~conf -> 3 [] up /\ conf -> 4 [] OTHER -> 5

\* sendMACPayloadRequest: a request that is too long is refused, another one
\* gets its MAC header and space for the MIC (constructPhyPayload).
ConstructPhyPayload ==
  /\ stage = "MACPayload"
  /\ IF Len(frame) > MaxSize
       THEN /\ stage' = "refused"
            /\ UNCHANGED frame
       ELSE /\ stage' = "PHYPayload"
            /\ frame' = <<MsgType(sent.up, sent.conf) * 32>> \o frame \o Zeros(4)
  /\ UNCHANGED <<sent, peeked, read>>

\* Mutant: the ADRACKReq bit is taken for the Ack bit.
PeekWrongBit(bytes) == [addr |-> ReadU32(bytes), ack |-> IsSet(bytes[5], ADRACKREQ)]
\* LoRaWANFrameHeader::Deserialize.
Peek(bytes) == [addr |-> ReadU32(bytes), ack |-> IsSet(bytes[5], ACK)]

\* PdDataIndication: a gateway accepts upstream frames, a device downstream
\* frames with its address.
PdDataIndication ==
  LET macPayload == SubSeq(frame, 2, Len(frame) - 4)
      type == (frame[1] \div 32) % 8
  IN /\ stage = "PHYPayload"
     /\ peeked' = Peek(macPayload)
     /\ stage' = IF IF sent.up THEN type \in {2, 4}
                   ELSE type \in {3, 5} /\ Peek(macPayload).addr = sent.addr
                    THEN "received" ELSE "dropped"
     /\ frame' = macPayload
     /\ UNCHANGED <<sent, read>>

\* RemoveHeader in HandleUSPacket and HandleDSPacket.
RemoveHeader ==
  /\ stage = "received"
  /\ stage' = "delivered"
  /\ read' = Deserialize(frame, IF sent.up THEN 1 ELSE 4)
  /\ UNCHANGED <<sent, frame, peeked>>

FrameInit ==
  /\ stage = "idle"
  /\ sent = Nothing /\ frame = <<>> /\ peeked = Nothing /\ read = Nothing

Uplink ==
  \E addr \in Addresses, f \in Flags, counter \in Counters, conf \in BOOLEAN,
     answer \in Answers \union {NoCommand} :
    SendUSPacket(addr, f, counter, conf, answer)

Downlink ==
  \E addr \in Addresses, ack \in BOOLEAN, pending \in BOOLEAN,
     counter \in Counters, packet \in Packets,
     command \in Commands \union {NoCommand}, g \in Garbage :
    SendDSPacket(addr, ack, pending, counter, packet, command, g)

\* One frame travels; the fields of the next do not depend on it.
FrameNext ==
  \/ Uplink
  \/ Downlink
  \/ ConstructPhyPayload
  \/ PdDataIndication
  \/ RemoveHeader

FrameSpec == FrameInit /\ [][FrameNext]_frameVars

-----------------------------------------------------------------------------
\* Every variable has its type: what is written are bytes.
BytesWritten ==
  /\ stage \in {"idle", "MACPayload", "refused", "PHYPayload", "dropped",
                "received", "delivered"}
  /\ frame \in Seq(Byte)

\* What the receiving application reads is what the sender meant: its flags,
\* the lower half of the counter, the port if one was set, and the command,
\* which is neither lost nor found where there is none.
FieldsAgree ==
  stage = "delivered" =>
    /\ read.addr = sent.addr
    /\ read.control = sent.control
    /\ read.counter = sent.counter % 65536
    /\ sent.port # NoPort => read.port = sent.port
    /\ ReadLinkADR(sent.up, read.command) = sent.command

\* The MAC, which removes a frame from the queue of the device because of what
\* its own class peeks at, and the application, which reads the whole header
\* with another, see the same address and Ack bit; neither is dropped.
ClassesAgree ==
  /\ stage # "dropped"
  /\ stage = "delivered" =>
       peeked = [addr |-> read.addr, ack |-> IsSet(read.control, ACK)]

\* The payload begins where the receiver thinks it does: the size that the
\* sender reserved, the bytes it wrote and those that were read are the same.
PayloadDelivered == stage = "delivered" => read.payload = sent.payload

\* The attribute PacketSize is the size of an uplink frame, with and without a
\* command in its header, and the MAC does not refuse a frame that is longer
\* than the data rate allows.
UplinkHasPacketSize ==
  /\ stage # "refused"
  /\ stage = "PHYPayload" /\ sent.up => Len(frame) = PacketSize

\* The header comes through: bytes are written, and both readers agree with the
\* sender about what they mean.
HeadersAgree == BytesWritten /\ FieldsAgree /\ ClassesAgree

\* The payload comes through, and has the size it was meant to have.
PayloadAgrees == PayloadDelivered /\ UplinkHasPacketSize
=============================================================================
