# Verification of the ns-3 LoRaWAN module

This project keeps TLA+ models, model-checking configurations and machine-checked
proofs of the LoRaWAN module of ns-3 with adaptive data rate
(`src/ns-3-dev-git/src/lorawan`), and of the two scripts that run its tests and
read its traces (`src/ns-3-dev-git/test.py`, `src/ns-3-dev-git/extract_data.py`).
Paths such as `model/lorawan-mac.cc` are relative to the module's directory. The
rest of the repository is vendored ns-3 and is not modelled.

## 1. The system

The simulated network is a discrete event simulation. It is sequential, but the
scheduler interleaves events of many objects: events of one instant run in the
order in which they were scheduled, and a handler runs to its end, synchronous
callbacks included. What is hard is therefore not memory but *order*: timers,
receptions and requests of the application that fall close together, state that is
checked in one event and used in another, timers that outlive the state they were
started for, and two parties that each hold half of the state and lose each
other's messages. The test runner is a program with real threads.

| component | state | operations | talks to |
|---|---|---|---|
| End device MAC (`model/lorawan-mac.cc`) | `m_LoRaWANMacState`, `m_txQueue`, `m_txPkt`, `m_retransmission`, `m_setMacState`, `m_preambleDetected`, `m_ackTimeOut`, `m_lastUplinkBitTime` | `sendMACPayloadRequest`, `SetLoRaWANMacState`, `CheckQueue`, `CheckRetransmission`, `OpenRW`, `CloseRW`, `CheckPhyPreamble`, `AckTimeoutExpired`, `PdDataConfirm`, `PdDataIndication`, `PdDataDestroyed` | radio (requests, confirmations), application (indication, confirm) |
| Duty cycle (`LoRaWANMacRDC`, same file) | per sub band the time until it is available, and a timer | `IsSubBandAvailable`, `UpdateRDCTimerForSubBand`, `ScheduleSubBandTimer`, `SubBandTimerExpired` | MAC (`SubBandTimerCallback`) |
| Radio (`model/lorawan-phy.cc`) | `m_trxState`, the packets being sent and received | `SetTRXStateRequest`, `StartRx`, `EndRx`, `PdDataRequest`, `EndTx` | MAC, spectrum channel |
| Gateway net device (`model/lorawan-net-device.cc`) | one MAC and radio per channel and data rate, shared duty cycle | `Send`, `MacBeginsTx`, `MacEndsTx`, `CanSendImmediatelyOnChannel` | MACs, gateway application |
| Network server (`model/lorawan-gateway-application.cc`) | per device: gateways that heard it, frame counters, Ack and ADR flags, SNR history, two timers, downstream queue | `HandleUSPacket`, `RW1TimerExpired`, `RW2TimerExpired`, `SendDSPacket`, `DSTimerExpired`, `AdaptiveDataRate` | gateway applications |
| End device application (`model/lorawan-enddevice-application.cc`) | data rate, power, silence counter, flags owed to the network | `SendPacket`, `HandleDSPacket`, `AdaptiveDataRate`, `StopApplication` | net device |
| Headers (`model/lorawan-frame-header*.cc`, `lorawan-mac-header.cc`) | fields | serialise, deserialise | MAC, applications |
| Interference, error model, energy | floating point accumulators | signal start and end | radio |
| Test runner (`test.py`) | two queues, worker threads, interrupt flag, tally, `results.xml` | `run_tests`, `worker_thread.run`, `run_job_synchronously`, `sigint_hook` | test programs |
| Result extraction (`extract_data.py`) | lists of transmissions, receptions and settings | parsing, pairing, attribution | the trace of a simulation |

What makes them correct:

* MAC and radio agree about what the radio does; one state change at a time is
  scheduled and it is a legal one; receive windows open on time and close always;
  a request is served, in order, with the attempts it was given, and the upper
  layer hears how it ended; the duty cycle is kept.
* A gateway is one half duplex radio, however many MACs it has.
* The network server answers in a window of the uplink it heard, counts each
  packet once and removes a downlink message only when it was received.
* Device and server mean the same exchange by the same time; what one counts as
  acknowledged, the other has heard.
* ADR spends no more than the margin of a link, and a device that was made too
  fast or too quiet finds its way back alone.
* What a header says is what the reader finds, by each of the three classes that
  read it.
* The test runner loses no job, ends, and reports no success that did not happen;
  the script that reads the traces counts each transmission once.

## 2. Modules

| module | models |
|---|---|
| `EndDeviceMac` | MAC, duty cycle object and radio of a class A device |
| `UplinkService` | what such a device promises its application (abstract) |
| `EndDeviceMacInvariant`, `EndDeviceMacProofs` | its inductive invariant; lemmas about its data, one lemma per action, the theorems, and the proofs about a whole exchange: the refinement of `UplinkService`, what the upper layer is told, when the device sends and repeats |
| `NetworkServer` | the network server's entry of one device, with the gateways as links |
| `NetworkServerInvariant`, `NetworkServerProofs` | its inductive invariant; types, an uplink with its copies, timers and answer, counters, queue, Acks, and the theorems |
| `GatewayDevice` | the MACs and radios of a gateway and the duty cycle they share |
| `HalfDuplexRadio` | what a gateway is to the rest of the network (abstract) |
| `GatewayDeviceProofs` | its inductive invariant, the theorems and the refinement |
| `ClassAExchange` | `EndDeviceMac` with its entry in the network server and the air between them |
| `ClassAExchangeInvariant`, `ClassAExchangeProofs` | its inductive invariant; the device's invariants carried over to it, and the theorems |
| `AdrSettings`, `AdrAlgorithm` | the server's ADR algorithm in closed form, and its loop step by step |
| `AdrAlgorithmProofs` | the loop computes the closed form and keeps the margin |
| `EndDeviceApplication`, `EndDeviceApplicationProofs` | the device's half of ADR and the answers it owes; theorems |
| `AdrLoop` | `EndDeviceApplication`, the queue of the MAC, a link and the server's half of ADR as a closed loop |
| `FrameFormat` | the headers of a frame as bytes, written and read |
| `AdrLoopProofs` | the loop: its inductive invariant, the refinement of `EndDeviceApplication`, what a command may do; the frames that commands travel in: their layout, and that both ends read the same |
| `TestRunner` | main thread, workers, queues and interrupt of `test.py` |
| `ResultExtraction` | what `extract_data.py` makes of a trace |
| `ScriptProofs` | the proofs about these two: inductive invariants and theorems |
| `MC...` | constants (and symmetry) of an instance for TLC |

Three compositions relate the modules. `ClassAExchange` EXTENDS `EndDeviceMac` and
adds the server's two timers; its property `AnswersAsAssumed` discharges the
assumption about the server under which the proofs of the device hold.
`AdrLoop` instantiates `EndDeviceApplication` and is proved to implement it, so what is
proved of the application under any downlink holds in the loop; it uses `Adapted` of
`AdrSettings`, which `AdrAlgorithm` shows to be what the code's loop computes.
`NetworkServer` and `EndDeviceMac` meet in two properties: the server relies on
transmissions being as far apart as `WindowsBeforeNextUplink` says of the MAC.

### EndDeviceMac

An action is one simulator event with every synchronous call it makes: the
events of `m_setMacState` (`EnterIdle` to `EnterAckTimeout`, one per target state
of `SetLoRaWANMacState`), the timers (`CheckPhyPreamble`, `AckTimeoutExpired`,
`SubBandTimerExpired`), the radio (`EndTx`, `StartRx`, `EndRxDropped`,
`EndRxAccepted`) and the request of the upper layer (`Send`). `Tick` lets one unit
of time pass and is enabled only when no event is due, which is how the
scheduler works. A timer holds the time left, `NotRunning` when off. State
changes that are due wait until the timers of the same instant have run, for
those were scheduled earlier; the Ack timer runs before the end of a reception
of the same instant, for it was started first (`EndRxDue`).

Channel, power, code rate and payload never change the control flow of a class A
device and are left out; a queue element keeps its sub band, its air time, the
attempts left and, for the properties, the attempts it was given. Three ghosts
serve the properties: `req` in a queue element, `outcome` (what
`m_dataConfirmCallback` last said of a handle) and `reported` (`m_sentPktTrace`).
A signal that is too weak, destroyed by interference or refused by the error
model appears as a frame that ends with `EndRxDropped`.

Two inputs are switches, because the code fails on them (section 4), and FALSE
where properties are checked and proved:
`DataAnswers` lets a downlink frame without Ack answer a confirmed uplink, and
`ArrivalAtClose` lets a frame begin in the very instant in which a window closes.
The network server of this repository sets the Ack bit on every reply to a
confirmed uplink, so it never does the first; run `exchange` checks exactly that
(`AnswersAsAssumed`). The second needs an exact coincidence of times.

### NetworkServer

`m_endDevices` holds an entry per device, and the entries share nothing but the
gateways, so one entry is modelled. Whether a gateway can send at once
(`CanSendImmediatelyOnChannel`: the state of its MACs and its duty cycle) is left
open at each timer, so the walk through `m_lastGWs` is a choice of any of them or
none, and the list is a set. `LoRaWANGatewayApplication` passes packets on, and is
part of `HandleUSPacket` (arrival of a copy) and `Emit` (departure of a reply).

`HandleUSPacket(gw)` is the handler from the clearing of `m_lastGWs` to the start
of the RW1 timer: a copy is a duplicate, a retransmission or new; the Ack bit of
a new one removes the head of the downstream queue; the flags for the reply are
set. The branch for the first uplink of a device (`firstRX`) is never taken, for
the packet counter it reads has been incremented before; the model follows the
code. `RW1TimerExpired` and `RW2TimerExpired` call `SendDSPacket`, which sends the
head of the queue, an empty frame, or nothing. A timer holds the time left;
`m_lastSeen` appears as its age `sinceSeen`.

The environment is the device and the air between. It transmits packet after
packet, each up to `MaxAttempts` times; any set of gateways hears a transmission
and delivers its copies in any order within `Jitter`; a reply arrives or is lost.
`Ready` keeps transmissions as far apart as the MAC does: none ends before the
receive windows of the one before are over. That is not assumed freely:
`EndDeviceMacProofs` proves it of the MAC (`WindowsPrecedeUplink`). `asks` merges a
confirmed packet and one with ADRACKReq, whose effect on the server is the same.
The device answers a confirmed frame in a packet it makes later, which need not
be the next that it transmits, for its MAC has a queue.

Left out, as nothing above depends on them: SNR history, missed frame count,
`m_fCntDown`, the choice of channel and data rate, and the values that
`AdaptiveDataRate` computes (that a command is due, `setAdr`, is kept; the values
are in `AdrAlgorithm` and `AdrLoop`). The ghosts
`sends`, `fate` (the `DSMsg...` traces), `truth`, `received` and `acksOwed` serve
the properties.

### GatewayDevice

An action is one event with all its synchronous calls: `Window` (the network
server asks `CanSendImmediatelyOnChannel` and hands over a frame in the same
event), `BeginTx` (the MAC_TX event, `MacBeginsTx` over all MACs, the start of the
transmission), `EndTx` (with `MacEndsTx`), `BecomeIdle`, `StartRx` and `EndRx`.
State changes scheduled with `ScheduleNow` form one queue over all MACs, because
their order decides. An assertion or fatal error of the code is a guard, and
`AssertionsHold` says that it is never the guard that fails. The configuration of
a transmission (index 0, always valid) and refused requests, which change
nothing, are left out. `SimultaneousWindows` is FALSE: two devices whose windows
open in the same instant on different channels break the gateway (section 4).

`HalfDuplexRadio` has two variables, what is sent and what is heard; the
refinement maps them to the running `EndTx` event and to the receptions that were
not aborted.

### ClassAExchange

Two pairs of timers, one started by the end of an uplink at the device and one by
its arrival at the server, must agree about when a frame meets an open window.
The device is `EndDeviceMac` unchanged, whose reception now begins when a reply
arrives (`ReplyArrives`) or, on the same channel, with a frame for somebody else
(`ForeignFrame`). Of the server the module keeps the two timers, the Ack it owes
and whether a gateway can send; of several gateways the first copy only, as later
ones start no timer. `lossy` is chosen in the initial state: on the ideal link
everything arrives and a gateway can send in RW2 at the latest.

### AdrSettings, AdrAlgorithm, EndDeviceApplication, AdrLoop

`AdrAlgorithm` has one action per branch of an iteration of the loop over `nStep`;
`AdrSettings` states the result in closed form. SNRs are integers in a unit of
the instance's choice: the comparisons and the division that drops the fraction
are the code's, the `double`s are not.

`EndDeviceApplication` has the actions `SendPacket` (including what is reset before
the socket refuses the packet), `HandleDSPacket` for every downlink with any
command, `StopApplication`, and `Serve`, the MAC taking the next packet. Whether
the socket takes a packet depends on the MTU of the data rate (`FitsFrom`) and on
nothing else; the random interval is left out.

`AdrLoop` closes the loop. An attempt of the MAC has up to three steps (the frame
is heard, the server replies in a window, the reply is received), and in between
packets are made with the settings of that moment, so that commands meet frames
that were made before them. The link has one SNR, chosen in the initial state.

### FrameFormat

A frame is a sequence of bytes, from `SendUSPacket` (`SendPacket` of the end device
application) or `SendDSPacket` through
`ConstructPhyPayload`, the header class that the MAC peeks with, and
`RemoveHeader`. Fields that share a byte are written and read arithmetically; a
field that the code leaves uninitialised holds any byte (`Garbage`). MIC and
encryption, which the code writes as zeros or not at all, are bytes that carry
nothing.

### TestRunner and ResultExtraction

`TestRunner` has one action per step of `worker_thread.run` between which the
interrupt flag may change (`Take`, `Keep` or `Drop`, `Skip` or `Launch`, `Finish`), and
the main thread's `Put`, `Count`, `Ignore` and `Return`. A program is how it ends: exit
code, results file, whether its output decodes, whether valgrind found a leak.
`LaunchFails` is an exception of `Popen`, which ends the thread. A suite writes its own
entry of `results.xml` and main copies it; `EntryKnows` names what such an entry cannot
know (a valgrind error, output that main cannot decode) and the suite that is not found,
which leaves an empty file. For all others `ResultsHonest` demands exactly one entry,
and that it says how the program ended.

`ResultExtraction` grows the log of one node, one direction at a time, and defines
what the script computes from it at any moment (`Transmissions`, `Attributed`). The
ghosts `now` and `arrived` hold what the log does not say. A reception follows its
transmission by three seconds at most, which is what the script assumes of them; a
packet that waits in the queue of the MAC, or is repeated, may in fact come later. The
settings that a device really has are not in the log (it may back off by itself, or miss a command:
`extract_data.py:32`), so no run checks a property of them.

### Not modelled

* **Interference, sensitivity, error model, energy.** Floating point computations
  over signal powers. The models take their verdict (a frame is received, destroyed
  or too weak) as a choice; energy follows the transceiver and feeds nothing back.
* **Regional tables.** Channels, frequencies and data rates are data; delays, sub
  bands and duty cycle limits are constants of the models.
* **Several devices on one server at once.** Their entries share only the
  gateways, whose availability each model leaves open.
* **Helpers, tests, examples** set up simulations and have been read for the
  configurations that occur.
* **`test.py` outside `run_tests`**: translation of `results.xml` to text and HTML
  (that it fails on a malformed file is modelled), command line, choice of jobs.
  **`extract_data.py`**: the drawing of the figures.
* **Everything else**: ns-3 itself, and about 667 000 lines of Python of which nearly
  all are generated bindings (`bindings/modulegen__*.py`), the vendored build system
  (`waf`, `wutils.py`, `wscript`) and the visualizer's GUI. They contain no protocol
  logic of this program, and the generated files no logic at all. Measured in lines
  of Python the models therefore cover a small part of the repository; they cover
  the LoRaWAN module, which is C++, and the two scripts that belong to it.

## 3. Runs

| run | bounds | shows |
|---|---|---|
| `enddevice` | two requests of up to two attempts, two sub bands, frames that fit a window or outlast it | state changes, radio requests, timers, attempts and windows agree in every order of events; the device implements `UplinkService` with its liveness |
| `network_server` | two gateways, three packets of up to two transmissions, two downstream packets of up to two transmissions | answers in a window through a gateway that heard, Acks that are due, copies and repetitions told apart, timers never overwritten |
| `gateway` | three MACs in two sub bands, frames of two lengths in each direction | no assertion fails, whole frames, shared duty cycle, refinement of `HalfDuplexRadio`, every MAC listens again |
| `exchange` | two packets of up to two attempts, ideal and lossy link, busy gateways, foreign frames | replies meet the window they were meant for, exchanges stay apart, an Ack means the packet was heard, one transmission suffices on the ideal link, the server answers as the device's proofs assume |
| `adr_loop` | all data rates and powers, three links, queue of three | commands fit the packets and keep the margin, the device is an `EndDeviceApplication`, a lost device recovers |
| `adr_backoff` | four data rates, three powers, limits of 2 and 3 packets | power and data rate are given up on schedule, an Ack is not lost in a refused packet |
| `adr_algorithm` | the code's tables, SNR every half dB | the loop computes the closed form and keeps the margin |
| `frame_format` | counters around 8 and 16 bits, all flags, commands and answers, payloads that look like commands | header fields and payload come through, for all three header classes |
| `test_runner` | a suite, an example, a skipped example, two workers, valgrind, an interrupt at any time | no job is lost or reported twice, the exit code and the entries of `results.xml` say how the programs ended, `run_tests` ends |
| `extraction` | eight seconds, each direction, every loss | a transmission counts as successful exactly if it arrived |
| `ack_after_drop`, `power_change` | as `network_server` with one transmission, as `adr_loop` with a good link | one disagreement each (section 4) |

**Bounds.** In `enddevice` and `network_server` a unit of time is half a second: RW1
opens after 2 units, RW2 after 4, a preamble takes 1, and the Ack timer draws 2 or
5 (the code: 1 to 3 s). A downlink frame of 2 units fits a window; one of 5 outlasts
the start of RW2 (after RW1) and the short Ack timer (in RW2). The duty cycles block
a sub band for 2 or 9 units, less or more than a whole exchange. Two requests with up
to two attempts reach every combination of a first and a second packet, a first and
a last attempt, one or two sub bands. On the server a known frame is a duplicate
within 2 units and copies spread over 1; two gateways give every order and every
partial loss of the copies, three packets what needs a before and an after: a
repetition heard instead of its original, an Ack repeated, an Ack that arrives late.

`exchange` uses a quarter of a second, so that a frame may travel one unit and return
within a preamble. Symmetry is over packet names (`exchange`) and over gateways and
messages (`network_server`), which the models only compare for equality; neither run
checks liveness.

`gateway` has two MACs that share a sub band and one that does not, the least with
which a transmission disturbs a MAC it shares the duty cycle with and one it does
not. Its receptions are shorter and longer than a transmission.

`adr_loop` keeps the tables of the code and shortens what is only counted: an answer
is asked for after 1 silent packet and settings are given up every 2 (the code: 32
each), and ADR runs every second packet over two SNRs (the code: 20 and 20). The links are one at
the edge of the slowest data rate, one in the middle of the table and one with margin
to spare. The counter in `adr_backoff` has limits 2 and 3, so that a value skipped by
either would be seen.

`frame_format` takes counters on both sides of 8 and 16 bits and payloads whose first
bytes are those of a command. `test_runner` has one job of each kind that `run_tests`
distinguishes, and two workers, so that one can exit or die while another has a job.
In `extraction` transmissions are at least four seconds apart, as those of a device
are, and the script pairs up to three seconds. Eight seconds hold three transmissions of
which any may be lost.

**Fairness.** Simulated components: the scheduler runs every event that is due and
advances time, so `enddevice` (`WF` of `Device`) and `gateway` (`WF` of every event and
of `Tick`) assume no more; nothing is assumed of application, channel or server.
`adr_loop`: `SendPacket` always reschedules itself, so the next packet is made
(`MaxPackets = 0`, no limit), and the MAC gets done with every packet, which is what
`enddevice` shows of it. Nothing is assumed of the link or the server; a device
that hears nothing at all is among the behaviours. `test_runner`: threads are
scheduled and programs end; that a program can be started is not assumed, and
`Terminates` says what follows when it cannot.

**Deadlock** is checked in `enddevice`, `network_server`, `gateway` and `exchange`, where
time always goes on. `adr_loop` and `adr_backoff` may stop (`StopApplication`), and
`adr_algorithm`, `frame_format`, `test_runner` and `extraction` end.

`NetworkServer` has no liveness property: its timers are scheduled events and the
answer is bounded in time, which `AnswersInWindow` states. A downlink packet that
waits for an uplink may wait for ever, as the device need not send one.

## 4. Findings

Two disagreements are demonstrated by a run:

* `ack_after_drop`: an uplink Ack names no packet. When the last transmission of a
  confirmed packet was received, the server has dropped it already, and its Ack
  removes the next packet of the queue, sent or not
  (`model/lorawan-gateway-application.cc:371`).
* `power_change`: `AdaptiveDataRate` stores the new power (`:966`) before `SendDSPacket`
  compares its result with the stored one, so a change of the power alone is never
  sent, and the server's idea of the power drifts from the device's
  (`model/lorawan-gateway-application.cc:641`). `SyncedCommandKeepsMargin` therefore has the
  condition that the two agree.

Others were met while modelling. The models follow the code or exclude the input by a
named switch, and no run is kept for them:

* *Data frame without Ack in RW2* (`lorawan-mac.cc:1154`). It ends the exchange but
  leaves the Ack timer running, against the assertion of `AckTimeoutExpired`; the
  server never sends one (`DataAnswers`).
* *Arrival at close* (`lorawan-phy.cc:377`). A frame that begins in the instant in which
  a window closes makes `SetTRXStateRequest` abort the simulation (`ArrivalAtClose`).
* *Sent trace* (`lorawan-mac.cc:913`). `m_sentPktTrace` is documented to fire also for
  packets that were given up; it does not. `OutcomesAgree` says what it does.
* *Counter wrap* (`lorawan-gateway-application.cc:272`). The header carries 16 bits of
  the counter and the server compares them with 32: after a wrap new packets count as
  retransmissions, and their Acks are ignored. `ClassifiedRight` holds while the counter
  does not wrap (`CounterModulus`).
* *Simultaneous windows* (`lorawan-mac.cc:279`, `lorawan-net-device.cc:645`).
  `CanSendImmediatelyOnChannel` looks for a scheduled transmission of the MAC it asks
  about only; two windows that open in one instant on different channels end in a
  failed assertion (`SimultaneousWindows`).
* *Aborted receptions* (`lorawan-phy.cc:649`). When another frame begins on a radio
  whose reception was aborted, the `EndRx` of the first reports nothing; the `PhyRxDrop`
  trace misses it.
* *Command too far* (`lorawan-gateway-application.cc:929`). Once the server's power has
  drifted, its next command sends that power with a data rate chosen at full power,
  and the device is out of reach until it has backed off again (`LinkRecovers`).
* *Muted device* (`lorawan-enddevice-application.cc:702`). The back-off ignores the
  packet size; below the data rate that takes the packets the socket refuses all
  of them. `LinkRecovers` asks for a data rate at which the packets fit, and assumes a
  link that carries the slowest of them (`FitsFrom`, `Gains`).
* *Frame port* (`lorawan-frame-header-downlink.cc:38`). A packet without payload
  carries a frame port with an uninitialised value, although the server means to leave
  it out; `FieldsAgree` compares the port only where one was set.
* *Small packets* (`lorawan-enddevice-application.cc:398`). `frmPayloadSize` is a byte
  computed by an unguarded subtraction; with `PacketSize` 13 or 14 a frame with an
  answer gets a payload of 254 or 255 bytes and is refused. `UplinkHasPacketSize` is
  checked with 21, the default.
* *test.py*: the entry of a crashed suite is not well formed and the translation raises
  an exception (`:1768`); a program whose output does not decode counts as failed,
  although the entry that its suite wrote may say PASS, and its results file is read
  although it may not exist (`:776`); a suite that is not found counts as failed and has
  no entry (`src/ns-3-dev-git/src/core/model/test.cc:1063`); a program that cannot be started ends its worker,
  and the main thread waits for ever (`:766`).
* *Valgrind entry* (`test.py:1772`). A comment (`:1746`) promises the PASS entry of a suite
  that works and fails valgrind to be followed by a VALGR entry. The branch that writes
  it asks for return code 2 where codes 0, 1 and 2 are excluded (`:1758`), so the suite
  has a bare PASS entry; the error is in the counters and the exit code only, which
  `SuccessHonest` checks. `ValgrindReported` states the promise, and TLC refutes it in the
  instance of run `test_runner`; `ResultsHonest` leaves this case out (`EntryKnows`).
* *Settings between two changes* (`extract_data.py:179`). The script means to give a
  transmission the settings of its time (`:25`), but the condition for one between two
  changes compares the time of a row with itself, and the search ends at the last row
  (`:170`); with a single row even what was sent before it gets its settings.
  `AttributedByTime` states the intention, and TLC refutes it in the instance of run
  `extraction`. Besides, a device's own changes and lost commands are not in the log
  (`:32`), so no run checks a property of the settings.
* *extract_data.py*: nodes settled at power index 7 are not drawn (`:315`).

## 5. Proofs

All theorems hold for every value of the constants that satisfies the assumptions
their modules name.

**End device** (`EndDeviceMacProofs`; `PktsAssumption`,
`TimesAssumption`, `OrderAssumption`, and `DataAnswers` and `ArrivalAtClose` FALSE). None of
the properties is inductive. `IInv` says for each MAC state what the radio does, which
event leads out of the state and how the frame in flight stands; the part that took
most care is what can be left over from one exchange when the next begins: the
preamble check of a missed RW2 (`WaitInv`), the Ack timer (`AckInv`) and the sub band
timer (`SubBandInv`). `OrderAssumption` is needed: with a preamble longer than
`RECEIVE_DELAY1`, or an Ack timeout shorter than a preamble, the timers of two windows
would overlap.

The second half of the module goes on from `IInv`. `DeviceServes` shows the refinement of
`UplinkService`: the backlog of the service is the queue without its bookkeeping, and
`WhoServes` names the four kinds of step that change it. `UpperLayerIsTold` needs in
addition that the handles in the queue are distinct. `WindowsPrecedeUplink` and
`RepeatsInTime` are about time: `ClockInv` bounds, for each MAC state, the time since the
end of the last uplink from below. Its subtle part is `FreshWindow`: at the very
moment a window opens nothing may be able to end it before time passes.

**Network server** (`NetworkServerProofs`; `ServerAssumption`, `DelayAssumption`). The heart of
`IInv` is `ExchangeInv`: as long as no copy of the last uplink has arrived (`Unheard`), no
timer runs and the last accepted copy is older than a second, so that the first copy
is accepted; afterwards (`Heard`) further copies are duplicates, `m_lastGWs` holds just
the gateways whose copy came, and each timer keeps its distance from its window.
`DelayAssumption` makes this true: copies of one transmission spread over no more than
the second in which a frame counts as a duplicate, and that second is no longer than
`RECEIVE_DELAY1`, before which no transmission can follow. `QueueInv` adds that the
packets in the queue are distinct and that an unconfirmed one has one transmission;
`AckInv` counts the Ack of an uplink that the server has not yet seen. `CountersRight`
assumes that the counter does not wrap.

**Gateway** (`GatewayDeviceProofs`, any number of MACs; `SimultaneousWindows` FALSE). The
inductive invariant names the phases of the gateway (all listening, one about to
send, one sending, the sender about to become idle) and why each MAC is in its state
in each of them. From it follow the type invariant, `AssertionsHold`, `DeliversWhole`,
`DutyCycleKept` and the refinement of `HalfDuplexRadio`.

**ADR algorithm** (`AdrAlgorithmProofs`; `AlgorithmAssumption`, and `StepAssumption` for the
margin: a step is worth what one data rate or one power costs, which holds of the
code's tables). The invariant says how far the loop has come from the settings it began
with; at the end, whichever of its exits was taken, this is the closed form, and the
margin not yet spent is what the remaining steps are worth.

**End device application** (`EndDeviceApplicationProofs`; `DeviceAssumption`). The silence
counter is compared with `==`; the invariant says, for each pair of settings, where it
may stand, so that neither value can be jumped over. `BacksOffOnSchedule`, `AsksInTime`
and `CarriesTheAck` hold whatever the network sends.

**Exchange of device and server** (`ClassAExchangeProofs`; the assumptions of the end
device, `LinkAssumption`, and any value of `DataAnswers`). The theorems of the device assume
something of the server's answers (`DataAnswers = FALSE`); here that assumption is
discharged. The device's part of the invariant (`IInv`, `ClockInv`, and the facts on its
timers and its last confirmed frame) is shown again for steps of the device composed with
the server, whatever the server may answer. `LinkInv` adds the server's part: it ties every
stage of an exchange (uplink in the air, waiting for RW1, waiting for RW2, reply in the
air) to the clock that the end of the uplink starts at the device, with at most one stage
at a time and each of the server's times later than the device's by the delay of the
link. `ExchangeIInv` is the conjunction of both. `AnswersCarryTheAck` follows: every
behaviour of the exchange is one of the device under `DataAnswers <- FALSE`, so the frames that
value excludes cannot occur and the theorems proved under it hold of every exchange.
`TwoSidesAgree`, `IdealLink` and `AcksAreEarned` follow from the same invariant. The delay has to
be positive (`Delay > 0`): with no distance at all a reply could begin in the very instant
in which the window it is meant for is yet to be opened.

**ADR loop** (`AdrLoopProofs`; `LoopAssumption`, `DeviceOfLoop`, and `StepAssumption` for the
margin). `LoopImplementsDevice` is the refinement of `EndDeviceApplication`, step by step:
every step of the loop is a step of the application or leaves its variables alone. With it
the theorems of the application become theorems of the loop (`LoopBacksOffOnSchedule`), and
its invariant a part of `LoopIInv`. The other parts follow the data rate from the packet in
the queue to the frame that is heard and to the command computed from it (`QueueFits`,
`StartsFromFrame`, `CommandsFit`). `CommandsKeepMargin` needs the best SNR of a history
of any length and the slope of tables of any length.

**Frames** (`AdrLoopProofs`; `FrameAssumption`: addresses and counters of 32 bits, data rate
and power of 4, any payload of bytes, and sizes that fit). `Meant` says what a sender may
mean, `LaidOut` where its fields are in the bytes of the frame; `FrameIInv` carries
`LaidOut` from the application to the MAC, around it and out of it again. `Reads` is the
lemma that matters: whoever has bytes that are laid out for a header reads that header,
its command and its payload, whatever bytes the payload has. The loop of `Deserialize` is
a recursive function in `ReadOptions`; that it exists is proved first (`OptionsExist`), by
induction over the distance from the end of the frame. The lower bound of 15 for
`PacketSize` is the one below which the size of the payload wraps around (section 4).

**Test runner** (`ScriptProofs`; `RunnerAssumption`, any number of jobs and workers). The
copies of a job are counted over both queues, the workers and what main has seen, and so
are the break jobs and the workers that have exited. `RunnerIInv` adds that the break jobs
are behind all others, that a worker without a job is idle or gone, that a report is
dropped only after an interrupt and otherwise has the return code of its program, and that
the tally agrees with what was seen; `RunsReported` adds, for `RunnerReports`, that a program
was run only for the jobs that are reported so, and `FileTrue` that the file of a suite
says how the suite ended wherever `EntryKnows` lets it. `RunnerSucceeds` then is a matter of counting: `N`
different jobs were seen, so all were; `N` of them count as passed or skipped, so each is.

**Result extraction** (`ScriptProofs`; `LogAssumption`). The invariant keeps transmissions
in the order of time, and each reception close behind its transmission.
`PairsRight` has the hypothesis that transmissions are more than three seconds apart
(`MinGap > 3`), which is the window in which the script pairs; without it the pairing is
wrong, as TLC shows at once with a smaller `MinGap`.

**Induction over data.** The induction theorems of the library take an operator as a
parameter and cannot be used here. `AdrLoopProofs` proves a form of induction over sets of
natural numbers (`Induction`: a set that has 0 and with `n` also `n + 1` has them all) from
the well-foundedness of the subset ordering of finite sets; `Best`, `Slope` and
`OptionsExist` are proved with it.

**Only model-checked**: liveness (`ImplementsFairService`, `ListensAgain`, `LinkRecovers`,
`Terminates`), which is out of the prover's reach.

## 6. Plan

Done: device MAC, network server, gateway, exchange of device and server, ADR on both
sides and as a loop, headers, test runner, result extraction; the proofs of section 5,
which state every safety property that the passing runs check. Next: two devices and one
gateway, and the order in which their windows compete for it.
