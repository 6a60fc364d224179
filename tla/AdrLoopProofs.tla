----------------------------- MODULE AdrLoopProofs -----------------------------
(***************************************************************************)
(* Adaptive data rate as a closed loop, for every link, history and queue: *)
(* the device in it is an EndDeviceApplication, no command takes it to a   *)
(* data rate that does not take its packets, and a command keeps the       *)
(* margin of the link.  And the frames that the commands travel in, for    *)
(* every header and payload: what is read is what was meant.               *)
(*                                                                         *)
(* Some of it is about data: the best of a history of any length, a table  *)
(* of any number of data rates, and the loop that reads the options of a   *)
(* header.  It is proved by induction, from the fact that there is no      *)
(* endless descent of finite sets.                                         *)
(***************************************************************************)
EXTENDS AdrLoop, FrameFormat, FiniteSetTheorems, SequenceTheorems,
        WellFoundedInduction, TLAPS

\* The application and what is proved about it.
P == INSTANCE EndDeviceApplicationProofs

\* Every packet that waits was accepted with its data rate.
QueueFits == \A i \in DOMAIN requests : D!Fits(requests[i].dr)
\* The server computes a command from the data rate of a frame it has heard.
StartsFromFrame == phase = "heard" => D!Fits(lastDr)
\* A command is due only when there is a history to compute it from.
HasHistory == setAdr => history # <<>>

LoopIInv ==
  /\ P!IInv
  /\ TypeOK /\ CommandsFit
  /\ QueueFits /\ StartsFromFrame /\ HasHistory

-----------------------------------------------------------------------------
(***************************************************************************)
(* Induction.                                                              *)
(***************************************************************************)
\* A set that has 0 and the successor of each of its numbers has all of them:
\* the numbers up to the least that is missing would be a least set.
LEMMA Induction ==
  ASSUME NEW S, 0 \in S, \A n \in Nat : n \in S => n + 1 \in S
  PROVE  \A n \in Nat : n \in S
<1> SUFFICES ASSUME NEW n \in Nat, n \notin S PROVE FALSE
  OBVIOUS
<1> DEFINE Missing == {k \in Nat : k \notin S}
           Initials == {0 .. k : k \in Missing}
<1>1. Initials \subseteq FiniteSubsetsOf(Nat) /\ Initials # {}
  <2>1. \A k \in Nat : IsFiniteSet(0 .. k)
    BY FS_Interval
  <2> QED BY <2>1 DEF FiniteSubsetsOf
<1>2. PICK T \in Initials : \A U \in Initials : <<U, T>> \notin StrictSubsetOrdering(Nat)
  <2>1. IsWellFoundedOn(StrictSubsetOrdering(Nat), FiniteSubsetsOf(Nat))
    BY FS_StrictSubsetOrderingWellFounded
  <2> HIDE DEF Initials
  <2> QED BY <1>1, <2>1, WFMin
<1>3. PICK k \in Missing : T = 0 .. k
  OBVIOUS
<1>4. k - 1 \in Nat /\ (k - 1) + 1 = k
  OBVIOUS
<1>5. 0 .. (k - 1) \in Initials
  BY <1>4
<1>6. <<0 .. (k - 1), 0 .. k>> \in StrictSubsetOrdering(Nat)
  <2>1. 0 .. (k - 1) \in SUBSET Nat /\ 0 .. k \in SUBSET Nat
    OBVIOUS
  <2>2. 0 .. (k - 1) \subseteq 0 .. k
    BY <1>4
  <2>3. k \in 0 .. k /\ k \notin 0 .. (k - 1)
    BY <1>4
  <2> QED BY <2>1, <2>2, <2>3 DEF StrictSubsetOrdering
<1> QED BY <1>2, <1>3, <1>5, <1>6

-----------------------------------------------------------------------------
(***************************************************************************)
(* The algorithm.                                                          *)
(***************************************************************************)
\* What AdaptiveDataRate takes for the link is an SNR of the history, and none
\* is better.
LEMMA Best ==
  ASSUME history \in Seq(Int), history # <<>>
  PROVE  /\ BestSnr \in Int
         /\ \E i \in DOMAIN history : BestSnr = history[i]
<1> DEFINE HasBest(n) == n + 1 <= Len(history) =>
             \E m \in 1 .. n + 1 : \A i \in 1 .. n + 1 : history[i] <= history[m]
           S == {n \in Nat : HasBest(n)}
<1>1. \A i \in 1 .. Len(history) : history[i] \in Int
  OBVIOUS
<1>2. Len(history) \in Nat /\ Len(history) # 0 /\ DOMAIN history = 1 .. Len(history)
  OBVIOUS
<1>3. 0 \in S
  BY <1>1, <1>2
<1>4. ASSUME NEW n \in Nat, n \in S PROVE n + 1 \in S
  <2> SUFFICES ASSUME (n + 1) + 1 <= Len(history)
               PROVE  \E m \in 1 .. (n + 1) + 1 :
                        \A i \in 1 .. (n + 1) + 1 : history[i] <= history[m]
    OBVIOUS
  <2>1. PICK m \in 1 .. n + 1 : \A i \in 1 .. n + 1 : history[i] <= history[m]
    BY <1>2, <1>4
  <2>2. \A i \in 1 .. (n + 1) + 1 : history[i] \in Int /\ (i \in 1 .. n + 1 \/ i = n + 2)
    BY <1>1, <1>2
  <2>3. m \in 1 .. (n + 1) + 1 /\ n + 2 \in 1 .. (n + 1) + 1
    OBVIOUS
  <2>4. CASE history[n + 2] <= history[m]
    BY <2>1, <2>2, <2>3, <2>4
  <2>5. CASE ~(history[n + 2] <= history[m])
    <3>1. \A i \in 1 .. (n + 1) + 1 : history[i] <= history[n + 2]
      BY <2>1, <2>2, <2>3, <2>5
    <3> QED BY <2>3, <3>1
  <2> QED BY <2>4, <2>5
<1>5. \A n \in Nat : n \in S
  <2> HIDE DEF S
  <2> QED BY <1>3, <1>4, Induction
<1>6. Len(history) - 1 \in Nat /\ (Len(history) - 1) + 1 = Len(history)
  BY <1>2
<1>7. Len(history) - 1 \in S
  BY <1>5, <1>6
<1>8. \E s \in {history[i] : i \in DOMAIN history} :
        \A i \in DOMAIN history : history[i] <= s
  <2>1. PICK m \in 1 .. Len(history) :
          \A i \in 1 .. Len(history) : history[i] <= history[m]
    BY <1>6, <1>7
  <2> QED BY <1>2, <2>1
<1>9. BestSnr \in {history[i] : i \in DOMAIN history}
  BY <1>8 DEF BestSnr
<1> QED BY <1>1, <1>2, <1>9

\* A quotient that is rounded toward zero times its divisor does not exceed
\* the dividend.
LEMMA RoundedDown ==
  ASSUME NEW n \in Int, NEW d \in Nat \ {0}
  PROVE  /\ TowardZero(n, d) \in Int
         /\ TowardZero(n, d) > 0 => d * TowardZero(n, d) <= n
<1>1. ASSUME NEW m \in Nat
      PROVE  m \div d \in Nat /\ d * (m \div d) <= m
  OBVIOUS
<1>2. CASE n >= 0
  BY <1>1, <1>2 DEF TowardZero
<1>3. CASE n < 0
  <2>1. TowardZero(n, d) = -((-n) \div d)
    BY <1>3 DEF TowardZero
  <2>2. (-n) \div d \in Nat
    BY <1>1, <1>3
  <2> QED BY <2>1, <2>2
<1> QED BY <1>2, <1>3

\* Every number of data rates up costs no more than as many steps.
LEMMA Slope ==
  ASSUME NEW d \in 0 .. MaxDr, NEW n \in Nat, d + n <= MaxDr
  PROVE  Required[d + n] - Required[d] <= StepSize * n
<1> DEFINE S == {k \in Nat : d + k <= MaxDr =>
                   Required[d + k] - Required[d] <= StepSize * k}
<1>0. MaxDr \in Nat /\ StepSize \in Nat /\ \A e \in 0 .. MaxDr : Required[e] \in Int
  BY AlgorithmAssumption
<1>1. 0 \in S
  BY <1>0
<1>2. ASSUME NEW k \in Nat, k \in S PROVE k + 1 \in S
  <2> SUFFICES ASSUME d + (k + 1) <= MaxDr
               PROVE  Required[d + (k + 1)] - Required[d] <= StepSize * (k + 1)
    OBVIOUS
  <2>1. d + k \in 0 .. MaxDr - 1 /\ d + k \in 0 .. MaxDr /\ (d + k) + 1 = d + (k + 1)
        /\ d + (k + 1) \in 0 .. MaxDr /\ d + k <= MaxDr
    BY <1>0
  <2>2. Required[d + (k + 1)] - Required[d + k] <= StepSize
    BY <2>1, StepAssumption
  <2>3. Required[d + k] - Required[d] <= StepSize * k
    BY <1>2, <2>1
  <2>4. StepSize * (k + 1) = StepSize * k + StepSize /\ StepSize * k \in Int
    BY <1>0
  <2>5. Required[d] \in Int /\ Required[d + k] \in Int /\ Required[d + (k + 1)] \in Int
    BY <1>0, <2>1
  <2> QED BY <1>0, <2>2, <2>3, <2>4, <2>5
<1>3. \A k \in Nat : k \in S
  <2> HIDE DEF S
  <2> QED BY <1>1, <1>2, Induction
<1> QED BY <1>3

\* The settings of a LinkADRReq are in the tables, and the data rate is never
\* slower than that of the frame.
LEMMA SettingsRange ==
  ASSUME NEW d \in 0 .. MaxDr, NEW t \in 0 .. MaxTx, NEW s \in Int
  PROVE  /\ Adapted(s, d, t) \in [dr : 0 .. MaxDr, tx : 0 .. MaxTx]
         /\ Adapted(s, d, t).dr >= d
<1>0. MaxDr \in Nat /\ MaxTx \in Nat /\ Required[d] \in Int /\ MarginDb \in Nat
      /\ StepSize \in Nat \ {0}
  BY AlgorithmAssumption
<1> DEFINE n == Steps(s, d)
<1>1. n \in Int
  <2>1. Margin(s, d) \in Int
    BY <1>0 DEF Margin
  <2> QED BY <1>0, <2>1, RoundedDown DEF Steps
<1> HIDE DEF n
<1>2. /\ NewSettings(d, t, n) \in [dr : 0 .. MaxDr, tx : 0 .. MaxTx]
      /\ NewSettings(d, t, n).dr >= d
  BY <1>0, <1>1 DEF NewSettings, Least, Most
<1>3. Adapted(s, d, t) = IF Fastest(d, t) THEN [dr |-> d, tx |-> t]
                                          ELSE NewSettings(d, t, n)
  BY DEF Adapted, n
<1> QED BY <1>0, <1>2, <1>3

\* A faster data rate, and the power that goes with it, cost no more than the
\* margin.
LEMMA SettingsKeepMargin ==
  ASSUME NEW d \in 0 .. MaxDr, NEW t \in 0 .. MaxTx, NEW s \in Int,
         Adapted(s, d, t).dr # d
  PROVE  Required[Adapted(s, d, t).dr] + PowerStep * (Adapted(s, d, t).tx - t)
           <= s - MarginDb
<1>0. MaxDr \in Nat /\ MaxTx \in Nat /\ Required[d] \in Int /\ MarginDb \in Nat
      /\ StepSize \in Nat \ {0} /\ PowerStep \in Nat /\ PowerStep <= StepSize
  BY AlgorithmAssumption, StepAssumption
<1> DEFINE n == Steps(s, d)
           e == Adapted(s, d, t).dr - d
           u == Adapted(s, d, t).tx - t
<1>1. n \in Int /\ (n > 0 => StepSize * n <= s - Required[d] - MarginDb)
  <2>1. Margin(s, d) \in Int
    BY <1>0 DEF Margin
  <2> QED BY <1>0, <2>1, RoundedDown DEF Steps, Margin
<1>2. Adapted(s, d, t) \in [dr : 0 .. MaxDr, tx : 0 .. MaxTx]
  BY SettingsRange
<1>3. Adapted(s, d, t) = NewSettings(d, t, n)
  BY DEF Adapted
<1> HIDE DEF n
<1>4. /\ n > 0 /\ e \in Nat /\ u \in Nat /\ e + u <= n
  BY <1>0, <1>1, <1>3 DEF NewSettings, Least, Most
<1>5. Adapted(s, d, t).dr = d + e /\ d + e <= MaxDr /\ d + e \in 0 .. MaxDr
  BY <1>2
<1> HIDE DEF e, u
<1>6. Required[d + e] - Required[d] <= StepSize * e /\ Required[d + e] \in Int
  BY <1>4, <1>5, Slope, AlgorithmAssumption
<1>7. PowerStep * u <= StepSize * u /\ PowerStep * u \in Int /\ StepSize * u \in Int
  <2>1. StepSize - PowerStep \in Nat
    BY <1>0
  <2>2. (StepSize - PowerStep) * u >= 0
    BY <1>4, <2>1
  <2>3. (StepSize - PowerStep) * u = StepSize * u - PowerStep * u
    BY <1>0, <1>4
  <2> QED BY <1>0, <1>4, <2>2, <2>3
<1>8. StepSize * e + StepSize * u <= StepSize * n
      /\ StepSize * e \in Int /\ StepSize * n \in Int
  <2>1. n - e - u \in Nat
    BY <1>1, <1>4
  <2>2. StepSize * (n - e - u) >= 0
    BY <1>0, <2>1
  <2>3. StepSize * (n - e - u) = StepSize * n - StepSize * e - StepSize * u
    BY <1>0, <1>1, <1>4
  <2> QED BY <1>0, <1>1, <1>4, <2>2, <2>3
<1>9. Required[d + e] + PowerStep * u <= s - MarginDb
  BY <1>0, <1>1, <1>4, <1>6, <1>7, <1>8
<1> QED BY <1>5, <1>9 DEF u
-----------------------------------------------------------------------------
(***************************************************************************)
(* The device of the loop.                                                 *)
(***************************************************************************)
\* The two instances of the application are the same.
LEMMA SameDevice ==
  /\ D!Init => P!Init
  /\ [D!Next]_(D!vars) => [P!Next]_(P!vars)
  /\ P!TypeOK <=> D!TypeOK
  /\ P!TypeOK' <=> D!TypeOK'
<1>1. D!Init => P!Init
  BY DEF D!Init, P!Init, D!NoAns, P!NoAns
<1>2. D!vars = P!vars /\ D!vars' = P!vars'
  BY DEF D!vars, P!vars, D!settings, P!settings, D!counter, P!counter, D!owed,
         P!owed, D!life, P!life, D!ghost, P!ghost
<1>3. (D!TypeOK <=> P!TypeOK) /\ (D!TypeOK' <=> P!TypeOK')
  BY DEF D!TypeOK, P!TypeOK, D!BackoffAt, P!BackoffAt, D!Answers, P!Answers,
         D!NoAns, P!NoAns, D!Frames, P!Frames, D!Horizon, P!Horizon
<1>4. D!SendPacket <=> P!SendPacket
  BY DEF D!SendPacket, P!SendPacket, D!AdaptiveDataRate, P!AdaptiveDataRate,
         D!NothingToGain, P!NothingToGain, D!CountSilence, P!CountSilence,
         D!BackOff, P!BackOff, D!MoreRobust, P!MoreRobust, D!Degradable,
         P!Degradable, D!Counted, P!Counted, D!BackoffAt, P!BackoffAt,
         D!settings, P!settings, D!counter, P!counter, D!Accepted, P!Accepted,
         D!Refused, P!Refused, D!Frame, P!Frame, D!Fits, P!Fits, D!life, P!life,
         D!NoAns, P!NoAns, D!Longer, P!Longer, D!Horizon, P!Horizon
<1>5. D!StopApplication <=> P!StopApplication
  BY DEF D!StopApplication, P!StopApplication, D!settings, P!settings,
         D!counter, P!counter, D!owed, P!owed, D!ghost, P!ghost
<1>6. D!Serve <=> P!Serve
  BY DEF D!Serve, P!Serve, D!settings, P!settings, D!counter, P!counter,
         D!owed, P!owed, D!life, P!life, D!ghost, P!ghost
<1>7. ASSUME NEW dl
      PROVE  D!HandleDSPacket(dl) <=> P!HandleDSPacket(dl)
  BY DEF D!HandleDSPacket, P!HandleDSPacket, D!ResetBackoff, P!ResetBackoff,
         D!counter, P!counter, D!settings, P!settings, D!NoCmd, P!NoCmd,
         D!Apply, P!Apply, D!Reserved, P!Reserved, D!life, P!life
<1>8. D!Downlinks = P!Downlinks
  BY DEF D!Downlinks, P!Downlinks, D!NoCmd, P!NoCmd, D!Commands, P!Commands,
         D!Reserved, P!Reserved, D!NoChange, P!NoChange
<1>9. D!Next => P!Next
  BY <1>4, <1>5, <1>6, <1>7, <1>8 DEF D!Next, P!Next
<1> QED BY <1>1, <1>2, <1>3, <1>9

\* Commands and data fit what the application handles.
LEMMA ReceivedIsDownlink ==
  ASSUME TypeOK
  PROVE  [conf |-> downlink.conf, cmd |-> downlink.cmd] \in D!Downlinks
BY DEF TypeOK, D!Downlinks

\* A step of the loop is one of the device, or leaves the device alone.
LEMMA DeviceStep ==
  ASSUME TypeOK, [Next]_vars
  PROVE  [D!Next]_(D!vars)
<1>1. UNCHANGED device => UNCHANGED D!vars
  BY DEF device, D!vars, D!settings, D!counter, D!owed, D!life, D!ghost
<1>2. CASE SendPacket \/ StopApplication \/ NextPacket
  BY <1>2 DEF SendPacket, StopApplication, NextPacket, D!Next
<1>3. CASE Again \/ Hear
  BY <1>1, <1>3 DEF Again, Hear
<1>4. CASE SendData \/ SendEmpty
  BY <1>1, <1>4 DEF SendData, SendEmpty, Emit
<1>5. CASE Receive
  BY <1>1, <1>5, ReceivedIsDownlink DEF Receive, D!Next
<1>6. CASE UNCHANGED vars
  BY <1>1, <1>6 DEF vars
<1> QED BY <1>2, <1>3, <1>4, <1>5, <1>6 DEF Next
-----------------------------------------------------------------------------
(***************************************************************************)
(* The invariant.                                                          *)
(***************************************************************************)
\* The constants as numbers.
LEMMA LoopNumbers ==
  /\ AdrFrequency \in Nat \ {0} /\ HistorySize \in Nat \ {0}
  /\ MaxDr \in Nat /\ MaxTx \in Nat /\ Gains \subseteq Int
  /\ PowerStep \in Nat /\ MarginDb \in Nat
  /\ \A d \in 0 .. MaxDr : Required[d] \in Int
BY LoopAssumption, AlgorithmAssumption

\* Nothing has been sent in the initial states.
LEMMA LoopInit == Init => LoopIInv
<1> SUFFICES ASSUME Init PROVE LoopIInv
  OBVIOUS
<1>1. P!IInv
  BY P!InitIInv, DeviceOfLoop, SameDevice
     DEF Init, P!DeviceAssumption, D!DeviceAssumption
<1>2. D!TypeOK
  BY <1>1, SameDevice DEF P!IInv
<1>3. requests = <<>>
  BY DEF Init, D!Init
<1>4. history \in Seq(Int) /\ Len(history) <= HistorySize
  BY LoopNumbers DEF Init
<1>5. TypeOK
  <2>1. downlink \in [conf : BOOLEAN, cmd : {D!NoCmd} \union D!Commands, sent : BOOLEAN]
    BY DEF Init, NoDownlink
  <2>2. lastDr \in 0 .. MaxDr /\ lastTx \in 0 .. MaxTx /\ unique \in 0 .. AdrFrequency - 1
    BY LoopNumbers DEF Init
  <2> QED BY <1>2, <1>4, <2>1, <2>2 DEF Init, TypeOK
<1>6. CommandsFit
  BY DEF Init, NoDownlink, CommandsFit
<1>7. QueueFits /\ StartsFromFrame /\ HasHistory
  BY <1>3 DEF Init, QueueFits, StartsFromFrame, HasHistory
<1> QED BY <1>1, <1>5, <1>6, <1>7 DEF LoopIInv

\* The settings that the server computes from an entry that was heard.
LEMMA ResultRange ==
  ASSUME LoopIInv, setAdr
  PROVE  /\ BestSnr \in Int
         /\ Result \in [dr : 0 .. MaxDr, tx : 0 .. MaxTx]
         /\ Result.dr >= lastDr
<1>1. history \in Seq(Int) /\ history # <<>>
      /\ lastDr \in 0 .. MaxDr /\ lastTx \in 0 .. MaxTx
  BY DEF LoopIInv, HasHistory, TypeOK
<1>2. BestSnr \in Int
  BY <1>1, Best
<1> QED BY <1>1, <1>2, SettingsRange DEF Result

\* The application keeps its invariant.
LEMMA DeviceKeeps ==
  ASSUME LoopIInv, [Next]_vars
  PROVE  P!IInv' /\ D!TypeOK'
<1>1. [P!Next]_(P!vars)
  BY DeviceStep, SameDevice DEF LoopIInv
<1>2. P!IInv'
  BY <1>1, P!NextIInv, DeviceOfLoop
     DEF LoopIInv, P!DeviceAssumption, D!DeviceAssumption
<1> QED BY <1>2, SameDevice DEF P!IInv

\* Packets join the queue with a data rate that takes them.
LEMMA QueueKeeps ==
  ASSUME LoopIInv, [Next]_vars
  PROVE  QueueFits'
<1>1. QueueFits /\ requests \in Seq(D!Frames)
  BY DEF LoopIInv, TypeOK, D!TypeOK
<1>2. CASE requests' = requests
  BY <1>1, <1>2 DEF QueueFits, D!Fits
<1>3. CASE D!Accepted
  <2> DEFINE f == D!Frame
  <2>1. D!Fits(f.dr)
    BY <1>3 DEF D!Accepted, D!Frame
  <2>2. requests' = Append(requests, f)
    BY <1>3 DEF D!Accepted
  <2> HIDE DEF f
  <2>3. \A i \in DOMAIN requests' :
          \/ i \in DOMAIN requests /\ requests'[i] = requests[i]
          \/ requests'[i] = f
    BY <1>1, <2>2
  <2> QED BY <1>1, <2>1, <2>3 DEF QueueFits, D!Fits
<1>4. CASE D!Serve
  <2>1. requests # <<>> /\ requests' = Tail(requests)
    BY <1>4 DEF D!Serve
  <2>2. \A i \in DOMAIN requests' :
          i + 1 \in DOMAIN requests /\ requests'[i] = requests[i + 1]
    BY <1>1, <2>1
  <2> QED BY <1>1, <2>2 DEF QueueFits, D!Fits
<1>5. CASE D!SendPacket
  BY <1>2, <1>3, <1>5 DEF D!SendPacket, D!Refused
<1>6. CASE UNCHANGED D!vars \/ D!StopApplication
           \/ \E dl \in D!Downlinks : D!HandleDSPacket(dl)
  BY <1>2, <1>6 DEF D!vars, D!StopApplication, D!HandleDSPacket
<1>7. [D!Next]_(D!vars)
  BY DeviceStep DEF LoopIInv
<1> QED BY <1>4, <1>5, <1>6, <1>7 DEF D!Next

\* The steps of the device leave the server alone, and those of the MAC and of
\* the channel end an attempt or take it further.
LEMMA AttemptKeeps ==
  ASSUME LoopIInv,
         SendPacket \/ StopApplication \/ NextPacket \/ Again \/ Receive
         \/ UNCHANGED vars
  PROVE  LoopIInv'
<1>1. /\ UNCHANGED <<entry, gain>>
      /\ \/ /\ UNCHANGED <<known, downlink>>
            /\ phase' = phase \/ phase' = "received"
         \/ /\ phase' = "idle" /\ downlink' = NoDownlink
            /\ known' = known \/ known' = FALSE
  BY DEF SendPacket, StopApplication, NextPacket, Again, Receive, vars, attempt
<1>2. TypeOK /\ CommandsFit /\ StartsFromFrame /\ HasHistory
  BY DEF LoopIInv
<1>3. [Next]_vars
  BY DEF Next
<1>4. P!IInv' /\ D!TypeOK' /\ QueueFits'
  BY <1>3, DeviceKeeps, QueueKeeps
<1>5. NoDownlink \in [conf : BOOLEAN, cmd : {D!NoCmd} \union D!Commands, sent : BOOLEAN]
      /\ NoDownlink.cmd = D!NoCmd
  BY DEF NoDownlink
<1>6. TypeOK'
  <2>1. /\ known' \in BOOLEAN
        /\ phase' \in {"idle", "heard", "replied", "received"}
        /\ downlink' \in [conf : BOOLEAN, cmd : {D!NoCmd} \union D!Commands,
                          sent : BOOLEAN]
    BY <1>1, <1>2, <1>5 DEF TypeOK
  <2> QED BY <1>1, <1>2, <1>4, <2>1 DEF TypeOK, entry, D!NoCmd, D!Commands
<1>7. CommandsFit'
  BY <1>1, <1>2, <1>5 DEF CommandsFit, D!Fits, D!NoCmd
<1>8. StartsFromFrame' /\ HasHistory'
  BY <1>1, <1>2 DEF StartsFromFrame, HasHistory, entry, D!Fits
<1> QED BY <1>4, <1>6, <1>7, <1>8 DEF LoopIInv

\* The newest SNR joins the history, which does not outgrow its limit.
LEMMA NewestType ==
  ASSUME TypeOK, NEW s \in Int
  PROVE  /\ Newest(s) \in Seq(Int) /\ Newest(s) # <<>>
         /\ Len(Newest(s)) <= HistorySize
<1>1. history \in Seq(Int) /\ Len(history) \in Nat
  BY DEF TypeOK
<1> DEFINE longer == <<s>> \o history
           n == Least(HistorySize, Len(history) + 1)
<1>2. longer \in Seq(Int) /\ Len(longer) = Len(history) + 1
  BY <1>1
<1>3. n \in 1 .. Len(history) + 1 /\ n <= HistorySize
  BY <1>1, LoopNumbers DEF Least
<1> HIDE DEF longer, n
<1>4. SubSeq(longer, 1, n) \in Seq(Int) /\ Len(SubSeq(longer, 1, n)) = n
  BY <1>1, <1>2, <1>3
<1> QED BY <1>3, <1>4 DEF Newest, longer, n

\* The server hears a frame that was accepted with its data rate.
LEMMA HearKeeps == LoopIInv /\ Hear => LoopIInv'
<1> SUFFICES ASSUME LoopIInv, Hear PROVE LoopIInv'
  OBVIOUS
<1>1. /\ phase = "idle" /\ requests # <<>>
      /\ HearNew \/ HearAgain
      /\ lastDr' = Head(requests).dr
      /\ owesAck' = (owesAck \/ Confirmed \/ Head(requests).req)
      /\ phase' = "heard" /\ known' = TRUE
      /\ downlink' = downlink /\ lastTx' = lastTx /\ gain' = gain
      /\ requests' = requests
  BY DEF Hear, device
<1>2. TypeOK /\ CommandsFit /\ QueueFits /\ StartsFromFrame /\ HasHistory
  BY DEF LoopIInv
<1>3. [Next]_vars
  BY DEF Next
<1>4. P!IInv' /\ D!TypeOK' /\ QueueFits'
  BY <1>3, DeviceKeeps, QueueKeeps
<1>5. Head(requests) \in D!Frames /\ D!Fits(Head(requests).dr)
  <2>1. requests \in Seq(D!Frames)
    BY <1>2 DEF TypeOK, D!TypeOK
  <2>2. 1 \in DOMAIN requests /\ Head(requests) = requests[1]
        /\ requests[1] \in D!Frames
    BY <1>1, <2>1
  <2> QED BY <1>2, <2>2 DEF QueueFits
<1>6. Head(requests).dr \in 0 .. MaxDr /\ Head(requests).tx \in 0 .. MaxTx
      /\ Head(requests).req \in BOOLEAN
  BY <1>5 DEF D!Frames
<1>7. /\ history' \in Seq(Int) /\ Len(history') <= HistorySize
      /\ unique' \in 0 .. AdrFrequency - 1 /\ setAdr' \in BOOLEAN
      /\ HasHistory'
  <2>1. CASE HearNew
    <3>1. gain \in Int
      BY <1>2, LoopNumbers DEF TypeOK
    <3>2. Snr(Head(requests).tx) \in Int
      BY <1>6, <3>1, LoopNumbers DEF Snr
    <3>3. history' = Newest(Snr(Head(requests).tx))
      BY <2>1 DEF HearNew
    <3>4. history' \in Seq(Int) /\ history' # <<>> /\ Len(history') <= HistorySize
      BY <1>2, <3>2, <3>3, NewestType
    <3>5. unique' \in 0 .. AdrFrequency - 1
      BY <1>2, <2>1, LoopNumbers DEF HearNew, TypeOK
    <3>6. setAdr' \in BOOLEAN
      BY <1>2, <2>1 DEF HearNew, TypeOK
    <3> QED BY <3>4, <3>5, <3>6 DEF HasHistory
  <2>2. CASE HearAgain
    BY <1>2, <2>2 DEF HearAgain, TypeOK, HasHistory
  <2> QED BY <1>1, <2>1, <2>2
<1>8. TypeOK'
  <2>1. owesAck' \in BOOLEAN
    BY <1>1
  <2> QED BY <1>1, <1>2, <1>4, <1>6, <1>7, <2>1 DEF TypeOK, D!NoCmd, D!Commands
<1>9. CommandsFit'
  BY <1>1, <1>2 DEF CommandsFit, D!Fits, D!NoCmd
<1>10. StartsFromFrame'
  BY <1>1, <1>5 DEF StartsFromFrame, D!Fits
<1> QED BY <1>4, <1>7, <1>8, <1>9, <1>10 DEF LoopIInv

\* A command is no slower than the frame that it answers.
LEMMA EmitKeeps ==
  ASSUME LoopIInv, SendData \/ SendEmpty
  PROVE  LoopIInv'
<1>1. PICK conf \in BOOLEAN : Emit(conf)
  BY LoopAssumption DEF SendData, SendEmpty
<1>2. /\ phase = "heard"
      /\ downlink' = [conf |-> conf, cmd |-> Cmd, sent |-> TRUE]
      /\ lastTx' = IF setAdr THEN Result.tx ELSE lastTx
      /\ setAdr' = FALSE /\ owesAck' = FALSE
      /\ phase' = "replied"
      /\ UNCHANGED <<device, known, lastDr, unique, history, gain>>
  BY <1>1 DEF Emit
<1>3. TypeOK /\ StartsFromFrame
  BY DEF LoopIInv
<1>4. [Next]_vars
  BY DEF Next
<1>5. P!IInv' /\ D!TypeOK' /\ QueueFits'
  BY <1>4, DeviceKeeps, QueueKeeps
<1>6. Cmd = D!NoCmd \/ (setAdr /\ Cmd = Result)
  BY DEF Cmd
<1>7. Cmd \in {D!NoCmd} \union D!Commands
  <2>1. CASE Cmd = D!NoCmd
    BY <2>1
  <2>2. CASE setAdr /\ Cmd = Result
    BY <2>2, ResultRange DEF D!Commands
  <2> QED BY <1>6, <2>1, <2>2
<1>8. lastTx' \in 0 .. MaxTx
  <2>1. CASE setAdr
    BY <1>2, <2>1, ResultRange
  <2>2. CASE ~setAdr
    BY <1>2, <1>3, <2>2 DEF TypeOK
  <2> QED BY <2>1, <2>2
<1>9. TypeOK'
  BY <1>2, <1>3, <1>5, <1>7, <1>8 DEF TypeOK, D!NoCmd, D!Commands
<1>10. CommandsFit'
  <2>1. CASE Cmd = D!NoCmd
    BY <1>2, <2>1 DEF CommandsFit, D!NoCmd
  <2>2. CASE setAdr /\ Cmd = Result
    <3>1. D!Fits(lastDr)
      BY <1>2, <1>3 DEF StartsFromFrame
    <3>2. Result.dr >= lastDr /\ Result.dr \in Int /\ lastDr \in Int /\ FitsFrom \in Int
      BY <1>3, <2>2, ResultRange, LoopNumbers, DeviceOfLoop
         DEF TypeOK, D!DeviceAssumption
    <3>3. D!Fits(Result.dr)
      BY <3>1, <3>2 DEF D!Fits
    <3> QED BY <1>2, <2>2, <3>3 DEF CommandsFit, D!Fits
  <2> QED BY <1>6, <2>1, <2>2
<1>11. StartsFromFrame' /\ HasHistory'
  BY <1>2 DEF StartsFromFrame, HasHistory
<1> QED BY <1>5, <1>9, <1>10, <1>11 DEF LoopIInv

\* Every step keeps the invariant.
LEMMA LoopStep == LoopIInv /\ [Next]_vars => LoopIInv'
BY AttemptKeeps, HearKeeps, EmitKeeps DEF Next

-----------------------------------------------------------------------------
\* The inductive invariant of the loop: what waits was accepted with its data
\* rate, and the server computes from what it has heard.
THEOREM LoopInvariance == Spec => []LoopIInv
BY LoopInit, LoopStep, PTL DEF Spec

\* LinkADRReqs fit the packets, for every link and every history: the server never
\* commands a data rate at which SendPacket of the device would be refused.
THEOREM LoopIsSafe == Spec => []LoopInv
<1>1. LoopIInv => LoopInv
  BY DEF LoopIInv, LoopInv
<1> QED BY <1>1, LoopInvariance, PTL

\* The device in the loop is an EndDeviceApplication, whatever the link does and the
\* server answers: each step of the loop is one of its steps, or none.
THEOREM LoopImplementsDevice == Spec => ImplementsDevice
<1>1. Init => D!Init
  BY DEF Init
<1>2. LoopIInv /\ [Next]_vars => [D!Next]_(D!vars)
  BY DeviceStep DEF LoopIInv
<1> QED BY <1>1, <1>2, LoopInvariance, PTL DEF Spec, ImplementsDevice, D!Spec

\* In the loop, too, adaptiveDataRate gives up power and data rate exactly on
\* schedule.
THEOREM LoopBacksOffOnSchedule == Spec => []D!OnSchedule
<1>1. LoopIInv => D!OnSchedule
  BY DEF LoopIInv, P!IInv, P!OnSchedule, D!OnSchedule, P!Degraded, D!Degraded,
         P!Backoffs, D!Backoffs
<1> QED BY <1>1, LoopInvariance, PTL

\* A command leaves the link its margin: the newest power that the server knows of
\* bounds what it has heard, and the steps cost no more than the margin.
THEOREM CommandsKeepMargin == Spec => SyncedCommandKeepsMargin
<1>1. ASSUME LoopIInv, [Next]_vars,
             downlink'.cmd # downlink.cmd, downlink'.cmd # D!NoCmd,
             \A i \in DOMAIN history : history[i] <= Snr(lastTx)
      PROVE  Snr(downlink'.cmd.tx) - Required[downlink'.cmd.dr] >= MarginDb
  <2>1. SendData \/ SendEmpty
    <3>1. CASE SendPacket \/ StopApplication \/ NextPacket \/ Again \/ Hear
               \/ Receive \/ UNCHANGED vars
      <4>1. downlink' = downlink \/ downlink' = NoDownlink
        BY <3>1 DEF SendPacket, StopApplication, NextPacket, Again, Hear, Receive,
                    vars, attempt
      <4> QED BY <1>1, <4>1 DEF NoDownlink
    <3> QED BY <1>1, <3>1 DEF Next
  <2>2. downlink'.cmd = Cmd
    BY <2>1 DEF SendData, SendEmpty, Emit
  <2>3. setAdr /\ Result.dr # lastDr /\ downlink'.cmd = Result
    BY <1>1, <2>2 DEF Cmd
  <2>4. /\ history \in Seq(Int) /\ history # <<>> /\ gain \in Int
        /\ lastDr \in 0 .. MaxDr /\ lastTx \in 0 .. MaxTx
    BY <1>1, <2>3, LoopNumbers DEF LoopIInv, TypeOK, HasHistory
  <2>5. BestSnr \in Int /\ BestSnr <= Snr(lastTx)
    BY <1>1, <2>4, Best
  <2>6. Result \in [dr : 0 .. MaxDr, tx : 0 .. MaxTx]
    BY <1>1, <2>3, ResultRange
  <2>7. Required[Result.dr] + PowerStep * (Result.tx - lastTx) <= BestSnr - MarginDb
    BY <2>3, <2>4, <2>5, SettingsKeepMargin DEF Result
  <2>8. PowerStep * (Result.tx - lastTx) = PowerStep * Result.tx - PowerStep * lastTx
        /\ PowerStep * Result.tx \in Int /\ PowerStep * lastTx \in Int
    BY <2>4, <2>6, LoopNumbers
  <2>9. Required[Result.dr] \in Int /\ MarginDb \in Int
    BY <2>6, LoopNumbers
  <2>10. Snr(Result.tx) - Required[Result.dr] >= MarginDb
    BY <2>4, <2>5, <2>7, <2>8, <2>9 DEF Snr
  <2> QED BY <2>3, <2>10
<1>2. LoopIInv /\ [Next]_vars =>
        [downlink'.cmd # downlink.cmd /\ downlink'.cmd # D!NoCmd
           /\ (\A i \in DOMAIN history : history[i] <= Snr(lastTx)) =>
             Snr(downlink'.cmd.tx) - Required[downlink'.cmd.dr] >= MarginDb]_vars
  BY <1>1
<1> QED BY <1>2, LoopInvariance, PTL DEF Spec, SyncedCommandKeepsMargin

-----------------------------------------------------------------------------
(***************************************************************************)
(* Frames.  A header is laid out in the bytes of a frame as its sender     *)
(* meant it, and from that follows what both readers make of it.           *)
(***************************************************************************)
\* A number of 32 bits.
Long(n) == n \in Nat /\ n \div 65536 < 65536

\* What a sender means.
Meant(m) ==
  /\ m.up \in BOOLEAN /\ m.conf \in BOOLEAN
  /\ Long(m.addr)
  /\ m.counter \in Nat
  /\ m.control \in Byte /\ m.control % 16 = FOptsLen(m.options)
  /\ m.port \in {NoPort, 1}
  /\ m.payload \in Seq(Byte)
  /\ \/ m.command = NoCommand /\ m.options = <<>>
     \/ m.up /\ m.command \in Answers /\ m.options = LinkADRAns(m.command)
     \/ ~m.up /\ m.command \in Commands /\ m.options = LinkADRReq(m.command)
  /\ 8 + Len(m.options) + Len(m.payload) <= MaxSize
  /\ m.up => 13 + Len(m.options) + Len(m.payload) = PacketSize

\* Where the fields of m are in the bytes b.
LaidOut(m, b) ==
  /\ b \in Seq(Byte) /\ Len(b) = 8 + Len(m.options) + Len(m.payload)
  /\ Len(m.options) \in Nat /\ Len(m.payload) \in Nat
  /\ \A i \in 1 .. 4 : b[i] = U32(m.addr)[i]
  /\ b[5] = m.control
  /\ b[6] = U16(m.counter)[1] /\ b[7] = U16(m.counter)[2]
  /\ m.port # NoPort => b[8] = m.port
  /\ \A i \in 1 .. Len(m.options) : b[8 + i] = m.options[i]
  /\ Without(b, 8 + Len(m.options)) = m.payload

\* What the receiver takes from the bytes b is what m says.
ReadAsMeant(m, b, d) ==
  /\ ReadU32(b) = m.addr
  /\ d.addr = m.addr /\ d.control = m.control /\ b[5] = m.control
  /\ d.counter = m.counter % 65536
  /\ m.port # NoPort => d.port = m.port
  /\ ReadLinkADR(m.up, d.command) = m.command
  /\ d.payload = m.payload

\* The bytes of a PHYPayload around those of its MACPayload.
Wrapped(m, b) == <<MsgType(m.up, m.conf) * 32>> \o b \o Zeros(4)

FrameIInv ==
  /\ stage \in {"idle", "MACPayload", "PHYPayload", "received", "delivered"}
  /\ frame \in Seq(Byte)
  /\ stage # "idle" => Meant(sent)
  /\ stage \in {"MACPayload", "received", "delivered"} => LaidOut(sent, frame)
  /\ stage = "PHYPayload" => \E b : LaidOut(sent, b) /\ frame = Wrapped(sent, b)
  /\ stage \in {"received", "delivered"} => peeked = Peek(frame)
  /\ stage = "delivered" => read = Deserialize(frame, IF sent.up THEN 1 ELSE 4)

\* What one iteration of the loop makes of the rest of it, f.
Iteration(bytes, arguments, f, p) ==
  IF p.fOptsLen = 0 \/ p.at + arguments > Len(bytes)
    THEN [command |-> <<>>, next |-> p.at]
  ELSE IF bytes[p.at] = LinkADR
    THEN [f[[fOptsLen |-> (p.fOptsLen - 1 - arguments) % 256,
             at |-> p.at + 1 + arguments]]
            EXCEPT !.command = SubSeq(bytes, p.at, p.at + arguments)]
  ELSE f[[fOptsLen |-> p.fOptsLen - 1, at |-> p.at + 1]]
Places == [fOptsLen : Byte, at : Nat]

\* The loop of Deserialize ends: there is a function that is what its iterations
\* make of it, for it gets closer to the end of the bytes with each of them.
LEMMA OptionsExist ==
  ASSUME NEW bytes, Len(bytes) \in Nat, NEW arguments \in Nat \ {0}
  PROVE  \E f : f = [p \in Places |-> Iteration(bytes, arguments, f, p)]
<1> DEFINE Close(n) == {p \in Places : p.at + n > Len(bytes)}
           Works(f, n) == \A p \in Close(n) : f[p] = Iteration(bytes, arguments, f, p)
           S == {n \in Nat : \E f : Works(f, n)}
           Last(p) == p.fOptsLen = 0 \/ p.at + arguments > Len(bytes)
           AfterCommand(p) == [fOptsLen |-> (p.fOptsLen - 1 - arguments) % 256,
                               at |-> p.at + 1 + arguments]
           AfterByte(p) == [fOptsLen |-> p.fOptsLen - 1, at |-> p.at + 1]
\* The value at a place depends on places behind it only.
<1>1. ASSUME NEW p \in Places, NEW f, NEW g,
             f[AfterCommand(p)] = g[AfterCommand(p)] \/ Last(p),
             f[AfterByte(p)] = g[AfterByte(p)] \/ Last(p)
      PROVE  Iteration(bytes, arguments, f, p) = Iteration(bytes, arguments, g, p)
  BY <1>1 DEF Iteration
<1>2. ASSUME NEW n \in Nat, NEW p \in Close(n + 1), ~Last(p)
      PROVE  AfterCommand(p) \in Close(n) /\ AfterByte(p) \in Close(n)
  <2>1. p \in Places /\ p.fOptsLen \in 0 .. 255 /\ p.at \in Nat
        /\ p.at + (n + 1) > Len(bytes)
    BY DEF Places, Byte
  <2>2. p.fOptsLen # 0
    BY <1>2
  <2>3. (p.fOptsLen - 1 - arguments) % 256 \in 0 .. 255
    <3>1. ASSUME NEW l \in 0 .. 255 PROVE (l - 1 - arguments) % 256 \in 0 .. 255
      <4>1. l - 1 - arguments \in Int
        OBVIOUS
      <4> QED BY <4>1
    <3> QED BY <2>1, <3>1
  <2>4. AfterCommand(p) \in Places /\ AfterByte(p) \in Places
    BY <2>1, <2>2, <2>3 DEF Places, Byte
  <2>5. AfterCommand(p).at = p.at + 1 + arguments /\ AfterByte(p).at = p.at + 1
    OBVIOUS
  <2> HIDE DEF AfterCommand, AfterByte
  <2> QED BY <2>1, <2>4, <2>5
<1>3. ASSUME NEW n \in Nat, NEW p \in Close(n) PROVE p \in Close(n + 1)
  BY DEF Places
<1> HIDE DEF AfterCommand, AfterByte, Close
<1>4. 0 \in S
  <2> DEFINE f == [p \in Places |-> [command |-> <<>>, next |-> p.at]]
  <2>1. Works(f, 0)
    <3> SUFFICES ASSUME NEW p \in Close(0) PROVE f[p] = Iteration(bytes, arguments, f, p)
      OBVIOUS
    <3>1. p \in Places /\ p.at \in Nat /\ p.at > Len(bytes)
      BY DEF Close, Places
    <3>2. Last(p)
      BY <3>1
    <3> QED BY <3>1, <3>2 DEF Iteration
  <2> QED BY <2>1
<1>5. ASSUME NEW n \in Nat, n \in S PROVE n + 1 \in S
  <2>1. PICK f : Works(f, n)
    BY <1>5
  <2> DEFINE g == [p \in Places |-> IF p \in Close(n) THEN f[p]
                                     ELSE Iteration(bytes, arguments, f, p)]
  <2>2. Close(n) \subseteq Places /\ Close(n + 1) \subseteq Places
    BY DEF Close
  <2>3. \A p \in Close(n) : g[p] = f[p]
    BY <2>2
  <2>4. Works(g, n + 1)
    <3> SUFFICES ASSUME NEW p \in Close(n + 1)
                 PROVE  g[p] = Iteration(bytes, arguments, g, p)
      OBVIOUS
    <3>1. g[p] = Iteration(bytes, arguments, f, p)
      BY <2>1, <2>2
    <3>2. Iteration(bytes, arguments, f, p) = Iteration(bytes, arguments, g, p)
      <4> HIDE DEF g, Last
      <4>1. ~Last(p) => g[AfterCommand(p)] = f[AfterCommand(p)]
                        /\ g[AfterByte(p)] = f[AfterByte(p)]
        BY <1>2, <2>3
      <4> QED BY <1>1, <2>2, <4>1
    <3> QED BY <3>1, <3>2
  <2> HIDE DEF g
  <2> QED BY <2>4
<1>6. Len(bytes) + 1 \in S
  <2>1. \A n \in Nat : n \in S
    <3> HIDE DEF S
    <3> QED BY <1>4, <1>5, Induction
  <2> QED BY <2>1
<1>7. PICK f : Works(f, Len(bytes) + 1)
  BY <1>6
<1>8. Close(Len(bytes) + 1) = Places
  <2>1. \A p \in Places : p.at \in Nat
    BY DEF Places
  <2>2. \A p \in Places : p.at + (Len(bytes) + 1) > Len(bytes)
    BY <2>1
  <2> QED BY <2>2 DEF Close
<1> DEFINE g == [p \in Places |-> f[p]]
<1>9. \A p \in Places : g[p] = Iteration(bytes, arguments, g, p)
  <2> SUFFICES ASSUME NEW p \in Places PROVE g[p] = Iteration(bytes, arguments, g, p)
    OBVIOUS
  <2>1. g[p] = Iteration(bytes, arguments, f, p)
    BY <1>7, <1>8
  <2>2. Iteration(bytes, arguments, f, p) = Iteration(bytes, arguments, g, p)
    <3>1. ~Last(p) => AfterCommand(p) \in Places /\ AfterByte(p) \in Places
      <4>1. p \in Close(Len(bytes) + 1)
        BY <1>8
      <4>2. p \in Close((Len(bytes) + 1) + 1)
        BY <1>3, <4>1
      <4> QED BY <1>2, <1>8, <4>2
    <3>2. ~Last(p) => g[AfterCommand(p)] = f[AfterCommand(p)]
                        /\ g[AfterByte(p)] = f[AfterByte(p)]
      BY <3>1
    <3> HIDE DEF g, Last
    <3> QED BY <1>1, <3>2
  <2> QED BY <2>1, <2>2
<1>10. g = [p \in Places |-> Iteration(bytes, arguments, g, p)]
  <2>1. g = [p \in Places |-> g[p]]
    OBVIOUS
  <2> HIDE DEF g
  <2> QED BY <1>9, <2>1, Zenon
<1> HIDE DEF g
<1> QED BY <1>10

\* Without options nothing is read; a LinkADR command of the length that FOptsLen
\* says is read with its arguments, and reading goes on behind it.
LEMMA OptionsRead ==
  ASSUME NEW bytes \in Seq(Byte), NEW arguments \in 1 .. 14, Len(bytes) >= 8
  PROVE  /\ bytes[5] % 16 = 0 =>
              ReadOptions(bytes, arguments) = [command |-> <<>>, next |-> 9]
         /\ /\ bytes[5] % 16 = arguments + 1
            /\ Len(bytes) >= 9 + arguments /\ bytes[9] = LinkADR
            => ReadOptions(bytes, arguments)
                 = [command |-> SubSeq(bytes, 9, 9 + arguments), next |-> 10 + arguments]
<1> DEFINE Options == CHOOSE f : f = [p \in Places |-> Iteration(bytes, arguments, f, p)]
           first == [fOptsLen |-> bytes[5] % 16, at |-> 9]
           next == [fOptsLen |-> 0, at |-> 10 + arguments]
<1>1. ReadOptions(bytes, arguments) = Options[first]
  BY DEF ReadOptions, Places, Iteration, FOPTSLEN
<1>2. Options = [p \in Places |-> Iteration(bytes, arguments, Options, p)]
  <2>1. Len(bytes) \in Nat /\ arguments \in Nat \ {0}
    OBVIOUS
  <2> QED BY <2>1, OptionsExist
<1> HIDE DEF Options
<1>3. first \in Places /\ next \in Places
  <2>1. 5 \in 1 .. Len(bytes)
    OBVIOUS
  <2>2. bytes[5] \in Byte
    BY <2>1
  <2>3. \A b \in 0 .. 255 : b % 16 \in 0 .. 255
    OBVIOUS
  <2>4. bytes[5] % 16 \in 0 .. 255
    BY <2>2, <2>3 DEF Byte
  <2> QED BY <2>4 DEF Places, Byte
<1>4. \A p \in Places : Options[p] = Iteration(bytes, arguments, Options, p)
  BY <1>2
<1>5. ASSUME bytes[5] % 16 = 0
      PROVE  Options[first] = [command |-> <<>>, next |-> 9]
  BY <1>3, <1>4, <1>5 DEF Iteration
<1>6. ASSUME bytes[5] % 16 = arguments + 1,
             Len(bytes) >= 9 + arguments, bytes[9] = LinkADR
      PROVE  Options[first] = [command |-> SubSeq(bytes, 9, 9 + arguments), next |-> 10 + arguments]
  <2>1. Options[next] = [command |-> <<>>, next |-> 10 + arguments]
    BY <1>3, <1>4 DEF Iteration
  <2>2. (first.fOptsLen - 1 - arguments) % 256 = 0 /\ first.at = 9 /\ first.fOptsLen # 0
    BY <1>6
  <2>3. [fOptsLen |-> (first.fOptsLen - 1 - arguments) % 256,
         at |-> first.at + 1 + arguments] = next
    BY <2>2
  <2>4. Options[first] = [Options[next] EXCEPT !.command = SubSeq(bytes, 9, 9 + arguments)]
    <3>1. Options[first] = Iteration(bytes, arguments, Options, first)
      BY <1>3, <1>4
    <3>2. ~(first.at + arguments > Len(bytes)) /\ bytes[first.at] = LinkADR
      BY <1>6, <2>2
    <3> HIDE DEF first, next
    <3> QED BY <2>2, <2>3, <3>1, <3>2 DEF Iteration
  <2>5. ASSUME NEW r, NEW n, NEW d, r = [command |-> <<>>, next |-> n]
        PROVE  [r EXCEPT !.command = d] = [command |-> d, next |-> n]
    BY <2>5
  <2>6. [Options[next] EXCEPT !.command = SubSeq(bytes, 9, 9 + arguments)]
          = [command |-> SubSeq(bytes, 9, 9 + arguments), next |-> 10 + arguments]
    BY <2>1, <2>5, Zenon
  <2> QED BY <2>4, <2>6, Zenon
<1> QED BY <1>1, <1>5, <1>6

\* The bytes of two sequences in a row are those of the one, then those of the other.
LEMMA Joined ==
  ASSUME NEW s \in Seq(Byte), NEW t \in Seq(Byte)
  PROVE  /\ s \o t \in Seq(Byte) /\ Len(s \o t) = Len(s) + Len(t)
         /\ \A i \in 1 .. Len(s) : (s \o t)[i] = s[i]
         /\ \A i \in 1 .. Len(t) : (s \o t)[Len(s) + i] = t[i]
<1>1. Len(s) \in Nat /\ Len(t) \in Nat
  OBVIOUS
<1>2. /\ s \o t \in Seq(Byte)
      /\ Len(s \o t) = Len(s) + Len(t)
      /\ \A i \in 1 .. Len(s) + Len(t) :
           (s \o t)[i] = IF i <= Len(s) THEN s[i] ELSE t[i - Len(s)]
  BY ConcatProperties
<1>3. ASSUME NEW i \in 1 .. Len(t) PROVE (s \o t)[Len(s) + i] = t[i]
  <2>1. Len(s) + i \in 1 .. Len(s) + Len(t) /\ ~(Len(s) + i <= Len(s))
        /\ (Len(s) + i) - Len(s) = i
    BY <1>1
  <2> QED BY <1>2, <2>1
<1> QED BY <1>1, <1>2, <1>3

\* ReadU16 reads the lower half of what WriteU16 was given.
LEMMA WordBytes ==
  ASSUME NEW n \in Nat
  PROVE  /\ U16(n) \in Seq(Byte) /\ Len(U16(n)) = 2
         /\ U16(n)[1] + 256 * U16(n)[2] = n % 65536
<1>1. n % 256 \in 0 .. 255 /\ (n \div 256) % 256 \in 0 .. 255
  <2>1. n \div 256 \in Nat
    OBVIOUS
  <2> QED BY <2>1
<1>2. (n % 256) + 256 * ((n \div 256) % 256) = n % 65536
  OBVIOUS
<1> QED BY <1>1, <1>2 DEF U16, Byte

\* ReadU32 reads what WriteU32 was given.
LEMMA LongBytes ==
  ASSUME NEW n, Long(n)
  PROVE  /\ U32(n) \in Seq(Byte) /\ Len(U32(n)) = 4
         /\ U32(n)[1] + 256 * U32(n)[2] + 65536 * (U32(n)[3] + 256 * U32(n)[4]) = n
<1> DEFINE high == n \div 65536
<1>1. n \in Nat /\ high \in Nat /\ high < 65536
  BY DEF Long
<1>2. (n % 65536) + 65536 * high = n
  BY <1>1
<1>3. high % 65536 = high
  BY <1>1
<1> HIDE DEF high
<1>4. U32(n) = U16(n) \o U16(high)
  BY DEF U32, high
<1>5. /\ U32(n) \in Seq(Byte) /\ Len(U32(n)) = 4
      /\ U32(n)[1] = U16(n)[1] /\ U32(n)[2] = U16(n)[2]
      /\ U32(n)[3] = U16(high)[1] /\ U32(n)[4] = U16(high)[2]
  <2>1. /\ U16(n) \in Seq(Byte) /\ Len(U16(n)) = 2
        /\ U16(high) \in Seq(Byte) /\ Len(U16(high)) = 2
    BY <1>1, WordBytes
  <2>2. ASSUME NEW s \in Seq(Byte), NEW t \in Seq(Byte), Len(s) = 2, Len(t) = 2
        PROVE  /\ s \o t \in Seq(Byte) /\ Len(s \o t) = 4
               /\ (s \o t)[1] = s[1] /\ (s \o t)[2] = s[2]
               /\ (s \o t)[3] = t[1] /\ (s \o t)[4] = t[2]
    <3>1. /\ 1 \in 1 .. Len(s) /\ 2 \in 1 .. Len(s) /\ 1 \in 1 .. Len(t) /\ 2 \in 1 .. Len(t)
          /\ Len(s) + 1 = 3 /\ Len(s) + 2 = 4 /\ Len(s) + Len(t) = 4
      BY <2>2
    <3>2. /\ s \o t \in Seq(Byte) /\ Len(s \o t) = Len(s) + Len(t)
          /\ (s \o t)[1] = s[1] /\ (s \o t)[2] = s[2]
          /\ (s \o t)[Len(s) + 1] = t[1] /\ (s \o t)[Len(s) + 2] = t[2]
      BY <3>1, Joined, Zenon
    <3> QED BY <3>1, <3>2
  <2> QED BY <1>4, <2>1, <2>2
<1>6. /\ U16(n)[1] + 256 * U16(n)[2] = n % 65536
      /\ U16(high)[1] + 256 * U16(high)[2] = high
  BY <1>1, <1>3, WordBytes
<1> QED BY <1>2, <1>5, <1>6

\* The options have the size that their commands claim, and read as the command
\* that was added.
LEMMA OptionsSize ==
  ASSUME NEW m, Meant(m)
  PROVE  /\ m.options \in Seq(Byte) /\ FOptsLen(m.options) = Len(m.options)
         /\ m.command = NoCommand => m.options = <<>>
         /\ m.command # NoCommand =>
              /\ Len(m.options) = IF m.up THEN 2 ELSE 5
              /\ m.options[1] = LinkADR
              /\ ReadLinkADR(m.up, m.options) = m.command
<1>1. CASE m.command = NoCommand /\ m.options = <<>>
  BY <1>1 DEF FOptsLen
<1>2. CASE m.up /\ m.command \in Answers /\ m.options = LinkADRAns(m.command)
  <2>1. PICK p \in BOOLEAN, d \in BOOLEAN, c \in BOOLEAN : m.command = <<p, d, c>>
    BY <1>2 DEF Answers
  <2> DEFINE byte == Flag(p, 4) + Flag(d, 2) + Flag(c, 1)
  <2>2. byte \in 0 .. 255
        /\ IsSet(byte, 4) = p /\ IsSet(byte, 2) = d /\ IsSet(byte, 1) = c
    BY DEF Flag, IsSet
  <2> HIDE DEF byte
  <2>3. m.options = <<3, byte>>
    BY <1>2, <2>1 DEF LinkADRAns, byte, LinkADR
  <2>4. m.options \in Seq(Byte) /\ Len(m.options) = 2 /\ m.options # <<>>
    BY <2>2, <2>3 DEF Byte
  <2>5. ReadLinkADR(m.up, m.options) = <<p, d, c>>
    BY <1>2, <2>2, <2>3, <2>4 DEF ReadLinkADR
  <2>6. m.command # NoCommand
    BY <2>1 DEF NoCommand
  <2>7. m.options[1] = LinkADR
    BY <2>3 DEF LinkADR
  <2>8. FOptsLen(m.options) = Len(m.options)
    BY <2>4 DEF FOptsLen, SizeOfCommand
  <2> QED BY <1>2, <2>1, <2>4, <2>5, <2>6, <2>7, <2>8
<1>3. CASE ~m.up /\ m.command \in Commands /\ m.options = LinkADRReq(m.command)
  <2>1. PICK d \in 0 .. 15, p \in 0 .. 15 : m.command = <<d, p>>
    <3>1. m.command \in (0 .. 15) \X (0 .. 15)
      BY <1>3, FrameAssumption
    <3> QED BY <3>1
  <2> DEFINE byte == d * 16 + p
  <2>2. byte \in 0 .. 255 /\ byte \div 16 = d /\ byte % 16 = p
    OBVIOUS
  <2> HIDE DEF byte
  <2> DEFINE s == <<3, byte>>
             t == <<0, 0>>
             z == <<0>>
  <2>3. m.options = (s \o t) \o z
    <3>1. U16(0) = <<0, 0>>
      BY DEF U16
    <3>2. m.command[1] = d /\ m.command[2] = p
      BY <2>1
    <3>3. m.options = <<LinkADR, m.command[1] * 16 + m.command[2]>> \o U16(0) \o <<0>>
      BY <1>3, Zenon DEF LinkADRReq
    <3> QED BY <3>1, <3>2, <3>3, Zenon DEF byte, LinkADR
  <2>4. /\ m.options \in Seq(Byte) /\ Len(m.options) = 5 /\ m.options # <<>>
        /\ m.options[1] = 3 /\ m.options[2] = byte
    <3>1. /\ s \in Seq(Byte) /\ Len(s) = 2 /\ s[1] = 3 /\ s[2] = byte
          /\ t \in Seq(Byte) /\ Len(t) = 2
          /\ z \in Seq(Byte) /\ Len(z) = 1
      BY <2>2 DEF Byte
    <3> HIDE DEF s, t, z
    <3>2. /\ s \o t \in Seq(Byte) /\ Len(s \o t) = 4
          /\ (s \o t)[1] = 3 /\ (s \o t)[2] = byte
      BY <3>1, Joined
    <3>3. /\ m.options \in Seq(Byte) /\ Len(m.options) = 5
          /\ m.options[1] = 3 /\ m.options[2] = byte
      BY <2>3, <3>1, <3>2, Joined
    <3> QED BY <3>3
  <2>5. ReadLinkADR(m.up, m.options) = <<d, p>>
    BY <1>3, <2>2, <2>4 DEF ReadLinkADR
  <2>6. m.command # NoCommand
    BY <2>1 DEF NoCommand
  <2>7. m.options[1] = LinkADR
    BY <2>4 DEF LinkADR
  <2>8. FOptsLen(m.options) = Len(m.options)
    BY <2>4 DEF FOptsLen, SizeOfCommand
  <2> QED BY <1>3, <2>1, <2>4, <2>5, <2>6, <2>7, <2>8
<1> QED BY <1>1, <1>2, <1>3 DEF Meant

\* Behind the bytes of a header is its payload.
LEMMA Behind ==
  ASSUME NEW s \in Seq(Byte), NEW t \in Seq(Byte)
  PROVE  Without(s \o t, Len(s)) = t
<1>1. Len(s) \in Nat /\ Len(t) \in Nat /\ Len(s \o t) = Len(s) + Len(t)
  BY Joined
<1> DEFINE u == SubSeq(s \o t, Len(s) + 1, Len(s) + Len(t))
<1>2. Without(s \o t, Len(s)) = u
  BY <1>1 DEF Without
<1>3. ASSUME NEW i \in (Len(s) + 1) .. (Len(s) + Len(t)) PROVE (s \o t)[i] \in Byte
  <2>1. i \in 1 .. Len(s \o t)
    BY <1>1
  <2>2. s \o t \in Seq(Byte)
    BY Joined
  <2> QED BY <2>1, <2>2, ElementOfSeq
<1>4. /\ u \in Seq(Byte) /\ Len(u) = Len(t)
      /\ \A i \in 1 .. Len(t) : u[i] = (s \o t)[(Len(s) + 1) + i - 1]
  <2>1. Len(s) + 1 \in Int /\ Len(s) + Len(t) \in Int
        /\ (Len(s) + Len(t)) - (Len(s) + 1) + 1 = Len(t)
        /\ (Len(s) + 1 <= Len(s) + Len(t) <=> Len(t) # 0)
    BY <1>1
  <2> HIDE DEF u
  <2>2. /\ u \in Seq(Byte)
        /\ Len(u) = IF Len(s) + 1 <= Len(s) + Len(t)
                      THEN (Len(s) + Len(t)) - (Len(s) + 1) + 1 ELSE 0
        /\ \A i \in 1 .. (Len(s) + Len(t)) - (Len(s) + 1) + 1 :
             u[i] = (s \o t)[(Len(s) + 1) + i - 1]
    BY <1>3, <2>1, SubSeqProperties DEF u
  <2> QED BY <2>1, <2>2
<1>5. ASSUME NEW i \in 1 .. Len(t) PROVE u[i] = t[i]
  <2>1. (Len(s) + 1) + i - 1 = Len(s) + i
    BY <1>1
  <2>2. (s \o t)[Len(s) + i] = t[i]
    BY Joined, Zenon
  <2> HIDE DEF u
  <2> QED BY <1>4, <2>1, <2>2
<1> HIDE DEF u
<1>6. u = t
  BY <1>4, <1>5, SeqEqual
<1> QED BY <1>2, <1>6

\* As many bytes are reserved for a header as it writes.
LEMMA Added ==
  ASSUME NEW header \in Seq(Byte), NEW payload, Len(header) > 0
  PROVE  AddHeader(header, Len(header), payload) = header \o payload
<1> DEFINE zeros == [i \in 1 .. Len(header) |-> 0]
<1>1. Len(header) \in Nat /\ zeros \in Seq(Byte)
  BY DEF Byte
<1> HIDE DEF zeros
<1>2. SubSeq(header \o zeros, 1, Len(header)) = SubSeq(header, 1, Len(header))
  <2>1. 1 \in 1 .. Len(header) /\ Len(header) \in 1 .. Len(header)
    BY <1>1
  <2> QED BY <1>1, <2>1, SubSeqOfConcat1
<1>3. SubSeq(header, 1, Len(header)) = header
  BY SubSeqFull
<1> QED BY <1>2, <1>3 DEF AddHeader, zeros

\* Serialize writes each field to its place, and as many bytes as
\* GetSerializedSize says.
LEMMA HeaderBytes ==
  ASSUME NEW m, Meant(m), NEW g \in Byte
  PROVE  LET h == Serialize(m, g)
         IN /\ h \in Seq(Byte) /\ Len(h) = 8 + Len(m.options)
            /\ Len(h) = GetSerializedSize(m.port, m.options)
            /\ \A i \in 1 .. 4 : h[i] = U32(m.addr)[i]
            /\ h[5] = m.control
            /\ h[6] = U16(m.counter)[1] /\ h[7] = U16(m.counter)[2]
            /\ m.port # NoPort => h[8] = m.port
            /\ \A i \in 1 .. Len(m.options) : h[8 + i] = m.options[i]
<1> DEFINE a == U32(m.addr)
           c == <<m.control>>
           n == U16(m.counter)
           p == <<IF m.port = NoPort THEN g ELSE m.port>>
           o == m.options
           h == Serialize(m, g)
<1>1. h = ((a \o c) \o n) \o (p \o o)
  BY DEF Serialize, SerializesFramePort
<1>2. /\ a \in Seq(Byte) /\ Len(a) = 4 /\ n \in Seq(Byte) /\ Len(n) = 2
      /\ o \in Seq(Byte) /\ FOptsLen(o) = Len(o)
  <2>1. Long(m.addr) /\ m.counter \in Nat
    BY DEF Meant
  <2>2. a \in Seq(Byte) /\ Len(a) = 4
    BY <2>1, LongBytes
  <2>3. n \in Seq(Byte) /\ Len(n) = 2
    BY <2>1, WordBytes
  <2>4. o \in Seq(Byte) /\ FOptsLen(o) = Len(o)
    BY OptionsSize
  <2> QED BY <2>2, <2>3, <2>4
<1>3. c \in Seq(Byte) /\ Len(c) = 1 /\ c[1] = m.control
  BY DEF Meant
<1>4. p \in Seq(Byte) /\ Len(p) = 1 /\ (m.port # NoPort => p[1] = m.port)
  <2>1. (IF m.port = NoPort THEN g ELSE m.port) \in Byte
    BY DEF Meant, NoPort, Byte
  <2> QED BY <2>1
<1> HIDE DEF a, c, n, p, o, h
<1>5. /\ a \o c \in Seq(Byte) /\ Len(a \o c) = 5
      /\ \A i \in 1 .. 4 : (a \o c)[i] = a[i]
      /\ (a \o c)[5] = m.control
  <2>1. /\ 1 \in 1 .. Len(c) /\ Len(a) + 1 = 5 /\ Len(a) + Len(c) = 5
        /\ \A i \in 1 .. 4 : i \in 1 .. Len(a)
    BY <1>2, <1>3
  <2>2. /\ a \o c \in Seq(Byte) /\ Len(a \o c) = Len(a) + Len(c)
        /\ (a \o c)[Len(a) + 1] = c[1]
        /\ \A i \in 1 .. Len(a) : (a \o c)[i] = a[i]
    BY <1>2, <1>3, <2>1, Joined, Zenon
  <2> QED BY <1>3, <2>1, <2>2
<1>6. /\ (a \o c) \o n \in Seq(Byte) /\ Len((a \o c) \o n) = 7
      /\ \A i \in 1 .. 4 : ((a \o c) \o n)[i] = a[i]
      /\ ((a \o c) \o n)[5] = m.control
      /\ ((a \o c) \o n)[6] = n[1] /\ ((a \o c) \o n)[7] = n[2]
  <2> DEFINE ac == a \o c
  <2>1. /\ ac \in Seq(Byte) /\ Len(ac) = 5
        /\ \A i \in 1 .. 4 : ac[i] = a[i]
        /\ ac[5] = m.control
    BY <1>5
  <2> HIDE DEF ac
  <2>2. /\ 1 \in 1 .. Len(n) /\ 2 \in 1 .. Len(n)
        /\ Len(ac) + 1 = 6 /\ Len(ac) + 2 = 7 /\ Len(ac) + Len(n) = 7
        /\ 5 \in 1 .. Len(ac) /\ \A i \in 1 .. 4 : i \in 1 .. Len(ac)
    BY <1>2, <2>1
  <2>3. /\ ac \o n \in Seq(Byte) /\ Len(ac \o n) = Len(ac) + Len(n)
        /\ (ac \o n)[Len(ac) + 1] = n[1] /\ (ac \o n)[Len(ac) + 2] = n[2]
        /\ (ac \o n)[5] = ac[5] /\ \A i \in 1 .. 4 : (ac \o n)[i] = ac[i]
    BY <1>2, <2>1, <2>2, Joined, Zenon
  <2>4. /\ ac \o n \in Seq(Byte) /\ Len(ac \o n) = 7
        /\ \A i \in 1 .. 4 : (ac \o n)[i] = a[i]
        /\ (ac \o n)[5] = m.control
        /\ (ac \o n)[6] = n[1] /\ (ac \o n)[7] = n[2]
    BY <2>1, <2>2, <2>3
  <2> QED BY <2>4 DEF ac
<1>7. /\ p \o o \in Seq(Byte) /\ Len(p \o o) = 1 + Len(o)
      /\ m.port # NoPort => (p \o o)[1] = m.port
      /\ \A i \in 1 .. Len(o) : (p \o o)[1 + i] = o[i]
  <2>1. /\ 1 \in 1 .. Len(p) /\ Len(p) + Len(o) = 1 + Len(o)
        /\ \A i \in 1 .. Len(o) : Len(p) + i = 1 + i
    BY <1>4
  <2>2. /\ p \o o \in Seq(Byte) /\ Len(p \o o) = Len(p) + Len(o)
        /\ (p \o o)[1] = p[1]
        /\ \A i \in 1 .. Len(o) : (p \o o)[Len(p) + i] = o[i]
    BY <1>2, <1>4, <2>1, Joined, Zenon
  <2> QED BY <1>4, <2>1, <2>2
<1>8. /\ h \in Seq(Byte) /\ Len(h) = 8 + Len(o)
      /\ \A i \in 1 .. 4 : h[i] = a[i]
      /\ h[5] = m.control /\ h[6] = n[1] /\ h[7] = n[2]
      /\ m.port # NoPort => h[8] = m.port
      /\ \A i \in 1 .. Len(o) : h[8 + i] = o[i]
  <2> DEFINE s == (a \o c) \o n
             t == p \o o
  <2>1. /\ s \in Seq(Byte) /\ Len(s) = 7
        /\ \A i \in 1 .. 4 : s[i] = a[i]
        /\ s[5] = m.control /\ s[6] = n[1] /\ s[7] = n[2]
    BY <1>6
  <2>2. /\ t \in Seq(Byte) /\ Len(t) = 1 + Len(o)
        /\ m.port # NoPort => t[1] = m.port
        /\ \A i \in 1 .. Len(o) : t[1 + i] = o[i]
    BY <1>7
  <2>3. h = s \o t /\ Len(o) \in Nat
    BY <1>1, <1>2
  <2> HIDE DEF s, t
  <2>4. /\ Len(s) + Len(t) = 8 + Len(o) /\ 1 \in 1 .. Len(t) /\ Len(s) + 1 = 8
        /\ \A i \in 1 .. 7 : i \in 1 .. Len(s)
        /\ 5 \in 1 .. Len(s) /\ 6 \in 1 .. Len(s) /\ 7 \in 1 .. Len(s)
        /\ \A i \in 1 .. 4 : i \in 1 .. Len(s)
        /\ \A i \in 1 .. Len(o) : 1 + i \in 1 .. Len(t) /\ Len(s) + (1 + i) = 8 + i
    BY <2>1, <2>2, <2>3
  <2>5. /\ h \in Seq(Byte) /\ Len(h) = Len(s) + Len(t)
        /\ \A i \in 1 .. Len(s) : h[i] = s[i]
        /\ \A i \in 1 .. Len(t) : h[Len(s) + i] = t[i]
    BY <2>1, <2>2, <2>3, Joined, Zenon
  <2>6. ASSUME NEW i \in 1 .. Len(o) PROVE h[8 + i] = o[i]
    <3>1. h[Len(s) + (1 + i)] = t[1 + i]
      BY <2>4, <2>5, Zenon
    <3> QED BY <2>2, <2>4, <3>1
  <2>7. m.port # NoPort => h[8] = m.port
    <3>1. h[Len(s) + 1] = t[1]
      BY <2>4, <2>5, Zenon
    <3> QED BY <2>2, <2>4, <3>1
  <2>8. \A i \in 1 .. 4 : h[i] = a[i]
    BY <2>1, <2>4, <2>5, Zenon
  <2>9. h[5] = m.control /\ h[6] = n[1] /\ h[7] = n[2]
    BY <2>1, <2>4, <2>5, Zenon
  <2> QED BY <2>4, <2>5, <2>6, <2>7, <2>8, <2>9
<1>9. GetSerializedSize(m.port, o) = 8 + Len(o)
  <2>1. Len(o) \in Nat
    BY <1>2
  <2> QED BY <1>2, <2>1 DEF GetSerializedSize, SerializesFramePort
<1> QED BY <1>8, <1>9 DEF a, n, o, h

\* Two bytes out of a frame.
LEMMA TwoBytes ==
  ASSUME NEW b \in Seq(Byte), NEW i \in Nat \ {0}, i + 1 <= Len(b)
  PROVE  SubSeq(b, i, i + 1)[1] = b[i] /\ SubSeq(b, i, i + 1)[2] = b[i + 1]
<1>1. \A j \in i .. i + 1 : b[j] \in Byte
  OBVIOUS
<1> DEFINE u == SubSeq(b, i, i + 1)
<1>2. \A j \in 1 .. (i + 1) - i + 1 : u[j] = b[i + j - 1]
  BY <1>1, SubSeqProperties
<1>3. /\ 1 \in 1 .. (i + 1) - i + 1 /\ 2 \in 1 .. (i + 1) - i + 1
      /\ i + 1 - 1 = i /\ i + 2 - 1 = i + 1
  OBVIOUS
<1> HIDE DEF u
<1>4. u[1] = b[i + 1 - 1] /\ u[2] = b[i + 2 - 1]
  BY <1>2, <1>3, Zenon
<1> QED BY <1>3, <1>4 DEF u

\* A header that was added to a payload is laid out in the frame.
LEMMA Layout ==
  ASSUME NEW m, Meant(m), NEW g \in Byte, NEW b, b = Serialize(m, g) \o m.payload
  PROVE  LaidOut(m, b)
<1> DEFINE h == Serialize(m, g)
<1>1. /\ h \in Seq(Byte) /\ Len(h) = 8 + Len(m.options)
      /\ \A i \in 1 .. 4 : h[i] = U32(m.addr)[i]
      /\ h[5] = m.control
      /\ h[6] = U16(m.counter)[1] /\ h[7] = U16(m.counter)[2]
      /\ m.port # NoPort => h[8] = m.port
      /\ \A i \in 1 .. Len(m.options) : h[8 + i] = m.options[i]
  BY HeaderBytes, Zenon
<1>2. m.payload \in Seq(Byte) /\ m.options \in Seq(Byte)
  <2>1. m.payload \in Seq(Byte)
    BY DEF Meant
  <2> QED BY <2>1, OptionsSize
<1>3. Len(m.options) \in Nat /\ Len(m.payload) \in Nat
  BY <1>2
<1>4. b = h \o m.payload
  OBVIOUS
<1> HIDE DEF h
<1>5. /\ b \in Seq(Byte) /\ Len(b) = Len(h) + Len(m.payload)
      /\ \A i \in 1 .. Len(h) : b[i] = h[i]
  <2> DEFINE p == m.payload
  <2>1. p \in Seq(Byte) /\ b = h \o p
    BY <1>2, <1>4
  <2> HIDE DEF p
  <2>2. /\ h \o p \in Seq(Byte) /\ Len(h \o p) = Len(h) + Len(p)
        /\ \A i \in 1 .. Len(h) : (h \o p)[i] = h[i]
    BY <1>1, <2>1, Joined, Zenon
  <2>3. /\ b \in Seq(Byte) /\ Len(b) = Len(h) + Len(p)
        /\ \A i \in 1 .. Len(h) : b[i] = h[i]
    BY <2>1, <2>2
  <2> QED BY <2>3 DEF p
<1>6. /\ \A i \in 1 .. 4 : i \in 1 .. Len(h)
      /\ 5 \in 1 .. Len(h) /\ 6 \in 1 .. Len(h) /\ 7 \in 1 .. Len(h) /\ 8 \in 1 .. Len(h)
      /\ \A i \in 1 .. Len(m.options) : 8 + i \in 1 .. Len(h)
  BY <1>1, <1>3
<1>7. Without(b, 8 + Len(m.options)) = m.payload
  BY <1>1, <1>2, <1>4, Behind, Zenon
<1>8. Len(b) = 8 + Len(m.options) + Len(m.payload)
  BY <1>1, <1>5
<1> QED BY <1>1, <1>3, <1>5, <1>6, <1>7, <1>8, Zenon DEF LaidOut

\* Deserialize, and the header class of the MAC, read what was meant.
LEMMA Reads ==
  ASSUME NEW m, Meant(m), NEW b, LaidOut(m, b)
  PROVE  ReadAsMeant(m, b, Deserialize(b, IF m.up THEN 1 ELSE 4))
<1> DEFINE k == IF m.up THEN 1 ELSE 4
           d == Deserialize(b, k)
           o == ReadOptions(b, k)
<1>1. LaidOut(m, b)
  OBVIOUS
<1>0. Len(b) \in Nat /\ Len(b) >= 8 /\ b \in Seq(Byte)
  <2>1. /\ Len(m.options) \in Nat /\ Len(m.payload) \in Nat
        /\ Len(b) = 8 + Len(m.options) + Len(m.payload) /\ b \in Seq(Byte)
    BY <1>1, Zenon DEF LaidOut
  <2>2. \A x, y \in Nat : 8 + x + y \in Nat /\ 8 + x + y >= 8
    OBVIOUS
  <2> QED BY <2>1, <2>2
<1>2. b[1] = U32(m.addr)[1] /\ b[2] = U32(m.addr)[2]
      /\ b[3] = U32(m.addr)[3] /\ b[4] = U32(m.addr)[4]
  <2>1. 1 \in 1 .. 4 /\ 2 \in 1 .. 4 /\ 3 \in 1 .. 4 /\ 4 \in 1 .. 4
    OBVIOUS
  <2> QED BY <1>1, <2>1, Zenon DEF LaidOut
<1>3. /\ m.up \in BOOLEAN /\ Long(m.addr)
      /\ m.counter \in Nat /\ m.control % 16 = FOptsLen(m.options)
  BY DEF Meant
<1>4. d.addr = ReadU32(b) /\ d.control = b[5] /\ d.counter = ReadU16(SubSeq(b, 6, 7))
      /\ d.port = b[8] /\ d.command = o.command /\ d.payload = Without(b, o.next - 1)
  BY DEF Deserialize
<1> HIDE DEF d
<1>5. ReadU32(b) = m.addr
  <2>1. SubSeq(b, 3, 4)[1] = b[3] /\ SubSeq(b, 3, 4)[2] = b[4]
    <3>1. 3 \in Nat \ {0} /\ 3 + 1 = 4 /\ 3 + 1 <= Len(b)
      BY <1>0
    <3> QED BY <1>1, <3>1, TwoBytes
  <2>2. U32(m.addr)[1] + 256 * U32(m.addr)[2]
          + 65536 * (U32(m.addr)[3] + 256 * U32(m.addr)[4]) = m.addr
    BY <1>3, LongBytes
  <2>3. ReadU32(b) = b[1] + 256 * b[2] + 65536 * (b[3] + 256 * b[4])
    <3>1. ReadU16(SubSeq(b, 3, 4)) = b[3] + 256 * b[4]
      BY <2>1, Zenon DEF ReadU16
    <3>2. ReadU16(b) = b[1] + 256 * b[2]
      BY Zenon DEF ReadU16
    <3>3. ReadU32(b) = ReadU16(b) + 65536 * ReadU16(SubSeq(b, 3, 4))
      BY DEF ReadU32
    <3> QED BY <3>1, <3>2, <3>3
  <2>4. b[1] + 256 * b[2] + 65536 * (b[3] + 256 * b[4]) = m.addr
    BY <1>2, <2>2
  <2> QED BY <2>3, <2>4
<1>6. d.counter = m.counter % 65536
  <2>1. SubSeq(b, 6, 7)[1] = b[6] /\ SubSeq(b, 6, 7)[2] = b[7]
    <3>1. 6 \in Nat \ {0} /\ 6 + 1 = 7 /\ 6 + 1 <= Len(b)
      BY <1>0
    <3> QED BY <1>1, <3>1, TwoBytes
  <2>2. U16(m.counter)[1] + 256 * U16(m.counter)[2] = m.counter % 65536
    BY <1>3, WordBytes
  <2>3. d.counter = b[6] + 256 * b[7]
    BY <1>4, <2>1, Zenon DEF ReadU16
  <2>4. b[6] = U16(m.counter)[1] /\ b[7] = U16(m.counter)[2]
    BY <1>1, Zenon DEF LaidOut
  <2> QED BY <2>2, <2>3, <2>4
<1>7. /\ o.next - 1 = 8 + Len(m.options)
      /\ ReadLinkADR(m.up, o.command) = m.command
  <2>0. k \in 1 .. 14
    OBVIOUS
  <2>1. b[5] % 16 = Len(m.options)
    <3>1. b[5] = m.control
      BY <1>1, Zenon DEF LaidOut
    <3>2. m.control % 16 = Len(m.options)
      BY <1>3, OptionsSize
    <3> QED BY <3>1, <3>2, Zenon
  <2>2. CASE m.command = NoCommand
    <3>1. m.options = <<>> /\ Len(m.options) = 0
      BY <2>2, OptionsSize
    <3>2. b[5] % 16 = 0
      BY <2>1, <3>1
    <3>3. o = [command |-> <<>>, next |-> 9]
      BY <1>0, <2>0, <3>2, OptionsRead
    <3> HIDE DEF o
    <3>4. ReadLinkADR(m.up, o.command) = <<>>
      BY <3>3 DEF ReadLinkADR
    <3> QED BY <2>2, <3>1, <3>3, <3>4 DEF NoCommand
  <2>3. CASE m.command # NoCommand
    <3>1. /\ m.options \in Seq(Byte) /\ Len(m.options) = k + 1
          /\ m.options[1] = LinkADR
          /\ ReadLinkADR(m.up, m.options) = m.command
      BY <2>3, OptionsSize
    <3>2. b[9] = LinkADR
      <4>1. 1 \in 1 .. Len(m.options) /\ 8 + 1 = 9
        BY <2>0, <3>1
      <4>2. b[8 + 1] = m.options[1]
        BY <1>1, <4>1, Zenon DEF LaidOut
      <4> QED BY <3>1, <4>1, <4>2
    <3>3. b[5] % 16 = k + 1 /\ Len(b) >= 9 + k
      <4>1. b[5] % 16 = k + 1
        BY <2>1, <3>1, Zenon
      <4>2. Len(m.payload) \in Nat /\ Len(b) = 8 + Len(m.options) + Len(m.payload)
        BY <1>1, Zenon DEF LaidOut
      <4>3. Len(b) = 8 + (k + 1) + Len(m.payload)
        BY <3>1, <4>2, Zenon
      <4>4. Len(b) >= 9 + k
        <5>1. \A x \in Nat : 8 + (k + 1) + x >= 9 + k
          BY <2>0
        <5> QED BY <4>2, <4>3, <5>1
      <4> QED BY <4>1, <4>4
    <3>4. o = [command |-> SubSeq(b, 9, 9 + k), next |-> 10 + k]
      BY <1>0, <2>0, <3>2, <3>3, OptionsRead
    <3>5. SubSeq(b, 9, 9 + k) = m.options
      <4> DEFINE s == SubSeq(b, 9, 9 + k)
      <4> HIDE DEF k
      <4>1. \A i \in 9 .. 9 + k : b[i] \in Byte
        <5>1. \A i \in 9 .. 9 + k : i \in 1 .. Len(b)
          BY <1>0, <2>0, <3>3
        <5> QED BY <1>0, <5>1, ElementOfSeq, Zenon
      <4>2. /\ s \in Seq(Byte) /\ Len(s) = k + 1
            /\ \A i \in 1 .. k + 1 : s[i] = b[8 + i]
        <5>1. /\ (9 + k) - 9 + 1 = k + 1 /\ 9 <= 9 + k
              /\ \A i \in 1 .. k + 1 : 9 + i - 1 = 8 + i
              /\ 9 \in Int /\ 9 + k \in Int
          BY <2>0
        <5>2. /\ s \in Seq(Byte)
              /\ Len(s) = IF 9 <= 9 + k THEN (9 + k) - 9 + 1 ELSE 0
              /\ \A i \in 1 .. (9 + k) - 9 + 1 : s[i] = b[9 + i - 1]
          BY <4>1, <5>1, SubSeqProperties
        <5> QED BY <5>1, <5>2
      <4>3. \A i \in 1 .. Len(m.options) : b[8 + i] = m.options[i]
        BY <1>1, Zenon DEF LaidOut
      <4> HIDE DEF s
      <4>4. \A i \in 1 .. Len(s) : s[i] = m.options[i]
        BY <3>1, <4>2, <4>3
      <4>5. s = m.options
        BY <3>1, <4>2, <4>4, SeqEqual
      <4> QED BY <4>5 DEF s
    <3> HIDE DEF o
    <3>6. o.command = m.options /\ o.next = 10 + k
      BY <3>4, <3>5
    <3>7. o.next - 1 = 8 + Len(m.options)
      BY <2>0, <3>1, <3>6
    <3> QED BY <3>1, <3>6, <3>7
  <2> QED BY <2>2, <2>3
<1>8. d.payload = m.payload
  BY <1>1, <1>4, <1>7, Zenon DEF LaidOut
<1>9. ReadLinkADR(m.up, d.command) = m.command
  BY <1>4, <1>7
<1>10. b[5] = m.control /\ (m.port # NoPort => b[8] = m.port)
  BY <1>1, Zenon DEF LaidOut
<1>11. /\ d.addr = m.addr /\ d.control = m.control
       /\ m.port # NoPort => d.port = m.port
  BY <1>4, <1>5, <1>10, Zenon
<1>12. ReadAsMeant(m, b, d)
  BY <1>5, <1>6, <1>8, <1>9, <1>10, <1>11 DEF ReadAsMeant
<1> QED BY <1>12 DEF d

\* PdDataIndication takes the MACPayload out of the PHYPayload, and its type is
\* that of the direction.
LEMMA Wrapping ==
  ASSUME NEW m, Meant(m), NEW b \in Seq(Byte), NEW w, w = Wrapped(m, b)
  PROVE  /\ w \in Seq(Byte) /\ Len(w) = Len(b) + 5
         /\ SubSeq(w, 2, Len(w) - 4) = b
         /\ (w[1] \div 32) % 8 \in IF m.up THEN {2, 4} ELSE {3, 5}
<1> DEFINE type == MsgType(m.up, m.conf)
           c == <<type * 32>>
           cb == c \o b
           z == Zeros(4)
<1>1. type \in IF m.up THEN {2, 4} ELSE {3, 5}
  BY DEF Meant, MsgType
<1>2. type * 32 \in Byte /\ ((type * 32) \div 32) % 8 = type
  <2>1. \A t \in 2 .. 5 : t * 32 \in Byte /\ ((t * 32) \div 32) % 8 = t
    BY DEF Byte
  <2>2. type \in 2 .. 5
    BY <1>1
  <2> HIDE DEF type
  <2> QED BY <2>1, <2>2
<1> HIDE DEF type
<1>3. c \in Seq(Byte) /\ Len(c) = 1 /\ c[1] = type * 32
  BY <1>2
<1>4. z \in Seq(Byte) /\ Len(z) = 4
  BY DEF Zeros, Byte
<1>5. w = cb \o z
  BY Zenon DEF Wrapped, type
<1> HIDE DEF c, z
<1>6. /\ cb \in Seq(Byte) /\ Len(cb) = 1 + Len(b) /\ cb[1] = type * 32
      /\ \A i \in 1 .. Len(b) : cb[1 + i] = b[i]
  <2>1. 1 \in 1 .. Len(c)
    BY <1>3
  <2>2. /\ cb \in Seq(Byte) /\ Len(cb) = Len(c) + Len(b) /\ cb[1] = c[1]
        /\ \A i \in 1 .. Len(b) : cb[Len(c) + i] = b[i]
    BY <1>3, <2>1, Joined, Zenon
  <2> HIDE DEF cb
  <2> QED BY <1>3, <2>2
<1> HIDE DEF cb
<1>7. Len(b) \in Nat
  OBVIOUS
<1>8. /\ w \in Seq(Byte) /\ Len(w) = Len(b) + 5
      /\ \A i \in 1 .. Len(cb) : w[i] = cb[i]
  <2>1. /\ cb \o z \in Seq(Byte) /\ Len(cb \o z) = Len(cb) + Len(z)
        /\ \A i \in 1 .. Len(cb) : (cb \o z)[i] = cb[i]
    BY <1>4, <1>6, Joined, Zenon
  <2>2. Len(cb) + Len(z) = Len(b) + 5
    BY <1>4, <1>6, <1>7
  <2> QED BY <1>5, <2>1, <2>2, Zenon
<1>9. (w[1] \div 32) % 8 = type
  <2>1. 1 \in 1 .. Len(cb)
    BY <1>6, <1>7
  <2>2. w[1] = type * 32
    BY <1>6, <1>8, <2>1, Zenon
  <2> QED BY <1>2, <2>2
<1>10. SubSeq(w, 2, Len(w) - 4) = b
  <2> DEFINE n == Len(b) + 1
             s == SubSeq(w, 2, n)
  <2>1. Len(w) - 4 = n /\ n \in Nat /\ Len(cb) = n
    BY <1>6, <1>7, <1>8
  <2>2. \A i \in 2 .. n : w[i] \in Byte
    <3>1. \A i \in 2 .. n : i \in 1 .. Len(w)
      BY <1>7, <1>8
    <3> QED BY <1>8, <3>1, ElementOfSeq, Zenon
  <2>3. /\ n - 2 + 1 = Len(b) /\ (2 <= n <=> Len(b) # 0)
        /\ \A i \in 1 .. Len(b) : 2 + i - 1 = 1 + i /\ 1 + i \in 1 .. n
    BY <1>7
  <2> HIDE DEF n
  <2>4. /\ s \in Seq(Byte) /\ Len(s) = IF 2 <= n THEN n - 2 + 1 ELSE 0
        /\ \A i \in 1 .. n - 2 + 1 : s[i] = w[2 + i - 1]
    BY <2>1, <2>2, SubSeqProperties
  <2> HIDE DEF s
  <2>5. s \in Seq(Byte) /\ Len(s) = Len(b)
    BY <2>3, <2>4
  <2>6. ASSUME NEW i \in 1 .. Len(s) PROVE s[i] = b[i]
    <3>1. i \in 1 .. Len(b) /\ i \in 1 .. n - 2 + 1
      BY <2>3, <2>5
    <3>2. s[i] = w[1 + i]
      BY <2>3, <2>4, <3>1
    <3>3. w[1 + i] = cb[1 + i]
      BY <1>8, <2>1, <2>3, <3>1
    <3>4. cb[1 + i] = b[i]
      BY <1>6, <3>1
    <3> QED BY <3>2, <3>3, <3>4
  <2>7. s = b
    BY <2>5, <2>6, SeqEqual
  <2> QED BY <2>1, <2>7 DEF s
<1> QED BY <1>1, <1>8, <1>9, <1>10

\* A header and its payload arrive at the MAC as they were meant.
LEMMA Submitted ==
  ASSUME NEW m, Meant(m), NEW g \in Byte, Submits(m, g)
  PROVE  FrameIInv'
<1>1. stage' = "MACPayload" /\ sent' = m
      /\ frame' = AddHeader(Serialize(m, g), GetSerializedSize(m.port, m.options), m.payload)
  BY DEF Submits
<1>2. /\ Serialize(m, g) \in Seq(Byte)
      /\ Len(Serialize(m, g)) = GetSerializedSize(m.port, m.options)
      /\ Len(Serialize(m, g)) = 8 + Len(m.options)
  BY HeaderBytes, Zenon
<1>3. Len(Serialize(m, g)) > 0
  <2>1. Len(m.options) \in Nat
    BY OptionsSize
  <2>2. \A n \in Nat : 8 + n > 0
    OBVIOUS
  <2> QED BY <1>2, <2>1, <2>2
<1>4. frame' = Serialize(m, g) \o m.payload
  BY <1>1, <1>2, <1>3, Added, Zenon
<1>5. LaidOut(sent', frame')
  BY <1>1, <1>4, Layout
<1>6. frame' \in Seq(Byte)
  BY <1>5 DEF LaidOut
<1> QED BY <1>1, <1>5, <1>6 DEF FrameIInv

\* What the end device sends is a header that fits its fields.
LEMMA UplinkIsMeant ==
  ASSUME NEW addr \in Addresses, NEW f \in Flags, NEW counter \in Counters,
         NEW conf \in BOOLEAN, NEW answer \in Answers \union {NoCommand},
         SendUSPacket(addr, f, counter, conf, answer)
  PROVE  FrameIInv'
<1> DEFINE options == IF answer = NoCommand THEN <<>> ELSE LinkADRAns(answer)
           m == [up |-> TRUE, conf |-> conf, addr |-> addr, counter |-> counter,
                 control |-> Flag(f.adr, ADR) + Flag(f.adrAckReq, ADRACKREQ)
                               + Flag(f.ack, ACK) + Flag(f.classB, CLASSB)
                               + FOptsLen(options),
                 port |-> 1, command |-> answer, options |-> options,
                 payload |-> Zeros(PayloadSize(1, options))]
<1>1. Submits(m, 0)
  BY DEF SendUSPacket
<1>2. FOptsLen(options) = Len(options) /\ Len(options) \in {0, 2}
  <2>1. CASE answer = NoCommand
    BY <2>1 DEF FOptsLen
  <2>2. CASE answer # NoCommand
    <3>1. options = LinkADRAns(answer)
      BY <2>2
    <3>2. Len(options) = 2 /\ options # <<>>
      BY <3>1 DEF LinkADRAns
    <3> QED BY <3>2 DEF FOptsLen, SizeOfCommand
  <2> QED BY <2>1, <2>2
<1> DEFINE n == Len(options)
           size == PayloadSize(1, options)
<1>3. size = PacketSize - 13 - n /\ size \in Nat /\ PacketSize \in Int
      /\ MaxSize \in Nat /\ PacketSize - 5 <= MaxSize
  <2>1. PacketSize \in 15 .. 268 /\ MaxSize \in Nat /\ PacketSize - 5 <= MaxSize
    BY FrameAssumption
  <2>2. GetSerializedSize(1, options) = 8 + n
    BY <1>2 DEF GetSerializedSize, SerializesFramePort
  <2> HIDE DEF options
  <2>3. \A k \in 15 .. 268 : \A l \in {0, 2} :
          (k - (8 + l) - 1 - 4) % 256 = k - 13 - l /\ k - 13 - l \in Nat
    OBVIOUS
  <2>4. size = (PacketSize - (8 + n) - 1 - 4) % 256
    BY <2>2 DEF PayloadSize
  <2> QED BY <1>2, <2>1, <2>3, <2>4
<1>4. Zeros(size) \in Seq(Byte) /\ Len(Zeros(size)) = size
  BY <1>3 DEF Zeros, Byte
<1>5. m.control \in Byte /\ m.control % 16 = n
  <2> DEFINE flags == Flag(f.adr, ADR) + Flag(f.adrAckReq, ADRACKREQ)
                        + Flag(f.ack, ACK) + Flag(f.classB, CLASSB)
  <2>1. flags \in {0, 16, 32, 48, 64, 80, 96, 112,
                  128, 144, 160, 176, 192, 208, 224, 240}
    BY DEF Flag, Flags, ADR, ADRACKREQ, ACK, CLASSB
  <2>2. m.control = flags + n
    BY <1>2
  <2> HIDE DEF flags, m, n
  <2>3. \A f1 \in {0, 16, 32, 48, 64, 80, 96, 112,
                   128, 144, 160, 176, 192, 208, 224, 240} :
        \A l \in {0, 2} :
          f1 + l \in 0 .. 255 /\ (f1 + l) % 16 = l
    OBVIOUS
  <2>4. n \in {0, 2}
    BY <1>2 DEF n
  <2> QED BY <2>1, <2>2, <2>3, <2>4 DEF Byte
<1>6. Long(addr) /\ counter \in Nat
  BY FrameAssumption DEF Long
<1>7. /\ 8 + n + Len(Zeros(size)) <= MaxSize
      /\ 13 + n + Len(Zeros(size)) = PacketSize
  <2> HIDE DEF size, options
  <2> QED BY <1>2, <1>3, <1>4
<1>8. \/ m.command = NoCommand /\ m.options = <<>>
      \/ m.up /\ m.command \in Answers /\ m.options = LinkADRAns(m.command)
  OBVIOUS
<1>9. /\ m.up = TRUE /\ m.conf = conf /\ m.addr = addr /\ m.counter = counter
      /\ m.port = 1 /\ m.options = options /\ m.payload = Zeros(size)
  OBVIOUS
<1> HIDE DEF m, options, size
<1>10. Meant(m)
  <2>1. m.up \in BOOLEAN /\ m.conf \in BOOLEAN /\ m.port \in {NoPort, 1}
    BY <1>9
  <2>2. m.control % 16 = FOptsLen(m.options)
    BY <1>2, <1>5, <1>9, Zenon
  <2>3. 8 + Len(m.options) + Len(m.payload) <= MaxSize
        /\ 13 + Len(m.options) + Len(m.payload) = PacketSize
    BY <1>7, <1>9, Zenon
  <2>4. Long(m.addr) /\ m.counter \in Nat
    BY <1>6, <1>9, Zenon
  <2>5. m.payload \in Seq(Byte)
    BY <1>4, <1>9, Zenon
  <2>6. m.control \in Byte
    BY <1>5, Zenon
  <2>7. \/ m.command = NoCommand /\ m.options = <<>>
        \/ m.up /\ m.command \in Answers /\ m.options = LinkADRAns(m.command)
        \/ ~m.up /\ m.command \in Commands /\ m.options = LinkADRReq(m.command)
    BY <1>8, Zenon
  <2>8. m.up => 13 + Len(m.options) + Len(m.payload) = PacketSize
    BY <2>3, Zenon
  <2>9. 8 + Len(m.options) + Len(m.payload) <= MaxSize
    BY <2>3, Zenon
  <2> QED BY <2>1, <2>2, <2>4, <2>5, <2>6, <2>7, <2>8, <2>9, Zenon DEF Meant
<1>11. 0 \in Byte
  BY DEF Byte
<1> QED BY <1>1, <1>10, <1>11, Submitted

\* What the network server sends is a header that fits its fields.
LEMMA DownlinkIsMeant ==
  ASSUME NEW addr \in Addresses, NEW ack \in BOOLEAN, NEW pending \in BOOLEAN,
         NEW counter \in Counters, NEW packet \in Packets,
         NEW command \in Commands \union {NoCommand}, NEW g \in Garbage,
         SendDSPacket(addr, ack, pending, counter, packet, command, g)
  PROVE  FrameIInv'
<1> DEFINE options == IF command = NoCommand THEN <<>> ELSE LinkADRReq(command)
           m == [up |-> FALSE, conf |-> packet.conf, addr |-> addr,
                 counter |-> counter,
                 control |-> Flag(ack, ACK) + Flag(pending, FPENDING)
                               + FOptsLen(options),
                 port |-> packet.port, command |-> command, options |-> options,
                 payload |-> packet.payload]
           n == Len(options)
<1>1. Submits(m, g)
  BY DEF SendDSPacket
<1>2. FOptsLen(options) = n /\ n \in {0, 5}
  <2>1. CASE command = NoCommand
    BY <2>1 DEF FOptsLen
  <2>2. CASE command # NoCommand
    <3> DEFINE s == <<LinkADR, command[1] * 16 + command[2]>>
               t == U16(0)
               z == <<0>>
    <3>1. command \in (0 .. 15) \X (0 .. 15)
      BY <2>2, FrameAssumption
    <3>2. command[1] * 16 + command[2] \in Byte /\ LinkADR \in Byte
      <4>1. PICK d \in 0 .. 15, p \in 0 .. 15 : command = <<d, p>>
        BY <3>1
      <4>2. d * 16 + p \in 0 .. 255
        OBVIOUS
      <4> QED BY <4>1, <4>2 DEF Byte, LinkADR
    <3>3. /\ s \in Seq(Byte) /\ Len(s) = 2
          /\ t \in Seq(Byte) /\ Len(t) = 2
          /\ z \in Seq(Byte) /\ Len(z) = 1
      BY <3>2, WordBytes DEF Byte
    <3>4. options = (s \o t) \o z
      BY <2>2, Zenon DEF LinkADRReq
    <3> HIDE DEF s, t, z, options
    <3>5. s \o t \in Seq(Byte) /\ Len(s \o t) = Len(s) + Len(t)
      BY <3>3, Joined, Zenon
    <3>6. Len((s \o t) \o z) = Len(s \o t) + Len(z)
      BY <3>3, <3>5, Joined, Zenon
    <3>7. n = 5 /\ options # <<>>
      BY <3>3, <3>4, <3>5, <3>6
    <3> QED BY <3>7 DEF FOptsLen, SizeOfCommand
  <2> QED BY <2>1, <2>2
<1>3. packet.port \in {NoPort, 1} /\ packet.payload \in DownPayloads \union {<<>>}
      /\ packet.conf \in BOOLEAN
  <2>1. CASE packet \in [port : {1}, conf : BOOLEAN, payload : DownPayloads]
    BY <2>1
  <2>2. CASE packet = [port |-> NoPort, conf |-> FALSE, payload |-> <<>>]
    BY <2>2
  <2> QED BY <2>1, <2>2 DEF Packets
<1>4. packet.payload \in Seq(Byte) /\ 13 + Len(packet.payload) <= MaxSize /\ MaxSize \in Nat
  <2>1. <<>> \in Seq(Byte)
    OBVIOUS
  <2>2. DownPayloads \subseteq Seq(Byte) /\ MaxSize \in Nat
        /\ \A payload \in DownPayloads \union {<<>>} : 13 + Len(payload) <= MaxSize
    BY FrameAssumption
  <2> QED BY <1>3, <2>1, <2>2, Zenon
<1>5. m.control \in Byte /\ m.control % 16 = n
  <2> DEFINE flags == Flag(ack, ACK) + Flag(pending, FPENDING)
  <2>1. flags \in {0, 16, 32, 48}
    BY DEF Flag, ACK, FPENDING
  <2>2. m.control = flags + n
    BY <1>2
  <2> HIDE DEF flags, m, n
  <2>3. \A f1 \in {0, 16, 32, 48} : \A l \in {0, 5} :
          f1 + l \in 0 .. 255 /\ (f1 + l) % 16 = l
    OBVIOUS
  <2>4. n \in {0, 5}
    BY <1>2 DEF n
  <2> QED BY <2>1, <2>2, <2>3, <2>4 DEF Byte
<1>6. Long(addr) /\ counter \in Nat /\ g \in Byte
  BY FrameAssumption DEF Long
<1>7. 8 + n + Len(packet.payload) <= MaxSize
  <2> HIDE DEF options
  <2>1. Len(packet.payload) \in Nat
    BY <1>4
  <2>2. \A k \in {0, 5} : \A l, u \in Nat : 13 + l <= u => 8 + k + l <= u
    OBVIOUS
  <2> QED BY <1>2, <1>4, <2>1, <2>2
<1>8. \/ m.command = NoCommand /\ m.options = <<>>
      \/ ~m.up /\ m.command \in Commands /\ m.options = LinkADRReq(m.command)
  OBVIOUS
<1>9. /\ m.up = FALSE /\ m.conf = packet.conf /\ m.addr = addr /\ m.counter = counter
      /\ m.port = packet.port /\ m.options = options /\ m.payload = packet.payload
  OBVIOUS
<1> HIDE DEF m, options
<1>10. Meant(m)
  <2>1. m.up \in BOOLEAN /\ m.conf \in BOOLEAN /\ m.port \in {NoPort, 1} /\ ~m.up
    BY <1>3, <1>9
  <2>2. m.control % 16 = FOptsLen(m.options)
    BY <1>2, <1>5, <1>9, Zenon
  <2>3. 8 + Len(m.options) + Len(m.payload) <= MaxSize
    BY <1>7, <1>9, Zenon
  <2>4. Long(m.addr) /\ m.counter \in Nat
    BY <1>6, <1>9, Zenon
  <2>5. m.payload \in Seq(Byte)
    BY <1>4, <1>9, Zenon
  <2>6. m.control \in Byte
    BY <1>5, Zenon
  <2>7. \/ m.command = NoCommand /\ m.options = <<>>
        \/ m.up /\ m.command \in Answers /\ m.options = LinkADRAns(m.command)
        \/ ~m.up /\ m.command \in Commands /\ m.options = LinkADRReq(m.command)
    BY <1>8, Zenon
  <2>8. m.up => 13 + Len(m.options) + Len(m.payload) = PacketSize
    BY <2>1, Zenon
  <2>9. 8 + Len(m.options) + Len(m.payload) <= MaxSize
    BY <2>3, Zenon
  <2> QED BY <2>1, <2>2, <2>4, <2>5, <2>6, <2>7, <2>8, <2>9, Zenon DEF Meant
<1> QED BY <1>1, <1>6, <1>10, Submitted

\* There is no frame at first.
LEMMA Beginning == FrameInit => FrameIInv
BY DEF FrameInit, FrameIInv

\* No frame is refused for its size.
LEMMA Constructed ==
  ASSUME FrameIInv, ConstructPhyPayload
  PROVE  FrameIInv'
<1>1. stage = "MACPayload" /\ Meant(sent) /\ LaidOut(sent, frame) /\ sent' = sent
  BY DEF FrameIInv, ConstructPhyPayload
<1>2. ~(Len(frame) > MaxSize)
  <2>1. Len(frame) = 8 + Len(sent.options) + Len(sent.payload) /\ frame \in Seq(Byte)
    BY <1>1, Zenon DEF LaidOut
  <2>2. 8 + Len(sent.options) + Len(sent.payload) <= MaxSize
    BY <1>1, Zenon DEF Meant
  <2>3. Len(frame) \in Nat /\ MaxSize \in Nat
    <3>1. frame \in Seq(Byte)
      BY DEF FrameIInv
    <3> QED BY <3>1, FrameAssumption
  <2>4. Len(frame) <= MaxSize
    BY <2>1, <2>2, Zenon
  <2> QED BY <2>3, <2>4
<1>3. stage' = "PHYPayload" /\ frame' = Wrapped(sent, frame)
  BY <1>2, Zenon DEF ConstructPhyPayload, Wrapped
<1>4. frame' \in Seq(Byte)
  <2>1. frame \in Seq(Byte)
    BY DEF FrameIInv
  <2> QED BY <1>1, <1>3, <2>1, Wrapping
<1>5. \E b : LaidOut(sent', b) /\ frame' = Wrapped(sent', b)
  BY <1>1, <1>3
<1> QED BY <1>1, <1>3, <1>4, <1>5 DEF FrameIInv

\* No frame is dropped for its type or its address.
LEMMA Indicated ==
  ASSUME FrameIInv, PdDataIndication
  PROVE  FrameIInv'
<1>1. stage = "PHYPayload" /\ Meant(sent) /\ sent' = sent
  BY DEF FrameIInv, PdDataIndication
<1>2. PICK b : LaidOut(sent, b) /\ frame = Wrapped(sent, b)
  BY <1>1 DEF FrameIInv
<1>3. b \in Seq(Byte)
  BY <1>2, Zenon DEF LaidOut
<1>4. /\ SubSeq(frame, 2, Len(frame) - 4) = b
      /\ (frame[1] \div 32) % 8 \in IF sent.up THEN {2, 4} ELSE {3, 5}
  BY <1>1, <1>2, <1>3, Wrapping, Zenon
<1>5. frame' = b /\ peeked' = Peek(b)
  BY <1>4, Zenon DEF PdDataIndication
<1>6. Peek(b).addr = sent.addr
  <2>1. ReadU32(b) = sent.addr
    BY <1>1, <1>2, Reads DEF ReadAsMeant
  <2> QED BY <2>1 DEF Peek
<1>7. stage' = "received"
  BY <1>1, <1>4, <1>6 DEF PdDataIndication
<1> QED BY <1>1, <1>2, <1>3, <1>5, <1>7 DEF FrameIInv

\* The application removes the header of the frame it was given.
LEMMA Removed ==
  ASSUME FrameIInv, RemoveHeader
  PROVE  FrameIInv'
BY DEF FrameIInv, RemoveHeader

\* Every step keeps the invariant.
LEMMA FrameStep == FrameIInv /\ [FrameNext]_frameVars => FrameIInv'
<1> SUFFICES ASSUME FrameIInv, [FrameNext]_frameVars PROVE FrameIInv'
  OBVIOUS
<1>1. CASE Uplink
  BY <1>1, UplinkIsMeant DEF Uplink
<1>2. CASE Downlink
  BY <1>2, DownlinkIsMeant DEF Downlink
<1>3. CASE ConstructPhyPayload
  BY <1>3, Constructed
<1>4. CASE PdDataIndication
  BY <1>4, Indicated
<1>5. CASE RemoveHeader
  BY <1>5, Removed
<1>6. CASE UNCHANGED frameVars
  BY <1>6 DEF FrameIInv, frameVars
<1> QED BY <1>1, <1>2, <1>3, <1>4, <1>5, <1>6 DEF FrameNext

\* From the application that makes a frame to the one that removes its header, the
\* bytes are laid out as the sender meant them.
THEOREM FrameInvariance == FrameSpec => []FrameIInv
BY Beginning, FrameStep, PTL DEF FrameSpec

\* Address, flags, counter, port and MAC command arrive as they were meant, for every
\* value, and all three header classes agree about them.
THEOREM HeadersComeThrough == FrameSpec => []HeadersAgree
<1>1. ASSUME FrameIInv PROVE HeadersAgree
  <2>1. BytesWritten
    BY <1>1 DEF FrameIInv, BytesWritten
  <2>2. ASSUME stage = "delivered"
        PROVE  /\ Meant(sent) /\ LaidOut(sent, frame) /\ peeked = Peek(frame)
               /\ read = Deserialize(frame, IF sent.up THEN 1 ELSE 4)
    BY <1>1, <2>2 DEF FrameIInv
  <2>3. stage = "delivered" => ReadAsMeant(sent, frame, read)
    BY <2>2, Reads
  <2>5. FieldsAgree
    BY <2>3 DEF FieldsAgree, ReadAsMeant
  <2>4. ClassesAgree
    <3>1. stage # "dropped"
      BY <1>1 DEF FrameIInv
    <3>2. ASSUME stage = "delivered"
          PROVE  peeked = [addr |-> read.addr, ack |-> IsSet(read.control, ACK)]
      <4>1. read.addr = sent.addr /\ read.control = sent.control
            /\ frame[5] = sent.control /\ ReadU32(frame) = sent.addr
        BY <2>3, <3>2 DEF ReadAsMeant
      <4>2. peeked = [addr |-> ReadU32(frame), ack |-> IsSet(frame[5], ACK)]
        BY <2>2, <3>2, Zenon DEF Peek
      <4> QED BY <4>1, <4>2, Zenon
    <3> QED BY <3>1, <3>2 DEF ClassesAgree
  <2> QED BY <2>1, <2>4, <2>5 DEF HeadersAgree
<1> QED BY <1>1, FrameInvariance, PTL

\* The payload begins where the receiver looks for it, whatever its bytes, and an
\* uplink has the size of the attribute PacketSize with and without a command.
THEOREM PayloadComesThrough == FrameSpec => []PayloadAgrees
<1>1. ASSUME FrameIInv PROVE PayloadAgrees
  <2>1. PayloadDelivered
    <3>1. ASSUME stage = "delivered"
          PROVE  /\ Meant(sent) /\ LaidOut(sent, frame)
                 /\ read = Deserialize(frame, IF sent.up THEN 1 ELSE 4)
      BY <1>1, <3>1 DEF FrameIInv
    <3>2. stage = "delivered" => ReadAsMeant(sent, frame, read)
      BY <3>1, Reads
    <3> QED BY <3>2 DEF ReadAsMeant, PayloadDelivered
  <2>2. stage # "refused"
    BY <1>1 DEF FrameIInv
  <2>3. ASSUME stage = "PHYPayload", sent.up PROVE Len(frame) = PacketSize
    <3>1. PICK b : LaidOut(sent, b) /\ frame = Wrapped(sent, b)
      BY <1>1, <2>3 DEF FrameIInv
    <3>2. Meant(sent)
      BY <1>1, <2>3 DEF FrameIInv
    <3>3. /\ b \in Seq(Byte) /\ Len(b) = 8 + Len(sent.options) + Len(sent.payload)
          /\ Len(sent.options) \in Nat /\ Len(sent.payload) \in Nat
      BY <3>1, Zenon DEF LaidOut
    <3>4. Len(frame) = Len(b) + 5
      BY <3>1, <3>2, <3>3, Wrapping, Zenon
    <3>5. 13 + Len(sent.options) + Len(sent.payload) = PacketSize
      BY <2>3, <3>2, Zenon DEF Meant
    <3>6. \A x, y \in Nat : (8 + x + y) + 5 = 13 + x + y
      OBVIOUS
    <3> QED BY <3>3, <3>4, <3>5, <3>6
  <2> QED BY <2>1, <2>2, <2>3 DEF PayloadAgrees, UplinkHasPacketSize
<1> QED BY <1>1, FrameInvariance, PTL
=============================================================================
