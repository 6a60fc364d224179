----------------------- MODULE EndDeviceApplicationProofs -----------------------
(***************************************************************************)
(* The back-off of the device, for every limit, delay and data rate.  The  *)
(* invariant ties the counter, which the code sets back, to the number of  *)
(* silent packets, which nobody sets back before a downlink.               *)
(***************************************************************************)
EXTENDS EndDeviceApplication, TLAPS

\* Where the counter stands after n packets of silence.
CountAt(n) == n - AdrAckDelay * Backoffs(n)

\* While there is something to give up, the counter is never past its values.
CountOnSchedule == Adr /\ Degradable => adrAckCnt = CountAt(silent)

\* The application ends with its last packet.
WithinLimit == running => MaxPackets = 0 \/ totPackets < MaxPackets

IInv == TypeOK /\ OnSchedule /\ AskedInTime /\ CountOnSchedule /\ WithinLimit

-----------------------------------------------------------------------------
\* Two quotients of the same dividend are equal.
LEMMA QuotientUnique ==
  ASSUME NEW d \in Nat \ {0}, NEW a \in Nat, NEW q \in Int, NEW p \in Int,
         d * q <= a, a < d * q + d, d * p <= a, a < d * p + d
  PROVE  q = p
<1>1. ASSUME NEW x \in Int, NEW y \in Int, x < y
      PROVE  d * x + d <= d * y
  <2>1. y - x - 1 \in Nat
    BY <1>1
  <2>2. d * (y - x - 1) >= 0
    BY <2>1
  <2>3. d * (y - x - 1) = d * y - (d * x + d)
    OBVIOUS
  <2> QED BY <2>2, <2>3
<1>2. ~(q < p)
  BY <1>1
<1>3. ~(p < q)
  BY <1>1
<1> QED BY <1>2, <1>3

\* Division rounds down.
LEMMA Division ==
  ASSUME NEW d \in Nat \ {0}, NEW a \in Nat
  PROVE  /\ a \div d \in Nat /\ d * (a \div d) \in Nat
         /\ d * (a \div d) <= a /\ a < d * (a \div d) + d
<1>1. a \div d \in Nat
  OBVIOUS
<1>2. d * (a \div d) \in Nat
  BY <1>1
<1>3. d * (a \div d) <= a
  OBVIOUS
<1>4. a < d * (a \div d) + d
  OBVIOUS
<1> QED BY <1>1, <1>2, <1>3, <1>4

\* The quotient of the next number.
LEMMA NextQuotient ==
  ASSUME NEW d \in Nat \ {0}, NEW a \in Nat
  PROVE  (a + 1) \div d = IF a + 1 = d * (a \div d) + d THEN a \div d + 1
                                                       ELSE a \div d
<1> DEFINE q == a \div d
           p == (a + 1) \div d
<1>1. q \in Nat /\ d * q \in Nat /\ d * q <= a /\ a < d * q + d
  BY Division
<1>2. p \in Nat /\ d * p \in Nat /\ d * p <= a + 1 /\ a + 1 < d * p + d
  BY Division
<1> HIDE DEF q, p
<1>3. CASE a + 1 = d * q + d
  <2>1. d * (q + 1) = d * q + d
    BY <1>1
  <2>2. /\ d * (q + 1) <= a + 1 /\ a + 1 < d * (q + 1) + d
    BY <1>1, <1>3, <2>1
  <2>3. p = q + 1
    BY <1>1, <1>2, <2>2, QuotientUnique
  <2> QED BY <1>3, <2>3 DEF q, p
<1>4. CASE a + 1 # d * q + d
  <2>1. d * q <= a + 1 /\ a + 1 < d * q + d
    BY <1>1, <1>4
  <2>2. p = q
    BY <1>1, <1>2, <2>1, QuotientUnique
  <2> QED BY <1>4, <2>2 DEF q, p
<1> QED BY <1>3, <1>4

-----------------------------------------------------------------------------
\* One more silent packet moves the counter by one, or completes a delay.
LEMMA NextCount ==
  ASSUME NEW n \in Nat
  PROVE  /\ CountAt(n) \in 0 .. BackoffAt - 1 /\ Backoffs(n) \in Nat
         /\ CountAt(n) + 1 = BackoffAt =>
              /\ n >= AdrAckLimit
              /\ Backoffs(n + 1) = Backoffs(n) + 1 /\ CountAt(n + 1) = AdrAckLimit
         /\ CountAt(n) + 1 # BackoffAt =>
              Backoffs(n + 1) = Backoffs(n) /\ CountAt(n + 1) = CountAt(n) + 1
         /\ CountAt(n) + 1 = AdrAckLimit <=> n + 1 = AdrAckLimit
<1> DEFINE d == AdrAckDelay
           l == AdrAckLimit
<1>0. d \in Nat \ {0} /\ l \in Nat \ {0}
  BY DeviceAssumption
<1>1. CASE n < l
  <2>1. Backoffs(n) = 0 /\ CountAt(n) = n
    BY <1>0, <1>1 DEF CountAt, Backoffs
  <2>2. n + 1 - l = 0 => (n + 1 - l) \div d = 0
    <3>1. SUFFICES ASSUME n + 1 - l = 0 PROVE 0 \div d = 0
      OBVIOUS
    <3>2. 0 \div d \in Nat /\ d * (0 \div d) <= 0 /\ 0 < d * (0 \div d) + d
      BY <1>0, Division
    <3>3. d * 0 <= 0 /\ 0 < d * 0 + d
      BY <1>0
    <3> QED BY <1>0, <3>2, <3>3, QuotientUnique
  <2>3. Backoffs(n + 1) = 0
    BY <1>0, <1>1, <2>2 DEF Backoffs
  <2>4. CountAt(n + 1) = n + 1
    BY <1>0, <2>3 DEF CountAt
  <2> QED BY <1>0, <1>1, <2>1, <2>3, <2>4 DEF BackoffAt
<1>2. CASE n >= l
  <2> DEFINE q == (n - l) \div d
  <2>1. n - l \in Nat /\ n + 1 - l = (n - l) + 1
    BY <1>0, <1>2
  <2>2. q \in Nat /\ d * q \in Nat /\ d * q <= n - l /\ n - l < d * q + d
    BY <1>0, <2>1, Division
  <2>3. ((n - l) + 1) \div d = IF (n - l) + 1 = d * q + d THEN q + 1 ELSE q
    BY <1>0, <2>1, NextQuotient
  <2>4. Backoffs(n) = q /\ CountAt(n) = n - d * q
    BY <1>0, <1>2 DEF CountAt, Backoffs
  <2>5. Backoffs(n + 1) = IF (n - l) + 1 = d * q + d THEN q + 1 ELSE q
    BY <1>0, <1>2, <2>1, <2>3 DEF Backoffs
  <2> HIDE DEF q
  <2>6. CountAt(n) \in l .. BackoffAt - 1 /\ BackoffAt = l + d
    BY <1>0, <2>2, <2>4 DEF BackoffAt
  <2>7. CASE (n - l) + 1 = d * q + d
    <3>1. d * (q + 1) = d * q + d
      BY <1>0, <2>2
    <3>2. Backoffs(n + 1) = q + 1 /\ CountAt(n + 1) = n + 1 - d * (q + 1)
      <4>1. Backoffs(n + 1) = q + 1
        BY <2>5, <2>7
      <4> QED BY <1>0, <2>2, <4>1 DEF CountAt
    <3>3. CountAt(n) + 1 = BackoffAt /\ CountAt(n + 1) = l
      BY <1>0, <2>2, <2>4, <2>6, <2>7, <3>1, <3>2
    <3> QED BY <1>0, <1>2, <2>2, <2>4, <2>6, <3>2, <3>3
  <2>8. CASE (n - l) + 1 # d * q + d
    <3>1. Backoffs(n + 1) = q /\ CountAt(n + 1) = n + 1 - d * q
      <4>1. Backoffs(n + 1) = q
        BY <2>5, <2>8
      <4> QED BY <1>0, <2>2, <4>1 DEF CountAt
    <3>2. CountAt(n) + 1 # BackoffAt /\ CountAt(n + 1) = CountAt(n) + 1
      BY <1>0, <2>2, <2>4, <2>6, <2>8, <3>1
    <3> QED BY <1>0, <1>2, <2>2, <2>4, <2>6, <3>1, <3>2
  <2> QED BY <2>7, <2>8
<1> QED BY <1>0, <1>1, <1>2

-----------------------------------------------------------------------------
Settings == [dr : 0 .. MaxDr, tx : 0 .. MaxTx]
\* One back-off.
Weaker(s) == [dr |-> IF s.tx > 0 \/ s.dr = 0 THEN s.dr ELSE s.dr - 1, tx |-> 0]

\* Degraded goes down by one back-off or not at all.
LEMMA DegradedStep ==
  ASSUME NEW s \in Settings, NEW n \in Nat
  PROVE  /\ Degraded(s, n) \in Settings
         /\ Backoffs(n + 1) = Backoffs(n) => Degraded(s, n + 1) = Degraded(s, n)
         /\ Backoffs(n + 1) = Backoffs(n) + 1 =>
              Degraded(s, n + 1) = Weaker(Degraded(s, n))
<1> DEFINE b == Backoffs(n)
           c == Backoffs(n + 1)
           Given(k) == [dr |-> LET steps == IF s.tx > 0 /\ k > 0 THEN k - 1 ELSE k
                               IN  IF s.dr > steps THEN s.dr - steps ELSE 0,
                        tx |-> IF k > 0 THEN 0 ELSE s.tx]
<1>1. b \in Nat /\ s.dr \in 0 .. MaxDr /\ s.tx \in 0 .. MaxTx
  BY NextCount DEF Settings
<1>2. Degraded(s, n) = Given(b) /\ Degraded(s, n + 1) = Given(c)
  BY DEF Degraded
<1>3. MaxDr \in Nat /\ MaxTx \in Nat
  BY DeviceAssumption
<1> HIDE DEF b, c
<1>4. Given(b) \in Settings
  BY <1>1, <1>3 DEF Settings
<1>5. ASSUME c = b + 1
      PROVE  Given(c) = Weaker(Given(b))
  BY <1>1, <1>3, <1>5 DEF Weaker
<1>6. ASSUME c = b
      PROVE  Given(c) = Given(b)
  BY <1>6
<1> HIDE DEF Given
<1> QED BY <1>2, <1>4, <1>5, <1>6 DEF b, c

\* Once at the slowest settings, silence changes nothing.
LEMMA SlowestStays ==
  ASSUME NEW s \in Settings, NEW n \in Nat, Degraded(s, n) = Slowest
  PROVE  Degraded(s, n + 1) = Slowest
<1>1. Weaker(Slowest) = Slowest
  BY DEF Weaker, Slowest
<1>2. Backoffs(n + 1) = Backoffs(n) \/ Backoffs(n + 1) = Backoffs(n) + 1
  BY NextCount
<1> QED BY <1>1, <1>2, DegradedStep

LEMMA DegradedNow ==
  ASSUME NEW s \in Settings
  PROVE  Degraded(s, 0) = s /\ CountAt(0) = 0
<1>1. Backoffs(0) = 0
  BY DeviceAssumption DEF Backoffs
<1>2. s = [dr |-> s.dr, tx |-> s.tx] /\ s.dr \in Nat /\ s.tx \in Nat
  BY DeviceAssumption DEF Settings
<1>3. Degraded(s, 0) = [dr |-> s.dr, tx |-> s.tx]
  BY <1>1, <1>2 DEF Degraded
<1>4. CountAt(0) = 0
  BY <1>1, DeviceAssumption DEF CountAt
<1> QED BY <1>2, <1>3, <1>4

\* The horizon of the ghost is past the last back-off.
LEMMA HorizonSlowest ==
  ASSUME NEW s \in Settings
  PROVE  /\ Horizon \in Nat /\ Horizon - 1 \in Nat /\ Horizon > AdrAckLimit
         /\ Degraded(s, Horizon - 1) = Slowest /\ Degraded(s, Horizon) = Slowest
<1> DEFINE k == MaxDr + 1
           a == AdrAckDelay * k
<1>0. k \in Nat \ {0} /\ AdrAckDelay \in Nat \ {0} /\ AdrAckLimit \in Nat \ {0}
  BY DeviceAssumption
<1>1. a \in Nat
  BY <1>0
<1>2. Horizon = AdrAckLimit + a + 1
  BY DEF Horizon
<1>3. a \div AdrAckDelay = k
  <2>1. /\ a \div AdrAckDelay \in Nat
        /\ AdrAckDelay * (a \div AdrAckDelay) <= a
        /\ a < AdrAckDelay * (a \div AdrAckDelay) + AdrAckDelay
    BY <1>0, <1>1, Division
  <2>2. AdrAckDelay * k <= a /\ a < AdrAckDelay * k + AdrAckDelay
    BY <1>0, <1>1
  <2> HIDE DEF a, k
  <2> QED BY <1>0, <1>1, <2>1, <2>2, QuotientUnique
<1> HIDE DEF a
<1>4. Backoffs(Horizon - 1) = k
  <2>1. Horizon - 1 = AdrAckLimit + a /\ (AdrAckLimit + a) - AdrAckLimit = a
    BY <1>0, <1>1, <1>2
  <2>2. ~(AdrAckLimit + a < AdrAckLimit)
    BY <1>0, <1>1
  <2> QED BY <1>3, <2>1, <2>2 DEF Backoffs
<1>5. Degraded(s, Horizon - 1) = Slowest
  <2>1. s.dr \in 0 .. MaxDr /\ s.tx \in 0 .. MaxTx /\ MaxDr \in Nat /\ MaxTx \in Nat
    BY DeviceAssumption DEF Settings
  <2> QED BY <1>4, <2>1 DEF Degraded, Slowest
<1>6. Horizon \in Nat /\ Horizon - 1 \in Nat /\ Horizon > AdrAckLimit
      /\ (Horizon - 1) + 1 = Horizon
  BY <1>0, <1>1, <1>2
<1> QED BY <1>5, <1>6, SlowestStays

-----------------------------------------------------------------------------
THEOREM InitIInv == Init => IInv
<1> SUFFICES ASSUME Init PROVE IInv
  OBVIOUS
<1> USE DeviceAssumption
<1> DEFINE s0 == [dr |-> InitialDr, tx |-> 0]
<1>1. s0 \in Settings
  BY DEF Settings
<1>2. Degraded(s0, 0) = s0 /\ CountAt(0) = 0
  BY <1>1, DegradedNow
<1>3. 0 \in 0 .. Horizon
  BY <1>1, HorizonSlowest
<1>4. TypeOK
  <2>1. /\ dataRateIndex \in 0 .. MaxDr /\ txPowerIndex \in 0 .. MaxTx
        /\ adrAckCnt \in 0 .. BackoffAt + 1 /\ totPackets \in 0 .. MaxPackets
    <3>1. BackoffAt \in Nat
      BY DEF BackoffAt
    <3> QED BY <3>1 DEF Init
  <2>2. adrAckReq \in BOOLEAN /\ setAck \in BOOLEAN /\ running \in BOOLEAN /\ linkAdrAns \in Answers
    <3>1. linkAdrAns \in Answers
      BY Zenon DEF Init, Answers
    <3> QED BY <3>1 DEF Init
  <2>3. requests \in Seq(Frames) /\ Len(requests) <= MaxQueue
    BY DEF Init
  <2>4. silent \in 0 .. Horizon /\ start \in [dr : 0 .. MaxDr, tx : 0 .. MaxTx]
    BY <1>1, <1>3 DEF Init, Settings
  <2> QED BY <2>1, <2>2, <2>3, <2>4 DEF TypeOK
<1>5. OnSchedule /\ CountOnSchedule
  BY <1>2 DEF Init, OnSchedule, CountOnSchedule
<1>6. AskedInTime
  BY DEF Init, AskedInTime
<1>7. WithinLimit
  BY DEF Init, WithinLimit
<1> QED BY <1>4, <1>5, <1>6, <1>7 DEF IInv

\* What AdaptiveDataRate leaves is well typed, whatever the ghosts say.
LEMMA AdaptTypes ==
  ASSUME TypeOK, AdaptiveDataRate
  PROVE  /\ dataRateIndex' \in 0 .. MaxDr /\ txPowerIndex' \in 0 .. MaxTx
         /\ adrAckCnt' \in 0 .. BackoffAt + 1 /\ adrAckReq' \in BOOLEAN
<1> USE DeviceAssumption
<1>1. Counted \in 0 .. BackoffAt + 1
  BY DEF TypeOK, Counted, BackoffAt
<1>2. AdrAckLimit \in 0 .. BackoffAt + 1 /\ BackoffAt \in Nat
  BY DEF BackoffAt
<1>3. CASE ~Adr
  BY <1>3 DEF AdaptiveDataRate, TypeOK, settings, counter
<1>4. CASE Adr /\ NothingToGain
  BY <1>1, <1>4 DEF NothingToGain, TypeOK, settings
<1>5. CASE Adr /\ CountSilence
  BY <1>1, <1>5 DEF CountSilence, TypeOK, settings
<1>6. CASE Adr /\ BackOff
  BY <1>2, <1>6 DEF BackOff, MoreRobust, Degradable, TypeOK
<1> QED BY <1>3, <1>4, <1>5, <1>6 DEF AdaptiveDataRate

\* One more silent packet keeps the device on schedule.
LEMMA AdaptKeepsSchedule ==
  ASSUME IInv, AdaptiveDataRate, silent' = Longer, UNCHANGED start
  PROVE  OnSchedule' /\ AskedInTime' /\ CountOnSchedule'
<1> DEFINE now == [dr |-> dataRateIndex, tx |-> txPowerIndex]
<1>0. /\ TypeOK /\ OnSchedule /\ AskedInTime /\ CountOnSchedule
  BY DEF IInv
<1>1. /\ start \in Settings /\ silent \in 0 .. Horizon
      /\ dataRateIndex \in 0 .. MaxDr /\ txPowerIndex \in 0 .. MaxTx
      /\ MaxDr \in Nat /\ MaxTx \in Nat /\ adrAckReq \in BOOLEAN
      /\ AdrAckLimit \in Nat \ {0} /\ Adr \in BOOLEAN
  BY <1>0, DeviceAssumption DEF TypeOK, Settings
<1>2. /\ Horizon \in Nat /\ Horizon > AdrAckLimit
      /\ Degraded(start, Horizon - 1) = Slowest /\ Degraded(start, Horizon) = Slowest
  BY <1>1, HorizonSlowest
<1>3. silent \in Nat
  BY <1>1, <1>2
<1>4. CASE ~Adr
  BY <1>0, <1>4 DEF AdaptiveDataRate, OnSchedule, AskedInTime, CountOnSchedule, counter
<1>5. CASE Adr /\ ~Degradable
  <2>1. /\ adrAckReq' = FALSE
        /\ dataRateIndex' = dataRateIndex /\ txPowerIndex' = txPowerIndex
    BY <1>5 DEF AdaptiveDataRate, NothingToGain, CountSilence, BackOff, settings
  <2>2. Degraded(start, silent) = Slowest
    BY <1>0, <1>1, <1>5 DEF OnSchedule, Degradable, Slowest
  <2>3. Degraded(start, silent + 1) = Slowest
    BY <1>1, <1>3, <2>2, SlowestStays
  <2>4. Degraded(start, silent') = Slowest /\ Degraded(start, silent' - 1) = Slowest
    <3>1. CASE silent = Horizon
      BY <1>2, <3>1 DEF Longer
    <3>2. CASE silent # Horizon
      <4>1. silent' = silent + 1 /\ silent' - 1 = silent
        BY <1>3, <3>2 DEF Longer
      <4> QED BY <2>2, <2>3, <4>1
    <3> QED BY <3>1, <3>2
  <2>5. OnSchedule'
    BY <1>0, <1>5, <2>1, <2>2, <2>4 DEF OnSchedule
  <2>6. AskedInTime'
    BY <2>1, <2>4 DEF AskedInTime
  <2>7. CountOnSchedule'
    BY <1>5, <2>1 DEF CountOnSchedule, Degradable
  <2> QED BY <2>5, <2>6, <2>7
<1>6. CASE Adr /\ Degradable
  <2>1. now = Degraded(start, silent) /\ Degraded(start, silent) # Slowest
    BY <1>0, <1>1, <1>6 DEF OnSchedule, Degradable, Slowest
  <2>2. silent' = silent + 1 /\ silent' - 1 = silent /\ silent' \in Nat
    BY <1>2, <1>3, <2>1 DEF Longer
  <2>3. adrAckCnt = CountAt(silent)
    BY <1>0, <1>6 DEF CountOnSchedule
  <2>4. /\ CountAt(silent) \in 0 .. BackoffAt - 1 /\ BackoffAt \in Nat
        /\ CountAt(silent) + 1 = BackoffAt =>
              /\ silent >= AdrAckLimit
              /\ Backoffs(silent + 1) = Backoffs(silent) + 1
              /\ CountAt(silent + 1) = AdrAckLimit
        /\ CountAt(silent) + 1 # BackoffAt =>
              /\ Backoffs(silent + 1) = Backoffs(silent)
              /\ CountAt(silent + 1) = CountAt(silent) + 1
        /\ CountAt(silent) + 1 = AdrAckLimit <=> silent + 1 = AdrAckLimit
    BY <1>3, NextCount, DeviceAssumption DEF BackoffAt
  <2>5. Counted = CountAt(silent) + 1
    BY <2>3, <2>4 DEF Counted
  <2>6. adrAckReq <=> silent >= AdrAckLimit
    <3>1. CASE silent < AdrAckLimit
      BY <1>0, <1>1, <1>3, <3>1 DEF AskedInTime
    <3>2. CASE silent >= AdrAckLimit
      <4>1. silent - 1 \in Nat /\ (silent - 1) + 1 = silent
        BY <1>1, <1>3, <3>2
      <4>2. Degraded(start, silent - 1) # Slowest
        BY <1>1, <2>1, <4>1, SlowestStays
      <4> QED BY <1>0, <1>1, <1>6, <3>2, <4>2 DEF AskedInTime
    <3> QED BY <1>1, <1>3, <3>1, <3>2
  <2>7. CASE CountSilence
    <3>1. /\ Counted # BackoffAt /\ adrAckCnt' = Counted
          /\ adrAckReq' = (adrAckReq \/ Counted = AdrAckLimit)
          /\ dataRateIndex' = dataRateIndex /\ txPowerIndex' = txPowerIndex
      BY <2>7 DEF CountSilence, settings
    <3>2. Degraded(start, silent + 1) = Degraded(start, silent)
      BY <1>1, <1>3, <2>4, <2>5, <3>1, DegradedStep
    <3>3. OnSchedule'
      BY <2>1, <2>2, <3>1, <3>2 DEF OnSchedule
    <3>4. adrAckReq' <=> silent + 1 >= AdrAckLimit
      <4>1. silent + 1 >= AdrAckLimit <=> silent >= AdrAckLimit \/ silent + 1 = AdrAckLimit
        BY <1>1, <1>3
      <4>2. adrAckReq' <=> adrAckReq \/ Counted = AdrAckLimit
        BY <3>1
      <4>3. Counted = AdrAckLimit <=> silent + 1 = AdrAckLimit
        BY <2>4, <2>5
      <4> QED BY <2>6, <4>1, <4>2, <4>3
    <3>5. AskedInTime'
      BY <1>6, <2>1, <2>2, <3>4 DEF AskedInTime
    <3>6. CountOnSchedule'
      BY <2>2, <2>4, <2>5, <3>1 DEF CountOnSchedule
    <3> QED BY <3>3, <3>5, <3>6
  <2>8. CASE BackOff
    <3>1. /\ Counted = BackoffAt /\ MoreRobust
          /\ adrAckCnt' = AdrAckLimit /\ adrAckReq' = adrAckReq
      BY <2>8 DEF BackOff
    <3>2. Degraded(start, silent + 1) = Weaker(now)
      BY <1>1, <1>3, <2>1, <2>4, <2>5, <3>1, DegradedStep
    <3>3. [dr |-> dataRateIndex', tx |-> txPowerIndex'] = Weaker(now)
      BY <1>1, <1>6, <3>1 DEF MoreRobust, Weaker, Degradable
    <3>4. OnSchedule'
      BY <2>2, <3>2, <3>3 DEF OnSchedule
    <3>5. adrAckReq' /\ silent + 1 >= AdrAckLimit
      <4>1. silent >= AdrAckLimit
        BY <2>4, <2>5, <3>1
      <4>2. silent + 1 >= AdrAckLimit
        BY <1>1, <1>3, <4>1
      <4>3. adrAckReq
        BY <2>6, <4>1
      <4> QED BY <3>1, <4>2, <4>3
    <3>6. AskedInTime'
      BY <1>6, <2>1, <2>2, <3>5 DEF AskedInTime
    <3>7. CountOnSchedule'
      BY <2>2, <2>4, <2>5, <3>1 DEF CountOnSchedule
    <3> QED BY <3>4, <3>6, <3>7
  <2> QED BY <1>6, <2>7, <2>8 DEF AdaptiveDataRate, NothingToGain
<1> QED BY <1>1, <1>4, <1>5, <1>6

-----------------------------------------------------------------------------
LEMMA SendPacketStep == IInv /\ SendPacket => IInv'
<1> SUFFICES ASSUME IInv, SendPacket PROVE IInv'
  OBVIOUS
<1>1. /\ running /\ Len(requests) < MaxQueue
      /\ AdaptiveDataRate /\ linkAdrAns' = NoAns
      /\ Accepted \/ Refused
      /\ silent' = Longer /\ UNCHANGED start
  BY DEF SendPacket
<1>2. TypeOK /\ WithinLimit
  BY DEF IInv
<1>3. OnSchedule' /\ AskedInTime' /\ CountOnSchedule'
  BY <1>1, AdaptKeepsSchedule
<1>4. /\ dataRateIndex' \in 0 .. MaxDr /\ txPowerIndex' \in 0 .. MaxTx
      /\ adrAckCnt' \in 0 .. BackoffAt + 1 /\ adrAckReq' \in BOOLEAN
  BY <1>1, <1>2, AdaptTypes
<1>5. silent' \in 0 .. Horizon /\ start' = start
      /\ start \in [dr : 0 .. MaxDr, tx : 0 .. MaxTx]
  <2>1. silent \in 0 .. Horizon /\ start \in Settings
    BY <1>2 DEF TypeOK, Settings
  <2>2. Horizon \in Nat
    BY <2>1, HorizonSlowest
  <2> QED BY <1>1, <2>1, <2>2 DEF Longer, Settings
<1>6. linkAdrAns' \in Answers
  BY <1>1, Zenon DEF Answers
<1>7. Frame \in Frames
  <2>1. setAck \in BOOLEAN /\ linkAdrAns \in Answers
    BY <1>2 DEF TypeOK
  <2> QED BY <1>4, <2>1 DEF Frame, Frames
<1>8. /\ requests \in Seq(Frames) /\ totPackets \in 0 .. MaxPackets
      /\ MaxPackets \in Nat /\ MaxQueue \in Nat
      /\ setAck \in BOOLEAN /\ running \in BOOLEAN
  BY <1>2, DeviceAssumption DEF TypeOK
<1>9. CASE Accepted
  <2>1. /\ requests' = Append(requests, Frame) /\ setAck' = FALSE
        /\ totPackets' = IF MaxPackets = 0 THEN 0 ELSE totPackets + 1
    BY <1>9 DEF Accepted
  <2>2. running' <=> MaxPackets = 0 \/ totPackets' < MaxPackets
    BY <1>9 DEF Accepted
  <2>3. running' \in BOOLEAN
    BY <1>9 DEF Accepted
  <2>4. requests' \in Seq(Frames) /\ Len(requests') <= MaxQueue
    BY <1>1, <1>7, <1>8, <2>1
  <2>5. totPackets' \in 0 .. MaxPackets
    <3>1. MaxPackets = 0 \/ totPackets < MaxPackets
      BY <1>1, <1>2 DEF WithinLimit
    <3> QED BY <1>8, <2>1, <3>1
  <2>6. TypeOK'
    BY <1>4, <1>5, <1>6, <2>1, <2>3, <2>4, <2>5 DEF TypeOK, BackoffAt, Horizon
  <2>7. WithinLimit'
    BY <2>2 DEF WithinLimit
  <2> QED BY <1>3, <2>6, <2>7 DEF IInv
<1>10. CASE Refused
  <2>1. /\ requests' = requests /\ setAck' = setAck
        /\ totPackets' = totPackets
    BY <1>10 DEF Refused, life
  <2>2. running' = running
    BY <1>10 DEF Refused, life
  <2>3. Len(requests') <= MaxQueue
    BY <1>1, <1>8, <2>1
  <2>4. TypeOK'
    BY <1>4, <1>5, <1>6, <1>8, <2>1, <2>2, <2>3 DEF TypeOK, BackoffAt, Horizon
  <2>5. WithinLimit'
    BY <1>2, <2>1, <2>2 DEF WithinLimit
  <2> QED BY <1>3, <2>4, <2>5 DEF IInv
<1> QED BY <1>1, <1>9, <1>10

LEMMA HandleDSPacketStep ==
  ASSUME IInv, NEW dl \in Downlinks, HandleDSPacket(dl)
  PROVE  IInv'
<1>1. /\ running /\ ResetBackoff
      /\ IF dl.cmd = NoCmd THEN UNCHANGED <<settings, linkAdrAns>> ELSE Apply(dl.cmd)
      /\ setAck' = (setAck \/ dl.conf)
      /\ silent' = 0 /\ start' = [dr |-> dataRateIndex', tx |-> txPowerIndex']
      /\ totPackets' = totPackets /\ requests' = requests
  BY DEF HandleDSPacket, life
<1>2. running' = running
  BY DEF HandleDSPacket, life
<1>3. TypeOK /\ AskedInTime /\ WithinLimit
  BY DEF IInv
<1>4. /\ MaxDr \in Nat /\ MaxTx \in Nat /\ BackoffAt \in Nat /\ Adr \in BOOLEAN
      /\ AdrAckLimit \in Nat \ {0} /\ MaxDr <= 5 /\ MaxTx <= 7
  BY DeviceAssumption DEF BackoffAt
<1>5. dl.conf \in BOOLEAN /\ dl.cmd \in {NoCmd} \union Commands
  BY DEF Downlinks
<1>6. /\ dataRateIndex' \in 0 .. MaxDr /\ txPowerIndex' \in 0 .. MaxTx
      /\ linkAdrAns' \in Answers
  <2>1. CASE dl.cmd = NoCmd
    BY <1>1, <1>3, <2>1 DEF TypeOK, settings
  <2>2. CASE dl.cmd # NoCmd
    <3>1. /\ dl.cmd.dr \in (0 .. MaxDr) \union {Reserved, NoChange}
          /\ dl.cmd.tx \in (0 .. MaxTx) \union {Reserved, NoChange}
      BY <1>5, <2>2 DEF Commands
    <3>2. Apply(dl.cmd)
      BY <1>1, <2>2
    <3>3. dataRateIndex' \in 0 .. MaxDr /\ txPowerIndex' \in 0 .. MaxTx
      BY <1>3, <1>4, <3>1, <3>2 DEF Apply, TypeOK, Reserved, NoChange
    <3>4. linkAdrAns' \in [power : BOOLEAN, dataRate : BOOLEAN, due : {TRUE}]
      BY <3>2 DEF Apply
    <3> QED BY <3>3, <3>4 DEF Answers
  <2> QED BY <2>1, <2>2
<1>7. adrAckCnt' \in 0 .. BackoffAt + 1 /\ adrAckReq' \in BOOLEAN
      /\ adrAckReq' = FALSE /\ (Adr => adrAckCnt' = 0)
  <2>1. CASE Adr
    <3>1. adrAckCnt' = 0 /\ adrAckReq' = FALSE
      BY <1>1, <2>1, Zenon DEF ResetBackoff
    <3>2. 0 \in 0 .. BackoffAt + 1
      BY <1>4
    <3> QED BY <3>1, <3>2
  <2>2. CASE ~Adr
    <3>1. adrAckCnt' = adrAckCnt /\ adrAckReq' = adrAckReq
      BY <1>1, <2>2 DEF ResetBackoff, counter
    <3>2. adrAckReq = FALSE
      BY <1>3, <2>2 DEF AskedInTime, TypeOK
    <3> QED BY <1>3, <2>2, <3>1, <3>2 DEF TypeOK
  <2> QED BY <1>4, <2>1, <2>2
<1>8. start' \in Settings
  BY <1>1, <1>6 DEF Settings
<1>9. Degraded(start', 0) = start' /\ CountAt(0) = 0
  BY <1>8, DegradedNow
<1>10. 0 \in 0 .. Horizon
  BY <1>8, HorizonSlowest
<1>11. setAck' \in BOOLEAN /\ running' \in BOOLEAN
  BY <1>1, <1>2, <1>3, <1>5 DEF TypeOK
<1>12. /\ requests \in Seq(Frames) /\ Len(requests) <= MaxQueue
       /\ totPackets \in 0 .. MaxPackets
  BY <1>3 DEF TypeOK
<1>13. TypeOK'
  BY <1>1, <1>6, <1>7, <1>8, <1>10, <1>11, <1>12
     DEF TypeOK, BackoffAt, Horizon, Settings
<1>14. OnSchedule' /\ CountOnSchedule'
  BY <1>1, <1>7, <1>9 DEF OnSchedule, CountOnSchedule
<1>15. AskedInTime'
  <2>1. ~(silent' >= AdrAckLimit)
    BY <1>1, <1>4
  <2> QED BY <1>7, <2>1 DEF AskedInTime
<1>16. WithinLimit'
  BY <1>1, <1>2, <1>3 DEF WithinLimit
<1> QED BY <1>13, <1>14, <1>15, <1>16 DEF IInv

\* The steps that leave data rate, counter and ghosts alone.
LEMMA OtherStep ==
  ASSUME IInv, StopApplication \/ Serve \/ UNCHANGED vars
  PROVE  IInv'
<1>1. /\ dataRateIndex' = dataRateIndex /\ txPowerIndex' = txPowerIndex
      /\ adrAckCnt' = adrAckCnt /\ linkAdrAns' = linkAdrAns
      /\ totPackets' = totPackets /\ silent' = silent /\ start' = start
  BY DEF StopApplication, Serve, vars, settings, counter, owed, life, ghost
<1>2. adrAckReq' = adrAckReq /\ setAck' = setAck
  BY DEF StopApplication, Serve, vars, settings, counter, owed, life, ghost
<1>3. running' = running \/ running' = FALSE
  BY DEF StopApplication, Serve, vars, settings, counter, owed, life, ghost
<1>4. TypeOK /\ OnSchedule /\ AskedInTime /\ CountOnSchedule /\ WithinLimit
  BY DEF IInv
<1>5. requests' \in Seq(Frames) /\ Len(requests') <= MaxQueue
  <2>1. /\ requests \in Seq(Frames) /\ Len(requests) <= MaxQueue
        /\ MaxQueue \in Nat
    BY <1>4, DeviceAssumption DEF TypeOK
  <2>2. CASE Serve
    <3>1. requests # <<>> /\ requests' = Tail(requests)
      BY <2>2 DEF Serve
    <3> QED BY <2>1, <3>1
  <2>3. CASE requests' = requests
    BY <2>1, <2>3
  <2> QED BY <2>2, <2>3 DEF StopApplication, vars
<1>6. running' \in BOOLEAN
  BY <1>3, <1>4 DEF TypeOK
<1>7. TypeOK'
  BY <1>1, <1>2, <1>4, <1>5, <1>6 DEF TypeOK, BackoffAt, Horizon
<1>8. OnSchedule' /\ CountOnSchedule'
  BY <1>1, <1>4 DEF OnSchedule, CountOnSchedule, Degradable
<1>9. AskedInTime'
  BY <1>1, <1>2, <1>4 DEF AskedInTime
<1>10. WithinLimit'
  BY <1>1, <1>3, <1>4 DEF WithinLimit
<1> QED BY <1>7, <1>8, <1>9, <1>10 DEF IInv

-----------------------------------------------------------------------------
LEMMA NextIInv == IInv /\ [Next]_vars => IInv'
<1> SUFFICES ASSUME IInv, [Next]_vars PROVE IInv'
  OBVIOUS
<1>1. CASE SendPacket
  BY <1>1, SendPacketStep
<1>2. CASE StopApplication \/ Serve \/ UNCHANGED vars
  BY <1>2, OtherStep
<1>3. ASSUME NEW dl \in Downlinks, HandleDSPacket(dl)
      PROVE  IInv'
  BY <1>3, HandleDSPacketStep
<1> QED BY <1>1, <1>2, <1>3 DEF Next

THEOREM Invariance == Spec => []IInv
BY InitIInv, NextIInv, PTL DEF Spec

\* Every variable keeps its type, the queue of the MAC and the packet count
\* their bounds, for every limit and table.
THEOREM TypeCorrect == Spec => []TypeOK
<1>1. IInv => TypeOK
  BY DEF IInv
<1> QED BY <1>1, Invariance, PTL

\* adaptiveDataRate gives up power and data rate exactly on schedule, for every
\* ADR_ACK_LIMIT and ADR_ACK_DELAY and however the downlinks arrive.
THEOREM BacksOffOnSchedule == Spec => []OnSchedule
<1>1. IInv => OnSchedule
  BY DEF IInv
<1> QED BY <1>1, Invariance, PTL

\* ADRACKReq is set exactly while an answer is wanted.
THEOREM AsksInTime == Spec => []AskedInTime
<1>1. IInv => AskedInTime
  BY DEF IInv
<1> QED BY <1>1, Invariance, PTL

\* SendPacket resets the Ack bit only together with the packet that carries it.
THEOREM CarriesTheAck == Spec => AckCarried
<1>1. ASSUME IInv, [Next]_vars, setAck, ~setAck'
      PROVE  requests' # requests /\ requests'[Len(requests')].ack
  <2>1. SendPacket
    <3>1. CASE StopApplication \/ Serve \/ UNCHANGED vars
      <4>1. setAck' = setAck
        BY <3>1 DEF StopApplication, Serve, vars, owed
      <4> QED BY <1>1, <4>1
    <3>2. ASSUME NEW dl \in Downlinks, HandleDSPacket(dl)
          PROVE  FALSE
      BY <1>1, <3>2 DEF HandleDSPacket
    <3> QED BY <1>1, <3>1, <3>2 DEF Next
  <2>2. Accepted
    <3>1. CASE Refused
      <4>1. setAck' = setAck
        BY <3>1 DEF Refused
      <4> QED BY <1>1, <4>1
    <3> QED BY <2>1, <3>1 DEF SendPacket
  <2>3. requests \in Seq(Frames)
    BY <1>1 DEF IInv, TypeOK
  <2>4. requests' = Append(requests, Frame)
    BY <2>2 DEF Accepted
  <2> DEFINE f == Frame
  <2>5. f.ack
    BY <1>1 DEF Frame
  <2> HIDE DEF f
  <2>6. /\ Len(requests') = Len(requests) + 1 /\ Len(requests) \in Nat
        /\ requests'[Len(requests')] = f
    BY <2>3, <2>4 DEF f
  <2>7. requests' # requests
    BY <2>6
  <2> QED BY <2>5, <2>6, <2>7
<1>2. IInv /\ [Next]_vars =>
        [setAck /\ ~setAck' =>
           requests' # requests /\ requests'[Len(requests')].ack]_vars
  BY <1>1
<1> QED BY <1>2, Invariance, PTL DEF Spec, AckCarried
=============================================================================
