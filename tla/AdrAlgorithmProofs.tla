--------------------------- MODULE AdrAlgorithmProofs ---------------------------
(***************************************************************************)
(* The loop of the server's ADR algorithm, for every table of required     *)
(* SNRs and every SNR.  The invariant says what the steps taken so far     *)
(* have cost, and that the settings that the remaining steps lead to are   *)
(* always the same.                                                        *)
(***************************************************************************)
EXTENDS AdrAlgorithm, TLAPS

FirstSteps == Steps(input.snr, input.dr)

\* The remaining steps lead where all the steps lead from the inputs.
LeadsToResult ==
  NewSettings(dr, tx, nStep) = Adapted(input.snr, input.dr, input.tx)

\* What the change from the inputs i to d and t costs is covered by n steps.
Covered(i, d, t, n) ==
  Required[d] - Required[i.dr] + PowerStep * (t - i.tx) <= StepSize * n

\* Steps up: each has cost StepSize at most.
SpentUp ==
  Margin(input.snr, input.dr) >= 0 =>
    /\ 0 <= nStep /\ nStep <= FirstSteps
    /\ Covered(input, dr, tx, FirstSteps - nStep)

\* Steps down: each has given one index of power back.
SpentDown ==
  Margin(input.snr, input.dr) < 0 =>
    /\ nStep <= 0 /\ dr = input.dr
    /\ tx <= input.tx /\ input.tx - tx <= nStep - FirstSteps

Returned ==
  ~Running => LoopEnds /\ result = [dr |-> dr, tx |-> tx, lastTx |-> tx]

IInv == TypeOK /\ LeadsToResult /\ SpentUp /\ SpentDown /\ Returned

-----------------------------------------------------------------------------
\* A quotient that is rounded toward zero times its divisor does not exceed
\* the dividend.
LEMMA Rounding ==
  ASSUME NEW n \in Int, NEW d \in Nat \ {0}
  PROVE  /\ TowardZero(n, d) \in Int
         /\ n >= 0 => TowardZero(n, d) >= 0 /\ d * TowardZero(n, d) <= n
         /\ n < 0 => TowardZero(n, d) <= 0 /\ d * (-TowardZero(n, d)) <= -n
<1>1. ASSUME NEW m \in Nat
      PROVE  m \div d \in Nat /\ d * (m \div d) <= m
  OBVIOUS
<1>2. CASE n >= 0
  BY <1>1, <1>2 DEF TowardZero
<1>3. CASE n < 0
  <2>1. TowardZero(n, d) = -((-n) \div d)
    BY <1>3 DEF TowardZero
  <2>2. (-n) \div d \in Nat /\ d * ((-n) \div d) <= -n
    BY <1>1, <1>3
  <2>3. -TowardZero(n, d) = (-n) \div d
    BY <2>1, <2>2
  <2> QED BY <2>1, <2>2, <2>3, <1>3
<1> QED BY <1>2, <1>3

\* The margin is an integer, and so is the number of steps.
LEMMA StepsType ==
  ASSUME TypeOK
  PROVE  /\ Margin(input.snr, input.dr) \in Int
         /\ FirstSteps \in Int
         /\ Margin(input.snr, input.dr) >= 0 =>
              FirstSteps >= 0 /\ StepSize * FirstSteps <= Margin(input.snr, input.dr)
         /\ Margin(input.snr, input.dr) < 0 =>
              /\ FirstSteps <= 0
              /\ StepSize * (-FirstSteps) <= -Margin(input.snr, input.dr)
<1>1. input.snr \in Int /\ input.dr \in 0 .. MaxDr
  BY SnrsAssumption DEF TypeOK, Inputs
<1>2. Required[input.dr] \in Int
  BY <1>1, AlgorithmAssumption
<1>3. Margin(input.snr, input.dr) \in Int
  BY <1>1, <1>2, AlgorithmAssumption DEF Margin
<1> QED BY <1>3, Rounding, AlgorithmAssumption DEF FirstSteps, Steps

LEMMA Initially == Init => IInv
<1> SUFFICES ASSUME Init PROVE IInv
  OBVIOUS
<1> USE AlgorithmAssumption
<1>1. /\ input \in Inputs /\ dr = input.dr /\ tx = input.tx
      /\ input.dr \in 0 .. MaxDr /\ input.tx \in 0 .. MaxTx
      /\ input.snr \in Int /\ result = NoResult
      /\ nStep = IF Fastest(input.dr, input.tx) THEN 0 ELSE FirstSteps
  BY SnrsAssumption DEF Init, Inputs, FirstSteps
<1>2. Required[input.dr] \in Int /\ Margin(input.snr, input.dr) \in Int
  BY <1>1 DEF Margin
<1>3. FirstSteps \in Int
  BY <1>2, Rounding DEF FirstSteps, Steps
<1>4. TypeOK
  BY <1>1, <1>3 DEF TypeOK
<1>5. LeadsToResult
  <2>1. CASE Fastest(input.dr, input.tx)
    <3>1. NewSettings(input.dr, input.tx, 0) = [dr |-> input.dr, tx |-> input.tx]
      BY <1>1 DEF NewSettings, Least, Most
    <3> QED BY <1>1, <2>1, <3>1 DEF LeadsToResult, Adapted
  <2>2. CASE ~Fastest(input.dr, input.tx)
    BY <1>1, <2>2 DEF LeadsToResult, Adapted, FirstSteps
  <2> QED BY <2>1, <2>2
<1>6. SpentUp
  <2> SUFFICES ASSUME Margin(input.snr, input.dr) >= 0
               PROVE  /\ 0 <= nStep /\ nStep <= FirstSteps
                      /\ Covered(input, dr, tx, FirstSteps - nStep)
    BY DEF SpentUp
  <2>1. FirstSteps >= 0
    BY <1>4, StepsType
  <2>2. PowerStep * (tx - input.tx) = 0
    BY <1>1
  <2>3. 0 <= nStep /\ nStep <= FirstSteps /\ nStep \in Int
    BY <1>1, <1>3, <2>1
  <2>4. StepSize * (FirstSteps - nStep) >= 0
    <3>1. FirstSteps - nStep \in Nat
      BY <2>3, <1>3
    <3> QED BY <3>1
  <2> QED BY <1>1, <1>2, <2>2, <2>3, <2>4 DEF Covered
<1>7. SpentDown
  <2> SUFFICES ASSUME Margin(input.snr, input.dr) < 0
               PROVE  /\ nStep <= 0 /\ dr = input.dr
                      /\ tx <= input.tx /\ input.tx - tx <= nStep - FirstSteps
    BY DEF SpentDown
  <2>1. FirstSteps <= 0
    BY <1>4, StepsType
  <2> QED BY <1>1, <1>3, <2>1
<1>8. Returned
  BY <1>1 DEF Returned, Running
<1> QED BY <1>4, <1>5, <1>6, <1>7, <1>8 DEF IInv

-----------------------------------------------------------------------------
\* What the inputs are, in every state.
LEMMA InputType ==
  ASSUME TypeOK
  PROVE  /\ input.dr \in 0 .. MaxDr /\ input.tx \in 0 .. MaxTx /\ input.snr \in Int
         /\ Required[input.dr] \in Int /\ Required[dr] \in Int
         /\ dr \in 0 .. MaxDr /\ tx \in 0 .. MaxTx /\ nStep \in Int
         /\ MaxDr \in Nat /\ MaxTx \in Nat /\ MarginDb \in Nat
         /\ StepSize \in Nat \ {0} /\ PowerStep \in Nat
BY AlgorithmAssumption, SnrsAssumption DEF TypeOK, Inputs

\* One data rate up costs one step.
LEMMA FasterKeeps == IInv /\ Faster => IInv'
<1> SUFFICES ASSUME IInv, Faster PROVE IInv'
  OBVIOUS
<1>1. /\ result = NoResult /\ nStep > 0 /\ dr < MaxDr
      /\ dr' = dr + 1 /\ nStep' = nStep - 1
      /\ input' = input /\ tx' = tx /\ result' = result
  BY DEF Faster, Running
<1>2. TypeOK /\ SpentUp /\ SpentDown /\ LeadsToResult
  BY DEF IInv
<1>3. TypeOK'
  <2>1. dr' \in 0 .. MaxDr /\ nStep' \in Int
    BY <1>1, <1>2, InputType
  <2> QED BY <2>1, <1>1, <1>2 DEF TypeOK
<1>4. FirstSteps \in Int /\ FirstSteps' = FirstSteps
  BY <1>1, <1>2, StepsType DEF FirstSteps
<1>5. Margin(input.snr, input.dr) \in Int
  BY <1>2, StepsType
<1>6. Margin(input.snr, input.dr) >= 0
  BY <1>1, <1>2, <1>5, InputType DEF SpentDown
<1>7. LeadsToResult'
  <2>1. NewSettings(dr + 1, tx, nStep - 1) = NewSettings(dr, tx, nStep)
    BY <1>1, <1>2, InputType DEF NewSettings, Least, Most
  <2> QED BY <2>1, <1>1, <1>2 DEF LeadsToResult
<1>8. SpentUp'
  <2>1. Required[dr + 1] - Required[dr] <= StepSize /\ Required[dr + 1] \in Int
    <3>1. dr \in 0 .. MaxDr - 1 /\ dr + 1 \in 0 .. MaxDr
      BY <1>1, <1>2, InputType
    <3> QED BY <3>1, StepAssumption, AlgorithmAssumption
  <2>2. StepSize * (FirstSteps - (nStep - 1)) = StepSize * (FirstSteps - nStep) + StepSize
    BY <1>2, <1>4, InputType
  <2>3. /\ PowerStep * (tx - input.tx) \in Int
        /\ StepSize * (FirstSteps - nStep) \in Int
    BY <1>2, <1>4, InputType
  <2>4. /\ 0 <= nStep /\ nStep <= FirstSteps
        /\ Required[dr] - Required[input.dr] + PowerStep * (tx - input.tx)
             <= StepSize * (FirstSteps - nStep)
    BY <1>2, <1>6 DEF SpentUp, Covered
  <2>5. 0 <= nStep - 1 /\ nStep - 1 <= FirstSteps
    BY <1>1, <1>2, <1>4, <2>4, InputType
  <2>6. Covered(input, dr + 1, tx, FirstSteps - (nStep - 1))
    BY <2>1, <2>2, <2>3, <2>4, <1>2, InputType DEF Covered
  <2> QED BY <2>5, <2>6, <1>1, <1>4 DEF SpentUp
<1>9. SpentDown'
  BY <1>1, <1>5, <1>6 DEF SpentDown
<1>10. Returned'
  BY <1>1 DEF Returned, Running
<1> QED BY <1>3, <1>7, <1>8, <1>9, <1>10 DEF IInv

\* One index of power down costs one step.
LEMMA LessPowerKeeps == IInv /\ LessPower => IInv'
<1> SUFFICES ASSUME IInv, LessPower PROVE IInv'
  OBVIOUS
<1>1. /\ result = NoResult /\ nStep > 0 /\ dr = MaxDr /\ tx # MaxTx
      /\ tx' = tx + 1 /\ nStep' = nStep - 1
      /\ input' = input /\ dr' = dr /\ result' = result
  BY DEF LessPower, Running
<1>2. TypeOK /\ SpentUp /\ SpentDown /\ LeadsToResult
  BY DEF IInv
<1>3. TypeOK'
  <2>1. tx' \in 0 .. MaxTx /\ nStep' \in Int
    BY <1>1, <1>2, InputType
  <2> QED BY <2>1, <1>1, <1>2 DEF TypeOK
<1>4. FirstSteps \in Int /\ FirstSteps' = FirstSteps
  BY <1>1, <1>2, StepsType DEF FirstSteps
<1>5. Margin(input.snr, input.dr) \in Int
  BY <1>2, StepsType
<1>6. Margin(input.snr, input.dr) >= 0
  BY <1>1, <1>2, <1>5, InputType DEF SpentDown
<1>7. LeadsToResult'
  <2>1. NewSettings(dr, tx + 1, nStep - 1) = NewSettings(dr, tx, nStep)
    BY <1>1, <1>2, InputType DEF NewSettings, Least, Most
  <2> QED BY <2>1, <1>1, <1>2 DEF LeadsToResult
<1>8. SpentUp'
  <2>1. PowerStep <= StepSize
    BY StepAssumption
  <2>2. /\ StepSize * (FirstSteps - (nStep - 1)) = StepSize * (FirstSteps - nStep) + StepSize
        /\ PowerStep * (tx + 1 - input.tx) = PowerStep * (tx - input.tx) + PowerStep
    BY <1>2, <1>4, InputType
  <2>3. /\ PowerStep * (tx - input.tx) \in Int
        /\ StepSize * (FirstSteps - nStep) \in Int
    BY <1>2, <1>4, InputType
  <2>4. /\ 0 <= nStep /\ nStep <= FirstSteps
        /\ Required[dr] - Required[input.dr] + PowerStep * (tx - input.tx)
             <= StepSize * (FirstSteps - nStep)
    BY <1>2, <1>6 DEF SpentUp, Covered
  <2>5. 0 <= nStep - 1 /\ nStep - 1 <= FirstSteps
    BY <1>1, <1>2, <1>4, <2>4, InputType
  <2>6. Covered(input, dr, tx + 1, FirstSteps - (nStep - 1))
    BY <2>1, <2>2, <2>3, <2>4, <1>2, InputType DEF Covered
  <2> QED BY <2>5, <2>6, <1>1, <1>4 DEF SpentUp
<1>9. SpentDown'
  BY <1>1, <1>5, <1>6 DEF SpentDown
<1>10. Returned'
  BY <1>1 DEF Returned, Running
<1> QED BY <1>3, <1>7, <1>8, <1>9, <1>10 DEF IInv

\* One index of power up makes up for one missing step.
LEMMA MorePowerKeeps == IInv /\ MorePower => IInv'
<1> SUFFICES ASSUME IInv, MorePower PROVE IInv'
  OBVIOUS
<1>1. /\ result = NoResult /\ nStep < 0 /\ tx > 0
      /\ tx' = tx - 1 /\ nStep' = nStep + 1
      /\ input' = input /\ dr' = dr /\ result' = result
  BY DEF MorePower, Running
<1>2. TypeOK /\ SpentUp /\ SpentDown /\ LeadsToResult
  BY DEF IInv
<1>3. TypeOK'
  <2>1. tx' \in 0 .. MaxTx /\ nStep' \in Int
    BY <1>1, <1>2, InputType
  <2> QED BY <2>1, <1>1, <1>2 DEF TypeOK
<1>4. FirstSteps \in Int /\ FirstSteps' = FirstSteps
  BY <1>1, <1>2, StepsType DEF FirstSteps
<1>5. Margin(input.snr, input.dr) \in Int
  BY <1>2, StepsType
<1>6. Margin(input.snr, input.dr) < 0
  BY <1>1, <1>2, <1>5, InputType DEF SpentUp
<1>7. LeadsToResult'
  <2>1. NewSettings(dr, tx - 1, nStep + 1) = NewSettings(dr, tx, nStep)
    BY <1>1, <1>2, InputType DEF NewSettings, Least, Most
  <2> QED BY <2>1, <1>1, <1>2 DEF LeadsToResult
<1>8. SpentUp'
  BY <1>1, <1>5, <1>6 DEF SpentUp
<1>9. SpentDown'
  <2>1. /\ nStep <= 0 /\ dr = input.dr
        /\ tx <= input.tx /\ input.tx - tx <= nStep - FirstSteps
    BY <1>2, <1>6 DEF SpentDown
  <2>2. /\ nStep + 1 <= 0 /\ tx - 1 <= input.tx
        /\ input.tx - (tx - 1) <= (nStep + 1) - FirstSteps
    BY <2>1, <1>1, <1>2, <1>4, InputType
  <2> QED BY <2>1, <2>2, <1>1, <1>4 DEF SpentDown
<1>10. Returned'
  BY <1>1 DEF Returned, Running
<1> QED BY <1>3, <1>7, <1>8, <1>9, <1>10 DEF IInv

LEMMA ReturnKeeps == IInv /\ Return => IInv'
<1> SUFFICES ASSUME IInv, Return PROVE IInv'
  OBVIOUS
<1>1. /\ LoopEnds /\ result' = [dr |-> dr, tx |-> tx, lastTx |-> tx]
      /\ input' = input /\ dr' = dr /\ tx' = tx /\ nStep' = nStep
  BY DEF Return
<1>2. TypeOK /\ SpentUp /\ SpentDown /\ LeadsToResult
  BY DEF IInv
<1>3. TypeOK'
  BY <1>1, <1>2 DEF TypeOK
<1>4. LeadsToResult' /\ SpentUp' /\ SpentDown'
  BY <1>1, <1>2 DEF LeadsToResult, SpentUp, SpentDown, FirstSteps
<1>5. Returned'
  BY <1>1 DEF Returned, LoopEnds, Fastest
<1> QED BY <1>3, <1>4, <1>5 DEF IInv

\* The inductive invariant of the loop.
THEOREM Invariance == Spec => []IInv
<1>1. Init => IInv
  BY Initially
<1>2. IInv /\ [Next]_vars => IInv'
  <2> SUFFICES ASSUME IInv, [Next]_vars PROVE IInv'
    OBVIOUS
  <2>1. CASE UNCHANGED vars
    BY <2>1 DEF vars, IInv, TypeOK, LeadsToResult, SpentUp, SpentDown, FirstSteps,
                Returned, Running, LoopEnds, Fastest
  <2> QED BY <2>1, FasterKeeps, LessPowerKeeps, MorePowerKeeps, ReturnKeeps DEF Next
<1> QED BY <1>1, <1>2, PTL DEF Spec

\* The settings and the counter of the loop keep their types.
THEOREM TypeCorrect == Spec => []TypeOK
<1>1. IInv => TypeOK
  BY DEF IInv
<1> QED BY <1>1, Invariance, PTL

\* The loop computes the closed form: where it ends, the remaining steps lead
\* nowhere else.
THEOREM ComputesClosedForm == Spec => []LoopComputes
<1>1. IInv => LoopComputes
  <2> SUFFICES ASSUME IInv, ~Running
               PROVE  [dr |-> result.dr, tx |-> result.tx]
                        = Adapted(input.snr, input.dr, input.tx)
    BY DEF LoopComputes
  <2>1. TypeOK /\ LeadsToResult /\ LoopEnds
        /\ result = [dr |-> dr, tx |-> tx, lastTx |-> tx]
    BY DEF IInv, Returned
  <2>2. NewSettings(dr, tx, nStep) = [dr |-> dr, tx |-> tx]
    BY <2>1, InputType DEF LoopEnds, Fastest, NewSettings, Least, Most
  <2> QED BY <2>1, <2>2 DEF LeadsToResult
<1> QED BY <1>1, Invariance, PTL

\* The algorithm leaves the link its margin, whatever the table of required
\* SNRs, as long as one step is worth what it buys.
THEOREM KeepsMargin == Spec => []MarginKept
<1>1. IInv => MarginKept
  <2> SUFFICES ASSUME IInv, ~Running, Margin(input.snr, input.dr) >= 0
               PROVE  MarginAfter(input.snr, input.dr, input.tx, result.dr, result.tx) >= 0
    BY DEF MarginKept
  <2>1. TypeOK /\ SpentUp /\ result = [dr |-> dr, tx |-> tx, lastTx |-> tx]
    BY DEF IInv, Returned
  <2>2. /\ 0 <= nStep /\ nStep <= FirstSteps
        /\ Required[dr] - Required[input.dr] + PowerStep * (tx - input.tx)
             <= StepSize * (FirstSteps - nStep)
    BY <2>1 DEF SpentUp, Covered
  <2>3. /\ FirstSteps \in Int /\ Margin(input.snr, input.dr) \in Int
        /\ StepSize * FirstSteps <= Margin(input.snr, input.dr)
    BY <2>1, StepsType
  <2>4. StepSize * (FirstSteps - nStep) <= StepSize * FirstSteps
    <3>1. StepSize * (FirstSteps - nStep) = StepSize * FirstSteps - StepSize * nStep
      BY <2>1, <2>3, InputType
    <3>2. StepSize * nStep >= 0 /\ StepSize * nStep \in Int /\ StepSize * FirstSteps \in Int
      BY <2>1, <2>2, <2>3, InputType
    <3> QED BY <3>1, <3>2
  <2>5. MarginAfter(input.snr, input.dr, input.tx, dr, tx)
          = Margin(input.snr, input.dr)
            - (Required[dr] - Required[input.dr] + PowerStep * (tx - input.tx))
    <3>1. PowerStep * (tx - input.tx) \in Int
      BY <2>1, InputType
    <3> QED BY <3>1, <2>1, InputType DEF MarginAfter, Margin
  <2>6. /\ PowerStep * (tx - input.tx) \in Int /\ StepSize * FirstSteps \in Int
        /\ StepSize * (FirstSteps - nStep) \in Int
    BY <2>1, <2>3, InputType
  <2> QED BY <2>1, <2>2, <2>3, <2>4, <2>5, <2>6, InputType
<1> QED BY <1>1, Invariance, PTL

\* A link without margin gets no faster and no weaker, and is given back no
\* more power than it misses.
THEOREM NoGainWithoutMargin == Spec => []NoMarginNoGain
<1>1. IInv => NoMarginNoGain
  <2> SUFFICES ASSUME IInv, ~Running, Margin(input.snr, input.dr) < 0
               PROVE  /\ result.dr = input.dr /\ result.tx <= input.tx
                      /\ StepSize * (input.tx - result.tx) <= -Margin(input.snr, input.dr)
    BY DEF NoMarginNoGain
  <2>1. TypeOK /\ SpentDown /\ result = [dr |-> dr, tx |-> tx, lastTx |-> tx]
    BY DEF IInv, Returned
  <2>2. /\ nStep <= 0 /\ dr = input.dr
        /\ tx <= input.tx /\ input.tx - tx <= nStep - FirstSteps
    BY <2>1 DEF SpentDown
  <2>3. /\ FirstSteps \in Int /\ Margin(input.snr, input.dr) \in Int
        /\ StepSize * (-FirstSteps) <= -Margin(input.snr, input.dr)
    BY <2>1, StepsType
  <2>4. StepSize * (input.tx - tx) <= StepSize * (-FirstSteps)
    <3>1. input.tx - tx \in Nat /\ -FirstSteps - (input.tx - tx) \in Nat
      BY <2>1, <2>2, <2>3, InputType
    <3>2. StepSize * (-FirstSteps - (input.tx - tx)) >= 0
      BY <3>1, <2>1, InputType
    <3>3. StepSize * (-FirstSteps - (input.tx - tx))
            = StepSize * (-FirstSteps) - StepSize * (input.tx - tx)
      BY <3>1, <2>1, <2>3, InputType
    <3>4. StepSize * (-FirstSteps) \in Int /\ StepSize * (input.tx - tx) \in Int
      BY <2>1, <2>3, InputType
    <3> QED BY <3>2, <3>3, <3>4
  <2>5. StepSize * (-FirstSteps) \in Int /\ StepSize * (input.tx - tx) \in Int
    BY <2>1, <2>3, InputType
  <2> QED BY <2>1, <2>2, <2>3, <2>4, <2>5
<1> QED BY <1>1, Invariance, PTL
=============================================================================
