------------------------------ MODULE AdrAlgorithm ------------------------------
(***************************************************************************)
(* The loop over nStep in LoRaWANNetworkServer::AdaptiveDataRate, one      *)
(* iteration at a time.                                                    *)
(***************************************************************************)
EXTENDS AdrSettings

CONSTANT Snrs \* values of snrM
ASSUME SnrsAssumption == Snrs \subseteq Int

VARIABLES
  input,  \* m_lastDataRateIndex, m_lastTxPowerIndex, and snrM of the history
  dr, tx, nStep,
  result  \* the returned data rate and power, and m_lastTxPowerIndex then

vars == <<input, dr, tx, nStep, result>>

-----------------------------------------------------------------------------
NoResult == [dr |-> -1, tx |-> -1, lastTx |-> -1]
Inputs == [dr : 0 .. MaxDr, tx : 0 .. MaxTx, snr : Snrs]

Init ==
  /\ input \in Inputs
  /\ dr = input.dr /\ tx = input.tx
  /\ nStep = IF Fastest(input.dr, input.tx) THEN 0
                                            ELSE Steps(input.snr, input.dr)
  /\ result = NoResult

Running == result = NoResult

Faster ==
  /\ Running /\ nStep > 0
  /\ dr < MaxDr
  /\ dr' = dr + 1 /\ nStep' = nStep - 1
  /\ UNCHANGED <<input, tx, result>>

\* Mutant: the step is not counted.
LessPowerForFree ==
  /\ Running /\ nStep > 0
  /\ dr = MaxDr /\ tx # MaxTx
  /\ tx' = tx + 1
  /\ UNCHANGED <<input, dr, nStep, result>>
LessPower ==
  /\ Running /\ nStep > 0
  /\ dr = MaxDr /\ tx # MaxTx
  /\ tx' = tx + 1 /\ nStep' = nStep - 1
  /\ UNCHANGED <<input, dr, result>>

MorePower ==
  /\ Running /\ nStep < 0
  /\ tx > 0
  /\ tx' = tx - 1 /\ nStep' = nStep + 1
  /\ UNCHANGED <<input, dr, result>>

\* The condition of the loop is false, or one of its breaks is taken.
LoopEnds ==
  \/ nStep = 0
  \/ nStep > 0 /\ Fastest(dr, tx)
  \/ nStep < 0 /\ tx = 0
\* Mutant: the settings are returned before the loop is over.
ReturnEarly ==
  /\ Running /\ (LoopEnds \/ nStep = 1)
  /\ result' = [dr |-> dr, tx |-> tx, lastTx |-> tx]
  /\ UNCHANGED <<input, dr, tx, nStep>>
\* m_lastTxPowerIndex is what is returned, whether or not it changed.
Return ==
  /\ Running /\ LoopEnds
  /\ result' = [dr |-> dr, tx |-> tx, lastTx |-> tx]
  /\ UNCHANGED <<input, dr, tx, nStep>>

Next == Faster \/ LessPower \/ MorePower \/ Return
Spec == Init /\ [][Next]_vars

-----------------------------------------------------------------------------
TypeOK ==
  /\ input \in Inputs
  /\ dr \in 0 .. MaxDr /\ tx \in 0 .. MaxTx /\ nStep \in Int
  /\ result \in [dr : 0 .. MaxDr, tx : 0 .. MaxTx, lastTx : 0 .. MaxTx] \union {NoResult}

\* The loop computes the function that AdrSettings states in closed form.
LoopComputes ==
  ~Running =>
    [dr |-> result.dr, tx |-> result.tx] = Adapted(input.snr, input.dr, input.tx)

\* Steps up never spend more than the margin: with the new settings the best
\* frame of the history would still have arrived with MarginDb to spare.
MarginKept ==
  ~Running /\ Margin(input.snr, input.dr) >= 0 =>
    MarginAfter(input.snr, input.dr, input.tx, result.dr, result.tx) >= 0

\* A link without margin gets no faster and no weaker: a negative margin
\* only gives power back, and by no more than is missing.
NoMarginNoGain ==
  ~Running /\ Margin(input.snr, input.dr) < 0 =>
    /\ result.dr = input.dr
    /\ result.tx <= input.tx
    /\ StepSize * (input.tx - result.tx) <= -Margin(input.snr, input.dr)

=============================================================================
