------------------------------ MODULE AdrSettings ------------------------------
(***************************************************************************)
(* What LoRaWANNetworkServer::AdaptiveDataRate computes: from the best SNR *)
(* of the last frames of a device to the data rate and the transmission    *)
(* power of the next LinkADRReq.  AdrAlgorithm shows that the loop of the  *)
(* code computes it.  SNRs are integers in a unit of the instance's choice.*)
(***************************************************************************)
EXTENDS Integers

CONSTANTS
  MaxDr,     \* fastest data rate the algorithm chooses (5)
  MaxTx,     \* lowest transmission power, as an index (7)
  Required,  \* data rate -> SNR it needs: m_adrSnrRequirements
  MarginDb,  \* m_marginDb
  StepSize,  \* the SNR one step stands for (3 dB)
  PowerStep  \* the SNR one index of transmission power costs (2 dB)

ASSUME AlgorithmAssumption ==
  /\ MaxDr \in Nat /\ MaxTx \in Nat
  /\ Required \in [0 .. MaxDr -> Int]
  /\ MarginDb \in Nat /\ StepSize \in Nat \ {0} /\ PowerStep \in Nat
\* A step is worth at least what one data rate or one power index costs.
ASSUME StepAssumption ==
  /\ PowerStep <= StepSize
  /\ \A d \in 0 .. MaxDr - 1 : Required[d + 1] - Required[d] <= StepSize

-----------------------------------------------------------------------------
Least(a, b) == IF a <= b THEN a ELSE b
Most(a, b) == IF a >= b THEN a ELSE b

\* int (x / 3) drops the fraction.
TowardZero(n, d) == IF n >= 0 THEN n \div d ELSE -((-n) \div d)

Margin(snr, d) == snr - Required[d] - MarginDb
\* Mutant: a step too many.
StepsRoundedUp(snr, d) == TowardZero(Margin(snr, d), StepSize) + 1
Steps(snr, d) == TowardZero(Margin(snr, d), StepSize)
\* The SNR still to spare after the settings of a device have changed.
MarginAfter(snr, d, t, newDr, newTx) ==
  Margin(snr, newDr) - PowerStep * (newTx - t)

\* What the loop computes: steps up go to the data rate first and then to
\* the power; steps down only restore power.
NewSettings(d, t, n) ==
  IF n >= 0
    THEN [dr |-> Least(MaxDr, d + n), tx |-> Least(MaxTx, t + Most(0, n - (MaxDr - d)))]
    ELSE [dr |-> d, tx |-> Most(0, t + n)]

Fastest(d, t) == d = MaxDr /\ t = MaxTx
\* AdaptiveDataRate as a function: nothing is changed at the best settings.
Adapted(snr, d, t) ==
  IF Fastest(d, t) THEN [dr |-> d, tx |-> t]
                   ELSE NewSettings(d, t, Steps(snr, d))
=============================================================================
