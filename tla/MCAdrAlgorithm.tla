----------------------------- MODULE MCAdrAlgorithm -----------------------------
(***************************************************************************)
(* AdrAlgorithm with the tables of the code.  The unit is 1/10000 dB.      *)
(***************************************************************************)
EXTENDS AdrAlgorithm

\* m_adrSnrRequirementsVDA, the table in use unless SnrCutoffValuesSource is set.
VDATable == [d \in 0 .. 5 |->
  CASE d = 0 -> -256243 [] d = 1 -> -227568 [] d = 2 -> -200254
    [] d = 3 -> -173749 [] d = 4 -> -148485 [] d = 5 -> -122833]

\* Every half dB from below the most robust data rate to well above the
\* least robust one.
VDASnrs == {5000 * n : n \in -60 .. 50}
=============================================================================
