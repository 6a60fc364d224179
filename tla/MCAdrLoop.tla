------------------------------- MODULE MCAdrLoop -------------------------------
(***************************************************************************)
(* AdrLoop with Semtech's SNR table; the unit is half a dB.                *)
(***************************************************************************)
EXTENDS AdrLoop

SemtechTable == [d \in 0 .. MaxDr |-> -40 + 5 * d]
\* Links at the edge of the slowest data rate that takes the packets, in the
\* middle of the table, and with margin to spare.
LinksOfRun == {-33, -18, 6}
\* The last one alone: four steps of margin at the fastest data rate.
GoodLink == {6}

=============================================================================
