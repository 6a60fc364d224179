-------------------------- MODULE MCResultExtraction --------------------------
(***************************************************************************)
(* ResultExtraction with three settings: the fastest data rate with less   *)
(* and with least power, and a slower one.                                 *)
(***************************************************************************)
EXTENDS ResultExtraction

ThreeSettings == {[dr |-> 3, tx |-> 0], [dr |-> 5, tx |-> 2], [dr |-> 5, tx |-> 7]}
===============================================================================
