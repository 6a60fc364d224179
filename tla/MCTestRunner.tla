----------------------------- MODULE MCTestRunner -----------------------------
(***************************************************************************)
(* TestRunner with two workers and a few jobs.                             *)
(***************************************************************************)
EXTENDS TestRunner

CONSTANTS w1, w2
TwoWorkers == {w1, w2}
===============================================================================
