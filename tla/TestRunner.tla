------------------------------ MODULE TestRunner ------------------------------
(***************************************************************************)
(* test.py: the main thread dispatches one job per test suite and example  *)
(* to worker threads over input_queue, collects the jobs that come back    *)
(* over output_queue, counts them and writes results.xml, and a signal     *)
(* handler lets the workers drop what they have not started.               *)
(*                                                                         *)
(* A job is its place in the order of dispatch.  A program that is run is  *)
(* abstracted to how it ends: its exit code, what is in its results file,  *)
(* whether its output can be decoded and whether valgrind found a leak.    *)
(***************************************************************************)
EXTENDS Integers, Sequences, FiniteSets

CONSTANTS
  N,            \* jobs
  Examples,     \* those that are examples, the others being test suites
  Skips,        \* those dispatched with is_skip
  Workers,      \* one worker thread per processor
  Valgrind,     \* options.valgrind
  Translate     \* options.html or options.text is given

ASSUME RunnerAssumption ==
  /\ N \in Nat
  /\ Examples \subseteq 1 .. N /\ Skips \subseteq 1 .. N
  /\ IsFiniteSet(Workers) /\ Workers # {}
  /\ Valgrind \in BOOLEAN /\ Translate \in BOOLEAN

VARIABLES
  input,       \* input_queue
  output,      \* output_queue
  worker,      \* worker -> where it is in its loop, and the job it has
  interrupted, \* thread_exit
  put,         \* jobs and break jobs that main has put into input
  seen,        \* jobs that main has taken from output, in that order
  tally,       \* status -> number of jobs counted under it
  results,     \* entries of results.xml
  main,        \* "running", "raised" an exception, or "returned"
  exitCode,    \* what run_tests returned
  exit         \* job -> how its program ended, and what it left behind

vars == <<input, output, worker, interrupted, put, seen, tally, results, main,
          exitCode, exit>>

-----------------------------------------------------------------------------
Jobs == 1 .. N
Break == 0 \* a job with is_break
\* Mutant: one break job is missing.
ToPutShort == N + Cardinality(Workers) - 1
ToPut == N + Cardinality(Workers)
Crash == 3 \* every other return code
NotRun == 0 \* Job() has returncode False, and False == 0

Idle == [at |-> "idle", job |-> Break]
Exited == [at |-> "exited", job |-> Break]
NoExit == [code |-> -1, file |-> "missing", decodable |-> TRUE, leak |-> FALSE]
\* A suite that ran to its end has written its results, and one that is not
\* found an empty file; one that crashed may not even have opened the file.
Exits(j) ==
  {e \in [code : 0 .. Crash, file : {"PASS", "FAIL", "empty", "missing"},
          decodable : BOOLEAN, leak : BOOLEAN] :
     /\ e.leak => Valgrind
     /\ IF j \in Examples THEN e.file = "missing"
        ELSE \/ e.code = 0 /\ e.file = "PASS"
             \/ e.code = 1 /\ e.file \in {"FAIL", "empty"}
             \/ e.code = 2 /\ e.file \in {"PASS", "FAIL", "empty"} /\ Valgrind
             \/ e.code = Crash /\ e.file \in {"empty", "missing"}}
Statuses == {"PASS", "FAIL", "VALGR", "CRASH", "SKIP"}

\* run_job_synchronously
ReturnCode(e) ==
  IF ~e.decodable THEN 1
  ELSE IF Valgrind /\ e.code = 0 /\ e.leak THEN 2
  ELSE e.code

Init ==
  /\ input = <<>> /\ output = <<>>
  /\ worker = [w \in Workers |-> Idle]
  /\ interrupted = FALSE
  /\ put = 0 /\ seen = <<>>
  /\ tally = [s \in Statuses |-> 0] /\ results = <<>>
  /\ main = "running" /\ exitCode = 0
  /\ exit = [j \in Jobs |-> NoExit]

\* sigint_hook
Interrupt ==
  /\ main = "running" /\ ~interrupted
  /\ interrupted' = TRUE
  /\ UNCHANGED <<input, output, worker, put, seen, tally, results, main,
                 exitCode, exit>>

-----------------------------------------------------------------------------
(***************************************************************************)
(* worker_thread.run.  The flag may change between the steps.              *)
(***************************************************************************)
Moves(w, to) == worker' = [worker EXCEPT ![w] = to]
Returns(w, dropped, code) ==
  /\ output' = Append(output, [job |-> worker[w].job, dropped |-> dropped,
                               code |-> code])
  /\ Moves(w, Idle)
mainState == <<put, seen, tally, results, main, exitCode>>

Take(w) ==
  /\ worker[w].at = "idle" /\ input # <<>>
  /\ input' = Tail(input)
  /\ Moves(w, IF Head(input) = Break THEN Exited
                                     ELSE [at |-> "taken", job |-> Head(input)])
  /\ UNCHANGED <<output, interrupted, mainState, exit>>

\* Mutant: the job keeps its returncode and is not marked.
DropUnmarked(w) ==
  /\ worker[w].at = "taken" /\ interrupted
  /\ Returns(w, FALSE, NotRun)
  /\ UNCHANGED <<input, interrupted, mainState, exit>>
\* Mutant: the job is forgotten.
DropSilently(w) ==
  /\ worker[w].at = "taken" /\ interrupted
  /\ Moves(w, Idle)
  /\ UNCHANGED <<input, output, interrupted, mainState, exit>>
Drop(w) ==
  /\ worker[w].at = "taken" /\ interrupted
  /\ Returns(w, TRUE, NotRun)
  /\ UNCHANGED <<input, interrupted, mainState, exit>>
Keep(w) ==
  /\ worker[w].at = "taken" /\ ~interrupted
  /\ Moves(w, [worker[w] EXCEPT !.at = "kept"])
  /\ UNCHANGED <<input, output, interrupted, mainState, exit>>

Skip(w) ==
  /\ worker[w].at = "kept" /\ worker[w].job \in Skips
  /\ Returns(w, FALSE, NotRun)
  /\ UNCHANGED <<input, interrupted, mainState, exit>>
Launch(w) ==
  /\ worker[w].at = "kept" /\ worker[w].job \notin Skips
  /\ Moves(w, [worker[w] EXCEPT !.at = "running"])
  /\ UNCHANGED <<input, output, interrupted, mainState, exit>>
\* subprocess.Popen raises an exception, which ends the thread.
LaunchFails(w) ==
  /\ worker[w].at = "kept" /\ worker[w].job \notin Skips
  /\ Moves(w, [worker[w] EXCEPT !.at = "died"])
  /\ UNCHANGED <<input, output, interrupted, mainState, exit>>
Finish(w) ==
  /\ worker[w].at = "running"
  /\ \E e \in Exits(worker[w].job) :
       /\ exit' = [exit EXCEPT ![worker[w].job] = e]
       /\ Returns(w, FALSE, ReturnCode(e))
  /\ UNCHANGED <<input, interrupted, mainState>>

Work(w) == Take(w) \/ Drop(w) \/ Keep(w) \/ Skip(w) \/ Launch(w) \/ Finish(w)

-----------------------------------------------------------------------------
(***************************************************************************)
(* run_tests                                                               *)
(***************************************************************************)
\* All jobs, and then one break job for each worker.
Put ==
  /\ main = "running" /\ put < ToPut
  /\ put' = put + 1
  /\ input' = Append(input, IF put < N THEN put + 1 ELSE Break)
  /\ UNCHANGED <<output, worker, interrupted, seen, tally, results, main,
                 exitCode, exit>>

\* Mutant: the return code is looked at before is_skip.
StatusByCode(r) ==
  CASE r.code = 0 -> "PASS"
    [] r.code = 1 -> "FAIL"
    [] r.code = 2 -> "VALGR"
    [] OTHER -> "CRASH"
Status(r) ==
  CASE r.job \in Skips -> "SKIP"
    [] r.job \notin Skips /\ r.code = 0 -> "PASS"
    [] r.job \notin Skips /\ r.code = 1 -> "FAIL"
    [] r.job \notin Skips /\ r.code = 2 -> "VALGR"
    [] OTHER -> "CRASH"

\* What is written for a job: an entry that main makes up, or the contents of
\* the file that the suite wrote.
MadeUp(r) == <<[job |-> r.job, result |-> Status(r),
                wellFormed |-> r.job \in Examples \/ Status(r) # "CRASH"]>>
FromFile(j) ==
  IF exit[j].file = "empty" THEN <<>>
  ELSE <<[job |-> j, result |-> exit[j].file, wellFormed |-> TRUE]>>
ReadsFile(r) ==
  r.job \notin Examples /\ Status(r) \in {"PASS", "FAIL", "VALGR"}
Entries(r) == IF ReadsFile(r) THEN FromFile(r.job) ELSE MadeUp(r)

Collect ==
  /\ main = "running" /\ put = ToPut /\ Len(seen) < N
  /\ output # <<>>
  /\ output' = Tail(output)
  /\ seen' = Append(seen, Head(output).job)
  /\ UNCHANGED <<input, worker, interrupted, put, exitCode, exit>>

\* An interrupted job is not counted.
Ignore ==
  /\ Collect /\ Head(output).dropped
  /\ UNCHANGED <<tally, results, main>>
Count ==
  /\ Collect /\ ~Head(output).dropped
  /\ tally' = [tally EXCEPT ![Status(Head(output))] = @ + 1]
  /\ IF ReadsFile(Head(output)) /\ exit[Head(output).job].file = "missing"
       THEN main' = "raised" /\ UNCHANGED results
       ELSE results' = results \o Entries(Head(output)) /\ UNCHANGED main

\* All threads are joined, and the results translated if that is asked for.
Return ==
  /\ main = "running" /\ put = ToPut /\ Len(seen) = N
  /\ \A w \in Workers : worker[w].at \in {"exited", "died"}
  /\ IF Translate /\ \E i \in DOMAIN results : ~results[i].wellFormed
       THEN main' = "raised" /\ UNCHANGED exitCode
       ELSE /\ main' = "returned"
            /\ exitCode' = IF tally["PASS"] + tally["SKIP"] = N THEN 0 ELSE 1
  /\ UNCHANGED <<input, output, worker, interrupted, put, seen, tally, results,
                 exit>>

Main == Put \/ Ignore \/ Count \/ Return

Next ==
  \/ Main \/ Interrupt
  \/ \E w \in Workers : Work(w) \/ LaunchFails(w)
Spec == Init /\ [][Next]_vars
\* No thread is kept waiting for ever, and every program that is run ends.
Fairness == WF_vars(Main) /\ \A w \in Workers : WF_vars(Work(w))
FairSpec == Spec /\ Fairness

-----------------------------------------------------------------------------
Places == [at : {"idle", "taken", "kept", "running", "exited", "died"}, job : 0 .. N]
TypeOK ==
  /\ input \in Seq(0 .. N)
  /\ output \in Seq([job : Jobs, dropped : BOOLEAN, code : 0 .. Crash])
  /\ worker \in [Workers -> Places]
  /\ interrupted \in BOOLEAN
  /\ put \in 0 .. ToPut /\ seen \in Seq(Jobs)
  /\ tally \in [Statuses -> Nat]
  /\ results \in Seq([job : Jobs, result : Statuses, wellFormed : BOOLEAN])
  /\ main \in {"running", "raised", "returned"} /\ exitCode \in {0, 1}
  /\ exit \in [Jobs -> {NoExit} \union UNION {Exits(j) : j \in Jobs}]

\* Every job that was dispatched is in one place and comes back once: no job
\* is lost between the queues, and none is reported twice.
Copies(j) ==
  Cardinality({i \in DOMAIN input : input[i] = j})
  + Cardinality({w \in Workers : worker[w].job = j})
  + Cardinality({i \in DOMAIN output : output[i].job = j})
  + Cardinality({i \in DOMAIN seen : seen[i] = j})
JobsConserved == \A j \in Jobs : Copies(j) = IF j <= put THEN 1 ELSE 0

\* There is a break job for every worker that still runs, and a worker that
\* exits leaves no job behind, so that main can join all of them.
WorkersOutlastJobs ==
  /\ Cardinality({i \in DOMAIN input : input[i] = Break})
       + Cardinality({w \in Workers : worker[w].at = "exited"})
     = IF put <= N THEN 0 ELSE put - N
  /\ (\E w \in Workers : worker[w].at = "exited") =>
       \A i \in DOMAIN input : input[i] = Break

\* The exit code is 0 only if every job was skipped or its program was run to
\* a clean end, and, without an interrupt, it is 0 if they were: a job that
\* was never started, whose returncode is False, does not count as passed.
Clean(j) == exit[j].code = 0 /\ exit[j].decodable /\ ~exit[j].leak
SuccessHonest ==
  main = "returned" =>
    /\ exitCode = 0 => \A j \in Jobs : j \in Skips \/ Clean(j)
    /\ ~interrupted /\ (\A j \in Jobs : j \in Skips \/ Clean(j)) => exitCode = 0

\* How the program of a job ended.
Outcome(j) ==
  CASE Clean(j) -> "PASS"
    [] ~exit[j].decodable \/ exit[j].code = 1 -> "FAIL"
    [] exit[j].decodable /\ exit[j].code = Crash -> "CRASH"
    [] OTHER -> "VALGR"

\* A suite writes its entry itself, and main copies it: it knows nothing of
\* valgrind (see ValgrindReported) or of output that main cannot decode, and
\* writes none when it is not found.
EntryKnows(j) ==
  /\ exit[j] # NoExit
  /\ j \notin Examples =>
       /\ exit[j].decodable /\ Outcome(j) # "VALGR"
       /\ exit[j].code = 1 => exit[j].file # "empty"
Reportable(j) == IF j \in Skips THEN ~interrupted ELSE EntryKnows(j)

\* results.xml says how the program of a job ended, once and only if it was
\* run; and every job that main took from the queue is in it, also when others
\* were dropped, unless an exception ended main.
Honest(e) ==
  IF e.job \in Skips THEN e.result = "SKIP"
  ELSE /\ exit[e.job] # NoExit
       /\ EntryKnows(e.job) => e.result = Outcome(e.job)
ResultsHonest ==
  /\ \A i \in DOMAIN results : Honest(results[i])
  /\ \A i, k \in DOMAIN results :
       results[i].job = results[k].job /\ Reportable(results[i].job) => i = k
  /\ main # "raised" =>
       \A k \in DOMAIN seen : Reportable(seen[k]) =>
         \E i \in DOMAIN results : results[i].job = seen[k]

\* What the comment in run_tests promises of a working suite that fails
\* valgrind: its PASS entry is followed by a VALGR entry of the same name.  It
\* does not hold: the VALGR entry is never written (README, section 4).
ValgrindReported ==
  main = "returned" =>
    \A j \in Jobs \ (Examples \union Skips) :
      exit[j] # NoExit /\ exit[j].file = "PASS" /\ Outcome(j) = "VALGR" =>
        \E i, k \in DOMAIN results :
          /\ i < k /\ results[i].job = j /\ results[k].job = j
          /\ results[i].result = "PASS" /\ results[k].result = "VALGR"

\* What goes through the queues and threads adds up.
JobsAccounted == TypeOK /\ JobsConserved /\ WorkersOutlastJobs

\* run_tests ends, whatever the programs do and whenever it is interrupted,
\* unless a program could not be started: its thread ends, and main waits for
\* the job for ever.
Terminates ==
  <>(main # "running" \/ \E w \in Workers : worker[w].at = "died")
===============================================================================
