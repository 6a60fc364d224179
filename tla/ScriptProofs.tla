------------------------------ MODULE ScriptProofs ------------------------------
(***************************************************************************)
(* run_tests of test.py with any number of jobs and worker threads: every  *)
(* job is in one place and comes back once, the break jobs reach every     *)
(* worker after the last job, results.xml says what the programs did, and  *)
(* the exit code is 0 only when all went well.                             *)
(*                                                                         *)
(* At the end is the log that extract_data.py reads, of any length: which  *)
(* transmissions the script counts as successful.                          *)
(*                                                                         *)
(* The places of a job are counted.  Number says at how many places of a   *)
(* queue, or of the table of the workers, there is one of a set of values. *)
(***************************************************************************)
EXTENDS TestRunner, ResultExtraction, FiniteSetTheorems, TLAPS

Number(q, V) == Cardinality({i \in DOMAIN q : q[i] \in V})

Reports == [job : Jobs, dropped : BOOLEAN, code : 0 .. Crash]
ReportsOf(j) == {r \in Reports : r.job = j}
Holding(j) == {p \in Places : p.job = j}
Gone == {p \in Places : p.at = "exited"}
GoodJobs == {j \in Jobs : j \in Skips \/ Clean(j)}
Passed == tally["PASS"] + tally["SKIP"]

\* A worker has a job except where it waits for one or is done.
CarriesJob ==
  \A w \in Workers : worker[w].job = Break <=> worker[w].at \in {"idle", "exited"}

\* The break jobs are behind all others.
BreaksLast ==
  \A i, k \in DOMAIN input : i < k /\ input[i] = Break => input[k] = Break

\* A job comes back unfinished only after an interrupt and before its program was
\* run, and otherwise with the return code of its program.
ReportsTrue ==
  \A i \in DOMAIN output :
    /\ output[i].dropped => interrupted
    /\ output[i].dropped /\ output[i].job \notin Skips => exit[output[i].job] = NoExit
    /\ ~output[i].dropped /\ output[i].job \notin Skips =>
         /\ exit[output[i].job] \in Exits(output[i].job)
         /\ output[i].code = ReturnCode(exit[output[i].job])

\* A program that has ended was reported to main.
RunsReported ==
  \A j \in Jobs : exit[j] # NoExit =>
    \/ \E i \in DOMAIN output : output[i].job = j
    \/ \E k \in DOMAIN seen : seen[k] = j

\* What is counted as passed or skipped was skipped or is clean; without an
\* interrupt nothing is left out.
Tallied ==
  /\ Passed <= Number(seen, GoodJobs)
  /\ ~interrupted => Passed = Number(seen, GoodJobs)

\* An entry of results.xml is about a job that came back.
ResultsSeen ==
  \A i \in DOMAIN results : \E k \in DOMAIN seen : seen[k] = results[i].job

\* main has joined the workers.
AllOver ==
  main = "returned" => \A w \in Workers : worker[w].at \in {"exited", "died"}

RunnerIInv ==
  /\ TypeOK /\ CarriesJob
  /\ JobsConserved
  /\ WorkersOutlastJobs /\ BreaksLast
  /\ ReportsTrue /\ RunsReported /\ Tallied
  /\ ResultsHonest /\ ResultsSeen
  /\ SuccessHonest /\ AllOver
-----------------------------------------------------------------------------
(***************************************************************************)
(* Counting.                                                               *)
(***************************************************************************)
\* The places in a queue are finitely many, and none is counted twice.
LEMMA QueuePlaces ==
  ASSUME NEW S, NEW q \in Seq(S), NEW V
  PROVE  /\ IsFiniteSet({i \in DOMAIN q : q[i] \in V})
         /\ Number(q, V) \in Nat
         /\ Number(q, V) <= Len(q) /\ Len(q) \in Nat
         /\ Number(q, V) = Len(q) => \A i \in DOMAIN q : q[i] \in V
<1> DEFINE P == {i \in DOMAIN q : q[i] \in V}
<1>1. Len(q) \in Nat /\ DOMAIN q = 1 .. Len(q)
  OBVIOUS
<1>2. IsFiniteSet(1 .. Len(q)) /\ Cardinality(1 .. Len(q)) = Len(q)
  BY <1>1, FS_Interval
<1>3. P \in SUBSET (1 .. Len(q))
  BY <1>1
<1>4. /\ IsFiniteSet(P) /\ Cardinality(P) <= Cardinality(1 .. Len(q))
      /\ Cardinality(1 .. Len(q)) = Cardinality(P) => 1 .. Len(q) = P
  <2> HIDE DEF P
  <2> QED BY <1>2, <1>3, FS_Subset
<1>5. Cardinality(P) \in Nat
  BY <1>4, FS_CardinalityType
<1> QED BY <1>1, <1>2, <1>4, <1>5 DEF Number

\* Workers are finitely many.
LEMMA WorkerPlaces ==
  ASSUME NEW f, DOMAIN f = Workers, NEW V
  PROVE  /\ IsFiniteSet({w \in DOMAIN f : f[w] \in V})
         /\ Number(f, V) \in Nat
<1> DEFINE P == {w \in DOMAIN f : f[w] \in V}
<1>1. IsFiniteSet(Workers) /\ P \in SUBSET Workers
  BY RunnerAssumption
<1>2. IsFiniteSet(P)
  <2> HIDE DEF P
  <2> QED BY <1>1, FS_Subset
<1> QED BY <1>2, FS_CardinalityType DEF Number

\* Nothing is counted exactly where there is nothing, and what is counted once is
\* at one place.
LEMMA NumberFacts ==
  ASSUME NEW q, NEW V, IsFiniteSet({i \in DOMAIN q : q[i] \in V})
  PROVE  /\ Number(q, V) = 0 <=> \A i \in DOMAIN q : q[i] \notin V
         /\ Number(q, V) = 1 =>
              \A i, k \in DOMAIN q : q[i] \in V /\ q[k] \in V => i = k
<1> DEFINE P == {i \in DOMAIN q : q[i] \in V}
<1>1. /\ Cardinality(P) = 0 <=> P = {}
      /\ Cardinality(P) = 1 <=> \E x : P = {x}
  <2> HIDE DEF P
  <2>1. IsFiniteSet(P)
    BY DEF P
  <2> QED BY <2>1, FS_EmptySet, FS_Singleton
<1>2. Number(q, V) = Cardinality(P)
  BY DEF Number
<1>3. P = {} <=> \A i \in DOMAIN q : q[i] \notin V
  OBVIOUS
<1>4. ASSUME Cardinality(P) = 1, NEW i \in DOMAIN q, NEW k \in DOMAIN q,
             q[i] \in V, q[k] \in V
      PROVE  i = k
  <2>1. i \in P /\ k \in P
    BY <1>4
  <2>2. PICK x : P = {x}
    BY <1>1, <1>4
  <2> HIDE DEF P
  <2> QED BY <2>1, <2>2
<1> HIDE DEF P
<1> QED BY <1>1, <1>2, <1>3, <1>4

\* A queue grows at its end.
LEMMA NumberAppend ==
  ASSUME NEW S, NEW q \in Seq(S), NEW x, NEW V
  PROVE  Number(Append(q, x), V) = Number(q, V) + IF x \in V THEN 1 ELSE 0
<1> DEFINE r == Append(q, x)
           P == {i \in DOMAIN q : q[i] \in V}
           R == {i \in DOMAIN r : r[i] \in V}
           n == Len(q) + 1
<1>1. /\ Len(q) \in Nat /\ DOMAIN q = 1 .. Len(q)
      /\ DOMAIN r = 1 .. n /\ r[n] = x
      /\ \A i \in 1 .. Len(q) : r[i] = q[i]
  OBVIOUS
<1>2. IsFiniteSet(P)
  BY QueuePlaces
<1>3. R = (IF x \in V THEN P \union {n} ELSE P) /\ n \notin P
  <2> HIDE DEF r
  <2> QED BY <1>1
<1> HIDE DEF P, R
<1>4. /\ Cardinality(P \union {n}) = IF n \in P THEN Cardinality(P) ELSE Cardinality(P) + 1
      /\ Cardinality(P) \in Nat
  <2>1. Cardinality(P) \in Nat
    BY <1>2, FS_CardinalityType
  <2> QED BY <1>2, <2>1, FS_AddElement
<1>5. Number(r, V) = Cardinality(R) /\ Number(q, V) = Cardinality(P)
  BY DEF Number, R, P
<1> QED BY <1>3, <1>4, <1>5

\* A queue shrinks at its head.
LEMMA NumberTail ==
  ASSUME NEW S, NEW q \in Seq(S), q # <<>>, NEW V
  PROVE  Number(q, V) = Number(Tail(q), V) + IF Head(q) \in V THEN 1 ELSE 0
<1> DEFINE r == Tail(q)
           P == {i \in DOMAIN q : q[i] \in V}
           R == {i \in DOMAIN r : r[i] \in V}
           f == [i \in R |-> i + 1]
<1>1. /\ Len(q) \in Nat /\ DOMAIN q = 1 .. Len(q) /\ Len(q) > 0
      /\ DOMAIN r = 1 .. Len(q) - 1
      /\ \A i \in 1 .. Len(q) - 1 : r[i] = q[i + 1]
      /\ Head(q) = q[1]
  OBVIOUS
<1>2. IsFiniteSet(P) /\ IsFiniteSet(R)
  <2>1. r \in Seq(S)
    OBVIOUS
  <2> HIDE DEF r
  <2> QED BY <2>1, QueuePlaces
<1>3. f \in Bijection(R, P \ {1})
  <2>1. f \in [R -> P \ {1}]
    <3> HIDE DEF r
    <3> QED BY <1>1
  <2>2. \A a, b \in R : f[a] = f[b] => a = b
    <3> HIDE DEF r
    <3> QED BY <1>1
  <2>3. \A t \in P \ {1} : \E a \in R : f[a] = t
    <3> SUFFICES ASSUME NEW t \in P \ {1} PROVE t - 1 \in R /\ f[t - 1] = t
      OBVIOUS
    <3>1. t \in 1 .. Len(q) /\ t # 1 /\ q[t] \in V
      BY <1>1
    <3>2. t - 1 \in 1 .. Len(q) - 1 /\ (t - 1) + 1 = t
      BY <1>1, <3>1
    <3>3. r[t - 1] = q[t] /\ t - 1 \in DOMAIN r
      BY <1>1, <3>2
    <3>4. t - 1 \in R
      BY <3>1, <3>3
    <3> QED BY <3>2, <3>4
  <2> HIDE DEF f, R, P
  <2> QED BY <2>1, <2>2, <2>3 DEF Bijection, Injection, Surjection, IsInjective
<1>4. 1 \in P <=> Head(q) \in V
  BY <1>1
<1> HIDE DEF f, P, R
<1>5. Cardinality(P \ {1}) = Cardinality(R)
  <2>1. ExistsBijection(R, P \ {1})
    BY <1>3 DEF ExistsBijection
  <2> QED BY <1>2, <2>1, FS_Bijection
<1>6. /\ Cardinality(P \ {1}) = IF 1 \in P THEN Cardinality(P) - 1 ELSE Cardinality(P)
      /\ Cardinality(P) \in Nat
  BY <1>2, FS_RemoveElement, FS_CardinalityType
<1>7. Number(r, V) = Cardinality(R) /\ Number(q, V) = Cardinality(P)
  BY DEF Number, R, P
<1> QED BY <1>4, <1>5, <1>6, <1>7

\* In g, w is at x, and all others are where f has them.
Moved(f, g, w, x) == g = [f EXCEPT ![w] = x]

\* A worker goes to another place.
LEMMA NumberMove ==
  ASSUME NEW S, NEW f \in [Workers -> S], NEW w \in Workers, NEW x \in S, NEW V,
         NEW g, Moved(f, g, w, x)
  PROVE  Number(g, V) + (IF f[w] \in V THEN 1 ELSE 0)
           = Number(f, V) + (IF x \in V THEN 1 ELSE 0)
<1> DEFINE P == {v \in DOMAIN f : f[v] \in V}
           R == {v \in DOMAIN g : g[v] \in V}
<1>1. /\ DOMAIN f = Workers /\ DOMAIN g = Workers /\ g[w] = x
      /\ \A v \in Workers \ {w} : g[v] = f[v]
  BY DEF Moved
<1>2. IsFiniteSet(P) /\ IsFiniteSet(R)
  <2>1. IsFiniteSet(P)
    BY <1>1, WorkerPlaces
  <2>2. IsFiniteSet(R)
    BY <1>1, WorkerPlaces
  <2> QED BY <2>1, <2>2
<1>3. /\ P \ {w} = R \ {w}
      /\ w \in P <=> f[w] \in V
      /\ w \in R <=> x \in V
  BY <1>1
<1> HIDE DEF P, R
<1>4. /\ Cardinality(P \ {w}) = IF w \in P THEN Cardinality(P) - 1 ELSE Cardinality(P)
      /\ Cardinality(R \ {w}) = IF w \in R THEN Cardinality(R) - 1 ELSE Cardinality(R)
      /\ Cardinality(P) \in Nat /\ Cardinality(R) \in Nat
  BY <1>2, FS_RemoveElement, FS_CardinalityType
<1>5. Number(g, V) = Cardinality(R) /\ Number(f, V) = Cardinality(P)
  BY DEF Number, R, P
<1>6. Cardinality(P \ {w}) = Cardinality(R \ {w})
  BY <1>3
<1>7. /\ Cardinality(P) = Cardinality(P \ {w}) + IF f[w] \in V THEN 1 ELSE 0
      /\ Cardinality(R) = Cardinality(R \ {w}) + IF x \in V THEN 1 ELSE 0
  <2>1. w \in P <=> f[w] \in V
    BY <1>3
  <2>2. w \in R <=> x \in V
    BY <1>3
  <2> QED BY <1>4, <2>1, <2>2
<1>8. Cardinality(P \ {w}) \in Int
  BY <1>4
<1> QED BY <1>5, <1>6, <1>7, <1>8
-----------------------------------------------------------------------------
(***************************************************************************)
(* The places of a job.                                                    *)
(***************************************************************************)
\* The constants as numbers.
LEMMA RunnerNumbers ==
  /\ N \in Nat /\ Cardinality(Workers) \in Nat
  /\ ToPut \in Nat /\ ToPut = N + Cardinality(Workers)
  /\ \A j \in Jobs : j \in 1 .. N /\ j \in 0 .. N /\ j # Break /\ j \in Nat
  /\ Break \in 0 .. N /\ \A j \in 0 .. N : j # Break => j \in Jobs
<1>1. Cardinality(Workers) \in Nat
  BY RunnerAssumption, FS_CardinalityType
<1> QED BY <1>1, RunnerAssumption DEF ToPut, Jobs, Break

\* The variables that hold jobs.
LEMMA QueueTypes ==
  ASSUME TypeOK
  PROVE  /\ input \in Seq(0 .. N)
         /\ output \in Seq(Reports)
         /\ seen \in Seq(Jobs)
         /\ worker \in [Workers -> Places] /\ DOMAIN worker = Workers
BY DEF TypeOK, Reports

\* The copies of a job, counted, before and after a step.
Counted(j) ==
  /\ Copies(j) = Number(input, {j}) + Number(worker, Holding(j))
                 + Number(output, ReportsOf(j)) + Number(seen, {j})
  /\ Number(input, {j}) \in Nat /\ Number(worker, Holding(j)) \in Nat
  /\ Number(output, ReportsOf(j)) \in Nat /\ Number(seen, {j}) \in Nat

\* A job's copies are the sum of four numbers.
LEMMA CopiesCounted == TypeOK => \A j \in Jobs : Counted(j)
<1> SUFFICES ASSUME TypeOK, NEW j \in Jobs PROVE Counted(j)
  OBVIOUS
<1>0. /\ input \in Seq(0 .. N) /\ output \in Seq(Reports) /\ seen \in Seq(Jobs)
      /\ worker \in [Workers -> Places] /\ DOMAIN worker = Workers
  BY QueueTypes
<1>1. {i \in DOMAIN input : input[i] = j} = {i \in DOMAIN input : input[i] \in {j}}
  OBVIOUS
<1>2. {w \in Workers : worker[w].job = j}
        = {w \in DOMAIN worker : worker[w] \in Holding(j)}
  BY <1>0 DEF Holding
<1>3. {i \in DOMAIN output : output[i].job = j}
        = {i \in DOMAIN output : output[i] \in ReportsOf(j)}
  <2>1. \A i \in DOMAIN output : output[i] \in Reports
    BY <1>0
  <2> QED BY <2>1 DEF ReportsOf
<1>4. {i \in DOMAIN seen : seen[i] = j} = {i \in DOMAIN seen : seen[i] \in {j}}
  OBVIOUS
<1>5. /\ Number(input, {j}) \in Nat /\ Number(worker, Holding(j)) \in Nat
      /\ Number(output, ReportsOf(j)) \in Nat /\ Number(seen, {j}) \in Nat
  BY <1>0, QueuePlaces, WorkerPlaces
<1> QED BY <1>1, <1>2, <1>3, <1>4, <1>5 DEF Counted, Copies, Number

\* The same of the next state.
LEMMA CopiesCountedNext == TypeOK' => \A j \in Jobs : Counted(j)'
<1>1. TypeOK' => (\A j \in Jobs : Counted(j))'
  BY CopiesCounted, PTL
<1> QED BY <1>1

\* A job is with one worker, or in one place of a queue, or was seen once.
LEMMA OnePlace ==
  ASSUME TypeOK, JobsConserved, NEW j \in Jobs
  PROVE  /\ \A w \in Workers : worker[w].job = j =>
              /\ \A v \in Workers : worker[v].job = j => v = w
              /\ \A i \in DOMAIN output : output[i].job # j
              /\ \A i \in DOMAIN seen : seen[i] # j
         /\ \A i \in DOMAIN output : output[i].job = j =>
              /\ \A k \in DOMAIN output : output[k].job = j => k = i
              /\ \A k \in DOMAIN seen : seen[k] # j
         /\ \A i, k \in DOMAIN seen : seen[i] = j /\ seen[k] = j => i = k
<1>0. /\ input \in Seq(0 .. N) /\ output \in Seq(Reports) /\ seen \in Seq(Jobs)
      /\ worker \in [Workers -> Places] /\ DOMAIN worker = Workers
  BY QueueTypes
<1> DEFINE a == Number(input, {j})
           b == Number(worker, Holding(j))
           c == Number(output, ReportsOf(j))
           d == Number(seen, {j})
<1>1. a + b + c + d <= 1 /\ a \in Nat /\ b \in Nat /\ c \in Nat /\ d \in Nat
  <2>1. Copies(j) = 0 \/ Copies(j) = 1
    BY DEF JobsConserved
  <2>2. /\ Copies(j) = a + b + c + d
        /\ a \in Nat /\ b \in Nat /\ c \in Nat /\ d \in Nat
    BY CopiesCounted DEF Counted
  <2> HIDE DEF a, b, c, d
  <2> QED BY <2>1, <2>2
<1>2. /\ b = 0 <=> \A w \in Workers : worker[w].job # j
      /\ b = 1 => \A w, v \in Workers : worker[w].job = j /\ worker[v].job = j => w = v
  <2>1. \A w \in Workers : worker[w] \in Holding(j) <=> worker[w].job = j
    BY <1>0 DEF Holding
  <2>2. IsFiniteSet({w \in DOMAIN worker : worker[w] \in Holding(j)})
    BY <1>0, WorkerPlaces
  <2>3. /\ b = 0 <=> \A w \in DOMAIN worker : worker[w] \notin Holding(j)
        /\ b = 1 => \A w, v \in DOMAIN worker :
             worker[w] \in Holding(j) /\ worker[v] \in Holding(j) => w = v
    BY <2>2, NumberFacts
  <2> HIDE DEF b
  <2> QED BY <1>0, <2>1, <2>3
<1>3. /\ c = 0 <=> \A i \in DOMAIN output : output[i].job # j
      /\ c = 1 => \A i, k \in DOMAIN output :
                    output[i].job = j /\ output[k].job = j => i = k
  <2>1. \A i \in DOMAIN output : output[i] \in ReportsOf(j) <=> output[i].job = j
    <3>1. \A i \in DOMAIN output : output[i] \in Reports
      BY <1>0
    <3> QED BY <3>1 DEF ReportsOf
  <2>2. IsFiniteSet({i \in DOMAIN output : output[i] \in ReportsOf(j)})
    BY <1>0, QueuePlaces
  <2>3. /\ c = 0 <=> \A i \in DOMAIN output : output[i] \notin ReportsOf(j)
        /\ c = 1 => \A i, k \in DOMAIN output :
             output[i] \in ReportsOf(j) /\ output[k] \in ReportsOf(j) => i = k
    BY <2>2, NumberFacts
  <2> HIDE DEF c
  <2> QED BY <2>1, <2>3
<1>4. /\ d = 0 <=> \A i \in DOMAIN seen : seen[i] # j
      /\ d = 1 => \A i, k \in DOMAIN seen : seen[i] = j /\ seen[k] = j => i = k
  <2>1. IsFiniteSet({i \in DOMAIN seen : seen[i] \in {j}})
    BY <1>0, QueuePlaces
  <2>2. /\ d = 0 <=> \A i \in DOMAIN seen : seen[i] \notin {j}
        /\ d = 1 => \A i, k \in DOMAIN seen :
             seen[i] \in {j} /\ seen[k] \in {j} => i = k
    BY <2>1, NumberFacts
  <2> HIDE DEF d
  <2> QED BY <2>2
<1> HIDE DEF a, b, c, d
<1>5. \A w \in Workers : worker[w].job = j => b = 1 /\ c = 0 /\ d = 0
  BY <1>1, <1>2
<1>6. \A i \in DOMAIN output : output[i].job = j => c = 1 /\ d = 0
  BY <1>1, <1>3
<1>7. \A i \in DOMAIN seen : seen[i] = j => d = 1
  BY <1>1, <1>4
<1> QED BY <1>2, <1>3, <1>4, <1>5, <1>6, <1>7
\* The break jobs, counted, before and after a step.
BreakJobs ==
  /\ WorkersOutlastJobs <=>
       /\ Number(input, {Break}) + Number(worker, Gone)
            = IF put <= N THEN 0 ELSE put - N
       /\ (\E w \in Workers : worker[w].at = "exited") =>
            \A i \in DOMAIN input : input[i] = Break
  /\ Number(input, {Break}) \in Nat /\ Number(worker, Gone) \in Nat
  /\ Number(input, {Break}) = 0 <=> \A i \in DOMAIN input : input[i] # Break
  /\ Number(worker, Gone) = 0 <=> \A w \in Workers : worker[w].at # "exited"

\* The break jobs and the workers that are gone are two numbers.
LEMMA BreaksCounted == TypeOK => BreakJobs
<1> SUFFICES ASSUME TypeOK PROVE BreakJobs
  OBVIOUS
<1>0. /\ input \in Seq(0 .. N)
      /\ worker \in [Workers -> Places] /\ DOMAIN worker = Workers
  BY QueueTypes
<1>1. {i \in DOMAIN input : input[i] = Break}
        = {i \in DOMAIN input : input[i] \in {Break}}
  OBVIOUS
<1>2. {w \in Workers : worker[w].at = "exited"}
        = {w \in DOMAIN worker : worker[w] \in Gone}
  BY <1>0 DEF Gone
<1>3. Number(input, {Break}) \in Nat /\ Number(worker, Gone) \in Nat
  BY <1>0, QueuePlaces, WorkerPlaces
<1>4. Number(input, {Break}) = 0 <=> \A i \in DOMAIN input : input[i] # Break
  <2>1. IsFiniteSet({i \in DOMAIN input : input[i] \in {Break}})
    BY <1>0, QueuePlaces
  <2>2. Number(input, {Break}) = 0 <=> \A i \in DOMAIN input : input[i] \notin {Break}
    BY <2>1, NumberFacts
  <2> QED BY <2>2
<1>5. Number(worker, Gone) = 0 <=> \A w \in Workers : worker[w].at # "exited"
  <2>1. IsFiniteSet({w \in DOMAIN worker : worker[w] \in Gone})
    BY <1>0, WorkerPlaces
  <2>2. Number(worker, Gone) = 0 <=> \A w \in DOMAIN worker : worker[w] \notin Gone
    BY <2>1, NumberFacts
  <2>3. \A w \in Workers : worker[w] \in Gone <=> worker[w].at = "exited"
    BY <1>0 DEF Gone
  <2> QED BY <1>0, <2>2, <2>3
<1> QED BY <1>1, <1>2, <1>3, <1>4, <1>5 DEF BreakJobs, WorkersOutlastJobs, Number

\* The same of the next state.
LEMMA BreaksCountedNext == TypeOK' => BreakJobs'
BY BreaksCounted, PTL

-----------------------------------------------------------------------------
(***************************************************************************)
(* A program's exit.                                                       *)
(***************************************************************************)
\* A return code of zero says that the program is clean.
LEMMA Codes ==
  ASSUME NEW j \in Jobs, NEW e \in Exits(j)
  PROVE  /\ ReturnCode(e) \in 0 .. Crash
         /\ ReturnCode(e) = 0 <=> e.code = 0 /\ e.decodable /\ ~e.leak
         /\ e # NoExit
<1>1. e.code \in 0 .. Crash /\ (e.leak => Valgrind)
  BY DEF Exits
<1>2. e # NoExit
  BY <1>1 DEF NoExit
<1>4. ReturnCode(e) \in 0 .. Crash
  BY <1>1 DEF ReturnCode, Crash
<1>5. ReturnCode(e) = 0 <=> e.code = 0 /\ e.decodable /\ ~e.leak
  BY <1>1 DEF ReturnCode
<1> QED BY <1>2, <1>4, <1>5

\* Nothing has happened in the initial state.
LEMMA RunnerInit == Init => RunnerIInv
<1> SUFFICES ASSUME Init PROVE RunnerIInv
  OBVIOUS
<1>1. /\ input = <<>> /\ output = <<>> /\ seen = <<>> /\ results = <<>>
      /\ worker = [w \in Workers |-> Idle]
      /\ interrupted = FALSE /\ put = 0
      /\ tally = [s \in Statuses |-> 0]
      /\ main = "running" /\ exitCode = 0
      /\ exit = [j \in Jobs |-> NoExit]
  BY DEF Init
<1>2. TypeOK
  <2>1. Idle \in Places /\ 0 \in 0 .. ToPut
    BY RunnerNumbers DEF Idle, Places
  <2>2. worker \in [Workers -> Places] /\ tally \in [Statuses -> Nat]
    BY <1>1, <2>1
  <2>3. exit \in [Jobs -> {NoExit} \union UNION {Exits(j) : j \in Jobs}]
    BY <1>1, Zenon
  <2>4. /\ input \in Seq(0 .. N) /\ seen \in Seq(Jobs)
        /\ output \in Seq([job : Jobs, dropped : BOOLEAN, code : 0 .. Crash])
        /\ results \in Seq([job : Jobs, result : Statuses, wellFormed : BOOLEAN])
    BY <1>1
  <2> QED BY <1>1, <2>1, <2>2, <2>3, <2>4 DEF TypeOK
<1>3. CarriesJob
  BY <1>1 DEF CarriesJob, Idle
<1>4. \A V : Number(<<>>, V) = 0
  <2>1. \A V : {i \in DOMAIN <<>> : <<>>[i] \in V} = {}
    OBVIOUS
  <2> QED BY <2>1, FS_EmptySet DEF Number
<1>5. JobsConserved
  <2> SUFFICES ASSUME NEW j \in Jobs PROVE Copies(j) = 0
    BY <1>1, RunnerNumbers DEF JobsConserved
  <2>1. Number(worker, Holding(j)) = 0
    <3>1. \A w \in DOMAIN worker : worker[w] \notin Holding(j)
      BY <1>1, RunnerNumbers DEF Holding, Idle
    <3>2. DOMAIN worker = Workers
      BY <1>1
    <3>3. IsFiniteSet({w \in DOMAIN worker : worker[w] \in Holding(j)})
      BY <3>2, WorkerPlaces
    <3> QED BY <3>1, <3>3, NumberFacts
  <2>2. Counted(j)
    BY <1>2, CopiesCounted
  <2> QED BY <1>1, <1>4, <2>1, <2>2 DEF Counted
<1>6. WorkersOutlastJobs
  <2>1. /\ \A i \in DOMAIN input : input[i] # Break
        /\ \A w \in Workers : worker[w].at # "exited"
    BY <1>1 DEF Idle
  <2>2. Number(input, {Break}) + Number(worker, Gone) = 0
    BY <1>2, <2>1, BreaksCounted DEF BreakJobs
  <2> QED BY <1>1, <1>2, <2>1, <2>2, BreaksCounted, RunnerNumbers DEF BreakJobs
<1>7. BreaksLast /\ ReportsTrue /\ RunsReported /\ ResultsHonest /\ ResultsSeen
  BY <1>1 DEF BreaksLast, ReportsTrue, RunsReported, ResultsHonest, ResultsSeen
<1>8. Tallied
  BY <1>1, <1>4 DEF Tallied, Passed, Statuses
<1>9. SuccessHonest /\ AllOver
  BY <1>1 DEF SuccessHonest, AllOver
<1> QED BY <1>2, <1>3, <1>5, <1>6, <1>7, <1>8, <1>9 DEF RunnerIInv
-----------------------------------------------------------------------------
(***************************************************************************)
(* The steps of a worker.                                                  *)
(***************************************************************************)
\* What results.xml may say of a job depends on nothing but its program.
LEMMA SameExit ==
  ASSUME NEW j, exit'[j] = exit[j]
  PROVE  /\ Outcome(j)' = Outcome(j)
         /\ EntryKnows(j)' <=> EntryKnows(j)
<1>1. Outcome(j)' = Outcome(j)
  BY DEF Outcome, Clean, Crash
<1> QED BY <1>1 DEF EntryKnows, NoExit

\* As long as nothing is written, results.xml stays honest.
LEMMA ResultsSame ==
  ASSUME ResultsHonest, ResultsSeen,
         results' = results, seen' = seen,
         interrupted => interrupted',
         main' # "raised" => main # "raised",
         \A i \in DOMAIN seen : exit'[seen[i]] = exit[seen[i]]
  PROVE  ResultsHonest' /\ ResultsSeen'
<1>1. /\ \A i \in DOMAIN seen : EntryKnows(seen[i])' <=> EntryKnows(seen[i])
      /\ \A i \in DOMAIN seen : Outcome(seen[i])' = Outcome(seen[i])
  BY SameExit
<1>2. \A i \in DOMAIN results :
        /\ EntryKnows(results[i].job)' <=> EntryKnows(results[i].job)
        /\ Outcome(results[i].job)' = Outcome(results[i].job)
        /\ exit'[results[i].job] = exit[results[i].job]
  BY <1>1 DEF ResultsSeen
<1>3. \A i \in DOMAIN results' : Honest(results[i])'
  BY <1>2 DEF ResultsHonest, Honest
<1>4. /\ \A i \in DOMAIN results : Reportable(results[i].job)' => Reportable(results[i].job)
      /\ \A i \in DOMAIN seen : Reportable(seen[i])' => Reportable(seen[i])
  BY <1>1, <1>2 DEF Reportable
<1>5. ResultsHonest'
  BY <1>3, <1>4 DEF ResultsHonest
<1> QED BY <1>5 DEF ResultsSeen

\* What main knows does not change with a program whose job it has not seen.
LEMMA MainSide ==
  ASSUME RunnerIInv,
         UNCHANGED <<seen, tally, results, interrupted, main, exitCode>>,
         \A i \in DOMAIN seen : exit'[seen[i]] = exit[seen[i]],
         main = "returned" => exit' = exit
  PROVE  Tallied' /\ ResultsHonest' /\ ResultsSeen' /\ SuccessHonest'
<1>1. TypeOK /\ Tallied /\ ResultsHonest /\ ResultsSeen /\ SuccessHonest
  BY DEF RunnerIInv
<1>2. \A i \in DOMAIN seen : seen[i] \in GoodJobs' <=> seen[i] \in GoodJobs
  BY DEF GoodJobs, Clean, Jobs
<1>3. Number(seen', GoodJobs') = Number(seen, GoodJobs)
  <2>1. {i \in DOMAIN seen' : seen'[i] \in GoodJobs'}
          = {i \in DOMAIN seen : seen[i] \in GoodJobs}
    BY <1>2
  <2> QED BY <2>1 DEF Number
<1>4. Tallied'
  BY <1>1, <1>3 DEF Tallied, Passed
<1>5. ResultsHonest' /\ ResultsSeen'
  BY <1>1, ResultsSame
<1>8. SuccessHonest'
  BY <1>1 DEF SuccessHonest, Clean, Jobs
<1> QED BY <1>4, <1>5, <1>8

\* A worker goes on with its job.
LEMMA MoveKeeps ==
  ASSUME RunnerIInv, NEW w \in Workers,
         worker[w].at \in {"taken", "kept", "running"},
         NEW at \in {"taken", "kept", "running", "died"},
         worker' = [worker EXCEPT ![w] = [worker[w] EXCEPT !.at = at]],
         UNCHANGED <<input, output, interrupted, mainState, exit>>
  PROVE  RunnerIInv'
<1> DEFINE p == [worker[w] EXCEPT !.at = at]
<1>1. /\ TypeOK /\ CarriesJob /\ JobsConserved /\ WorkersOutlastJobs /\ BreaksLast
      /\ ReportsTrue /\ RunsReported /\ AllOver
  BY DEF RunnerIInv
<1>2. /\ worker \in [Workers -> Places] /\ DOMAIN worker = Workers
      /\ worker[w] \in Places
  BY <1>1, QueueTypes
<1>3. p \in Places /\ p.job = worker[w].job /\ p.at = at
  BY <1>2 DEF Places
<1>4. worker' = [worker EXCEPT ![w] = p]
  OBVIOUS
<1> HIDE DEF p
<1>5. /\ input' = input /\ output' = output /\ interrupted' = interrupted
      /\ put' = put /\ seen' = seen /\ tally' = tally /\ results' = results
      /\ main' = main /\ exitCode' = exitCode /\ exit' = exit
  BY DEF mainState
<1>6. worker' \in [Workers -> Places]
  BY <1>2, <1>3, <1>4
<1>7. TypeOK'
  BY <1>1, <1>5, <1>6 DEF TypeOK
<1>8. CarriesJob'
  BY <1>1, <1>2, <1>3, <1>4 DEF CarriesJob
<1>9. JobsConserved'
  <2> SUFFICES ASSUME NEW j \in Jobs PROVE Copies(j)' = Copies(j)
    BY <1>1, <1>5 DEF JobsConserved, Jobs
  <2>1. Number(worker', Holding(j)) = Number(worker, Holding(j))
    <3>1. p \in Holding(j) <=> worker[w] \in Holding(j)
      BY <1>2, <1>3 DEF Holding
    <3>2. Number(worker, Holding(j)) \in Nat /\ Number(worker', Holding(j)) \in Nat
      BY <1>2, <1>6, WorkerPlaces
    <3>3. Number(worker', Holding(j)) + (IF worker[w] \in Holding(j) THEN 1 ELSE 0)
            = Number(worker, Holding(j)) + (IF p \in Holding(j) THEN 1 ELSE 0)
      <4>1. Moved(worker, worker', w, p)
        BY <1>4 DEF Moved
      <4> QED BY <1>2, <1>3, <4>1, NumberMove
    <3> QED BY <3>1, <3>2, <3>3
  <2>2. Counted(j) /\ Counted(j)'
    BY <1>1, <1>5, <1>7, CopiesCounted, CopiesCountedNext DEF Jobs
  <2> QED BY <1>5, <2>1, <2>2 DEF Counted, Holding, Places, ReportsOf, Reports, Jobs
<1>10. WorkersOutlastJobs' /\ BreaksLast'
  <2>1. Number(worker', Gone) = Number(worker, Gone)
    <3>1. p \notin Gone /\ worker[w] \notin Gone
      BY <1>2, <1>3 DEF Gone
    <3>2. Number(worker, Gone) \in Nat /\ Number(worker', Gone) \in Nat
      BY <1>2, <1>6, WorkerPlaces
    <3>3. Number(worker', Gone) + (IF worker[w] \in Gone THEN 1 ELSE 0)
            = Number(worker, Gone) + (IF p \in Gone THEN 1 ELSE 0)
      <4>1. Moved(worker, worker', w, p)
        BY <1>4 DEF Moved
      <4> QED BY <1>2, <1>3, <4>1, NumberMove
    <3> QED BY <3>1, <3>2, <3>3
  <2>2. BreakJobs /\ BreakJobs'
    BY <1>1, <1>7, BreaksCounted, BreaksCountedNext
  <2>3. \A v \in Workers : worker'[v].at = "exited" => worker[v].at = "exited"
    BY <1>2, <1>3, <1>4
  <2>4. BreaksLast'
    BY <1>1, <1>5 DEF BreaksLast
  <2> QED BY <1>1, <1>5, <2>1, <2>2, <2>3, <2>4 DEF BreakJobs, Gone, Places
<1>11. ReportsTrue' /\ RunsReported'
  BY <1>1, <1>5 DEF ReportsTrue, RunsReported, Jobs
<1>12. AllOver'
  BY <1>1, <1>2, <1>3, <1>4, <1>5 DEF AllOver
<1>13. Tallied' /\ ResultsHonest' /\ ResultsSeen' /\ SuccessHonest'
  BY <1>5, MainSide
<1> QED BY <1>7, <1>8, <1>9, <1>10, <1>11, <1>12, <1>13 DEF RunnerIInv

\* A worker hands a job back, dropped or with the return code of its program.
LEMMA ReturnsKeeps ==
  ASSUME RunnerIInv, NEW w \in Workers,
         worker[w].at \in {"taken", "kept", "running"},
         NEW r \in Reports, r.job = worker[w].job,
         worker' = [worker EXCEPT ![w] = Idle],
         output' = Append(output, r),
         UNCHANGED <<input, interrupted, mainState>>,
         exit' \in [Jobs -> {NoExit} \union UNION {Exits(j) : j \in Jobs}],
         \A j \in Jobs : j # r.job => exit'[j] = exit[j],
         r.dropped => interrupted,
         r.dropped /\ r.job \notin Skips => exit'[r.job] = NoExit,
         ~r.dropped /\ r.job \notin Skips =>
           exit'[r.job] \in Exits(r.job) /\ r.code = ReturnCode(exit'[r.job])
  PROVE  RunnerIInv'
<1>1. /\ TypeOK /\ CarriesJob /\ JobsConserved /\ WorkersOutlastJobs /\ BreaksLast
      /\ ReportsTrue /\ RunsReported /\ AllOver
  BY DEF RunnerIInv
<1>2. /\ worker \in [Workers -> Places] /\ DOMAIN worker = Workers
      /\ worker[w] \in Places /\ output \in Seq(Reports) /\ seen \in Seq(Jobs)
  BY <1>1, QueueTypes
<1>3. Idle \in Places /\ Idle.job = Break /\ Idle.at = "idle"
  BY RunnerNumbers DEF Idle, Places
<1>4. r.job \in Jobs /\ r.job # Break
  BY RunnerNumbers DEF Reports
<1>5. /\ input' = input /\ interrupted' = interrupted
      /\ put' = put /\ seen' = seen /\ tally' = tally /\ results' = results
      /\ main' = main /\ exitCode' = exitCode
  BY DEF mainState
<1>6. worker' \in [Workers -> Places] /\ output' \in Seq(Reports)
  BY <1>2, <1>3
<1>7. TypeOK'
  BY <1>1, <1>5, <1>6 DEF TypeOK, Reports
<1>8. CarriesJob'
  BY <1>1, <1>2, <1>3 DEF CarriesJob
<1>9. JobsConserved'
  <2> SUFFICES ASSUME NEW j \in Jobs PROVE Copies(j)' = Copies(j)
    BY <1>1, <1>5 DEF JobsConserved, Jobs
  <2>1. /\ Idle \notin Holding(j)
        /\ worker[w] \in Holding(j) <=> r.job = j
        /\ r \in ReportsOf(j) <=> r.job = j
    BY <1>2, <1>3, RunnerNumbers DEF Holding, ReportsOf
  <2>2. Number(worker', Holding(j)) + (IF r.job = j THEN 1 ELSE 0)
          = Number(worker, Holding(j)) + 0
    <3>1. Number(worker', Holding(j)) + (IF worker[w] \in Holding(j) THEN 1 ELSE 0)
            = Number(worker, Holding(j)) + (IF Idle \in Holding(j) THEN 1 ELSE 0)
      <4>1. Moved(worker, worker', w, Idle)
        BY DEF Moved
      <4> QED BY <1>2, <1>3, <4>1, NumberMove
    <3> QED BY <2>1, <3>1
  <2>3. Number(output', ReportsOf(j))
          = Number(output, ReportsOf(j)) + IF r.job = j THEN 1 ELSE 0
    BY <1>2, <2>1, NumberAppend
  <2>4. Counted(j) /\ Counted(j)'
    BY <1>1, <1>5, <1>7, CopiesCounted, CopiesCountedNext DEF Jobs
  <2>5. /\ Holding(j)' = Holding(j) /\ ReportsOf(j)' = ReportsOf(j)
    BY DEF Holding, Places, ReportsOf, Reports, Jobs
  <2> QED BY <1>5, <2>2, <2>3, <2>4, <2>5 DEF Counted
<1>10. WorkersOutlastJobs' /\ BreaksLast'
  <2>1. Number(worker', Gone) = Number(worker, Gone)
    <3>1. Idle \notin Gone /\ worker[w] \notin Gone
      BY <1>2, <1>3 DEF Gone
    <3>2. Number(worker, Gone) \in Nat /\ Number(worker', Gone) \in Nat
      BY <1>2, <1>6, WorkerPlaces
    <3>3. Number(worker', Gone) + (IF worker[w] \in Gone THEN 1 ELSE 0)
            = Number(worker, Gone) + (IF Idle \in Gone THEN 1 ELSE 0)
      <4>1. Moved(worker, worker', w, Idle)
        BY DEF Moved
      <4> QED BY <1>2, <1>3, <4>1, NumberMove
    <3> QED BY <3>1, <3>2, <3>3
  <2>2. BreakJobs /\ BreakJobs'
    BY <1>1, <1>7, BreaksCounted, BreaksCountedNext
  <2>3. \A v \in Workers : worker'[v].at = "exited" => worker[v].at = "exited"
    BY <1>2, <1>3
  <2>4. BreaksLast'
    BY <1>1, <1>5 DEF BreaksLast
  <2> QED BY <1>1, <1>5, <2>1, <2>2, <2>3, <2>4 DEF BreakJobs, Gone, Places
<1>11. /\ \A i \in DOMAIN output : output[i].job # r.job
       /\ \A i \in DOMAIN seen : seen[i] # r.job
  BY <1>1, <1>4, OnePlace
<1>12. ReportsTrue'
  <2>1. \A i \in DOMAIN output' :
          \/ i \in DOMAIN output /\ output'[i] = output[i]
          \/ output'[i] = r
    BY <1>2
  <2>2. \A i \in DOMAIN output : output[i].job \in Jobs
    <3>1. \A i \in DOMAIN output : output[i] \in Reports
      BY <1>2
    <3> QED BY <3>1 DEF Reports
  <2>3. \A i \in DOMAIN output : exit'[output[i].job] = exit[output[i].job]
    BY <1>11, <2>2
  <2> QED BY <1>1, <1>5, <2>1, <2>3 DEF ReportsTrue
<1>16. RunsReported'
  <2>1. \A i \in DOMAIN output : i \in DOMAIN output' /\ output'[i] = output[i]
    BY <1>2
  <2>2. \E i \in DOMAIN output' : output'[i].job = r.job
    <3>1. /\ Len(output) + 1 \in DOMAIN output'
          /\ output'[Len(output) + 1] = r
      BY <1>2
    <3> QED BY <3>1
  <2> SUFFICES ASSUME NEW j \in Jobs, exit'[j] # NoExit
      PROVE  \/ \E i \in DOMAIN output' : output'[i].job = j
             \/ \E k \in DOMAIN seen' : seen'[k] = j
    BY DEF RunsReported, Jobs, NoExit
  <2>3. CASE j = r.job
    BY <2>2, <2>3
  <2>4. CASE j # r.job
    BY <1>1, <1>5, <2>1, <2>4 DEF RunsReported
  <2> QED BY <2>3, <2>4
<1>13. AllOver' /\ main # "returned"
  BY <1>1, <1>5 DEF AllOver
<1>14. \A i \in DOMAIN seen : exit'[seen[i]] = exit[seen[i]]
  BY <1>2, <1>11
<1>15. Tallied' /\ ResultsHonest' /\ ResultsSeen' /\ SuccessHonest'
  BY <1>5, <1>13, <1>14, MainSide
<1> QED BY <1>7, <1>8, <1>9, <1>10, <1>12, <1>13, <1>15, <1>16 DEF RunnerIInv

\* A worker takes a job, or a break job and exits.
LEMMA TakeKeeps ==
  ASSUME RunnerIInv, NEW w \in Workers, Take(w)
  PROVE  RunnerIInv'
<1> DEFINE h == Head(input)
           p == IF h = Break THEN Exited ELSE [at |-> "taken", job |-> h]
<1>1. /\ TypeOK /\ CarriesJob /\ JobsConserved /\ WorkersOutlastJobs /\ BreaksLast
      /\ ReportsTrue /\ RunsReported /\ AllOver
  BY DEF RunnerIInv
<1>2. /\ worker \in [Workers -> Places] /\ DOMAIN worker = Workers
      /\ worker[w] \in Places /\ input \in Seq(0 .. N)
  BY <1>1, QueueTypes
<1>3. /\ worker[w].at = "idle" /\ input # <<>> /\ input' = Tail(input)
      /\ worker' = [worker EXCEPT ![w] = p]
  BY DEF Take, Moves
<1>4. /\ output' = output /\ interrupted' = interrupted
      /\ put' = put /\ seen' = seen /\ tally' = tally /\ results' = results
      /\ main' = main /\ exitCode' = exitCode /\ exit' = exit
  BY DEF Take, mainState
<1>5. h \in 0 .. N /\ h = input[1] /\ 1 \in DOMAIN input
  <2>1. Len(input) \in Nat /\ Len(input) > 0 /\ DOMAIN input = 1 .. Len(input)
    BY <1>2, <1>3
  <2>2. 1 \in DOMAIN input
    BY <2>1
  <2>3. input[1] \in 0 .. N
    <3>1. \A S : \A q \in Seq(S) : \A i \in DOMAIN q : q[i] \in S
      OBVIOUS
    <3> DEFINE S == 0 .. N
    <3>2. input \in Seq(S)
      BY <1>2
    <3> HIDE DEF S
    <3>3. input[1] \in S
      BY <2>2, <3>1, <3>2
    <3> QED BY <3>3 DEF S
  <2>4. \A q \in Seq(0 .. N) : Head(q) = q[1]
    OBVIOUS
  <2>5. h = input[1]
    BY <1>2, <2>4
  <2> QED BY <2>2, <2>3, <2>5
<1>6. /\ p \in Places /\ p.job = h
      /\ p.at = IF h = Break THEN "exited" ELSE "taken"
  BY <1>5 DEF Places, Exited, Break
<1>7. /\ input' \in Seq(0 .. N) /\ Len(input) \in Nat
      /\ DOMAIN input = 1 .. Len(input) /\ DOMAIN input' = 1 .. Len(input) - 1
      /\ \A i \in DOMAIN input' : i + 1 \in DOMAIN input /\ input'[i] = input[i + 1]
  BY <1>2, <1>3
<1> HIDE DEF h, p
<1>8. worker' \in [Workers -> Places] /\ worker[w].job = Break
  BY <1>1, <1>2, <1>3, <1>6 DEF CarriesJob
<1>9. TypeOK'
  BY <1>1, <1>4, <1>7, <1>8 DEF TypeOK
<1>10. CarriesJob'
  BY <1>1, <1>2, <1>3, <1>6 DEF CarriesJob
<1>11. \A V : /\ Number(input, V) = Number(input', V) + IF h \in V THEN 1 ELSE 0
              /\ Number(worker', V) + (IF worker[w] \in V THEN 1 ELSE 0)
                   = Number(worker, V) + (IF p \in V THEN 1 ELSE 0)
  <2> SUFFICES ASSUME NEW V
      PROVE  /\ Number(input, V) = Number(input', V) + IF h \in V THEN 1 ELSE 0
             /\ Number(worker', V) + (IF worker[w] \in V THEN 1 ELSE 0)
                  = Number(worker, V) + (IF p \in V THEN 1 ELSE 0)
    OBVIOUS
  <2>1. Number(input, V) = Number(Tail(input), V) + IF Head(input) \in V THEN 1 ELSE 0
    BY <1>2, <1>3, NumberTail
  <2>2. Moved(worker, worker', w, p)
    BY <1>3 DEF Moved
  <2>3. Number(worker', V) + (IF worker[w] \in V THEN 1 ELSE 0)
          = Number(worker, V) + (IF p \in V THEN 1 ELSE 0)
    BY <1>2, <1>6, <2>2, NumberMove
  <2> QED BY <1>3, <2>1, <2>3 DEF h
<1>12. JobsConserved'
  <2> SUFFICES ASSUME NEW j \in Jobs PROVE Copies(j)' = Copies(j)
    BY <1>1, <1>4 DEF JobsConserved, Jobs
  <2>1. worker[w] \notin Holding(j) /\ (p \in Holding(j) <=> h = j)
    BY <1>6, <1>8, RunnerNumbers DEF Holding
  <2>2. Number(input, {j}) = Number(input', {j}) + IF h = j THEN 1 ELSE 0
    <3>1. Number(input, {j}) = Number(input', {j}) + IF h \in {j} THEN 1 ELSE 0
      BY <1>11
    <3> QED BY <3>1
  <2>3. Number(worker', Holding(j)) + 0
          = Number(worker, Holding(j)) + IF h = j THEN 1 ELSE 0
    <3>1. Number(worker', Holding(j)) + (IF worker[w] \in Holding(j) THEN 1 ELSE 0)
            = Number(worker, Holding(j)) + (IF p \in Holding(j) THEN 1 ELSE 0)
      BY <1>11
    <3> QED BY <2>1, <3>1
  <2>4. Counted(j) /\ Counted(j)'
    BY <1>1, <1>9, CopiesCounted, CopiesCountedNext DEF Jobs
  <2>5. Holding(j)' = Holding(j) /\ ReportsOf(j)' = ReportsOf(j)
    BY DEF Holding, Places, ReportsOf, Reports, Jobs
  <2> QED BY <1>4, <2>2, <2>3, <2>4, <2>5 DEF Counted
<1>13. WorkersOutlastJobs'
  <2>1. worker[w] \notin Gone /\ (p \in Gone <=> h = Break)
    BY <1>3, <1>6 DEF Gone
  <2>2. Number(input, {Break}) = Number(input', {Break}) + IF h = Break THEN 1 ELSE 0
    <3>1. Number(input, {Break})
            = Number(input', {Break}) + IF h \in {Break} THEN 1 ELSE 0
      BY <1>11
    <3> QED BY <3>1
  <2>3. Number(worker', Gone) + 0 = Number(worker, Gone) + IF h = Break THEN 1 ELSE 0
    <3>1. Number(worker', Gone) + (IF worker[w] \in Gone THEN 1 ELSE 0)
            = Number(worker, Gone) + (IF p \in Gone THEN 1 ELSE 0)
      BY <1>11
    <3> QED BY <2>1, <3>1
  <2>4. BreakJobs /\ BreakJobs'
    BY <1>1, <1>9, BreaksCounted, BreaksCountedNext
  <2>5. (\E v \in Workers : worker'[v].at = "exited") =>
          \A i \in DOMAIN input' : input'[i] = Break
    <3> SUFFICES ASSUME NEW v \in Workers, worker'[v].at = "exited",
                        NEW i \in DOMAIN input'
        PROVE  input'[i] = Break
      OBVIOUS
    <3>1. input'[i] = input[i + 1] /\ i + 1 \in DOMAIN input /\ 1 < i + 1
      BY <1>7
    <3>2. worker[v].at = "exited" \/ h = Break
      BY <1>2, <1>3, <1>6
    <3>3. CASE worker[v].at = "exited"
      BY <1>1, <3>1, <3>3, <2>4 DEF BreakJobs
    <3>4. CASE h = Break
      BY <1>1, <1>5, <3>1, <3>4 DEF BreaksLast
    <3> QED BY <3>2, <3>3, <3>4
  <2>6. Gone' = Gone
    BY DEF Gone, Places
  <2>7. /\ Number(input, {Break}) + Number(worker, Gone)
             = IF put <= N THEN 0 ELSE put - N
        /\ Number(input, {Break}) \in Nat /\ Number(worker, Gone) \in Nat
        /\ Number(input', {Break}) \in Nat /\ Number(worker', Gone) \in Nat
    BY <1>1, <2>4, <2>6 DEF BreakJobs, Break
  <2>8. Number(input', {Break}) + Number(worker', Gone)
          = IF put <= N THEN 0 ELSE put - N
    BY <2>2, <2>3, <2>7
  <2> QED BY <1>4, <2>4, <2>5, <2>6, <2>8 DEF BreakJobs, Break
<1>14. BreaksLast'
  <2> SUFFICES ASSUME NEW i \in DOMAIN input', NEW k \in DOMAIN input', i < k,
                      input'[i] = Break
      PROVE  input'[k] = Break
    BY DEF BreaksLast, Break
  <2>1. /\ i + 1 \in DOMAIN input /\ k + 1 \in DOMAIN input /\ i + 1 < k + 1
        /\ input'[i] = input[i + 1] /\ input'[k] = input[k + 1]
    BY <1>7
  <2> QED BY <1>1, <2>1 DEF BreaksLast
<1>15. ReportsTrue' /\ RunsReported'
  BY <1>1, <1>4 DEF ReportsTrue, RunsReported, Jobs
<1>16. AllOver'
  BY <1>1, <1>3, <1>4 DEF AllOver
<1>17. Tallied' /\ ResultsHonest' /\ ResultsSeen' /\ SuccessHonest'
  BY <1>4, MainSide
<1> QED BY <1>9, <1>10, <1>12, <1>13, <1>14, <1>15, <1>16, <1>17 DEF RunnerIInv

\* The other steps of a worker.
LEMMA WorkKeeps ==
  ASSUME RunnerIInv, NEW w \in Workers, Work(w) \/ LaunchFails(w)
  PROVE  RunnerIInv'
<1>1. TypeOK /\ CarriesJob /\ worker \in [Workers -> Places] /\ worker[w] \in Places
  BY QueueTypes DEF RunnerIInv
<1>2. exit \in [Jobs -> {NoExit} \union UNION {Exits(j) : j \in Jobs}]
  BY <1>1 DEF TypeOK
<1>3. worker[w].at \in {"taken", "kept", "running"} => worker[w].job \in Jobs
  BY <1>1, RunnerNumbers DEF CarriesJob, Places
<1>4. CASE Take(w)
  BY <1>4, TakeKeeps
<1>5. CASE Keep(w)
  <2>1. /\ worker' = [worker EXCEPT ![w] = [worker[w] EXCEPT !.at = "kept"]]
        /\ worker[w].at \in {"taken", "kept", "running"}
        /\ UNCHANGED <<input, output, interrupted, mainState, exit>>
    BY <1>5 DEF Keep, Moves
  <2> QED BY <2>1, MoveKeeps
<1>6. CASE Launch(w)
  <2>1. /\ worker' = [worker EXCEPT ![w] = [worker[w] EXCEPT !.at = "running"]]
        /\ worker[w].at \in {"taken", "kept", "running"}
        /\ UNCHANGED <<input, output, interrupted, mainState, exit>>
    BY <1>6 DEF Launch, Moves
  <2> QED BY <2>1, MoveKeeps
<1>7. CASE LaunchFails(w)
  <2>1. /\ worker' = [worker EXCEPT ![w] = [worker[w] EXCEPT !.at = "died"]]
        /\ worker[w].at \in {"taken", "kept", "running"}
        /\ UNCHANGED <<input, output, interrupted, mainState, exit>>
    BY <1>7 DEF LaunchFails, Moves
  <2> QED BY <2>1, MoveKeeps
<1>8. CASE Drop(w)
  <2> DEFINE r == [job |-> worker[w].job, dropped |-> TRUE, code |-> NotRun]
  <2>1. worker[w].at = "taken" /\ interrupted
    BY <1>8 DEF Drop
  <2>2. /\ worker' = [worker EXCEPT ![w] = Idle] /\ output' = Append(output, r)
        /\ UNCHANGED <<input, interrupted, mainState>> /\ exit' = exit
    BY <1>8 DEF Drop, Returns, Moves
  <2>3. r \in Reports /\ r.job = worker[w].job /\ r.dropped
    BY <1>3, <2>1 DEF Reports, NotRun, Crash
  <2>4. exit[worker[w].job] = NoExit
    <3>1. worker[w].job \in Jobs /\ JobsConserved /\ RunsReported
      BY <1>3, <2>1 DEF RunnerIInv
    <3>2. /\ \A i \in DOMAIN output : output[i].job # worker[w].job
          /\ \A i \in DOMAIN seen : seen[i] # worker[w].job
      BY <1>1, <3>1, OnePlace
    <3> QED BY <3>1, <3>2 DEF RunsReported
  <2> HIDE DEF r
  <2> QED BY <1>2, <2>1, <2>2, <2>3, <2>4, ReturnsKeeps
<1>9. CASE Skip(w)
  <2> DEFINE r == [job |-> worker[w].job, dropped |-> FALSE, code |-> NotRun]
  <2>1. worker[w].at = "kept" /\ worker[w].job \in Skips
    BY <1>9 DEF Skip
  <2>2. /\ worker' = [worker EXCEPT ![w] = Idle] /\ output' = Append(output, r)
        /\ UNCHANGED <<input, interrupted, mainState>> /\ exit' = exit
    BY <1>9 DEF Skip, Returns, Moves
  <2>3. r \in Reports /\ r.job = worker[w].job /\ ~r.dropped
    BY <1>3, <2>1 DEF Reports, NotRun, Crash
  <2> HIDE DEF r
  <2> QED BY <1>2, <2>1, <2>2, <2>3, ReturnsKeeps
<1>10. CASE Finish(w)
  <2> DEFINE j == worker[w].job
  <2>1. worker[w].at = "running" /\ j \in Jobs
    BY <1>3, <1>10 DEF Finish
  <2>2. PICK e \in Exits(j) :
          exit' = [exit EXCEPT ![j] = e] /\ Returns(w, FALSE, ReturnCode(e))
    BY <1>10 DEF Finish
  <2> DEFINE r == [job |-> j, dropped |-> FALSE, code |-> ReturnCode(e)]
  <2>3. /\ worker' = [worker EXCEPT ![w] = Idle] /\ output' = Append(output, r)
        /\ UNCHANGED <<input, interrupted, mainState>>
    BY <1>10, <2>2 DEF Finish, Returns, Moves
  <2>4. ReturnCode(e) \in 0 .. Crash
    BY <2>1, <2>2, Codes
  <2>5. r \in Reports /\ r.job = worker[w].job /\ ~r.dropped /\ r.code = ReturnCode(e)
    BY <2>1, <2>4 DEF Reports
  <2>6. /\ exit' \in [Jobs -> {NoExit} \union UNION {Exits(i) : i \in Jobs}]
        /\ exit'[j] = e /\ \A i \in Jobs : i # j => exit'[i] = exit[i]
    <3>1. e \in UNION {Exits(i) : i \in Jobs}
      BY <2>1, <2>2
    <3> HIDE DEF j
    <3> QED BY <1>2, <2>1, <2>2, <3>1
  <2> HIDE DEF r
  <2> QED BY <2>1, <2>2, <2>3, <2>5, <2>6, ReturnsKeeps
<1> QED BY <1>4, <1>5, <1>6, <1>7, <1>8, <1>9, <1>10 DEF Work
-----------------------------------------------------------------------------
(***************************************************************************)
(* The steps of main, and the signal.                                      *)
(***************************************************************************)
\* main puts a job, or a break job after all of them.
LEMMA PutKeeps ==
  ASSUME RunnerIInv, Put
  PROVE  RunnerIInv'
<1> DEFINE x == IF put < N THEN put + 1 ELSE Break
<1>1. /\ TypeOK /\ CarriesJob /\ JobsConserved /\ WorkersOutlastJobs /\ BreaksLast
      /\ ReportsTrue /\ RunsReported /\ AllOver
  BY DEF RunnerIInv
<1>2. /\ worker \in [Workers -> Places] /\ input \in Seq(0 .. N)
      /\ put \in 0 .. ToPut
  BY <1>1, QueueTypes DEF TypeOK
<1>3. /\ input' = Append(input, x) /\ put' = put + 1 /\ put < ToPut
      /\ worker' = worker /\ output' = output /\ interrupted' = interrupted
      /\ seen' = seen /\ tally' = tally /\ results' = results
      /\ main' = main /\ exitCode' = exitCode /\ exit' = exit
  BY DEF Put
<1>4. /\ put \in Nat /\ N \in Nat /\ x \in 0 .. N /\ put' \in 0 .. ToPut
      /\ x = Break <=> ~(put < N)
  BY <1>2, <1>3, RunnerNumbers DEF Break
<1>5. /\ input' \in Seq(0 .. N) /\ Len(input) \in Nat
      /\ DOMAIN input = 1 .. Len(input) /\ DOMAIN input' = 1 .. Len(input) + 1
      /\ \A i \in DOMAIN input : input'[i] = input[i]
      /\ input'[Len(input) + 1] = x
  <2> HIDE DEF x
  <2> QED BY <1>2, <1>3, <1>4
<1>6. TypeOK'
  BY <1>1, <1>3, <1>4, <1>5 DEF TypeOK
<1>7. CarriesJob'
  BY <1>1, <1>3 DEF CarriesJob
<1>8. \A V : Number(input', V) = Number(input, V) + IF x \in V THEN 1 ELSE 0
  <2> HIDE DEF x
  <2> QED BY <1>2, <1>3, NumberAppend
<1>9. JobsConserved'
  <2> SUFFICES ASSUME NEW j \in Jobs
      PROVE  Copies(j)' = IF j <= put + 1 THEN 1 ELSE 0
    BY <1>3 DEF JobsConserved, Jobs
  <2>1. Number(input', {j}) = Number(input, {j}) + IF x = j THEN 1 ELSE 0
    <3>1. Number(input', {j}) = Number(input, {j}) + IF x \in {j} THEN 1 ELSE 0
      BY <1>8
    <3> QED BY <3>1
  <2>2. Counted(j) /\ Counted(j)'
    BY <1>1, <1>3, <1>6, CopiesCounted, CopiesCountedNext DEF Jobs
  <2>3. Holding(j)' = Holding(j) /\ ReportsOf(j)' = ReportsOf(j)
    BY DEF Holding, Places, ReportsOf, Reports, Jobs
  <2>4. Copies(j)' = Copies(j) + IF x = j THEN 1 ELSE 0
    <3> HIDE DEF x
    <3> QED BY <1>3, <2>1, <2>2, <2>3 DEF Counted
  <2>5. Copies(j) = IF j <= put THEN 1 ELSE 0
    BY <1>1 DEF JobsConserved
  <2>6. j \in 1 .. N /\ j # Break
    BY RunnerNumbers
  <2> QED BY <1>4, <2>4, <2>5, <2>6
<1>10. BreakJobs /\ BreakJobs' /\ Gone' = Gone
  BY <1>1, <1>6, BreaksCounted, BreaksCountedNext DEF Gone, Places
<1>11. /\ Number(input, {Break}) + Number(worker, Gone)
            = IF put <= N THEN 0 ELSE put - N
       /\ Number(input, {Break}) \in Nat /\ Number(worker, Gone) \in Nat
       /\ Number(input, {Break}) = 0 <=> \A i \in DOMAIN input : input[i] # Break
       /\ Number(worker, Gone) = 0 <=> \A w \in Workers : worker[w].at # "exited"
       /\ (\E w \in Workers : worker[w].at = "exited") =>
            \A i \in DOMAIN input : input[i] = Break
  BY <1>1, <1>10 DEF BreakJobs
<1>12. put < N => /\ \A i \in DOMAIN input : input[i] # Break
                  /\ \A w \in Workers : worker[w].at # "exited"
  <2>1. put < N => Number(input, {Break}) = 0 /\ Number(worker, Gone) = 0
    BY <1>4, <1>11
  <2> QED BY <1>11, <2>1
<1>13. WorkersOutlastJobs'
  <2>1. Number(input', {Break}) = Number(input, {Break}) + IF put < N THEN 0 ELSE 1
    <3>1. Number(input', {Break})
            = Number(input, {Break}) + IF x \in {Break} THEN 1 ELSE 0
      BY <1>8
    <3>2. x \in {Break} <=> ~(put < N)
      BY <1>4
    <3> HIDE DEF x
    <3> QED BY <3>1, <3>2
  <2>2. Number(input', {Break}) + Number(worker', Gone')
          = IF put' <= N THEN 0 ELSE put' - N
    BY <1>3, <1>4, <1>10, <1>11, <2>1
  <2>3. (\E w \in Workers : worker'[w].at = "exited") =>
          \A i \in DOMAIN input' : input'[i] = Break
    <3> HIDE DEF x
    <3> QED BY <1>3, <1>4, <1>5, <1>11, <1>12
  <2> QED BY <1>10, <2>2, <2>3 DEF BreakJobs, Break
<1>14. BreaksLast'
  <2> SUFFICES ASSUME NEW i \in DOMAIN input', NEW k \in DOMAIN input', i < k,
                      input'[i] = Break
      PROVE  input'[k] = Break
    BY DEF BreaksLast, Break
  <2>1. i \in DOMAIN input /\ input[i] = Break
    BY <1>5
  <2>2. ~(put < N)
    BY <1>12, <2>1
  <2>3. CASE k \in DOMAIN input
    BY <1>1, <1>5, <2>1, <2>3 DEF BreaksLast
  <2>4. CASE k = Len(input) + 1
    BY <1>4, <1>5, <2>2, <2>4
  <2> QED BY <1>5, <2>3, <2>4
<1>15. ReportsTrue' /\ RunsReported'
  BY <1>1, <1>3 DEF ReportsTrue, RunsReported, Jobs
<1>16. AllOver'
  BY <1>1, <1>3 DEF AllOver
<1>17. Tallied' /\ ResultsHonest' /\ ResultsSeen' /\ SuccessHonest'
  BY <1>3, MainSide
<1> QED BY <1>6, <1>7, <1>9, <1>13, <1>14, <1>15, <1>16, <1>17 DEF RunnerIInv

\* What the job at the head of output_queue says, and that it was not seen before.
LEMMA HeadReport ==
  ASSUME RunnerIInv, output # <<>>, NEW r, r = Head(output)
  PROVE  /\ r \in Reports /\ r.job \in Jobs
         /\ r.dropped => interrupted
         /\ r.dropped /\ r.job \notin Skips => exit[r.job] = NoExit
         /\ ~r.dropped /\ r.job \notin Skips =>
              exit[r.job] \in Exits(r.job) /\ r.code = ReturnCode(exit[r.job])
         /\ \A i \in DOMAIN seen : seen[i] # r.job
<1>1. TypeOK /\ JobsConserved /\ ReportsTrue
  BY DEF RunnerIInv
<1>2. output \in Seq(Reports) /\ r = output[1] /\ 1 \in DOMAIN output
  <2>1. \A S : \A q \in Seq(S) : q # <<>> => Head(q) = q[1] /\ 1 \in DOMAIN q
    OBVIOUS
  <2> QED BY <1>1, <2>1, QueueTypes
<1>3. r \in Reports
  BY <1>2
<1>4. r.job \in Jobs
  BY <1>3 DEF Reports
<1>5. \A i \in DOMAIN seen : seen[i] # r.job
  BY <1>1, <1>2, <1>4, OnePlace
<1> QED BY <1>1, <1>2, <1>3, <1>4, <1>5 DEF ReportsTrue

\* How a job is counted says whether it was skipped or its program is clean.
LEMMA StatusTrue ==
  ASSUME RunnerIInv, output # <<>>, NEW r, r = Head(output), ~r.dropped
  PROVE  /\ Status(r) \in Statuses
         /\ Status(r) \in {"PASS", "SKIP"} <=> r.job \in GoodJobs
         /\ Status(r) = "SKIP" <=> r.job \in Skips
         /\ r.job \notin Skips => Status(r) = Outcome(r.job)
<1>1. /\ r \in Reports /\ r.job \in Jobs
      /\ r.job \notin Skips =>
           exit[r.job] \in Exits(r.job) /\ r.code = ReturnCode(exit[r.job])
  BY HeadReport
<1>2. CASE r.job \in Skips
  <2>1. Status(r) = "SKIP"
    BY <1>2 DEF Status
  <2> QED BY <1>1, <1>2, <2>1 DEF GoodJobs, Statuses
<1>3. CASE r.job \notin Skips
  <2>1. r.code = 0 <=> Clean(r.job)
    BY <1>1, <1>3, Codes DEF Clean
  <2>2. Status(r) = IF r.code = 0 THEN "PASS" ELSE IF r.code = 1 THEN "FAIL"
                    ELSE IF r.code = 2 THEN "VALGR" ELSE "CRASH"
    <3>1. r.code = 0 => Status(r) = "PASS"
      BY <1>3 DEF Status
    <3>2. r.code = 1 => Status(r) = "FAIL"
      BY <1>3 DEF Status
    <3>3. r.code = 2 => Status(r) = "VALGR"
      BY <1>3 DEF Status
    <3>4. r.code \notin {0, 1, 2} => Status(r) = "CRASH"
      BY <1>3 DEF Status
    <3> QED BY <3>1, <3>2, <3>3, <3>4
  <2>3. Status(r) \in Statuses /\ (Status(r) = "PASS" <=> r.code = 0) /\ Status(r) # "SKIP"
    BY <2>2 DEF Statuses
  <2>4. r.job \in GoodJobs <=> Clean(r.job)
    BY <1>1, <1>3 DEF GoodJobs
  <2>5. Status(r) = Outcome(r.job)
    <3>1. exit[r.job].leak => Valgrind
      BY <1>1, <1>3 DEF Exits
    <3>2. exit[r.job].code \in 0 .. 3 /\ exit[r.job].decodable \in BOOLEAN
      BY <1>1, <1>3 DEF Exits, Crash
    <3>3. r.code = ReturnCode(exit[r.job])
      BY <1>1, <1>3
    <3> QED BY <2>2, <3>1, <3>2, <3>3 DEF Outcome, Clean, ReturnCode, Crash
  <2> QED BY <1>3, <2>1, <2>3, <2>4, <2>5
<1> QED BY <1>2, <1>3

\* An entry of results.xml.
Entry == [job : Jobs, result : Statuses, wellFormed : BOOLEAN]

\* A suite that knows how it ended has written that.
LEMMA FileTrue ==
  ASSUME NEW j \in Jobs, j \notin Examples, exit[j] \in Exits(j)
  PROVE  /\ exit[j].file \in {"PASS", "FAIL", "empty", "missing"}
         /\ EntryKnows(j) /\ Outcome(j) # "CRASH" => exit[j].file = Outcome(j)
<1>1. /\ exit[j].code \in 0 .. 3
      /\ exit[j].file \in {"PASS", "FAIL", "empty", "missing"}
  BY DEF Exits, Crash
<1>2. \/ exit[j].code = 0 /\ exit[j].file = "PASS"
      \/ exit[j].code = 1 /\ exit[j].file \in {"FAIL", "empty"}
      \/ exit[j].code \in {2, 3}
  BY DEF Exits, Crash
<1>3. SUFFICES ASSUME EntryKnows(j), Outcome(j) # "CRASH" PROVE exit[j].file = Outcome(j)
  BY <1>1
<1>4. /\ exit[j].decodable /\ Outcome(j) # "VALGR"
      /\ exit[j].code = 1 => exit[j].file # "empty"
  BY <1>3 DEF EntryKnows
<1>5. CASE exit[j].code = 0
  BY <1>2, <1>4, <1>5 DEF Outcome, Clean, Crash
<1>6. CASE exit[j].code = 1
  BY <1>2, <1>4, <1>6 DEF Outcome, Clean, Crash
<1>7. CASE exit[j].code \in {2, 3}
  BY <1>3, <1>4, <1>7 DEF Outcome, Clean, Crash
<1> QED BY <1>1, <1>5, <1>6, <1>7

\* At most one entry is written for a job, and it is honest.
LEMMA EntryHonest ==
  ASSUME RunnerIInv, output # <<>>, NEW r, r = Head(output), ~r.dropped,
         ~(ReadsFile(r) /\ exit[r.job].file = "missing")
  PROVE  \/ Entries(r) = <<>> /\ ~Reportable(r.job)
         \/ \E e \in Entry : Entries(r) = <<e>> /\ e.job = r.job /\ Honest(e)
<1>1. /\ r \in Reports /\ r.job \in Jobs
      /\ r.job \notin Skips => exit[r.job] \in Exits(r.job)
  BY HeadReport
<1>2. /\ Status(r) \in Statuses /\ (Status(r) = "SKIP" <=> r.job \in Skips)
      /\ r.job \notin Skips => Status(r) = Outcome(r.job)
  BY StatusTrue
<1>3. r.job \notin Skips => exit[r.job] # NoExit
  BY <1>1, Codes
<1>4. CASE ReadsFile(r)
  <2>1. r.job \notin Examples /\ r.job \notin Skips /\ Outcome(r.job) # "CRASH"
    BY <1>2, <1>4 DEF ReadsFile
  <2>2. /\ exit[r.job].file \in {"PASS", "FAIL", "empty", "missing"}
        /\ EntryKnows(r.job) => exit[r.job].file = Outcome(r.job)
    BY <1>1, <2>1, FileTrue
  <2>3. CASE exit[r.job].file = "empty"
    <3>1. Outcome(r.job) # "empty"
      BY <1>2, <2>1 DEF Statuses
    <3> QED BY <1>4, <2>1, <2>2, <2>3, <3>1 DEF Entries, FromFile, Reportable
  <2>4. CASE exit[r.job].file # "empty"
    <3> DEFINE e == [job |-> r.job, result |-> exit[r.job].file, wellFormed |-> TRUE]
    <3>1. Entries(r) = <<e>>
      BY <1>4, <2>4 DEF Entries, FromFile
    <3>2. e \in Entry
      BY <1>1, <1>4, <2>2, <2>4 DEF Entry, Statuses
    <3>3. e.job = r.job /\ e.result = exit[r.job].file
      OBVIOUS
    <3> HIDE DEF e
    <3>4. Honest(e)
      BY <1>3, <2>1, <2>2, <3>3 DEF Honest
    <3> QED BY <3>1, <3>2, <3>3, <3>4
  <2> QED BY <2>3, <2>4
<1>5. CASE ~ReadsFile(r)
  <2> DEFINE e == [job |-> r.job, result |-> Status(r),
                   wellFormed |-> r.job \in Examples \/ Status(r) # "CRASH"]
  <2>1. Entries(r) = <<e>>
    BY <1>5 DEF Entries, MadeUp
  <2>2. e \in Entry
    <3>1. (r.job \in Examples \/ Status(r) # "CRASH") \in BOOLEAN
      OBVIOUS
    <3> QED BY <1>1, <1>2, <3>1 DEF Entry
  <2>3. e.job = r.job /\ e.result = Status(r)
    OBVIOUS
  <2> HIDE DEF e
  <2>4. Honest(e)
    BY <1>2, <1>3, <2>3 DEF Honest
  <2> QED BY <2>1, <2>2, <2>3, <2>4
<1> QED BY <1>4, <1>5

\* What was seen, and one more.
LEMMA SeenGrows ==
  ASSUME RunnerIInv, Collect
  PROVE  /\ output' \in Seq(Reports) /\ seen' \in Seq(Jobs)
         /\ Number(seen', GoodJobs')
              = Number(seen, GoodJobs) + IF Head(output).job \in GoodJobs THEN 1 ELSE 0
         /\ \A x : (\E k \in DOMAIN seen : seen[k] = x) =>
                     \E k \in DOMAIN seen' : seen'[k] = x
         /\ \E k \in DOMAIN seen' : seen'[k] = Head(output).job
<1> DEFINE j == Head(output).job
<1>1. output \in Seq(Reports) /\ seen \in Seq(Jobs)
  BY QueueTypes DEF RunnerIInv
<1>2. /\ output # <<>> /\ output' = Tail(output) /\ seen' = Append(seen, j)
      /\ exit' = exit
  BY DEF Collect
<1>3. j \in Jobs
  BY <1>2, HeadReport
<1> HIDE DEF j
<1>4. output' \in Seq(Reports) /\ seen' \in Seq(Jobs)
  BY <1>1, <1>2, <1>3
<1>5. Number(seen', GoodJobs) = Number(seen, GoodJobs) + IF j \in GoodJobs THEN 1 ELSE 0
  BY <1>1, <1>2, NumberAppend
<1>6. GoodJobs' = GoodJobs
  BY <1>2 DEF GoodJobs, Clean, Jobs
<1>7. /\ Len(seen) \in Nat /\ DOMAIN seen = 1 .. Len(seen)
      /\ DOMAIN seen' = 1 .. Len(seen) + 1
      /\ \A k \in DOMAIN seen : seen'[k] = seen[k]
      /\ seen'[Len(seen) + 1] = j
  BY <1>1, <1>2
<1> QED BY <1>4, <1>5, <1>6, <1>7 DEF j

\* A job goes from output_queue to those that main has seen.
LEMMA CollectMoves ==
  ASSUME RunnerIInv, Collect, TypeOK', main' # "returned"
  PROVE  /\ CarriesJob' /\ JobsConserved' /\ WorkersOutlastJobs' /\ BreaksLast'
         /\ ReportsTrue' /\ RunsReported' /\ SuccessHonest' /\ AllOver'
<1> DEFINE r == Head(output)
<1>1. /\ TypeOK /\ CarriesJob /\ JobsConserved /\ WorkersOutlastJobs /\ BreaksLast
      /\ ReportsTrue /\ RunsReported /\ AllOver
  BY DEF RunnerIInv
<1>2. /\ output \in Seq(Reports) /\ seen \in Seq(Jobs)
  BY <1>1, QueueTypes
<1>3. /\ output # <<>> /\ output' = Tail(output) /\ seen' = Append(seen, r.job)
      /\ input' = input /\ worker' = worker /\ interrupted' = interrupted
      /\ put' = put /\ exit' = exit
  BY DEF Collect
<1>4. r \in Reports
  BY <1>3, HeadReport
<1>5. \A i \in DOMAIN output' : i + 1 \in DOMAIN output /\ output'[i] = output[i + 1]
  <2>1. \A S : \A q \in Seq(S) : q # <<>> =>
          \A i \in DOMAIN Tail(q) : i + 1 \in DOMAIN q /\ Tail(q)[i] = q[i + 1]
    OBVIOUS
  <2> QED BY <1>2, <1>3, <2>1
<1>6. JobsConserved'
  <2> SUFFICES ASSUME NEW j \in Jobs PROVE Copies(j)' = Copies(j)
    BY <1>1, <1>3 DEF JobsConserved, Jobs
  <2>1. Number(output, ReportsOf(j))
          = Number(output', ReportsOf(j)) + IF r.job = j THEN 1 ELSE 0
    <3>1. Number(output, ReportsOf(j)) = Number(Tail(output), ReportsOf(j))
            + IF Head(output) \in ReportsOf(j) THEN 1 ELSE 0
      BY <1>2, <1>3, NumberTail
    <3>2. r \in ReportsOf(j) <=> r.job = j
      BY <1>4 DEF ReportsOf
    <3> QED BY <1>3, <3>1, <3>2
  <2>2. Number(seen', {j}) = Number(seen, {j}) + IF r.job = j THEN 1 ELSE 0
    <3> HIDE DEF r
    <3>1. Number(Append(seen, r.job), {j})
            = Number(seen, {j}) + IF r.job \in {j} THEN 1 ELSE 0
      BY <1>2, NumberAppend
    <3> QED BY <1>3, <3>1
  <2>3. Counted(j) /\ Counted(j)'
    BY <1>1, <1>3, CopiesCounted, CopiesCountedNext DEF Jobs
  <2>4. Holding(j)' = Holding(j) /\ ReportsOf(j)' = ReportsOf(j)
    BY DEF Holding, Places, ReportsOf, Reports, Jobs
  <2> HIDE DEF r
  <2> QED BY <1>3, <2>1, <2>2, <2>3, <2>4 DEF Counted
<1>7. CarriesJob' /\ WorkersOutlastJobs' /\ BreaksLast'
  BY <1>1, <1>3 DEF CarriesJob, WorkersOutlastJobs, BreaksLast
<1>8. ReportsTrue'
  BY <1>1, <1>3, <1>5 DEF ReportsTrue
<1>9. RunsReported'
  <2>1. \A i \in DOMAIN output : output[i] = r \/ \E k \in DOMAIN output' : output'[k] = output[i]
    <3>1. \A S : \A q \in Seq(S) : q # <<>> =>
            \A i \in DOMAIN q : \/ q[i] = Head(q)
                                \/ i - 1 \in DOMAIN Tail(q) /\ Tail(q)[i - 1] = q[i]
      OBVIOUS
    <3> QED BY <1>2, <1>3, <3>1
  <2>2. /\ \A x : (\E k \in DOMAIN seen : seen[k] = x) =>
                    \E k \in DOMAIN seen' : seen'[k] = x
        /\ \E k \in DOMAIN seen' : seen'[k] = r.job
    BY SeenGrows
  <2> SUFFICES ASSUME NEW j \in Jobs, exit[j] # NoExit
      PROVE  \/ \E i \in DOMAIN output' : output'[i].job = j
             \/ \E k \in DOMAIN seen' : seen'[k] = j
    BY <1>3 DEF RunsReported, Jobs, NoExit
  <2>3. CASE \E k \in DOMAIN seen : seen[k] = j
    BY <2>2, <2>3
  <2>4. ASSUME NEW i \in DOMAIN output, output[i].job = j
        PROVE  \/ \E k \in DOMAIN output' : output'[k].job = j
               \/ \E k \in DOMAIN seen' : seen'[k] = j
    BY <2>1, <2>2, <2>4
  <2> QED BY <1>1, <2>3, <2>4 DEF RunsReported
<1> QED BY <1>6, <1>7, <1>8, <1>9 DEF SuccessHonest, AllOver

\* results.xml stays honest without a job that need not be in it, or when main
\* has failed.
LEMMA NotWritten ==
  ASSUME RunnerIInv, Collect, results' = results,
         main' = "raised" \/ ~Reportable(Head(output).job)
  PROVE  ResultsHonest' /\ ResultsSeen'
<1> DEFINE j == Head(output).job
<1>1. ResultsHonest /\ ResultsSeen /\ seen \in Seq(Jobs)
  BY QueueTypes DEF RunnerIInv
<1>2. /\ seen' = Append(seen, j) /\ exit' = exit /\ interrupted' = interrupted
      /\ main = "running"
  BY DEF Collect
<1>3. \A k \in DOMAIN seen' : seen'[k] = j \/ (k \in DOMAIN seen /\ seen'[k] = seen[k])
  <2>1. \A S, x : \A q \in Seq(S) : \A k \in DOMAIN Append(q, x) :
          Append(q, x)[k] = x \/ (k \in DOMAIN q /\ Append(q, x)[k] = q[k])
    OBVIOUS
  <2> HIDE DEF j
  <2> QED BY <1>1, <1>2, <2>1
<1> HIDE DEF j
<1>4. \A x : /\ Reportable(x)' <=> Reportable(x)
             /\ EntryKnows(x)' <=> EntryKnows(x)
             /\ Outcome(x)' = Outcome(x)
  BY <1>2, SameExit DEF Reportable
<1>5. \A i \in DOMAIN results' : Honest(results[i])'
  BY <1>1, <1>2, <1>4 DEF ResultsHonest, Honest
<1>6. ResultsHonest'
  BY <1>1, <1>2, <1>3, <1>4, <1>5 DEF ResultsHonest, j
<1>7. ResultsSeen'
  <2>1. \A x : (\E k \in DOMAIN seen : seen[k] = x) => \E k \in DOMAIN seen' : seen'[k] = x
    BY SeenGrows
  <2> QED BY <1>1, <2>1 DEF ResultsSeen
<1> QED BY <1>6, <1>7

\* main sets an interrupted job aside.
LEMMA IgnoreKeeps ==
  ASSUME RunnerIInv, Ignore
  PROVE  RunnerIInv'
<1>1. /\ TypeOK /\ Tallied /\ ResultsHonest /\ ResultsSeen
  BY DEF RunnerIInv
<1>2. /\ Collect /\ Head(output).dropped /\ output # <<>>
      /\ tally' = tally /\ results' = results /\ main' = main /\ main = "running"
      /\ input' = input /\ worker' = worker /\ interrupted' = interrupted
      /\ put' = put /\ exitCode' = exitCode /\ exit' = exit
  BY DEF Ignore, Collect
<1>3. TypeOK'
  BY <1>1, <1>2, SeenGrows DEF TypeOK, Reports
<1>4. /\ interrupted
      /\ Head(output).job \notin Skips => exit[Head(output).job] = NoExit
  BY <1>2, HeadReport
<1>5. /\ Number(seen', GoodJobs')
           = Number(seen, GoodJobs) + IF Head(output).job \in GoodJobs THEN 1 ELSE 0
      /\ \A x : (\E k \in DOMAIN seen : seen[k] = x) =>
                  \E k \in DOMAIN seen' : seen'[k] = x
  BY <1>2, SeenGrows
<1>6. Tallied'
  <2>1. Number(seen, GoodJobs) \in Nat
    BY <1>1, QueueTypes, QueuePlaces
  <2>2. Passed \in Nat /\ Passed' = Passed
    BY <1>1, <1>2 DEF Passed, TypeOK, Statuses
  <2> QED BY <1>1, <1>2, <1>4, <1>5, <2>1, <2>2 DEF Tallied
<1>7. ResultsHonest' /\ ResultsSeen'
  <2>1. ~Reportable(Head(output).job)
    BY <1>4 DEF Reportable, EntryKnows
  <2> QED BY <1>1, <1>2, <2>1, NotWritten
<1>8. /\ CarriesJob' /\ JobsConserved' /\ WorkersOutlastJobs' /\ BreaksLast'
      /\ ReportsTrue' /\ RunsReported' /\ SuccessHonest' /\ AllOver'
  BY <1>2, <1>3, CollectMoves
<1> QED BY <1>3, <1>6, <1>7, <1>8 DEF RunnerIInv

\* The sequence s is q with x at its end.
Grown(q, s, x) == s = Append(q, x)

\* The elements of a sequence that has grown.
LEMMA OneMore ==
  ASSUME NEW S, NEW q \in Seq(S), NEW x \in S, NEW s, Grown(q, s, x)
  PROVE  /\ s \in Seq(S) /\ Len(q) \in Nat
         /\ DOMAIN q = 1 .. Len(q) /\ DOMAIN s = 1 .. Len(q) + 1
         /\ \A i \in DOMAIN q : s[i] = q[i]
         /\ s[Len(q) + 1] = x
BY DEF Grown

\* A counted job's entry goes to the end of results.xml.
LEMMA ResultsGrow ==
  ASSUME RunnerIInv, Count,
         ~(ReadsFile(Head(output)) /\ exit[Head(output).job].file = "missing")
  PROVE  results' \in Seq(Entry) /\ ResultsHonest' /\ ResultsSeen'
<1> DEFINE r == Head(output)
<1>1. TypeOK /\ ResultsHonest /\ ResultsSeen /\ results \in Seq(Entry)
  BY DEF RunnerIInv, TypeOK, Entry
<1>2. /\ Collect /\ output # <<>> /\ exit' = exit /\ ~r.dropped
      /\ interrupted' = interrupted /\ main = "running" /\ seen' = Append(seen, r.job)
  BY DEF Count, Collect
<1>3. /\ \A x : (\E k \in DOMAIN seen : seen[k] = x) =>
                  \E k \in DOMAIN seen' : seen'[k] = x
      /\ \E k \in DOMAIN seen' : seen'[k] = r.job
      /\ \A k \in DOMAIN seen' : seen'[k] = r.job \/ \E l \in DOMAIN seen : seen[l] = seen'[k]
  <2>1. \A S, x : \A q \in Seq(S) : \A k \in DOMAIN Append(q, x) :
          Append(q, x)[k] = x \/ (k \in DOMAIN q /\ Append(q, x)[k] = q[k])
    OBVIOUS
  <2>2. seen \in Seq(Jobs)
    BY <1>1, QueueTypes
  <2> HIDE DEF r
  <2> QED BY <1>2, <2>1, <2>2, SeenGrows DEF r
<1>4. \A i \in DOMAIN seen : seen[i] # r.job
  BY <1>2, HeadReport
<1>5. \A i \in DOMAIN results : results[i].job # r.job
  BY <1>1, <1>4 DEF ResultsSeen
<1>6. \/ Entries(r) = <<>> /\ ~Reportable(r.job)
      \/ \E e \in Entry : Entries(r) = <<e>> /\ e.job = r.job /\ Honest(e)
  BY <1>2, EntryHonest
<1> HIDE DEF r
<1>7. results' = results \o Entries(r)
  BY DEF Count, r
<1>8. CASE Entries(r) = <<>> /\ ~Reportable(r.job)
  <2>1. results' = results
    BY <1>1, <1>7, <1>8
  <2>2. results \in Seq(Entry)
    BY <1>1
  <2> QED BY <1>2, <1>8, <2>1, <2>2, NotWritten DEF r
<1>9. ASSUME NEW e \in Entry, Entries(r) = <<e>>, e.job = r.job, Honest(e)
      PROVE  results' \in Seq(Entry) /\ ResultsHonest' /\ ResultsSeen'
  <2> DEFINE n == Len(results) + 1
  <2>1. /\ results' \in Seq(Entry) /\ Len(results) \in Nat
        /\ DOMAIN results = 1 .. Len(results) /\ DOMAIN results' = 1 .. n
        /\ \A i \in DOMAIN results : results'[i] = results[i]
        /\ results'[n] = e
    <3>1. results' = Append(results, e)
      <4>1. results \o <<e>> = Append(results, e)
        BY <1>1, <1>9
      <4>2. results' = results \o <<e>>
        BY <1>7, <1>9
      <4> QED BY <4>1, <4>2, Zenon
    <3>2. Grown(results, results', e)
      BY <3>1 DEF Grown
    <3>3. results \in Seq(Entry) /\ e \in Entry
      BY <1>1, <1>9
    <3> QED BY <3>2, <3>3, OneMore
  <2>2. \A i \in DOMAIN results' : i = n \/ i \in DOMAIN results
    BY <2>1
  <2> HIDE DEF n
  <2>3. ResultsSeen'
    BY <1>1, <1>3, <1>9, <2>1, <2>2 DEF ResultsSeen
  <2>4. \A x : /\ Reportable(x)' <=> Reportable(x)
               /\ EntryKnows(x)' <=> EntryKnows(x)
               /\ Outcome(x)' = Outcome(x)
    BY <1>2, SameExit DEF Reportable
  <2>5. \A i, k \in DOMAIN results' :
          results'[i].job = results'[k].job /\ Reportable(results'[i].job) => i = k
    BY <1>1, <1>5, <1>9, <2>1, <2>2 DEF ResultsHonest
  <2>6. \A i \in DOMAIN results' : Honest(results[i])'
    <3>1. \A i \in DOMAIN results : Honest(results[i])
      BY <1>1 DEF ResultsHonest
    <3>2. \A i \in DOMAIN results' : Honest(results'[i])
      BY <1>9, <2>1, <2>2, <3>1
    <3> QED BY <1>2, <2>4, <3>2 DEF Honest
  <2>7. \A k \in DOMAIN seen' : Reportable(seen'[k]) =>
          \E i \in DOMAIN results' : results'[i].job = seen'[k]
    <3> SUFFICES ASSUME NEW k \in DOMAIN seen', Reportable(seen'[k])
        PROVE  \E i \in DOMAIN results' : results'[i].job = seen'[k]
      OBVIOUS
    <3>1. CASE seen'[k] = r.job
      <4>1. n \in DOMAIN results'
        BY <2>1 DEF n
      <4> QED BY <1>9, <2>1, <3>1, <4>1
    <3>2. CASE \E l \in DOMAIN seen : seen[l] = seen'[k]
      <4>1. \E i \in DOMAIN results : results[i].job = seen'[k]
        BY <1>1, <1>2, <3>2 DEF ResultsHonest
      <4>2. \A i \in DOMAIN results : i \in DOMAIN results'
        BY <2>1 DEF n
      <4> QED BY <2>1, <4>1, <4>2
    <3> QED BY <1>3, <3>1, <3>2
  <2>8. ResultsHonest'
    BY <2>4, <2>5, <2>6, <2>7 DEF ResultsHonest
  <2> QED BY <2>1, <2>3, <2>8
<1> QED BY <1>6, <1>8, <1>9

\* main counts a job, and writes its entry or stops with an exception.
LEMMA CountKeeps ==
  ASSUME RunnerIInv, Count
  PROVE  RunnerIInv'
<1> DEFINE r == Head(output)
           missing == ReadsFile(r) /\ exit[r.job].file = "missing"
<1>1. /\ TypeOK /\ Tallied /\ ResultsHonest /\ ResultsSeen
  BY DEF RunnerIInv
<1>2. /\ Collect /\ ~r.dropped /\ output # <<>> /\ main = "running"
      /\ tally' = [tally EXCEPT ![Status(r)] = @ + 1]
      /\ input' = input /\ worker' = worker /\ interrupted' = interrupted
      /\ put' = put /\ exitCode' = exitCode /\ exit' = exit
  BY DEF Count, Collect
<1>3. /\ missing => main' = "raised" /\ results' = results
      /\ ~missing => main' = main /\ results' = results \o Entries(r)
  BY DEF Count
<1>4. /\ output' \in Seq(Reports) /\ seen' \in Seq(Jobs)
      /\ Number(seen', GoodJobs')
           = Number(seen, GoodJobs) + IF r.job \in GoodJobs THEN 1 ELSE 0
      /\ \A x : (\E k \in DOMAIN seen : seen[k] = x) =>
                  \E k \in DOMAIN seen' : seen'[k] = x
  BY <1>2, SeenGrows
<1>5. Status(r) \in Statuses /\ (Status(r) \in {"PASS", "SKIP"} <=> r.job \in GoodJobs)
  BY <1>2, StatusTrue
<1>6. tally \in [Statuses -> Nat] /\ tally' \in [Statuses -> Nat]
  <2> HIDE DEF r
  <2> QED BY <1>1, <1>2, <1>5 DEF TypeOK
<1>7. results' \in Seq(Entry) /\ ResultsHonest' /\ ResultsSeen'
  <2>1. CASE missing
    <3>1. results' = results /\ main' = "raised" /\ results \in Seq(Entry)
      BY <1>1, <1>3, <2>1 DEF TypeOK, Entry
    <3> QED BY <1>2, <3>1, NotWritten
  <2>2. CASE ~missing
    BY <2>2, ResultsGrow
  <2> QED BY <2>1, <2>2
<1>8. main' \in {"running", "raised"}
  BY <1>2, <1>3
<1>9. TypeOK'
  BY <1>1, <1>2, <1>4, <1>6, <1>7, <1>8 DEF TypeOK, Reports, Entry
<1>10. Tallied'
  <2>1. Number(seen, GoodJobs) \in Nat
    BY <1>1, QueueTypes, QueuePlaces
  <2>2. /\ Passed \in Nat
        /\ Passed' = Passed + IF r.job \in GoodJobs THEN 1 ELSE 0
    <3> HIDE DEF r
    <3> QED BY <1>2, <1>5, <1>6 DEF Passed, Statuses
  <2> HIDE DEF r
  <2> QED BY <1>1, <1>2, <1>4, <2>1, <2>2 DEF Tallied
<1>11. /\ CarriesJob' /\ JobsConserved' /\ WorkersOutlastJobs' /\ BreaksLast'
       /\ ReportsTrue' /\ RunsReported' /\ SuccessHonest' /\ AllOver'
  BY <1>2, <1>8, <1>9, CollectMoves
<1> QED BY <1>7, <1>9, <1>10, <1>11 DEF RunnerIInv

\* When as many jobs were seen as there are, all were.
LEMMA AllSeen ==
  ASSUME RunnerIInv, Len(seen) = N, NEW j \in Jobs
  PROVE  \E k \in DOMAIN seen : seen[k] = j
<1>1. TypeOK /\ JobsConserved /\ seen \in Seq(Jobs)
  BY QueueTypes DEF RunnerIInv
<1>2. DOMAIN seen = Jobs /\ seen \in [Jobs -> Jobs]
  BY <1>1 DEF Jobs
<1>3. \A i, k \in Jobs : seen[i] = seen[k] => i = k
  BY <1>1, <1>2, OnePlace
<1>4. seen \in Injection(Jobs, Jobs)
  BY <1>2, <1>3 DEF Injection, IsInjective
<1>5. IsFiniteSet(Jobs)
  BY RunnerNumbers, FS_Interval DEF Jobs
<1>6. seen \in Surjection(Jobs, Jobs)
  BY <1>4, <1>5, FS_Injection
<1> QED BY <1>2, <1>6 DEF Surjection

\* main ends.
LEMMA ReturnKeeps ==
  ASSUME RunnerIInv, Return
  PROVE  RunnerIInv'
<1>1. /\ TypeOK /\ CarriesJob /\ JobsConserved /\ WorkersOutlastJobs /\ BreaksLast
      /\ ReportsTrue /\ RunsReported /\ Tallied /\ ResultsHonest /\ ResultsSeen
  BY DEF RunnerIInv
<1>2. /\ Len(seen) = N
      /\ \A w \in Workers : worker[w].at \in {"exited", "died"}
      /\ input' = input /\ output' = output /\ worker' = worker
      /\ interrupted' = interrupted /\ put' = put /\ seen' = seen
      /\ tally' = tally /\ results' = results /\ exit' = exit /\ main = "running"
  BY DEF Return
<1>3. \/ main' = "raised" /\ exitCode' = exitCode
      \/ main' = "returned" /\ exitCode' = IF Passed = N THEN 0 ELSE 1
  BY DEF Return, Passed
<1>4. TypeOK'
  BY <1>1, <1>2, <1>3 DEF TypeOK
<1>5. CarriesJob' /\ WorkersOutlastJobs' /\ BreaksLast' /\ ReportsTrue' /\ RunsReported'
  BY <1>1, <1>2
     DEF CarriesJob, WorkersOutlastJobs, BreaksLast, ReportsTrue, RunsReported, Jobs
<1>6. JobsConserved'
  BY <1>1, <1>2 DEF JobsConserved, Copies
<1>7. Tallied' /\ ResultsHonest' /\ ResultsSeen' /\ AllOver'
  <2>1. Number(seen', GoodJobs') = Number(seen, GoodJobs) /\ Passed' = Passed
    BY <1>2 DEF Number, GoodJobs, Clean, Passed
  <2>2. Tallied'
    BY <1>1, <1>2, <2>1 DEF Tallied
  <2>3. ResultsHonest' /\ ResultsSeen'
    BY <1>1, <1>2, ResultsSame
  <2> QED BY <1>2, <2>2, <2>3 DEF AllOver
<1>8. SuccessHonest'
  <2>1. /\ Number(seen, GoodJobs) \in Nat /\ Number(seen, GoodJobs) <= N
        /\ Number(seen, GoodJobs) = N => \A i \in DOMAIN seen : seen[i] \in GoodJobs
    BY <1>1, <1>2, QueueTypes, QueuePlaces
  <2>2. Passed \in Nat /\ N \in Nat
    BY <1>1, RunnerNumbers DEF Passed, TypeOK, Statuses
  <2>3. Passed = N => GoodJobs = Jobs
    <3> SUFFICES ASSUME Passed = N, NEW j \in Jobs PROVE j \in GoodJobs
      BY DEF GoodJobs
    <3>1. Number(seen, GoodJobs) = N
      BY <1>1, <2>1, <2>2 DEF Tallied
    <3>2. PICK k \in DOMAIN seen : seen[k] = j
      BY <1>2, AllSeen
    <3> QED BY <2>1, <3>1, <3>2
  <2>4. GoodJobs = Jobs /\ ~interrupted => Passed = N
    <3> SUFFICES ASSUME GoodJobs = Jobs, ~interrupted PROVE Passed = N
      OBVIOUS
    <3>1. {i \in DOMAIN seen : seen[i] \in GoodJobs} = 1 .. N
      <4>1. seen \in Seq(Jobs) /\ DOMAIN seen = 1 .. N
        BY <1>1, <1>2, QueueTypes
      <4>2. \A S : \A q \in Seq(S) : \A i \in DOMAIN q : q[i] \in S
        OBVIOUS
      <4>3. \A i \in DOMAIN seen : seen[i] \in Jobs
        BY <4>1, <4>2
      <4> QED BY <4>1, <4>3
    <3>2. Number(seen, GoodJobs) = N
      <4>1. Cardinality(1 .. N) = N
        BY <2>2, FS_Interval
      <4>2. Number(seen, GoodJobs) = Cardinality({i \in DOMAIN seen : seen[i] \in GoodJobs})
        BY DEF Number
      <4> QED BY <3>1, <4>1, <4>2
    <3> QED BY <1>1, <3>2 DEF Tallied
  <2>5. GoodJobs = Jobs <=> \A j \in Jobs : j \in Skips \/ Clean(j)
    BY DEF GoodJobs
  <2>6. /\ interrupted' = interrupted /\ Jobs' = Jobs
        /\ \A j \in Jobs : Clean(j)' = Clean(j)
    BY <1>2 DEF Clean, Jobs
  <2> QED BY <1>3, <2>3, <2>4, <2>5, <2>6 DEF SuccessHonest
<1> QED BY <1>4, <1>5, <1>6, <1>7, <1>8 DEF RunnerIInv

\* The signal handler sets its flag while main runs.
LEMMA InterruptKeeps ==
  ASSUME RunnerIInv, Interrupt
  PROVE  RunnerIInv'
<1>1. /\ TypeOK /\ CarriesJob /\ JobsConserved /\ WorkersOutlastJobs /\ BreaksLast
      /\ ReportsTrue /\ RunsReported /\ Tallied /\ ResultsHonest /\ ResultsSeen
  BY DEF RunnerIInv
<1>2. /\ interrupted' = TRUE /\ main = "running"
      /\ input' = input /\ output' = output /\ worker' = worker /\ put' = put
      /\ seen' = seen /\ tally' = tally /\ results' = results /\ main' = main
      /\ exitCode' = exitCode /\ exit' = exit
  BY DEF Interrupt
<1>3. TypeOK'
  BY <1>1, <1>2 DEF TypeOK
<1>4. CarriesJob' /\ WorkersOutlastJobs' /\ BreaksLast' /\ ReportsTrue' /\ RunsReported'
  BY <1>1, <1>2
     DEF CarriesJob, WorkersOutlastJobs, BreaksLast, ReportsTrue, RunsReported, Jobs
<1>5. JobsConserved'
  BY <1>1, <1>2 DEF JobsConserved, Copies
<1>6. Tallied'
  <2>1. Number(seen', GoodJobs') = Number(seen, GoodJobs) /\ Passed' = Passed
    BY <1>2 DEF Number, GoodJobs, Clean, Passed
  <2> QED BY <1>1, <1>2, <2>1 DEF Tallied
<1>7. ResultsHonest' /\ ResultsSeen' /\ SuccessHonest' /\ AllOver'
  <2>1. ResultsHonest' /\ ResultsSeen'
    BY <1>1, <1>2, ResultsSame
  <2> QED BY <1>2, <2>1 DEF SuccessHonest, AllOver
<1> QED BY <1>3, <1>4, <1>5, <1>6, <1>7 DEF RunnerIInv
-----------------------------------------------------------------------------
(***************************************************************************)
(* The results.                                                            *)
(***************************************************************************)
\* A step of any thread, or none.
LEMMA RunnerStep == RunnerIInv /\ [Next]_vars => RunnerIInv'
<1> SUFFICES ASSUME RunnerIInv, [Next]_vars PROVE RunnerIInv'
  OBVIOUS
<1>1. CASE Main
  BY <1>1, PutKeeps, IgnoreKeeps, CountKeeps, ReturnKeeps DEF Main
<1>2. CASE Interrupt
  BY <1>2, InterruptKeeps
<1>3. CASE \E w \in Workers : Work(w) \/ LaunchFails(w)
  BY <1>3, WorkKeeps
<1>4. CASE UNCHANGED vars
  <2>1. /\ input' = input /\ output' = output /\ worker' = worker
        /\ interrupted' = interrupted /\ put' = put /\ seen' = seen
        /\ tally' = tally /\ results' = results /\ main' = main
        /\ exitCode' = exitCode /\ exit' = exit
    BY <1>4 DEF vars
  <2>2. /\ TypeOK /\ CarriesJob /\ JobsConserved /\ WorkersOutlastJobs /\ BreaksLast
        /\ ReportsTrue /\ RunsReported /\ Tallied /\ ResultsHonest /\ ResultsSeen
        /\ SuccessHonest /\ AllOver
    BY DEF RunnerIInv
  <2>3. TypeOK' /\ CarriesJob' /\ WorkersOutlastJobs' /\ BreaksLast'
        /\ ReportsTrue' /\ RunsReported'
    BY <2>1, <2>2
       DEF TypeOK, CarriesJob, WorkersOutlastJobs, BreaksLast, ReportsTrue, RunsReported, Jobs
  <2>4. JobsConserved'
    BY <2>1, <2>2 DEF JobsConserved, Copies
  <2>5. ResultsHonest' /\ ResultsSeen'
    BY <2>1, <2>2, ResultsSame
  <2>6. Tallied' /\ SuccessHonest' /\ AllOver'
    BY <2>1, <2>2 DEF Tallied, Number, GoodJobs, Clean, Passed, SuccessHonest, AllOver
  <2> QED BY <2>3, <2>4, <2>5, <2>6 DEF RunnerIInv
<1> QED BY <1>1, <1>2, <1>3, <1>4 DEF Next

\* The invariant of test.py holds with any number of jobs and worker threads,
\* whatever the programs do and whenever the signal comes.
THEOREM RunnerInvariance == Spec => []RunnerIInv
<1>1. Init => RunnerIInv
  BY RunnerInit
<1>2. RunnerIInv /\ [Next]_vars => RunnerIInv'
  BY RunnerStep
<1> QED BY <1>1, <1>2, PTL DEF Spec

\* No job is lost between the queues and the threads and none comes back twice,
\* and there is a break job left for every worker that runs, behind all jobs.
THEOREM RunnerAccounts == Spec => []JobsAccounted
<1>1. RunnerIInv => JobsAccounted
  BY DEF RunnerIInv, JobsAccounted
<1> QED BY <1>1, RunnerInvariance, PTL

\* results.xml says how each program ended, with the exceptions that EntryKnows
\* names, once, and of every job that was run although others were dropped.
THEOREM RunnerReports == Spec => []ResultsHonest
<1>1. RunnerIInv => ResultsHonest
  BY DEF RunnerIInv
<1> QED BY <1>1, RunnerInvariance, PTL

\* run_tests returns 0 only if every job was skipped or its program was clean,
\* and does return 0 then unless it was interrupted.
THEOREM RunnerSucceeds == Spec => []SuccessHonest
<1>1. RunnerIInv => SuccessHonest
  BY DEF RunnerIInv
<1> QED BY <1>1, RunnerInvariance, PTL
-----------------------------------------------------------------------------
(***************************************************************************)
(* The log.                                                                *)
(***************************************************************************)
Sendings == [time : Nat, rw : Windows]
Rows == [time : Nat, dr : 0 .. 5, tx : 0 .. 7]
LogTypes ==
  /\ state \in {"BUILD", "LOCATIONS", "MAIN"} /\ down \in BOOLEAN /\ now \in Nat
  /\ sends \in Seq(Sendings)
  /\ recvs \in Seq(Nat)
  /\ rows \in Seq(Rows)
  /\ arrived \in Seq(BOOLEAN)
  /\ Len(arrived) = Len(sends)

\* Transmissions are in the order of time and keep their distance.
Spaced ==
  /\ \A i \in DOMAIN sends : sends[i].time <= now
  /\ \A i, k \in DOMAIN sends : i < k => sends[k].time - sends[i].time >= MinGap

\* A reception is that of a transmission, and follows it within three seconds.
Received ==
  /\ \A i \in DOMAIN sends : arrived[i] =>
       \E k \in DOMAIN recvs : Paired(sends[i].time, recvs[k])
  /\ \A k \in DOMAIN recvs : \E i \in DOMAIN sends :
       arrived[i] /\ Paired(sends[i].time, recvs[k])

LogIInv == LogTypes /\ Spaced /\ Received

-----------------------------------------------------------------------------
\* What the elements of the log are.
LEMMA LogElements ==
  ASSUME LogTypes
  PROVE  /\ now \in Nat /\ Len(sends) \in Nat /\ DOMAIN sends = 1 .. Len(sends)
         /\ DOMAIN arrived = DOMAIN sends
         /\ Len(rows) \in Nat /\ DOMAIN rows = 1 .. Len(rows)
         /\ \A i \in DOMAIN sends : /\ i \in Nat
                                    /\ sends[i] \in Sendings /\ sends[i].time \in Nat
                                    /\ sends[i].rw \in Windows
                                    /\ arrived[i] \in BOOLEAN
         /\ \A k \in DOMAIN recvs : recvs[k] \in Nat
         /\ \A e \in DOMAIN rows : e \in Nat /\ rows[e] \in Rows /\ rows[e].time \in Nat
<1>1. /\ sends \in Seq(Sendings) /\ rows \in Seq(Rows) /\ arrived \in Seq(BOOLEAN)
      /\ recvs \in Seq(Nat) /\ now \in Nat /\ Len(arrived) = Len(sends)
  BY DEF LogTypes
<1>2. /\ Len(sends) \in Nat /\ DOMAIN sends = 1 .. Len(sends)
      /\ DOMAIN arrived = DOMAIN sends
      /\ Len(rows) \in Nat /\ DOMAIN rows = 1 .. Len(rows)
      /\ \A i \in DOMAIN sends : i \in Nat /\ sends[i] \in Sendings /\ arrived[i] \in BOOLEAN
      /\ \A k \in DOMAIN recvs : recvs[k] \in Nat
      /\ \A e \in DOMAIN rows : e \in Nat /\ rows[e] \in Rows
  BY <1>1
<1>3. \A x \in Sendings : x.time \in Nat /\ x.rw \in Windows
  BY DEF Sendings
<1>4. \A x \in Rows : x.time \in Nat
  BY DEF Rows
<1> QED BY <1>1, <1>2, <1>3, <1>4

\* An empty log.
LEMMA LogStart == LogInit => LogIInv
<1> SUFFICES ASSUME LogInit PROVE LogIInv
  OBVIOUS
<1>1. LogTypes
  BY LogAssumption DEF LogInit, LogTypes
<1> QED BY <1>1
    DEF LogInit, LogIInv, Spaced, Received

\* A transmission is logged.
LEMMA SendKeeps ==
  ASSUME LogIInv, NEW rw \in Windows, Send(rw)
  PROVE  LogIInv'
<1> DEFINE s == [time |-> now, rw |-> rw]
           n == Len(sends) + 1
<1>1. LogTypes /\ Spaced /\ Received
  BY DEF LogIInv
<1>2. /\ sends # <<>> => now - sends[Len(sends)].time >= MinGap
      /\ sends' = Append(sends, s) /\ arrived' = Append(arrived, FALSE)
      /\ state' = state /\ down' = down /\ recvs' = recvs /\ rows' = rows /\ now' = now
  BY DEF Send
<1>3. /\ sends \in Seq(Sendings) /\ now \in Nat
      /\ arrived \in Seq(BOOLEAN)
      /\ rows \in Seq(Rows)
      /\ Len(arrived) = Len(sends) /\ MinGap \in Nat
  BY <1>1, LogAssumption DEF LogTypes
<1>5. s \in Sendings
  BY <1>3 DEF Sendings
<1>6. s.time = now
  OBVIOUS
<1> HIDE DEF s
<1>7. /\ Len(sends) \in Nat /\ DOMAIN sends = 1 .. Len(sends)
      /\ sends' \in Seq(Sendings) /\ Len(sends') = n
      /\ DOMAIN sends' = 1 .. n
      /\ \A i \in DOMAIN sends : sends'[i] = sends[i]
      /\ sends'[n] = s
  BY <1>2, <1>3, <1>5
<1>8. /\ arrived' \in Seq(BOOLEAN) /\ Len(arrived') = n
      /\ \A i \in DOMAIN sends : arrived'[i] = arrived[i]
      /\ ~arrived'[n]
  BY <1>2, <1>3, <1>5
<1>9. \A i \in DOMAIN sends' : i = n \/ i \in DOMAIN sends
  BY <1>7
<1>10. n \in DOMAIN sends' /\ n \notin DOMAIN sends
       /\ \A i \in DOMAIN sends : i \in DOMAIN sends' /\ i < n /\ i \in Nat
  BY <1>7
<1>11. \A i \in DOMAIN sends : sends[i].time \in Nat
  BY <1>1, LogElements
<1> HIDE DEF n
<1>12. LogTypes'
  BY <1>1, <1>2, <1>7, <1>8 DEF LogTypes, Windows, Sendings, Rows
<1>13. Spaced'
  <2>1. \A i \in DOMAIN sends : now - sends[i].time >= MinGap
    <3> SUFFICES ASSUME NEW i \in DOMAIN sends PROVE now - sends[i].time >= MinGap
      OBVIOUS
    <3>1. sends # <<>> /\ Len(sends) \in DOMAIN sends /\ i <= Len(sends) /\ i \in Nat
      BY <1>7
    <3>2. i = Len(sends) \/ sends[Len(sends)].time - sends[i].time >= MinGap
      BY <1>1, <1>7, <3>1 DEF Spaced
    <3>3. sends[Len(sends)].time \in Nat /\ sends[i].time \in Nat
      BY <1>11, <3>1
    <3> QED BY <1>2, <1>3, <3>1, <3>2, <3>3
  <2>2. \A i \in DOMAIN sends' : sends'[i].time <= now
    <3>1. s.time <= now
      BY <1>3, <1>6
    <3> QED BY <1>1, <1>7, <1>9, <3>1 DEF Spaced
  <2>3. \A i, k \in DOMAIN sends' : i < k => sends'[k].time - sends'[i].time >= MinGap
    <3> SUFFICES ASSUME NEW i \in DOMAIN sends', NEW k \in DOMAIN sends', i < k
        PROVE  sends'[k].time - sends'[i].time >= MinGap
      OBVIOUS
    <3>1. i \in DOMAIN sends
      BY <1>7, <1>9, <1>10 DEF n
    <3>2. CASE k \in DOMAIN sends
      BY <1>1, <1>7, <3>1, <3>2 DEF Spaced
    <3>3. CASE k = n
      BY <1>6, <1>7, <2>1, <3>1, <3>3
    <3> QED BY <1>9, <3>2, <3>3
  <2> QED BY <1>2, <2>2, <2>3 DEF Spaced
<1>14. Received'
  <2>1. \A i \in DOMAIN sends' : arrived'[i] =>
          \E k \in DOMAIN recvs : Paired(sends'[i].time, recvs[k])
    BY <1>1, <1>6, <1>7, <1>8, <1>9 DEF Received
  <2>2. \A k \in DOMAIN recvs : \E i \in DOMAIN sends' :
          arrived'[i] /\ Paired(sends'[i].time, recvs[k])
    <3> SUFFICES ASSUME NEW k \in DOMAIN recvs
        PROVE  \E i \in DOMAIN sends' :
                 arrived'[i] /\ Paired(sends'[i].time, recvs[k])
      OBVIOUS
    <3>1. PICK i \in DOMAIN sends : arrived[i] /\ Paired(sends[i].time, recvs[k])
      BY <1>1 DEF Received
    <3>2. i \in DOMAIN sends' /\ sends'[i] = sends[i] /\ arrived'[i] = arrived[i]
      BY <1>7, <1>8, <1>10
    <3> QED BY <3>1, <3>2
  <2> QED BY <1>2, <2>1, <2>2 DEF Received, Paired
<1> QED BY <1>12, <1>13, <1>14 DEF LogIInv

\* The last transmission is received.
LEMMA ReceiveKeeps ==
  ASSUME LogIInv, Receive
  PROVE  LogIInv'
<1> DEFINE n == Len(sends)
           m == Len(recvs) + 1
<1>1. LogTypes /\ Spaced /\ Received
  BY DEF LogIInv
<1>2. /\ sends # <<>> /\ now - sends[n].time <= 3
      /\ recvs' = Append(recvs, now)
      /\ arrived' = [arrived EXCEPT ![Len(arrived)] = TRUE]
      /\ state' = state /\ down' = down /\ sends' = sends /\ rows' = rows /\ now' = now
  BY DEF Receive
<1>3. /\ sends \in Seq(Sendings) /\ now \in Nat
      /\ arrived \in Seq(BOOLEAN)
      /\ Len(arrived) = n /\ recvs \in Seq(Nat)
  BY <1>1 DEF LogTypes
<1>4. /\ n \in Nat /\ DOMAIN sends = 1 .. n /\ n \in DOMAIN sends
      /\ DOMAIN arrived = 1 .. n
  BY <1>2, <1>3
<1>5. /\ m \in Nat /\ DOMAIN recvs = 1 .. m - 1 /\ DOMAIN recvs' = 1 .. m
      /\ recvs' \in Seq(Nat) /\ recvs'[m] = now
      /\ \A k \in DOMAIN recvs : recvs'[k] = recvs[k]
  BY <1>2, <1>3
<1>6. /\ arrived' \in Seq(BOOLEAN) /\ Len(arrived') = n
      /\ arrived'[n]
      /\ \A i \in DOMAIN sends : i # n => arrived'[i] = arrived[i]
  <2> HIDE DEF n
  <2>1. arrived' = [arrived EXCEPT ![n] = TRUE]
    BY <1>2, <1>3
  <2>2. arrived' \in Seq(BOOLEAN) /\ Len(arrived') = n
    BY <1>3, <1>4, <2>1
  <2>3. arrived'[n] = TRUE /\ \A i \in DOMAIN sends : i # n => arrived'[i] = arrived[i]
    BY <1>4, <2>1, Zenon
  <2> QED BY <2>2, <2>3
<1>7. \A k \in DOMAIN recvs' : k = m \/ k \in DOMAIN recvs
  BY <1>5
<1>8. m \in DOMAIN recvs' /\ \A k \in DOMAIN recvs : k \in DOMAIN recvs'
  BY <1>5
<1>9. Paired(sends[n].time, now)
  <2>1. sends[n].time \in Nat /\ sends[n].time <= now
    BY <1>1, <1>4, LogElements DEF Spaced
  <2> QED BY <1>2, <1>3, <2>1 DEF Paired
<1> HIDE DEF n, m
<1>10. LogTypes'
  BY <1>1, <1>2, <1>5, <1>6 DEF LogTypes, Windows, Sendings, Rows, n
<1>11. Spaced'
  BY <1>1, <1>2 DEF Spaced
<1>12. Received'
  <2>1. \A i \in DOMAIN sends : arrived'[i] =>
          \E k \in DOMAIN recvs' : Paired(sends[i].time, recvs'[k])
    <3> SUFFICES ASSUME NEW i \in DOMAIN sends, arrived'[i]
        PROVE  \E k \in DOMAIN recvs' : Paired(sends[i].time, recvs'[k])
      OBVIOUS
    <3>1. CASE i = n
      BY <1>5, <1>8, <1>9, <3>1
    <3>2. CASE i # n
      <4>1. PICK k \in DOMAIN recvs : Paired(sends[i].time, recvs[k])
        BY <1>1, <1>6, <3>2 DEF Received
      <4> QED BY <1>5, <1>8, <4>1
    <3> QED BY <3>1, <3>2
  <2>2. \A k \in DOMAIN recvs' : \E i \in DOMAIN sends :
          arrived'[i] /\ Paired(sends[i].time, recvs'[k])
    <3> SUFFICES ASSUME NEW k \in DOMAIN recvs'
        PROVE  \E i \in DOMAIN sends :
                 arrived'[i] /\ Paired(sends[i].time, recvs'[k])
      OBVIOUS
    <3>1. CASE k = m
      BY <1>4, <1>5, <1>6, <1>9, <3>1
    <3>2. CASE k \in DOMAIN recvs
      <4>1. PICK i \in DOMAIN sends : arrived[i] /\ Paired(sends[i].time, recvs[k])
        BY <1>1, <3>2 DEF Received
      <4>2. arrived'[i]
        BY <1>6, <4>1
      <4> QED BY <1>5, <3>2, <4>1, <4>2
    <3> QED BY <1>7, <3>1, <3>2
  <2> QED BY <1>2, <2>1, <2>2 DEF Received, Paired
<1> QED BY <1>10, <1>11, <1>12 DEF LogIInv

\* The ADR algorithm logs new settings.
LEMMA AdrSuccessKeeps ==
  ASSUME LogIInv, NEW s \in Chosen, AdrSuccess(s)
  PROVE  LogIInv'
<1> DEFINE r == [time |-> now, dr |-> s.dr, tx |-> s.tx]
<1>1. LogTypes /\ Spaced /\ Received
  BY DEF LogIInv
<1>2. /\ rows' = Append(rows, r)
      /\ state' = state /\ down' = down /\ sends' = sends /\ recvs' = recvs
      /\ arrived' = arrived /\ now' = now
  BY DEF AdrSuccess
<1>3. rows \in Seq(Rows) /\ now \in Nat
  BY <1>1 DEF LogTypes
<1>4. r \in Rows
  BY <1>3, LogAssumption DEF Rows
<1> HIDE DEF r
<1>5. rows' \in Seq(Rows)
  BY <1>2, <1>3, <1>4
<1>6. LogTypes'
  BY <1>1, <1>2, <1>5 DEF LogTypes, Windows, Sendings, Rows
<1>7. Spaced' /\ Received'
  BY <1>1, <1>2 DEF Spaced, Received, Paired
<1> QED BY <1>6, <1>7 DEF LogIInv

\* Any step of the simulation.
LEMMA LogStep == LogIInv /\ [LogNext]_logVars => LogIInv'
<1> SUFFICES ASSUME LogIInv, [LogNext]_logVars PROVE LogIInv'
  OBVIOUS
<1>1. LogTypes /\ Spaced /\ Received
  BY DEF LogIInv
<1>2. CASE Locations
  <2>1. /\ down' = down /\ sends' = sends /\ recvs' = recvs /\ rows' = rows
        /\ arrived' = arrived /\ now' = now /\ state' \in {"LOCATIONS", "MAIN"}
    BY <1>2 DEF Locations
  <2>2. LogTypes'
    BY <1>1, <2>1 DEF LogTypes, Windows, Sendings, Rows
  <2> QED BY <1>1, <2>1, <2>2 DEF LogIInv, Spaced, Received, Paired
<1>3. CASE Tick
  <2>1. /\ down' = down /\ sends' = sends /\ recvs' = recvs /\ rows' = rows
        /\ arrived' = arrived /\ now' = now + 1 /\ state' = state
    BY <1>3 DEF Tick
  <2>2. LogTypes'
    BY <1>1, <2>1 DEF LogTypes, Windows, Sendings, Rows
  <2>3. /\ now \in Nat
        /\ \A i \in DOMAIN sends : sends[i].time \in Nat
    BY <1>1, LogElements
  <2>4. Spaced'
    BY <1>1, <2>1, <2>3 DEF Spaced
  <2> QED BY <1>1, <2>1, <2>2, <2>4 DEF LogIInv, Received, Paired
<1>4. CASE Receive
  BY <1>4, ReceiveKeeps
<1>5. CASE \E rw \in Windows : Send(rw)
  BY <1>5, SendKeeps
<1>6. CASE \E s \in Chosen : AdrSuccess(s)
  BY <1>6, AdrSuccessKeeps
<1>7. CASE UNCHANGED logVars
  <2>1. /\ down' = down /\ sends' = sends /\ recvs' = recvs /\ rows' = rows
        /\ arrived' = arrived /\ now' = now /\ state' = state
    BY <1>7 DEF logVars
  <2>2. LogTypes'
    BY <1>1, <2>1 DEF LogTypes, Windows, Sendings, Rows
  <2> QED BY <1>1, <2>1, <2>2 DEF LogIInv, Spaced, Received, Paired
<1> QED BY <1>2, <1>3, <1>4, <1>5, <1>6, <1>7 DEF LogNext

\* The invariant of the log holds however long the simulation runs.
THEOREM LogInvariance == LogSpec => []LogIInv
<1>1. LogInit => LogIInv
  BY LogStart
<1>2. LogIInv /\ [LogNext]_logVars => LogIInv'
  BY LogStep
<1> QED BY <1>1, <1>2, PTL DEF LogSpec

\* When the transmissions of a node are more than three seconds apart, the
\* script counts as successful just those that arrived.
THEOREM PairsRight ==
  ASSUME MinGap > 3
  PROVE  LogSpec => []PairingRight
<1>1. LogIInv => PairingRight
  <2> SUFFICES ASSUME LogIInv, NEW i \in DOMAIN sends
      PROVE  i \in Transmissions <=> arrived[i]
    BY DEF PairingRight
  <2>1. LogTypes /\ Spaced /\ Received
    BY DEF LogIInv
  <2>2. arrived[i] => i \in Transmissions
    BY <2>1 DEF Received, Transmissions
  <2>3. ASSUME i \in Transmissions PROVE arrived[i]
    <3>1. PICK k \in DOMAIN recvs : Paired(sends[i].time, recvs[k])
      BY <2>3 DEF Transmissions
    <3>2. PICK j \in DOMAIN sends : arrived[j] /\ Paired(sends[j].time, recvs[k])
      BY <2>1 DEF Received
    <3>3. /\ i \in Nat /\ j \in Nat /\ MinGap \in Nat /\ recvs[k] \in Nat
          /\ sends[i].time \in Nat /\ sends[j].time \in Nat
      BY <2>1, LogElements, LogAssumption
    <3>4. /\ recvs[k] - sends[i].time <= 3 /\ recvs[k] - sends[i].time >= 0
          /\ recvs[k] - sends[j].time <= 3 /\ recvs[k] - sends[j].time >= 0
      BY <3>1, <3>2 DEF Paired
    <3>5. ~(i < j)
      <4>1. i < j => sends[j].time - sends[i].time >= MinGap
        BY <2>1 DEF Spaced
      <4> QED BY <3>3, <3>4, <4>1
    <3>6. ~(j < i)
      <4>1. j < i => sends[i].time - sends[j].time >= MinGap
        BY <2>1 DEF Spaced
      <4> QED BY <3>3, <3>4, <4>1
    <3>7. i = j
      BY <3>3, <3>5, <3>6
    <3> QED BY <3>2, <3>7
  <2> QED BY <2>2, <2>3
<1> QED BY <1>1, LogInvariance, PTL
=============================================================================
