--------------------------- MODULE ResultExtraction ---------------------------
(***************************************************************************)
(* extract_data.py: what the script makes of the log of a simulation, for  *)
(* one node and one direction.  The log grows as the simulation runs; the  *)
(* script may be run on it at any time.  Times are whole seconds.          *)
(***************************************************************************)
EXTENDS Integers, Sequences, FiniteSets

CONSTANTS
  MinGap,   \* least time between two transmissions of the node
  Chosen,   \* settings that the ADR algorithm logs
  MaxTime,  \* bound: seconds simulated
  MaxRows   \* bound: times that the ADR algorithm succeeds

ASSUME LogAssumption ==
  /\ MinGap \in Nat \ {0} /\ MaxTime \in Nat /\ MaxRows \in Nat
  /\ Chosen \subseteq [dr : 0 .. 5, tx : 0 .. 7]

VARIABLES
  state,  \* of the parser: "BUILD", "LOCATIONS" or "MAIN"
  down,   \* the direction: dnlink_sends and dnlink_recvs, or uplink_
  sends,  \* times, and for a downlink the receive window
  recvs,  \* times
  rows,   \* adr_ns_success: time, data rate and power
  now,    \* ghost: time of the simulation
  arrived \* ghost: whether each transmission arrived

logVars == <<state, down, sends, recvs, rows, now, arrived>>

-----------------------------------------------------------------------------
Start == [dr |-> 0, tx |-> 0]
Windows == IF down THEN {"RW1", "RW2"} ELSE {"uplink"}
Last == Len(rows)
Row(e) == [dr |-> rows[e].dr, tx |-> rows[e].tx]

LogInit ==
  /\ state = "BUILD" /\ down \in BOOLEAN
  /\ sends = <<>> /\ recvs = <<>> /\ rows = <<>>
  /\ now = 0 /\ arrived = <<>>

\* Nothing is recorded before the locations have been listed.
Locations ==
  /\ \/ state = "BUILD" /\ state' = "LOCATIONS"
     \/ state = "LOCATIONS" /\ state' = "MAIN"
  /\ UNCHANGED <<down, sends, recvs, rows, now, arrived>>

Tick ==
  /\ state = "MAIN" /\ now < MaxTime
  /\ now' = now + 1
  /\ UNCHANGED <<state, down, sends, recvs, rows, arrived>>

Send(rw) ==
  /\ state = "MAIN"
  /\ sends # <<>> => now - sends[Len(sends)].time >= MinGap
  /\ sends' = Append(sends, [time |-> now, rw |-> rw])
  /\ arrived' = Append(arrived, FALSE)
  /\ UNCHANGED <<state, down, recvs, rows, now>>

\* A frame is on the air for less than three seconds.
Receive ==
  /\ state = "MAIN" /\ sends # <<>>
  /\ ~arrived[Len(arrived)] /\ now - sends[Len(sends)].time <= 3
  /\ recvs' = Append(recvs, now)
  /\ arrived' = [arrived EXCEPT ![Len(arrived)] = TRUE]
  /\ UNCHANGED <<state, down, sends, rows, now>>

AdrSuccess(s) ==
  /\ state = "MAIN" /\ Len(rows) < MaxRows
  /\ rows' = Append(rows, [time |-> now, dr |-> s.dr, tx |-> s.tx])
  /\ UNCHANGED <<state, down, sends, recvs, now, arrived>>

LogNext ==
  \/ Locations \/ Tick \/ Receive
  \/ \E rw \in Windows : Send(rw)
  \/ \E s \in Chosen : AdrSuccess(s)
LogSpec == LogInit /\ [][LogNext]_logVars

-----------------------------------------------------------------------------
(***************************************************************************)
(* What the script computes.                                               *)
(***************************************************************************)
\* Mutant: an earlier reception counts as well.
PairedEither(s, r) == r - s <= 3
Paired(s, r) == r - s <= 3 /\ r - s >= 0
Transmissions == {i \in DOMAIN sends :
                    \E k \in DOMAIN recvs : Paired(sends[i].time, recvs[k])}

BeforeFirst(t) == IF down THEN t <= rows[1].time ELSE t < rows[1].time
\* The rows are gone through up to the first that fits; the third condition
\* compares the time of a row with itself.
Fits(t, e) ==
  \/ e = Last
  \/ e = 1 /\ BeforeFirst(t)
  \/ t > rows[e].time /\ t <= rows[e].time
Attributed(i) ==
  LET t == sends[i].time
      found == {e \in DOMAIN rows : Fits(t, e) /\ \A d \in 1 .. e - 1 : ~Fits(t, d)}
  IN  IF found = {} \/ sends[i].rw = "RW2" THEN Start
      ELSE LET e == CHOOSE e \in found : TRUE
           IN  IF e # Last /\ e = 1 /\ BeforeFirst(t) THEN Start ELSE Row(e)

-----------------------------------------------------------------------------
\* Transmissions more than three seconds apart are told apart: one counts as
\* successful exactly if it arrived, however many others were lost.
PairingRight == \A i \in DOMAIN sends : i \in Transmissions <=> arrived[i]

\* What the comment at the top of the script promises: a transmission and its
\* reception, between two changes of the settings, get those of the first.  It
\* does not hold: they get those of the last (README, section 4).
AttributedByTime ==
  \A i \in Transmissions, e \in 1 .. Last - 1 :
    /\ ~down
    /\ rows[e].time < sends[i].time /\ sends[i].time + 3 < rows[e + 1].time
    => Attributed(i) = Row(e)
===============================================================================
