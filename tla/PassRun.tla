------------------------------ MODULE PassRun ------------------------------
(***************************************************************************)
(* One run of a command as cli.py drives it: the list of sources (those    *)
(* the adapter of ingest discovers, or those still pending), the outcome of*)
(* each, the stats, the circuit breaker and the exit code the operator acts*)
(* on.  What a pass does with a source is the business of its own module;  *)
(* here it is only an outcome.                                             *)
(***************************************************************************)
EXTENDS Naturals, Sequences

CONSTANTS
  MaxPending,  \* bound: sources in the list of a run
  Limits       \* values of consecutive_failure_limit, 0 switches it off

ASSUME PassRunAssumption == MaxPending \in Nat /\ Limits \subseteq Nat

VARIABLES
  pass,     \* which command runs
  limit,    \* its consecutive_failure_limit
  pending,  \* how many sources the run has selected
  seen,     \* history: the outcomes so far, in order
  count,    \* the counters of the stats object
  streak,   \* its consecutive failures
  phase,    \* "list", "preflight", "next", "record" (an outcome is in hand)
            \* or "done"
  exit      \* exit code; Running until there is one

vars == <<pass, limit, pending, seen, count, streak, phase, exit>>

Running == 99
\* An exception no handler catches ends the interpreter.
Traceback == 98

Passes == {"ingest", "timestamp", "capture", "attest", "reparse"}

Common == {"hash_mismatch", "worm_missing"}
Outcomes == [ingest    |-> {"inserted", "skipped_duplicate", "fetch_error"},
             timestamp |-> Common \cup {"stamped", "tsa_failed"},
             capture   |-> Common \cup {"captured", "already_archived", "failed", "error"},
             attest    |-> Common \cup {"attested", "no_matching_snapshot",
                             "snapshot_unavailable", "bytes_mismatch", "error"},
             reparse   |-> Common \cup {"reparsed", "still_empty", "no_text",
                             "skipped_has_spans", "error"}]
AllOutcomes == UNION {Outcomes[p] : p \in Passes}

\* The outcomes that lengthen the streak; ingest and reparse have no breaker.
Failures == [ingest |-> {}, timestamp |-> {"tsa_failed"},
             capture |-> {"failed", "error"}, attest |-> {"error"},
             reparse |-> {}]
\* The outcomes that are an alarm.
Alarms == [ingest |-> {}, timestamp |-> {"hash_mismatch"},
           capture |-> {"hash_mismatch"},
           attest |-> {"hash_mismatch", "bytes_mismatch"},
           reparse |-> {"hash_mismatch"}]

TypeOK ==
  /\ pass \in Passes
  /\ limit \in Limits
  /\ pending \in 0..MaxPending
  /\ seen \in Seq(AllOutcomes)
  /\ count \in [AllOutcomes -> Nat]
  /\ streak \in Nat
  /\ phase \in {"list", "preflight", "next", "record", "done"}
  /\ exit \in {0, 1, 2, 3, 4, Traceback, Running}
  /\ exit = 2 => pass = "ingest"

Init ==
  /\ pass \in Passes
  /\ limit \in Limits
  /\ pending \in 0..MaxPending
  /\ seen = <<>>
  /\ count = [o \in AllOutcomes |-> 0]
  /\ streak = 0
  /\ phase = "list"
  /\ exit = Running

Stop(code) == phase' = "done" /\ exit' = code

\* ingest has no list: the adapter cannot discover, or a source has no legal
\* basis; then nothing is stored, whatever else was discovered.
NoList ==
  /\ phase = "list"
  /\ pass = "ingest"
  /\ Stop(2)
  /\ UNCHANGED <<pass, limit, pending, seen, count, streak>>

\* --dry-run prints the length of the list before anything else is done.
DryRun ==
  /\ phase = "list"
  /\ Stop(0)
  /\ UNCHANGED <<pass, limit, pending, seen, count, streak>>

Begin ==
  /\ phase = "list"
  /\ phase' = IF pass = "capture" THEN "preflight" ELSE "next"
  /\ UNCHANGED <<pass, limit, pending, seen, count, streak, exit>>

\* capture asks the archive first whether it is up.
Preflight ==
  /\ phase = "preflight"
  /\ \/ phase' = "next" /\ UNCHANGED exit
     \/ Stop(3)
  /\ UNCHANGED <<pass, limit, pending, seen, count, streak>>

\* The next source is worked on, and record books its outcome.
Process(o) ==
  /\ phase = "next"
  /\ Len(seen) < pending
  /\ o \in Outcomes[pass]
  /\ seen' = Append(seen, o)
  /\ count' = [count EXCEPT ![o] = @ + 1]
  /\ streak' = IF o \in Failures[pass] THEN streak + 1 ELSE 0
  /\ phase' = "record"
  /\ UNCHANGED <<pass, limit, pending, exit>>

\* Mutant: off by one.
TrippedLate == 0 < limit /\ limit < streak

Tripped == 0 < limit /\ limit <= streak

\* The breaker is asked after every source.
Breaker ==
  /\ phase = "record"
  /\ IF Tripped THEN Stop(3) ELSE phase' = "next" /\ UNCHANGED exit
  /\ UNCHANGED <<pass, limit, pending, seen, count, streak>>

Counted(O) == \E o \in O : count[o] > 0

\* Mutant: the number of errors is the exit code.
ExitCodeCounting ==
  IF Counted(Alarms[pass]) THEN 4 ELSE count["error"]

\* Mutant: the error goes before the alarm.
ExitCodeErrorFirst ==
  IF pass # "timestamp" /\ Counted({"error"}) THEN 1
  ELSE IF Counted(Alarms[pass]) THEN 4 ELSE 0

\* The list is done: an alarm goes before an error.  timestamp has no error,
\* and a fetch_error of ingest is none: its run ends with 0.
ExitCode ==
  IF Counted(Alarms[pass]) THEN 4
  ELSE IF pass # "timestamp" /\ Counted({"error"}) THEN 1 ELSE 0

Finish ==
  /\ phase = "next"
  /\ Len(seen) = pending
  /\ Stop(ExitCode)
  /\ UNCHANGED <<pass, limit, pending, seen, count, streak>>

\* The pass raises: the store, the database or a bug.
Raise ==
  /\ phase = "next"
  /\ Len(seen) < pending
  /\ Stop(Traceback)
  /\ UNCHANGED <<pass, limit, pending, seen, count, streak>>

Next ==
  \/ NoList \/ DryRun \/ Begin \/ Preflight
  \/ \E o \in AllOutcomes : Process(o)
  \/ Breaker \/ Finish \/ Raise

Spec == Init /\ [][Next]_vars

-----------------------------------------------------------------------------

Happened(O) == \E i \in 1..Len(seen) : seen[i] \in O

\* The last n outcomes are failures.
FailedLast(n) ==
  /\ n <= Len(seen)
  /\ \A i \in (Len(seen) - n + 1)..Len(seen) : seen[i] \in Failures[pass]

\* The breaker never lets more than limit sources in a row fail, and it stops
\* a run for no other reason.
BreakerExact ==
  limit > 0 =>
    /\ ~FailedLast(limit + 1)
    /\ phase = "next" => ~FailedLast(limit)
    /\ (exit = 3 /\ seen # <<>>) => FailedLast(limit)

\* The exit code tells the truth.  0 is the all-clear: every selected source has
\* been worked on (but for --dry-run), none raised an alarm, none ended in an
\* error.  1 and 4 are an error and an alarm of a run that went through its whole
\* list, and an alarm never ends on the code for an ordinary error.
ExitCodeTrue ==
  /\ exit = 0 => ~Happened(Alarms[pass] \cup {"error"})
  /\ exit = 1 => Happened({"error"}) /\ ~Happened(Alarms[pass])
  /\ exit = 4 => Happened(Alarms[pass])
  /\ exit \in {0, 1, 4} => seen = <<>> \/ Len(seen) = pending

\* betrieb.md and the specs of the passes: a run in which bytes did not match
\* the ledger hash ends with exit 4.
AlarmExits ==
  (Happened(Alarms[pass]) /\ exit # Running) => exit \in {4, Traceback}
=============================================================================
