------------------------------ MODULE Command ------------------------------
(***************************************************************************)
(* cli.py with the archiver it drives: one run of a command; in a run of   *)
(* capture, a source that passed the WORM check and the CDX search is      *)
(* handed to the one WaybackArchiver of the run, whose limiter and HTTP    *)
(* client outlive the call.                                                *)
(***************************************************************************)
EXTENDS PassRun, SavePageNow

VARIABLE posts  \* history: orders posted since a source last ended the streak

commandVars == <<vars, archiverVars, posts>>

CommandInit == Init /\ ArchiverInit /\ posts = 0

\* A source of a capture run is being worked on.
Capturing == pass = "capture" /\ phase = "next" /\ Len(seen) < pending

\* capture_source: every check before the network has passed.
CallArchiver == Capturing /\ StartCall /\ UNCHANGED <<vars, posts>>

ArchiverWorks ==
  /\ Capturing
  /\ CallStep
  /\ posts' = IF call.pc # "posting" /\ call'.pc = "posting" THEN posts + 1 ELSE posts
  /\ UNCHANGED vars

\* Where the call stands when capture_source returns o.
CallOf(o) == CASE o = "captured" -> "archived"
               [] o = "failed"   -> "failed"
               [] OTHER          -> "none"

Outcome(o) ==
  /\ Process(o)
  /\ pass = "capture" => call.pc = CallOf(o)
  /\ call' = NoCall
  /\ posts' = IF o \in Failures[pass] THEN posts ELSE 0
  /\ UNCHANGED <<lastCall, client, sinceTurn>>

\* The probe uses the archiver's client; it may be switched off.
Probe ==
  /\ Preflight
  /\ client' \in BOOLEAN
  /\ UNCHANGED <<call, lastCall, sinceTurn, posts>>

RunStep ==
  /\ NoList \/ DryRun \/ Begin \/ Breaker \/ Finish
  /\ UNCHANGED <<archiverVars, posts>>

\* An exception that is no ArchiveError leaves the loop at any point.
Uncaught == Raise /\ UNCHANGED <<archiverVars, posts>>

Program ==
  \/ RunStep \/ Probe \/ CallArchiver \/ ArchiverWorks
  \/ \E o \in AllOutcomes : Outcome(o)

TimePasses == Capturing /\ Tick /\ UNCHANGED <<vars, posts>>

SaveService == Capturing /\ Service /\ UNCHANGED <<vars, posts>>

CommandNext == Program \/ Uncaught \/ TimePasses \/ SaveService

\* The process runs on, every request ends with an answer or an error (httpx
\* bounds the wait for a connection and for each read and write; that the reads
\* of an answer are finitely many is an assumption), and time passes.  Nothing
\* makes an exception happen: a run does not end by crashing.
CommandSpec ==
  /\ CommandInit /\ [][CommandNext]_commandVars
  /\ WF_commandVars(Program) /\ WF_commandVars(TimePasses)

-----------------------------------------------------------------------------

CommandTypeOK == TypeOK /\ ArchiverTypeOK /\ posts \in Nat

\* Between two sources that end the streak of failures, a run posts no more than
\* limit times Attempts orders before the breaker stops it, in whatever way they
\* fail: errors in CDX searches, lost POSTs and polls without an end.
BreakerBoundsPosts == limit > 0 => posts <= limit * Attempts

\* Every run ends, even if the archive answers "pending" for ever or the
\* network loses every answer.
RunEnds == <>(phase = "done")

\* How a call looks to capture.
CallSeen == INSTANCE ArchiveCall WITH
  stage <- IF call.pc \in Ended \cup {"none"} THEN call.pc
           ELSE [none |-> "posting", taken |-> "ordered", done |-> "executed"][call.job],
  tries <- IF call.job = "none" THEN call.attempt ELSE call.attempt + 1

\* The archiver keeps the promise capture is built on: no order too many, no
\* "archived" without an order that was carried out, no error final too early.
KeepsCall == CallSeen!Spec
=============================================================================
