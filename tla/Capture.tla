------------------------------ MODULE Capture ------------------------------
(***************************************************************************)
(* wortlaut capture: pipeline/capture.py under cli._run_capture, with      *)
(* archive/archiver.WaybackArchiver and archive/retry.with_retry.  For a   *)
(* source the archive does not list yet, a run orders one snapshot with    *)
(* Save Page Now and writes down what became of it; the written row keeps  *)
(* later runs from ordering again before the cool-down is over.            *)
(***************************************************************************)
EXTENDS Ledger

CONSTANTS
  CaptureRuns,       \* the processes that run this pass
  CapturedCooldown,  \* ticks before a captured source may be ordered again
  FailedCooldown,    \* the same for a failed one
  Attempts,          \* attempts of with_retry
  MaxSkew            \* bound: how far a host's clock is ahead of the database's

ASSUME CaptureAssumption ==
  /\ CaptureRuns \subseteq Runs
  /\ CapturedCooldown \in Nat
  /\ FailedCooldown \in Nat
  /\ Attempts \in Nat \ {0}
  /\ MaxSkew \in Nat

VARIABLES
  cap,     \* cap[r]: the state of capture run r
  orders   \* history: the orders the Save Page Now service accepted

captureVars == <<cap, orders>>

CaptureOutcome == {"captured", "already_archived", "failed", "hash_mismatch",
                   "worm_missing", "error"}
CaptureBetween == CaptureOutcome \cup {"selected"}
CaptureBusy == {"hashed", "posting", "ordered", "executed", "settled",
                "flushed"}

\* tries: calls of the attempt function so far; result: the outcome of the row
\* to be written; at: its requested_at.
Cap == [pc : CaptureBetween \cup CaptureBusy \cup {"idle"},
        todo : SUBSET Source, src : Source \cup {None},
        tries : 0..Attempts, result : {"captured", "failed"}, at : Nat]

Order == [src : Source, by : CaptureRuns, at : Nat, try : 1..Attempts]

CaptureTypeOK == cap \in [CaptureRuns -> Cap] /\ orders \subseteq Order

\* A run that has just come to pc: the list left to do and the source in hand.
CaptureFresh(pc, todo, src) ==
  [pc |-> pc, todo |-> todo, src |-> src, tries |-> 0, result |-> "failed",
   at |-> 0]
CaptureIdleRun == CaptureFresh("idle", {}, None)

CaptureInit == cap = [r \in CaptureRuns |-> CaptureIdleRun] /\ orders = {}

CaptureGoto(r, label) == cap' = [cap EXCEPT ![r].pc = label]

Cooldown(outcome) ==
  IF outcome = "captured" THEN CapturedCooldown ELSE FailedCooldown

\* DISTINCT ON (source_id): the last request of s; rows of the same tick may
\* be in either order.
Requests(s) == {q \in request : q.src = s}

\* Mutant: DISTINCT ON is left out; any old row ends the cool-down.
LatestAny(s) == {q \in request : q.src = s}

Latest(s) == {q \in Requests(s) : \A p \in Requests(s) : p.at <= q.at}

\* list_sources_needing_capture.
CapturePending(now) ==
  {s \in source :
     /\ ~Attested(s)
     /\ \/ Requests(s) = {}
        \/ \E q \in Latest(s) : q.at + Cooldown(q.outcome) < now}

\* now is the clock of the run's host, read before the migrations and the
\* bootstrap: as old as they are slow, and ahead of the database's clock by
\* MaxSkew at most.
CaptureSelect(r) ==
  /\ cap[r].pc = "idle"
  /\ \E now \in 0..(clock + MaxSkew) :
       /\ CapturePending(now) # {}
       /\ cap' = [cap EXCEPT ![r] =
                    CaptureFresh("selected", Oldest(CapturePending(now)), None)]
  /\ UNCHANGED <<worldVars, ledgerVars, orders>>

CaptureRead(r, s) ==
  /\ cap[r].pc \in CaptureBetween
  /\ IsFirst(s, cap[r].todo)
  /\ cap' = [cap EXCEPT ![r] = CaptureFresh(CheckBytes(s), @.todo \ {s}, s)]
  /\ UNCHANGED <<worldVars, ledgerVars, orders>>

\* The CDX search: a listed snapshot with our digest makes the order needless.
CaptureLookup(r) ==
  /\ cap[r].pc = "hashed"
  /\ LET s == cap[r].src
     IN CaptureGoto(r, IF Candidates(s.url, Sha1[s.hash]) # {}
                       THEN "already_archived" ELSE "posting")
  /\ UNCHANGED <<worldVars, ledgerVars, orders>>

CaptureLookupError(r) ==
  /\ cap[r].pc = "hashed"
  /\ CaptureGoto(r, "error")
  /\ UNCHANGED <<worldVars, ledgerVars, orders>>

\* One attempt begins with POST /save; the service answers with a job id.
CapturePost(r) ==
  /\ cap[r].pc = "posting"
  /\ cap' = [cap EXCEPT ![r] = [@ EXCEPT !.pc = "ordered",
                                         !.tries = cap[r].tries + 1]]
  /\ orders' = orders \cup {[src |-> cap[r].src, by |-> r, at |-> clock,
                             try |-> cap[r].tries + 1]}
  /\ UNCHANGED <<worldVars, ledgerVars>>

\* The service carries the job out.
CaptureExecute(r) ==
  /\ cap[r].pc = "ordered"
  /\ Archived(cap[r].src.url)
  /\ CaptureGoto(r, "executed")
  /\ UNCHANGED <<ledgerVars, orders>>

\* A poll reports success and names the snapshot.
CaptureSuccess(r) ==
  /\ cap[r].pc = "executed"
  /\ cap' = [cap EXCEPT ![r] = [@ EXCEPT !.pc = "settled",
                                         !.result = "captured"]]
  /\ UNCHANGED <<worldVars, ledgerVars, orders>>

\* Mutant: a poll that ends without an answer passes for a capture.
CapturePermanentOptimistic(r) ==
  /\ cap[r].pc \in {"posting", "ordered", "executed"}
  /\ cap' = [cap EXCEPT ![r] = [@ EXCEPT !.pc = "settled",
                                         !.result = "captured"]]
  /\ UNCHANGED <<worldVars, ledgerVars, orders>>

\* A permanent ArchiveError of the attempt, the poll timeout included: one row
\* failed.  The POST itself may be refused.
CapturePermanent(r) ==
  /\ cap[r].pc \in {"posting", "ordered", "executed"}
  /\ cap' = [cap EXCEPT ![r] = [@ EXCEPT !.pc = "settled",
                                         !.result = "failed"]]
  /\ UNCHANGED <<worldVars, ledgerVars, orders>>

\* Mutant: one attempt too many.
RetryOnceMore(r, n) ==
  cap' = [cap EXCEPT ![r] = [@ EXCEPT !.pc = IF n <= Attempts THEN "posting"
                                                              ELSE "settled",
                                      !.tries = n, !.result = "failed"]]

\* with_retry after a transient error of attempt n: the attempt function is
\* called again, from the POST on, or the error of the last attempt is raised.
Retry(r, n) ==
  cap' = [cap EXCEPT ![r] = [@ EXCEPT !.pc = IF n < Attempts THEN "posting"
                                                             ELSE "settled",
                                      !.tries = n, !.result = "failed"]]

\* The POST does not reach the service, which answers 429 or 5xx or not at all.
CapturePostLost(r) ==
  /\ cap[r].pc = "posting"
  /\ Retry(r, cap[r].tries + 1)
  /\ UNCHANGED <<worldVars, ledgerVars, orders>>

\* A transient error once the service has the order: the answer to the POST is
\* lost, a poll times out or reports a transient status.
CaptureTransient(r) ==
  /\ cap[r].pc \in {"ordered", "executed"}
  /\ Retry(r, cap[r].tries)
  /\ UNCHANGED <<worldVars, ledgerVars, orders>>

\* insert_capture_request: requested_at is the time the transaction begins.
CaptureFlush(r) ==
  /\ cap[r].pc = "settled"
  /\ CanReference(cap[r].src)
  /\ cap' = [cap EXCEPT ![r] = [@ EXCEPT !.pc = "flushed", !.at = clock]]
  /\ Hold("capture", r, cap[r].src, "key share")
  /\ UNCHANGED <<worldVars, wormVars, tableVars, orders>>

CaptureCommit(r) ==
  /\ cap[r].pc = "flushed"
  /\ request' = request \cup {[src |-> cap[r].src, outcome |-> cap[r].result,
                               at |-> cap[r].at, by |-> r]}
  /\ CaptureGoto(r, cap[r].result)
  /\ Release("capture", r)
  /\ UNCHANGED <<worldVars, wormVars, source, created, stamp, attestation,
                 speaker, mandate, span, orders>>

CaptureFinish(r) ==
  /\ cap[r].pc \in CaptureBetween
  /\ cap[r].todo = {}
  /\ cap' = [cap EXCEPT ![r] = CaptureIdleRun]
  /\ UNCHANGED <<worldVars, ledgerVars, orders>>

\* The process dies, an exception other than ArchiveError ends the run, or the
\* circuit breaker stops it; an open transaction is rolled back.
CaptureAbort(r) ==
  /\ cap[r].pc # "idle"
  /\ cap' = [cap EXCEPT ![r] = CaptureIdleRun]
  /\ Release("capture", r)
  /\ UNCHANGED <<worldVars, wormVars, tableVars, orders>>

CaptureStep(r) ==
  \/ \E s \in cap[r].todo : CaptureRead(r, s)
  \/ CaptureLookup(r) \/ CaptureLookupError(r)
  \/ CapturePost(r) \/ CaptureExecute(r) \/ CaptureSuccess(r)
  \/ CapturePermanent(r) \/ CapturePostLost(r) \/ CaptureTransient(r)
  \/ CaptureFlush(r) \/ CaptureCommit(r) \/ CaptureFinish(r)

CaptureNext ==
  \E r \in CaptureRuns : CaptureSelect(r) \/ CaptureStep(r)
=============================================================================
