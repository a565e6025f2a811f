---------------------------- MODULE CaptureProofs ----------------------------
(***************************************************************************)
(* What capture writes down and when it comes back: a captured row is      *)
(* backed by an order and a snapshot, the cool-down is kept by every run,  *)
(* a run does with the archiver only what the archiver promises, and the   *)
(* orders placed are bounded by the rows, the crashes, the runs at work.   *)
(***************************************************************************)
EXTENDS PipelineProofs, FiniteSetTheorems

\* Time never runs backwards, and no order is forgotten.
LEMMA TimeGrows ==
  ASSUME IInv, [Next]_vars
  PROVE  /\ clock \in Nat /\ clock' \in Nat /\ clock <= clock'
         /\ orders \subseteq orders'
<1>1. clock \in Nat
  BY DEF IInv, Tables, WorldTypeOK
<1>2. \/ UNCHANGED <<clock, orders>>
      \/ Tick /\ UNCHANGED orders
      \/ \E r \in CaptureRuns : CapturePost(r)
  <2>1. IngestMoves => UNCHANGED <<clock, orders>>
    BY DEF IngestMoves, IngestNext, IngestStep, IngestFetch, IngestDedup, IngestPut,
       IngestFlush, IngestCommit, IngestConflict, IngestAbort, worldVars,
       captureVars
  <2>2. TimestampMoves => UNCHANGED <<clock, orders>>
    BY DEF TimestampMoves, TimestampNext, StampStep, StampSelect, StampRead,
       StampAsk, StampFail, StampPut, StampFlush, StampCommit, StampConflict,
       StampFinish, StampAbort, worldVars, captureVars
  <2>3. AttestMoves => UNCHANGED <<clock, orders>>
    BY DEF AttestMoves, AttestNext, AttestStep, AttestSelect, AttestRead,
       AttestLookup, AttestError, AttestFetch, AttestFetchNone, AttestGiveUp,
       AttestFlush, AttestCommit, AttestConflict, AttestFinish, AttestAbort,
       worldVars, captureVars
  <2>4. ReparseMoves => UNCHANGED <<clock, orders>>
    BY DEF ReparseMoves, ReparseNext, ReparseStep, ReparseSelect, ReparseRead,
       ReparseLock, ReparseRecheck, ReparseParse, ReparseParseFails, ReparseSkip,
       ReparseResolve, ReparseInsert, ReparseRefused, ReparseCommit,
       ReparseError, ReparseFinish, ReparseAbort, worldVars, captureVars
  <2>5. CaptureMoves => \/ UNCHANGED <<clock, orders>>
                        \/ \E r \in CaptureRuns : CapturePost(r)
    BY DEF CaptureMoves, CaptureNext, CaptureStep, CaptureSelect, CaptureRead,
       CaptureLookup, CaptureLookupError, CaptureExecute, Archived,
       CaptureSuccess, CapturePermanent, CapturePostLost, CaptureTransient,
       CaptureFlush, CaptureCommit, CaptureFinish, CaptureAbort, worldVars
  <2>6. (Surroundings \/ UNCHANGED <<worldVars, ledgerVars>>)
          /\ UNCHANGED <<ing, tsr, captureVars, att, rep>>
          => (UNCHANGED <<clock, orders>>) \/ (Tick /\ UNCHANGED orders)
    BY DEF Surroundings, WorldNext, Publish, Archived, Index, Tick, worldVars,
       captureVars
  <2> QED BY <2>1, <2>2, <2>3, <2>4, <2>5, <2>6, StepCases
<1>3. Tick => clock' = clock + 1
  BY DEF Tick
<1>4. \A r \in CaptureRuns : CapturePost(r) =>
        UNCHANGED clock /\ orders \subseteq orders'
  BY DEF CapturePost, worldVars
<1> QED BY <1>1, <1>2, <1>3, <1>4

\* If the state of a run has changed, the run has taken a step.
LEMMA CaptureStepped ==
  ASSUME IInv, [Next]_vars, NEW r \in CaptureRuns, cap'[r] # cap[r]
  PROVE  /\ CaptureMoves /\ cap \in [CaptureRuns -> Cap] /\ r \in Runs
         /\ CaptureHand(r) /\ Tables
         /\ CaptureSelect(r) \/ CaptureStep(r) \/ CaptureAbort(r)
<1>1. /\ cap \in [CaptureRuns -> Cap] /\ CaptureHand(r) /\ Tables /\ r \in Runs
  BY CaptureAssumption DEF IInv, CaptureInv, CaptureTypeOK
<1>2. CaptureMoves
  BY StepCases DEF IngestMoves, TimestampMoves, ReparseMoves, AttestMoves,
     captureVars
<1>3. PICK p \in CaptureRuns : CaptureSelect(p) \/ CaptureStep(p) \/ CaptureAbort(p)
  BY <1>2 DEF CaptureMoves, CaptureNext
<1>4. \E new : cap' = [cap EXCEPT ![p] = new]
  BY <1>3 DEF CaptureSelect, CaptureStep, CaptureRead, CaptureLookup,
     CaptureLookupError, CapturePost, CaptureExecute, CaptureSuccess,
     CapturePermanent, CapturePostLost, CaptureTransient, CaptureFlush,
     CaptureCommit, CaptureFinish, CaptureAbort, CaptureGoto, Retry
<1>5. p = r
  BY <1>1, <1>4
<1> QED BY <1>1, <1>2, <1>3, <1>5

\* The same, one step after the other: where it leads, and what it keeps.
CaptureFrom(r, before, after) ==
  /\ cap[r].pc \in before /\ cap'[r].pc \in after
  /\ cap'[r].todo = cap[r].todo /\ cap'[r].src = cap[r].src

CaptureMoved(r) ==
  \/ CaptureFinish(r)
  \/ \E s \in cap[r].todo : CaptureRead(r, s)
  \/ /\ CaptureLookup(r) \/ CaptureLookupError(r)
     /\ CaptureFrom(r, {"hashed"}, {"already_archived", "posting", "error"})
     /\ cap'[r].tries = cap[r].tries
  \/ CapturePost(r) /\ CaptureFrom(r, {"posting"}, {"ordered"})
       /\ cap'[r].tries = cap[r].tries + 1
  \/ CaptureExecute(r) /\ CaptureFrom(r, {"ordered"}, {"executed"})
       /\ cap'[r].tries = cap[r].tries
  \/ CaptureSuccess(r) /\ CaptureFrom(r, {"executed"}, {"settled"})
       /\ cap'[r].result = "captured" /\ cap'[r].tries = cap[r].tries
  \/ /\ CapturePermanent(r)
     /\ CaptureFrom(r, {"posting", "ordered", "executed"}, {"settled"})
     /\ cap'[r].result = "failed" /\ cap'[r].tries = cap[r].tries
  \/ /\ CapturePostLost(r)
     /\ CaptureFrom(r, {"posting"}, {"posting", "settled"})
     /\ cap'[r].result = "failed" /\ cap'[r].tries = cap[r].tries + 1
     /\ cap'[r].pc = IF cap'[r].tries < Attempts THEN "posting" ELSE "settled"
  \/ /\ CaptureTransient(r)
     /\ CaptureFrom(r, {"ordered", "executed"}, {"posting", "settled"})
     /\ cap'[r].result = "failed" /\ cap'[r].tries = cap[r].tries
     /\ cap'[r].pc = IF cap'[r].tries < Attempts THEN "posting" ELSE "settled"
  \/ CaptureFlush(r) /\ CaptureFrom(r, {"settled"}, {"flushed"})
       /\ cap'[r].result = cap[r].result /\ cap'[r].at = clock
       /\ cap'[r].tries = cap[r].tries
  \/ CaptureCommit(r) /\ CaptureFrom(r, {"flushed"}, {"captured", "failed"})

LEMMA CaptureStepCases ==
  ASSUME cap \in [CaptureRuns -> Cap], NEW r \in CaptureRuns, CaptureStep(r)
  PROVE  CaptureMoved(r)
<1>1. cap[r] \in Cap
  OBVIOUS
<1>2. ASSUME NEW new, cap' = [cap EXCEPT ![r] = new]
      PROVE  cap'[r] = new
  BY <1>1, <1>2
<1>3. ASSUME NEW label, CaptureGoto(r, label)
      PROVE  /\ cap'[r].pc = label /\ cap'[r].todo = cap[r].todo
             /\ cap'[r].src = cap[r].src /\ cap'[r].tries = cap[r].tries
             /\ cap'[r].result = cap[r].result /\ cap'[r].at = cap[r].at
  <2>1. cap'[r] = [cap[r] EXCEPT !.pc = label]
    BY <1>1, <1>3 DEF CaptureGoto
  <2> QED BY <1>1, <2>1 DEF Cap
<1>4. ASSUME CaptureLookup(r) \/ CaptureLookupError(r)
      PROVE  /\ CaptureFrom(r, {"hashed"}, {"already_archived", "posting", "error"})
             /\ cap'[r].tries = cap[r].tries
  <2>1. PICK l \in {"already_archived", "posting", "error"} : CaptureGoto(r, l)
    BY <1>4 DEF CaptureLookup, CaptureLookupError
  <2>2. cap[r].pc = "hashed"
    BY <1>4 DEF CaptureLookup, CaptureLookupError
  <2> QED BY <1>3, <2>1, <2>2 DEF CaptureFrom
<1>5. ASSUME CapturePost(r)
      PROVE  /\ CaptureFrom(r, {"posting"}, {"ordered"})
             /\ cap'[r].tries = cap[r].tries + 1
  <2>1. cap'[r] = [cap[r] EXCEPT !.pc = "ordered", !.tries = cap[r].tries + 1]
    BY <1>1, <1>5 DEF CapturePost
  <2> QED BY <1>1, <1>5, <2>1 DEF CaptureFrom, CapturePost, Cap
<1>6. ASSUME CaptureExecute(r)
      PROVE  /\ CaptureFrom(r, {"ordered"}, {"executed"})
             /\ cap'[r].tries = cap[r].tries
  BY <1>3, <1>6 DEF CaptureFrom, CaptureExecute
<1>7. ASSUME CaptureSuccess(r)
      PROVE  /\ CaptureFrom(r, {"executed"}, {"settled"})
             /\ cap'[r].result = "captured" /\ cap'[r].tries = cap[r].tries
  <2>1. cap'[r] = [cap[r] EXCEPT !.pc = "settled", !.result = "captured"]
    BY <1>1, <1>7 DEF CaptureSuccess
  <2> QED BY <1>1, <1>7, <2>1 DEF CaptureFrom, CaptureSuccess, Cap
<1>8. ASSUME CapturePermanent(r)
      PROVE  /\ CaptureFrom(r, {"posting", "ordered", "executed"}, {"settled"})
             /\ cap'[r].result = "failed" /\ cap'[r].tries = cap[r].tries
  <2>1. cap'[r] = [cap[r] EXCEPT !.pc = "settled", !.result = "failed"]
    BY <1>1, <1>8 DEF CapturePermanent
  <2> QED BY <1>1, <1>8, <2>1 DEF CaptureFrom, CapturePermanent, Cap
<1>9. ASSUME NEW n, Retry(r, n)
      PROVE  /\ cap'[r].tries = n /\ cap'[r].result = "failed"
             /\ cap'[r].pc = IF n < Attempts THEN "posting" ELSE "settled"
             /\ cap'[r].todo = cap[r].todo /\ cap'[r].src = cap[r].src
  <2>1. cap'[r] = [cap[r] EXCEPT !.pc = IF n < Attempts THEN "posting"
                                                        ELSE "settled",
                                 !.tries = n, !.result = "failed"]
    BY <1>1, <1>9 DEF Retry
  <2> QED BY <1>1, <2>1 DEF Cap
<1>10. ASSUME CapturePostLost(r)
       PROVE  /\ CaptureFrom(r, {"posting"}, {"posting", "settled"})
              /\ cap'[r].result = "failed" /\ cap'[r].tries = cap[r].tries + 1
              /\ cap'[r].pc = IF cap'[r].tries < Attempts THEN "posting" ELSE "settled"
  BY <1>9, <1>10 DEF CaptureFrom, CapturePostLost
<1>11. ASSUME CaptureTransient(r)
       PROVE  /\ CaptureFrom(r, {"ordered", "executed"}, {"posting", "settled"})
              /\ cap'[r].result = "failed" /\ cap'[r].tries = cap[r].tries
              /\ cap'[r].pc = IF cap'[r].tries < Attempts THEN "posting" ELSE "settled"
  BY <1>9, <1>11 DEF CaptureFrom, CaptureTransient
<1>12. ASSUME CaptureFlush(r)
       PROVE  /\ CaptureFrom(r, {"settled"}, {"flushed"})
              /\ cap'[r].result = cap[r].result /\ cap'[r].at = clock
              /\ cap'[r].tries = cap[r].tries
  <2>1. cap'[r] = [cap[r] EXCEPT !.pc = "flushed", !.at = clock]
    BY <1>1, <1>12 DEF CaptureFlush
  <2> QED BY <1>1, <1>12, <2>1 DEF CaptureFrom, CaptureFlush, Cap
<1>13. ASSUME CaptureCommit(r)
       PROVE  CaptureFrom(r, {"flushed"}, {"captured", "failed"})
  <2>1. cap[r].result \in {"captured", "failed"}
    BY <1>1 DEF Cap
  <2> QED BY <1>3, <1>13, <2>1 DEF CaptureFrom, CaptureCommit
<1> QED BY <1>4, <1>5, <1>6, <1>7, <1>8, <1>10, <1>11, <1>12, <1>13
        DEF CaptureStep, CaptureMoved

LEMMA CaptureCases ==
  ASSUME IInv, [Next]_vars, NEW r \in CaptureRuns, cap'[r] # cap[r]
  PROVE  CaptureSelect(r) \/ CaptureAbort(r) \/ CaptureMoved(r)
  BY CaptureStepped, CaptureStepCases

\* A row of capture_request is written by the commit of a run, and only there.
LEMMA RequestCases ==
  ASSUME [Next]_vars
  PROVE  request' = request \/ \E r \in CaptureRuns : CaptureCommit(r)
<1>1. CASE IngestMoves
  BY <1>1 DEF IngestMoves, IngestNext, IngestStep, IngestFetch, IngestDedup,
     IngestPut, IngestFlush, IngestCommit, IngestConflict, IngestAbort,
     ledgerVars, tableVars
<1>2. CASE TimestampMoves
  BY <1>2 DEF TimestampMoves, TimestampNext, StampStep, StampSelect, StampRead,
     StampAsk, StampFail, StampPut, StampFlush, StampCommit, StampConflict,
     StampFinish, StampAbort, ledgerVars, tableVars
<1>3. CASE AttestMoves
  BY <1>3 DEF AttestMoves, AttestNext, AttestStep, AttestSelect, AttestRead,
     AttestLookup, AttestError, AttestFetch, AttestFetchNone, AttestGiveUp,
     AttestFlush, AttestCommit, AttestConflict, AttestFinish, AttestAbort,
     ledgerVars, tableVars
<1>4. CASE ReparseMoves
  BY <1>4 DEF ReparseMoves, ReparseNext, ReparseStep, ReparseSelect, ReparseRead,
     ReparseLock, ReparseRecheck, ReparseParse, ReparseParseFails, ReparseSkip,
     ReparseResolve, ReparseInsert, ReparseRefused, ReparseCommit, ReparseError,
     ReparseFinish, ReparseAbort, ledgerVars, tableVars
<1>5. CASE CaptureMoves
  BY <1>5 DEF CaptureMoves, CaptureNext, CaptureStep, CaptureSelect, CaptureRead,
     CaptureLookup, CaptureLookupError, CapturePost, CaptureExecute,
     CaptureSuccess, CapturePermanent, CapturePostLost, CaptureTransient,
     CaptureFlush, CaptureFinish, CaptureAbort, ledgerVars, tableVars
<1>6. CASE Surroundings \/ UNCHANGED <<worldVars, ledgerVars>>
  BY <1>6 DEF Surroundings, WormNext, WormFault, WormRepaired, ledgerVars,
     tableVars
<1> QED BY <1>1, <1>2, <1>3, <1>4, <1>5, <1>6, StepCases

\* The row a commit writes.
RowInHand(r) == [src |-> cap[r].src, outcome |-> cap[r].result,
                 at |-> cap[r].at, by |-> r]

LEMMA CommitRow ==
  ASSUME NEW r \in CaptureRuns, CaptureCommit(r)
  PROVE  cap[r].pc = "flushed" /\ request' = request \cup {RowInHand(r)}
  BY DEF CaptureCommit, RowInHand

\* What a reading run does with its list, and what an idle one has.
LEMMA ReadStart ==
  ASSUME cap \in [CaptureRuns -> Cap], NEW r \in CaptureRuns,
         NEW s \in cap[r].todo, CaptureRead(r, s)
  PROVE  /\ cap'[r] = CaptureFresh(CheckBytes(s), cap[r].todo \ {s}, s)
         /\ cap'[r].pc \in {"hashed", "hash_mismatch", "worm_missing"}
         /\ cap'[r].src = s /\ cap'[r].todo = cap[r].todo \ {s}
         /\ cap'[r].tries = 0
<1>1. cap'[r] = CaptureFresh(CheckBytes(s), cap[r].todo \ {s}, s)
  BY DEF CaptureRead
<1>2. CheckBytes(s) \in {"hashed", "hash_mismatch", "worm_missing"}
  BY DEF CheckBytes
<1> QED BY <1>1, <1>2 DEF CaptureFresh

LEMMA NothingInHand ==
  ASSUME cap \in [CaptureRuns -> Cap], NEW r \in CaptureRuns,
         CaptureSelect(r) \/ CaptureFinish(r) \/ CaptureAbort(r)
  PROVE  /\ cap'[r].pc \in {"idle", "selected"} /\ cap'[r].tries = 0
         /\ cap'[r].pc = "selected" =>
              \E now \in 0..(clock + MaxSkew) :
                cap'[r].todo \subseteq CapturePending(now)
         /\ cap'[r].pc = "idle" => cap'[r].todo = {}
<1>1. CASE CaptureSelect(r)
  <2>1. PICK now \in 0..(clock + MaxSkew) :
          cap' = [cap EXCEPT ![r] =
                    CaptureFresh("selected", Oldest(CapturePending(now)), None)]
    BY <1>1 DEF CaptureSelect
  <2>2. cap'[r] = CaptureFresh("selected", Oldest(CapturePending(now)), None)
    BY <2>1
  <2>3. Oldest(CapturePending(now)) \subseteq CapturePending(now)
    BY DEF Oldest
  <2> QED BY <2>2, <2>3 DEF CaptureFresh
<1>2. CASE CaptureFinish(r) \/ CaptureAbort(r)
  <2>1. cap'[r] = CaptureIdleRun
    BY <1>2 DEF CaptureFinish, CaptureAbort
  <2> QED BY <2>1 DEF CaptureIdleRun, CaptureFresh
<1> QED BY <1>1, <1>2

-----------------------------------------------------------------------------
(* Captured rows *)

\* Run r has an order accepted for the source in hand, not later than the row
\* it will write; and the archive has a snapshot of its URL.
Ordered(r) ==
  \E o \in orders : /\ o.src = cap[r].src /\ o.by = r
                    /\ o.at <= IF cap[r].pc = "flushed" THEN cap[r].at ELSE clock
Snapped(r) == \E c \in snaps : c.url = cap[r].src.url
Captured(r) == cap[r].pc \in {"settled", "flushed"} /\ cap[r].result = "captured"

BackedHand(r) ==
  /\ cap[r].pc \in {"ordered", "executed"} \/ Captured(r) => Ordered(r)
  /\ cap[r].pc = "executed" \/ Captured(r) => Snapped(r)

BackedInv == CapturedBacked /\ \A r \in CaptureRuns : BackedHand(r)

LEMMA BackedHandStep ==
  ASSUME IInv, [Next]_vars, NEW r \in CaptureRuns, BackedHand(r)
  PROVE  BackedHand(r)'
<1>1. /\ clock \in Nat /\ clock' \in Nat /\ clock <= clock'
      /\ orders \subseteq orders' /\ snaps \subseteq snaps'
      /\ \A o \in orders : o.at \in Nat
  BY TimeGrows, Growth DEF Growing, IInv, CaptureInv, CaptureTypeOK, Order
<1>2. CASE cap'[r] = cap[r]
  BY <1>1, <1>2 DEF BackedHand, Ordered, Snapped, Captured
<1>3. CASE cap'[r] # cap[r]
  <2>1. cap \in [CaptureRuns -> Cap] /\ cap[r] \in Cap
    BY <1>3, CaptureStepped
  <2>2. CASE cap'[r].pc \notin {"ordered", "executed", "settled", "flushed"}
    BY <2>2 DEF BackedHand, Captured
  <2>3. CASE cap'[r].pc = "settled" /\ cap'[r].result = "failed"
    BY <2>3 DEF BackedHand, Captured
  <2>4. CASE CapturePost(r) /\ CaptureFrom(r, {"posting"}, {"ordered"})
    <3> DEFINE o == [src |-> cap[r].src, by |-> r, at |-> clock,
                     try |-> cap[r].tries + 1]
    <3>1. o \in orders'
      BY <2>4 DEF CapturePost
    <3>2. o.src = cap'[r].src /\ o.by = r /\ o.at <= clock'
      BY <1>1, <2>4 DEF CaptureFrom
    <3> HIDE DEF o
    <3> QED BY <2>4, <3>1, <3>2 DEF BackedHand, Ordered, Captured, CaptureFrom
  <2>5. CASE CaptureExecute(r) /\ CaptureFrom(r, {"ordered"}, {"executed"})
    <3> DEFINE c == [url |-> cap[r].src.url, bytes |-> live[cap[r].src.url]]
    <3>1. c \in snaps' /\ c.url = cap'[r].src.url
      BY <2>5 DEF CaptureExecute, Archived, CaptureFrom
    <3>2. Ordered(r)
      BY <2>5 DEF BackedHand, CaptureFrom
    <3> HIDE DEF c
    <3> QED BY <1>1, <2>5, <3>1, <3>2
            DEF BackedHand, Ordered, Snapped, Captured, CaptureFrom
  <2>6. CASE CaptureFrom(r, {"executed"}, {"settled"})
    <3>1. Ordered(r) /\ Snapped(r)
      BY <2>6 DEF BackedHand, CaptureFrom
    <3> QED BY <1>1, <2>6, <3>1 DEF BackedHand, Ordered, Snapped, Captured,
               CaptureFrom
  <2>7. CASE CaptureFrom(r, {"settled"}, {"flushed"})
               /\ cap'[r].result = cap[r].result /\ cap'[r].at = clock
    <3>1. Captured(r) => Ordered(r) /\ Snapped(r)
      BY DEF BackedHand
    <3> QED BY <1>1, <2>7, <3>1 DEF BackedHand, Ordered, Snapped, Captured,
               CaptureFrom
  <2>8. CASE CaptureSelect(r) \/ CaptureFinish(r) \/ CaptureAbort(r)
    BY <2>1, <2>2, <2>8, NothingInHand
  <2>9. ASSUME NEW s \in cap[r].todo, CaptureRead(r, s) PROVE BackedHand(r)'
    BY <2>1, <2>2, <2>9, ReadStart
  <2>10. CASE /\ CaptureFrom(r, {"posting"}, {"posting", "settled"})
                   \/ CaptureFrom(r, {"ordered", "executed"}, {"posting", "settled"})
                   \/ CaptureFrom(r, {"posting", "ordered", "executed"}, {"settled"})
              /\ cap'[r].result = "failed"
    BY <2>2, <2>3, <2>10 DEF CaptureFrom
  <2>11. CASE CaptureFrom(r, {"hashed"}, {"already_archived", "posting", "error"})
    BY <2>2, <2>11 DEF CaptureFrom
  <2>12. CASE CaptureFrom(r, {"flushed"}, {"captured", "failed"})
    BY <2>2, <2>12 DEF CaptureFrom
  <2> QED BY <1>3, <2>4, <2>5, <2>6, <2>7, <2>8, <2>9, <2>10, <2>11, <2>12,
             CaptureCases DEF CaptureMoved
<1> QED BY <1>2, <1>3

LEMMA BackedStep == ASSUME IInv, BackedInv, [Next]_vars PROVE BackedInv'
<1>1. \A r \in CaptureRuns : BackedHand(r)'
  BY BackedHandStep DEF BackedInv
<1>2. orders \subseteq orders' /\ snaps \subseteq snaps'
  BY TimeGrows, Growth DEF Growing
<1>3. ASSUME NEW q \in request', q.outcome = "captured"
      PROVE  /\ \E o \in orders' : o.src = q.src /\ o.by = q.by /\ o.at <= q.at
             /\ \E c \in snaps' : c.url = q.src.url
  <2>1. CASE q \in request
    BY <1>2, <1>3, <2>1 DEF BackedInv, CapturedBacked, OrdersOf
  <2>2. CASE q \notin request
    <3>1. PICK r \in CaptureRuns : CaptureCommit(r)
      BY <2>2, RequestCases
    <3>2. cap[r].pc = "flushed" /\ q = RowInHand(r)
      BY <2>2, <3>1, CommitRow
    <3>3. BackedHand(r) /\ Captured(r)
      BY <1>3, <3>2 DEF BackedInv, Captured, RowInHand
    <3>4. Ordered(r) /\ Snapped(r)
      BY <3>3 DEF BackedHand
    <3> QED BY <1>2, <3>2, <3>4 DEF Ordered, Snapped, RowInHand
  <2> QED BY <2>1, <2>2
<1> QED BY <1>1, <1>3 DEF BackedInv, CapturedBacked, OrdersOf

\* No row says "captured" without an order of the run that wrote it and a
\* snapshot of the source's URL.
THEOREM CaptureBacked == Spec => []CapturedBacked
<1>1. Init => BackedInv
  BY DEF Init, LedgerInit, CaptureInit, CaptureIdleRun, CaptureFresh, BackedInv,
     CapturedBacked, BackedHand, Captured
<1>2. IInv /\ BackedInv /\ [Next]_vars => BackedInv'
  BY BackedStep
<1>3. BackedInv => CapturedBacked
  BY DEF BackedInv
<1> QED BY <1>1, <1>2, <1>3, Inductive, PTL DEF Spec

-----------------------------------------------------------------------------
(* The cool-down *)

\* The sources run r may still order for, and the time it has for its row.
Ahead(r) ==
  cap[r].todo \cup IF cap[r].pc \in CaptureBusy THEN {cap[r].src} ELSE {}
RowTime(r) == IF cap[r].pc = "flushed" THEN cap[r].at ELSE clock

\* Whatever row r has written for s, a row as late no longer cools at time t.
Free(rows, r, s, t) ==
  \A p \in rows : (p.src = s /\ p.by = r) =>
    \E f \in rows : f.src = s /\ p.at <= f.at /\ ~Cooling(f, t)

CoolHand(r) ==
  /\ cap[r].pc \in CaptureBusy =>
       cap[r].src \notin cap[r].todo /\ Free(request, r, cap[r].src, RowTime(r))
  /\ \A s \in cap[r].todo : Free(request, r, s, clock)

CoolInv == CooldownRespected /\ \A r \in CaptureRuns : CoolHand(r)

\* A selected source is free.
LEMMA PendingFree ==
  ASSUME IInv, NEW now \in 0..(clock + MaxSkew), NEW s \in CapturePending(now),
         NEW r
  PROVE  Free(request, r, s, clock)
<1>1. clock \in Nat /\ MaxSkew \in Nat /\ now \in Nat /\ now <= clock + MaxSkew
  BY CaptureAssumption DEF IInv, Tables, WorldTypeOK
<1>2. \A q \in request : q.at \in Nat /\ Cooldown(q.outcome) \in Nat
  BY CaptureAssumption DEF IInv, Tables, LedgerTypeOK, Request, Cooldown
<1>3. CASE Requests(s) = {}
  BY <1>3 DEF Free, Requests
<1>4. CASE \E q \in Latest(s) : q.at + Cooldown(q.outcome) < now
  <2>1. PICK q \in Latest(s) : q.at + Cooldown(q.outcome) < now
    BY <1>4
  <2>2. /\ q \in request /\ q.src = s
        /\ \A p \in request : p.src = s => p.at <= q.at
    BY <2>1 DEF Latest, Requests
  <2>3. ~Cooling(q, clock)
    BY <1>1, <1>2, <2>1, <2>2 DEF Cooling
  <2> QED BY <2>2, <2>3 DEF Free
<1> QED BY <1>3, <1>4 DEF CapturePending

\* Time and the rows of others leave it free.
LEMMA StaysFree ==
  ASSUME NEW rows \in SUBSET Request, NEW later, rows \subseteq later, NEW r, NEW s,
         NEW t \in Nat, NEW u \in Nat, t <= u, Free(rows, r, s, t),
         \A p \in later \ rows : ~(p.src = s /\ p.by = r)
  PROVE  Free(later, r, s, u)
<1>1. \A q \in rows : q.at \in Nat /\ Cooldown(q.outcome) \in Nat
  BY CaptureAssumption DEF Request, Cooldown
<1>2. \A f \in rows : ~Cooling(f, t) => ~Cooling(f, u)
  BY <1>1, CaptureAssumption DEF Cooling
<1> QED BY <1>2 DEF Free

\* Only the run itself writes rows of its own, for the source in its hand.
LEMMA OwnRows ==
  ASSUME IInv, [Next]_vars, NEW r \in CaptureRuns,
         NEW p \in request' \ request, p.by = r
  PROVE  /\ CaptureCommit(r) /\ cap[r].pc = "flushed" /\ p = RowInHand(r)
         /\ cap'[r].pc = cap[r].result
<1>1. PICK q \in CaptureRuns : CaptureCommit(q)
  BY RequestCases
<1>2. cap[q].pc = "flushed" /\ p = RowInHand(q)
  BY <1>1, CommitRow
<1>3. q = r
  BY <1>2 DEF RowInHand
<1> QED BY <1>1, <1>2, <1>3 DEF CaptureCommit, CaptureGoto, IInv, CaptureInv,
           CaptureTypeOK

LEMMA CoolHandStep ==
  ASSUME IInv, [Next]_vars, NEW r \in CaptureRuns, CoolHand(r)
  PROVE  CoolHand(r)'
<1>1. clock \in Nat /\ clock' \in Nat /\ clock <= clock'
  BY TimeGrows
<1>2. cap \in [CaptureRuns -> Cap] /\ cap[r] \in Cap /\ cap[r].at \in Nat
  BY DEF IInv, CaptureInv, CaptureTypeOK, Cap
<1>0. request \in SUBSET Request /\ request \subseteq request'
  BY Growth DEF Growing, IInv, Tables, LedgerTypeOK
<1>3. ASSUME \A p \in request' \ request : p.by # r, NEW s, Free(request, r, s, clock)
      PROVE  Free(request', r, s, clock')
  BY <1>0, <1>1, <1>3, StaysFree
<1>4. CASE cap'[r] = cap[r]
  <2>1. \A p \in request' \ request : p.by # r
    <3>1. ASSUME NEW p \in request' \ request, p.by = r PROVE FALSE
      <4>1. cap[r].pc = "flushed" /\ cap'[r].pc = cap[r].result
        BY <3>1, OwnRows
      <4> QED BY <1>2, <1>4, <4>1 DEF Cap
    <3> QED BY <3>1
  <2>2. ASSUME cap[r].pc \in CaptureBusy
        PROVE  Free(request', r, cap[r].src, RowTime(r)')
    <3>1. Free(request, r, cap[r].src, RowTime(r))
      BY <2>2 DEF CoolHand
    <3>2. CASE cap[r].pc = "flushed"
      <4>1. Free(request', r, cap[r].src, cap[r].at)
        BY <1>0, <1>2, <1>4, <2>1, <3>1, <3>2, StaysFree DEF RowTime
      <4> QED BY <1>4, <3>2, <4>1 DEF RowTime
    <3>3. CASE cap[r].pc # "flushed"
      BY <1>3, <1>4, <2>1, <3>1, <3>3 DEF RowTime
    <3> QED BY <3>2, <3>3
  <2> QED BY <1>3, <1>4, <2>1, <2>2 DEF CoolHand
<1>5. CASE cap'[r] # cap[r]
  <2>1. /\ \A s \in cap[r].todo : Free(request, r, s, clock)
        /\ cap[r].pc \in CaptureBusy => /\ cap[r].src \notin cap[r].todo
                                       /\ Free(request, r, cap[r].src, RowTime(r))
    BY DEF CoolHand
  <2>2. ASSUME ~CaptureCommit(r), NEW s, Free(request, r, s, clock)
        PROVE  Free(request', r, s, clock')
    BY <1>3, <2>2, OwnRows
  <2>3. CASE CaptureSelect(r) \/ CaptureFinish(r) \/ CaptureAbort(r)
    <3>1. /\ cap'[r].pc \in {"idle", "selected"}
          /\ \A s \in cap'[r].todo : Free(request, r, s, clock)
      BY <1>2, <2>3, NothingInHand, PendingFree
    <3>2. ~CaptureCommit(r)
      BY <1>2, <3>1 DEF CaptureCommit, CaptureGoto, Cap
    <3> QED BY <2>2, <3>1, <3>2 DEF CoolHand, CaptureBusy
  <2>4. ASSUME NEW s \in cap[r].todo, CaptureRead(r, s) PROVE CoolHand(r)'
    <3>1. /\ cap'[r].pc \in {"hashed", "hash_mismatch", "worm_missing"}
          /\ cap'[r].src = s /\ cap'[r].todo = cap[r].todo \ {s}
      BY <1>2, <2>4, ReadStart
    <3>2. ~CaptureCommit(r)
      BY <1>2, <3>1 DEF CaptureCommit, CaptureGoto, Cap
    <3>3. Free(request', r, s, clock') /\ \A x \in cap'[r].todo : Free(request', r, x, clock')
      BY <2>1, <2>2, <3>1, <3>2
    <3> QED BY <3>1, <3>3 DEF CoolHand, RowTime
  <2>5. ASSUME NEW before, NEW after, CaptureFrom(r, before, after),
               before \subseteq CaptureBusy \ {"flushed"}, "flushed" \notin after
        PROVE  CoolHand(r)'
    <3>1. /\ cap'[r].src = cap[r].src /\ cap'[r].todo = cap[r].todo
          /\ cap[r].pc \in CaptureBusy /\ cap[r].pc # "flushed"
          /\ cap'[r].pc # "flushed" /\ ~CaptureCommit(r)
      BY <2>5 DEF CaptureFrom, CaptureCommit
    <3>2. Free(request', r, cap[r].src, clock')
      BY <2>1, <2>2, <3>1 DEF RowTime
    <3>3. \A x \in cap[r].todo : Free(request', r, x, clock')
      BY <2>1, <2>2, <3>1
    <3> QED BY <2>1, <3>1, <3>2, <3>3 DEF CoolHand, RowTime
  <2>6. CASE CaptureFrom(r, {"settled"}, {"flushed"}) /\ cap'[r].at = clock
    <3>1. /\ cap'[r].src = cap[r].src /\ cap'[r].todo = cap[r].todo
          /\ cap[r].pc = "settled" /\ cap'[r].pc = "flushed" /\ ~CaptureCommit(r)
      BY <2>6 DEF CaptureFrom, CaptureCommit
    <3>2. Free(request, r, cap[r].src, clock)
      BY <2>1, <3>1 DEF RowTime, CaptureBusy
    <3>3. Free(request', r, cap[r].src, clock) /\ RowTime(r)' = clock
      <4>1. \A p \in request' \ request : p.by # r
        BY <3>1, OwnRows
      <4>2. Free(request', r, cap[r].src, clock)
        BY <1>0, <1>1, <3>2, <4>1, StaysFree
      <4> QED BY <2>6, <3>1, <4>2 DEF RowTime
    <3>4. \A x \in cap[r].todo : Free(request', r, x, clock')
      BY <2>1, <2>2, <3>1
    <3> QED BY <2>1, <2>6, <3>1, <3>3, <3>4 DEF CoolHand, CaptureBusy
  <2>7. CASE CaptureCommit(r) /\ CaptureFrom(r, {"flushed"}, {"captured", "failed"})
    <3>1. /\ cap'[r].todo = cap[r].todo /\ cap'[r].pc \notin CaptureBusy
          /\ cap[r].src \notin cap[r].todo
      BY <2>1, <2>7 DEF CaptureFrom, CaptureBusy
    <3>2. \A p \in request' \ request : p.by = r => p.src = cap[r].src
      BY OwnRows DEF RowInHand
    <3>3. ASSUME NEW x \in cap[r].todo PROVE Free(request', r, x, clock')
      BY <1>0, <1>1, <2>1, <3>1, <3>2, StaysFree
    <3> QED BY <3>1, <3>3 DEF CoolHand
  <2> QED BY <1>5, <2>3, <2>4, <2>5, <2>6, <2>7, CaptureCases
          DEF CaptureMoved, CaptureBusy
<1> QED BY <1>4, <1>5

\* Two rows of one run, the second of them just written.
LEMMA CoolStep ==
  ASSUME MaxSkew <= CapturedCooldown, MaxSkew <= FailedCooldown,
         IInv, CoolInv, [Next]_vars
  PROVE  CoolInv'
<1>1. \A r \in CaptureRuns : CoolHand(r)'
  BY CoolHandStep DEF CoolInv
<1>2. request \subseteq request' /\ request \in SUBSET Request
  BY Growth DEF Growing, IInv, Tables, LedgerTypeOK
<1>3. ASSUME NEW p \in request', NEW q \in request',
             p.src = q.src, p.by = q.by, p # q, p.at <= q.at
      PROVE  \E f \in request' \ {q} :
               f.src = p.src /\ p.at <= f.at /\ ~Cooling(f, q.at)
  <2>1. CASE p \in request /\ q \in request
    <3>1. PICK f \in Requests(p.src) \ {q} : p.at <= f.at /\ ~Cooling(f, q.at)
      BY <1>3, <2>1 DEF CoolInv, CooldownRespected
    <3> QED BY <1>2, <3>1 DEF Requests
  <2>2. ASSUME NEW w \in {p, q}, w \notin request
        PROVE  \E r \in CaptureRuns :
                 /\ cap[r].at \in Nat /\ w = RowInHand(r)
                 /\ request' = request \cup {w}
                 /\ Free(request, r, cap[r].src, cap[r].at)
    <3>1. PICK r \in CaptureRuns : CaptureCommit(r)
      BY <2>2, RequestCases
    <3>2. cap[r].pc = "flushed" /\ request' = request \cup {RowInHand(r)}
      BY <3>1, CommitRow
    <3>3. w \in request'
      BY <1>3
    <3>4. w = RowInHand(r)
      BY <2>2, <3>2, <3>3
    <3>5. Free(request, r, cap[r].src, cap[r].at)
      BY <3>2 DEF CoolInv, CoolHand, RowTime, CaptureBusy
    <3>6. cap[r].at \in Nat
      BY DEF IInv, CaptureInv, CaptureTypeOK, Cap
    <3> QED BY <3>2, <3>4, <3>5, <3>6
  <2>3. CASE q \notin request
    <3>1. PICK r \in CaptureRuns :
            /\ q = RowInHand(r) /\ request' = request \cup {q}
            /\ Free(request, r, cap[r].src, cap[r].at)
      BY <2>2, <2>3
    <3>2. p \in request /\ p.src = cap[r].src /\ p.by = r /\ q.at = cap[r].at
      BY <1>3, <3>1 DEF RowInHand
    <3>3. PICK f \in request : f.src = p.src /\ p.at <= f.at /\ ~Cooling(f, q.at)
      BY <3>1, <3>2 DEF Free
    <3> QED BY <1>2, <2>3, <3>3
  <2>4. CASE p \notin request
    <3>1. PICK r \in CaptureRuns :
            /\ p = RowInHand(r) /\ request' = request \cup {p}
            /\ Free(request, r, cap[r].src, cap[r].at) /\ cap[r].at \in Nat
      BY <2>2, <2>4
    <3>2. /\ q \in request /\ q.src = cap[r].src /\ q.by = r
          /\ p.at = cap[r].at
      BY <1>3, <3>1 DEF RowInHand
    <3>3. PICK f \in request : q.at <= f.at /\ ~Cooling(f, p.at)
      BY <3>1, <3>2 DEF Free
    <3>4. /\ f.at \in Nat /\ q.at \in Nat /\ p.at \in Nat
          /\ Cooldown(f.outcome) \in Nat /\ MaxSkew \in Nat
          /\ MaxSkew <= Cooldown(f.outcome)
      BY <1>2, <3>1, <3>2, CaptureAssumption DEF Request, Cooldown
    <3>5. f.at + Cooldown(f.outcome) < p.at + MaxSkew
      BY <3>3, <3>4 DEF Cooling
    <3>6. p.at <= f.at
      BY <1>3, <3>3, <3>4
    <3> QED BY <3>4, <3>5, <3>6
  <2> QED BY <2>1, <2>3, <2>4
<1>4. CooldownRespected'
  <2> SUFFICES ASSUME NEW p \in request', NEW q \in request',
                      p.src = q.src, p.by = q.by, p # q, p.at <= q.at
               PROVE  \E f \in request' \ {q} :
                        f.src = p.src /\ p.at <= f.at /\ ~Cooling(f, q.at)
    BY DEF CooldownRespected, Requests, Cooling
  <2> QED BY <1>3
<1> QED BY <1>1, <1>4 DEF CoolInv

\* No run comes back to a source before the cool-down of a row at least as late
\* as its own is over, unless a host's clock is ahead of the database's by more
\* than a cool-down.
THEOREM CooldownKept ==
  ASSUME MaxSkew <= CapturedCooldown, MaxSkew <= FailedCooldown
  PROVE  Spec => []CooldownRespected
<1>1. Init => CoolInv
  BY DEF Init, LedgerInit, CaptureInit, CaptureIdleRun, CaptureFresh, CoolInv,
     CooldownRespected, CoolHand, CaptureBusy
<1>2. IInv /\ CoolInv /\ [Next]_vars => CoolInv'
  BY CoolStep
<1>3. CoolInv => CooldownRespected
  BY DEF CoolInv
<1> QED BY <1>1, <1>2, <1>3, Inductive, PTL DEF Spec

-----------------------------------------------------------------------------
(* The archiver *)

\* A run starts its call of the archiver with no attempt behind it.
CallInv == \A r \in CaptureRuns : cap[r].pc = "hashed" => cap[r].tries = 0

LEMMA CallInvStep == ASSUME IInv, CallInv, [Next]_vars PROVE CallInv'
<1> SUFFICES ASSUME NEW r \in CaptureRuns, cap'[r] # cap[r], cap'[r].pc = "hashed"
             PROVE  cap'[r].tries = 0
  BY DEF CallInv
<1>1. cap \in [CaptureRuns -> Cap]
  BY CaptureStepped
<1>2. CASE CaptureSelect(r) \/ CaptureFinish(r) \/ CaptureAbort(r)
  BY <1>1, <1>2, NothingInHand
<1>3. ASSUME NEW s \in cap[r].todo, CaptureRead(r, s) PROVE cap'[r].tries = 0
  BY <1>1, <1>3, ReadStart
<1> QED BY <1>2, <1>3, CaptureCases DEF CaptureMoved, CaptureFrom

\* What the call of run r looks like from outside.
CallPc == {"posting", "ordered", "executed"}
StageOf(c) == CASE c.pc \in CallPc -> c.pc
                [] c.pc = "settled" -> IF c.result = "captured" THEN "archived"
                                                                ELSE "failed"
                [] OTHER -> "none"
TriesOf(c) == IF c.pc \in CallPc \cup {"settled"} THEN c.tries ELSE 0

LEMMA CallStep ==
  ASSUME IInv, CallInv, [Next]_vars, NEW r \in CaptureRuns
  PROVE  [ArchiveCalls(r)!Next]_(ArchiveCalls(r)!callVars)
<1> DEFINE stage == StageOf(cap[r])
           tries == TriesOf(cap[r])
<1> SUFFICES ASSUME cap'[r] # cap[r]
             PROVE  ArchiveCalls(r)!Next \/ UNCHANGED <<stage, tries>>
  BY DEF ArchiveCalls!callVars, StageOf, TriesOf, CallPc
<1>1. /\ cap \in [CaptureRuns -> Cap] /\ cap[r] \in Cap /\ CaptureHand(r)
      /\ cap[r].tries \in Nat /\ Attempts \in Nat
  BY CaptureStepped, CaptureAssumption DEF Cap
<1>2. CASE cap[r].pc \in CallPc \cup {"settled"}
             /\ cap'[r].pc \notin CallPc \cup {"settled"}
  BY <1>2 DEF ArchiveCalls!Next, ArchiveCalls!Leave, CallPc
<1>3. CASE cap[r].pc \notin CallPc \cup {"settled"}
             /\ cap'[r].pc \notin CallPc \cup {"settled"}
  BY <1>3 DEF StageOf, TriesOf
<1>4. CASE CaptureLookup(r) /\ cap'[r].pc = "posting"
             /\ cap[r].pc = "hashed" /\ cap'[r].tries = cap[r].tries
  BY <1>1, <1>4 DEF CallInv, ArchiveCalls!Next, ArchiveCalls!Begin, CallPc
<1>5. CASE CaptureFrom(r, {"posting"}, {"ordered"})
             /\ cap'[r].tries = cap[r].tries + 1
  BY <1>5 DEF CaptureFrom, ArchiveCalls!Next, ArchiveCalls!Order, CallPc
<1>6. CASE CaptureFrom(r, {"ordered"}, {"executed"})
             /\ cap'[r].tries = cap[r].tries
  BY <1>6 DEF CaptureFrom, ArchiveCalls!Next, ArchiveCalls!Execute, CallPc
<1>7. CASE CaptureFrom(r, {"executed"}, {"settled"})
             /\ cap'[r].result = "captured" /\ cap'[r].tries = cap[r].tries
  BY <1>7 DEF CaptureFrom, ArchiveCalls!Next, ArchiveCalls!Archive, CallPc
<1>8. CASE CaptureFrom(r, {"posting", "ordered", "executed"}, {"settled"})
             /\ cap'[r].result = "failed" /\ cap'[r].tries = cap[r].tries
  BY <1>8 DEF CaptureFrom, ArchiveCalls!Next, ArchiveCalls!GiveUp, CallPc
<1>9. CASE /\ CaptureFrom(r, {"posting"}, {"posting", "settled"})
           /\ cap'[r].result = "failed" /\ cap'[r].tries = cap[r].tries + 1
           /\ cap'[r].pc = IF cap'[r].tries < Attempts THEN "posting" ELSE "settled"
  BY <1>9 DEF CaptureFrom, ArchiveCalls!Next, ArchiveCalls!Transient,
     ArchiveCalls!Again, CallPc
<1>10. CASE /\ CaptureFrom(r, {"ordered", "executed"}, {"posting", "settled"})
            /\ cap'[r].result = "failed" /\ cap'[r].tries = cap[r].tries
            /\ cap'[r].pc = IF cap'[r].tries < Attempts THEN "posting" ELSE "settled"
  BY <1>10 DEF CaptureFrom, ArchiveCalls!Next, ArchiveCalls!Transient,
     ArchiveCalls!Again, CallPc
<1>11. CASE CaptureFrom(r, {"settled"}, {"flushed"})
              \/ CaptureFrom(r, {"flushed"}, {"captured", "failed"})
              \/ /\ CaptureFrom(r, {"hashed"}, {"already_archived", "posting", "error"})
                 /\ cap'[r].pc # "posting"
  BY <1>2, <1>3, <1>11 DEF CaptureFrom, CallPc
<1>12. CASE CaptureSelect(r) \/ CaptureFinish(r) \/ CaptureAbort(r)
  BY <1>1, <1>2, <1>3, <1>12, NothingInHand DEF CallPc
<1>13. CASE \E s \in cap[r].todo : CaptureRead(r, s)
  <2>1. cap'[r].pc \in {"hashed", "hash_mismatch", "worm_missing"}
    BY <1>1, <1>13, ReadStart
  <2> QED BY <1>2, <1>3, <2>1 DEF CallPc
<1>14. CASE CaptureLookupError(r)
  BY <1>1, <1>2, <1>3, <1>14 DEF CaptureLookupError, CaptureGoto, CallPc, Cap
<1> HIDE DEF stage, tries
<1> QED BY <1>4, <1>5, <1>6, <1>7, <1>8, <1>9, <1>10, <1>11, <1>12, <1>13, <1>14,
           CaptureCases DEF CaptureMoved, CaptureFrom

\* The capture pass does with the archiver only what one call of it promises.
THEOREM CallAssumed == Spec => AssumesCall
<1>1. Init => CallInv /\ \A r \in CaptureRuns : ArchiveCalls(r)!Init
  BY DEF Init, CaptureInit, CaptureIdleRun, CaptureFresh, CallInv,
     ArchiveCalls!Init
<1>2. IInv /\ CallInv /\ [Next]_vars => CallInv'
  BY CallInvStep
<1>3. IInv /\ CallInv /\ [Next]_vars =>
        [\A r \in CaptureRuns :
           [ArchiveCalls(r)!Next]_(ArchiveCalls(r)!callVars)]_vars
  BY CallStep
<1> QED BY <1>1, <1>2, <1>3, Inductive, PTL DEF Spec, AssumesCall

-----------------------------------------------------------------------------
(* The load on the archiver *)

\* At most Attempts orders for every row and every crash, and one for every
\* attempt of a run at work.
Within(o, rows, broken, spent) == o <= Attempts * (rows + broken) + spent

LEMMA WithinStep ==
  ASSUME NEW o \in Nat, NEW q \in Nat, NEW c \in Nat, NEW u \in Nat,
         Within(o, q, c, u), NEW v \in Nat
  PROVE  /\ u <= v => Within(o, q, c, v)
         /\ u + 1 <= v => Within(o + 1, q, c, v)
         /\ u <= v + Attempts => Within(o, q + 1, c, v) /\ Within(o, q, c + 1, v)
<1>1. Attempts \in Nat
  BY CaptureAssumption
<1>2. PICK n \in Nat : n = Attempts * (q + c)
  BY <1>1
<1>3. /\ Attempts * (q + 1 + c) = n + Attempts
      /\ Attempts * (q + (c + 1)) = n + Attempts
  BY <1>1, <1>2
<1> QED BY <1>1, <1>2, <1>3 DEF Within

LEMMA WithinLater ==
  ASSUME NEW o \in Nat, NEW q \in Nat, NEW c \in Nat, NEW u \in Nat,
         Within(o, q, c, u), NEW p \in Nat, NEW d \in Nat, q <= p, c <= d
  PROVE  Within(o, p, d, u)
<1>1. Attempts \in Nat
  BY CaptureAssumption
<1>2. Attempts * (q + c) <= Attempts * (p + d)
  <2>1. PICK n \in Nat : p + d = (q + c) + n
    <3>1. (p + d) - (q + c) \in Nat
      OBVIOUS
    <3> QED BY <3>1
  <2>2. Attempts * (p + d) = Attempts * (q + c) + Attempts * n
    BY <1>1, <2>1
  <2>3. Attempts * n \in Nat /\ Attempts * (q + c) \in Nat
    BY <1>1
  <2> QED BY <2>2, <2>3
<1> QED BY <1>1, <1>2 DEF Within

Busy == {r \in CaptureRuns : cap[r].pc \in CaptureBusy}

\* The attempts of runs at work on s that lie behind them.
Spent(s) ==
  {u \in CaptureRuns \X (1..Attempts) :
     u[1] \in AtWork(s) /\ u[2] <= cap[u[1]].tries}

Countable == IsFiniteSet(orders) /\ IsFiniteSet(request) /\ IsFiniteSet(Busy)

OrderInv ==
  /\ Countable
  /\ \A s \in Source :
       Within(Cardinality(OrdersOf(s)), Cardinality(Requests(s)), crashes,
              Cardinality(Spent(s)))

\* A run that leaves no attempt behind.
Keeps(r) ==
  cap[r].pc \in CaptureBusy /\ cap[r].tries > 0 =>
    /\ cap'[r].pc \in CaptureBusy /\ cap'[r].src = cap[r].src
    /\ cap[r].tries <= cap'[r].tries

\* What a step does to orders and rows.
NoOrder == UNCHANGED <<cap, orders, request>> /\ crashes' \in {crashes, crashes + 1}
OneOrder(r) ==
  \/ UNCHANGED <<orders, request>> /\ crashes' = crashes + 1
  \/ UNCHANGED <<orders, request, crashes>> /\ Keeps(r)
  \/ /\ CapturePost(r) /\ CaptureFrom(r, {"posting"}, {"ordered"})
     /\ cap'[r].tries = cap[r].tries + 1
     /\ UNCHANGED <<request, crashes>>
  \/ CaptureCommit(r) /\ UNCHANGED <<orders, crashes>>

LEMMA OneOrderCases ==
  ASSUME IInv, CallInv, NEW r \in CaptureRuns, CaptureSelect(r) \/ CaptureStep(r),
         UNCHANGED crashes
  PROVE  OneOrder(r)
<1>1. cap \in [CaptureRuns -> Cap] /\ cap[r] \in Cap /\ cap[r].tries \in Nat
  BY CaptureAssumption DEF IInv, CaptureInv, CaptureTypeOK, Cap
<1>2. CaptureCommit(r) => UNCHANGED orders
  BY DEF CaptureCommit
<1>3. ~CaptureCommit(r) => UNCHANGED request
  BY DEF CaptureSelect, CaptureStep, CaptureRead, CaptureLookup,
     CaptureLookupError, CapturePost, CaptureExecute, CaptureSuccess,
     CapturePermanent, CapturePostLost, CaptureTransient, CaptureFlush,
     CaptureFinish, ledgerVars, tableVars
<1>4. ~CapturePost(r) => UNCHANGED orders
  BY DEF CaptureSelect, CaptureStep, CaptureRead, CaptureLookup,
     CaptureLookupError, CaptureExecute, CaptureSuccess,
     CapturePermanent, CapturePostLost, CaptureTransient, CaptureFlush,
     CaptureCommit, CaptureFinish
<1>5. CASE CaptureSelect(r) \/ CaptureFinish(r) \/ \E s \in cap[r].todo : CaptureRead(r, s)
  <2>1. cap[r].pc \notin CaptureBusy
    BY <1>5 DEF CaptureSelect, CaptureFinish, CaptureRead, CaptureBetween,
       CaptureOutcome, CaptureBusy
  <2>2. ~CaptureCommit(r) /\ ~CapturePost(r)
    BY <2>1 DEF CaptureCommit, CapturePost, CaptureBusy
  <2> QED BY <1>3, <1>4, <2>1, <2>2 DEF OneOrder, Keeps
<1>6. ASSUME NEW before, NEW after, CaptureFrom(r, before, after),
             "flushed" \notin before, after \subseteq CaptureBusy,
             cap[r].tries <= cap'[r].tries, ~CapturePost(r)
      PROVE  OneOrder(r)
  <2>1. ~CaptureCommit(r)
    BY <1>6 DEF CaptureFrom, CaptureCommit
  <2> QED BY <1>3, <1>4, <1>6, <2>1 DEF OneOrder, Keeps, CaptureFrom
<1>7. CASE CaptureFrom(r, {"hashed"}, {"already_archived", "posting", "error"})
  <2>1. cap[r].pc = "hashed" /\ cap[r].tries = 0
    BY <1>7 DEF CaptureFrom, CallInv
  <2>2. ~CaptureCommit(r) /\ ~CapturePost(r)
    BY <2>1 DEF CaptureCommit, CapturePost
  <2> QED BY <1>3, <1>4, <2>1, <2>2 DEF OneOrder, Keeps
<1>8. CASE CapturePost(r)
  <2>1. ~CaptureCommit(r)
    BY <1>8 DEF CaptureCommit, CapturePost
  <2>2. cap'[r] = [cap[r] EXCEPT !.pc = "ordered", !.tries = cap[r].tries + 1]
    BY <1>1, <1>8 DEF CapturePost
  <2>3. cap[r].pc = "posting"
    BY <1>8 DEF CapturePost
  <2>4. CaptureFrom(r, {"posting"}, {"ordered"}) /\ cap'[r].tries = cap[r].tries + 1
    BY <1>1, <2>2, <2>3 DEF CaptureFrom, Cap
  <2> QED BY <1>3, <1>8, <2>1, <2>4 DEF OneOrder
<1>9. CASE CaptureCommit(r)
  BY <1>2, <1>9 DEF OneOrder
<1>10. CASE CaptureStep(r) /\ ~CapturePost(r) /\ ~CaptureCommit(r)
  <2>1. CaptureMoved(r)
    BY <1>1, <1>10, CaptureStepCases
  <2> QED BY <1>1, <1>5, <1>6, <1>7, <1>10, <2>1 DEF CaptureMoved, CaptureBusy
<1> QED BY <1>5, <1>8, <1>9, <1>10

LEMMA OrderCases ==
  ASSUME IInv, CallInv, [Next]_vars
  PROVE  \/ NoOrder
         \/ \E r \in CaptureRuns :
              OneOrder(r) /\ \E new : cap' = [cap EXCEPT ![r] = new]
<1>1. cap \in [CaptureRuns -> Cap]
  BY DEF IInv, CaptureInv, CaptureTypeOK
<1>2. CASE CapturePass /\ UNCHANGED crashes
  <2>1. PICK r \in CaptureRuns : CaptureSelect(r) \/ CaptureStep(r)
    BY <1>2 DEF CapturePass, CaptureNext
  <2>2. OneOrder(r)
    BY <1>2, <2>1, OneOrderCases
  <2>3. \E new : cap' = [cap EXCEPT ![r] = new]
    BY <2>1 DEF CaptureSelect, CaptureStep, CaptureRead, CaptureLookup,
       CaptureLookupError, CapturePost, CaptureExecute, CaptureSuccess,
       CapturePermanent, CapturePostLost, CaptureTransient, CaptureFlush,
       CaptureCommit, CaptureFinish, CaptureGoto, Retry
  <2> QED BY <2>2, <2>3
<1>3. CASE (\E r \in CaptureRuns : CaptureAbort(r)) /\ crashes' = crashes + 1
  <2>1. PICK r \in CaptureRuns : CaptureAbort(r)
    BY <1>3
  <2> QED BY <1>3, <2>1 DEF CaptureAbort, OneOrder, tableVars
<1>4. CASE UNCHANGED captureVars /\ crashes' \in {crashes, crashes + 1}
  <2>1. ASSUME NEW r \in CaptureRuns, CaptureCommit(r) PROVE FALSE
    <3>1. cap[r] \in Cap /\ cap'[r].pc = cap[r].result /\ cap[r].pc = "flushed"
      BY <1>1, <2>1 DEF CaptureCommit, CaptureGoto
    <3> QED BY <1>4, <3>1 DEF Cap, captureVars
  <2> QED BY <1>4, <2>1, RequestCases DEF NoOrder, captureVars
<1> QED BY <1>2, <1>3, <1>4 DEF Next, vars, runVars, Pass, IngestPass,
           TimestampPass, CapturePass, AttestPass, ReparsePass, Crash, Abort

LEMMA SpentBounded ==
  Countable => \A s \in Source :
    /\ IsFiniteSet(OrdersOf(s)) /\ IsFiniteSet(Requests(s)) /\ IsFiniteSet(Spent(s))
    /\ IsFiniteSet(AtWork(s))
    /\ Cardinality(Spent(s)) <= Cardinality(AtWork(s)) * Attempts
<1> SUFFICES ASSUME Countable, NEW s \in Source
             PROVE  /\ IsFiniteSet(OrdersOf(s)) /\ IsFiniteSet(Requests(s))
                    /\ IsFiniteSet(Spent(s)) /\ IsFiniteSet(AtWork(s))
                    /\ Cardinality(Spent(s)) <= Cardinality(AtWork(s)) * Attempts
  OBVIOUS
<1>1. IsFiniteSet(OrdersOf(s)) /\ IsFiniteSet(Requests(s)) /\ IsFiniteSet(AtWork(s))
  <2>1. OrdersOf(s) \in SUBSET orders /\ Requests(s) \in SUBSET request
        /\ AtWork(s) \in SUBSET Busy
    BY DEF OrdersOf, Requests, AtWork, Busy
  <2> QED BY <2>1, FS_Subset DEF Countable
<1>2. IsFiniteSet(1..Attempts) /\ Cardinality(1..Attempts) = Attempts
  BY FS_Interval, CaptureAssumption
<1>3. /\ IsFiniteSet(AtWork(s) \X (1..Attempts))
      /\ Cardinality(AtWork(s) \X (1..Attempts)) = Cardinality(AtWork(s)) * Attempts
  BY <1>1, <1>2, FS_Product
<1>4. Spent(s) \in SUBSET (AtWork(s) \X (1..Attempts))
  BY DEF Spent
<1>5. /\ IsFiniteSet(Spent(s))
      /\ Cardinality(Spent(s)) <= Cardinality(AtWork(s) \X (1..Attempts))
  BY <1>3, <1>4, FS_Subset
<1> QED BY <1>1, <1>3, <1>5

\* One run's attempts are Attempts at most.
LEMMA OneRunLost ==
  ASSUME NEW S, NEW T, IsFiniteSet(S), IsFiniteSet(T), NEW r,
         S \subseteq T \cup ({r} \X (1..Attempts))
  PROVE  Cardinality(S) <= Cardinality(T) + Attempts
<1> DEFINE L == {r} \X (1..Attempts)
<1>1. IsFiniteSet(1..Attempts) /\ Cardinality(1..Attempts) = Attempts
  BY FS_Interval, CaptureAssumption
<1>2. IsFiniteSet({r}) /\ Cardinality({r}) = 1
  BY FS_Singleton
<1>3. IsFiniteSet(L) /\ Cardinality(L) = 1 * Attempts
  BY <1>1, <1>2, FS_Product
<1> HIDE DEF L
<1>4. /\ IsFiniteSet(T \cup L)
      /\ Cardinality(T \cup L) = Cardinality(T) + Cardinality(L) - Cardinality(T \cap L)
  BY <1>3, FS_Union
<1>5. Cardinality(T \cap L) \in Nat
  BY <1>3, FS_Intersection, FS_CardinalityType
<1>6. Cardinality(S) <= Cardinality(T \cup L)
  BY <1>4, FS_Subset DEF L
<1> QED BY <1>3, <1>4, <1>5, <1>6, FS_CardinalityType, CaptureAssumption

\* A committed row is a new one.
LEMMA FreshRow ==
  ASSUME MaxSkew <= CapturedCooldown, MaxSkew <= FailedCooldown,
         IInv, CoolInv, NEW r \in CaptureRuns, cap[r].pc = "flushed"
  PROVE  RowInHand(r) \notin request
<1> SUFFICES ASSUME RowInHand(r) \in request PROVE FALSE
  OBVIOUS
<1>1. Free(request, r, cap[r].src, cap[r].at) /\ cap[r].at \in Nat
  BY DEF CoolInv, CoolHand, CaptureBusy, RowTime, IInv, CaptureInv, CaptureTypeOK,
     Cap
<1>2. PICK f \in request : cap[r].at <= f.at /\ ~Cooling(f, cap[r].at)
  BY <1>1 DEF Free, RowInHand
<1>3. /\ f.at \in Nat /\ Cooldown(f.outcome) \in Nat /\ MaxSkew \in Nat
      /\ MaxSkew <= Cooldown(f.outcome)
  BY CaptureAssumption DEF IInv, Tables, LedgerTypeOK, Request, Cooldown
<1> QED BY <1>1, <1>2, <1>3 DEF Cooling

LEMMA FiniteStep ==
  ASSUME Countable, NEW r \in CaptureRuns, cap \in [CaptureRuns -> Cap], OneOrder(r),
         NEW new, cap' = [cap EXCEPT ![r] = new]
  PROVE  Countable'
<1>1. IsFiniteSet(Busy \cup {r}) /\ Busy' \in SUBSET (Busy \cup {r})
  BY FS_AddElement DEF Countable, Busy
<1>2. IsFiniteSet(Busy')
  BY <1>1, FS_Subset
<1>3. UNCHANGED orders \/ \E o : orders' = orders \cup {o}
  BY DEF OneOrder, CapturePost
<1>4. UNCHANGED request \/ \E q : request' = request \cup {q}
  BY DEF OneOrder, CaptureCommit
<1>5. IsFiniteSet(orders') /\ IsFiniteSet(request')
  BY <1>3, <1>4, FS_AddElement DEF Countable
<1> QED BY <1>2, <1>5 DEF Countable

LEMMA OrderStep ==
  ASSUME MaxSkew <= CapturedCooldown, MaxSkew <= FailedCooldown,
         IInv, CallInv, CoolInv, OrderInv, [Next]_vars
  PROVE  OrderInv'
<1>1. /\ cap \in [CaptureRuns -> Cap] /\ cap' \in [CaptureRuns -> Cap]
      /\ crashes \in Nat /\ crashes' \in Nat
  BY NextIInv DEF IInv, CaptureInv, CaptureTypeOK
<1>2. CASE NoOrder
  <2>1. Countable' /\ crashes <= crashes'
    BY <1>1, <1>2 DEF NoOrder, OrderInv, Countable, Busy
  <2>2. ASSUME NEW s \in Source
        PROVE  Within(Cardinality(OrdersOf(s)), Cardinality(Requests(s)), crashes,
                      Cardinality(Spent(s)))'
    <3>1. /\ OrdersOf(s)' = OrdersOf(s) /\ Requests(s)' = Requests(s)
          /\ Spent(s)' = Spent(s)
      BY <1>2 DEF NoOrder, OrdersOf, Requests, Spent, AtWork
    <3>2. /\ Cardinality(OrdersOf(s)) \in Nat /\ Cardinality(Requests(s)) \in Nat
          /\ Cardinality(Spent(s)) \in Nat
      BY SpentBounded, FS_CardinalityType DEF OrderInv
    <3>3. Within(Cardinality(OrdersOf(s)), Cardinality(Requests(s)), crashes',
                 Cardinality(Spent(s)))
      BY <1>1, <2>1, <3>2, WithinLater DEF OrderInv
    <3> QED BY <3>1, <3>3 DEF Within
  <2> QED BY <2>1, <2>2 DEF OrderInv
<1>3. ASSUME NEW r \in CaptureRuns, OneOrder(r), NEW new,
             cap' = [cap EXCEPT ![r] = new]
      PROVE  OrderInv'
  <2>1. Countable'
    BY <1>1, <1>3, FiniteStep DEF OrderInv
  <2>2. ASSUME NEW s \in Source
        PROVE  Within(Cardinality(OrdersOf(s)), Cardinality(Requests(s)), crashes,
                      Cardinality(Spent(s)))'
    <3> DEFINE o == Cardinality(OrdersOf(s))
               q == Cardinality(Requests(s))
               u == Cardinality(Spent(s))
               v == Cardinality(Spent(s)')
    <3>1. /\ IsFiniteSet(OrdersOf(s)) /\ IsFiniteSet(Requests(s))
          /\ IsFiniteSet(Spent(s))
      BY SpentBounded DEF OrderInv
    <3>2. IsFiniteSet(Spent(s)')
      <4>1. IsFiniteSet(Busy') /\ IsFiniteSet(1..Attempts)
        BY <2>1, FS_Interval, CaptureAssumption DEF Countable
      <4>2. Spent(s)' \in SUBSET (Busy' \X (1..Attempts))
        BY DEF Spent, AtWork, Busy
      <4> QED BY <4>1, <4>2, FS_Product, FS_Subset
    <3>3. o \in Nat /\ q \in Nat /\ u \in Nat /\ v \in Nat
      BY <3>1, <3>2, FS_CardinalityType
    <3>4. Within(o, q, crashes, u)
      BY DEF OrderInv
    <3>5. Spent(s) \subseteq Spent(s)' \cup ({r} \X (1..Attempts))
      BY <1>3 DEF Spent, AtWork
    <3>6. u <= v + Attempts
      BY <3>2, <3>1, <3>5, OneRunLost
    <3>7. ASSUME Keeps(r) PROVE u <= v
      <4>1. Spent(s) \in SUBSET Spent(s)'
        BY <1>1, <1>3, <3>7 DEF Spent, AtWork, Keeps, Cap
      <4> QED BY <3>2, <4>1, FS_Subset
    <3>8. ASSUME UNCHANGED orders PROVE OrdersOf(s)' = OrdersOf(s)
      BY <3>8 DEF OrdersOf
    <3>9. ASSUME UNCHANGED request PROVE Requests(s)' = Requests(s)
      BY <3>9 DEF Requests
    <3> HIDE DEF o, q, u, v
    <3>10. CASE UNCHANGED <<orders, request>> /\ crashes' = crashes + 1
      <4>1. Within(o, q, crashes', v)
        BY <1>1, <3>3, <3>4, <3>6, <3>10, WithinStep
      <4> QED BY <3>8, <3>9, <3>10, <4>1 DEF Within, o, q, v
    <3>11. CASE UNCHANGED <<orders, request, crashes>> /\ Keeps(r)
      <4>1. Within(o, q, crashes', v)
        BY <1>1, <3>3, <3>4, <3>7, <3>11, WithinStep
      <4> QED BY <3>8, <3>9, <3>11, <4>1 DEF Within, o, q, v
    <3>12. CASE CaptureCommit(r) /\ UNCHANGED <<orders, crashes>>
      <4>1. request' = request \cup {RowInHand(r)} /\ RowInHand(r) \notin request
        BY <3>12, CommitRow, FreshRow
      <4>2. CASE cap[r].src = s
        <5>1. /\ Requests(s)' = Requests(s) \cup {RowInHand(r)}
              /\ RowInHand(r) \notin Requests(s)
          BY <4>1, <4>2 DEF Requests, RowInHand
        <5>2. Cardinality(Requests(s)') = q + 1
          BY <3>1, <5>1, FS_AddElement DEF q
        <5>3. Within(o, q + 1, crashes', v)
          BY <1>1, <3>3, <3>4, <3>6, <3>12, WithinStep
        <5> QED BY <3>8, <3>12, <5>2, <5>3 DEF Within, o, v
      <4>3. CASE cap[r].src # s
        <5>1. Requests(s)' = Requests(s)
          BY <4>1, <4>3 DEF Requests, RowInHand
        <5>2. Spent(s) \in SUBSET Spent(s)'
          BY <1>1, <1>3, <4>3 DEF Spent, AtWork
        <5>3. u <= v
          BY <3>2, <5>2, FS_Subset DEF u, v
        <5>4. Within(o, q, crashes', v)
          BY <1>1, <3>3, <3>4, <3>12, <5>3, WithinStep
        <5> QED BY <3>8, <3>12, <5>1, <5>4 DEF Within, o, q, v
      <4> QED BY <4>2, <4>3
    <3>13. CASE /\ CapturePost(r) /\ CaptureFrom(r, {"posting"}, {"ordered"})
                /\ cap'[r].tries = cap[r].tries + 1
                /\ UNCHANGED <<request, crashes>>
      <4> DEFINE ord == [src |-> cap[r].src, by |-> r, at |-> clock,
                         try |-> cap[r].tries + 1]
                 one == <<r, cap[r].tries + 1>>
      <4>1. /\ cap'[r].tries = cap[r].tries + 1 /\ cap'[r].src = cap[r].src
            /\ cap[r].pc = "posting" /\ cap'[r].pc = "ordered"
            /\ cap[r].tries \in Nat /\ cap[r].tries + 1 \in 1..Attempts
        BY <1>1, <3>13, CaptureAssumption DEF CaptureFrom, Cap
      <4>2. orders' = orders \cup {ord}
        BY <3>13 DEF CapturePost
      <4>3. CASE cap[r].src = s
        <5>1. OrdersOf(s)' = OrdersOf(s) \cup {ord}
          BY <4>2, <4>3 DEF OrdersOf
        <5>2. \/ Cardinality(OrdersOf(s)') = o + 1
              \/ Cardinality(OrdersOf(s)') = o
          BY <3>1, <5>1, FS_AddElement DEF o
        <5>3. one \notin Spent(s) /\ Spent(s) \cup {one} \in SUBSET Spent(s)'
          BY <1>1, <1>3, <4>1, <4>3 DEF Spent, AtWork, Cap, CaptureBusy
        <5>4. Cardinality(Spent(s) \cup {one}) = u + 1
          BY <3>1, <5>3, FS_AddElement DEF u
        <5>5. Cardinality(Spent(s) \cup {one}) <= v
          BY <3>2, <5>3, FS_Subset DEF v
        <5>6. u + 1 <= v
          BY <5>4, <5>5
        <5>7. Within(o + 1, q, crashes', v) /\ Within(o, q, crashes', v)
          BY <1>1, <3>3, <3>4, <3>13, <5>6, WithinStep
        <5> QED BY <3>9, <3>13, <5>2, <5>7 DEF Within, q, v
      <4>4. CASE cap[r].src # s
        <5>1. OrdersOf(s)' = OrdersOf(s)
          BY <4>2, <4>4 DEF OrdersOf
        <5>2. Spent(s) \in SUBSET Spent(s)'
          BY <1>1, <1>3, <4>4 DEF Spent, AtWork
        <5>3. u <= v
          BY <3>2, <5>2, FS_Subset DEF u, v
        <5>4. Within(o, q, crashes', v)
          BY <1>1, <3>3, <3>4, <3>13, <5>3, WithinStep
        <5> QED BY <3>9, <3>13, <5>1, <5>4 DEF Within, o, q, v
      <4> QED BY <4>3, <4>4
    <3> QED BY <1>3, <3>10, <3>11, <3>12, <3>13 DEF OneOrder
  <2> QED BY <2>1, <2>2 DEF OrderInv
<1> QED BY <1>2, <1>3, OrderCases

\* Whatever happens, Save Page Now gets at most Attempts orders for every row,
\* every run at work and every run that died.  The row is counted as one of its
\* own, which two rows of a run with the same time would not be: hence the
\* hypothesis on the clocks.
THEOREM OrdersAreBounded ==
  ASSUME MaxSkew <= CapturedCooldown, MaxSkew <= FailedCooldown
  PROVE  Spec => []OrdersBounded
<1>1. Init => CallInv /\ CoolInv /\ OrderInv
  <2> SUFFICES ASSUME Init PROVE CallInv /\ CoolInv /\ OrderInv
    OBVIOUS
  <2>1. CallInv /\ CoolInv
    BY DEF Init, LedgerInit, CaptureInit, CaptureIdleRun, CaptureFresh, CallInv,
       CoolInv, CooldownRespected, CoolHand, CaptureBusy
  <2>2. orders = {} /\ request = {} /\ Busy = {} /\ crashes = 0
        /\ \A s : AtWork(s) = {}
    BY DEF Init, LedgerInit, CaptureInit, CaptureIdleRun, CaptureFresh, Busy,
       AtWork, CaptureBusy
  <2>3. \A s : OrdersOf(s) = {} /\ Requests(s) = {} /\ Spent(s) = {}
    BY <2>2 DEF OrdersOf, Requests, Spent
  <2>4. Within(0, 0, 0, 0)
    BY CaptureAssumption DEF Within
  <2>5. Cardinality({}) = 0 /\ IsFiniteSet({})
    BY FS_EmptySet
  <2> QED BY <2>1, <2>2, <2>3, <2>4, <2>5 DEF OrderInv, Countable
<1>2. IInv /\ CallInv /\ CoolInv /\ OrderInv /\ [Next]_vars
        => CallInv' /\ CoolInv' /\ OrderInv'
  BY CallInvStep, CoolStep, OrderStep
<1>3. IInv /\ OrderInv => OrdersBounded
  <2> SUFFICES ASSUME IInv, OrderInv, NEW s \in source
               PROVE  Cardinality(OrdersOf(s)) <=
                        Attempts * (Cardinality(Requests(s))
                                      + Cardinality(AtWork(s)) + crashes)
    BY DEF OrdersBounded
  <2>1. s \in Source /\ crashes \in Nat
    BY DEF IInv, Tables, LedgerTypeOK
  <2>2. PICK o \in Nat : o = Cardinality(OrdersOf(s))
    BY <2>1, SpentBounded, FS_CardinalityType DEF OrderInv
  <2>3. PICK q \in Nat : q = Cardinality(Requests(s))
    BY <2>1, SpentBounded, FS_CardinalityType DEF OrderInv
  <2>4. PICK u \in Nat : u = Cardinality(Spent(s))
    BY <2>1, SpentBounded, FS_CardinalityType DEF OrderInv
  <2>5. PICK w \in Nat : w = Cardinality(AtWork(s))
    BY <2>1, SpentBounded, FS_CardinalityType DEF OrderInv
  <2>6. u <= w * Attempts
    BY <2>1, <2>4, <2>5, SpentBounded DEF OrderInv
  <2>7. o <= Attempts * (q + crashes) + u
    BY <2>1, <2>2, <2>3, <2>4 DEF OrderInv, Within
  <2>8. Attempts * (q + w + crashes) = Attempts * (q + crashes) + w * Attempts
    BY <2>1, CaptureAssumption
  <2>9. /\ Attempts * (q + crashes) \in Nat /\ w * Attempts \in Nat
    BY <2>1, CaptureAssumption
  <2> QED BY <2>2, <2>3, <2>5, <2>6, <2>7, <2>8, <2>9
<1> QED BY <1>1, <1>2, <1>3, Inductive, PTL DEF Spec
=============================================================================
