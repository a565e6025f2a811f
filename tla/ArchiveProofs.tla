----------------------------- MODULE ArchiveProofs -----------------------------
(***************************************************************************)
(* The steps of capture and attest keep the inductive invariant.           *)
(***************************************************************************)
EXTENDS SecureProofs

\* The world may do what it likes as long as the index forgets nothing.
LEMMA TablesWorld ==
  ASSUME Tables, WorldTypeOK', cdx \subseteq cdx', UNCHANGED ledgerVars
  PROVE  Tables'
<1>1. LedgerTypeOK' /\ RowsRooted' /\ UniqueHash' /\ RefsResolve'
  BY DEF Tables, LedgerTypeOK, RowsRooted, UniqueHash, RefsResolve, Versions,
         ledgerVars, wormVars, tableVars
<1>2. TokensBind' /\ OneTokenPerTsa' /\ AttestationsProved' /\ OneAttestation'
  BY DEF Tables, TokensBind, OneTokenPerTsa, AttestationsProved, OneAttestation,
         Versions, ledgerVars, wormVars, tableVars
<1>3. SpansAttested' /\ SpansVerbatim' /\ SpansComplete'
  BY DEF Tables, SpansAttested, SpansVerbatim, SpansComplete, SpansOf, Attested,
         ledgerVars, tableVars
<1> QED BY <1>1, <1>2, <1>3 DEF Tables

LEMMA ArchivedTyped ==
  ASSUME WorldTypeOK, NEW u \in Urls, Archived(u)
  PROVE  WorldTypeOK' /\ UNCHANGED cdx
  BY DEF Archived, WorldTypeOK, Snapshot

-----------------------------------------------------------------------------
(* capture *)

\* Only the run that takes a step is disturbed by it.
LEMMA CaptureLocal ==
  ASSUME CaptureInv, UNCHANGED source, orders' \subseteq Order,
         NEW r \in CaptureRuns, NEW new \in Cap, cap' = [cap EXCEPT ![r] = new],
         new.todo \subseteq source,
         new.pc \notin {"idle", "selected"} => new.src \in source,
         new.pc \in {"hashed", "posting"} => new.tries < Attempts
  PROVE  CaptureInv'
  BY DEF CaptureInv, CaptureTypeOK, CaptureHand

LEMMA CaptureFreshTyped ==
  ASSUME NEW pc \in CaptureBetween \cup CaptureBusy \cup {"idle"},
         NEW todo \in SUBSET Source, NEW src \in Source \cup {None}
  PROVE  CaptureFresh(pc, todo, src) \in Cap
<1>1. 0 \in 0..Attempts
  BY CaptureAssumption
<1> QED BY <1>1 DEF Cap, CaptureFresh

LEMMA CaptureSelectInv ==
  ASSUME Tables, CaptureInv, NEW r \in CaptureRuns, CaptureSelect(r)
  PROVE  CaptureInv'
<1>0. PICK now \in 0..(clock + MaxSkew) :
        cap' = [cap EXCEPT ![r] =
                  CaptureFresh("selected", Oldest(CapturePending(now)), None)]
  BY DEF CaptureSelect
<1> DEFINE new == CaptureFresh("selected", Oldest(CapturePending(now)), None)
<1>1. Oldest(CapturePending(now)) \subseteq source /\ source \subseteq Source
  BY OldestSubset DEF CapturePending, Tables, LedgerTypeOK
<1>2. new \in Cap
  BY <1>1, CaptureFreshTyped DEF CaptureBetween
<1>3. new.pc = "selected" /\ new.todo \subseteq source
  BY <1>1 DEF CaptureFresh
<1>4. cap' = [cap EXCEPT ![r] = new]
  BY <1>0
<1>5. UNCHANGED source /\ orders' \subseteq Order
  BY DEF CaptureSelect, CaptureInv, CaptureTypeOK, ledgerVars, tableVars
<1> HIDE DEF new
<1> QED BY <1>2, <1>3, <1>4, <1>5, CaptureLocal

LEMMA CaptureReadInv ==
  ASSUME Tables, CaptureInv, NEW r \in CaptureRuns, NEW s \in cap[r].todo,
         CaptureRead(r, s)
  PROVE  CaptureInv'
<1> DEFINE new == CaptureFresh(CheckBytes(s), cap[r].todo \ {s}, s)
<1>1. /\ s \in source /\ cap[r].todo \subseteq source
      /\ source \subseteq Source
  BY DEF CaptureInv, CaptureHand, Tables, LedgerTypeOK
<1>2. CheckBytes(s) \in {"hashed", "hash_mismatch", "worm_missing"}
  BY <1>1, ReadLemma
<1>3. new \in Cap
  BY <1>1, <1>2, CaptureFreshTyped DEF CaptureBetween, CaptureOutcome, CaptureBusy
<1>4. /\ new.pc # "posting" /\ new.tries < Attempts
      /\ new.todo \subseteq source /\ new.src \in source
  BY <1>1, <1>2, CaptureAssumption DEF CaptureFresh
<1>5. cap' = [cap EXCEPT ![r] = new]
  BY DEF CaptureRead
<1>6. UNCHANGED source /\ orders' \subseteq Order
  BY DEF CaptureRead, CaptureInv, CaptureTypeOK, ledgerVars, tableVars
<1> HIDE DEF new
<1> QED BY <1>3, <1>4, <1>5, <1>6, CaptureLocal

\* The steps that move a run on with the source in hand.
LEMMA CaptureMove ==
  ASSUME CaptureInv, NEW r \in CaptureRuns, cap[r].pc \in CaptureBusy,
         UNCHANGED source, orders' \subseteq Order,
         NEW new \in Cap, cap' = [cap EXCEPT ![r] = new],
         new.todo = cap[r].todo, new.src = cap[r].src,
         new.pc \in {"hashed", "posting"} => new.tries < Attempts
  PROVE  CaptureInv'
<1>1. cap[r].todo \subseteq source /\ cap[r].src \in source
  BY DEF CaptureInv, CaptureHand, CaptureBusy
<1> QED BY <1>1, CaptureLocal

LEMMA CaptureInHand ==
  ASSUME Tables, CaptureInv, NEW r \in CaptureRuns
  PROVE  /\ orders \subseteq Order /\ clock \in Nat
         /\ cap[r] \in Cap /\ cap[r].tries \in 0..Attempts
         /\ Attempts \in Nat \ {0} /\ r \in Runs
         /\ cap[r].result \in {"captured", "failed"} /\ cap[r].at \in Nat
         /\ cap[r].pc \in {"hashed", "posting"} => cap[r].tries < Attempts
         /\ cap[r].pc \in CaptureBusy => cap[r].src \in Source
<1>1. cap[r] \in Cap /\ orders \subseteq Order /\ clock \in Nat
  BY DEF CaptureInv, CaptureTypeOK, Tables, WorldTypeOK
<1>2. /\ cap[r].tries \in 0..Attempts
      /\ cap[r].result \in {"captured", "failed"} /\ cap[r].at \in Nat
  BY <1>1 DEF Cap
<1>3. cap[r].pc \in CaptureBusy => cap[r].src \in Source
  BY DEF CaptureInv, CaptureHand, CaptureBusy, Tables, LedgerTypeOK
<1>4. cap[r].pc \in {"hashed", "posting"} => cap[r].tries < Attempts
  BY DEF CaptureInv, CaptureHand
<1> QED BY <1>1, <1>2, <1>3, <1>4, CaptureAssumption

LEMMA CaptureLookupInv ==
  ASSUME Tables, CaptureInv, NEW r \in CaptureRuns,
         CaptureLookup(r) \/ CaptureLookupError(r)
  PROVE  CaptureInv'
<1>1. PICK pc \in {"already_archived", "posting", "error"} :
        cap' = [cap EXCEPT ![r] = [cap[r] EXCEPT !.pc = pc]]
  BY DEF CaptureLookup, CaptureLookupError, CaptureGoto
<1> DEFINE new == [cap[r] EXCEPT !.pc = pc]
<1>2. UNCHANGED <<source, orders>> /\ cap[r].pc = "hashed"
  BY DEF CaptureLookup, CaptureLookupError, ledgerVars, tableVars
<1>3. cap[r] \in Cap /\ orders \subseteq Order /\ cap[r].tries < Attempts
  BY <1>2, CaptureInHand
<1>4. /\ new \in Cap /\ new.todo = cap[r].todo /\ new.src = cap[r].src
      /\ new.tries < Attempts
  BY <1>3 DEF Cap, CaptureBetween, CaptureOutcome, CaptureBusy
<1>5. cap[r].pc \in CaptureBusy
  BY <1>2 DEF CaptureBusy
<1>6. cap' = [cap EXCEPT ![r] = new]
  BY <1>1
<1> HIDE DEF new
<1> QED BY <1>2, <1>3, <1>4, <1>5, <1>6, CaptureMove

\* One more order, with a number of its own: with_retry stops at Attempts.
LEMMA CapturePostInv ==
  ASSUME Tables, CaptureInv, NEW r \in CaptureRuns, CapturePost(r)
  PROVE  CaptureInv'
<1> DEFINE new == [cap[r] EXCEPT !.pc = "ordered",
                                 !.tries = cap[r].tries + 1]
<1>0. cap' = [cap EXCEPT ![r] = new]
  BY DEF CapturePost
<1>1. /\ UNCHANGED source /\ cap[r].pc = "posting"
      /\ orders' = orders \cup {[src |-> cap[r].src, by |-> r, at |-> clock,
                                 try |-> cap[r].tries + 1]}
  BY DEF CapturePost, ledgerVars, tableVars
<1>2. /\ cap[r] \in Cap /\ orders \subseteq Order /\ clock \in Nat
      /\ cap[r].tries + 1 \in 1..Attempts /\ cap[r].tries + 1 \in 0..Attempts
      /\ cap[r].src \in Source /\ cap[r].pc \in CaptureBusy
  <2>1. cap[r].pc = "posting" /\ cap[r].pc \in CaptureBusy
    BY DEF CapturePost, CaptureBusy
  <2>2. /\ cap[r].tries \in 0..Attempts /\ cap[r].tries < Attempts
        /\ Attempts \in Nat
    BY <2>1, CaptureInHand
  <2>3. cap[r].tries + 1 \in 1..Attempts /\ cap[r].tries + 1 \in 0..Attempts
    BY <2>2
  <2> QED BY <2>1, <2>3, CaptureInHand
<1>3. /\ new \in Cap /\ new.todo = cap[r].todo /\ new.src = cap[r].src
      /\ new.pc = "ordered"
  BY <1>2 DEF Cap, CaptureBusy
<1>4. orders' \subseteq Order
  BY <1>1, <1>2 DEF Order
<1> HIDE DEF new
<1> QED BY <1>0, <1>1, <1>2, <1>3, <1>4, CaptureMove

LEMMA CaptureExecuteInv ==
  ASSUME Tables, CaptureInv, NEW r \in CaptureRuns, CaptureExecute(r)
  PROVE  CaptureInv'
<1> DEFINE new == [cap[r] EXCEPT !.pc = "executed"]
<1>1. /\ UNCHANGED <<source, orders>> /\ cap[r].pc = "ordered"
      /\ cap' = [cap EXCEPT ![r] = new]
  BY DEF CaptureExecute, CaptureGoto, ledgerVars, tableVars
<1>2. cap[r] \in Cap /\ orders \subseteq Order /\ cap[r].pc \in CaptureBusy
  BY <1>1, CaptureInHand DEF CaptureBusy
<1>3. /\ new \in Cap /\ new.todo = cap[r].todo /\ new.src = cap[r].src
      /\ new.pc = "executed"
  BY <1>2 DEF Cap, CaptureBusy
<1> HIDE DEF new
<1> QED BY <1>1, <1>2, <1>3, CaptureMove

LEMMA CaptureSettleInv ==
  ASSUME Tables, CaptureInv, NEW r \in CaptureRuns,
         CaptureSuccess(r) \/ CapturePermanent(r)
  PROVE  CaptureInv'
<1>1. PICK result \in {"captured", "failed"} :
        cap' = [cap EXCEPT ![r] = [cap[r] EXCEPT !.pc = "settled",
                                                 !.result = result]]
  BY DEF CaptureSuccess, CapturePermanent
<1> DEFINE new == [cap[r] EXCEPT !.pc = "settled", !.result = result]
<1>2. /\ UNCHANGED <<source, orders>>
      /\ cap[r].pc \in {"posting", "ordered", "executed"}
  BY DEF CaptureSuccess, CapturePermanent, ledgerVars, tableVars
<1>3. cap[r] \in Cap /\ orders \subseteq Order /\ cap[r].pc \in CaptureBusy
  BY <1>2, CaptureInHand DEF CaptureBusy
<1>4. /\ new \in Cap /\ new.todo = cap[r].todo /\ new.src = cap[r].src
      /\ new.pc = "settled"
  BY <1>3 DEF Cap, CaptureBusy
<1>5. cap' = [cap EXCEPT ![r] = new]
  BY <1>1
<1> HIDE DEF new
<1> QED BY <1>2, <1>3, <1>4, <1>5, CaptureMove

\* Another attempt begins only below the number of attempts.
LEMMA CaptureRetryInv ==
  ASSUME Tables, CaptureInv, NEW r \in CaptureRuns,
         CapturePostLost(r) \/ CaptureTransient(r)
  PROVE  CaptureInv'
<1>1. /\ UNCHANGED <<source, orders>>
      /\ cap[r].pc \in {"posting", "ordered", "executed"}
  BY DEF CapturePostLost, CaptureTransient, ledgerVars, tableVars
<1>2. /\ cap[r] \in Cap /\ orders \subseteq Order /\ cap[r].pc \in CaptureBusy
      /\ cap[r].tries \in 0..Attempts /\ Attempts \in Nat
      /\ cap[r].pc = "posting" => cap[r].tries + 1 \in 0..Attempts
  BY <1>1, CaptureInHand DEF CaptureBusy
<1>3. PICK n \in 0..Attempts : Retry(r, n)
  BY <1>2 DEF CapturePostLost, CaptureTransient
<1>4. PICK pc \in {"posting", "settled"} :
        /\ pc = "posting" => n < Attempts
        /\ cap' = [cap EXCEPT ![r] = [cap[r] EXCEPT !.pc = pc, !.tries = n,
                                                    !.result = "failed"]]
  BY <1>3 DEF Retry
<1> DEFINE new == [cap[r] EXCEPT !.pc = pc, !.tries = n, !.result = "failed"]
<1>5. /\ new \in Cap /\ new.todo = cap[r].todo /\ new.src = cap[r].src
      /\ new.pc = pc /\ new.tries = n
  BY <1>2 DEF Cap, CaptureBusy
<1>6. new.pc \in {"hashed", "posting"} => new.tries < Attempts
  BY <1>4, <1>5
<1>7. cap' = [cap EXCEPT ![r] = new]
  BY <1>4
<1> HIDE DEF new
<1> QED BY <1>1, <1>2, <1>5, <1>6, <1>7, CaptureMove

LEMMA CaptureFlushInv ==
  ASSUME Tables, CaptureInv, NEW r \in CaptureRuns, CaptureFlush(r)
  PROVE  CaptureInv'
<1> DEFINE new == [cap[r] EXCEPT !.pc = "flushed", !.at = clock]
<1>1. /\ UNCHANGED <<source, orders>> /\ cap[r].pc = "settled"
      /\ cap' = [cap EXCEPT ![r] = new]
  BY DEF CaptureFlush, tableVars
<1>2. cap[r] \in Cap /\ orders \subseteq Order /\ clock \in Nat
      /\ cap[r].pc \in CaptureBusy
  BY <1>1, CaptureInHand DEF CaptureBusy
<1>3. /\ new \in Cap /\ new.todo = cap[r].todo /\ new.src = cap[r].src
      /\ new.pc = "flushed"
  BY <1>2 DEF Cap, CaptureBusy
<1> HIDE DEF new
<1> QED BY <1>1, <1>2, <1>3, CaptureMove

LEMMA CaptureCommitInv ==
  ASSUME Tables, CaptureInv, NEW r \in CaptureRuns, CaptureCommit(r)
  PROVE  CaptureInv'
<1> DEFINE new == [cap[r] EXCEPT !.pc = cap[r].result]
<1>1. /\ UNCHANGED <<source, orders>> /\ cap[r].pc = "flushed"
      /\ cap' = [cap EXCEPT ![r] = new]
  BY DEF CaptureCommit, CaptureGoto
<1>2. cap[r] \in Cap /\ orders \subseteq Order /\ cap[r].pc \in CaptureBusy
      /\ cap[r].result \in {"captured", "failed"}
  BY <1>1, CaptureInHand DEF CaptureBusy
<1>3. /\ new \in Cap /\ new.todo = cap[r].todo /\ new.src = cap[r].src
      /\ new.pc \in {"captured", "failed"}
  BY <1>2 DEF Cap, CaptureBetween, CaptureOutcome
<1> HIDE DEF new
<1> QED BY <1>1, <1>2, <1>3, CaptureMove

LEMMA CaptureIdleInv ==
  ASSUME Tables, CaptureInv, NEW r \in CaptureRuns,
         CaptureFinish(r) \/ CaptureAbort(r)
  PROVE  CaptureInv'
<1>1. UNCHANGED <<source, orders>> /\ cap' = [cap EXCEPT ![r] = CaptureIdleRun]
  BY DEF CaptureFinish, CaptureAbort, ledgerVars, tableVars
<1>2. CaptureIdleRun \in Cap
  BY CaptureFreshTyped DEF CaptureIdleRun
<1>3. CaptureIdleRun.pc = "idle" /\ CaptureIdleRun.todo = {}
  BY DEF CaptureIdleRun, CaptureFresh
<1>4. orders \subseteq Order
  BY CaptureInHand
<1> QED BY <1>1, <1>2, <1>3, <1>4, CaptureLocal

\* The order is carried out in the world, the row goes into a table no other
\* row depends on: the tables stay right.
LEMMA CaptureTables ==
  ASSUME Tables, CaptureInv,
         CaptureNext \/ (\E r \in CaptureRuns : CaptureAbort(r))
  PROVE  Tables'
<1>0. held \subseteq HeldLock /\ WorldTypeOK
  BY DEF Tables, LedgerTypeOK
<1>1. ASSUME UNCHANGED <<worldVars, ledgerVars>> PROVE Tables'
  BY <1>0, <1>1, TablesFrame DEF ledgerVars
<1>2. ASSUME NEW r \in CaptureRuns, CaptureExecute(r) PROVE Tables'
  <2>1. cap[r].src.url \in Urls
    BY <1>2, CaptureInHand DEF CaptureExecute, CaptureBusy, Source
  <2>2. WorldTypeOK' /\ UNCHANGED cdx
    BY <1>0, <1>2, <2>1, ArchivedTyped DEF CaptureExecute
  <2> QED BY <1>2, <2>2, TablesWorld DEF CaptureExecute
<1>3. ASSUME NEW r \in CaptureRuns, CaptureFlush(r) PROVE Tables'
  <2>1. cap[r].src \in Source /\ r \in Runs
    BY <1>3, CaptureInHand DEF CaptureFlush, CaptureBusy
  <2>2. held' \subseteq HeldLock
    BY <1>0, <1>3, <2>1, HoldTyped DEF CaptureFlush
  <2> QED BY <1>3, <2>2, TablesFrame DEF CaptureFlush
<1>4. ASSUME NEW r \in CaptureRuns, CaptureCommit(r) PROVE Tables'
  <2> DEFINE new == [src |-> cap[r].src, outcome |-> cap[r].result,
                     at |-> cap[r].at, by |-> r]
  <2>1. new \in Request
    BY <1>4, CaptureInHand DEF CaptureCommit, CaptureBusy, Request
  <2>2. /\ request' = request \cup {new} /\ held' \subseteq HeldLock
        /\ UNCHANGED <<worldVars, wormVars, source, created, stamp, attestation,
                       speaker, mandate, span>>
    BY <1>0, <1>4 DEF CaptureCommit, Release
  <2> HIDE DEF new
  <2>3. WorldTypeOK' /\ LedgerTypeOK'
    BY <2>1, <2>2 DEF Tables, WorldTypeOK, LedgerTypeOK, worldVars, wormVars
  <2>4. RowsRooted' /\ UniqueHash' /\ RefsResolve'
    BY <2>2 DEF Tables, RowsRooted, UniqueHash, RefsResolve, Versions, wormVars
  <2>5. TokensBind' /\ OneTokenPerTsa' /\ AttestationsProved' /\ OneAttestation'
    BY <2>2 DEF Tables, TokensBind, OneTokenPerTsa, AttestationsProved,
                OneAttestation, Versions, worldVars, wormVars
  <2>6. SpansAttested' /\ SpansVerbatim' /\ SpansComplete'
    BY <2>2 DEF Tables, SpansAttested, SpansVerbatim, SpansComplete, SpansOf,
                Attested
  <2> QED BY <2>3, <2>4, <2>5, <2>6 DEF Tables
<1>5. ASSUME NEW r \in CaptureRuns, CaptureAbort(r) PROVE Tables'
  <2>1. held' \subseteq HeldLock
    BY <1>0, <1>5 DEF CaptureAbort, Release
  <2> QED BY <1>5, <2>1, TablesFrame DEF CaptureAbort
<1> QED
  BY <1>1, <1>2, <1>3, <1>4, <1>5 DEF CaptureNext, CaptureStep, CaptureSelect,
     CaptureRead, CaptureLookup, CaptureLookupError, CapturePost, CaptureSuccess,
     CapturePermanent, CapturePostLost, CaptureTransient, CaptureFinish

\* Every step of capture keeps the tables right and its runs in order.
LEMMA CaptureKeeps ==
  ASSUME Tables, CaptureInv,
         CaptureNext \/ (\E r \in CaptureRuns : CaptureAbort(r))
  PROVE  Tables' /\ CaptureInv'
<1>1. ASSUME NEW r \in CaptureRuns, CaptureStep(r) PROVE CaptureInv'
  BY <1>1, CaptureReadInv, CaptureLookupInv, CapturePostInv, CaptureExecuteInv,
     CaptureSettleInv, CaptureRetryInv, CaptureFlushInv, CaptureCommitInv,
     CaptureIdleInv DEF CaptureStep
<1>2. CaptureInv'
  BY <1>1, CaptureSelectInv, CaptureIdleInv DEF CaptureNext
<1> QED BY <1>2, CaptureTables

\* What every step of capture, an abort included, leaves to the other passes.
LEMMA CaptureOthers ==
  ASSUME CaptureNext \/ (\E r \in CaptureRuns : CaptureAbort(r))
  PROVE  /\ ReparseLocksKept
         /\ UNCHANGED <<cdx, worm, source, stamp, attestation, span>>
<1>1. ReparseLocksKept
  BY DEF ReparseLocksKept, CaptureNext, CaptureStep, CaptureSelect, CaptureRead,
     CaptureLookup, CaptureLookupError, CapturePost, CaptureExecute,
     CaptureSuccess, CapturePermanent, CapturePostLost, CaptureTransient,
     CaptureFlush, CaptureCommit, CaptureFinish, CaptureAbort, Hold, Release,
     ledgerVars
<1>2. UNCHANGED <<cdx, worm, source, stamp, attestation, span>>
  BY DEF CaptureNext, CaptureStep, CaptureSelect, CaptureRead,
     CaptureLookup, CaptureLookupError, CapturePost, CaptureExecute, Archived,
     CaptureSuccess, CapturePermanent, CapturePostLost, CaptureTransient,
     CaptureFlush, CaptureCommit, CaptureFinish, CaptureAbort, worldVars,
     ledgerVars, wormVars, tableVars
<1> QED BY <1>1, <1>2

-----------------------------------------------------------------------------
(* attest *)

\* A step of one run that writes nothing and does not end in a flush.
LEMMA AttestLocal ==
  ASSUME Tables, AttestInv, held' \subseteq HeldLock,
         UNCHANGED <<worldVars, wormVars, tableVars>>,
         NEW r \in AttestRuns, NEW new \in Att, att' = [att EXCEPT ![r] = new],
         new.todo \subseteq source,
         new.pc \notin {"idle", "selected"} => new.src \in source,
         new.pc = "trying" => new.cands \subseteq {c \in cdx : c.url = new.src.url},
         new.pc = "matched" =>
           /\ new.sha = new.src.hash /\ new.snap \in cdx
           /\ new.snap.url = new.src.url /\ new.snap.bytes = new.src.hash,
         new.pc \in {"attested", "conflict"} => Attested(new.src),
         new.pc \notin {"flushed", "refused"}
  PROVE  Tables' /\ AttestInv'
<1>1. Tables'
  BY TablesFrame
<1>2. AttestTypeOK'
  BY DEF AttestInv, AttestTypeOK
<1>3. att'[r] = new /\ \A q \in AttestRuns \ {r} : att'[q] = att[q]
  BY DEF AttestInv, AttestTypeOK
<1>4. AttestHand(r)'
  BY <1>3 DEF AttestHand, Attested, worldVars, tableVars
<1>5. ASSUME NEW q \in AttestRuns, q # r PROVE AttestHand(q)'
  BY <1>3, <1>5 DEF AttestInv, AttestHand, Attested, worldVars, tableVars
<1> QED BY <1>1, <1>2, <1>4, <1>5 DEF AttestInv

LEMMA AttestFreshTyped ==
  ASSUME NEW pc \in AttestBetween \cup AttestBusy \cup {"idle"},
         NEW todo \in SUBSET Source, NEW src \in Source \cup {None}
  PROVE  AttestFresh(pc, todo, src) \in Att
  BY DEF Att, AttestFresh

\* What a run has in hand, with its types.
LEMMA AttestInHand ==
  ASSUME Tables, AttestInv, NEW r \in AttestRuns
  PROVE  /\ att[r] \in Att /\ AttestHand(r) /\ r \in Runs
         /\ att[r].todo \subseteq source /\ source \subseteq Source
         /\ cdx \subseteq Snapshot /\ held \subseteq HeldLock
         /\ att[r].pc \in AttestBusy =>
              /\ att[r].src \in source /\ att[r].src \in Source
              /\ att[r].src.hash \in Bytes
<1>1. att[r] \in Att /\ AttestHand(r) /\ att[r].todo \subseteq source
  BY DEF AttestInv, AttestTypeOK, AttestHand
<1>2. source \subseteq Source /\ cdx \subseteq Snapshot /\ held \subseteq HeldLock
  BY DEF Tables, LedgerTypeOK, WorldTypeOK
<1>3. att[r].pc \in AttestBusy => att[r].src \in source
  BY <1>1 DEF AttestHand, AttestBusy
<1> QED BY <1>1, <1>2, <1>3, AttestAssumption DEF Source

LEMMA AttestSelectInv ==
  ASSUME Tables, AttestInv, NEW r \in AttestRuns, AttestSelect(r)
  PROVE  Tables' /\ AttestInv'
<1> DEFINE new == AttestFresh("selected", Oldest(AttestPending), None)
<1>1. Oldest(AttestPending) \subseteq source /\ source \subseteq Source
  BY OldestSubset DEF AttestPending, Tables, LedgerTypeOK
<1>2. new \in Att
  BY <1>1, AttestFreshTyped DEF AttestBetween
<1>3. new.pc = "selected" /\ new.todo \subseteq source
  BY <1>1 DEF AttestFresh
<1>4. att' = [att EXCEPT ![r] = new]
  BY DEF AttestSelect
<1>5. held' \subseteq HeldLock /\ UNCHANGED <<worldVars, wormVars, tableVars>>
  BY AttestInHand DEF AttestSelect, ledgerVars
<1> HIDE DEF new
<1> QED BY <1>2, <1>3, <1>4, <1>5, AttestLocal

LEMMA AttestReadInv ==
  ASSUME Tables, AttestInv, NEW r \in AttestRuns, NEW s \in att[r].todo,
         AttestRead(r, s)
  PROVE  Tables' /\ AttestInv'
<1> DEFINE new == AttestFresh(CheckBytes(s), att[r].todo \ {s}, s)
<1>1. /\ s \in source /\ att[r].todo \subseteq source
      /\ source \subseteq Source
  BY AttestInHand
<1>2. CheckBytes(s) \in {"hashed", "hash_mismatch", "worm_missing"}
  BY <1>1, ReadLemma
<1>3. new \in Att
  BY <1>1, <1>2, AttestFreshTyped DEF AttestBetween, AttestOutcome, AttestBusy
<1>4. /\ new.pc \in {"hashed", "hash_mismatch", "worm_missing"}
      /\ new.todo \subseteq source /\ new.src \in source
  BY <1>1, <1>2 DEF AttestFresh
<1>5. att' = [att EXCEPT ![r] = new]
  BY DEF AttestRead
<1>6. held' \subseteq HeldLock /\ UNCHANGED <<worldVars, wormVars, tableVars>>
  BY AttestInHand DEF AttestRead, ledgerVars
<1> HIDE DEF new
<1> QED BY <1>3, <1>4, <1>5, <1>6, AttestLocal

\* The candidates are what the index lists for the URL.
LEMMA AttestLookupInv ==
  ASSUME Tables, AttestInv, NEW r \in AttestRuns, AttestLookup(r)
  PROVE  Tables' /\ AttestInv'
<1> DEFINE found == Candidates(att[r].src.url, Sha1[att[r].src.hash])
<1>1. found \subseteq {c \in cdx : c.url = att[r].src.url}
  BY DEF Candidates
<1>2. /\ att[r] \in Att /\ att[r].todo \subseteq source /\ att[r].src \in source
      /\ cdx \subseteq Snapshot
  BY AttestInHand DEF AttestLookup, AttestBusy
<1> HIDE DEF found
<1>3. PICK pc \in {"no_matching_snapshot", "trying"} :
        att' = [att EXCEPT ![r] = [att[r] EXCEPT !.pc = pc, !.cands = found]]
  BY DEF AttestLookup, found
<1> DEFINE new == [att[r] EXCEPT !.pc = pc, !.cands = found]
<1>4. /\ new \in Att /\ new.todo = att[r].todo /\ new.src = att[r].src
      /\ new.pc = pc /\ new.cands = found
  BY <1>1, <1>2 DEF Att, AttestBetween, AttestOutcome, AttestBusy
<1>5. att' = [att EXCEPT ![r] = new]
  BY <1>3
<1>6. held' \subseteq HeldLock /\ UNCHANGED <<worldVars, wormVars, tableVars>>
  BY AttestInHand DEF AttestLookup, ledgerVars
<1> HIDE DEF new
<1> QED BY <1>1, <1>2, <1>4, <1>5, <1>6, AttestLocal

\* A match is a candidate whose bytes, not only their SHA-1, are the source's.
LEMMA AttestFetchInv ==
  ASSUME Tables, AttestInv, NEW r \in AttestRuns, NEW c \in att[r].cands,
         NEW got \in {c.bytes, Garbled}, AttestFetch(r, c, got)
  PROVE  Tables' /\ AttestInv'
<1>1. /\ att[r] \in Att /\ att[r].todo \subseteq source /\ att[r].src \in source
      /\ att[r].src.hash \in Bytes /\ cdx \subseteq Snapshot
      /\ att[r].pc = "trying"
  BY AttestInHand DEF AttestFetch, AttestTry, AttestBusy
<1>2. /\ att[r].cands \subseteq {k \in cdx : k.url = att[r].src.url}
      /\ c \in cdx /\ c.url = att[r].src.url /\ c \in Snapshot
  BY <1>1, AttestInHand DEF AttestHand
<1>3. held' \subseteq HeldLock /\ UNCHANGED <<worldVars, wormVars, tableVars>>
  BY AttestInHand DEF AttestFetch, ledgerVars
<1>4. CASE got = att[r].src.hash
  <2> DEFINE new == [att[r] EXCEPT !.pc = "matched", !.snap = c, !.sha = got]
  <2>1. att' = [att EXCEPT ![r] = new]
    BY <1>4 DEF AttestFetch
  <2>2. c.bytes = att[r].src.hash
    BY <1>1, <1>4, LedgerAssumption
  <2>3. /\ new \in Att /\ new.todo = att[r].todo /\ new.src = att[r].src
        /\ new.pc = "matched" /\ new.snap = c /\ new.sha = got
    BY <1>1, <1>2, <1>4 DEF Att, AttestBusy
  <2> HIDE DEF new
  <2> QED BY <1>1, <1>2, <1>3, <1>4, <2>1, <2>2, <2>3, AttestLocal
<1>5. CASE got # att[r].src.hash
  <2> DEFINE new == [att[r] EXCEPT !.cands = att[r].cands \ {c},
                                   !.tries = att[r].tries + 1, !.mismatch = TRUE]
  <2>1. att' = [att EXCEPT ![r] = new]
    BY <1>5 DEF AttestFetch
  <2>2. att[r].tries + 1 \in Nat /\ att[r].cands \ {c} \in SUBSET Snapshot
    BY <1>1 DEF Att
  <2>3. /\ new \in Att /\ new.todo = att[r].todo /\ new.src = att[r].src
        /\ new.pc = att[r].pc /\ new.cands = att[r].cands \ {c}
    BY <1>1, <2>2 DEF Att
  <2> HIDE DEF new
  <2> QED BY <1>1, <1>2, <1>3, <2>1, <2>3, AttestLocal
<1> QED BY <1>4, <1>5

LEMMA AttestFetchNoneInv ==
  ASSUME Tables, AttestInv, NEW r \in AttestRuns, NEW c \in att[r].cands,
         AttestFetchNone(r, c)
  PROVE  Tables' /\ AttestInv'
<1>1. /\ att[r] \in Att /\ att[r].todo \subseteq source /\ att[r].src \in source
      /\ att[r].pc = "trying"
      /\ att[r].cands \subseteq {k \in cdx : k.url = att[r].src.url}
  BY AttestInHand DEF AttestFetchNone, AttestTry, AttestBusy, AttestHand
<1> DEFINE new == [att[r] EXCEPT !.cands = att[r].cands \ {c},
                                 !.tries = att[r].tries + 1]
<1>2. att' = [att EXCEPT ![r] = new]
  BY DEF AttestFetchNone
<1>3. att[r].tries + 1 \in Nat /\ att[r].cands \ {c} \in SUBSET Snapshot
  BY <1>1 DEF Att
<1>4. /\ new \in Att /\ new.todo = att[r].todo /\ new.src = att[r].src
      /\ new.pc = att[r].pc /\ new.cands = att[r].cands \ {c}
  BY <1>1, <1>3 DEF Att
<1>5. held' \subseteq HeldLock /\ UNCHANGED <<worldVars, wormVars, tableVars>>
  BY AttestInHand DEF AttestFetchNone, ledgerVars
<1> HIDE DEF new
<1> QED BY <1>1, <1>2, <1>4, <1>5, AttestLocal

\* The end of a source without an attestation: an error, or no match.
LEMMA AttestGiveUpInv ==
  ASSUME Tables, AttestInv, NEW r \in AttestRuns,
         AttestError(r) \/ AttestGiveUp(r)
  PROVE  Tables' /\ AttestInv'
<1>1. /\ att[r] \in Att /\ att[r].todo \subseteq source /\ att[r].src \in source
  BY AttestInHand DEF AttestError, AttestGiveUp, AttestBusy
<1>2. PICK pc \in {"error", "bytes_mismatch", "snapshot_unavailable"} :
        att' = [att EXCEPT ![r] = [att[r] EXCEPT !.pc = pc]]
  BY DEF AttestError, AttestGiveUp, AttestGoto
<1> DEFINE new == [att[r] EXCEPT !.pc = pc]
<1>3. /\ new \in Att /\ new.todo = att[r].todo /\ new.src = att[r].src
      /\ new.pc = pc
  BY <1>1 DEF Att, AttestBetween, AttestOutcome
<1>4. att' = [att EXCEPT ![r] = new]
  BY <1>2
<1>5. held' \subseteq HeldLock /\ UNCHANGED <<worldVars, wormVars, tableVars>>
  BY AttestInHand DEF AttestError, AttestGiveUp, ledgerVars
<1> HIDE DEF new
<1> QED BY <1>1, <1>3, <1>4, <1>5, AttestLocal

LEMMA AttestConflictInv ==
  ASSUME Tables, AttestInv, NEW r \in AttestRuns, AttestConflict(r)
  PROVE  Tables' /\ AttestInv'
<1>1. /\ att[r] \in Att /\ att[r].todo \subseteq source /\ att[r].src \in source
      /\ Attested(att[r].src)
  BY AttestInHand DEF AttestConflict, AttestBusy, AttestHand
<1> DEFINE new == [att[r] EXCEPT !.pc = "attested"]
<1>2. att' = [att EXCEPT ![r] = new]
  BY DEF AttestConflict, AttestGoto
<1>3. /\ new \in Att /\ new.todo = att[r].todo /\ new.src = att[r].src
      /\ new.pc = "attested"
  BY <1>1 DEF Att, AttestBetween, AttestOutcome
<1>4. held' \subseteq HeldLock /\ UNCHANGED <<worldVars, wormVars, tableVars>>
  BY AttestInHand DEF AttestConflict, ledgerVars
<1> HIDE DEF new
<1> QED BY <1>1, <1>2, <1>3, <1>4, AttestLocal

LEMMA AttestIdleInv ==
  ASSUME Tables, AttestInv, NEW r \in AttestRuns,
         AttestFinish(r) \/ AttestAbort(r)
  PROVE  Tables' /\ AttestInv'
<1>1. att' = [att EXCEPT ![r] = AttestIdleRun]
  BY DEF AttestFinish, AttestAbort
<1>2. AttestIdleRun \in Att
  BY AttestFreshTyped DEF AttestIdleRun
<1>3. AttestIdleRun.pc = "idle" /\ AttestIdleRun.todo = {}
  BY DEF AttestIdleRun, AttestFresh
<1>4. held' \subseteq HeldLock /\ UNCHANGED <<worldVars, wormVars, tableVars>>
  BY AttestInHand DEF AttestFinish, AttestAbort, Release, ledgerVars
<1> QED BY <1>1, <1>2, <1>3, <1>4, AttestLocal

\* Past the flush the source has no attestation, and no other run is past the
\* flush with it; the trigger has nothing to refuse.
LEMMA AttestFlushInv ==
  ASSUME Tables, AttestInv, NEW r \in AttestRuns, AttestFlush(r)
  PROVE  Tables' /\ AttestInv'
<1>1. /\ att[r].src \in source /\ att[r].src \in Source /\ r \in Runs
      /\ att[r] \in Att /\ att[r].pc = "matched" /\ held \subseteq HeldLock
      /\ att[r].sha = att[r].src.hash /\ AttestHand(r)
      /\ UNCHANGED <<worldVars, wormVars, tableVars>>
  BY AttestInHand DEF AttestFlush, AttestBusy, AttestHand
<1>2. PICK l \in {"conflict", "flushed"} :
        att' = [att EXCEPT ![r] = [att[r] EXCEPT !.pc = l]]
  BY <1>1 DEF AttestFlush, AttestGoto
<1>3. held' \subseteq HeldLock
  <2>1. held' = held \/ Hold("attest", r, att[r].src, "key share")
    BY DEF AttestFlush
  <2> QED BY <1>1, <2>1, HoldTyped
<1>4. Tables'
  BY <1>1, <1>3, TablesFrame
<1> DEFINE new == [att[r] EXCEPT !.pc = l]
<1>5. /\ new \in Att /\ new.todo = att[r].todo /\ new.src = att[r].src
      /\ new.snap = att[r].snap /\ new.sha = att[r].sha /\ new.pc = l
  BY <1>1, <1>2 DEF Att, AttestBusy
<1>6. att' = [att EXCEPT ![r] = new]
  BY <1>2
<1> HIDE DEF new
<1>7. AttestTypeOK' /\ att'[r] = new /\ \A q \in AttestRuns \ {r} : att'[q] = att[q]
  BY <1>5, <1>6 DEF AttestInv, AttestTypeOK
<1>8. \/ /\ l = "conflict"
         /\ Attested(att[r].src)
      \/ /\ l = "flushed"
         /\ ~Attested(att[r].src)
         /\ \A q \in AttestRuns \ {r} :
              att[q].pc = "flushed" => att[q].src # att[r].src
  <2>1. att'[r].pc = l
    BY <1>5, <1>7
  <2>2. att' = [att EXCEPT ![r].pc = "conflict"] => att'[r].pc = "conflict"
    BY DEF AttestInv, AttestTypeOK, Att
  <2>3. att' = [att EXCEPT ![r].pc = "flushed"] => att'[r].pc = "flushed"
    BY DEF AttestInv, AttestTypeOK, Att
  <2> QED BY <1>1, <2>1, <2>2, <2>3 DEF AttestFlush, AttestGoto
<1>9. AttestHand(r)'
  BY <1>1, <1>5, <1>7, <1>8 DEF AttestHand, AttestBusy, Attested, worldVars,
     tableVars
<1>10. ASSUME NEW q \in AttestRuns, q # r PROVE AttestHand(q)'
  BY <1>1, <1>5, <1>7, <1>8, <1>10 DEF AttestInv, AttestHand, Attested,
     worldVars, tableVars
<1> QED BY <1>4, <1>7, <1>9, <1>10 DEF AttestInv

\* The commit: the attestation is true, and the only one of its source.
LEMMA AttestCommitInv ==
  ASSUME Tables, AttestInv, NEW r \in AttestRuns, AttestCommit(r)
  PROVE  Tables' /\ AttestInv'
<1> DEFINE row == NewAttestation(r)
<1>0. /\ attestation' = attestation \cup {row} /\ held' \subseteq HeldLock
      /\ UNCHANGED <<worldVars, wormVars, source, created, stamp, request,
                     speaker, mandate, span>>
  BY DEF AttestCommit, Release, Tables, LedgerTypeOK
<1>1. /\ att[r].src \in source /\ att[r] \in Att /\ AttestHand(r)
      /\ att[r].src \in Source /\ cdx \subseteq Snapshot
      /\ att[r].src.hash \in Bytes /\ att[r].pc = "flushed" /\ r \in Runs
  BY AttestInHand, AttestAssumption DEF AttestCommit, AttestBusy
<1>2. /\ row \in Attestation /\ row.src = att[r].src
      /\ row.sha = row.src.hash /\ row.snap \in cdx
      /\ row.snap.url = row.src.url /\ row.snap.bytes = row.src.hash
  BY <1>1 DEF AttestHand, NewAttestation, Attestation
<1>3. \A a \in attestation : a.src # row.src
  BY <1>1, <1>2 DEF AttestHand, Attested
<1> HIDE DEF row
<1>4. WorldTypeOK' /\ LedgerTypeOK'
  BY <1>0, <1>2 DEF Tables, WorldTypeOK, LedgerTypeOK, worldVars, wormVars
<1>5. RowsRooted' /\ UniqueHash' /\ RefsResolve' /\ TokensBind'
      /\ OneTokenPerTsa'
  BY <1>0, <1>1, <1>2 DEF Tables, RowsRooted, UniqueHash, RefsResolve,
     TokensBind, OneTokenPerTsa, Versions, wormVars
<1>6. AttestationsProved' /\ OneAttestation'
  BY <1>0, <1>2, <1>3 DEF Tables, AttestationsProved, OneAttestation, worldVars
<1>7. SpansAttested' /\ SpansVerbatim' /\ SpansComplete'
  BY <1>0 DEF Tables, SpansAttested, SpansVerbatim, SpansComplete, SpansOf,
     Attested
<1>8. Tables'
  BY <1>4, <1>5, <1>6, <1>7 DEF Tables
<1> DEFINE new == [att[r] EXCEPT !.pc = "attested"]
<1>9. att' = [att EXCEPT ![r] = new]
  BY DEF AttestCommit, AttestGoto
<1>10. /\ new \in Att /\ new.todo = att[r].todo /\ new.src = att[r].src
       /\ new.pc = "attested"
  BY <1>1 DEF Att, AttestBetween, AttestOutcome
<1> HIDE DEF new
<1>11. AttestTypeOK' /\ att'[r] = new /\ \A q \in AttestRuns \ {r} : att'[q] = att[q]
  BY <1>9, <1>10 DEF AttestInv, AttestTypeOK
<1>12. \A s : Attested(s) => Attested(s)'
  BY <1>0 DEF Attested
<1>13. Attested(att[r].src)'
  <2>1. att[r].src = row.src /\ row \in attestation'
    BY <1>0, <1>2
  <2>2. \E a \in attestation' : a.src = att[r].src
    BY <2>1
  <2>3. att'[r].src = att[r].src
    BY <1>10, <1>11
  <2> QED BY <2>2, <2>3 DEF Attested
<1>14. AttestHand(r)'
  <2>1. att'[r].pc = "attested" /\ att'[r].todo \subseteq source' /\ att'[r].src \in source'
    BY <1>0, <1>1, <1>10, <1>11 DEF AttestHand
  <2>2. Attested(att[r].src)' /\ att'[r].src = att[r].src
    BY <1>10, <1>11, <1>13
  <2> QED BY <2>1, <2>2 DEF AttestHand, Attested
<1>15. ASSUME NEW q \in AttestRuns, q # r PROVE AttestHand(q)'
  <2>1. att'[q] = att[q] /\ AttestHand(q)
    BY <1>11, <1>15 DEF AttestInv
  <2>2. att[q].pc = "flushed" => att[q].src # att[r].src
    BY <1>1, <1>15 DEF AttestHand
  <2>3. att[q].pc = "flushed" => ~Attested(att[q].src)'
    BY <1>0, <1>2, <2>1, <2>2 DEF AttestHand, Attested
  <2>4. \A p \in AttestRuns :
          att'[p].pc = "flushed" => att[p].pc = "flushed" /\ att'[p] = att[p]
    BY <1>10, <1>11
  <2>5. UNCHANGED <<source, cdx>>
    BY <1>0 DEF worldVars
  <2> QED BY <1>12, <2>1, <2>3, <2>4, <2>5 DEF AttestHand
<1> QED BY <1>8, <1>11, <1>14, <1>15 DEF AttestInv

\* Every step of attest keeps the tables right and its runs in order.
LEMMA AttestKeeps ==
  ASSUME Tables, AttestInv,
         AttestNext \/ (\E r \in AttestRuns : AttestAbort(r))
  PROVE  Tables' /\ AttestInv'
<1>1. ASSUME NEW r \in AttestRuns, AttestStep(r)
      PROVE  Tables' /\ AttestInv'
  BY <1>1, AttestReadInv, AttestLookupInv, AttestGiveUpInv, AttestFetchInv,
     AttestFetchNoneInv, AttestFlushInv, AttestCommitInv, AttestConflictInv,
     AttestIdleInv DEF AttestStep
<1> QED BY <1>1, AttestSelectInv, AttestIdleInv DEF AttestNext

\* What every step of attest, an abort included, leaves to the other passes.
LEMMA AttestOthers ==
  ASSUME AttestNext \/ (\E r \in AttestRuns : AttestAbort(r))
  PROVE  /\ ReparseLocksKept /\ attestation \subseteq attestation'
         /\ UNCHANGED <<cdx, worm, source, stamp, span>>
<1>1. ReparseLocksKept
  BY DEF ReparseLocksKept, AttestNext, AttestStep, AttestSelect, AttestRead,
     AttestLookup, AttestError, AttestFetch, AttestFetchNone, AttestGiveUp,
     AttestFlush, AttestCommit, AttestConflict, AttestFinish, AttestAbort, Hold,
     Release, ledgerVars
<1>2. /\ attestation \subseteq attestation'
      /\ UNCHANGED <<cdx, worm, source, stamp, span>>
  BY DEF AttestNext, AttestStep, AttestSelect, AttestRead,
     AttestLookup, AttestError, AttestFetch, AttestFetchNone, AttestGiveUp,
     AttestFlush, AttestCommit, AttestConflict, AttestFinish, AttestAbort,
     worldVars, ledgerVars, wormVars, tableVars
<1> QED BY <1>1, <1>2
=============================================================================
