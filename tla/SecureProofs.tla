----------------------------- MODULE SecureProofs -----------------------------
(***************************************************************************)
(* Frame lemmas: what a step may do to the shared state without disturbing *)
(* the invariant of the tables or of a pass that does not take the step.   *)
(* Then: the steps of ingest and timestamp keep the inductive invariant.   *)
(***************************************************************************)
EXTENDS Invariants, TLAPS

\* The tables' invariant speaks of no lock: a step that leaves world, store
\* and tables alone keeps it.
LEMMA TablesFrame ==
  ASSUME Tables, held' \subseteq HeldLock,
         UNCHANGED <<worldVars, wormVars, tableVars>>
  PROVE  Tables'
<1>1. WorldTypeOK' /\ LedgerTypeOK'
  BY DEF Tables, WorldTypeOK, LedgerTypeOK, worldVars, wormVars, tableVars
<1>2. RowsRooted' /\ UniqueHash' /\ RefsResolve'
  BY DEF Tables, RowsRooted, UniqueHash, RefsResolve, Versions, worldVars,
         wormVars, tableVars
<1>3. TokensBind' /\ OneTokenPerTsa' /\ AttestationsProved' /\ OneAttestation'
  BY DEF Tables, TokensBind, OneTokenPerTsa, AttestationsProved,
         OneAttestation, Versions, worldVars, wormVars, tableVars
<1>4. SpansAttested' /\ SpansVerbatim' /\ SpansComplete'
  BY DEF Tables, SpansAttested, SpansVerbatim, SpansComplete, SpansOf, Attested,
         worldVars, wormVars, tableVars
<1> QED BY <1>1, <1>2, <1>3, <1>4 DEF Tables

\* The store only grows: every version keeps the bytes that were put.
WormGrows ==
  /\ Len(worm) <= Len(worm')
  /\ \A v \in Versions : worm'[v] = worm[v]

LEMMA IngestFrame ==
  ASSUME IngestInv, WormGrows, worm \in Seq(Bytes \cup Token),
         worm' \in Seq(Bytes \cup Token), UNCHANGED <<ing, source>>
  PROVE  IngestInv'
  BY DEF IngestInv, IngestTypeOK, IngestHand, WormGrows, Versions, SourceExists

LEMMA StampFrame ==
  ASSUME StampInv, WormGrows, worm \in Seq(Bytes \cup Token),
         worm' \in Seq(Bytes \cup Token), source \subseteq source',
         UNCHANGED <<tsr, stamp>>
  PROVE  StampInv'
  BY DEF StampInv, TimestampTypeOK, StampHand, WormGrows, Versions, SameStamp,
         Stamped

LEMMA CaptureFrame ==
  ASSUME CaptureInv, source \subseteq source', UNCHANGED captureVars
  PROVE  CaptureInv'
  BY DEF CaptureInv, CaptureTypeOK, CaptureHand, captureVars

LEMMA AttestFrame ==
  ASSUME AttestInv, source \subseteq source', cdx \subseteq cdx',
         UNCHANGED <<att, attestation>>
  PROVE  AttestInv'
  BY DEF AttestInv, AttestTypeOK, AttestHand, Attested

\* The locks of reparse are its own.
ReparseLocksKept == \A h \in held : h.job = "reparse" => h \in held'

LEMMA ReparseFrame ==
  ASSUME ReparseInv, source \subseteq source',
         attestation \subseteq attestation', ReparseLocksKept,
         UNCHANGED <<rep, span>>
  PROVE  ReparseInv'
<1> SUFFICES ASSUME NEW r \in ReparseRuns PROVE ReparseHand(r)'
  BY DEF ReparseInv, ReparseTypeOK
<1>1. ReparseHand(r)
  BY DEF ReparseInv
<1>2. ReparseLockOf(r) \in held => ReparseLockOf(r)' \in held'
  BY DEF ReparseLocksKept, ReparseLockOf
<1>3. \A s : (Attested(s) => Attested(s)') /\ (HasSpans(s)' <=> HasSpans(s))
  BY DEF Attested, HasSpans
<1> QED
  BY <1>1, <1>2, <1>3 DEF ReparseHand

\* MinioWormStore.put hands out a fresh version that holds the object, and
\* leaves every other version as it is.
LEMMA PutLemma ==
  ASSUME worm \in Seq(Bytes \cup Token), NEW o \in Bytes \cup Token, Put(o)
  PROVE  /\ worm' \in Seq(Bytes \cup Token)
         /\ WormGrows
         /\ NewRef \in Nat /\ NewRef \in Versions' /\ worm'[NewRef] = o
  BY DEF Put, WormGrows, Versions, NewRef

\* A put disturbs no table.
LEMMA TablesPut ==
  ASSUME Tables, NEW o \in Bytes \cup Token, Put(o),
         UNCHANGED <<worldVars, tableVars, held>>
  PROVE  Tables'
<1>0. worm \in Seq(Bytes \cup Token)
  BY DEF Tables, LedgerTypeOK
<1>1. WormGrows /\ worm' \in Seq(Bytes \cup Token)
  BY <1>0, PutLemma
<1>2. WorldTypeOK' /\ LedgerTypeOK'
  BY <1>1 DEF Tables, WorldTypeOK, LedgerTypeOK, Put, worldVars, tableVars
<1>3. \A v \in Versions : v \in Versions' /\ worm'[v] = worm[v]
  BY <1>0, <1>1 DEF WormGrows, Versions
<1>4. RowsRooted' /\ UniqueHash' /\ RefsResolve'
  BY <1>3 DEF Tables, RowsRooted, UniqueHash, RefsResolve, worldVars, tableVars
<1>5. TokensBind' /\ OneTokenPerTsa' /\ AttestationsProved' /\ OneAttestation'
  BY <1>3 DEF Tables, TokensBind, OneTokenPerTsa, AttestationsProved,
              OneAttestation, worldVars, tableVars
<1>6. SpansAttested' /\ SpansVerbatim' /\ SpansComplete'
  BY DEF Tables, SpansAttested, SpansVerbatim, SpansComplete, SpansOf, Attested,
         worldVars, tableVars
<1> QED BY <1>2, <1>4, <1>5, <1>6 DEF Tables

\* The reference of a source resolves, so what a pass reads for it is a byte
\* string, nothing, or altered bytes.
LEMMA ReadLemma ==
  ASSUME Tables, NEW s \in source
  PROVE  /\ Get(s.ref) \in Bytes \cup {None, Garbled}
         /\ s.hash \in Bytes
         /\ CheckBytes(s) \in {"hashed", "hash_mismatch", "worm_missing"}
         /\ CheckBytes(s) = "hashed" => Get(s.ref) = s.hash
  BY DEF Tables, RefsResolve, LedgerTypeOK, Source, Get, CheckBytes

\* Reading a list keeps within it.
LEMMA OldestSubset ==
  ASSUME NEW S PROVE Oldest(S) \subseteq S
  BY DEF Oldest

LEMMA HoldTyped ==
  ASSUME held \subseteq HeldLock, NEW r \in Runs, NEW s \in Source,
         NEW job \in {"stamp", "capture", "attest", "reparse"},
         NEW mode \in {"key share", "update"}, Hold(job, r, s, mode)
  PROVE  held' \subseteq HeldLock
<1> DEFINE new == [job |-> job, by |-> r, src |-> s, mode |-> mode]
<1>1. new \in HeldLock
  BY DEF HeldLock
<1>2. held' = held \cup {new}
  BY DEF Hold
<1> HIDE DEF new
<1> QED BY <1>1, <1>2

-----------------------------------------------------------------------------
(* ingest *)

\* A step of ingest keeps its own runs in order and the tables right, whatever
\* the other runs of ingest hold.
LEMMA IngestLocal ==
  ASSUME Tables, IngestInv, UNCHANGED <<worldVars, ledgerVars>>,
         NEW r \in IngestRuns, NEW new \in Ing, ing' = [ing EXCEPT ![r] = new],
         IngestHand(r)',
         new.pc # "flushed"
  PROVE  Tables' /\ IngestInv'
<1>1. Tables'
  BY TablesFrame DEF ledgerVars, Tables, LedgerTypeOK
<1>2. ASSUME NEW q \in IngestRuns, q # r PROVE IngestHand(q)'
  BY <1>2 DEF IngestInv, IngestTypeOK, IngestHand, Versions, SourceExists,
              ledgerVars, wormVars, tableVars
<1> QED BY <1>1, <1>2 DEF IngestInv, IngestTypeOK

LEMMA IngestFetchInv ==
  ASSUME Tables, IngestInv, NEW r \in IngestRuns, NEW u \in Urls,
         IngestFetch(r, u)
  PROVE  Tables' /\ IngestInv'
<1> DEFINE new == [pc |-> "fetched", doc |-> live[u], url |-> u, ref |-> 0,
                   text |-> FALSE]
<1>1. new \in Ing /\ live[u] \in Bytes
  BY DEF Tables, WorldTypeOK, Ing, IngestBusy
<1>2. IngestHand(r)'
  BY <1>1 DEF IngestFetch, IngestHand, IngestInv, IngestTypeOK
<1> QED BY <1>1, <1>2, IngestLocal DEF IngestFetch

LEMMA IngestDedupInv ==
  ASSUME Tables, IngestInv, NEW r \in IngestRuns, IngestDedup(r)
  PROVE  Tables' /\ IngestInv'
<1> DEFINE new == [ing[r] EXCEPT !.pc =
                     IF SourceExists(ing[r].doc) THEN "skipped_duplicate"
                                                 ELSE "fresh"]
<1>1. new \in Ing /\ new.pc # "flushed" /\ ing' = [ing EXCEPT ![r] = new]
  BY DEF IngestDedup, IngestGoto, IngestInv, IngestTypeOK, Ing, IngestBusy,
         IngestIdle
<1>2. IngestHand(r)'
  BY <1>1 DEF IngestDedup, IngestHand, IngestInv, IngestTypeOK, SourceExists,
              ledgerVars, tableVars
<1> QED BY <1>1, <1>2, IngestLocal DEF IngestDedup

LEMMA IngestPutInv ==
  ASSUME Tables, IngestInv, NEW r \in IngestRuns, IngestPut(r)
  PROVE  Tables' /\ IngestInv'
<1>1. ing[r].doc \in Bytes /\ worm \in Seq(Bytes \cup Token)
  BY DEF IngestPut, IngestInv, IngestHand, Tables, LedgerTypeOK
<1>2. Tables'
  BY <1>1, TablesPut DEF IngestPut
<1>3. /\ WormGrows /\ NewRef \in Nat
      /\ NewRef \in Versions' /\ worm'[NewRef] = ing[r].doc
  BY <1>1, PutLemma DEF IngestPut
<1>4. PICK text \in BOOLEAN :
        ing' = [ing EXCEPT ![r] = [@ EXCEPT !.pc = "put", !.ref = NewRef,
                                            !.text = text]]
  BY DEF IngestPut
<1>5. IngestTypeOK'
  BY <1>3, <1>4 DEF IngestInv, IngestTypeOK, Ing, IngestBusy
<1>6. IngestHand(r)'
  BY <1>3, <1>4 DEF IngestInv, IngestTypeOK, IngestHand, IngestPut
<1>7. ASSUME NEW q \in IngestRuns, q # r PROVE IngestHand(q)'
  BY <1>1, <1>3, <1>4, <1>7
     DEF IngestInv, IngestTypeOK, IngestHand, WormGrows, Versions, SourceExists,
         IngestPut, tableVars
<1> QED BY <1>2, <1>5, <1>6, <1>7 DEF IngestInv

\* Past the flush the hash is this run's alone: no committed row has it, and
\* the index has made every other run with it wait.
LEMMA IngestFlushInv ==
  ASSUME Tables, IngestInv, NEW r \in IngestRuns, IngestFlush(r)
  PROVE  Tables' /\ IngestInv'
<1>1. Tables'
  BY TablesFrame DEF IngestFlush, ledgerVars, Tables, LedgerTypeOK
<1>2. IngestTypeOK'
  BY DEF IngestFlush, IngestGoto, IngestInv, IngestTypeOK, Ing, IngestBusy
<1>3. IngestHand(r)'
  BY DEF IngestFlush, IngestGoto, IngestInv, IngestTypeOK, IngestHand,
         SourceExists, Versions, ledgerVars, wormVars, tableVars
<1>4. ASSUME NEW q \in IngestRuns, q # r PROVE IngestHand(q)'
  BY <1>4 DEF IngestFlush, IngestGoto, IngestInv, IngestTypeOK, IngestHand,
              SourceExists, Versions, ledgerVars, wormVars, tableVars
<1> QED BY <1>1, <1>2, <1>3, <1>4 DEF IngestInv

LEMMA IngestConflictInv ==
  ASSUME Tables, IngestInv, NEW r \in IngestRuns, IngestConflict(r)
  PROVE  Tables' /\ IngestInv'
<1> DEFINE new == [ing[r] EXCEPT !.pc =
                     IF SourceExists(ing[r].doc) THEN "skipped_duplicate"
                                                 ELSE "raised"]
<1>1. new \in Ing /\ new.pc # "flushed" /\ ing' = [ing EXCEPT ![r] = new]
  BY DEF IngestConflict, IngestGoto, IngestInv, IngestTypeOK, Ing, IngestBusy,
         IngestIdle
<1>2. IngestHand(r)'
  BY <1>1 DEF IngestConflict, IngestHand, IngestInv, IngestTypeOK, SourceExists,
              ledgerVars, tableVars
<1> QED BY <1>1, <1>2, IngestLocal DEF IngestConflict

LEMMA IngestAbortInv ==
  ASSUME Tables, IngestInv, NEW r \in IngestRuns, IngestAbort(r)
  PROVE  Tables' /\ IngestInv'
<1> DEFINE new == [ing[r] EXCEPT !.pc = "idle"]
<1>1. new \in Ing /\ new.pc # "flushed" /\ ing' = [ing EXCEPT ![r] = new]
  BY DEF IngestAbort, IngestGoto, IngestInv, IngestTypeOK, Ing, IngestIdle
<1>2. IngestHand(r)'
  BY <1>1 DEF IngestHand, IngestInv, IngestTypeOK
<1> QED BY <1>1, <1>2, IngestLocal DEF IngestAbort

\* The commit: the new row has a hash and a position no row has, its reference
\* resolves, and nothing hangs from it yet.
LEMMA IngestCommitInv ==
  ASSUME Tables, IngestInv, NEW r \in IngestRuns, IngestCommit(r)
  PROVE  Tables' /\ IngestInv'
<1> DEFINE new == NewSource(r)
<1>0. /\ source' = source \cup {new} /\ created' = created + 1
      /\ created \in Nat
      /\ UNCHANGED <<worldVars, wormVars, stamp, attestation, request, speaker,
                     mandate, span, held>>
  BY DEF IngestCommit, Tables, LedgerTypeOK
<1>1. /\ new \in Source
      /\ new.id = created + 1
      /\ new.hash = ing[r].doc
      /\ new.ref \in Versions /\ worm[new.ref] = new.hash
  BY <1>0 DEF IngestCommit, IngestInv, IngestTypeOK, IngestHand, Ing, Source,
              NewSource
<1>2. ~SourceExists(new.hash)
  BY <1>1 DEF IngestCommit, IngestInv, IngestHand
<1>3. new \notin source
  BY <1>2 DEF SourceExists
<1>4. WorldTypeOK' /\ LedgerTypeOK'
  BY <1>0, <1>1 DEF Tables, WorldTypeOK, LedgerTypeOK, worldVars, wormVars
<1>5. \A s \in source : s.id \in Nat /\ s.id <= created
  BY DEF Tables, RowsRooted, LedgerTypeOK, Source
<1>6. RowsRooted'
  BY <1>0, <1>1, <1>5 DEF Tables, RowsRooted
<1>7. UniqueHash'
  <2> SUFFICES ASSUME NEW s \in source', NEW t \in source',
                      s.hash = t.hash \/ s.id = t.id
               PROVE  s = t
    BY DEF UniqueHash
  <2>1. CASE s \in source /\ t \in source
    BY <2>1 DEF Tables, UniqueHash
  <2>2. \A x \in source : x.hash # new.hash /\ x.id # new.id
    BY <1>0, <1>1, <1>2, <1>5 DEF SourceExists
  <2> HIDE DEF new
  <2> QED BY <1>0, <2>1, <2>2
<1>8. RefsResolve' /\ TokensBind' /\ OneTokenPerTsa' /\ AttestationsProved'
      /\ OneAttestation'
  BY <1>0, <1>1 DEF Tables, RefsResolve, TokensBind, OneTokenPerTsa,
                    AttestationsProved, OneAttestation, Versions, worldVars,
                    wormVars
<1>9. SpansAttested' /\ SpansVerbatim'
  BY <1>0 DEF Tables, SpansAttested, SpansVerbatim, Attested
<1>10. SpansComplete'
  <2>1. \A s : s \notin source => SpansOf(s)' = {}
    BY <1>0 DEF Tables, RowsRooted, SpansOf
  <2>2. \A s \in source : SpansOf(s)' = SpansOf(s)
    BY <1>0 DEF SpansOf
  <2> SUFFICES ASSUME NEW s \in source', SpansOf(s)' # {}
               PROVE  /\ {p.pos : p \in SpansOf(s)'} = Dated(s.hash)
                      /\ \A p, q \in SpansOf(s)' : p.pos = q.pos => p = q
    BY DEF SpansComplete
  <2>3. s \in source
    BY <2>1
  <2> QED BY <2>2, <2>3 DEF Tables, SpansComplete
<1>11. Tables'
  BY <1>4, <1>6, <1>7, <1>8, <1>9, <1>10 DEF Tables
<1>12. IngestTypeOK'
  BY DEF IngestCommit, IngestGoto, IngestInv, IngestTypeOK, Ing, IngestIdle
<1>13. IngestHand(r)'
  BY <1>0, <1>1 DEF IngestCommit, IngestGoto, IngestInv, IngestTypeOK,
                    IngestHand, SourceExists
<1>14. ASSUME NEW q \in IngestRuns, q # r PROVE IngestHand(q)'
  <2>1. ing'[q] = ing[q]
    BY <1>14 DEF IngestCommit, IngestGoto, IngestInv, IngestTypeOK
  <2>2. ing[q].pc = "flushed" => ing[q].doc # new.hash
    BY <1>1, <1>14 DEF IngestInv, IngestHand, IngestCommit
  <2>3. \A h : SourceExists(h) => SourceExists(h)'
    BY <1>0 DEF SourceExists
  <2>4. \A h : h # new.hash /\ ~SourceExists(h) => ~SourceExists(h)'
    BY <1>0 DEF SourceExists
  <2>5. \A p \in IngestRuns :
          ing'[p].pc = "flushed" => ing[p].pc = "flushed" /\ ing'[p].doc = ing[p].doc
    BY DEF IngestCommit, IngestGoto, IngestInv, IngestTypeOK
  <2> QED
    BY <1>0, <1>14, <2>1, <2>2, <2>3, <2>4, <2>5
       DEF IngestInv, IngestHand, Versions, wormVars
<1> QED BY <1>11, <1>12, <1>13, <1>14 DEF IngestInv

\* What every step of ingest, an abort included, leaves to the other passes.
LEMMA IngestOthers ==
  ASSUME Tables, IngestInv,
         IngestNext \/ (\E r \in IngestRuns : IngestAbort(r))
  PROVE  /\ WormGrows
         /\ source \subseteq source'
         /\ UNCHANGED <<cdx, stamp, attestation, span, held>>
<1>0. worm \in Seq(Bytes \cup Token)
  BY DEF Tables, LedgerTypeOK
<1>1. UNCHANGED worm => WormGrows
  BY <1>0 DEF WormGrows
<1>2. ASSUME NEW r \in IngestRuns, IngestPut(r) PROVE WormGrows
  <2>1. ing[r].doc \in Bytes
    BY <1>2 DEF IngestPut, IngestInv, IngestHand
  <2> QED BY <1>0, <1>2, <2>1, PutLemma DEF IngestPut
<1> QED
  BY <1>1, <1>2 DEF IngestNext, IngestStep, IngestFetch, IngestDedup, IngestPut,
     IngestFlush, IngestCommit, IngestConflict, IngestAbort, worldVars,
     ledgerVars, wormVars, tableVars

\* Every step of ingest keeps the tables right and its runs in order.
LEMMA IngestKeeps ==
  ASSUME Tables, IngestInv,
         IngestNext \/ (\E r \in IngestRuns : IngestAbort(r))
  PROVE  Tables' /\ IngestInv'
<1>1. ASSUME NEW r \in IngestRuns, NEW u \in Urls, IngestFetch(r, u)
      PROVE  Tables' /\ IngestInv'
  BY <1>1, IngestFetchInv
<1>2. ASSUME NEW r \in IngestRuns, IngestStep(r)
      PROVE  Tables' /\ IngestInv'
  BY <1>2, IngestDedupInv, IngestPutInv, IngestFlushInv, IngestCommitInv,
     IngestConflictInv DEF IngestStep
<1> QED BY <1>1, <1>2, IngestAbortInv DEF IngestNext

-----------------------------------------------------------------------------
(* timestamp *)

\* A step of one run that writes nothing and does not end in a flush.
LEMMA StampLocal ==
  ASSUME Tables, StampInv, held' \subseteq HeldLock,
         UNCHANGED <<worldVars, wormVars, tableVars>>,
         NEW r \in StampRuns, NEW new \in Tsr, tsr' = [tsr EXCEPT ![r] = new],
         StampHand(r)',
         new.pc # "flushed"
  PROVE  Tables' /\ StampInv'
<1>1. Tables'
  BY TablesFrame
<1>2. ASSUME NEW q \in StampRuns, q # r PROVE StampHand(q)'
  BY <1>2 DEF StampInv, TimestampTypeOK, StampHand, Versions, SameStamp, Stamped,
              wormVars, tableVars
<1> QED BY <1>1, <1>2 DEF StampInv, TimestampTypeOK

LEMMA StampSelectInv ==
  ASSUME Tables, StampInv, NEW r \in StampRuns, StampSelect(r)
  PROVE  Tables' /\ StampInv'
<1> DEFINE new == [StampIdleRun EXCEPT !.pc = "selected",
                                       !.todo = Oldest(StampPending)]
<1>0. Oldest(StampPending) \subseteq source /\ source \subseteq Source
  BY OldestSubset DEF StampPending, Tables, LedgerTypeOK
<1>1. new \in Tsr /\ new.pc # "flushed" /\ tsr' = [tsr EXCEPT ![r] = new]
  BY <1>0 DEF StampSelect, StampIdleRun, Tsr, StampBetween
<1>2. StampHand(r)'
  BY <1>0, <1>1 DEF StampSelect, StampIdleRun, StampHand, StampInv,
     TimestampTypeOK, StampBusy, ledgerVars, tableVars
<1>3. held' \subseteq HeldLock /\ UNCHANGED <<worldVars, wormVars, tableVars>>
  BY DEF StampSelect, ledgerVars, Tables, LedgerTypeOK
<1> QED BY <1>1, <1>2, <1>3, StampLocal

LEMMA StampReadInv ==
  ASSUME Tables, StampInv, NEW r \in StampRuns, NEW s \in tsr[r].todo,
         StampRead(r, s)
  PROVE  Tables' /\ StampInv'
<1> DEFINE new == [pc |-> CheckBytes(s), todo |-> tsr[r].todo \ {s}, src |-> s,
                   asked |-> 0, tsa |-> None, token |-> None, ref |-> 0]
<1>0. /\ s \in source /\ s \in Source
      /\ tsr[r].todo \subseteq source /\ tsr[r].todo \subseteq Source
  BY DEF StampInv, StampHand, Tables, LedgerTypeOK
<1>1. /\ Get(s.ref) \in Bytes \cup {None, Garbled}
      /\ CheckBytes(s) \in {"hashed", "hash_mismatch", "worm_missing"}
      /\ CheckBytes(s) = "hashed" => Get(s.ref) = s.hash
  BY <1>0, ReadLemma
<1>2. new \in Tsr /\ new.pc # "flushed" /\ tsr' = [tsr EXCEPT ![r] = new]
  BY <1>0, <1>1 DEF StampRead, Tsr, StampBetween, StampOutcome, StampBusy
<1>3. StampHand(r)'
  <2>1. tsr'[r] = new /\ source' = source
    BY <1>2 DEF StampRead, StampInv, TimestampTypeOK, ledgerVars, tableVars
  <2> QED BY <1>0, <1>1, <2>1 DEF StampHand, StampBusy
<1>4. held' \subseteq HeldLock /\ UNCHANGED <<worldVars, wormVars, tableVars>>
  BY DEF StampRead, ledgerVars, Tables, LedgerTypeOK
<1> QED BY <1>2, <1>3, <1>4, StampLocal

\* A token that verified binds the hash and comes from the authority asked.
LEMMA VerifiedToken ==
  ASSUME NEW answer \in Answers, NEW h, NEW name,
         VerifyToken(answer, h, name) = "ok"
  PROVE  answer \in Token /\ answer.imprint = h /\ answer.tsa = name
BY DEF VerifyToken, Answers

LEMMA StampAskInv ==
  ASSUME Tables, StampInv, NEW r \in StampRuns, NEW answer \in Answers,
         StampAsk(r, answer)
  PROVE  Tables' /\ StampInv'
<1> DEFINE name == Chain[tsr[r].asked + 1]
           good == [tsr[r] EXCEPT !.pc = "token", !.tsa = name, !.token = answer]
           bad  == [tsr[r] EXCEPT !.asked = tsr[r].asked + 1]
<1>0. /\ tsr[r] \in Tsr /\ tsr[r].pc = "hashed" /\ tsr[r].asked \in Nat
      /\ tsr[r].asked < Len(Chain) /\ StampHand(r)
  BY DEF StampAsk, StampInv, TimestampTypeOK, Tsr
<1>1. name \in Tsas
  BY <1>0, TimestampAssumption
<1>2. held' \subseteq HeldLock /\ UNCHANGED <<worldVars, wormVars, tableVars>>
  BY DEF StampAsk, ledgerVars, Tables, LedgerTypeOK
<1>3. CASE VerifyToken(answer, tsr[r].src.hash, name) = "ok"
  <2>1. /\ answer \in Token /\ answer.imprint = tsr[r].src.hash
        /\ answer.tsa = name
    BY <1>3, VerifiedToken
  <2>2. good \in Tsr /\ good.pc # "flushed"
    BY <1>0, <1>1, <2>1 DEF Tsr, StampBusy
  <2>3. tsr' = [tsr EXCEPT ![r] = good]
    BY <1>3 DEF StampAsk
  <2>4. StampHand(r)'
    <3>1. /\ tsr'[r].pc = "token" /\ tsr'[r].tsa = name
          /\ tsr'[r].token = answer /\ tsr'[r].todo = tsr[r].todo
          /\ tsr'[r].src = tsr[r].src
      BY <1>0, <2>3 DEF StampInv, TimestampTypeOK, Tsr
    <3>2. source' = source
      BY <1>2 DEF tableVars
    <3> HIDE DEF name
    <3> QED BY <1>0, <1>1, <2>1, <3>1, <3>2 DEF StampHand, StampBusy
  <2> QED BY <1>2, <2>2, <2>3, <2>4, StampLocal
<1>4. CASE VerifyToken(answer, tsr[r].src.hash, name) # "ok"
  <2>1. bad \in Tsr /\ bad.pc # "flushed"
    BY <1>0 DEF Tsr
  <2>2. tsr' = [tsr EXCEPT ![r] = bad]
    BY <1>4 DEF StampAsk
  <2>3. StampHand(r)'
    <3>1. /\ tsr'[r].pc = "hashed" /\ tsr'[r].todo = tsr[r].todo
          /\ tsr'[r].src = tsr[r].src
      BY <1>0, <2>2 DEF StampInv, TimestampTypeOK, Tsr
    <3>2. source' = source
      BY <1>2 DEF tableVars
    <3> QED BY <1>0, <3>1, <3>2 DEF StampHand, StampBusy
  <2> QED BY <1>2, <2>1, <2>2, <2>3, StampLocal
<1> QED BY <1>3, <1>4

LEMMA StampFailInv ==
  ASSUME Tables, StampInv, NEW r \in StampRuns, StampFail(r)
  PROVE  Tables' /\ StampInv'
<1> DEFINE new == [tsr[r] EXCEPT !.pc = "tsa_failed"]
<1>1. new \in Tsr /\ new.pc # "flushed" /\ tsr' = [tsr EXCEPT ![r] = new]
  BY DEF StampFail, StampGoto, StampInv, TimestampTypeOK, Tsr, StampBetween,
         StampOutcome
<1>2. StampHand(r)'
  <2>1. /\ tsr'[r].pc = "tsa_failed"
        /\ tsr'[r].todo = tsr[r].todo /\ tsr'[r].src = tsr[r].src
        /\ source' = source
    BY <1>1 DEF StampFail, StampInv, TimestampTypeOK, Tsr, ledgerVars, tableVars
  <2> QED
    BY <2>1 DEF StampFail, StampInv, StampHand, StampBusy
<1>3. held' \subseteq HeldLock /\ UNCHANGED <<worldVars, wormVars, tableVars>>
  BY DEF StampFail, ledgerVars, Tables, LedgerTypeOK
<1> QED BY <1>1, <1>2, <1>3, StampLocal

LEMMA StampConflictInv ==
  ASSUME Tables, StampInv, NEW r \in StampRuns, StampConflict(r)
  PROVE  Tables' /\ StampInv'
<1> DEFINE new == [tsr[r] EXCEPT !.pc = "stamped"]
<1>1. new \in Tsr /\ new.pc # "flushed" /\ tsr' = [tsr EXCEPT ![r] = new]
  BY DEF StampConflict, StampGoto, StampInv, TimestampTypeOK, Tsr, StampBetween,
         StampOutcome
<1>2. StampHand(r)'
  BY <1>1 DEF StampConflict, StampHand, StampInv, TimestampTypeOK, StampBusy,
              Tsr, Stamped, ledgerVars, tableVars
<1>3. held' \subseteq HeldLock /\ UNCHANGED <<worldVars, wormVars, tableVars>>
  BY DEF StampConflict, ledgerVars, Tables, LedgerTypeOK
<1> QED BY <1>1, <1>2, <1>3, StampLocal

\* The end of a run, by StampFinish or by StampAbort.
LEMMA StampIdleInv ==
  ASSUME Tables, StampInv, NEW r \in StampRuns, StampFinish(r) \/ StampAbort(r)
  PROVE  Tables' /\ StampInv'
<1>1. /\ StampIdleRun \in Tsr /\ StampIdleRun.pc # "flushed"
      /\ tsr' = [tsr EXCEPT ![r] = StampIdleRun]
  BY DEF StampFinish, StampAbort, StampIdleRun, Tsr
<1>2. StampHand(r)'
  BY <1>1 DEF StampIdleRun, StampHand, StampInv, TimestampTypeOK, StampBusy
<1>3. held' \subseteq HeldLock /\ UNCHANGED <<worldVars, wormVars, tableVars>>
  BY DEF StampFinish, StampAbort, Release, ledgerVars, Tables, LedgerTypeOK
<1> QED BY <1>1, <1>2, <1>3, StampLocal

LEMMA StampPutInv ==
  ASSUME Tables, StampInv, NEW r \in StampRuns, StampPut(r)
  PROVE  Tables' /\ StampInv'
<1> DEFINE token == tsr[r].token
<1>1. /\ tsr[r].src \in source /\ tsr[r].src \in Source
      /\ tsr[r].tsa \in Tsas /\ token \in Token
      /\ token.tsa = tsr[r].tsa /\ token.imprint = tsr[r].src.hash
  BY DEF StampPut, StampInv, StampHand, StampBusy, Tables, LedgerTypeOK
<1>2. token \in Bytes \cup Token /\ worm \in Seq(Bytes \cup Token)
  BY <1>1 DEF Tables, LedgerTypeOK
<1>3. Tables'
  BY <1>2, TablesPut DEF StampPut
<1>4. /\ WormGrows /\ NewRef \in Nat
      /\ NewRef \in Versions' /\ worm'[NewRef] = token
  BY <1>2, PutLemma DEF StampPut
<1>5. /\ tsr' = [tsr EXCEPT ![r] = [@ EXCEPT !.pc = "put", !.ref = NewRef]]
      /\ source' = source /\ stamp' = stamp
  BY DEF StampPut, tableVars
<1>6. TimestampTypeOK'
  BY <1>4, <1>5 DEF StampInv, TimestampTypeOK, Tsr, StampBusy
<1>7. StampHand(r)'
  <2>1. /\ tsr'[r].pc = "put" /\ tsr'[r].ref = NewRef
        /\ tsr'[r].todo = tsr[r].todo /\ tsr'[r].src = tsr[r].src
        /\ tsr'[r].tsa = tsr[r].tsa /\ tsr'[r].token = tsr[r].token
    BY <1>5 DEF StampInv, TimestampTypeOK, Tsr
  <2> QED
    BY <1>1, <1>4, <1>5, <2>1 DEF StampPut, StampInv, StampHand, StampBusy
<1>8. ASSUME NEW q \in StampRuns, q # r PROVE StampHand(q)'
  BY <1>2, <1>4, <1>5, <1>8
     DEF StampInv, TimestampTypeOK, StampHand, WormGrows, Versions, SameStamp,
         Stamped
<1> QED BY <1>3, <1>6, <1>7, <1>8 DEF StampInv

LEMMA StampFlushInv ==
  ASSUME Tables, StampInv, NEW r \in StampRuns, StampFlush(r)
  PROVE  Tables' /\ StampInv'
<1>1. /\ tsr[r].src \in source /\ tsr[r].src \in Source
      /\ tsr[r].pc = "put" /\ held \subseteq HeldLock
      /\ UNCHANGED <<worldVars, wormVars, tableVars>>
  BY DEF StampFlush, StampInv, StampHand, Tables, LedgerTypeOK
<1>2. PICK l \in {"conflict", "flushed"} : tsr' = [tsr EXCEPT ![r].pc = l]
  BY DEF StampFlush, StampGoto
<1>3. held' \subseteq HeldLock
  <2>1. held' = held \/ Hold("stamp", r, tsr[r].src, "key share")
    BY DEF StampFlush
  <2>2. r \in Runs
    BY TimestampAssumption
  <2> QED BY <1>1, <2>1, <2>2, HoldTyped
<1>4. Tables'
  BY <1>1, <1>3, TablesFrame
<1>5. TimestampTypeOK'
  BY <1>2 DEF StampInv, TimestampTypeOK, Tsr, StampBusy
<1>6. /\ tsr'[r].todo = tsr[r].todo /\ tsr'[r].src = tsr[r].src
      /\ tsr'[r].token = tsr[r].token /\ tsr'[r].tsa = tsr[r].tsa
      /\ tsr'[r].ref = tsr[r].ref
      /\ \A q \in StampRuns \ {r} : tsr'[q] = tsr[q]
  BY <1>2 DEF StampInv, TimestampTypeOK, Tsr
<1>7. \/ /\ tsr'[r].pc = "conflict"
         /\ \E t \in stamp : SameStamp(t, r)
      \/ /\ tsr'[r].pc = "flushed"
         /\ \A t \in stamp : ~SameStamp(t, r)
         /\ \A q \in StampRuns \ {r} : tsr[q].pc = "flushed" => ~SameStamp(tsr[q], r)
  BY DEF StampFlush, StampGoto, StampInv, TimestampTypeOK, Tsr
<1>8. StampHand(r)'
  BY <1>1, <1>6, <1>7 DEF StampInv, StampHand, StampBusy, SameStamp, Stamped,
     Versions, wormVars, tableVars
<1>9. ASSUME NEW q \in StampRuns, q # r PROVE StampHand(q)'
  BY <1>1, <1>6, <1>7, <1>9 DEF StampInv, StampHand, SameStamp, Stamped,
     Versions, wormVars, tableVars
<1> QED BY <1>4, <1>5, <1>8, <1>9 DEF StampInv

\* The commit: the token the row points at binds the hash of its source, and
\* no row has its key.
LEMMA StampCommitInv ==
  ASSUME Tables, StampInv, NEW r \in StampRuns, StampCommit(r)
  PROVE  Tables' /\ StampInv'
<1> DEFINE new == NewStamp(r)
<1>0. /\ stamp' = stamp \cup {new} /\ held' \subseteq HeldLock
      /\ UNCHANGED <<worldVars, wormVars, source, created, attestation, request,
                     speaker, mandate, span>>
  BY DEF StampCommit, Release, Tables, LedgerTypeOK
<1>1. /\ new \in Stamp /\ new.src \in source
      /\ new.ref \in Versions
      /\ worm[new.ref] = [tsa |-> new.tsa, imprint |-> new.src.hash]
      /\ \A t \in stamp : ~(t.src = new.src /\ t.tsa = new.tsa)
  <2>1. /\ tsr[r].src \in source /\ tsr[r].src \in Source
        /\ tsr[r].ref \in Nat /\ tsr[r].ref \in Versions
        /\ tsr[r].tsa \in Tsas /\ tsr[r].token \in Token
        /\ tsr[r].token.tsa = tsr[r].tsa
        /\ tsr[r].token.imprint = tsr[r].src.hash
        /\ worm[tsr[r].ref] = tsr[r].token
        /\ \A t \in stamp : ~SameStamp(t, r)
    BY DEF StampCommit, StampInv, TimestampTypeOK, StampHand, StampBusy, Tsr,
           Tables, LedgerTypeOK
  <2>2. tsr[r].token = [tsa |-> tsr[r].tsa, imprint |-> tsr[r].src.hash]
    BY <2>1 DEF Token
  <2> QED BY <2>1, <2>2 DEF NewStamp, Stamp, SameStamp
<1>2. WorldTypeOK' /\ LedgerTypeOK'
  BY <1>0, <1>1 DEF Tables, WorldTypeOK, LedgerTypeOK, worldVars, wormVars
<1>3. RowsRooted' /\ UniqueHash' /\ RefsResolve'
  BY <1>0, <1>1 DEF Tables, RowsRooted, UniqueHash, RefsResolve, Versions, wormVars
<1>4. TokensBind' /\ OneTokenPerTsa'
  <2> HIDE DEF new
  <2> QED BY <1>0, <1>1 DEF Tables, TokensBind, OneTokenPerTsa, Versions, wormVars
<1>5. AttestationsProved' /\ OneAttestation' /\ SpansAttested' /\ SpansVerbatim'
      /\ SpansComplete'
  BY <1>0 DEF Tables, AttestationsProved, OneAttestation, SpansAttested,
              SpansVerbatim, SpansComplete, SpansOf, Attested, worldVars
<1>6. Tables'
  BY <1>2, <1>3, <1>4, <1>5 DEF Tables
<1>7. TimestampTypeOK'
  BY DEF StampCommit, StampGoto, StampInv, TimestampTypeOK, Tsr, StampBetween,
         StampOutcome
<1>8. \A s : Stamped(s) => Stamped(s)'
  BY <1>0 DEF Stamped
<1>9. StampHand(r)'
  <2>1. /\ tsr'[r].pc = "stamped"
        /\ tsr'[r].todo = tsr[r].todo /\ tsr'[r].src = tsr[r].src
    BY DEF StampCommit, StampGoto, StampInv, TimestampTypeOK, Tsr
  <2>2. new \in stamp' /\ new.src = tsr'[r].src
    BY <1>0, <2>1 DEF NewStamp
  <2>3. Stamped(tsr[r].src)'
    BY <2>1, <2>2 DEF Stamped
  <2> QED
    BY <1>0, <1>1, <2>1, <2>3 DEF StampInv, StampHand, StampBusy, StampCommit
<1>10. ASSUME NEW q \in StampRuns, q # r PROVE StampHand(q)'
  <2>1. tsr'[q] = tsr[q]
    BY <1>10 DEF StampCommit, StampGoto, StampInv, TimestampTypeOK
  <2>2. tsr[q].pc = "flushed" => ~(new.src = tsr[q].src /\ new.tsa = tsr[q].tsa)
    BY <1>10 DEF StampInv, StampHand, StampCommit, SameStamp, NewStamp
  <2>3. \A p \in StampRuns :
          tsr'[p].pc = "flushed" => tsr[p].pc = "flushed" /\ tsr'[p] = tsr[p]
    BY DEF StampCommit, StampGoto, StampInv, TimestampTypeOK, Tsr
  <2> QED
    BY <1>0, <1>8, <1>10, <2>1, <2>2, <2>3
       DEF StampInv, StampHand, Versions, SameStamp, wormVars
<1> QED BY <1>6, <1>7, <1>9, <1>10 DEF StampInv

\* What every step of timestamp, an abort included, leaves to the other passes.
LEMMA StampOthers ==
  ASSUME Tables, StampInv,
         TimestampNext \/ (\E r \in StampRuns : StampAbort(r))
  PROVE  /\ WormGrows /\ ReparseLocksKept
         /\ UNCHANGED <<cdx, source, attestation, span>>
<1>0. worm \in Seq(Bytes \cup Token)
  BY DEF Tables, LedgerTypeOK
<1>1. UNCHANGED worm => WormGrows
  BY <1>0 DEF WormGrows
<1>2. ASSUME NEW r \in StampRuns, StampPut(r) PROVE WormGrows
  <2>1. tsr[r].token \in Token
    BY <1>2 DEF StampPut, StampInv, StampHand, StampBusy, Token, Tables,
                LedgerTypeOK, Source
  <2> QED BY <1>0, <1>2, <2>1, PutLemma DEF StampPut
<1>3. ReparseLocksKept
  BY DEF ReparseLocksKept, TimestampNext, StampStep, StampSelect, StampRead,
     StampAsk, StampFail, StampPut, StampFlush, StampCommit, StampConflict,
     StampFinish, StampAbort, Hold, Release, ledgerVars
<1> QED
  BY <1>1, <1>2, <1>3 DEF TimestampNext, StampStep, StampSelect, StampRead,
     StampAsk, StampFail, StampPut, StampFlush, StampCommit, StampConflict,
     StampFinish, StampAbort, worldVars, ledgerVars, wormVars, tableVars

\* Every step of timestamp keeps the tables right and its runs in order.
LEMMA StampKeeps ==
  ASSUME Tables, StampInv,
         TimestampNext \/ (\E r \in StampRuns : StampAbort(r))
  PROVE  Tables' /\ StampInv'
<1>1. ASSUME NEW r \in StampRuns, StampStep(r)
      PROVE  Tables' /\ StampInv'
  BY <1>1, StampReadInv, StampAskInv, StampFailInv, StampPutInv, StampFlushInv,
     StampCommitInv, StampConflictInv, StampIdleInv DEF StampStep
<1> QED BY <1>1, StampSelectInv, StampIdleInv DEF TimestampNext
=============================================================================
