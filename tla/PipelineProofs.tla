----------------------------- MODULE PipelineProofs -----------------------------
(***************************************************************************)
(* What Pipeline keeps for every number of runs, documents, sources,       *)
(* authorities and faults: the inductive invariant holds at the start, a   *)
(* step of one pass keeps its own part and leaves the parts of the others  *)
(* alone, and the world and the store cannot disturb it.  Then, that the   *)
(* pipeline implements module Evidence, that what the runs tell the        *)
(* operator is true, and that the rows of the speakers hang together.      *)
(***************************************************************************)
EXTENDS ArchiveProofs, ReparseProofs

-----------------------------------------------------------------------------
(* The start *)

LEMMA SeedLen == Len(Seed) \in Nat
  BY LedgerAssumption

LEMMA SeedTyped ==
  ASSUME NEW i \in 1..Len(Seed)
  PROVE  /\ i \in Nat /\ i <= Len(Seed) /\ Len(Seed) \in Nat
         /\ Seed[i].hash \in Bytes /\ Seed[i].url \in Urls
         /\ SeedRow(i) \in Source /\ SeedSnapshot(i) \in Snapshot
<1> DEFINE Row == [hash : Bytes, url : Urls, text : BOOLEAN, attested : BOOLEAN]
<1>0. Seed \in Seq(Row)
  BY LedgerAssumption
<1> HIDE DEF Row
<1>1. Seed[i] \in Row
  BY <1>0
<1>2. i \in Nat /\ i <= Len(Seed) /\ Len(Seed) \in Nat
  BY SeedLen
<1>3. /\ Seed[i].hash \in Bytes /\ Seed[i].url \in Urls
      /\ Seed[i].text \in BOOLEAN
  BY <1>1 DEF Row
<1> QED BY <1>2, <1>3 DEF SeedRow, Source, SeedSnapshot, Snapshot

\* The rows of earlier runs are a ledger in good order.
LEMMA SeedTables ==
  ASSUME LedgerInit
  PROVE  Tables
<1>0. Len(Seed) \in Nat
  BY SeedLen
<1>1. /\ worm \in Seq(Bytes \cup Token) /\ Len(worm) = Len(Seed)
      /\ \A i \in 1..Len(Seed) : worm[i] = Seed[i].hash
  BY <1>0, SeedTyped DEF LedgerInit
<1>2. source \subseteq Source /\ snaps \subseteq Snapshot /\ cdx = snaps
  BY SeedTyped DEF LedgerInit, WorldInit, SeedAttested
<1>3. attestation \subseteq Attestation
  <2> SUFFICES ASSUME NEW i \in SeedAttested
               PROVE  [src |-> SeedRow(i), snap |-> SeedSnapshot(i),
                       sha |-> Seed[i].hash, by |-> None] \in Attestation
    BY DEF LedgerInit
  <2>1. i \in 1..Len(Seed)
    BY DEF SeedAttested
  <2> QED BY <2>1, SeedTyped DEF Attestation
<1>4. WorldTypeOK
  BY <1>2 DEF LedgerInit, WorldInit, WorldTypeOK
<1>5. LedgerTypeOK
  BY <1>0, <1>1, <1>2, <1>3 DEF LedgerInit, LedgerTypeOK
<1>6. RowsRooted
  <2>1. \A s \in source : s.id <= created
    BY SeedTyped DEF LedgerInit, SeedRow
  <2>2. \A i \in SeedAttested : i \in 1..Len(Seed)
    BY DEF SeedAttested
  <2>3. \A a \in attestation : a.src \in source
    BY <2>2 DEF LedgerInit
  <2> QED BY <2>1, <2>3 DEF LedgerInit, RowsRooted
<1>7. UniqueHash
  BY LedgerAssumption DEF LedgerInit, SeedRow, UniqueHash
<1>8. RefsResolve
  BY <1>1 DEF LedgerInit, SeedRow, RefsResolve, Versions
<1>9. AttestationsProved
  <2> SUFFICES ASSUME NEW i \in SeedAttested
               PROVE  /\ SeedRow(i).hash = Seed[i].hash
                      /\ SeedSnapshot(i) \in cdx
                      /\ SeedSnapshot(i).url = SeedRow(i).url
                      /\ SeedSnapshot(i).bytes = SeedRow(i).hash
    BY DEF AttestationsProved, LedgerInit
  <2> QED BY DEF SeedRow, SeedSnapshot, LedgerInit, WorldInit
<1>10. OneAttestation
  BY DEF OneAttestation, LedgerInit, SeedRow
<1>11. /\ TokensBind /\ OneTokenPerTsa
       /\ SpansAttested /\ SpansVerbatim /\ SpansComplete
  BY DEF LedgerInit, TokensBind, OneTokenPerTsa, SpansAttested, SpansVerbatim,
     SpansComplete, SpansOf
<1> QED
  BY <1>4, <1>5, <1>6, <1>7, <1>8, <1>9, <1>10, <1>11 DEF Tables

LEMMA InitIInv == Init => IInv
<1> SUFFICES ASSUME Init PROVE IInv
  OBVIOUS
<1>1. Tables
  BY SeedTables DEF Init
<1>2. IngestInv
  BY DEF Init, IngestInit, IngestInv, IngestTypeOK, IngestHand, Ing, IngestIdle
<1>3. StampInv
  BY DEF Init, TimestampInit, StampIdleRun, StampInv, TimestampTypeOK, StampHand,
     Tsr, StampBusy
<1>4. CaptureInv
  <2>1. CaptureIdleRun \in Cap
    BY CaptureFreshTyped DEF CaptureIdleRun
  <2>2. CaptureIdleRun.pc = "idle" /\ CaptureIdleRun.todo = {}
    BY DEF CaptureIdleRun, CaptureFresh
  <2> QED
    BY <2>1, <2>2 DEF Init, CaptureInit, CaptureInv, CaptureTypeOK, CaptureHand
<1>5. AttestInv
  <2>1. AttestIdleRun \in Att
    BY AttestFreshTyped DEF AttestIdleRun
  <2>2. AttestIdleRun.pc = "idle" /\ AttestIdleRun.todo = {}
    BY DEF AttestIdleRun, AttestFresh
  <2> QED
    BY <2>1, <2>2 DEF Init, AttestInit, AttestInv, AttestTypeOK, AttestHand
<1>6. ReparseInv
  <2>1. ReparseIdleRun \in Rep
    BY ReparseFreshTyped DEF ReparseIdleRun
  <2>2. /\ ReparseIdleRun.pc = "idle" /\ ReparseIdleRun.todo = {}
        /\ ReparseIdleRun.newSpans = {}
    BY DEF ReparseIdleRun, ReparseFresh
  <2> QED
    BY <2>1, <2>2 DEF Init, ReparseInit, ReparseInv, ReparseTypeOK, ReparseHand,
       ReparseBusy, ReparseInTx
<1> QED BY <1>1, <1>2, <1>3, <1>4, <1>5, <1>6 DEF Init, IInv

-----------------------------------------------------------------------------
(* The steps *)

\* Each pass, its aborts included.
IngestMoves ==
  /\ IngestNext \/ (\E r \in IngestRuns : IngestAbort(r))
  /\ UNCHANGED <<tsr, captureVars, att, rep>>
TimestampMoves ==
  /\ TimestampNext \/ (\E r \in StampRuns : StampAbort(r))
  /\ UNCHANGED <<ing, captureVars, att, rep>>
CaptureMoves ==
  /\ CaptureNext \/ (\E r \in CaptureRuns : CaptureAbort(r))
  /\ UNCHANGED <<ing, tsr, att, rep>>
AttestMoves ==
  /\ AttestNext \/ (\E r \in AttestRuns : AttestAbort(r))
  /\ UNCHANGED <<ing, tsr, captureVars, rep>>
ReparseMoves ==
  /\ ReparseNext \/ (\E r \in ReparseRuns : ReparseAbort(r))
  /\ UNCHANGED <<ing, tsr, captureVars, att>>

\* What the passes hold between them, without the tables.
Hands == IngestInv /\ StampInv /\ CaptureInv /\ AttestInv /\ ReparseInv

LEMMA IngestMovesInv ==
  ASSUME Tables, Hands, IngestMoves
  PROVE  Tables' /\ Hands'
<1>1. Tables' /\ IngestInv'
  BY IngestKeeps DEF Hands, IngestMoves
<1>2. /\ WormGrows /\ source \subseteq source'
      /\ UNCHANGED <<cdx, stamp, attestation, span, held>>
  BY IngestOthers DEF Hands, IngestMoves
<1>3. worm \in Seq(Bytes \cup Token) /\ worm' \in Seq(Bytes \cup Token)
  BY <1>1 DEF Tables, LedgerTypeOK
<1>4. ReparseLocksKept
  BY <1>2 DEF ReparseLocksKept
<1>5. StampInv' /\ CaptureInv'
  BY <1>2, <1>3, StampFrame, CaptureFrame DEF Hands, IngestMoves
<1>6. AttestInv' /\ ReparseInv'
  BY <1>2, <1>4, AttestFrame, ReparseFrame DEF Hands, IngestMoves
<1> QED BY <1>1, <1>5, <1>6 DEF Hands

LEMMA TimestampMovesInv ==
  ASSUME Tables, Hands, TimestampMoves
  PROVE  Tables' /\ Hands'
<1>1. Tables' /\ StampInv'
  BY StampKeeps DEF Hands, TimestampMoves
<1>2. /\ WormGrows /\ ReparseLocksKept
      /\ UNCHANGED <<cdx, source, attestation, span>>
  BY StampOthers DEF Hands, TimestampMoves
<1>3. worm \in Seq(Bytes \cup Token) /\ worm' \in Seq(Bytes \cup Token)
  BY <1>1 DEF Tables, LedgerTypeOK
<1>4. IngestInv' /\ CaptureInv'
  BY <1>2, <1>3, IngestFrame, CaptureFrame DEF Hands, TimestampMoves
<1>5. AttestInv' /\ ReparseInv'
  BY <1>2, AttestFrame, ReparseFrame DEF Hands, TimestampMoves
<1> QED BY <1>1, <1>4, <1>5 DEF Hands

LEMMA WormSame ==
  ASSUME Tables, UNCHANGED worm
  PROVE  /\ WormGrows /\ worm \in Seq(Bytes \cup Token)
         /\ worm' \in Seq(Bytes \cup Token)
<1>1. worm \in Seq(Bytes \cup Token)
  BY DEF Tables, LedgerTypeOK
<1> QED BY <1>1 DEF WormGrows

LEMMA CaptureMovesInv ==
  ASSUME Tables, Hands, CaptureMoves
  PROVE  Tables' /\ Hands'
<1>1. Tables' /\ CaptureInv'
  BY CaptureKeeps DEF Hands, CaptureMoves
<1>2. /\ ReparseLocksKept
      /\ UNCHANGED <<cdx, worm, source, stamp, attestation, span>>
  BY CaptureOthers DEF CaptureMoves
<1>3. IngestInv' /\ StampInv'
  BY <1>2, WormSame, IngestFrame, StampFrame DEF Hands, CaptureMoves
<1>4. AttestInv' /\ ReparseInv'
  BY <1>2, AttestFrame, ReparseFrame DEF Hands, CaptureMoves
<1> QED BY <1>1, <1>3, <1>4 DEF Hands

LEMMA AttestMovesInv ==
  ASSUME Tables, Hands, AttestMoves
  PROVE  Tables' /\ Hands'
<1>1. Tables' /\ AttestInv'
  BY AttestKeeps DEF Hands, AttestMoves
<1>2. /\ ReparseLocksKept /\ attestation \subseteq attestation'
      /\ UNCHANGED <<cdx, worm, source, stamp, span>>
  BY AttestOthers DEF AttestMoves
<1>3. IngestInv' /\ StampInv'
  BY <1>2, WormSame, IngestFrame, StampFrame DEF Hands, AttestMoves
<1>4. CaptureInv' /\ ReparseInv'
  BY <1>2, CaptureFrame, ReparseFrame DEF Hands, AttestMoves
<1> QED BY <1>1, <1>3, <1>4 DEF Hands

LEMMA ReparseMovesInv ==
  ASSUME Tables, Hands, ReparseMoves
  PROVE  Tables' /\ Hands'
<1>1. Tables' /\ ReparseInv'
  BY ReparseKeeps DEF Hands, ReparseMoves
<1>2. UNCHANGED <<cdx, worm, source, stamp, attestation>>
  BY ReparseOthers DEF ReparseMoves
<1>3. IngestInv' /\ StampInv'
  BY <1>2, WormSame, IngestFrame, StampFrame DEF Hands, ReparseMoves
<1>4. CaptureInv' /\ AttestInv'
  BY <1>2, CaptureFrame, AttestFrame DEF Hands, ReparseMoves
<1> QED BY <1>1, <1>3, <1>4 DEF Hands

\* The parliament and the archive take away nothing an attestation rests on.
LEMMA WorldInv ==
  ASSUME Tables, Hands, WorldNext, UNCHANGED <<ledgerVars, runVars>>
  PROVE  Tables' /\ Hands'
<1>1. WorldTypeOK' /\ cdx \subseteq cdx'
  <2>1. WorldTypeOK
    BY DEF Tables
  <2>2. ASSUME NEW u \in Urls, Publish(u) PROVE WorldTypeOK' /\ cdx \subseteq cdx'
    BY <2>1, <2>2 DEF Publish, WorldTypeOK
  <2>3. ASSUME NEW u \in Crawled, Archived(u)
        PROVE  WorldTypeOK' /\ cdx \subseteq cdx'
    <3>1. u \in Urls
      BY WorldAssumption
    <3> QED BY <2>1, <2>3, <3>1, ArchivedTyped
  <2>4. ASSUME NEW s \in snaps, Index(s) PROVE WorldTypeOK' /\ cdx \subseteq cdx'
    BY <2>1, <2>4 DEF Index, WorldTypeOK
  <2>5. Tick => WorldTypeOK' /\ cdx \subseteq cdx'
    BY <2>1 DEF Tick, WorldTypeOK
  <2> QED BY <2>2, <2>3, <2>4, <2>5 DEF WorldNext
<1>2. Tables'
  BY <1>1, TablesWorld
<1>3. /\ ReparseLocksKept
      /\ UNCHANGED <<worm, source, stamp, attestation, span>>
      /\ UNCHANGED <<ing, tsr, captureVars, att, rep>>
  BY DEF ReparseLocksKept, ledgerVars, wormVars, tableVars, runVars
<1>4. IngestInv' /\ StampInv' /\ CaptureInv'
  BY <1>3, WormSame, IngestFrame, StampFrame, CaptureFrame DEF Hands
<1>5. AttestInv' /\ ReparseInv'
  BY <1>1, <1>3, AttestFrame, ReparseFrame DEF Hands
<1> QED BY <1>2, <1>4, <1>5 DEF Hands

\* A fault of the store is one of reading: what was put stays what it is.
LEMMA WormInv ==
  ASSUME Tables, Hands, WormNext, UNCHANGED <<worldVars, runVars>>
  PROVE  Tables' /\ Hands'
<1>1. /\ UNCHANGED <<worm, tableVars, held>>
      /\ missing' \subseteq Nat /\ altered' \subseteq Nat
  <2>1. Versions \subseteq Nat /\ missing \subseteq Nat /\ altered \subseteq Nat
    BY DEF Tables, LedgerTypeOK, Versions
  <2> QED BY <2>1 DEF WormNext, WormFault, WormRepaired
<1>2. UNCHANGED <<source, created, stamp, attestation, request, speaker,
                  mandate, span>>
  BY <1>1 DEF tableVars
<1>3. WorldTypeOK' /\ LedgerTypeOK'
  BY <1>1, <1>2 DEF Tables, WorldTypeOK, LedgerTypeOK, worldVars
<1>4. /\ RowsRooted' /\ UniqueHash' /\ RefsResolve'
      /\ TokensBind' /\ OneTokenPerTsa' /\ AttestationsProved' /\ OneAttestation'
      /\ SpansAttested' /\ SpansVerbatim' /\ SpansComplete'
  BY <1>1, <1>2 DEF Tables, RowsRooted, UniqueHash, RefsResolve, TokensBind,
     OneTokenPerTsa, AttestationsProved, OneAttestation, SpansAttested,
     SpansVerbatim, SpansComplete, SpansOf, Attested, Versions, worldVars
<1>5. Tables'
  BY <1>3, <1>4 DEF Tables
<1>6. ReparseLocksKept /\ UNCHANGED cdx
      /\ UNCHANGED <<ing, tsr, captureVars, att, rep>>
  BY <1>1 DEF ReparseLocksKept, worldVars, runVars
<1>7. IngestInv' /\ StampInv' /\ CaptureInv'
  BY <1>1, <1>2, <1>6, WormSame, IngestFrame, StampFrame, CaptureFrame DEF Hands
<1>8. AttestInv' /\ ReparseInv'
  BY <1>2, <1>6, AttestFrame, ReparseFrame DEF Hands
<1> QED BY <1>5, <1>7, <1>8 DEF Hands

LEMMA StutterInv ==
  ASSUME Tables, Hands, UNCHANGED <<worldVars, ledgerVars>>,
         UNCHANGED <<ing, tsr, captureVars, att, rep>>
  PROVE  Tables' /\ Hands'
<1>1. /\ UNCHANGED <<worm, cdx, source, stamp, attestation, span>>
      /\ UNCHANGED held /\ WorldTypeOK' /\ ReparseLocksKept
  BY DEF worldVars, ledgerVars, wormVars, tableVars, Tables, WorldTypeOK,
     ReparseLocksKept
<1>2. Tables'
  BY <1>1, TablesWorld
<1>3. IngestInv' /\ StampInv' /\ CaptureInv'
  BY <1>1, WormSame, IngestFrame, StampFrame, CaptureFrame DEF Hands
<1>4. AttestInv' /\ ReparseInv'
  BY <1>1, AttestFrame, ReparseFrame DEF Hands
<1> QED BY <1>2, <1>3, <1>4 DEF Hands

\* A step is one pass's, the surroundings', or none.
LEMMA StepCases ==
  ASSUME [Next]_vars
  PROVE  \/ IngestMoves \/ TimestampMoves \/ CaptureMoves \/ AttestMoves
         \/ ReparseMoves
         \/ (Surroundings \/ UNCHANGED <<worldVars, ledgerVars>>)
              /\ UNCHANGED <<ing, tsr, captureVars, att, rep>>
  BY DEF Next, vars, runVars, Pass, IngestPass, TimestampPass, CapturePass,
     AttestPass, ReparsePass, Crash, Abort, IngestMoves, TimestampMoves,
     CaptureMoves, AttestMoves, ReparseMoves

LEMMA NextIInv ==
  ASSUME IInv, [Next]_vars
  PROVE  IInv'
<1>0. Tables /\ Hands /\ crashes \in Nat
  BY DEF IInv, Hands
<1>1. crashes' \in Nat
  BY <1>0 DEF Next, Crash, vars
<1>2. Tables' /\ Hands'
  <2>1. CASE /\ Surroundings
             /\ UNCHANGED <<ing, tsr, captureVars, att, rep>>
    BY <1>0, <2>1, WorldInv, WormInv DEF Surroundings, runVars
  <2>2. CASE /\ UNCHANGED <<worldVars, ledgerVars>>
             /\ UNCHANGED <<ing, tsr, captureVars, att, rep>>
    BY <1>0, <2>2, StutterInv
  <2>3. CASE \/ IngestMoves \/ TimestampMoves \/ CaptureMoves
             \/ AttestMoves \/ ReparseMoves
    BY <1>0, <2>3, IngestMovesInv, TimestampMovesInv, CaptureMovesInv,
       AttestMovesInv, ReparseMovesInv
  <2> QED BY <2>1, <2>2, <2>3, StepCases
<1> QED BY <1>1, <1>2 DEF IInv, Hands

-----------------------------------------------------------------------------
(* The results *)

\* The invariant behind all that follows holds in every reachable state.
THEOREM Inductive == Spec => []IInv
<1>1. Init => IInv
  BY InitIInv
<1>2. IInv /\ [Next]_vars => IInv'
  BY NextIInv
<1> QED BY <1>1, <1>2, PTL DEF Spec

\* Every variable keeps its type.
THEOREM Types == Spec => []TypeOK
<1>1. IInv => TypeOK
  BY DEF IInv, Tables, IngestInv, StampInv, CaptureInv, AttestInv, ReparseInv,
     TypeOK
<1> QED BY <1>1, Inductive, PTL

\* However many ingest runs race, a document is in the ledger once.
THEOREM EachDocumentOnce == Spec => []UniqueHash
<1>1. IInv => UniqueHash
  BY DEF IInv, Tables
<1> QED BY <1>1, Inductive, PTL

\* No crash and no lost race leaves a source whose object is not in the store.
THEOREM NoDanglingReference == Spec => []RefsResolve
<1>1. IInv => RefsResolve
  BY DEF IInv, Tables
<1> QED BY <1>1, Inductive, PTL

\* A token binds the content_hash of its source, whatever the authorities
\* answered.
THEOREM TokensBindSources == Spec => []TokensBind
<1>1. IInv => TokensBind
  BY DEF IInv, Tables
<1> QED BY <1>1, Inductive, PTL

\* Each authority signs a source once, however many runs stamp it.
THEOREM SignedOnce == Spec => []OneTokenPerTsa
<1>1. IInv => OneTokenPerTsa
  BY DEF IInv, Tables
<1> QED BY <1>1, Inductive, PTL

\* An attestation is true, whatever SHA-1 maps to whatever.
THEOREM AttestationsTrue == Spec => []AttestationsProved
<1>1. IInv => AttestationsProved
  BY DEF IInv, Tables
<1> QED BY <1>1, Inductive, PTL

\* A source has one attestation, however many runs attest it.
THEOREM AttestedOnce == Spec => []OneAttestation
<1>1. IInv => OneAttestation
  BY DEF IInv, Tables
<1> QED BY <1>1, Inductive, PTL

\* All of a document's spans or none, each once, however many reparse runs
\* race and wherever they die.
THEOREM SpansAllOrNothing == Spec => []SpansComplete
<1>1. IInv => SpansComplete
  BY DEF IInv, Tables
<1> QED BY <1>1, Inductive, PTL

\* A span was parsed from the frozen bytes, whatever the store returns later.
THEOREM QuotedFromBytes == Spec => []SpansVerbatim
<1>1. IInv => SpansVerbatim
  BY DEF IInv, Tables
<1> QED BY <1>1, Inductive, PTL

\* No run reports a document as secured that is not in the ledger, and the
\* IntegrityError of a lost race never ends a run.
THEOREM IngestReports == Spec => []IngestReportsTrue
<1>1. IInv => IngestReportsTrue
  BY DEF IInv, IngestInv, IngestHand, IngestReportsTrue
<1> QED BY <1>1, Inductive, PTL

-----------------------------------------------------------------------------
(* The refinement *)

\* The rows Promise looks at change only by a commit and by the CDX index.
LEMMA PromiseCases ==
  ASSUME IInv, [Next]_vars
  PROVE  \/ UNCHANGED <<cdx, source, stamp, attestation, span>>
         \/ \E c \in snaps : Index(c) /\ UNCHANGED <<source, stamp, attestation, span>>
         \/ \E r \in IngestRuns :
              IngestCommit(r) /\ UNCHANGED <<cdx, stamp, attestation, span>>
         \/ \E r \in StampRuns :
              StampCommit(r) /\ UNCHANGED <<cdx, source, attestation, span>>
         \/ \E r \in AttestRuns :
              AttestCommit(r) /\ UNCHANGED <<cdx, source, stamp, span>>
         \/ \E r \in ReparseRuns :
              ReparseCommit(r) /\ UNCHANGED <<cdx, source, stamp, attestation>>
<1>0. Tables /\ IngestInv /\ StampInv
  BY DEF IInv
<1>1. CASE IngestMoves
  <2>1. UNCHANGED <<cdx, stamp, attestation, span>>
    BY <1>0, <1>1, IngestOthers DEF IngestMoves
  <2>2. (\E r \in IngestRuns : IngestCommit(r)) \/ UNCHANGED source
    BY <1>1 DEF IngestMoves, IngestNext, IngestStep, IngestFetch, IngestDedup,
       IngestPut, IngestFlush, IngestConflict, IngestAbort, ledgerVars, tableVars
  <2> QED BY <2>1, <2>2
<1>2. CASE TimestampMoves
  <2>1. UNCHANGED <<cdx, source, attestation, span>>
    BY <1>0, <1>2, StampOthers DEF TimestampMoves
  <2>2. (\E r \in StampRuns : StampCommit(r)) \/ UNCHANGED stamp
    BY <1>2 DEF TimestampMoves, TimestampNext, StampStep, StampSelect, StampRead,
       StampAsk, StampFail, StampPut, StampFlush, StampConflict, StampFinish,
       StampAbort, ledgerVars, tableVars
  <2> QED BY <2>1, <2>2
<1>3. CASE CaptureMoves
  BY <1>3, CaptureOthers DEF CaptureMoves
<1>4. CASE AttestMoves
  <2>1. UNCHANGED <<cdx, source, stamp, span>>
    BY <1>4, AttestOthers DEF AttestMoves
  <2>2. (\E r \in AttestRuns : AttestCommit(r)) \/ UNCHANGED attestation
    BY <1>4 DEF AttestMoves, AttestNext, AttestStep, AttestSelect, AttestRead,
       AttestLookup, AttestError, AttestFetch, AttestFetchNone, AttestGiveUp,
       AttestFlush, AttestConflict, AttestFinish, AttestAbort, ledgerVars,
       tableVars
  <2> QED BY <2>1, <2>2
<1>5. CASE ReparseMoves
  <2>1. UNCHANGED <<cdx, source, stamp, attestation>>
    BY <1>5, ReparseOthers DEF ReparseMoves
  <2>2. (\E r \in ReparseRuns : ReparseCommit(r)) \/ UNCHANGED span
    BY <1>5 DEF ReparseMoves, ReparseNext, ReparseStep, ReparseSelect, ReparseRead,
       ReparseLock, ReparseRecheck, ReparseParse, ReparseParseFails, ReparseSkip,
       ReparseResolve, ReparseInsert, ReparseRefused, ReparseError,
       ReparseFinish, ReparseAbort, ledgerVars, tableVars
  <2> QED BY <2>1, <2>2
<1>6. CASE Surroundings \/ UNCHANGED <<worldVars, ledgerVars>>
  BY <1>6 DEF Surroundings, WorldNext, Publish, Archived, Tick, WormNext, WormFault,
     WormRepaired, worldVars, ledgerVars, wormVars, tableVars
<1> QED BY <1>1, <1>2, <1>3, <1>4, <1>5, <1>6, StepCases

\* A source is known by its hash.
LEMMA ByHash ==
  ASSUME Tables, NEW s \in source
  PROVE  /\ s.hash \in Bytes
         /\ \A t \in source : t.hash = s.hash => t = s
  BY DEF Tables, LedgerTypeOK, UniqueHash, Source

LEMMA IndexPromised ==
  ASSUME Tables, NEW c \in snaps, Index(c), UNCHANGED <<source, stamp, attestation, span>>
  PROVE  Promise!EvidenceNext
<1>1. c.bytes \in Bytes
  BY DEF Tables, WorldTypeOK, Snapshot
<1>2. Promise!List(c.bytes)
  BY DEF Index, Promise!List
<1> QED BY <1>1, <1>2 DEF Promise!EvidenceNext

LEMMA IngestPromised ==
  ASSUME Tables, IngestInv, NEW r \in IngestRuns, IngestCommit(r),
         UNCHANGED <<cdx, stamp, attestation, span>>
  PROVE  Promise!EvidenceNext
<1>1. PICK d \in Bytes : d = ing[r].doc /\ ~SourceExists(d)
  BY DEF IngestCommit, IngestInv, IngestHand
<1>2. source' = source \cup {NewSource(r)} /\ NewSource(r).hash = d
  BY <1>1 DEF IngestCommit, NewSource
<1>3. Promise!Secure(d)
  BY <1>1, <1>2 DEF Promise!Secure, SourceExists
<1> QED BY <1>3 DEF Promise!EvidenceNext

LEMMA StampPromised ==
  ASSUME Tables, StampInv, NEW r \in StampRuns, StampCommit(r),
         UNCHANGED <<cdx, source, attestation, span>>
  PROVE  Promise!EvidenceNext
<1> DEFINE By(b) == {t.tsa : t \in {u \in stamp : u.src.hash = b}}
<1>1. /\ tsr[r].src \in source /\ tsr[r].tsa \in Tsas
      /\ \A u \in stamp : ~SameStamp(u, r)
  BY DEF StampCommit, StampInv, StampHand, StampBusy
<1>2. PICK d \in Bytes, a \in Tsas :
        /\ d = tsr[r].src.hash /\ a = tsr[r].tsa
        /\ \A t \in source : t.hash = d => t = tsr[r].src
  BY <1>1, ByHash
<1>3. stamp' = stamp \cup {NewStamp(r)} /\ NewStamp(r).src.hash = d
      /\ NewStamp(r).tsa = a
  BY <1>2 DEF StampCommit, NewStamp
<1>4. a \notin By(d)
  BY <1>1, <1>2 DEF SameStamp, Tables, RowsRooted
<1>5. \A b \in Bytes : By(b)' = IF b = d THEN By(b) \cup {a} ELSE By(b)
  BY <1>3
<1>6. Promise!Stamp(d, a)
  <2>1. d \in {s.hash : s \in source}
    BY <1>1, <1>2
  <2>2. [b \in Bytes |-> By(b)'] = [[b \in Bytes |-> By(b)] EXCEPT ![d] = @ \cup {a}]
    BY <1>2, <1>5
  <2> QED BY <1>2, <1>4, <2>1, <2>2 DEF Promise!Stamp
<1> QED BY <1>6 DEF Promise!EvidenceNext

LEMMA AttestPromised ==
  ASSUME Tables, AttestInv, NEW r \in AttestRuns, AttestCommit(r),
         UNCHANGED <<cdx, source, stamp, span>>
  PROVE  Promise!EvidenceNext
<1>1. /\ att[r].src \in source /\ ~Attested(att[r].src)
      /\ att[r].snap \in cdx /\ att[r].snap.bytes = att[r].src.hash
  BY DEF AttestCommit, AttestInv, AttestHand
<1>2. PICK d \in Bytes :
        d = att[r].src.hash /\ \A t \in source : t.hash = d => t = att[r].src
  BY <1>1, ByHash
<1>3. attestation' = attestation \cup {NewAttestation(r)}
      /\ NewAttestation(r).src.hash = d
  BY <1>2 DEF AttestCommit, NewAttestation
<1>4. d \notin {a.src.hash : a \in attestation}
  BY <1>1, <1>2 DEF Attested, Tables, RowsRooted
<1>5. Promise!Attest(d)
  BY <1>1, <1>2, <1>3, <1>4 DEF Promise!Attest
<1> QED BY <1>5 DEF Promise!EvidenceNext

LEMMA ReparsePromised ==
  ASSUME Tables, ReparseInv, NEW r \in ReparseRuns, ReparseCommit(r),
         UNCHANGED <<cdx, source, stamp, attestation>>
  PROVE  Promise!EvidenceNext
<1> DEFINE Of(b) == {p \in span : p.src.hash = b}
<1>1. PICK s \in source, Q \in SUBSET Span :
        /\ s = rep[r].src /\ Q = rep[r].newSpans
        /\ Attested(s) /\ ~HasSpans(s)
        /\ \A p \in Q : p.src = s
        /\ {p.pos : p \in Q} = {n \in Dated(s.hash) : n < rep[r].i}
        /\ \A p, q \in Q : p.pos = q.pos => p = q
        /\ rep[r].i > Len(Speeches[s.hash]) /\ rep[r].i \in Nat
        /\ span' = span \cup Q
  BY DEF ReparseCommit, ReparseInv, ReparseHand, ReparseTypeOK, Rep
<1>2. s.hash \in Bytes /\ \A t \in source : t.hash = s.hash => t = s
  BY ByHash
<1>3. Of(s.hash) = {} /\ Of(s.hash)' = Q
  BY <1>1, <1>2 DEF HasSpans, Tables, RowsRooted
<1>4. \A b \in Bytes : b # s.hash => Of(b)' = Of(b)
  BY <1>1
<1>5. {p.pos : p \in Q} = Dated(s.hash)
  <2>1. Len(Speeches[s.hash]) \in Nat
    BY <1>2, LedgerAssumption
  <2> QED BY <1>1, <2>1 DEF Dated
<1>6. Promise!Quote(s.hash)
  <2>1. s.hash \in {a.src.hash : a \in attestation}
    BY <1>1 DEF Attested
  <2>2. [b \in Bytes |-> Of(b)']
          = [[b \in Bytes |-> Of(b)] EXCEPT ![s.hash] = Of(s.hash)']
    BY <1>2, <1>4
  <2>3. Promise!Complete(s.hash, Of(s.hash)')
    BY <1>1, <1>2, <1>3, <1>5 DEF Promise!Complete
  <2> QED BY <1>2, <1>3, <2>1, <2>2, <2>3 DEF Promise!Quote
<1> QED BY <1>2, <1>6 DEF Promise!EvidenceNext

\* The pipeline does to each document only what the abstract ledger does.
THEOREM PromiseKept == Spec => KeepsPromise
<1>1. Init => Promise!EvidenceInit
  <2> SUFFICES ASSUME Init PROVE Promise!EvidenceInit
    OBVIOUS
  <2>1. Tables
    BY InitIInv DEF IInv
  <2>2. /\ {s.hash : s \in source} \subseteq Bytes
        /\ {c.bytes : c \in cdx} \subseteq Bytes
    BY <2>1, ByHash DEF Tables, WorldTypeOK, Snapshot
  <2>3. \A a \in attestation :
          a.src.hash \in {s.hash : s \in source} \cap {c.bytes : c \in cdx}
    BY <2>1 DEF Tables, RowsRooted, AttestationsProved
  <2>4. stamp = {} /\ span = {}
    BY DEF Init, LedgerInit
  <2> QED BY <2>2, <2>3, <2>4 DEF Promise!EvidenceInit
<1>2. IInv /\ [Next]_vars => [Promise!EvidenceNext]_(Promise!evidenceVars)
  <2> SUFFICES ASSUME IInv, [Next]_vars
               PROVE  Promise!EvidenceNext \/ UNCHANGED Promise!evidenceVars
    OBVIOUS
  <2>1. Tables /\ IngestInv /\ StampInv /\ AttestInv /\ ReparseInv
    BY DEF IInv
  <2>2. UNCHANGED <<cdx, source, stamp, attestation, span>>
          => UNCHANGED Promise!evidenceVars
    BY DEF Promise!evidenceVars
  <2> QED BY <2>1, <2>2, PromiseCases, IndexPromised, IngestPromised, StampPromised,
             AttestPromised, ReparsePromised
<1> QED BY <1>1, <1>2, Inductive, PTL DEF Spec, KeepsPromise, Promise!EvidenceSpec

-----------------------------------------------------------------------------
(* What the runs report: a success is a row in the ledger, an alarm is an  *)
(* object that really changed.  Both are invariant relative to IInv; what  *)
(* they add to it is that the ledger only grows, and that an altered object*)
(* stays altered.                                                          *)

\* What no step takes back.
Growing ==
  /\ altered \subseteq altered' /\ snaps \subseteq snaps'
  /\ span \subseteq span' /\ speaker \subseteq speaker'
  /\ mandate \subseteq mandate' /\ request \subseteq request'

LEMMA IngestGrows == ASSUME IngestMoves PROVE Growing
  BY DEF Growing, IngestMoves, IngestNext, IngestStep, IngestFetch, IngestDedup,
     IngestPut, Put, IngestFlush, IngestCommit, IngestConflict, IngestAbort,
     worldVars, ledgerVars, wormVars, tableVars

LEMMA StampGrows == ASSUME TimestampMoves PROVE Growing
  BY DEF Growing, TimestampMoves, TimestampNext, StampStep, StampSelect, StampRead,
     StampAsk, StampFail, StampPut, Put, StampFlush, StampCommit, StampConflict,
     StampFinish, StampAbort, worldVars, ledgerVars, wormVars, tableVars

LEMMA CaptureGrows == ASSUME CaptureMoves PROVE Growing
  BY DEF Growing, CaptureMoves, CaptureNext, CaptureStep, CaptureSelect,
     CaptureRead, CaptureLookup, CaptureLookupError, CapturePost, CaptureExecute,
     Archived, CaptureSuccess, CapturePermanent, CapturePostLost,
     CaptureTransient, CaptureFlush, CaptureCommit, CaptureFinish, CaptureAbort,
     worldVars, ledgerVars, wormVars, tableVars

LEMMA AttestGrows == ASSUME AttestMoves PROVE Growing
  BY DEF Growing, AttestMoves, AttestNext, AttestStep, AttestSelect, AttestRead,
     AttestLookup, AttestError, AttestFetch, AttestFetchNone, AttestGiveUp,
     AttestFlush, AttestCommit, AttestConflict, AttestFinish, AttestAbort,
     worldVars, ledgerVars, wormVars, tableVars

LEMMA ReparseGrows == ASSUME ReparseMoves PROVE Growing
  BY DEF Growing, ReparseMoves, ReparseNext, ReparseStep, ReparseSelect,
     ReparseRead, ReparseLock, ReparseRecheck, ReparseParse, ReparseParseFails,
     ReparseSkip, ReparseResolve, ReparseInsert, ReparseRefused, ReparseCommit,
     ReparseError, ReparseFinish, ReparseAbort, worldVars, ledgerVars, wormVars,
     tableVars

LEMMA Growth == ASSUME [Next]_vars PROVE Growing
<1>1. CASE Surroundings
  BY <1>1 DEF Growing, Surroundings, WorldNext, Publish, Archived, Index, Tick,
     WormNext, WormFault, WormRepaired, worldVars, ledgerVars, wormVars, tableVars
<1>2. CASE UNCHANGED <<worldVars, ledgerVars>>
  BY <1>2 DEF Growing, worldVars, ledgerVars, wormVars, tableVars
<1> QED BY <1>1, <1>2, StepCases, IngestGrows, StampGrows, CaptureGrows,
           AttestGrows, ReparseGrows

\* What a pass reads for a source is wrong only if its object was altered.
LEMMA AlarmMeansAltered ==
  ASSUME Tables, NEW s \in source, CheckBytes(s) = "hash_mismatch"
  PROVE  s.ref \in altered
  BY DEF Tables, RefsResolve, CheckBytes, Get

-----------------------------------------------------------------------------
(* timestamp *)

StampAlarmTrue ==
  \A r \in StampRuns : tsr[r].pc = "hash_mismatch" => tsr[r].src.ref \in altered

LEMMA StampAlarmStep ==
  ASSUME IInv, StampAlarmTrue, [Next]_vars
  PROVE  StampAlarmTrue'
<1> SUFFICES ASSUME NEW r \in StampRuns, tsr'[r].pc = "hash_mismatch"
             PROVE  tsr'[r].src.ref \in altered'
  BY DEF StampAlarmTrue
<1>0. tsr'[r].pc = "hash_mismatch"
  OBVIOUS
<1>1. altered \subseteq altered'
  BY Growth DEF Growing
<1>2. CASE tsr'[r] = tsr[r]
  BY <1>1, <1>2 DEF StampAlarmTrue
<1>3. CASE tsr'[r] # tsr[r]
  <2>1. tsr \in [StampRuns -> Tsr] /\ tsr[r].todo \subseteq source
    BY DEF IInv, StampInv, TimestampTypeOK, StampHand
  <2>2. TimestampMoves
    BY <1>3, StepCases DEF IngestMoves, CaptureMoves, AttestMoves, ReparseMoves
  <2>3. \E s \in tsr[r].todo : StampRead(r, s)
    <3>1. PICK p \in StampRuns : StampSelect(p) \/ StampStep(p) \/ StampAbort(p)
      BY <2>2 DEF TimestampMoves, TimestampNext
    <3>2. p = r
      BY <1>3, <2>1, <3>1 DEF StampSelect, StampStep, StampAbort, StampRead, StampAsk, StampFail,
         StampPut, StampFlush, StampCommit, StampConflict, StampFinish, StampGoto
    <3>3. ~StampSelect(r) /\ ~StampAbort(r) /\ ~StampFinish(r)
      <4>1. ASSUME StampSelect(r) PROVE FALSE
        BY <1>0, <2>1, <4>1 DEF StampSelect, StampIdleRun
      <4>2. ASSUME StampAbort(r) PROVE FALSE
        BY <1>0, <2>1, <4>2 DEF StampAbort, StampIdleRun
      <4>3. ASSUME StampFinish(r) PROVE FALSE
        BY <1>0, <2>1, <4>3 DEF StampFinish, StampIdleRun
      <4> QED BY <4>1, <4>2, <4>3
    <3>4. ASSUME NEW answer \in Answers, StampAsk(r, answer) PROVE FALSE
      BY <1>0, <2>1, <3>4 DEF StampAsk
    <3>5. /\ ~StampFail(r) /\ ~StampPut(r) /\ ~StampFlush(r) /\ ~StampCommit(r)
          /\ ~StampConflict(r)
      <4>1. ASSUME StampFail(r) PROVE FALSE
        BY <1>0, <2>1, <4>1 DEF StampFail, StampGoto
      <4>2. ASSUME StampPut(r) PROVE FALSE
        BY <1>0, <2>1, <4>2 DEF StampPut
      <4>3. ASSUME StampFlush(r) PROVE FALSE
        <5>1. PICK l \in {"conflict", "flushed"} : StampGoto(r, l)
          BY <4>3 DEF StampFlush
        <5> QED BY <1>0, <2>1, <5>1 DEF StampGoto
      <4>4. ASSUME StampCommit(r) PROVE FALSE
        BY <1>0, <2>1, <4>4 DEF StampCommit, StampGoto
      <4>5. ASSUME StampConflict(r) PROVE FALSE
        BY <1>0, <2>1, <4>5 DEF StampConflict, StampGoto
      <4> QED BY <4>1, <4>2, <4>3, <4>4, <4>5
    <3> QED BY <3>1, <3>2, <3>3, <3>4, <3>5 DEF StampStep
  <2>4. PICK s \in tsr[r].todo : StampRead(r, s)
    BY <2>3
  <2>5. tsr'[r].pc = CheckBytes(s) /\ tsr'[r].src = s
    BY <2>1, <2>4 DEF StampRead
  <2> QED BY <1>1, <2>1, <2>5, AlarmMeansAltered DEF IInv
<1> QED BY <1>2, <1>3

\* "stamped" is a row, and the alarm of timestamp an altered object.
THEOREM StampReports == Spec => []StampReportsTrue
<1>1. Init => StampAlarmTrue
  BY DEF Init, TimestampInit, StampIdleRun, StampAlarmTrue
<1>2. IInv /\ StampAlarmTrue /\ [Next]_vars => StampAlarmTrue'
  BY StampAlarmStep
<1>3. IInv /\ StampAlarmTrue => StampReportsTrue
  BY DEF IInv, StampInv, StampHand, StampAlarmTrue, StampReportsTrue
<1> QED BY <1>1, <1>2, <1>3, Inductive, PTL DEF Spec

-----------------------------------------------------------------------------
(* attest *)

AttestAlarmTrue ==
  \A r \in AttestRuns : att[r].pc = "hash_mismatch" => att[r].src.ref \in altered

LEMMA AttestAlarmStep ==
  ASSUME IInv, AttestAlarmTrue, [Next]_vars
  PROVE  AttestAlarmTrue'
<1> SUFFICES ASSUME NEW r \in AttestRuns, att'[r].pc = "hash_mismatch"
             PROVE  att'[r].src.ref \in altered'
  BY DEF AttestAlarmTrue
<1>0. att'[r].pc = "hash_mismatch"
  OBVIOUS
<1>1. altered \subseteq altered'
  BY Growth DEF Growing
<1>2. CASE att'[r] = att[r]
  BY <1>1, <1>2 DEF AttestAlarmTrue
<1>3. CASE att'[r] # att[r]
  <2>1. att \in [AttestRuns -> Att] /\ att[r].todo \subseteq source
    BY DEF IInv, AttestInv, AttestTypeOK, AttestHand
  <2>2. AttestMoves
    BY <1>3, StepCases DEF IngestMoves, TimestampMoves, CaptureMoves, ReparseMoves
  <2>3. \E s \in att[r].todo : AttestRead(r, s)
    <3>1. PICK p \in AttestRuns : AttestSelect(p) \/ AttestStep(p) \/ AttestAbort(p)
      BY <2>2 DEF AttestMoves, AttestNext
    <3>2. p = r
      BY <1>3, <2>1, <3>1 DEF AttestSelect, AttestStep, AttestAbort, AttestRead, AttestLookup,
         AttestError, AttestFetch, AttestFetchNone, AttestGiveUp, AttestFlush,
         AttestCommit, AttestConflict, AttestFinish, AttestGoto
    <3>3. ~AttestSelect(r) /\ ~AttestAbort(r) /\ ~AttestFinish(r)
      <4>1. ASSUME AttestSelect(r) PROVE FALSE
        BY <1>0, <2>1, <4>1 DEF AttestSelect, AttestFresh
      <4>2. ASSUME AttestAbort(r) PROVE FALSE
        BY <1>0, <2>1, <4>2 DEF AttestAbort, AttestIdleRun, AttestFresh
      <4>3. ASSUME AttestFinish(r) PROVE FALSE
        BY <1>0, <2>1, <4>3 DEF AttestFinish, AttestIdleRun, AttestFresh
      <4> QED BY <4>1, <4>2, <4>3
    <3>4. ASSUME NEW c, NEW got, AttestFetch(r, c, got) \/ AttestFetchNone(r, c)
          PROVE  FALSE
      <4>1. att[r].pc = "trying"
        BY <3>4 DEF AttestFetch, AttestFetchNone, AttestTry
      <4>2. att'[r].pc \in {"trying", "matched"}
        <5>1. CASE AttestFetch(r, c, got) /\ got = att[r].src.hash
          BY <2>1, <5>1 DEF AttestFetch
        <5>2. CASE AttestFetch(r, c, got) /\ got # att[r].src.hash
          BY <2>1, <4>1, <5>2 DEF AttestFetch
        <5>3. CASE AttestFetchNone(r, c)
          BY <2>1, <4>1, <5>3 DEF AttestFetchNone
        <5> QED BY <3>4, <5>1, <5>2, <5>3
      <4> QED BY <1>0, <4>2
    <3>5. /\ ~AttestLookup(r) /\ ~AttestError(r) /\ ~AttestGiveUp(r)
          /\ ~AttestFlush(r) /\ ~AttestCommit(r) /\ ~AttestConflict(r)
      <4>1. ASSUME AttestLookup(r) PROVE FALSE
        BY <1>0, <2>1, <4>1 DEF AttestLookup
      <4>2. ASSUME AttestError(r) PROVE FALSE
        BY <1>0, <2>1, <4>2 DEF AttestError, AttestGoto
      <4>3. ASSUME AttestGiveUp(r) PROVE FALSE
        BY <1>0, <2>1, <4>3 DEF AttestGiveUp, AttestGoto
      <4>4. ASSUME AttestFlush(r) PROVE FALSE
        <5>1. PICK l \in {"conflict", "flushed", "refused"} : AttestGoto(r, l)
          BY <4>4 DEF AttestFlush
        <5> QED BY <1>0, <2>1, <5>1 DEF AttestGoto
      <4>5. ASSUME AttestCommit(r) PROVE FALSE
        BY <1>0, <2>1, <4>5 DEF AttestCommit, AttestGoto
      <4>6. ASSUME AttestConflict(r) PROVE FALSE
        BY <1>0, <2>1, <4>6 DEF AttestConflict, AttestGoto
      <4> QED BY <4>1, <4>2, <4>3, <4>4, <4>5, <4>6
    <3> QED BY <3>1, <3>2, <3>3, <3>4, <3>5 DEF AttestStep
  <2>4. PICK s \in att[r].todo : AttestRead(r, s)
    BY <2>3
  <2>5. att'[r].pc = CheckBytes(s) /\ att'[r].src = s
    BY <2>1, <2>4 DEF AttestRead, AttestFresh
  <2> QED BY <1>1, <2>1, <2>5, AlarmMeansAltered DEF IInv
<1> QED BY <1>2, <1>3

\* "attested" is a row, the alarm of attest an altered object, and the trigger
\* never has to refuse a row.
THEOREM AttestReports == Spec => []AttestReportsTrue
<1>1. Init => AttestAlarmTrue
  BY DEF Init, AttestInit, AttestIdleRun, AttestFresh, AttestAlarmTrue
<1>2. IInv /\ AttestAlarmTrue /\ [Next]_vars => AttestAlarmTrue'
  BY AttestAlarmStep
<1>3. IInv /\ AttestAlarmTrue => AttestReportsTrue
  BY DEF IInv, AttestInv, AttestHand, AttestAlarmTrue, AttestReportsTrue
<1> QED BY <1>1, <1>2, <1>3, Inductive, PTL DEF Spec

-----------------------------------------------------------------------------
(* reparse *)

\* If the state of a run has changed, the run has taken a step.
LEMMA ReparseStepped ==
  ASSUME IInv, [Next]_vars, NEW r \in ReparseRuns, rep'[r] # rep[r]
  PROVE  /\ ReparseMoves /\ rep \in [ReparseRuns -> Rep]
         /\ ReparseHand(r) /\ Tables
         /\ \/ ReparseSelect(r) \/ ReparseStep(r) \/ ReparseError(r)
            \/ ReparseAbort(r)
<1>1. rep \in [ReparseRuns -> Rep] /\ ReparseHand(r) /\ Tables
  BY DEF IInv, ReparseInv, ReparseTypeOK
<1>2. ReparseMoves
  BY StepCases DEF IngestMoves, TimestampMoves, CaptureMoves, AttestMoves
<1>3. PICK p \in ReparseRuns :
        ReparseSelect(p) \/ ReparseStep(p) \/ ReparseError(p) \/ ReparseAbort(p)
  BY <1>2 DEF ReparseMoves, ReparseNext
<1>4. \E new : rep' = [rep EXCEPT ![p] = new]
  BY <1>3 DEF ReparseSelect, ReparseStep, ReparseRead, ReparseLock, ReparseRecheck,
     ReparseParse, ReparseParseFails, ReparseSkip, ReparseResolve, ReparseInsert,
     ReparseRefused, ReparseCommit, ReparseFinish, ReparseError, ReparseAbort,
     ReparseSettle
<1>5. p = r
  BY <1>1, <1>4
<1> QED BY <1>1, <1>2, <1>3, <1>5

\* Settling a source drops what its transaction has not committed.
LEMMA ReparseSettled ==
  ASSUME rep \in [ReparseRuns -> Rep], NEW r \in ReparseRuns, NEW outcome,
         ReparseSettle(r, outcome)
  PROVE  /\ rep'[r].pc = outcome /\ rep'[r].src = rep[r].src
         /\ rep'[r].newSpans = {} /\ rep'[r].newMandates = {}
         /\ rep'[r].newSpeakers = {}
  BY DEF ReparseSettle, ReparseFresh

LEMMA ReparseReportsStep ==
  ASSUME IInv, ReparseReportsTrue, [Next]_vars
  PROVE  ReparseReportsTrue'
<1> SUFFICES ASSUME NEW r \in ReparseRuns
             PROVE  /\ rep'[r].pc \in {"reparsed", "skipped_has_spans"} =>
                         \E p \in span' : p.src = rep'[r].src
                    /\ rep'[r].pc = "hash_mismatch" => rep'[r].src.ref \in altered'
  BY DEF ReparseReportsTrue, HasSpans
<1>1. altered \subseteq altered' /\ span \subseteq span'
  BY Growth DEF Growing
<1>2. CASE rep'[r] = rep[r]
  BY <1>1, <1>2 DEF ReparseReportsTrue, HasSpans
<1>3. CASE rep'[r] # rep[r]
  <2>1. /\ rep \in [ReparseRuns -> Rep] /\ ReparseHand(r) /\ Tables
        /\ \/ ReparseSelect(r) \/ ReparseStep(r) \/ ReparseError(r)
           \/ ReparseAbort(r)
    BY <1>3, ReparseStepped
  <2>2. ASSUME NEW s \in rep[r].todo, ReparseRead(r, s)
        PROVE  /\ rep'[r].pc \in {"no_text", CheckBytes(s)} /\ rep'[r].src = s
               /\ s \in source
    BY <2>1, <2>2 DEF ReparseRead, ReparseFresh, ReparseHand
  <2>3. ASSUME NEW s \in rep[r].todo, ReparseRead(r, s),
               rep'[r].pc = "hash_mismatch"
        PROVE  rep'[r].src.ref \in altered'
    BY <1>1, <2>1, <2>2, <2>3, AlarmMeansAltered
  <2>4. ASSUME ReparseRecheck(r), rep'[r].pc = "skipped_has_spans"
        PROVE  \E p \in span' : p.src = rep'[r].src
    <3>1. Attested(rep[r].src)
      BY <2>1, <2>4 DEF ReparseRecheck, ReparseHand, ReparseInTx
    <3>2. CASE ~HasSpans(rep[r].src)
      <4>1. rep' = [rep EXCEPT ![r].pc = "spanless"]
        BY <2>4, <3>1, <3>2 DEF ReparseRecheck
      <4> QED BY <2>1, <2>4, <4>1
    <3>3. CASE HasSpans(rep[r].src)
      <4>1. ReparseSettle(r, "skipped_has_spans")
        BY <2>4, <3>3 DEF ReparseRecheck
      <4> QED BY <1>1, <2>1, <3>3, <4>1, ReparseSettled DEF HasSpans
    <3> QED BY <3>2, <3>3
  <2>5. ASSUME ReparseCommit(r), rep'[r].pc = "reparsed"
        PROVE  \E p \in span' : p.src = rep'[r].src
    <3>1. rep[r].newSpans # {} /\ rep'[r].src = rep[r].src
      BY <2>1, <2>5, ReparseSettled DEF ReparseCommit
    <3>2. PICK p \in rep[r].newSpans : p.src = rep[r].src
      BY <2>1, <3>1 DEF ReparseHand
    <3>3. p \in span'
      BY <2>5 DEF ReparseCommit
    <3> QED BY <3>1, <3>2, <3>3
  <2>6. rep'[r].pc \in {"reparsed", "skipped_has_spans", "hash_mismatch"} =>
          \/ \E s \in rep[r].todo : ReparseRead(r, s)
          \/ ReparseRecheck(r) \/ ReparseCommit(r)
    <3>1. ASSUME ReparseSelect(r) \/ ReparseFinish(r) \/ ReparseAbort(r)
          PROVE  rep'[r].pc \in {"selected", "idle"}
      BY <2>1, <3>1 DEF ReparseSelect, ReparseFinish, ReparseAbort,
         ReparseIdleRun, ReparseFresh
    <3>2. ASSUME ReparseParseFails(r) \/ ReparseRefused(r) \/ ReparseError(r)
          PROVE  rep'[r].pc \in {"still_empty", "error"}
      BY <2>1, <3>2, ReparseSettled DEF ReparseParseFails, ReparseRefused,
         ReparseError
    <3>3. ReparseLock(r) => rep'[r].pc = "locked"
      BY <2>1 DEF ReparseLock
    <3>4. ReparseParse(r) => rep'[r].pc = "writing"
      BY <2>1 DEF ReparseParse
    <3>7. ReparseSkip(r) => rep'[r].pc = "writing"
      <4>1. ReparseSkip(r) =>
              rep[r].pc = "writing" /\ rep' = [rep EXCEPT ![r].i = @ + 1]
        BY DEF ReparseSkip, Drafting
      <4> QED BY <2>1, <4>1 DEF Rep
    <3>5. ReparseResolve(r) => rep'[r].pc = "resolved"
      BY <2>1 DEF ReparseResolve
    <3>6. ReparseInsert(r) => rep'[r].pc = "writing"
      BY <2>1 DEF ReparseInsert
    <3>8. \/ \E s \in rep[r].todo : ReparseRead(r, s)
          \/ ReparseRecheck(r) \/ ReparseCommit(r)
          \/ rep'[r].pc \in {"selected", "idle", "still_empty", "error", "locked",
                              "writing", "resolved"}
      BY <2>1, <3>1, <3>2, <3>3, <3>4, <3>5, <3>6, <3>7 DEF ReparseStep
    <3> QED BY <3>8
  <2>7. ReparseRecheck(r) => rep'[r].pc \in {"spanless", "skipped_has_spans"}
    <3>1. ReparseRecheck(r) => \/ rep' = [rep EXCEPT ![r].pc = "spanless"]
                               \/ ReparseSettle(r, "skipped_has_spans")
      BY DEF ReparseRecheck
    <3>2. rep' = [rep EXCEPT ![r].pc = "spanless"] => rep'[r].pc = "spanless"
      BY <2>1 DEF Rep
    <3> QED BY <2>1, <3>1, <3>2, ReparseSettled
  <2>8. ReparseCommit(r) => rep'[r].pc \in {"still_empty", "reparsed"}
    BY <2>1, ReparseSettled DEF ReparseCommit
  <2>9. \A s \in rep[r].todo : ReparseRead(r, s) =>
          rep'[r].pc \notin {"reparsed", "skipped_has_spans"}
    BY <2>1, <2>2, ReadLemma
  <2> QED BY <2>3, <2>4, <2>5, <2>6, <2>7, <2>8, <2>9
<1> QED BY <1>2, <1>3

\* "reparsed" and "skipped_has_spans" are spans, of this run or another, and
\* the alarm of reparse is an altered object.
THEOREM ReparseReports == Spec => []ReparseReportsTrue
<1>1. Init => ReparseReportsTrue
  BY DEF Init, ReparseInit, ReparseIdleRun, ReparseFresh, ReparseReportsTrue
<1>2. IInv /\ ReparseReportsTrue /\ [Next]_vars => ReparseReportsTrue'
  BY ReparseReportsStep
<1> QED BY <1>1, <1>2, Inductive, PTL DEF Spec

\* The uncommitted rows of run r refer to committed ones and to each other.
SpeakersHand(r) ==
  /\ \A p \in rep[r].newSpans : p.mandate \in mandate \cup rep[r].newMandates
  /\ \A m \in rep[r].newMandates : m.who \in speaker \cup rep[r].newSpeakers
  /\ rep[r].pc = "resolved" => rep[r].who \in speaker \cup rep[r].newSpeakers

SpeakersInv == SpeakersExist /\ \A r \in ReparseRuns : SpeakersHand(r)

LEMMA SpeakersHandStep ==
  ASSUME IInv, SpeakersInv, [Next]_vars, NEW r \in ReparseRuns
  PROVE  SpeakersHand(r)'
<1>0. speaker \subseteq speaker' /\ mandate \subseteq mandate' /\ SpeakersHand(r)
  BY Growth DEF Growing, SpeakersInv
<1>1. CASE rep'[r] = rep[r]
  BY <1>0, <1>1 DEF SpeakersHand
<1>2. CASE rep'[r] # rep[r]
  <2>1. /\ rep \in [ReparseRuns -> Rep]
        /\ \/ ReparseSelect(r) \/ ReparseStep(r) \/ ReparseError(r)
           \/ ReparseAbort(r)
    BY <1>2, ReparseStepped
  <2>2. ASSUME rep'[r].newSpans = {}, rep'[r].newMandates = {},
               rep'[r].pc # "resolved"
        PROVE  SpeakersHand(r)'
    BY <2>2 DEF SpeakersHand
  <2>3. CASE ReparseSelect(r) \/ ReparseFinish(r) \/ ReparseAbort(r)
    BY <2>1, <2>2, <2>3 DEF ReparseSelect, ReparseFinish, ReparseAbort,
       ReparseIdleRun, ReparseFresh
  <2>4. ASSUME NEW s \in rep[r].todo, ReparseRead(r, s) PROVE SpeakersHand(r)'
    <3>1. CheckBytes(s) # "resolved"
      BY DEF CheckBytes
    <3> QED BY <2>1, <2>2, <2>4, <3>1 DEF ReparseRead, ReparseFresh
  <2>5. ASSUME NEW o \in {"skipped_has_spans", "still_empty", "error", "reparsed"},
               ReparseSettle(r, o)
        PROVE  SpeakersHand(r)'
    BY <2>1, <2>2, <2>5, ReparseSettled
  <2>6. CASE ReparseParseFails(r) \/ ReparseRefused(r) \/ ReparseError(r)
               \/ ReparseCommit(r)
    BY <2>5, <2>6 DEF ReparseParseFails, ReparseRefused, ReparseError,
       ReparseCommit
  <2>7. ASSUME rep'[r].newSpans = rep[r].newSpans,
               rep'[r].newMandates = rep[r].newMandates,
               rep'[r].newSpeakers = rep[r].newSpeakers, rep'[r].pc # "resolved"
        PROVE  SpeakersHand(r)'
    BY <1>0, <2>7 DEF SpeakersHand
  <2>8. CASE ReparseLock(r)
    BY <2>1, <2>7, <2>8 DEF ReparseLock
  <2>9. CASE ReparseRecheck(r)
    <3>1. CASE rep' = [rep EXCEPT ![r].pc = "spanless"]
      BY <2>1, <2>7, <3>1
    <3> QED BY <2>5, <2>9, <3>1 DEF ReparseRecheck
  <2>10. CASE ReparseParse(r)
    BY <2>1, <2>7, <2>10 DEF ReparseParse
  <2>11. CASE ReparseSkip(r)
    BY <2>1, <2>7, <2>11 DEF ReparseSkip, Drafting
  <2>12. CASE ReparseResolve(r)
    <3>1. PICK k : rep' = [rep EXCEPT ![r] =
             [rep[r] EXCEPT !.pc = "resolved", !.who = k,
                  !.newSpeakers = rep[r].newSpeakers \cup ({k} \ speaker)]]
      BY <2>12 DEF ReparseResolve
    <3>2. /\ rep'[r].who = k
          /\ rep'[r].newSpeakers = rep[r].newSpeakers \cup ({k} \ speaker)
          /\ rep'[r].newMandates = rep[r].newMandates
          /\ rep'[r].newSpans = rep[r].newSpans
      BY <2>1, <3>1 DEF Rep
    <3> QED BY <1>0, <3>2 DEF SpeakersHand
  <2>13. CASE ReparseInsert(r)
    <3> DEFINE Row(m) == [src |-> rep[r].src, pos |-> rep[r].i, mandate |-> m,
                          basis |-> rep[r].raw, by |-> r]
               made == [who |-> rep[r].who, party |-> CurrentDraft(r).party,
                        origin |-> rep[r].src]
    <3>1. PICK m \in KnownMandates(r) \cup {made} :
            rep' = [rep EXCEPT ![r] =
                      [rep[r] EXCEPT !.pc = "writing", !.i = rep[r].i + 1,
                         !.newMandates = rep[r].newMandates \cup ({m} \ mandate),
                         !.newSpans = rep[r].newSpans \cup {Row(m)}]]
      BY <2>13 DEF ReparseInsert
    <3>2. /\ rep'[r].newMandates = rep[r].newMandates \cup ({m} \ mandate)
          /\ rep'[r].newSpans = rep[r].newSpans \cup {Row(m)}
          /\ rep'[r].newSpeakers = rep[r].newSpeakers
          /\ rep'[r].pc = "writing"
      BY <2>1, <3>1 DEF Rep
    <3>3. m.who = rep[r].who /\ rep[r].who \in speaker \cup rep[r].newSpeakers
      BY <1>0, <2>13, <3>1 DEF KnownMandates, SpeakersHand, ReparseInsert
    <3>4. Row(m).mandate = m
      OBVIOUS
    <3> HIDE DEF Row
    <3> QED BY <1>0, <3>2, <3>3, <3>4 DEF SpeakersHand
  <2> QED BY <2>1, <2>3, <2>4, <2>6, <2>8, <2>9, <2>10, <2>11, <2>12, <2>13
          DEF ReparseStep
<1> QED BY <1>1, <1>2

\* Only reparse writes spans, mandates and speakers.
LEMMA SpeakersAlone ==
  ASSUME [Next]_vars, ~ReparseMoves
  PROVE  UNCHANGED <<rep, span, mandate, speaker>>
<1>1. CASE IngestMoves
  BY <1>1 DEF IngestMoves, IngestNext, IngestStep, IngestFetch, IngestDedup,
     IngestPut, IngestFlush, IngestCommit, IngestConflict, IngestAbort,
     ledgerVars, tableVars
<1>2. CASE TimestampMoves
  BY <1>2 DEF TimestampMoves, TimestampNext, StampStep, StampSelect,
     StampRead, StampAsk, StampFail, StampPut, StampFlush, StampCommit,
     StampConflict, StampFinish, StampAbort, ledgerVars, tableVars
<1>3. CASE CaptureMoves
  BY <1>3 DEF CaptureMoves, CaptureNext, CaptureStep, CaptureSelect,
     CaptureRead, CaptureLookup, CaptureLookupError, CapturePost,
     CaptureExecute, CaptureSuccess, CapturePermanent, CapturePostLost,
     CaptureTransient, CaptureFlush, CaptureCommit, CaptureFinish,
     CaptureAbort, ledgerVars, tableVars
<1>4. CASE AttestMoves
  BY <1>4 DEF AttestMoves, AttestNext, AttestStep, AttestSelect, AttestRead,
     AttestLookup, AttestError, AttestFetch, AttestFetchNone, AttestGiveUp,
     AttestFlush, AttestCommit, AttestConflict, AttestFinish, AttestAbort,
     ledgerVars, tableVars
<1>5. CASE /\ Surroundings \/ UNCHANGED <<worldVars, ledgerVars>>
           /\ UNCHANGED rep
  BY <1>5 DEF Surroundings, WormNext, WormFault, WormRepaired, ledgerVars,
     tableVars
<1> QED BY <1>1, <1>2, <1>3, <1>4, <1>5, StepCases

LEMMA SpeakersStep ==
  ASSUME IInv, SpeakersInv, [Next]_vars
  PROVE  SpeakersInv'
<1>1. \A r \in ReparseRuns : SpeakersHand(r)'
  BY SpeakersHandStep
<1>2. SpeakersExist /\ \A r \in ReparseRuns : SpeakersHand(r)
  BY DEF SpeakersInv
<1>3. UNCHANGED <<span, mandate, speaker>> => SpeakersExist'
  BY <1>2 DEF SpeakersExist
<1>4. ASSUME NEW r \in ReparseRuns, ReparseCommit(r) PROVE SpeakersExist'
  <2>1. /\ span' = span \cup rep[r].newSpans
        /\ speaker' = speaker \cup rep[r].newSpeakers
        /\ mandate' = mandate \cup rep[r].newMandates
    BY <1>4 DEF ReparseCommit
  <2>2. SpeakersHand(r)
    BY <1>2
  <2>3. \A p \in span' : p.mandate \in mandate'
    BY <1>2, <2>1, <2>2 DEF SpeakersExist, SpeakersHand
  <2>4. \A m \in mandate' : m.who \in speaker'
    BY <1>2, <2>1, <2>2 DEF SpeakersExist, SpeakersHand
  <2> QED BY <2>3, <2>4 DEF SpeakersExist
<1>5. ReparseMoves => SpeakersExist'
  BY <1>3, <1>4 DEF ReparseMoves, ReparseNext, ReparseStep, ReparseSelect,
     ReparseRead, ReparseLock, ReparseRecheck, ReparseParse, ReparseParseFails,
     ReparseSkip, ReparseResolve, ReparseInsert, ReparseRefused, ReparseError,
     ReparseFinish, ReparseAbort, ledgerVars, tableVars
<1>6. ~ReparseMoves => SpeakersExist'
  BY <1>3, SpeakersAlone
<1> QED BY <1>1, <1>5, <1>6 DEF SpeakersInv

\* No span or mandate refers to a row that was rolled back.
THEOREM SpeakersAreThere == Spec => []SpeakersExist
<1>1. Init => SpeakersInv
  BY DEF Init, LedgerInit, ReparseInit, ReparseIdleRun, ReparseFresh, SpeakersInv,
     SpeakersExist, SpeakersHand
<1>2. IInv /\ SpeakersInv /\ [Next]_vars => SpeakersInv'
  BY SpeakersStep
<1>3. SpeakersInv => SpeakersExist
  BY DEF SpeakersInv
<1> QED BY <1>1, <1>2, <1>3, Inductive, PTL DEF Spec

-----------------------------------------------------------------------------
(* One row per name.  Nothing in the schema keeps it, so it holds only as  *)
(* long as reparse runs do not overlap (run Reparse_speakers of the MC     *)
(* configurations shows two that do).                                      *)

OneByName(S) == \A k, l \in S : k.name = l.name => k = l
OneByParty(M) == \A m, n \in M : (m.who = n.who /\ m.party = n.party) => m = n

\* Committed or not, the rows the only run can see are unique.
NamesHand(r) ==
  /\ OneByName(speaker \cup rep[r].newSpeakers)
  /\ OneByParty(mandate \cup rep[r].newMandates)

NamesInv == UniqueSpeaker /\ \A r \in ReparseRuns : NamesHand(r)

\* The two look-ups take a known row where there is one.
LEMMA ResolveOne ==
  ASSUME NEW S, OneByName(S), NEW name, NEW k,
         \/ k \in {l \in S : l.name = name}
         \/ {l \in S : l.name = name} = {} /\ k.name = name
  PROVE  OneByName(S \cup {k})
  BY DEF OneByName

LEMMA MandateOne ==
  ASSUME NEW M, OneByParty(M), NEW who, NEW party, NEW m,
         \/ m \in {n \in M : n.who = who /\ n.party = party}
         \/ /\ {n \in M : n.who = who /\ n.party = party} = {}
            /\ m.who = who /\ m.party = party
  PROVE  OneByParty(M \cup {m})
  BY DEF OneByParty

LEMMA NamesHandStep ==
  ASSUME IInv, NEW r \in ReparseRuns, UniqueSpeaker, NamesHand(r), [Next]_vars,
         rep'[r] # rep[r]
  PROVE  NamesHand(r)' /\ UniqueSpeaker'
<1>0. /\ OneByName(speaker) /\ OneByParty(mandate)
      /\ OneByName(speaker \cup rep[r].newSpeakers)
      /\ OneByParty(mandate \cup rep[r].newMandates)
  BY DEF UniqueSpeaker, OneByName, OneByParty, NamesHand
<1>1. /\ rep \in [ReparseRuns -> Rep]
      /\ \/ ReparseSelect(r) \/ ReparseStep(r) \/ ReparseError(r)
         \/ ReparseAbort(r)
  BY ReparseStepped
\* An action that is not the commit, and what it may do.
<1>2. ASSUME UNCHANGED <<speaker, mandate>>,
             rep'[r].newSpeakers \in {{}, rep[r].newSpeakers},
             rep'[r].newMandates \in {{}, rep[r].newMandates}
      PROVE  NamesHand(r)' /\ UniqueSpeaker'
  BY <1>0, <1>2 DEF NamesHand, UniqueSpeaker, OneByName, OneByParty
<1>3. CASE ReparseSelect(r) \/ ReparseFinish(r) \/ ReparseAbort(r)
  BY <1>1, <1>2, <1>3 DEF ReparseSelect, ReparseFinish, ReparseAbort,
     ReparseIdleRun, ReparseFresh, ledgerVars, tableVars
<1>4. ASSUME NEW s \in rep[r].todo, ReparseRead(r, s)
      PROVE  NamesHand(r)' /\ UniqueSpeaker'
  BY <1>1, <1>2, <1>4 DEF ReparseRead, ReparseFresh, ledgerVars, tableVars
<1>5. ASSUME NEW o, ReparseSettle(r, o), UNCHANGED <<speaker, mandate>>
      PROVE  NamesHand(r)' /\ UniqueSpeaker'
  BY <1>1, <1>2, <1>5, ReparseSettled
<1>6. CASE ReparseParseFails(r) \/ ReparseRefused(r) \/ ReparseError(r)
  BY <1>5, <1>6 DEF ReparseParseFails, ReparseRefused, ReparseError, tableVars
<1>7. CASE ReparseLock(r)
  BY <1>1, <1>2, <1>7 DEF ReparseLock, tableVars
<1>8. CASE ReparseParse(r)
  BY <1>1, <1>2, <1>8 DEF ReparseParse, ledgerVars, tableVars
<1>9. CASE ReparseRecheck(r)
  <2>1. CASE rep' = [rep EXCEPT ![r].pc = "spanless"]
    BY <1>1, <1>2, <1>9, <2>1 DEF ReparseRecheck, tableVars
  <2> QED BY <1>5, <1>9, <2>1 DEF ReparseRecheck, tableVars
<1>10. CASE ReparseSkip(r)
  BY <1>1, <1>2, <1>10 DEF ReparseSkip, Drafting, ledgerVars, tableVars
<1>11. CASE ReparseResolve(r)
  <2> DEFINE name == CurrentDraft(r).name
             made == [name |-> name, origin |-> rep[r].src]
  <2>1. PICK k \in IF KnownSpeakers(r, name) # {} THEN KnownSpeakers(r, name)
                                                  ELSE {made} :
          rep' = [rep EXCEPT ![r] =
             [rep[r] EXCEPT !.pc = "resolved", !.who = k,
                  !.newSpeakers = rep[r].newSpeakers \cup ({k} \ speaker)]]
    BY <1>11 DEF ReparseResolve
  <2>2. /\ rep'[r].newSpeakers = rep[r].newSpeakers \cup ({k} \ speaker)
        /\ rep'[r].newMandates = rep[r].newMandates
    BY <1>1, <2>1 DEF Rep
  <2>3. UNCHANGED <<speaker, mandate>>
    BY <1>11 DEF ReparseResolve, ledgerVars, tableVars
  <2>4. speaker' \cup rep'[r].newSpeakers = (speaker \cup rep[r].newSpeakers) \cup {k}
    BY <2>2, <2>3
  <2>5. made.name = name
    OBVIOUS
  <2> HIDE DEF made, name
  <2>6. OneByName((speaker \cup rep[r].newSpeakers) \cup {k})
    BY <1>0, <2>1, <2>5, ResolveOne DEF KnownSpeakers
  <2> QED BY <1>0, <2>2, <2>3, <2>4, <2>6
          DEF NamesHand, UniqueSpeaker, OneByName, OneByParty
<1>12. CASE ReparseInsert(r)
  <2> DEFINE party == CurrentDraft(r).party
             who == rep[r].who
             made == [who |-> who, party |-> party, origin |-> rep[r].src]
             Row(m) == [src |-> rep[r].src, pos |-> rep[r].i, mandate |-> m,
                        basis |-> rep[r].raw, by |-> r]
  <2>1. PICK m \in IF KnownMandates(r) # {} THEN KnownMandates(r) ELSE {made} :
          rep' = [rep EXCEPT ![r] =
                    [rep[r] EXCEPT !.pc = "writing", !.i = rep[r].i + 1,
                       !.newMandates = rep[r].newMandates \cup ({m} \ mandate),
                       !.newSpans = rep[r].newSpans \cup {Row(m)}]]
    BY <1>12 DEF ReparseInsert
  <2>2. /\ rep'[r].newMandates = rep[r].newMandates \cup ({m} \ mandate)
        /\ rep'[r].newSpeakers = rep[r].newSpeakers
    BY <1>1, <2>1 DEF Rep
  <2>3. UNCHANGED <<speaker, mandate>>
    BY <1>12 DEF ReparseInsert, ledgerVars, tableVars
  <2>4. mandate' \cup rep'[r].newMandates = (mandate \cup rep[r].newMandates) \cup {m}
    BY <2>2, <2>3
  <2>5. made.who = who /\ made.party = party
    OBVIOUS
  <2>6. KnownMandates(r) = {n \in mandate \cup rep[r].newMandates :
                              n.who = who /\ n.party = party}
    BY DEF KnownMandates
  <2> HIDE DEF made, party, who, Row
  <2>7. OneByParty((mandate \cup rep[r].newMandates) \cup {m})
    BY <1>0, <2>1, <2>5, <2>6, MandateOne
  <2> QED BY <1>0, <2>2, <2>3, <2>4, <2>7
          DEF NamesHand, UniqueSpeaker, OneByName, OneByParty
<1>13. CASE ReparseCommit(r)
  <2>1. /\ speaker' = speaker \cup rep[r].newSpeakers
        /\ mandate' = mandate \cup rep[r].newMandates
        /\ rep'[r].newSpeakers = {} /\ rep'[r].newMandates = {}
    BY <1>1, <1>13, ReparseSettled DEF ReparseCommit
  <2> QED BY <1>0, <2>1 DEF NamesHand, UniqueSpeaker, OneByName, OneByParty
<1> QED BY <1>1, <1>3, <1>4, <1>6, <1>7, <1>8, <1>9, <1>10, <1>11, <1>12, <1>13
        DEF ReparseStep

LEMMA NamesStep ==
  ASSUME \A q, r \in ReparseRuns : q = r, IInv, NamesInv, [Next]_vars
  PROVE  NamesInv'
<1>1. CASE \A r \in ReparseRuns : rep'[r] = rep[r]
  <2>1. UNCHANGED <<speaker, mandate>>
    <3>1. ASSUME NEW r \in ReparseRuns, ReparseCommit(r) PROVE FALSE
      <4>1. /\ rep \in [ReparseRuns -> Rep] /\ rep[r].pc = "writing"
            /\ rep'[r].pc \in {"still_empty", "reparsed"}
        <5>1. rep \in [ReparseRuns -> Rep]
          BY DEF IInv, ReparseInv, ReparseTypeOK
        <5> QED BY <3>1, <5>1, ReparseSettled DEF ReparseCommit
      <4> QED BY <1>1, <4>1
    <3>2. CASE ReparseMoves
      BY <3>1, <3>2 DEF ReparseMoves, ReparseNext, ReparseStep, ReparseSelect,
         ReparseRead, ReparseLock, ReparseRecheck, ReparseParse,
         ReparseParseFails, ReparseSkip, ReparseResolve, ReparseInsert,
         ReparseRefused, ReparseError, ReparseFinish, ReparseAbort, ledgerVars,
         tableVars
    <3> QED BY <3>2, SpeakersAlone
  <2> QED BY <1>1, <2>1 DEF NamesInv, NamesHand, UniqueSpeaker, OneByName, OneByParty
<1>2. CASE \E r \in ReparseRuns : rep'[r] # rep[r]
  <2>1. PICK r \in ReparseRuns : rep'[r] # rep[r]
    BY <1>2
  <2>2. NamesHand(r)' /\ UniqueSpeaker'
    BY <2>1, NamesHandStep DEF NamesInv
  <2>3. \A q \in ReparseRuns : q = r
    OBVIOUS
  <2> QED BY <2>2, <2>3 DEF NamesInv
<1> QED BY <1>1, <1>2

\* As long as one process reparses at a time, a name has one speaker and a
\* speaker one mandate per party, whatever else runs and however often reparse
\* is broken off.
THEOREM OneSpeakerPerName ==
  ASSUME \A q, r \in ReparseRuns : q = r
  PROVE  Spec => []UniqueSpeaker
<1>1. Init => NamesInv
  BY DEF Init, LedgerInit, ReparseInit, ReparseIdleRun, ReparseFresh, NamesInv,
     NamesHand, OneByName, OneByParty, UniqueSpeaker
<1>2. IInv /\ NamesInv /\ [Next]_vars => NamesInv'
  BY NamesStep
<1>3. NamesInv => UniqueSpeaker
  BY DEF NamesInv
<1> QED BY <1>1, <1>2, <1>3, Inductive, PTL DEF Spec
=============================================================================
