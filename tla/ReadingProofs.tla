---------------------------- MODULE ReadingProofs ----------------------------
(***************************************************************************)
(* What the read API says is true, whatever the passes commit between two  *)
(* of its statements and whatever the store does.  The read side writes    *)
(* nothing, so the ledger keeps its invariants; and since the ledger only  *)
(* grows, what a request has learned of a span stays true until it is      *)
(* answered, what status has counted never claims too much, and what a     *)
(* search has not shown yet is still to come.                              *)
(***************************************************************************)
EXTENDS PipelineProofs, Reading, FiniteSetTheorems

-----------------------------------------------------------------------------
(* The ledger beside a reader *)

LEMMA ReadIsSpec == ReadSpec => Spec
<1>1. ReadInit => Init
  BY DEF ReadInit
<1>2. [ReadNext]_readVars => [Next]_vars
  BY DEF ReadNext, readVars
<1> QED BY <1>1, <1>2, PTL DEF ReadSpec, Spec

\* Tables whose rows no step takes back.
RowsGrow ==
  /\ span \subseteq span' /\ speaker \subseteq speaker'
  /\ stamp \subseteq stamp' /\ attestation \subseteq attestation'
  /\ altered \subseteq altered'

LEMMA RowsGrowing == ASSUME IInv, [Next]_vars PROVE RowsGrow
<1>1. Growing
  BY Growth
<1>2. stamp \subseteq stamp' /\ attestation \subseteq attestation'
  BY PromiseCases DEF StampCommit, AttestCommit
<1> QED BY <1>1, <1>2 DEF Growing, RowsGrow

\* A span that may be shown may always be shown.
LEMMA CitableStays ==
  ASSUME RowsGrow, NEW p, Citable(p)
  PROVE  Citable(p)'
  BY DEF RowsGrow, Citable, Attested

-----------------------------------------------------------------------------
(* What a request has in hand *)

Fields == {"kind", "step", "span", "src", "status", "witness", "row", "verdict",
           "actual", "token", "spoiled", "stamped", "context", "name", "limit",
           "rank", "offset", "total", "seen", "due", "counts"}
IsRequest(q) == q = [f \in Fields |-> q[f]]

\* What was called ok is what the store returned.
OkEarned ==
  /\ reader.status = "ok" =>
       reader.actual = reader.src.hash /\ reader.src.ref \notin reader.spoiled
  /\ reader.verdict = "ok" =>
       reader.token = [tsa |-> reader.row.tsa, imprint |-> reader.src.hash]

\* The span a request is about may be shown, the row of the time-stamp is one of
\* its source; what was altered or stamped when it began still is.
ReadHand ==
  /\ IsRequest(reader)
  /\ reader.status = "not_found" => reader.step = "answered"
  /\ reader.verdict # "missing" => reader.step = "answered"
  /\ reader.kind = "detail" => reader.step \in {"found", "answered"}
  /\ reader.kind = "verify" =>
       reader.step \in {"found", "bytes", "witness", "row", "answered"}
  /\ (reader.kind \in {"verify", "detail"} /\ reader.status # "not_found") =>
       Citable(reader.span) /\ reader.src = reader.span.src
  /\ (reader.step = "row" \/ reader.verdict # "missing") =>
       reader.row \in stamp /\ reader.row.src = reader.src
  /\ reader.spoiled \subseteq altered
  /\ (reader.kind = "verify" /\ reader.stamped) => Stamped(reader.src)
  /\ OkEarned

ReadInv == ReadHand /\ VerdictsFair /\ ContextWhole /\ DestroyedProofShows

LEMMA IdleRequest == IsRequest(ReaderIdle)
  BY DEF IsRequest, Fields, ReaderIdle

LEMMA PassesKeepReadInv ==
  ASSUME IInv, ReadInv, [Next]_vars, UNCHANGED reader
  PROVE  ReadInv'
<1>1. RowsGrow
  BY RowsGrowing
<1>2. ReadHand'
  <2>1. (Stamped(reader.src) => Stamped(reader.src)') /\ (OkEarned => OkEarned')
    BY <1>1 DEF RowsGrow, Stamped, OkEarned
  <2> QED BY <1>1, <2>1, CitableStays DEF ReadInv, ReadHand, RowsGrow
<1>3. VerdictsFair'
  BY <1>1 DEF ReadInv, VerdictsFair, RowsGrow
<1>4. ContextWhole'
  BY DEF ReadInv, ContextWhole, Answered, ItemOf
<1>5. DestroyedProofShows'
  BY DEF ReadInv, DestroyedProofShows, Answered
<1> QED BY <1>2, <1>3, <1>4, <1>5 DEF ReadInv

-----------------------------------------------------------------------------
(* The steps of a request *)

\* The rows that the properties speak of do not change.
LEMMA SameRows ==
  ASSUME UNCHANGED vars
  PROVE  UNCHANGED <<altered, stamp, span, attestation, speaker, worm>>
  BY DEF vars, ledgerVars, tableVars, wormVars

LEMMA AskSpanInv ==
  ASSUME NEW p \in span, AskSpan("verify", p) \/ AskSpan("detail", p),
         UNCHANGED vars
  PROVE  ReadInv'
<1>1. PICK kind \in {"verify", "detail"} : AskSpan(kind, p)
  OBVIOUS
<1>2. /\ IsRequest(reader') /\ reader'.kind = kind
      /\ reader'.span = p /\ reader'.src = p.src /\ reader'.verdict = "missing"
      /\ reader'.spoiled = altered /\ reader'.stamped = Stamped(p.src)
      /\ \/ Citable(p) /\ reader'.step = "found" /\ reader'.status = "none"
         \/ reader'.step = "answered" /\ reader'.status = "not_found"
  <2>1. PICK step \in {"found", "answered"}, status \in {"none", "not_found"} :
          /\ reader' = [ReaderIdle EXCEPT !.kind = kind, !.span = p, !.src = p.src,
                                          !.spoiled = altered,
                                          !.stamped = Stamped(p.src),
                                          !.step = step, !.status = status]
          /\ IF Citable(p) THEN step = "found" /\ status = "none"
                           ELSE step = "answered" /\ status = "not_found"
    BY <1>1, Zenon DEF AskSpan
  <2>2. IsRequest(ReaderIdle) /\ ReaderIdle.verdict = "missing"
    BY IdleRequest DEF ReaderIdle
  <2> QED BY <2>1, <2>2 DEF IsRequest, Fields
<1>3. Citable(p) => Citable(p)'
  BY DEF vars, ledgerVars, tableVars, Citable, Attested
<1>4. altered' = altered /\ (Stamped(p.src) => Stamped(p.src)')
  BY SameRows DEF Stamped
<1>5. OkEarned' /\ VerdictsFair' /\ ContextWhole' /\ DestroyedProofShows'
  BY <1>2 DEF OkEarned, VerdictsFair, ContextWhole, DestroyedProofShows, Answered
<1> QED BY <1>2, <1>3, <1>4, <1>5 DEF ReadInv, ReadHand

\* A statement of the server for the span the request is about.
Advances ==
  /\ IsRequest(reader') /\ UNCHANGED vars
  /\ reader'.kind = reader.kind /\ reader'.span = reader.span
  /\ reader'.src = reader.src /\ reader'.status # "not_found"
  /\ reader'.spoiled = reader.spoiled /\ reader'.stamped = reader.stamped

LEMMA AdvanceInv ==
  ASSUME ReadInv, reader.status # "not_found", Advances,
         reader.kind = "detail" => reader'.step \in {"found", "answered"},
         reader.kind = "verify" =>
           reader'.step \in {"found", "bytes", "witness", "row", "answered"},
         reader'.verdict # "missing" => reader'.step = "answered",
         (reader'.step = "row" \/ reader'.verdict # "missing") =>
           reader'.row \in stamp /\ reader'.row.src = reader.src,
         OkEarned', VerdictsFair', ContextWhole', DestroyedProofShows'
  PROVE  ReadInv'
<1>1. Citable(reader.span) => Citable(reader.span)'
  BY DEF Advances, vars, ledgerVars, tableVars, Citable, Attested
<1>2. /\ stamp' = stamp /\ altered' = altered
      /\ Stamped(reader.src) => Stamped(reader.src)'
  BY SameRows DEF Advances, Stamped
<1> QED BY <1>1, <1>2 DEF ReadInv, ReadHand, Advances

LEMMA VerifyBytesInv ==
  ASSUME IInv, ReadInv, VerifyBytes, UNCHANGED vars
  PROVE  ReadInv'
<1>1. /\ reader.kind = "verify" /\ reader.step = "found"
      /\ reader.status # "not_found" /\ reader.verdict = "missing" /\ IsRequest(reader)
  BY DEF ReadInv, ReadHand, VerifyBytes
<1>2. Citable(reader.span) /\ reader.src = reader.span.src
  BY <1>1 DEF ReadInv, ReadHand
<1>3. reader.src \in source
  BY <1>2 DEF Citable, IInv, Tables, RowsRooted
<1> DEFINE raw == Get(reader.src.ref)
           status == BytesVerdict(raw, reader.src.hash)
<1>4. /\ status = "hash_mismatch" => reader.src.ref \in altered
      /\ status # "not_found"
  BY <1>3, AlarmMeansAltered DEF BytesVerdict, CheckBytes, IInv
\* An altered object does not have the bytes of any document.
<1>5. status = "ok" => raw = reader.src.hash /\ reader.src.ref \notin reader.spoiled
  <2>1. raw = reader.src.hash => reader.src.ref \notin altered
    <3>1. reader.src.hash \in Bytes
      BY <1>3 DEF IInv, Tables, LedgerTypeOK, Source
    <3> QED BY <3>1, LedgerAssumption DEF Get
  <2> QED BY <2>1 DEF BytesVerdict, ReadInv, ReadHand
<1> HIDE DEF raw, status
<1>6. /\ Advances /\ reader'.status = status /\ reader'.actual = raw
      /\ reader'.step = "bytes" /\ reader'.kind = "verify"
      /\ reader'.row = reader.row /\ reader'.verdict = reader.verdict
  BY <1>1, <1>4 DEF VerifyBytes, Advances, IsRequest, Fields, raw, status
<1>7. VerdictsFair' /\ ContextWhole' /\ DestroyedProofShows'
  BY <1>1, <1>4, <1>6, SameRows DEF ReadInv, VerdictsFair, ContextWhole,
     DestroyedProofShows, Answered, Advances
<1>8. OkEarned'
  BY <1>1, <1>5, <1>6 DEF OkEarned, Advances
<1> QED BY <1>1, <1>6, <1>7, <1>8, AdvanceInv DEF ReadInv, ReadHand

\* A step that finds nothing the properties speak of.
LEMMA OtherStepInv ==
  ASSUME ReadInv, Advances, reader.status # "not_found", reader.kind # "detail",
         reader.step # "answered", reader'.step # "row",
         reader'.status = reader.status, reader'.verdict = reader.verdict,
         reader'.actual = reader.actual,
         reader.kind = "verify" =>
           reader'.step \in {"found", "bytes", "witness", "row", "answered"},
         (reader.kind = "verify" /\ reader'.step = "answered") =>
           reader.status = "worm_missing"
  PROVE  ReadInv'
<1>1. reader.verdict = "missing"
  BY DEF ReadInv, ReadHand
<1>2. VerdictsFair' /\ ContextWhole' /\ DestroyedProofShows' /\ OkEarned'
  BY <1>1, SameRows DEF ReadInv, ReadHand, OkEarned, VerdictsFair, ContextWhole,
     DestroyedProofShows, Answered, Advances
<1> QED BY <1>1, <1>2, AdvanceInv

LEMMA VerifyWitnessInv ==
  ASSUME ReadInv, VerifyWitness, UNCHANGED vars
  PROVE  ReadInv'
<1>1. /\ reader.step = "bytes" /\ reader.status # "not_found"
      /\ IsRequest(reader) /\ reader.kind # "detail"
  BY DEF ReadInv, ReadHand, VerifyWitness
<1>2. /\ Advances /\ reader'.status = reader.status
      /\ reader'.verdict = reader.verdict /\ reader'.step # "row"
      /\ reader'.actual = reader.actual
      /\ reader'.step \in {"witness", "answered"}
      /\ reader'.step = "answered" => reader.status = "worm_missing"
  BY <1>1 DEF VerifyWitness, Advances, IsRequest, Fields
<1> QED BY <1>1, <1>2, OtherStepInv

LEMMA VerifyStampRowInv ==
  ASSUME ReadInv, VerifyStampRow, UNCHANGED vars
  PROVE  ReadInv'
<1>1. /\ reader.step = "witness" /\ reader.status # "not_found"
      /\ IsRequest(reader) /\ reader.kind # "detail" /\ reader.verdict = "missing"
  BY DEF ReadInv, ReadHand, VerifyStampRow
<1>2. /\ Advances /\ reader'.status = reader.status
      /\ reader'.verdict = reader.verdict /\ reader'.actual = reader.actual
      /\ \/ /\ reader'.step = "answered" /\ reader'.row = reader.row
            /\ ~Stamped(reader.src)
         \/ /\ reader'.step = "row" /\ reader'.row \in stamp
            /\ reader'.row.src = reader.src
  <2> DEFINE rows == {t \in stamp : t.src = reader.src}
  <2>1. CASE rows = {}
    BY <1>1, <2>1 DEF VerifyStampRow, Stamped, Advances, IsRequest, Fields
  <2>2. CASE rows # {}
    BY <1>1, <2>2 DEF VerifyStampRow, Advances, IsRequest, Fields
  <2> QED BY <2>1, <2>2
<1>3. VerdictsFair' /\ ContextWhole' /\ OkEarned'
  BY <1>1, <1>2, SameRows DEF ReadInv, ReadHand, OkEarned, VerdictsFair,
     ContextWhole, Answered, Advances
<1>4. DestroyedProofShows'
  BY <1>1, <1>2 DEF ReadInv, ReadHand, DestroyedProofShows, Answered, Advances
<1> QED BY <1>1, <1>2, <1>3, <1>4, AdvanceInv DEF ReadInv, ReadHand

LEMMA VerifyStampTokenInv ==
  ASSUME IInv, ReadInv, VerifyStampToken, UNCHANGED vars
  PROVE  ReadInv'
<1>1. /\ reader.step = "row" /\ reader.status # "not_found"
      /\ IsRequest(reader) /\ reader.kind # "detail"
      /\ reader.row \in stamp /\ reader.row.src = reader.src
  BY DEF ReadInv, ReadHand, VerifyStampToken
<1> DEFINE t == reader.row
<1>2. CASE Get(t.ref) = None
  <2>1. /\ Advances /\ reader'.status = reader.status /\ reader'.step = "answered"
        /\ reader'.row = t /\ reader'.verdict = "unreadable"
        /\ reader'.actual = reader.actual
    BY <1>1, <1>2 DEF VerifyStampToken, Advances, IsRequest, Fields
  <2>2. VerdictsFair' /\ ContextWhole' /\ OkEarned' /\ DestroyedProofShows'
    BY <1>1, <2>1, SameRows DEF ReadInv, ReadHand, OkEarned, VerdictsFair,
       ContextWhole, DestroyedProofShows, Answered, Advances
  <2> QED BY <1>1, <2>1, <2>2, AdvanceInv
<1>3. CASE Get(t.ref) # None
  <2>1. PICK token \in TokensRead(t) :
          reader' = [reader EXCEPT
            !.step = "answered", !.token = token,
            !.verdict = VerifyToken(token, reader.src.hash, t.tsa)]
    BY <1>3, Zenon DEF VerifyStampToken
  <2> DEFINE verdict == VerifyToken(token, reader.src.hash, t.tsa)
  <2>2. /\ Advances /\ reader'.status = reader.status /\ reader'.step = "answered"
        /\ reader'.row = t /\ reader'.verdict = verdict /\ reader'.token = token
        /\ reader'.actual = reader.actual
    BY <1>1, <2>1 DEF Advances, IsRequest, Fields
  <2>3. verdict # "missing"
    BY <2>1 DEF VerifyToken
  \* The token of an object that has not changed proves what its row says.
  <2>4. verdict \in {"mismatch", "untrusted", "malformed"} => t.ref \in altered
    <3> SUFFICES ASSUME t.ref \notin altered PROVE verdict = "ok"
      OBVIOUS
    <3>1. worm[t.ref] = [tsa |-> t.tsa, imprint |-> reader.src.hash]
      BY <1>1 DEF IInv, Tables, TokensBind
    <3>2. token = worm[t.ref] /\ token # None
      BY <1>3, <2>1 DEF TokensRead, Get
    <3> QED BY <2>1, <3>1, <3>2 DEF VerifyToken
  \* What is ok binds the bytes, under the name in the row, whatever it was.
  <2>5. verdict = "ok" => token = [tsa |-> t.tsa, imprint |-> reader.src.hash]
    <3> SUFFICES ASSUME verdict = "ok"
                 PROVE  token = [tsa |-> t.tsa, imprint |-> reader.src.hash]
      OBVIOUS
    <3>1. token # None /\ token.tsa = t.tsa /\ token.imprint = reader.src.hash
      BY <2>1 DEF VerifyToken
    <3>2. t.ref \in altered => token \in Token
      BY <2>1, <3>1 DEF TokensRead, Answers
    <3>3. t.ref \notin altered =>
            token = [tsa |-> t.tsa, imprint |-> reader.src.hash]
      BY <1>1, <2>1 DEF TokensRead, IInv, Tables, TokensBind
    <3> QED BY <3>1, <3>2, <3>3 DEF Token
  <2>6. VerdictsFair' /\ ContextWhole'
    BY <1>1, <2>2, <2>4, SameRows DEF ReadInv, VerdictsFair, ContextWhole, Answered,
       Advances
  <2>7. DestroyedProofShows' /\ OkEarned'
    BY <2>2, <2>3, <2>5 DEF ReadInv, ReadHand, OkEarned, DestroyedProofShows, Advances
  <2> QED BY <1>1, <2>2, <2>6, <2>7, AdvanceInv
<1> QED BY <1>2, <1>3

\* Reparse commits all spans of a document at once, and they are citable all
\* or none: so the neighbours of a span are the drafts of its agenda item.
LEMMA DetailContextInv ==
  ASSUME IInv, SpeakersExist, ReadInv, DetailContext, UNCHANGED vars
  PROVE  ReadInv'
<1> DEFINE p == reader.span
           near == {q \in span : Citable(q) /\ q.src = p.src /\ ItemOf(q) = ItemOf(p)}
           item == {n \in Dated(p.src.hash) : Agenda[p.src.hash][n] = ItemOf(p)}
<1>1. /\ reader.kind = "detail" /\ reader.step = "found"
      /\ reader.status # "not_found" /\ reader.verdict = "missing"
      /\ IsRequest(reader) /\ Citable(p)
  BY DEF ReadInv, ReadHand, DetailContext
<1>2. {q.pos : q \in near} = item
  <2>1. \A q \in span : q.src = p.src => Citable(q)
    BY <1>1 DEF Citable, SpeakersExist, IInv, Tables, SpansVerbatim
  <2>2. {q.pos : q \in SpansOf(p.src)} = Dated(p.src.hash)
    BY <1>1 DEF Citable, IInv, Tables, RowsRooted, SpansComplete, SpansOf
  <2> QED BY <2>1, <2>2 DEF SpansOf, ItemOf
<1>3. /\ Advances /\ reader'.step = "answered" /\ reader'.status = reader.status
      /\ reader'.verdict = "missing" /\ reader'.kind = "detail"
      /\ reader'.actual = reader.actual
      /\ reader'.context = FirstOf(item, ContextMax)
  BY <1>1, <1>2 DEF DetailContext, Advances, IsRequest, Fields
<1>4. VerdictsFair' /\ ContextWhole'
  BY <1>3 DEF VerdictsFair, ContextWhole, Advances, ItemOf
<1>5. OkEarned' /\ DestroyedProofShows'
  BY <1>3 DEF ReadInv, ReadHand, OkEarned, DestroyedProofShows, Answered, Advances
<1> QED BY <1>1, <1>3, <1>4, <1>5, AdvanceInv

\* Requests that are not about a span, and the end of any.
LEMMA AskOtherInv ==
  ASSUME IsRequest(reader'), reader'.kind \notin {"verify", "detail"},
         reader'.verdict = "missing", reader'.step # "row",
         reader'.status = "not_found" => reader'.step = "answered",
         reader'.status # "ok", reader'.spoiled = {}
  PROVE  ReadInv'
  BY DEF ReadInv, ReadHand, OkEarned, VerdictsFair, ContextWhole,
     DestroyedProofShows, Answered

LEMMA OtherRequestInv ==
  ASSUME ReadInv, UNCHANGED vars,
         \/ \E s \in source : AskSource(s)
         \/ SourceWitness
         \/ \E name \in Names \cup {Anybody}, limit \in AskedLimits :
              AskSearch(name, limit)
         \/ SearchCount \/ SearchPage \/ AskStatus \/ StatusCount \/ Close
  PROVE  ReadInv'
<1>0. IsRequest(ReaderIdle) /\ IsRequest(reader)
  BY IdleRequest DEF ReadInv, ReadHand
<1>1. ASSUME NEW s \in source, AskSource(s) PROVE ReadInv'
  <2>1. PICK step \in {"found", "answered"}, status \in {"none", "not_found"} :
          /\ reader' = [ReaderIdle EXCEPT !.kind = "source", !.src = s,
                                          !.step = step, !.status = status]
          /\ status = "not_found" => step = "answered"
    BY <1>1, Zenon DEF AskSource
  <2>2. ReaderIdle.verdict = "missing" /\ ReaderIdle.spoiled = {}
    BY DEF ReaderIdle
  <2>3. /\ IsRequest(reader') /\ reader'.kind = "source" /\ reader'.verdict = "missing"
        /\ reader'.spoiled = {}
        /\ reader'.step = step /\ reader'.status = status
    BY <1>0, <2>1, <2>2 DEF IsRequest, Fields
  <2> QED BY <2>1, <2>3, AskOtherInv
<1>2. ASSUME NEW name, NEW limit, AskSearch(name, limit) PROVE ReadInv'
  <2>1. /\ IsRequest(reader') /\ reader'.kind = "search"
        /\ reader'.verdict = ReaderIdle.verdict /\ reader'.step = "count"
        /\ reader'.status = ReaderIdle.status /\ reader'.spoiled = ReaderIdle.spoiled
    BY <1>0, <1>2 DEF AskSearch, IsRequest, Fields
  <2> QED BY <2>1, AskOtherInv DEF ReaderIdle
<1>3. CASE AskStatus
  <2>1. /\ IsRequest(reader') /\ reader'.kind = "status"
        /\ reader'.verdict = ReaderIdle.verdict /\ reader'.step = "count"
        /\ reader'.status = ReaderIdle.status /\ reader'.spoiled = ReaderIdle.spoiled
    BY <1>0, <1>3 DEF AskStatus, IsRequest, Fields
  <2> QED BY <2>1, AskOtherInv DEF ReaderIdle
<1>4. CASE Close
  BY <1>0, <1>4, AskOtherInv DEF Close, ReaderIdle
<1>5. CASE SourceWitness \/ SearchCount \/ SearchPage \/ StatusCount
  <2>1. /\ reader.step # "answered" /\ reader.status # "not_found"
        /\ reader.kind \notin {"detail", "verify"}
    BY <1>5 DEF SourceWitness, SearchCount, SearchPage, StatusCount, ReadInv,
       ReadHand
  <2>2. CASE SourceWitness
    BY <1>0, <2>1, <2>2, OtherStepInv DEF SourceWitness, Advances, IsRequest, Fields
  <2>3. CASE SearchCount
    BY <1>0, <2>1, <2>3, OtherStepInv DEF SearchCount, Advances, IsRequest, Fields
  <2>4. CASE SearchPage
    <3>1. /\ Advances /\ reader'.status = reader.status
          /\ reader'.verdict = reader.verdict /\ reader'.actual = reader.actual
          /\ reader'.step \in {"answered", "count"}
      <4>1. PICK rank : TurnPage(rank)
        BY <2>4 DEF SearchPage
      <4>2. PICK page, due :
              reader' = [reader EXCEPT
                !.step = IF page = {} THEN "answered" ELSE "count",
                !.rank = rank, !.seen = reader.seen \cup page, !.due = due,
                !.offset = reader.offset + Cardinality(page)]
        BY <4>1, Zenon DEF TurnPage
      <4> QED BY <1>0, <2>1, <4>2 DEF Advances, IsRequest, Fields
    <3> QED BY <2>1, <3>1, OtherStepInv
  <2>5. CASE StatusCount
    BY <1>0, <2>1, <2>5, OtherStepInv DEF StatusCount, Advances, IsRequest, Fields
  <2> QED BY <1>5, <2>2, <2>3, <2>4, <2>5
<1> QED BY <1>1, <1>2, <1>3, <1>4, <1>5

LEMMA ReadInvStep ==
  ASSUME IInv, SpeakersExist, ReadInv, [ReadNext]_readVars
  PROVE  ReadInv'
<1>1. CASE Next /\ UNCHANGED reader
  BY <1>1, PassesKeepReadInv
<1>2. CASE UNCHANGED readVars
  BY <1>2, PassesKeepReadInv DEF readVars
<1>3. CASE ReadStep /\ UNCHANGED vars
  BY <1>3, AskSpanInv, VerifyBytesInv, VerifyWitnessInv, VerifyStampRowInv,
     VerifyStampTokenInv, DetailContextInv, OtherRequestInv DEF ReadStep
<1> QED BY <1>1, <1>2, <1>3 DEF ReadNext

-----------------------------------------------------------------------------
(* The results *)

LEMMA ReadInvariant == ReadSpec => [](IInv /\ ReadInv)
<1>1. ReadInit => ReadInv
  BY IdleRequest DEF ReadInit, ReaderIdle, ReadInv, ReadHand, OkEarned,
     VerdictsFair, ContextWhole, DestroyedProofShows, Answered
<1>2. IInv /\ SpeakersExist /\ ReadInv /\ [ReadNext]_readVars => ReadInv'
  BY ReadInvStep
<1> QED BY <1>1, <1>2, ReadIsSpec, Inductive, SpeakersAreThere, PTL DEF ReadSpec

\* An ok of verify is never false: the bytes it read are those the span was
\* quoted from and the archive shows, and were not altered when it was asked;
\* and an ok of the time-stamp is said of a token that binds those bytes,
\* whatever was committed, lost or altered while it was answered.
THEOREM NeverFalseOk == ReadSpec => []ChainOfEvidence
<1>1. IInv /\ ReadInv => ChainOfEvidence
  <2> SUFFICES ASSUME IInv, ReadInv, Answered("verify"), reader.status = "ok"
               PROVE  ChainOfEvidence
    BY DEF ChainOfEvidence
  <2>1. Citable(reader.span) /\ reader.src = reader.span.src
    BY DEF ReadInv, ReadHand, Answered
  <2>2. reader.src \in source /\ reader.span.basis = reader.src.hash
    BY <2>1 DEF Citable, IInv, Tables, RowsRooted
  <2>3. /\ reader.actual = reader.span.basis
        /\ reader.src.ref \notin reader.spoiled
        /\ reader.verdict = "ok" =>
             reader.token = [tsa |-> reader.row.tsa, imprint |-> reader.actual]
    BY <2>2 DEF ReadInv, ReadHand, OkEarned
  <2>4. \E a \in attestation :
          a.src = reader.src /\ a.snap \in cdx /\ a.snap.bytes = reader.actual
    BY <2>1, <2>2, <2>3 DEF Citable, Attested, IInv, Tables, AttestationsProved
  <2> QED BY <2>3, <2>4 DEF ChainOfEvidence
<1> QED BY <1>1, ReadInvariant, PTL

\* A time-stamp that a source had when verify was asked never counts as missing
\* because its token was lost or altered since.
THEOREM LossShows == ReadSpec => []DestroyedProofShows
<1>1. ReadInv => DestroyedProofShows
  BY DEF ReadInv
<1> QED BY <1>1, ReadInvariant, PTL

\* Verify reports a change only of an object that has changed.
THEOREM NoFalseVerdict == ReadSpec => []VerdictsFair
<1>1. ReadInv => VerdictsFair
  BY DEF ReadInv
<1> QED BY <1>1, ReadInvariant, PTL

\* A span is shown with every speech of its agenda item, up to the cap.
THEOREM WholeContext == ReadSpec => []ContextWhole
<1>1. ReadInv => ContextWhole
  BY DEF ReadInv
<1> QED BY <1>1, ReadInvariant, PTL

-----------------------------------------------------------------------------
(* wortlaut status *)

StampedOnes  == {s \in source : Stamped(s)}
AttestedOnes == {s \in source : Attested(s)}
SpannedOnes  == {s \in source : HasSpans(s)}

\* There are finitely many sources, and a source keeps what has been done.
LEMMA FiniteSources == Spec => []IsFiniteSet(source)
<1>1. Init => IsFiniteSet(source)
  <2> SUFFICES ASSUME Init PROVE IsFiniteSet(source)
    OBVIOUS
  <2> DEFINE row == [i \in 1..Len(Seed) |-> SeedRow(i)]
  <2>1. source = {SeedRow(i) : i \in 1..Len(Seed)}
    BY DEF Init, LedgerInit
  <2>2. row \in Surjection(1..Len(Seed), source)
    BY <2>1 DEF Surjection
  <2>3. IsFiniteSet(1..Len(Seed))
    BY SeedLen, FS_Interval
  <2> QED BY <2>2, <2>3, FS_Surjection
<1>2. IInv /\ IsFiniteSet(source) /\ [Next]_vars => IsFiniteSet(source)'
  <2> SUFFICES ASSUME IInv, IsFiniteSet(source), [Next]_vars
               PROVE  IsFiniteSet(source')
    OBVIOUS
  <2>1. source' = source \/ \E r \in IngestRuns : source' = source \cup {NewSource(r)}
    BY PromiseCases DEF IngestCommit
  <2> QED BY <2>1, FS_AddElement
<1> QED BY <1>1, <1>2, Inductive, PTL DEF Spec

LEMMA WorkStays ==
  ASSUME IInv, [Next]_vars
  PROVE  /\ source \subseteq source' /\ StampedOnes \subseteq StampedOnes'
         /\ AttestedOnes \subseteq AttestedOnes' /\ SpannedOnes \subseteq SpannedOnes'
<1>1. source \subseteq source'
  BY PromiseCases DEF IngestCommit
<1> QED BY <1>1, RowsGrowing DEF RowsGrow, StampedOnes, AttestedOnes, SpannedOnes,
           Stamped, Attested, HasSpans

\* What the numbers a request has counted so far may claim, against what there
\* is: all sources, and those stamped, attested and with spans.
CountsFair(c, all, done1, done2, done3) ==
  /\ c \in Seq(Nat) /\ Len(c) <= 5
  /\ Len(c) >= 1 => c[1] <= all
  /\ Len(c) >= 2 => c[1] - c[2] <= done1
  /\ Len(c) >= 3 => c[1] - c[3] <= done2
  /\ Len(c) >= 5 => c[1] - c[3] - c[5] <= done3

CountInv ==
  reader.kind = "status" =>
    /\ CountsFair(reader.counts, Cardinality(source), Cardinality(StampedOnes),
                  Cardinality(AttestedOnes), Cardinality(SpannedOnes))
    /\ reader.step \in {"idle", "count", "answered"}
    /\ reader.step = "answered" => Len(reader.counts) = 5
    /\ reader.step = "count" => Len(reader.counts) < 5

LEMMA Sizes ==
  ASSUME IsFiniteSet(source)
  PROVE  /\ Cardinality(source) \in Nat /\ Cardinality(StampedOnes) \in Nat
         /\ Cardinality(AttestedOnes) \in Nat /\ Cardinality(SpannedOnes) \in Nat
         /\ IsFiniteSet(StampedOnes) /\ IsFiniteSet(AttestedOnes)
         /\ IsFiniteSet(SpannedOnes)
<1>1. /\ StampedOnes \in SUBSET source /\ AttestedOnes \in SUBSET source
      /\ SpannedOnes \in SUBSET source
  BY DEF StampedOnes, AttestedOnes, SpannedOnes
<1> QED BY <1>1, FS_Subset, FS_CardinalityType

\* A claim once true stays true, for there is only ever more work done.
LEMMA FairStays ==
  ASSUME NEW c, NEW a \in Nat, NEW b \in Nat, NEW d \in Nat, NEW e \in Nat,
         NEW a1 \in Nat, NEW b1 \in Nat, NEW d1 \in Nat, NEW e1 \in Nat,
         a <= a1, b <= b1, d <= d1, e <= e1, CountsFair(c, a, b, d, e)
  PROVE  CountsFair(c, a1, b1, d1, e1)
<1>1. Len(c) \in Nat /\ \A i \in 1..Len(c) : c[i] \in Nat
  BY DEF CountsFair
<1> DEFINE n == Len(c)
           v1 == c[1]
           v2 == c[2]
           v3 == c[3]
           v5 == c[5]
<1>2. /\ n >= 1 => v1 \in Nat
      /\ n >= 2 => v2 \in Nat
      /\ n >= 3 => v3 \in Nat
      /\ n >= 5 => v5 \in Nat
  BY <1>1
<1>3. /\ n >= 1 => v1 <= a
      /\ n >= 2 => v1 - v2 <= b
      /\ n >= 3 => v1 - v3 <= d
      /\ n >= 5 => v1 - v3 - v5 <= e
  BY DEF CountsFair
<1>4. /\ n >= 1 => v1 <= a1
      /\ n >= 2 => v1 - v2 <= b1
      /\ n >= 3 => v1 - v3 <= d1
      /\ n >= 5 => v1 - v3 - v5 <= e1
  <2> n \in Nat
    BY <1>1
  <2> HIDE DEF n, v1, v2, v3, v5
  <2> QED BY <1>2, <1>3
<1> QED BY <1>4 DEF CountsFair

LEMMA PassesKeepCountInv ==
  ASSUME IInv, IsFiniteSet(source), IsFiniteSet(source'), [Next]_vars, CountInv,
         UNCHANGED reader
  PROVE  CountInv'
<1>1. /\ source \subseteq source' /\ StampedOnes \subseteq StampedOnes'
      /\ AttestedOnes \subseteq AttestedOnes' /\ SpannedOnes \subseteq SpannedOnes'
  BY WorkStays
<1>2. /\ IsFiniteSet(StampedOnes') /\ IsFiniteSet(AttestedOnes')
      /\ IsFiniteSet(SpannedOnes')
  <2>1. /\ StampedOnes' \in SUBSET source' /\ AttestedOnes' \in SUBSET source'
        /\ SpannedOnes' \in SUBSET source'
    BY DEF StampedOnes, AttestedOnes, SpannedOnes
  <2> QED BY <2>1, FS_Subset
<1>3. /\ Cardinality(source) <= Cardinality(source')
      /\ Cardinality(StampedOnes) <= Cardinality(StampedOnes')
      /\ Cardinality(AttestedOnes) <= Cardinality(AttestedOnes')
      /\ Cardinality(SpannedOnes) <= Cardinality(SpannedOnes')
  BY <1>1, <1>2, FS_Subset
<1>4. /\ Cardinality(source') \in Nat /\ Cardinality(StampedOnes') \in Nat
      /\ Cardinality(AttestedOnes') \in Nat /\ Cardinality(SpannedOnes') \in Nat
  BY <1>2, FS_CardinalityType
<1>5. /\ Cardinality(source) \in Nat /\ Cardinality(StampedOnes) \in Nat
      /\ Cardinality(AttestedOnes) \in Nat /\ Cardinality(SpannedOnes) \in Nat
  BY Sizes
<1> QED BY <1>3, <1>4, <1>5, FairStays DEF CountInv

\* What is left to do is what there is without what is done.
LEMMA Gaps ==
  ASSUME IsFiniteSet(source)
  PROVE  /\ Cardinality(Backlog["sources"]) = Cardinality(source)
         /\ Cardinality(Backlog["unstamped"])
              = Cardinality(source) - Cardinality(StampedOnes)
         /\ Cardinality(Backlog["unattested"])
              = Cardinality(source) - Cardinality(AttestedOnes)
         /\ Cardinality(Backlog["unattested_capture_failed"]) \in Nat
         /\ Cardinality(Backlog["attested_without_spans"])
              >= Cardinality(AttestedOnes) - Cardinality(SpannedOnes)
         /\ Cardinality(Backlog["attested_without_spans"]) \in Nat
<1>1. Backlog["sources"] = source
  BY DEF Backlog
<1>2. Backlog["unstamped"] = source \ StampedOnes /\ source \cap StampedOnes = StampedOnes
  BY DEF Backlog, StampedOnes
<1>3. /\ Backlog["unattested"] = source \ AttestedOnes
      /\ source \cap AttestedOnes = AttestedOnes
  BY DEF Backlog, AttestedOnes
<1>4. Backlog["unattested_capture_failed"] \in SUBSET source
  BY DEF Backlog
<1>5. Backlog["attested_without_spans"] = AttestedOnes \ SpannedOnes
  BY DEF Backlog, AttestedOnes, SpannedOnes
<1>6. /\ IsFiniteSet(AttestedOnes) /\ IsFiniteSet(SpannedOnes)
      /\ Cardinality(AttestedOnes) \in Nat /\ Cardinality(SpannedOnes) \in Nat
  BY Sizes
<1>7. Cardinality(Backlog["unattested_capture_failed"]) \in Nat
  <2>1. IsFiniteSet(Backlog["unattested_capture_failed"])
    BY <1>4, FS_Subset
  <2> QED BY <2>1, FS_CardinalityType
<1>8. /\ Cardinality(AttestedOnes \ SpannedOnes)
           = Cardinality(AttestedOnes) - Cardinality(AttestedOnes \cap SpannedOnes)
      /\ Cardinality(AttestedOnes \cap SpannedOnes) <= Cardinality(SpannedOnes)
      /\ Cardinality(AttestedOnes \cap SpannedOnes) \in Nat
      /\ Cardinality(AttestedOnes \ SpannedOnes) \in Nat
  <2>1. /\ IsFiniteSet(AttestedOnes \cap SpannedOnes)
        /\ Cardinality(AttestedOnes \cap SpannedOnes) <= Cardinality(SpannedOnes)
    BY <1>6, FS_Intersection
  <2>2. /\ IsFiniteSet(AttestedOnes \ SpannedOnes)
        /\ Cardinality(AttestedOnes \ SpannedOnes)
             = Cardinality(AttestedOnes) - Cardinality(AttestedOnes \cap SpannedOnes)
    BY <1>6, FS_Difference
  <2> QED BY <2>1, <2>2, FS_CardinalityType
<1>9. /\ Cardinality(source \ StampedOnes)
           = Cardinality(source) - Cardinality(source \cap StampedOnes)
      /\ Cardinality(source \ AttestedOnes)
           = Cardinality(source) - Cardinality(source \cap AttestedOnes)
  BY FS_Difference
<1>10. /\ Cardinality(Backlog["unstamped"]) = Cardinality(source) - Cardinality(StampedOnes)
       /\ Cardinality(Backlog["unattested"]) = Cardinality(source) - Cardinality(AttestedOnes)
  BY <1>2, <1>3, <1>9
<1>11. Cardinality(Backlog["attested_without_spans"]) \in Nat
  BY <1>5, <1>8
<1>12. Cardinality(Backlog["attested_without_spans"])
         >= Cardinality(AttestedOnes) - Cardinality(SpannedOnes)
  BY <1>5, <1>6, <1>8
<1> QED BY <1>1, <1>7, <1>10, <1>11, <1>12

\* Each number is fair when it is taken.
LEMMA CountNext ==
  ASSUME NEW c, NEW a \in Nat, NEW b \in Nat, NEW d \in Nat, NEW e \in Nat,
         CountsFair(c, a, b, d, e), Len(c) < 5, NEW size \in Nat,
         Len(c) = 0 => size = a,
         Len(c) = 1 => size = a - b,
         Len(c) = 2 => size = a - d,
         Len(c) = 4 => size >= d - e
  PROVE  /\ CountsFair(Append(c, size), a, b, d, e)
         /\ Len(Append(c, size)) = Len(c) + 1
<1> DEFINE m == Append(c, size)
<1>0. c \in Seq(Nat) /\ Len(c) \in Nat
  BY DEF CountsFair
<1>1. /\ Len(c) \in 0..4
      /\ \A i \in 1..Len(c) : c[i] \in Nat
  <2>1. PICK k \in Nat : k = Len(c)
    BY <1>0
  <2>2. k < 5
    BY <2>1
  <2>3. k \in 0..4
    BY <2>2
  <2>4. \A i \in 1..Len(c) : c[i] \in Nat
    BY <1>0
  <2> QED BY <2>1, <2>3, <2>4
<1>2. /\ m \in Seq(Nat) /\ Len(m) = Len(c) + 1 /\ m[Len(c) + 1] = size
      /\ \A i \in 1..Len(c) : m[i] = c[i]
  BY <1>0
<1> HIDE DEF m
<1> DEFINE n == Len(c)
           v1 == c[1]
           v2 == c[2]
           v3 == c[3]
<1>3. /\ n >= 1 => v1 \in Nat /\ v1 <= a /\ m[1] = v1
      /\ n >= 2 => v2 \in Nat /\ v1 - v2 <= b /\ m[2] = v2
      /\ n >= 3 => v3 \in Nat /\ v1 - v3 <= d /\ m[3] = v3
  BY <1>1, <1>2 DEF CountsFair
<1>4. Len(m) = n + 1 /\ n \in 0..4 /\ m[n + 1] = size
  BY <1>1, <1>2
<1>5. /\ n = 0 => size = a
      /\ n = 1 => size = a - b
      /\ n = 2 => size = a - d
      /\ n = 4 => size >= d - e
  OBVIOUS
<1> HIDE DEF n, v1, v2, v3
<1>6. /\ Len(m) >= 1 => m[1] <= a
      /\ Len(m) >= 2 => m[1] - m[2] <= b
      /\ Len(m) >= 3 => m[1] - m[3] <= d
      /\ Len(m) >= 5 => m[1] - m[3] - m[5] <= e
  <2>1. CASE n = 0
    BY <1>3, <1>4, <1>5, <2>1
  <2>2. CASE n = 1
    BY <1>3, <1>4, <1>5, <2>2
  <2>3. CASE n = 2
    BY <1>3, <1>4, <1>5, <2>3
  <2>4. CASE n = 3
    BY <1>3, <1>4, <1>5, <2>4
  <2>5. CASE n = 4
    BY <1>3, <1>4, <1>5, <2>5
  <2> QED BY <1>4, <2>1, <2>2, <2>3, <2>4, <2>5
<1> QED BY <1>2, <1>4, <1>6 DEF CountsFair, m, n

LEMMA StatusCountInv ==
  ASSUME IsFiniteSet(source), ReadInv, CountInv, StatusCount, UNCHANGED vars
  PROVE  CountInv'
<1> DEFINE c == reader.counts
           n == Len(c) + 1
           size == Cardinality(Backlog[Counted[n]])
<1> DEFINE all == Cardinality(source)
           done1 == Cardinality(StampedOnes)
           done2 == Cardinality(AttestedOnes)
           done3 == Cardinality(SpannedOnes)
<1>1. CountsFair(c, all, done1, done2, done3) /\ Len(c) < 5 /\ c \in Seq(Nat)
  BY DEF CountInv, CountsFair, StatusCount
<1>2. /\ reader'.kind = "status" /\ reader'.counts = Append(c, size)
      /\ reader'.step = IF n = 5 THEN "answered" ELSE "count"
  <2>1. IsRequest(reader) /\ Len(Counted) = 5 /\ reader.kind = "status"
    BY DEF ReadInv, ReadHand, StatusCount, Counted
  <2> QED BY <2>1 DEF StatusCount, IsRequest, Fields
<1>3. all \in Nat /\ done1 \in Nat /\ done2 \in Nat /\ done3 \in Nat
  BY Sizes
<1>4. n \in 1..5
  BY <1>1
<1>5. /\ n = 1 => size = all
      /\ n = 2 => size = all - done1
      /\ n = 3 => size = all - done2
      /\ n = 5 => size >= done2 - done3
      /\ size \in Nat
  <2>1. /\ Cardinality(Backlog["unstamped"]) \in Nat
        /\ Cardinality(Backlog["unattested"]) \in Nat
    <3>1. /\ Backlog["unstamped"] \in SUBSET source
          /\ Backlog["unattested"] \in SUBSET source
      BY DEF Backlog
    <3>2. IsFiniteSet(Backlog["unstamped"]) /\ IsFiniteSet(Backlog["unattested"])
      BY <3>1, FS_Subset
    <3> QED BY <3>2, FS_CardinalityType
  <2>2. /\ Counted[1] = "sources" /\ Counted[2] = "unstamped"
        /\ Counted[3] = "unattested" /\ Counted[4] = "unattested_capture_failed"
        /\ Counted[5] = "attested_without_spans"
    BY DEF Counted
  <2>3. CASE n = 1
    BY <1>3, <2>2, <2>3, Gaps
  <2>4. CASE n = 2
    BY <2>1, <2>2, <2>4, Gaps
  <2>5. CASE n = 3
    BY <2>1, <2>2, <2>5, Gaps
  <2>6. CASE n = 4
    BY <2>2, <2>6, Gaps
  <2>7. CASE n = 5
    BY <2>2, <2>7, Gaps
  <2> QED BY <1>4, <2>3, <2>4, <2>5, <2>6, <2>7
<1> HIDE DEF size, all, done1, done2, done3
<1>6. CountsFair(Append(c, size), all, done1, done2, done3) /\ Len(Append(c, size)) = n
  <2>1. PICK k \in Nat : k = Len(c)
    BY <1>1
  <2>2. /\ k + 1 = 1 => size = all
        /\ k + 1 = 2 => size = all - done1
        /\ k + 1 = 3 => size = all - done2
        /\ k + 1 = 5 => size >= done2 - done3
    BY <1>5, <2>1
  <2>3. /\ k = 0 => size = all
        /\ k = 1 => size = all - done1
        /\ k = 2 => size = all - done2
        /\ k = 4 => size >= done2 - done3
    BY <2>2
  <2>4. /\ Len(c) = 0 => size = all
        /\ Len(c) = 1 => size = all - done1
        /\ Len(c) = 2 => size = all - done2
        /\ Len(c) = 4 => size >= done2 - done3
    BY <2>1, <2>3
  <2>5. Len(Append(c, size)) = Len(c) + 1
    BY <1>1, <1>5, <1>3, <2>4, CountNext
  <2>6. CountsFair(Append(c, size), all, done1, done2, done3)
    BY <1>1, <1>5, <1>3, <2>4, CountNext
  <2> QED BY <2>5, <2>6
<1>7. UNCHANGED <<source, StampedOnes, AttestedOnes, SpannedOnes>>
  BY DEF vars, ledgerVars, tableVars, StampedOnes, AttestedOnes, SpannedOnes, Stamped,
     Attested, HasSpans
<1> QED BY <1>2, <1>4, <1>6, <1>7 DEF CountInv, all, done1, done2, done3

LEMMA IdleCountInv ==
  ASSUME IsFiniteSet(source), NEW step \in {"idle", "count"},
         reader' = [ReaderIdle EXCEPT !.kind = "status", !.step = step],
         UNCHANGED vars
  PROVE  CountInv'
<1>1. reader'.counts = <<>> /\ reader'.step = step
  BY DEF ReaderIdle
<1>2. <<>> \in Seq(Nat) /\ Len(<<>>) = 0
  OBVIOUS
<1>3. CountsFair(<<>>, Cardinality(source'), Cardinality(StampedOnes'),
                 Cardinality(AttestedOnes'), Cardinality(SpannedOnes'))
  BY <1>2 DEF CountsFair
<1> QED BY <1>1, <1>2, <1>3 DEF CountInv

\* No other request counts.
LEMMA OtherCountInv ==
  ASSUME IsFiniteSet(source), ReadInv, CountInv, ReadStep, UNCHANGED vars
  PROVE  CountInv'
<1>0. IsRequest(ReaderIdle) /\ IsRequest(reader)
  BY IdleRequest DEF ReadInv, ReadHand
<1>1. CASE AskStatus
  BY <1>1, IdleCountInv DEF AskStatus
<1>2. CASE Close
  <2>1. ReaderIdle.kind = "status" /\ ReaderIdle.step = "idle"
    BY DEF ReaderIdle
  <2>2. ReaderIdle = [ReaderIdle EXCEPT !.kind = "status", !.step = "idle"]
    BY <1>0, <2>1 DEF IsRequest, Fields
  <2> QED BY <1>2, <2>2, IdleCountInv DEF Close
<1>3. CASE StatusCount
  BY <1>3, StatusCountInv
<1>4. ASSUME NEW p \in span, AskSpan("verify", p) \/ AskSpan("detail", p)
      PROVE  reader'.kind \in {"verify", "detail"}
  BY <1>0, <1>4 DEF AskSpan, IsRequest, Fields
<1>5. ASSUME NEW s \in source, AskSource(s) PROVE reader'.kind = "source"
  BY <1>0, <1>5 DEF AskSource, IsRequest, Fields
<1>6. ASSUME NEW name, NEW limit, AskSearch(name, limit)
      PROVE  reader'.kind = "search"
  BY <1>0, <1>6 DEF AskSearch, IsRequest, Fields
<1>7. ASSUME \/ VerifyBytes \/ VerifyWitness \/ VerifyStampRow \/ VerifyStampToken
             \/ DetailContext \/ SourceWitness \/ SearchCount \/ SearchPage
      PROVE  reader.kind # "status" /\ reader'.kind = reader.kind
  <2>1. reader.kind # "status"
    BY <1>7 DEF VerifyBytes, VerifyWitness, VerifyStampRow, VerifyStampToken,
       DetailContext, SourceWitness, SearchCount, SearchPage, CountInv
  <2>2. CASE VerifyBytes
    BY <1>0, <2>1, <2>2 DEF VerifyBytes, IsRequest, Fields
  <2>3. CASE VerifyWitness
    BY <1>0, <2>1, <2>3 DEF VerifyWitness, IsRequest, Fields
  <2>4. CASE VerifyStampRow
    BY <1>0, <2>1, <2>4 DEF VerifyStampRow, IsRequest, Fields
  <2>5. CASE VerifyStampToken
    BY <1>0, <2>1, <2>5 DEF VerifyStampToken, IsRequest, Fields
  <2>6. CASE DetailContext
    BY <1>0, <2>1, <2>6 DEF DetailContext, IsRequest, Fields
  <2>7. CASE SourceWitness
    BY <1>0, <2>1, <2>7 DEF SourceWitness, IsRequest, Fields
  <2>8. CASE SearchCount
    BY <1>0, <2>1, <2>8 DEF SearchCount, IsRequest, Fields
  <2>9. CASE SearchPage
    BY <1>0, <2>1, <2>9 DEF SearchPage, TurnPage, IsRequest, Fields
  <2> QED BY <1>7, <2>1, <2>2, <2>3, <2>4, <2>5, <2>6, <2>7, <2>8, <2>9
<1>8. reader'.kind # "status" => CountInv'
  BY DEF CountInv
<1> QED BY <1>1, <1>2, <1>3, <1>4, <1>5, <1>6, <1>7, <1>8 DEF ReadStep

LEMMA CountInvStep ==
  ASSUME IInv, IsFiniteSet(source), IsFiniteSet(source'), ReadInv, CountInv,
         [ReadNext]_readVars
  PROVE  CountInv'
<1>1. CASE Next /\ UNCHANGED reader
  BY <1>1, PassesKeepCountInv
<1>2. CASE UNCHANGED readVars
  BY <1>2, PassesKeepCountInv DEF readVars
<1>3. CASE ReadStep /\ UNCHANGED vars
  BY <1>3, OtherCountInv
<1> QED BY <1>1, <1>2, <1>3 DEF ReadNext

\* The numbers of status describe no single moment, but they never claim more
\* work done than there is when the last of them has been counted.
THEOREM StatusHonest == ReadSpec => []BacklogNotOverstated
<1>1. ReadInit => CountInv
  BY DEF ReadInit, ReaderIdle, CountInv, CountsFair
<1>2. IInv /\ IsFiniteSet(source) /\ IsFiniteSet(source)' /\ ReadInv /\ CountInv
        /\ [ReadNext]_readVars => CountInv'
  BY CountInvStep
<1>3. CountInv => BacklogNotOverstated
  <2> SUFFICES ASSUME CountInv, Answered("status") PROVE BacklogNotOverstated
    BY DEF BacklogNotOverstated
  <2> DEFINE place(c) == CHOOSE n \in 1..Len(Counted) : Counted[n] = c
             k == reader.counts
  <2>1. /\ place("sources") = 1 /\ place("unstamped") = 2 /\ place("unattested") = 3
        /\ place("attested_without_spans") = 5
    BY DEF Counted
  <2>2. /\ k[1] - k[2] <= Cardinality(StampedOnes)
        /\ k[1] - k[3] <= Cardinality(AttestedOnes)
        /\ k[1] - k[3] - k[5] <= Cardinality(SpannedOnes)
    BY DEF CountInv, CountsFair, Answered
  <2> HIDE DEF place
  <2> QED BY <2>1, <2>2 DEF BacklogNotOverstated, StampedOnes, AttestedOnes,
             SpannedOnes, place
<1> QED BY <1>1, <1>2, <1>3, ReadInvariant, ReadIsSpec, FiniteSources, PTL DEF ReadSpec

-----------------------------------------------------------------------------
(* GET /v1/search *)

LEMMA LeastNatural ==
  ASSUME NEW S \in SUBSET Nat, S # {}
  PROVE  \E m \in S : \A n \in S : m <= n
<1>1. PICK m \in S : \A n \in S : <<n, m>> \notin OpToRel(<, Nat)
  BY NatLessThanWellFounded, WFMin
<1>2. \A n \in S : ~(n < m)
  BY <1>1 DEF OpToRel
<1> QED BY <1>2

LEMMA FiniteKeys == IsFiniteSet(Keys)
<1> DEFINE of == [b \in Bytes |-> {b} \X Dated(b)]
           all == {{b} \X Dated(b) : b \in Bytes}
<1>1. of \in Surjection(Bytes, all)
  BY DEF Surjection
<1>2. IsFiniteSet(all)
  BY <1>1, ReadingAssumption, FS_Surjection
<1>3. ASSUME NEW b \in Bytes PROVE IsFiniteSet({b} \X Dated(b))
  <2>1. Len(Speeches[b]) \in Nat
    BY LedgerAssumption
  <2>2. IsFiniteSet(1..Len(Speeches[b]))
    BY <2>1, FS_Interval
  <2>3. Dated(b) \in SUBSET (1..Len(Speeches[b]))
    BY DEF Dated
  <2>4. IsFiniteSet(Dated(b)) /\ IsFiniteSet({b})
    BY <2>2, <2>3, FS_Subset, FS_Singleton
  <2> QED BY <2>4, FS_Product
<1>4. IsFiniteSet(UNION all)
  BY <1>2, <1>3, FS_UNION
<1> QED BY <1>4 DEF Keys

\* How many rows of all stand before k.
Place(all, rank, k) == Cardinality({j \in all : rank[j] < rank[k]})

LEMMA RankTyped ==
  ASSUME NEW rank \in Orders
  PROVE  /\ \A k \in Keys : rank[k] \in Nat
         /\ \A j, k \in Keys : rank[j] = rank[k] => j = k
<1>1. Cardinality(Keys) \in Nat
  BY FiniteKeys, FS_CardinalityType
<1>2. rank \in [Keys -> 1..Cardinality(Keys)] /\ IsInjective(rank)
  BY DEF Orders, Bijection, Injection
<1>3. \A k \in Keys : rank[k] \in 1..Cardinality(Keys)
  BY <1>2
<1>4. \A j, k \in Keys : rank[j] = rank[k] => j = k
  BY <1>2 DEF IsInjective
<1> QED BY <1>1, <1>3, <1>4

LEMMA PlaceTyped ==
  ASSUME NEW all, IsFiniteSet(all), NEW rank, NEW k
  PROVE  Place(all, rank, k) \in Nat
<1>1. IsFiniteSet({j \in all : rank[j] < rank[k]})
  BY FS_Subset
<1> QED BY <1>1, FS_CardinalityType DEF Place

\* Rows that appear push the others down.
LEMMA PlaceGrows ==
  ASSUME NEW all, NEW more, all \subseteq more, IsFiniteSet(more), NEW rank, NEW k
  PROVE  Place(all, rank, k) <= Place(more, rank, k)
<1>1. IsFiniteSet({j \in more : rank[j] < rank[k]})
  BY FS_Subset
<1>2. {j \in all : rank[j] < rank[k]} \in SUBSET {j \in more : rank[j] < rank[k]}
  OBVIOUS
<1> QED BY <1>1, <1>2, FS_Subset DEF Place

\* Two rows have different places, in the order of their ranks.
LEMMA PlaceOrders ==
  ASSUME NEW all \in SUBSET Keys, IsFiniteSet(all), NEW rank \in Orders,
         NEW j \in all, NEW k \in all, rank[j] < rank[k]
  PROVE  Place(all, rank, j) < Place(all, rank, k)
<1> DEFINE low == {i \in all : rank[i] < rank[j]}
           high == {i \in all : rank[i] < rank[k]}
<1>1. \A i \in all : rank[i] \in Nat
  BY RankTyped
<1>2. low \in SUBSET high /\ j \in high /\ j \notin low
  BY <1>1
<1>3. IsFiniteSet(high) /\ IsFiniteSet(low)
  BY FS_Subset
<1>4. Cardinality(high) \in Nat /\ Cardinality(low) \in Nat
  BY <1>3, FS_CardinalityType
<1>5. Cardinality(low) <= Cardinality(high) /\ Cardinality(high) # Cardinality(low)
  BY <1>2, <1>3, FS_Subset
<1> HIDE DEF low, high
<1>6. Cardinality(low) < Cardinality(high)
  BY <1>4, <1>5
<1> QED BY <1>6 DEF Place, low, high

LEMMA PlaceInjective ==
  ASSUME NEW all \in SUBSET Keys, IsFiniteSet(all), NEW rank \in Orders,
         NEW j \in all, NEW k \in all, Place(all, rank, j) = Place(all, rank, k)
  PROVE  j = k
<1>1. rank[j] \in Nat /\ rank[k] \in Nat /\ (rank[j] = rank[k] => j = k)
  BY RankTyped
<1>2. Place(all, rank, j) \in Nat /\ Place(all, rank, k) \in Nat
  BY PlaceTyped
<1>3. ~(rank[j] < rank[k]) /\ ~(rank[k] < rank[j])
  BY <1>2, PlaceOrders
<1> QED BY <1>1, <1>3

\* As many rows as there are places, at most.
LEMMA RowsBetween ==
  ASSUME NEW all \in SUBSET Keys, IsFiniteSet(all), NEW rank \in Orders,
         NEW low \in Nat, NEW high \in Nat, low <= high,
         NEW rows \in SUBSET all,
         \A k \in rows : low <= Place(all, rank, k) /\ Place(all, rank, k) < high
  PROVE  IsFiniteSet(rows) /\ Cardinality(rows) \in Nat /\ Cardinality(rows) <= high - low
<1> DEFINE place == [k \in rows |-> Place(all, rank, k)]
<1>1. \A k \in rows : Place(all, rank, k) \in Nat
  BY PlaceTyped
<1>2. place \in [rows -> low..(high - 1)]
  BY <1>1
<1>3. \A j, k \in rows : place[j] = place[k] => j = k
  BY PlaceInjective
<1>4. place \in Injection(rows, low..(high - 1))
  BY <1>2, <1>3 DEF Injection, IsInjective
<1>5. IsFiniteSet(low..(high - 1)) /\ Cardinality(low..(high - 1)) = high - low
  <2>1. high - 1 \in Int /\ low \in Int
    OBVIOUS
  <2>2. IsFiniteSet(low..(high - 1))
    BY <2>1, FS_Interval
  <2>3. Cardinality(low..(high - 1))
          = IF low > high - 1 THEN 0 ELSE (high - 1) - low + 1
    BY <2>1, FS_Interval
  <2> QED BY <2>2, <2>3
<1>6. IsFiniteSet(rows) /\ Cardinality(rows) <= high - low
  BY <1>4, <1>5, FS_Injection
<1> QED BY <1>6, FS_CardinalityType

\* There are no gaps: if no row has a place in the window, none has a later one.
LEMMA EmptyPage ==
  ASSUME NEW all \in SUBSET Keys, IsFiniteSet(all), NEW rank \in Orders,
         NEW offset \in Nat, NEW limit \in Nat \ {0},
         \A k \in all : ~(/\ offset <= Place(all, rank, k)
                          /\ Place(all, rank, k) < offset + limit),
         NEW k \in all
  PROVE  Place(all, rank, k) < offset
<1> SUFFICES ASSUME offset <= Place(all, rank, k) PROVE FALSE
  BY PlaceTyped
<1> DEFINE late == {j \in all : offset <= Place(all, rank, j)}
           ranks == {rank[j] : j \in late}
<1>1. \A j \in all : rank[j] \in Nat /\ Place(all, rank, j) \in Nat
  BY RankTyped, PlaceTyped
<1>2. ranks \in SUBSET Nat /\ ranks # {}
  <2>1. k \in late
    OBVIOUS
  <2>2. \A j \in late : rank[j] \in Nat
    BY <1>1
  <2> HIDE DEF late
  <2> QED BY <2>1, <2>2
<1>3. PICK m \in ranks : \A n \in ranks : m <= n
  BY <1>2, LeastNatural
<1>4. PICK first \in late : rank[first] = m
  BY <1>3
<1>5. ASSUME NEW j \in all, rank[j] < rank[first]
      PROVE  Place(all, rank, j) < offset
  <2>1. j \notin late
    <3>1. j \in late => rank[j] \in ranks
      OBVIOUS
    <3>2. rank[j] \in Nat /\ m \in Nat
      BY <1>1, <1>2, <1>3
    <3> HIDE DEF late, ranks
    <3> QED BY <1>3, <1>4, <1>5, <3>1, <3>2
  <2> QED BY <1>1, <2>1
<1> DEFINE before == {j \in all : rank[j] < rank[first]}
<1>6. before \in SUBSET all /\ \A j \in before :
        0 <= Place(all, rank, j) /\ Place(all, rank, j) < offset
  BY <1>1, <1>5
<1> HIDE DEF before
<1>7. Cardinality(before) \in Nat /\ Cardinality(before) <= offset
  BY <1>6, RowsBetween
<1>8. Place(all, rank, first) <= offset
  BY <1>7 DEF Place, before
<1>9. Place(all, rank, first) = offset
  BY <1>1, <1>4, <1>8
<1> QED BY <1>4, <1>9

\* The rows received so far are those before the offset, as far as they were
\* there at the beginning.
PageInv ==
  reader.kind = "search" =>
    /\ reader.step \in {"count", "page", "answered"}
    /\ reader.limit \in Nat \ {0} /\ reader.offset \in Nat
    /\ reader.offset > 0 => reader.rank \in Orders
    /\ reader.due \subseteq Matching
    /\ reader.offset > 0 =>
         \A k \in reader.due :
           Place(Matching, reader.rank, k) < reader.offset => k \in reader.seen
    /\ reader.step = "answered" => reader.due \subseteq reader.seen

LEMMA MatchingTyped ==
  ASSUME IInv
  PROVE  Matching \in SUBSET Keys /\ IsFiniteSet(Matching)
<1>1. ASSUME NEW p \in span PROVE KeyOf(p) \in Keys
  <2>1. p.src \in source /\ p.src.hash \in Bytes
    BY DEF IInv, Tables, RowsRooted, LedgerTypeOK, Source
  <2>2. p.pos \in Dated(p.src.hash)
    BY <2>1 DEF IInv, Tables, SpansComplete, SpansOf
  <2> QED BY <2>1, <2>2 DEF KeyOf, Keys
<1>2. Matching \in SUBSET Keys
  BY <1>1 DEF Matching
<1> QED BY <1>2, FiniteKeys, FS_Subset

LEMMA PassesKeepPageInv ==
  ASSUME IInv, IInv', [Next]_vars, PageInv, UNCHANGED reader
  PROVE  PageInv'
<1> SUFFICES ASSUME reader.kind = "search" PROVE PageInv'
  BY DEF PageInv
<1>1. Matching \subseteq Matching'
  <2>1. \A q : Citable(q) => Citable(q)'
    BY RowsGrowing, CitableStays
  <2> QED BY <2>1 DEF Matching, Citable
<1>2. /\ Matching \in SUBSET Keys /\ IsFiniteSet(Matching)
      /\ Matching' \in SUBSET Keys /\ IsFiniteSet(Matching')
  <2>1. (IInv => Matching \in SUBSET Keys /\ IsFiniteSet(Matching))'
    BY MatchingTyped, PTL
  <2> QED BY <2>1, MatchingTyped
<1>3. \A k : /\ Place(Matching, reader.rank, k) <= Place(Matching', reader.rank, k)
             /\ Place(Matching, reader.rank, k) \in Nat
             /\ Place(Matching', reader.rank, k) \in Nat
  BY <1>1, <1>2, PlaceGrows, PlaceTyped
<1>4. ASSUME reader.offset > 0, NEW k \in reader.due,
             Place(Matching', reader.rank, k) < reader.offset
      PROVE  k \in reader.seen
  <2>1. Place(Matching, reader.rank, k) < reader.offset
    BY <1>3, <1>4 DEF PageInv
  <2> QED BY <1>4, <2>1 DEF PageInv
<1> QED BY <1>1, <1>4 DEF PageInv

\* One page: what it adds, and what its being empty says.
LEMMA TurnPageInv ==
  ASSUME IInv, ReadInv, PageInv, reader.kind = "search", NEW rank \in Orders,
         reader.offset > 0 => rank = reader.rank, TurnPage(rank), UNCHANGED vars
  PROVE  PageInv'
<1> DEFINE all == Matching
           place(k) == Place(all, rank, k)
           page == {k \in all : reader.offset <= place(k)
                                  /\ place(k) < reader.offset + reader.limit}
           due == IF reader.offset = 0 THEN all ELSE reader.due
           seen == reader.seen \cup page
           offset == reader.offset + Cardinality(page)
<1>1. all \in SUBSET Keys /\ IsFiniteSet(all)
  BY MatchingTyped
<1>2. /\ reader.limit \in Nat \ {0} /\ reader.offset \in Nat
      /\ IsRequest(reader)
  BY DEF PageInv, ReadInv, ReadHand
<1>3. /\ reader' = [reader EXCEPT
             !.step = IF page = {} THEN "answered" ELSE "count", !.rank = rank,
             !.seen = seen, !.due = due, !.offset = offset]
  BY DEF TurnPage, Place
<1> HIDE DEF page, due, seen, offset
<1>4. /\ reader'.kind = "search" /\ reader'.limit = reader.limit
      /\ reader'.rank = rank /\ reader'.seen = seen /\ reader'.due = due
      /\ reader'.offset = offset /\ reader'.name = reader.name
      /\ reader'.step = IF page = {} THEN "answered" ELSE "count"
  BY <1>2, <1>3 DEF IsRequest, Fields
<1>5. Matching' = all
  BY <1>4 DEF Matching, Citable, KeyOf, Attested, vars, ledgerVars, tableVars
<1>6. /\ IsFiniteSet(page) /\ Cardinality(page) \in Nat
      /\ Cardinality(page) <= reader.limit
  <2>1. /\ reader.offset + reader.limit \in Nat
        /\ reader.offset <= reader.offset + reader.limit
        /\ (reader.offset + reader.limit) - reader.offset = reader.limit
    BY <1>2
  <2>2. page \in SUBSET all /\ \A k \in page :
          reader.offset <= Place(all, rank, k)
            /\ Place(all, rank, k) < reader.offset + reader.limit
    BY DEF page
  <2> QED BY <1>1, <1>2, <2>1, <2>2, RowsBetween
<1>7. due \subseteq all
  BY DEF due, PageInv
<1>8. \A k \in all : place(k) \in Nat
  BY <1>1, PlaceTyped
<1>9. ASSUME NEW k \in due, place(k) < reader.offset PROVE k \in seen
  <2>1. reader.offset > 0
    BY <1>2, <1>7, <1>8, <1>9
  <2>2. rank = reader.rank /\ k \in reader.due
    BY <2>1, <1>9 DEF due
  <2>3. k \in reader.seen
    BY <1>9, <2>1, <2>2 DEF PageInv
  <2> QED BY <2>3 DEF seen
<1>10. ASSUME NEW k \in due, place(k) < offset PROVE k \in seen
  <2>1. CASE reader.offset <= place(k)
    <3>1. place(k) < reader.offset + reader.limit
      BY <1>2, <1>6, <1>7, <1>8, <1>10 DEF offset
    <3> QED BY <1>7, <2>1, <3>1 DEF page, seen
  <2>2. CASE place(k) < reader.offset
    BY <1>9, <2>2
  <2> QED BY <1>2, <1>7, <1>8, <2>1, <2>2
<1>11. ASSUME page = {} PROVE due \subseteq seen
  <2>1. \A k \in all : place(k) < reader.offset
    BY <1>1, <1>2, <1>11, EmptyPage DEF page
  <2> QED BY <1>7, <1>9, <2>1
<1>12. offset \in Nat
  BY <1>2, <1>6 DEF offset
<1> HIDE DEF place
<1>13. \A k \in reader'.due : Place(Matching', reader'.rank, k) < reader'.offset
                                => k \in reader'.seen
  BY <1>4, <1>5, <1>10 DEF place
<1> QED BY <1>2, <1>4, <1>5, <1>7, <1>11, <1>12, <1>13 DEF PageInv

LEMMA ClampPositive ==
  ASSUME NEW limit \in Int
  PROVE  ClampLimit(limit) \in Nat \ {0}
  BY ReadingAssumption DEF ClampLimit

LEMMA OtherPageInv ==
  ASSUME IInv, ReadInv, PageInv, ReadStep, UNCHANGED vars
  PROVE  PageInv'
<1>0. IsRequest(ReaderIdle) /\ IsRequest(reader)
  BY IdleRequest DEF ReadInv, ReadHand
<1>1. reader'.kind # "search" => PageInv'
  BY DEF PageInv
<1>2. ASSUME NEW name \in Names \cup {Anybody}, NEW limit \in AskedLimits,
             AskSearch(name, limit)
      PROVE  PageInv'
  <2>1. ClampLimit(limit) \in Nat \ {0}
    BY ReadingAssumption, ClampPositive
  <2>2. ReaderIdle.offset = 0 /\ ReaderIdle.due = {}
    BY DEF ReaderIdle
  <2>3. /\ reader'.kind = "search" /\ reader'.step = "count"
        /\ reader'.limit = ClampLimit(limit) /\ reader'.offset = 0 /\ reader'.due = {}
    BY <1>0, <1>2, <2>2 DEF AskSearch, IsRequest, Fields
  <2> QED BY <2>1, <2>3 DEF PageInv
<1>3. CASE SearchCount
  <2>1. /\ reader.kind = "search" /\ reader'.kind = "search" /\ reader'.step = "page"
        /\ reader'.limit = reader.limit /\ reader'.offset = reader.offset
        /\ reader'.rank = reader.rank /\ reader'.due = reader.due
        /\ reader'.seen = reader.seen /\ reader'.name = reader.name
    BY <1>0, <1>3 DEF SearchCount, IsRequest, Fields
  <2>2. Matching' = Matching
    BY <2>1 DEF Matching, Citable, KeyOf, Attested, vars, ledgerVars, tableVars
  <2> QED BY <2>1, <2>2 DEF PageInv
<1>4. CASE SearchPage
  <2>1. PICK rank \in IF reader.offset = 0 THEN Orders ELSE {reader.rank} :
          TurnPage(rank)
    BY <1>4 DEF SearchPage
  <2>2. CASE reader.kind = "search"
    <3>1. rank \in Orders /\ (reader.offset > 0 => rank = reader.rank)
      BY <2>1, <2>2 DEF PageInv
    <3> QED BY <2>1, <2>2, <3>1, TurnPageInv
  <2>3. CASE reader.kind # "search"
    BY <1>0, <1>1, <2>1, <2>3 DEF TurnPage, IsRequest, Fields
  <2> QED BY <2>2, <2>3
<1>5. CASE AskStatus
  BY <1>0, <1>1, <1>5 DEF AskStatus, IsRequest, Fields
<1>6. CASE Close
  BY <1>1, <1>6 DEF Close, ReaderIdle
<1>7. ASSUME NEW p \in span, AskSpan("verify", p) \/ AskSpan("detail", p)
      PROVE  PageInv'
  BY <1>0, <1>1, <1>7 DEF AskSpan, IsRequest, Fields
<1>8. ASSUME NEW s \in source, AskSource(s) PROVE PageInv'
  BY <1>0, <1>1, <1>8 DEF AskSource, IsRequest, Fields
<1>9. ASSUME \/ VerifyBytes \/ VerifyWitness \/ VerifyStampRow \/ VerifyStampToken
             \/ DetailContext \/ SourceWitness \/ StatusCount
      PROVE  PageInv'
  <2>1. reader.kind # "search"
    BY <1>9 DEF VerifyBytes, VerifyWitness, VerifyStampRow, VerifyStampToken,
       DetailContext, SourceWitness, StatusCount, PageInv
  <2>2. CASE VerifyBytes
    BY <1>0, <1>1, <2>1, <2>2 DEF VerifyBytes, IsRequest, Fields
  <2>3. CASE VerifyWitness
    BY <1>0, <1>1, <2>1, <2>3 DEF VerifyWitness, IsRequest, Fields
  <2>4. CASE VerifyStampRow
    BY <1>0, <1>1, <2>1, <2>4 DEF VerifyStampRow, IsRequest, Fields
  <2>5. CASE VerifyStampToken
    BY <1>0, <1>1, <2>1, <2>5 DEF VerifyStampToken, IsRequest, Fields
  <2>6. CASE DetailContext
    BY <1>0, <1>1, <2>1, <2>6 DEF DetailContext, IsRequest, Fields
  <2>7. CASE SourceWitness
    BY <1>0, <1>1, <2>1, <2>7 DEF SourceWitness, IsRequest, Fields
  <2>8. CASE StatusCount
    BY <1>0, <1>1, <2>1, <2>8 DEF StatusCount, IsRequest, Fields
  <2> QED BY <1>9, <2>2, <2>3, <2>4, <2>5, <2>6, <2>7, <2>8
<1> QED BY <1>2, <1>3, <1>4, <1>5, <1>6, <1>7, <1>8, <1>9 DEF ReadStep

LEMMA PageInvStep ==
  ASSUME IInv, IInv', ReadInv, PageInv, [ReadNext]_readVars
  PROVE  PageInv'
<1>1. CASE Next /\ UNCHANGED reader
  BY <1>1, PassesKeepPageInv
<1>2. CASE UNCHANGED readVars
  BY <1>2, PassesKeepPageInv DEF readVars
<1>3. CASE ReadStep /\ UNCHANGED vars
  BY <1>3, OtherPageInv
<1> QED BY <1>1, <1>2, <1>3 DEF ReadNext

\* Whoever turns pages until one is empty has seen every span that could be
\* cited when the first page was cut, however many are added meanwhile and
\* whatever limit was asked for.
THEOREM NothingSkipped == ReadSpec => []PagesMissNothing
<1>1. ReadInit => PageInv
  BY DEF ReadInit, ReaderIdle, PageInv
<1>2. IInv /\ IInv' /\ ReadInv /\ PageInv /\ [ReadNext]_readVars => PageInv'
  BY PageInvStep
<1>3. PageInv => PagesMissNothing
  BY DEF PageInv, PagesMissNothing, Answered
<1> QED BY <1>1, <1>2, <1>3, ReadInvariant, PTL DEF ReadSpec
=============================================================================
