------------------------------ MODULE Reading ------------------------------
(***************************************************************************)
(* What the ledger is for: the read API (serving/app.py over store/read.py *)
(* and pipeline/verify.py) and the status command (store/status.py), beside*)
(* the passes.  A reader writes nothing and locks nothing, so readers do   *)
(* not meet each other and one request at a time stands for all of them.   *)
(* Each statement and each WORM read is a step: under READ COMMITTED the   *)
(* passes commit in between.                                               *)
(***************************************************************************)
EXTENDS Pipeline, Functions

CONSTANTS
  Day,           \* Day[b]: the date of the sitting document b records
  Agenda,        \* Agenda[b]: the agenda item each draft of document b is in
  ContextMax,    \* CONTEXT_MAX, the cap of the context of a span
  DefaultLimit,  \* rows of a page of search if the client's limit is not > 0
  MaximumLimit,  \* rows of a page at most
  AskedLimits,   \* limits a client sends
  Anybody        \* a search without the filter by speaker

ASSUME ReadingAssumption ==
  /\ Day \in [Bytes -> Nat]
  /\ Agenda \in [Bytes -> Seq(STRING)]
  /\ \A b \in Bytes : Len(Agenda[b]) = Len(Speeches[b])
  /\ IsFiniteSet(Bytes)
  /\ ContextMax \in Nat \ {0}
  /\ DefaultLimit \in Nat \ {0} /\ MaximumLimit \in Nat \ {0}
  /\ AskedLimits \subseteq Int
  /\ Anybody \notin Names

VARIABLE reader  \* the request that is being answered

readVars == <<vars, reader>>

\* Where a span stands: which document, and which draft of it.
Keys == UNION {{b} \X Dated(b) : b \in Bytes}
KeyOf(p) == <<p.src.hash, p.pos>>
\* ORDER BY spoken_at DESC, id: the later day first, and within a day an order
\* nobody chose, for the ids are random.
Orders ==
  {rank \in Bijection(Keys, 1..Cardinality(Keys)) :
     \A j, k \in Keys : Day[j[1]] > Day[k[1]] => rank[j] < rank[k]}

\* kind, step: the request and the await it is at; span, src: what was asked
\* for; status, witness, row, verdict: the parts of the report of verify;
\* actual, token: what the store returned for it (None: nothing); spoiled,
\* stamped: history, the altered objects and whether src had a time-stamp when
\* the request began;
\* context: the neighbours of the span; name, limit: the criteria of a search;
\* rank: the order of its rows; offset: the rows received so far; total: the
\* last count; seen: those rows; due: what the first page was cut from;
\* counts: the numbers status has so far.
ReaderIdle ==
  [kind |-> "status", step |-> "idle", span |-> None, src |-> None,
   status |-> "none", witness |-> "none", row |-> None, verdict |-> "missing",
   actual |-> None, token |-> None, spoiled |-> {}, stamped |-> FALSE,
   context |-> {}, name |-> Anybody, limit |-> DefaultLimit, rank |-> None,
   offset |-> 0, total |-> 0, seen |-> {}, due |-> {}, counts |-> <<>>]

ReadInit == Init /\ reader = ReaderIdle

\* _PUBLIC_FILTER and the joins; rights_basis and span_state never change.
Citable(p) ==
  /\ p \in span
  /\ p.mandate.who \in speaker
  /\ p.src.text /\ p.basis = p.src.hash
  /\ Attested(p.src)

\* The first statement of a request for a span the client names by its id.
AskSpan(kind, p) ==
  /\ reader.step = "idle"
  /\ reader' = [ReaderIdle EXCEPT
       !.kind = kind, !.span = p, !.src = p.src,
       !.spoiled = altered, !.stamped = Stamped(p.src),
       !.step = IF Citable(p) THEN "found" ELSE "answered",
       !.status = IF Citable(p) THEN "none" ELSE "not_found"]

-----------------------------------------------------------------------------
(* GET /v1/spans/{id}/verify *)

\* Mutant: a store that does not answer is read as an empty object.
BytesVerdictEmpty(raw, expected) ==
  IF raw # expected THEN "hash_mismatch" ELSE "ok"

\* Mutant: an object that can be read is taken for the one that was put.
BytesVerdictUnhashed(raw, expected) ==
  IF raw = None THEN "worm_missing" ELSE "ok"

BytesVerdict(raw, expected) ==
  IF raw = None THEN "worm_missing"
  ELSE IF raw # expected THEN "hash_mismatch" ELSE "ok"

\* The source row, which cannot have changed, and the bytes it pins.
VerifyBytes ==
  LET raw == Get(reader.src.ref)
  IN /\ reader.kind = "verify" /\ reader.step = "found"
     /\ reader' = [reader EXCEPT !.step = "bytes", !.actual = raw,
                                 !.status = BytesVerdict(raw, reader.src.hash)]

\* The row of source_archive; without bytes that is all.
VerifyWitness ==
  /\ reader.step = "bytes"
  /\ reader' = [reader EXCEPT
       !.witness = IF Attested(reader.src) THEN "ok" ELSE "missing",
       !.step = IF reader.status = "worm_missing" THEN "answered" ELSE "witness"]

\* The first row of source_timestamp: rows of one source may have begun their
\* transactions in any order.
VerifyStampRow ==
  LET rows == {t \in stamp : t.src = reader.src}
  IN /\ reader.step = "witness"
     /\ IF rows = {} THEN reader' = [reader EXCEPT !.step = "answered"]
        ELSE \E t \in rows : reader' = [reader EXCEPT !.step = "row", !.row = t]

\* What the store may return for the token of row t, if anything; altered bytes
\* may be anything.
TokensRead(t) == IF t.ref \in altered THEN Answers ELSE {worm[t.ref]}

\* Mutant: a token that cannot be read counts as none.
VerifyStampTokenLost ==
  LET t == reader.row
  IN /\ reader.step = "row"
     /\ IF Get(t.ref) = None
        THEN reader' = [reader EXCEPT !.step = "answered"]
        ELSE \E token \in TokensRead(t) :
               reader' = [reader EXCEPT
                 !.step = "answered", !.token = token,
                 !.verdict = VerifyToken(token, reader.src.hash, t.tsa)]

\* The token of that row, and what it proves.
VerifyStampToken ==
  LET t == reader.row
  IN /\ reader.step = "row"
     /\ IF Get(t.ref) = None
        THEN reader' = [reader EXCEPT !.step = "answered", !.verdict = "unreadable"]
        ELSE \E token \in TokensRead(t) :
               reader' = [reader EXCEPT
                 !.step = "answered", !.token = token,
                 !.verdict = VerifyToken(token, reader.src.hash, t.tsa)]

-----------------------------------------------------------------------------
(* GET /v1/spans/{id} and GET /v1/sources/{id} *)

ItemOf(p) == Agenda[p.src.hash][p.pos]

\* The first n places, in the order of the text.
FirstOf(S, n) == {k \in S : Cardinality({j \in S : j < k}) < n}

\* The public spans of the same source and agenda item, up to the cap.
DetailContext ==
  LET p == reader.span
      near == {q \in span : Citable(q) /\ q.src = p.src /\ ItemOf(q) = ItemOf(p)}
  IN /\ reader.kind = "detail" /\ reader.step = "found"
     /\ reader' = [reader EXCEPT !.step = "answered",
                                 !.context = FirstOf({q.pos : q \in near}, ContextMax)]

PublicSource(s) == Attested(s)

AskSource(s) ==
  /\ reader.step = "idle"
  /\ reader' = [ReaderIdle EXCEPT
       !.kind = "source", !.src = s,
       !.step = IF PublicSource(s) THEN "found" ELSE "answered",
       !.status = IF PublicSource(s) THEN "none" ELSE "not_found"]

SourceWitness ==
  /\ reader.kind = "source" /\ reader.step = "found"
  /\ reader' = [reader EXCEPT
       !.step = "answered",
       !.witness = IF Attested(reader.src) THEN "ok" ELSE "missing"]

-----------------------------------------------------------------------------
(* GET /v1/search, page after page *)

\* clamp_limit.
ClampLimit(limit) ==
  IF limit <= 0 THEN DefaultLimit
  ELSE IF limit < MaximumLimit THEN limit ELSE MaximumLimit

\* The client asks for the first page.
AskSearch(name, limit) ==
  /\ reader.step = "idle"
  /\ reader' = [ReaderIdle EXCEPT !.kind = "search", !.step = "count",
                                  !.name = name, !.limit = ClampLimit(limit)]

Matching ==
  {KeyOf(p) : p \in {q \in span : Citable(q) /\
                                reader.name \in {Anybody, q.mandate.who.name}}}

\* search_spans: count first,
SearchCount ==
  /\ reader.kind = "search" /\ reader.step = "count"
  /\ reader' = [reader EXCEPT !.step = "page", !.total = Cardinality(Matching)]

\* LIMIT and OFFSET cut a page from the rows in that order.
TurnPage(rank) ==
  LET all == Matching
      place(k) == Cardinality({j \in all : rank[j] < rank[k]})
      page == {k \in all : reader.offset <= place(k)
                            /\ place(k) < reader.offset + reader.limit}
  IN reader' = [reader EXCEPT
          !.step = IF page = {} THEN "answered" ELSE "count",
          !.rank = rank,
          !.seen = reader.seen \cup page,
          !.due = IF reader.offset = 0 THEN all ELSE reader.due,
          !.offset = reader.offset + Cardinality(page)]

\* Mutant: no tie-break by id; every statement may sort the day's spans anew.
SearchPageUntied == reader.step = "page" /\ \E rank \in Orders : TurnPage(rank)

\* then the rows; the client asks for the next page until one is empty.
SearchPage ==
  /\ reader.step = "page"
  /\ \E rank \in IF reader.offset = 0 THEN Orders ELSE {reader.rank} :
       TurnPage(rank)

-----------------------------------------------------------------------------
(* wortlaut status *)

\* What the statements count.
Backlog ==
  [sources                   |-> source,
   unstamped                 |-> {s \in source : ~Stamped(s)},
   unattested                |-> {s \in source : ~Attested(s)},
   unattested_capture_failed |->
     {s \in source : ~Attested(s) /\ \E q \in Latest(s) : q.outcome = "failed"},
   attested_without_spans    |-> {s \in source : Attested(s) /\ ~HasSpans(s)}]

\* Mutant: the gaps are counted the other way round.
CountedGapsFirst == <<"attested_without_spans", "unattested_capture_failed",
                      "unattested", "unstamped", "sources">>

\* The order of the statements of backlog_counts.
Counted == <<"sources", "unstamped", "unattested", "unattested_capture_failed",
             "attested_without_spans">>

AskStatus ==
  /\ reader.step = "idle"
  /\ reader' = [ReaderIdle EXCEPT !.kind = "status", !.step = "count"]

StatusCount ==
  LET n == Len(reader.counts) + 1
  IN /\ reader.kind = "status" /\ reader.step = "count"
     /\ reader' = [reader EXCEPT
          !.counts = Append(@, Cardinality(Backlog[Counted[n]])),
          !.step = IF n = Len(Counted) THEN "answered" ELSE "count"]

-----------------------------------------------------------------------------

\* The answer has been sent.
Close == reader.step = "answered" /\ reader' = ReaderIdle

ReadStep ==
  \/ \E p \in span : AskSpan("verify", p) \/ AskSpan("detail", p)
  \/ VerifyBytes \/ VerifyWitness \/ VerifyStampRow \/ VerifyStampToken
  \/ DetailContext
  \/ \E s \in source : AskSource(s)
  \/ SourceWitness
  \/ \E name \in Names \cup {Anybody}, limit \in AskedLimits :
       AskSearch(name, limit)
  \/ SearchCount \/ SearchPage
  \/ AskStatus \/ StatusCount
  \/ Close

ReadNext ==
  \/ Next /\ UNCHANGED reader
  \/ ReadStep /\ UNCHANGED vars

ReadSpec == ReadInit /\ [][ReadNext]_readVars

-----------------------------------------------------------------------------

Answered(kind) ==
  reader.kind = kind /\ reader.step = "answered" /\ reader.status # "not_found"

\* pipeline/verify.py, "nie ein falsches ok", judged by what the store returned
\* to verify: an ok is never given to an object that was altered when the client
\* asked, nor to other bytes than those the span was quoted from and the archive
\* shows; and the time-stamp is ok only if the token that was read binds those
\* bytes, under the name in the row.
ChainOfEvidence ==
  (Answered("verify") /\ reader.status = "ok") =>
    /\ reader.src.ref \notin reader.spoiled
    /\ reader.actual = reader.span.basis
    /\ \E a \in attestation :
         a.src = reader.src /\ a.snap \in cdx /\ a.snap.bytes = reader.actual
    /\ reader.verdict = "ok" =>
         reader.token = [tsa |-> reader.row.tsa, imprint |-> reader.actual]

\* _timestamp_fields, "ein zerstörter Nachweis muss als zerstörter Nachweis
\* sichtbar sein": timestamp never looks at a source with a row again, so verify
\* must not say "missing" of one that had a row when the client asked, lost or
\* altered as its token may be.  (Without the bytes verify does not look for
\* tokens at all, and the report keeps its default.)
DestroyedProofShows ==
  (Answered("verify") /\ reader.status # "worm_missing" /\ reader.stamped) =>
    reader.verdict # "missing"

\* Verify does not cry wolf: it reports a changed document only if the stored
\* bytes have changed, and a token that proves nothing only if the token has.
VerdictsFair ==
  reader.kind = "verify" =>
    /\ reader.status = "hash_mismatch" => reader.src.ref \in altered
    /\ reader.verdict \in {"mismatch", "untrusted", "malformed"} =>
         reader.row.ref \in altered

\* A quote is shown in its context: every speech of the agenda item, however
\* the request falls between the commits of reparse.
ContextWhole ==
  Answered("detail") =>
    LET p == reader.span
        item == {n \in Dated(p.src.hash) : Agenda[p.src.hash][n] = ItemOf(p)}
    IN reader.context = FirstOf(item, ContextMax)

\* A client that turns pages until one is empty sees every span that could be
\* cited when it began, although new ones push the others down meanwhile.
PagesMissNothing == Answered("search") => reader.due \subseteq reader.seen

\* The five numbers of status are taken one after another; they may describe
\* no single moment, but they never claim more work done than there is.
BacklogNotOverstated ==
  Answered("status") =>
    LET count(c) == reader.counts[CHOOSE n \in 1..Len(Counted) : Counted[n] = c]
        attestedThen == count("sources") - count("unattested")
    IN /\ count("sources") - count("unstamped")
            <= Cardinality({s \in source : Stamped(s)})
       /\ attestedThen <= Cardinality({s \in source : Attested(s)})
       /\ attestedThen - count("attested_without_spans")
            <= Cardinality({s \in source : HasSpans(s)})
=============================================================================
