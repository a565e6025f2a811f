------------------------------ MODULE Pipeline ------------------------------
(***************************************************************************)
(* The whole ledger: every pass, any number of runs of each at the same    *)
(* time, over the shared tables and the WORM store, in a world that        *)
(* revises documents and archives pages when it likes.  A cfg leaves a     *)
(* pass out by giving it no runs.                                          *)
(***************************************************************************)
EXTENDS Ingest, Timestamp, Capture, Attest, Reparse

CONSTANT MaxCrashes  \* bound: runs that die or are broken off

ASSUME PipelineAssumption == MaxCrashes \in Nat

VARIABLE crashes

runVars == <<ing, tsr, captureVars, att, rep>>
vars == <<worldVars, ledgerVars, runVars, crashes>>

TypeOK ==
  /\ WorldTypeOK /\ LedgerTypeOK
  /\ IngestTypeOK /\ TimestampTypeOK /\ CaptureTypeOK
  /\ AttestTypeOK /\ ReparseTypeOK
  /\ crashes \in Nat

Init ==
  /\ LedgerInit
  /\ IngestInit /\ TimestampInit /\ CaptureInit /\ AttestInit /\ ReparseInit
  /\ crashes = 0

IngestPass    == IngestNext /\ UNCHANGED <<tsr, captureVars, att, rep>>
TimestampPass == TimestampNext /\ UNCHANGED <<ing, captureVars, att, rep>>
CapturePass   == CaptureNext /\ UNCHANGED <<ing, tsr, att, rep>>
AttestPass    == AttestNext /\ UNCHANGED <<ing, tsr, captureVars, rep>>
ReparsePass   == ReparseNext /\ UNCHANGED <<ing, tsr, captureVars, att>>

Pass == \/ IngestPass \/ TimestampPass \/ CapturePass
        \/ AttestPass \/ ReparsePass

Abort ==
  \/ /\ \E r \in IngestRuns : IngestAbort(r)
     /\ UNCHANGED <<tsr, captureVars, att, rep>>
  \/ /\ \E r \in StampRuns : StampAbort(r)
     /\ UNCHANGED <<ing, captureVars, att, rep>>
  \/ /\ \E r \in CaptureRuns : CaptureAbort(r)
     /\ UNCHANGED <<ing, tsr, att, rep>>
  \/ /\ \E r \in AttestRuns : AttestAbort(r)
     /\ UNCHANGED <<ing, tsr, captureVars, rep>>
  \/ /\ \E r \in ReparseRuns : ReparseAbort(r)
     /\ UNCHANGED <<ing, tsr, captureVars, att>>

Crash ==
  /\ crashes < MaxCrashes
  /\ Abort
  /\ crashes' = crashes + 1

Surroundings ==
  \/ WorldNext /\ UNCHANGED ledgerVars
  \/ WormNext /\ UNCHANGED worldVars

Next ==
  \/ Pass /\ UNCHANGED crashes
  \/ Crash
  \/ Surroundings /\ UNCHANGED <<runVars, crashes>>

Spec == Init /\ [][Next]_vars

-----------------------------------------------------------------------------
(* The rows *)

\* A document is in the ledger once, however many runs fetch it at the same
\* time (UNIQUE content_hash, source_exists before and after the insert), and
\* the position in creation order is its own.
UniqueHash ==
  \A s, t \in source : (s.hash = t.hash \/ s.id = t.id) => s = t

\* raw_bytes_ref of a source points at a WORM version that was put before the
\* row and holds the bytes the row's content_hash is the hash of; no crash and
\* no lost race leaves a dangling reference.
RefsResolve ==
  \A s \in source : s.ref \in Versions /\ worm[s.ref] = s.hash

\* A time-stamp row points at a token in the WORM store, signed by the TSA the
\* row names over the content_hash of its source, even when the WORM store
\* returns altered bytes while runs stamp.
TokensBind ==
  \A t \in stamp :
    /\ t.ref \in Versions
    /\ worm[t.ref] = [tsa |-> t.tsa, imprint |-> t.src.hash]

\* UNIQUE (source_id, tsa_name) under concurrent timestamp runs.
OneTokenPerTsa ==
  \A t, u \in stamp : (t.src = u.src /\ t.tsa = u.tsa) => t = u

\* An attestation is true: the archive's index lists that snapshot, at the
\* source's own URL, and its bytes are the source's bytes.  Neither a SHA-1
\* collision nor a snapshot of a revised document nor a garbled download can
\* make one.
AttestationsProved ==
  \A a \in attestation :
    /\ a.sha = a.src.hash
    /\ a.snap \in cdx
    /\ a.snap.url = a.src.url
    /\ a.snap.bytes = a.src.hash

\* UNIQUE (source_id, archiver) under concurrent attest runs.
OneAttestation ==
  \A a, b \in attestation : a.src = b.src => a = b

\* No span without an attested source (ADR-0009): what KeepsPromise says of a
\* quote when it is taken, said of the rows.
SpansAttested == \A p \in span : Attested(p.src)

SpansOf(s) == {p \in span : p.src = s}
Dated(b) == {i \in 1..Len(Speeches[b]) : Speeches[b][i].dated}

\* Either a source has no span, or it has exactly one for every dated draft of
\* its document: a crash leaves none behind, two runs write none twice.
SpansComplete ==
  \A s \in source :
    \/ SpansOf(s) = {}
    \/ /\ {p.pos : p \in SpansOf(s)} = Dated(s.hash)
       /\ \A p, q \in SpansOf(s) : p.pos = q.pos => p = q

\* Spans were parsed from the bytes whose hash the ledger holds.
SpansVerbatim == \A p \in span : p.basis = p.src.hash

\* The speaker a span names, and the mandate, exist: no reference to a row
\* that was rolled back.
SpeakersExist ==
  /\ \A p \in span : p.mandate \in mandate
  /\ \A m \in mandate : m.who \in speaker

\* store/spans.py, "get-or-create ist idempotent per exaktem full_name": a name
\* has one speaker, and a speaker one mandate per party.
UniqueSpeaker ==
  /\ \A k, l \in speaker : k.name = l.name => k = l
  /\ \A m, n \in mandate : (m.who = n.who /\ m.party = n.party) => m = n

OrdersOf(s) == {o \in orders : o.src = s}
AtWork(s) == {r \in CaptureRuns : cap[r].src = s /\ cap[r].pc \in CaptureBusy}

\* The load on Save Page Now is bounded: every row of capture_request, every
\* run at work and every run that died stand for at most Attempts orders.
OrdersBounded ==
  \A s \in source :
    Cardinality(OrdersOf(s)) <=
      Attempts * (Cardinality(Requests(s)) + Cardinality(AtWork(s)) + crashes)

\* models.py, CaptureRequest: "eine Zeile pro tatsächlich abgesetztem Auftrag".
\* Once no run works on a source, there are as many rows as orders.
OneRowPerOrder ==
  \A s \in source :
    AtWork(s) = {} => Cardinality(OrdersOf(s)) <= Cardinality(Requests(s))

\* A captured row is backed by an order of the run that wrote it, placed no
\* later than the row, and the archive holds a snapshot of the source's URL.
CapturedBacked ==
  \A q \in request : q.outcome = "captured" =>
    /\ \E o \in OrdersOf(q.src) : o.by = q.by /\ o.at <= q.at
    /\ \E c \in snaps : c.url = q.src.url

\* t falls into the cool-down of p whatever the host's clock says.
Cooling(p, t) == t + MaxSkew <= p.at + Cooldown(p.outcome)

\* The cool-down is decided when a run selects, from the rows committed so far:
\* runs that overlap may all order, but none comes back to a source before the
\* cool-down of a row at least as late as its own is over.  (Of a later row,
\* because only the last one counts: a failed row ends the longer cool-down of
\* the captured one before it.)
CooldownRespected ==
  \A p, q \in request :
    (p.src = q.src /\ p.by = q.by /\ p # q /\ p.at <= q.at) =>
      \E f \in Requests(p.src) \ {q} : p.at <= f.at /\ ~Cooling(f, q.at)

\* How far run r has come with its call of the archiver.
ArchiveCalls(r) == INSTANCE ArchiveCall WITH
  stage <- CASE cap[r].pc \in {"posting", "ordered", "executed"} -> cap[r].pc
             [] cap[r].pc = "settled" ->
                  IF cap[r].result = "captured" THEN "archived" ELSE "failed"
             [] OTHER -> "none",
  tries <- IF cap[r].pc \in {"posting", "ordered", "executed", "settled"}
           THEN cap[r].tries ELSE 0

\* The passes assume no more of the archiver than it promises: module Command
\* shows that the polling client keeps the same promise.
AssumesCall ==
  /\ \A r \in CaptureRuns : ArchiveCalls(r)!Init
  /\ [][\A r \in CaptureRuns :
          [ArchiveCalls(r)!Next]_(ArchiveCalls(r)!callVars)]_vars

\* Nothing but growth: the passes together do to each document only what
\* module Evidence allows, in its order, each once, spans all at once.
Promise == INSTANCE Evidence WITH
  Documents   <- Bytes,
  Authorities <- Tsas,
  Positions   <- [b \in Bytes |-> Dated(b)],
  listed      <- {c.bytes : c \in cdx},
  secured     <- {s.hash : s \in source},
  stamps      <- [b \in Bytes |-> {t.tsa : t \in {u \in stamp : u.src.hash = b}}],
  attested    <- {a.src.hash : a \in attestation},
  quotes      <- [b \in Bytes |-> {p \in span : p.src.hash = b}]

\* The pipeline implements that promise, crashes, races and faults included.
KeepsPromise == Promise!EvidenceSpec

-----------------------------------------------------------------------------
(* What the runs report *)

\* "inserted" and "skipped_duplicate" both mean the document is in the ledger,
\* and the IntegrityError of a lost race never escapes as an error.
IngestReportsTrue ==
  \A r \in IngestRuns :
    /\ ing[r].pc \in {"inserted", "skipped_duplicate"} => SourceExists(ing[r].doc)
    /\ ing[r].pc # "raised"

\* "stamped" means there is a row, own or another run's; the alarm
\* "hash_mismatch" is only raised for an object that really changed.
StampReportsTrue ==
  \A r \in StampRuns :
    /\ tsr[r].pc = "stamped" => Stamped(tsr[r].src)
    /\ tsr[r].pc = "hash_mismatch" => tsr[r].src.ref \in altered

\* The same for attest, and the hash trigger on source_archive never has to
\* refuse a row.
AttestReportsTrue ==
  \A r \in AttestRuns :
    /\ att[r].pc = "attested" => Attested(att[r].src)
    /\ att[r].pc = "hash_mismatch" => att[r].src.ref \in altered
    /\ att[r].pc # "refused"

\* "reparsed" and "skipped_has_spans" both mean that the source has spans.
ReparseReportsTrue ==
  \A r \in ReparseRuns :
    /\ rep[r].pc \in {"reparsed", "skipped_has_spans"} => HasSpans(rep[r].src)
    /\ rep[r].pc = "hash_mismatch" => rep[r].src.ref \in altered
=============================================================================
