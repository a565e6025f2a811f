----------------------------- MODULE Invariants -----------------------------
(***************************************************************************)
(* The inductive invariant behind the theorems about Pipeline.  What the   *)
(* tables hold is right because of what every run has in hand: the rows it *)
(* is about to insert already satisfy the invariant of their table, and no *)
(* two runs are about to insert rows the other's insert would make wrong.  *)
(***************************************************************************)
EXTENDS Pipeline

\* A run holds a document it has fetched; from the put on, the version that
\* put returned holds it; past the flush no committed row and no other
\* uncommitted one has its hash.
IngestHand(r) ==
  LET i == ing[r]
  IN /\ i.pc # "idle" => i.doc \in Bytes /\ i.url \in Urls
     /\ i.pc \in {"put", "flushed", "conflict"} =>
          i.ref \in Versions /\ worm[i.ref] = i.doc
     /\ i.pc = "flushed" =>
          /\ ~SourceExists(i.doc)
          /\ \A q \in IngestRuns \ {r} :
               ing[q].pc = "flushed" => ing[q].doc # i.doc
     /\ i.pc \in {"inserted", "skipped_duplicate", "conflict"} =>
          SourceExists(i.doc)
     /\ i.pc # "raised"

\* The bytes in hand are those of the row once their hash was compared, and
\* the token in hand binds them.
StampHand(r) ==
  LET t == tsr[r]
  IN /\ t.todo \subseteq source
     /\ t.pc \notin {"idle", "selected"} => t.src \in source
     /\ t.pc \in StampBusy \ {"hashed"} =>
          /\ t.tsa \in Tsas /\ t.token \in Token
          /\ t.token.tsa = t.tsa /\ t.token.imprint = t.src.hash
     /\ t.pc \in {"put", "flushed"} =>
          t.ref \in Versions /\ worm[t.ref] = t.token
     /\ t.pc = "flushed" =>
          /\ \A u \in stamp : ~SameStamp(u, r)
          /\ \A q \in StampRuns \ {r} :
               tsr[q].pc = "flushed" => ~SameStamp(tsr[q], r)
     /\ t.pc \in {"stamped", "conflict"} => Stamped(t.src)

CaptureHand(r) ==
  /\ cap[r].todo \subseteq source
  /\ cap[r].pc \notin {"idle", "selected"} => cap[r].src \in source
  /\ cap[r].pc \in {"hashed", "posting"} => cap[r].tries < Attempts

\* The candidates are listed snapshots of the source's URL, and the one that
\* matched has the source's bytes.
AttestHand(r) ==
  LET a == att[r]
  IN /\ a.todo \subseteq source
     /\ a.pc \notin {"idle", "selected"} => a.src \in source
     /\ a.pc = "trying" => a.cands \subseteq {c \in cdx : c.url = a.src.url}
     /\ a.pc \in {"matched", "flushed"} =>
          /\ a.sha = a.src.hash
          /\ a.snap \in cdx
          /\ a.snap.url = a.src.url
          /\ a.snap.bytes = a.src.hash
     /\ a.pc = "flushed" =>
          /\ ~Attested(a.src)
          /\ \A q \in AttestRuns \ {r} :
               att[q].pc = "flushed" => att[q].src # a.src
     /\ a.pc \in {"attested", "conflict"} => Attested(a.src)
     /\ a.pc # "refused"

ReparseLockOf(r) ==
  [job |-> "reparse", by |-> r, src |-> rep[r].src, mode |-> "update"]

\* From the selection on the sources are attested; a transaction holds its
\* source, no other does, and once the recheck has let it through the source
\* has no span, and the uncommitted spans are those of the drafts so far.
ReparseHand(r) ==
  LET w == rep[r]
  IN /\ \A s \in w.todo : s \in source /\ Attested(s)
     /\ w.pc \notin {"idle", "selected"} => w.src \in source /\ Attested(w.src)
     /\ w.pc \in ReparseBusy => w.raw = w.src.hash
     /\ w.pc \in ReparseInTx =>
          /\ ReparseLockOf(r) \in held
          /\ \A q \in ReparseRuns \ {r} :
               rep[q].pc \in ReparseInTx => rep[q].src # w.src
     /\ w.pc \in {"spanless", "writing", "resolved"} => ~HasSpans(w.src)
     /\ w.pc \in {"writing", "resolved"} => w.drafts = Speeches[w.src.hash]
     /\ w.pc = "resolved" =>
          w.i <= Len(w.drafts) /\ w.drafts[w.i].dated /\ w.who \in Speaker
     /\ w.newSpans # {} => w.pc \in {"writing", "resolved"}
     /\ \A p \in w.newSpans : p.src = w.src /\ p.basis = w.raw /\ p.pos < w.i
     /\ w.pc \in {"writing", "resolved"} =>
          /\ {p.pos : p \in w.newSpans} = {n \in Dated(w.src.hash) : n < w.i}
          /\ \A p, q \in w.newSpans : p.pos = q.pos => p = q

\* Every row hangs from a row of source, and source rows were numbered in
\* the order of their creation.
RowsRooted ==
  /\ \A s \in source : s.id <= created
  /\ \A t \in stamp : t.src \in source
  /\ \A a \in attestation : a.src \in source
  /\ \A p \in span : p.src \in source

\* The tables are right (the properties of Pipeline) and hang together.
Tables ==
  /\ WorldTypeOK /\ LedgerTypeOK
  /\ RowsRooted
  /\ UniqueHash /\ RefsResolve
  /\ TokensBind /\ OneTokenPerTsa
  /\ AttestationsProved /\ OneAttestation
  /\ SpansAttested /\ SpansVerbatim /\ SpansComplete

\* What the runs of each pass are about to add keeps them so.
IngestInv  == IngestTypeOK /\ \A r \in IngestRuns : IngestHand(r)
StampInv   == TimestampTypeOK /\ \A r \in StampRuns : StampHand(r)
CaptureInv == CaptureTypeOK /\ \A r \in CaptureRuns : CaptureHand(r)
AttestInv  == AttestTypeOK /\ \A r \in AttestRuns : AttestHand(r)
ReparseInv == ReparseTypeOK /\ \A r \in ReparseRuns : ReparseHand(r)

IInv ==
  /\ Tables
  /\ IngestInv /\ StampInv /\ CaptureInv /\ AttestInv /\ ReparseInv
  /\ crashes \in Nat
=============================================================================
