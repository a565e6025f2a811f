------------------------------- MODULE Ingest -------------------------------
(***************************************************************************)
(* wortlaut ingest: pipeline/ingest.py under cli._run.  A run fetches one  *)
(* discovered document after another and secures it: hash, dedup, WORM,    *)
(* source row.  Several runs may be under way; a run may die at any await. *)
(***************************************************************************)
EXTENDS Ledger

CONSTANT IngestRuns  \* the processes that run this pass

ASSUME IngestAssumption == IngestRuns \subseteq Runs

VARIABLE ing  \* ing[r]: the state of ingest run r

IngestIdle == {"idle", "inserted", "skipped_duplicate"}
IngestBusy == {"fetched", "fresh", "put", "flushed", "conflict", "raised"}

\* doc: the fetched bytes, text: the result of normalize, ref: what put returned.
Ing == [pc : IngestIdle \cup IngestBusy, doc : Bytes \cup {None},
        url : Urls \cup {None}, ref : Nat, text : BOOLEAN]

IngestTypeOK == ing \in [IngestRuns -> Ing]

IngestInit ==
  ing = [r \in IngestRuns |-> [pc |-> "idle", doc |-> None, url |-> None,
                         ref |-> 0, text |-> FALSE]]

IngestGoto(r, label) == ing' = [ing EXCEPT ![r].pc = label]

\* The row run r is inserting.
NewSource(r) == [id |-> created + 1, hash |-> ing[r].doc, url |-> ing[r].url,
                 ref |-> ing[r].ref, text |-> ing[r].text]

\* The loop takes the next discovered reference (discover may deliver one
\* twice) and the adapter downloads what the site serves now.
IngestFetch(r, u) ==
  /\ ing[r].pc \in IngestIdle
  /\ ing' = [ing EXCEPT ![r] = [pc |-> "fetched", doc |-> live[u], url |-> u,
                                ref |-> 0, text |-> FALSE]]
  /\ UNCHANGED <<worldVars, ledgerVars>>

\* The dedup check before anything is stored.
IngestDedup(r) ==
  /\ ing[r].pc = "fetched"
  /\ IngestGoto(r, IF SourceExists(ing[r].doc) THEN "skipped_duplicate"
                                               ELSE "fresh")
  /\ UNCHANGED <<worldVars, ledgerVars>>

\* The raw bytes go into the WORM store; then normalize, whose failure
\* leaves the text NULL.
IngestPut(r) ==
  /\ ing[r].pc = "fresh"
  /\ Put(ing[r].doc)
  /\ \E text \in BOOLEAN :
       ing' = [ing EXCEPT ![r] = [@ EXCEPT !.pc = "put", !.ref = NewRef,
                                           !.text = text]]
  /\ UNCHANGED <<worldVars, tableVars, held>>

\* Mutant: content_hash has no unique index.
IngestFlushUnchecked(r) ==
  /\ ing[r].pc = "put"
  /\ IngestGoto(r, "flushed")
  /\ UNCHANGED <<worldVars, ledgerVars>>

\* Mutant: the lost race is only expected from a run that has committed.
IngestFlushNoWait(r) ==
  /\ ing[r].pc = "put"
  /\ IngestGoto(r, IF \E q \in IngestRuns \ {r} :
                        ing[q].pc = "flushed" /\ ing[q].doc = ing[r].doc
                   THEN "conflict"
                   ELSE IF SourceExists(ing[r].doc) THEN "conflict" ELSE "flushed")
  /\ UNCHANGED <<worldVars, ledgerVars>>

\* insert_source up to the flush: the unique index on content_hash waits for
\* an uncommitted row with the same hash and refuses a committed one.
IngestFlush(r) ==
  /\ ing[r].pc = "put"
  /\ \A q \in IngestRuns \ {r} : ing[q].pc = "flushed" => ing[q].doc # ing[r].doc
  /\ IngestGoto(r, IF SourceExists(ing[r].doc) THEN "conflict" ELSE "flushed")
  /\ UNCHANGED <<worldVars, ledgerVars>>

\* insert_source's commit: the row becomes visible.
IngestCommit(r) ==
  /\ ing[r].pc = "flushed"
  /\ source' = source \cup {NewSource(r)}
  /\ created' = created + 1
  /\ IngestGoto(r, "inserted")
  /\ UNCHANGED <<worldVars, wormVars, stamp, attestation, request, speaker,
                 mandate, span, held>>

\* IntegrityError: roll back and look again; an error the duplicate does not
\* explain is raised and ends the run.
IngestConflict(r) ==
  /\ ing[r].pc = "conflict"
  /\ IngestGoto(r, IF SourceExists(ing[r].doc) THEN "skipped_duplicate"
                                               ELSE "raised")
  /\ UNCHANGED <<worldVars, ledgerVars>>

\* The process dies, or the loop leaves on an exception; an open transaction
\* is rolled back.  The next start of the command is a new run.
IngestAbort(r) ==
  /\ ing[r].pc \in IngestBusy
  /\ IngestGoto(r, "idle")
  /\ UNCHANGED <<worldVars, ledgerVars>>

IngestStep(r) ==
  \/ IngestDedup(r) \/ IngestPut(r) \/ IngestFlush(r)
  \/ IngestCommit(r) \/ IngestConflict(r)

IngestNext ==
  \E r \in IngestRuns :
    \/ \E u \in Urls : IngestFetch(r, u)
    \/ IngestStep(r)
=============================================================================
