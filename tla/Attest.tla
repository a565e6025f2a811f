------------------------------- MODULE Attest -------------------------------
(***************************************************************************)
(* wortlaut attest: pipeline/attest.py under cli._run_attest.  A source is *)
(* attested when a snapshot of its URL in the Internet Archive, fetched    *)
(* now, has the SHA-256 of its ledger row.  SHA-1 only narrows the search. *)
(***************************************************************************)
EXTENDS Ledger

CONSTANTS
  AttestRuns,    \* the processes that run this pass
  MaxCandidates  \* snapshots fetched per source and run

ASSUME AttestAssumption ==
  /\ AttestRuns \subseteq Runs
  /\ MaxCandidates \in Nat

VARIABLE att  \* att[r]: the state of attest run r

AttestOutcome == {"attested", "no_matching_snapshot", "snapshot_unavailable",
                  "bytes_mismatch", "hash_mismatch", "worm_missing", "error"}
AttestBetween == AttestOutcome \cup {"selected"}
AttestBusy == {"hashed", "trying", "matched", "flushed", "conflict", "refused"}

\* cands: candidates not fetched yet, tries: fetches so far, mismatch: one had
\* our SHA-1 and another SHA-256, snap: the candidate that matched, sha: the
\* SHA-256 of what was fetched for it.
Att == [pc : AttestBetween \cup AttestBusy \cup {"idle"}, todo : SUBSET Source,
        src : Source \cup {None}, cands : SUBSET Snapshot, tries : Nat,
        mismatch : BOOLEAN, snap : Snapshot \cup {None},
        sha : Bytes \cup {None, Garbled}]

AttestTypeOK == att \in [AttestRuns -> Att]

\* A run that has just come to pc: the list left to do and the source in hand.
AttestFresh(pc, todo, src) ==
  [pc |-> pc, todo |-> todo, src |-> src, cands |-> {}, tries |-> 0,
   mismatch |-> FALSE, snap |-> None, sha |-> None]
AttestIdleRun == AttestFresh("idle", {}, None)

AttestInit == att = [r \in AttestRuns |-> AttestIdleRun]

AttestGoto(r, label) == att' = [att EXCEPT ![r].pc = label]

\* list_sources_without_attestation.
AttestPending == {s \in source : ~Attested(s)}

AttestSelect(r) ==
  /\ att[r].pc = "idle"
  /\ AttestPending # {}
  /\ att' = [att EXCEPT ![r] =
               AttestFresh("selected", Oldest(AttestPending), None)]
  /\ UNCHANGED <<worldVars, ledgerVars>>

AttestRead(r, s) ==
  /\ att[r].pc \in AttestBetween
  /\ IsFirst(s, att[r].todo)
  /\ att' = [att EXCEPT ![r] = AttestFresh(CheckBytes(s), @.todo \ {s}, s)]
  /\ UNCHANGED <<worldVars, ledgerVars>>

\* The CDX search for the URL and the SHA-1 of the bytes.
AttestLookup(r) ==
  /\ att[r].pc = "hashed"
  /\ LET s == att[r].src
         found == Candidates(s.url, Sha1[s.hash])
     IN att' = [att EXCEPT ![r] =
                  [@ EXCEPT !.pc = IF found = {} THEN "no_matching_snapshot"
                                                 ELSE "trying",
                            !.cands = found]]
  /\ UNCHANGED <<worldVars, ledgerVars>>

\* An ArchiveError of the search or of a fetch ends the source for this run.
AttestError(r) ==
  /\ att[r].pc \in {"hashed", "trying"}
  /\ att[r].pc = "trying" => att[r].cands # {} /\ att[r].tries < MaxCandidates
  /\ AttestGoto(r, "error")
  /\ UNCHANGED <<worldVars, ledgerVars>>

\* The loop fetches candidate c; which of them is nearest to retrieved_at is
\* left open.
AttestTry(r, c) ==
  /\ att[r].pc = "trying"
  /\ att[r].tries < MaxCandidates
  /\ c \in att[r].cands

\* Mutant: SHA-1 is taken for proof; the ledger hash is written down unseen.
AttestFetchTrusting(r, c, got) ==
  /\ AttestTry(r, c)
  /\ got \in {c.bytes, Garbled}
  /\ att' = [att EXCEPT ![r] = [@ EXCEPT !.pc = "matched", !.snap = c,
                                         !.sha = att[r].src.hash]]
  /\ UNCHANGED <<worldVars, ledgerVars>>

\* The fetch returns bytes, as a rule those of the snapshot.
AttestFetch(r, c, got) ==
  /\ AttestTry(r, c)
  /\ got \in {c.bytes, Garbled}
  /\ att' = [att EXCEPT ![r] =
       IF got = att[r].src.hash
       THEN [@ EXCEPT !.pc = "matched", !.snap = c, !.sha = got]
       ELSE [@ EXCEPT !.cands = att[r].cands \ {c}, !.tries = att[r].tries + 1,
                      !.mismatch = TRUE]]
  /\ UNCHANGED <<worldVars, ledgerVars>>

\* The archive does not play back exactly this snapshot.
AttestFetchNone(r, c) ==
  /\ AttestTry(r, c)
  /\ att' = [att EXCEPT ![r] = [@ EXCEPT !.cands = att[r].cands \ {c},
                                         !.tries = att[r].tries + 1]]
  /\ UNCHANGED <<worldVars, ledgerVars>>

\* No candidate left, or none more to be fetched.
AttestGiveUp(r) ==
  /\ att[r].pc = "trying"
  /\ att[r].cands = {} \/ att[r].tries >= MaxCandidates
  /\ AttestGoto(r, IF att[r].mismatch THEN "bytes_mismatch"
                                      ELSE "snapshot_unavailable")
  /\ UNCHANGED <<worldVars, ledgerVars>>

NewAttestation(r) ==
  [src |-> att[r].src, snap |-> att[r].snap, sha |-> att[r].sha,
   by |-> r]

\* Mutant: UNIQUE (source_id, archiver) is missing.
AttestFlushUnchecked(r) ==
  LET s == att[r].src
  IN /\ att[r].pc = "matched"
     /\ CanReference(s)
     /\ AttestGoto(r, "flushed")
     /\ Hold("attest", r, s, "key share")
     /\ UNCHANGED <<worldVars, wormVars, tableVars>>

\* Mutant: a row another run has not committed yet counts as the duplicate.
AttestFlushNoWait(r) ==
  LET s == att[r].src
  IN /\ att[r].pc = "matched"
     /\ IF \/ Attested(s)
           \/ \E q \in AttestRuns \ {r} : att[q].pc = "flushed" /\ att[q].src = s
        THEN AttestGoto(r, "conflict") /\ UNCHANGED held
        ELSE /\ CanReference(s)
             /\ AttestGoto(r, "flushed")
             /\ Hold("attest", r, s, "key share")
     /\ UNCHANGED <<worldVars, wormVars, tableVars>>

\* insert_source_archive up to the flush.  The trigger refuses a hash that is
\* not the source's; then UNIQUE (source_id, archiver), whose only archiver is
\* wayback, waits for an uncommitted row and refuses a committed one.
AttestFlush(r) ==
  LET s == att[r].src
  IN /\ att[r].pc = "matched"
     /\ IF att[r].sha # s.hash
        THEN AttestGoto(r, "refused") /\ UNCHANGED held
        ELSE /\ \A q \in AttestRuns \ {r} :
                  att[q].pc = "flushed" => att[q].src # s
             /\ IF Attested(s)
                THEN AttestGoto(r, "conflict") /\ UNCHANGED held
                ELSE /\ CanReference(s)
                     /\ AttestGoto(r, "flushed")
                     /\ Hold("attest", r, s, "key share")
     /\ UNCHANGED <<worldVars, wormVars, tableVars>>

AttestCommit(r) ==
  /\ att[r].pc = "flushed"
  /\ attestation' = attestation \cup {NewAttestation(r)}
  /\ AttestGoto(r, "attested")
  /\ Release("attest", r)
  /\ UNCHANGED <<worldVars, wormVars, source, created, stamp, request, speaker,
                 mandate, span>>

\* IntegrityError: another run was faster, the result is the same.
AttestConflict(r) ==
  /\ att[r].pc = "conflict"
  /\ AttestGoto(r, "attested")
  /\ UNCHANGED <<worldVars, ledgerVars>>

AttestFinish(r) ==
  /\ att[r].pc \in AttestBetween
  /\ att[r].todo = {}
  /\ att' = [att EXCEPT ![r] = AttestIdleRun]
  /\ UNCHANGED <<worldVars, ledgerVars>>

\* The process dies, an exception ends the run, or the circuit breaker stops
\* it; an open transaction is rolled back.
AttestAbort(r) ==
  /\ att[r].pc # "idle"
  /\ att' = [att EXCEPT ![r] = AttestIdleRun]
  /\ Release("attest", r)
  /\ UNCHANGED <<worldVars, wormVars, tableVars>>

AttestStep(r) ==
  \/ \E s \in att[r].todo : AttestRead(r, s)
  \/ AttestLookup(r) \/ AttestError(r)
  \/ \E c \in att[r].cands :
       AttestFetchNone(r, c) \/ \E got \in {c.bytes, Garbled} : AttestFetch(r, c, got)
  \/ AttestGiveUp(r) \/ AttestFlush(r) \/ AttestCommit(r)
  \/ AttestConflict(r) \/ AttestFinish(r)

AttestNext ==
  \E r \in AttestRuns : AttestSelect(r) \/ AttestStep(r)
=============================================================================
