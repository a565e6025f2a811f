------------------------------ MODULE Reparse ------------------------------
(***************************************************************************)
(* wortlaut reparse: pipeline/reparse.py and pipeline/spans.py under       *)
(* cli._run_reparse.  For an attested source without spans, one transaction*)
(* locks the row, looks again, and writes every span the parser makes of   *)
(* the frozen text, with the speakers and mandates they need.              *)
(***************************************************************************)
EXTENDS Ledger

CONSTANT ReparseRuns  \* the processes that run this pass

ASSUME ReparseAssumption == ReparseRuns \subseteq Runs

VARIABLE rep  \* rep[r]: the state of reparse run r

ReparseOutcome == {"reparsed", "still_empty", "no_text", "skipped_has_spans",
                   "hash_mismatch", "worm_missing", "error"}
ReparseBetween == ReparseOutcome \cup {"selected"}
\* From "locked" on the run's transaction holds the row of src.
ReparseInTx == {"locked", "spanless", "writing", "resolved"}
ReparseBusy == {"hashed"} \cup ReparseInTx

\* raw: the bytes read, drafts: what the parser made of them, i: the draft in
\* hand, who: the speaker it resolved to; newSpans, newSpeakers, newMandates:
\* the uncommitted rows of the transaction.
Rep == [pc : ReparseBetween \cup ReparseBusy \cup {"idle"},
        todo : SUBSET Source, src : Source \cup {None},
        raw : Bytes \cup {None, Garbled}, drafts : Seq(Draft),
        i : Nat \ {0}, who : Speaker \cup {None}, newSpans : SUBSET Span,
        newSpeakers : SUBSET Speaker, newMandates : SUBSET Mandate]

ReparseTypeOK == rep \in [ReparseRuns -> Rep]

\* A run that has just come to pc: the list left to do, the source in hand and
\* the bytes read for it.
ReparseFresh(pc, todo, src, raw) ==
  [pc |-> pc, todo |-> todo, src |-> src, raw |-> raw, drafts |-> <<>>, i |-> 1,
   who |-> None, newSpans |-> {}, newSpeakers |-> {}, newMandates |-> {}]
ReparseIdleRun == ReparseFresh("idle", {}, None, None)

ReparseInit == rep = [r \in ReparseRuns |-> ReparseIdleRun]

\* Mutant: the rows of the rolled-back transaction stay in the session.
ReparseSettleStale(r, outcome) == rep' = [rep EXCEPT ![r].pc = outcome]

\* The run is done with the source in hand: outcome, and what is left to do.
ReparseSettle(r, outcome) ==
  rep' = [rep EXCEPT ![r] = ReparseFresh(outcome, @.todo, @.src, None)]

\* list_sources_without_spans.
ReparsePending == {s \in source : ~HasSpans(s) /\ Attested(s)}

ReparseSelect(r) ==
  /\ rep[r].pc = "idle"
  /\ ReparsePending # {}
  /\ rep' = [rep EXCEPT ![r] =
               ReparseFresh("selected", Oldest(ReparsePending), None, None)]
  /\ UNCHANGED <<worldVars, ledgerVars>>

\* Without frozen text nothing is read; otherwise WORM read and hash check.
ReparseRead(r, s) ==
  /\ rep[r].pc \in ReparseBetween
  /\ IsFirst(s, rep[r].todo)
  /\ rep' = [rep EXCEPT ![r] =
               IF s.text THEN ReparseFresh(CheckBytes(s), @.todo \ {s}, s, Get(s.ref))
                         ELSE ReparseFresh("no_text", @.todo \ {s}, s, None)]
  /\ UNCHANGED <<worldVars, ledgerVars>>

\* Mutant: SKIP LOCKED, and a locked source counts as done by the other run.
ReparseLockSkip(r) ==
  /\ rep[r].pc = "hashed"
  /\ IF CanLock(rep[r].src)
     THEN /\ rep' = [rep EXCEPT ![r].pc = "locked"]
          /\ Hold("reparse", r, rep[r].src, "update")
     ELSE ReparseSettle(r, "skipped_has_spans") /\ UNCHANGED held
  /\ UNCHANGED <<worldVars, wormVars, tableVars>>

\* lock_source_if_spanless, first statement: SELECT ... FOR UPDATE.
ReparseLock(r) ==
  /\ rep[r].pc = "hashed"
  /\ CanLock(rep[r].src)
  /\ rep' = [rep EXCEPT ![r].pc = "locked"]
  /\ Hold("reparse", r, rep[r].src, "update")
  /\ UNCHANGED <<worldVars, wormVars, tableVars>>

\* Mutant: the recheck under the lock asks for the attestation only.
ReparseRecheckHalf(r) ==
  LET s == rep[r].src
  IN /\ rep[r].pc = "locked"
     /\ IF Attested(s)
        THEN rep' = [rep EXCEPT ![r].pc = "spanless"] /\ UNCHANGED held
        ELSE ReparseSettle(r, "skipped_has_spans") /\ Release("reparse", r)
     /\ UNCHANGED <<worldVars, wormVars, tableVars>>

\* Its other two statements, and the rollback when they refuse.
ReparseRecheck(r) ==
  LET s == rep[r].src
  IN /\ rep[r].pc = "locked"
     /\ IF Attested(s) /\ ~HasSpans(s)
        THEN rep' = [rep EXCEPT ![r].pc = "spanless"] /\ UNCHANGED held
        ELSE ReparseSettle(r, "skipped_has_spans") /\ Release("reparse", r)
     /\ UNCHANGED <<worldVars, wormVars, tableVars>>

\* write_spans: the adapter parses the frozen text.
ReparseParse(r) ==
  /\ rep[r].pc = "spanless"
  /\ rep' = [rep EXCEPT ![r] =
               [@ EXCEPT !.pc = "writing", !.i = 1,
                         !.drafts = Speeches[rep[r].src.hash]]]
  /\ UNCHANGED <<worldVars, ledgerVars>>

\* The parser raises, or finds no speech: rollback.
ReparseParseFails(r) ==
  /\ rep[r].pc = "spanless"
  /\ ReparseSettle(r, "still_empty")
  /\ Release("reparse", r)
  /\ UNCHANGED <<worldVars, wormVars, tableVars>>

CurrentDraft(r) == rep[r].drafts[rep[r].i]
Drafting(r) == rep[r].pc = "writing" /\ rep[r].i <= Len(rep[r].drafts)

\* Mutant: break for continue at a draft without a date.
ReparseSkipRest(r) ==
  /\ Drafting(r)
  /\ ~CurrentDraft(r).dated
  /\ rep' = [rep EXCEPT ![r].i = Len(rep[r].drafts) + 1]
  /\ UNCHANGED <<worldVars, ledgerVars>>

\* A draft without a date gets no span.
ReparseSkip(r) ==
  /\ Drafting(r)
  /\ ~CurrentDraft(r).dated
  /\ rep' = [rep EXCEPT ![r].i = @ + 1]
  /\ UNCHANGED <<worldVars, ledgerVars>>

\* Mutant: only the transaction's own rows are looked through.
KnownSpeakersOwn(r, name) == {k \in rep[r].newSpeakers : k.name = name}

\* resolve_or_create_speaker sees committed rows and those of its own
\* transaction; of several rows with the name it takes any.
KnownSpeakers(r, name) ==
  {k \in speaker \cup rep[r].newSpeakers : k.name = name}

\* Mutant: a cache of speakers that the runs share and fill before the commit.
ReparseResolveCached(r) ==
  LET name == CurrentDraft(r).name
      cached == {k \in speaker \cup UNION {rep[q].newSpeakers : q \in ReparseRuns} :
                   k.name = name}
      created1 == [name |-> name, origin |-> rep[r].src]
  IN /\ Drafting(r)
     /\ CurrentDraft(r).dated
     /\ \E k \in IF cached # {} THEN cached ELSE {created1} :
          rep' = [rep EXCEPT ![r] =
                    [@ EXCEPT !.pc = "resolved", !.who = k,
                              !.newSpeakers = rep[r].newSpeakers \cup ({k} \ cached)]]
     /\ UNCHANGED <<worldVars, ledgerVars>>

ReparseResolve(r) ==
  LET name == CurrentDraft(r).name
      created1 == [name |-> name, origin |-> rep[r].src]
  IN /\ Drafting(r)
     /\ CurrentDraft(r).dated
     /\ \E k \in IF KnownSpeakers(r, name) # {} THEN KnownSpeakers(r, name)
                                                ELSE {created1} :
          rep' = [rep EXCEPT ![r] =
                    [@ EXCEPT !.pc = "resolved", !.who = k,
                              !.newSpeakers = rep[r].newSpeakers \cup ({k} \ speaker)]]
     /\ UNCHANGED <<worldVars, ledgerVars>>

\* resolve_or_create_mandate, the same for (speaker, parliament, party).
KnownMandates(r) ==
  {m \in mandate \cup rep[r].newMandates :
     m.who = rep[r].who /\ m.party = CurrentDraft(r).party}

\* Mutant: insert_span commits what there is, as insert_source does.
ReparseInsertCommitting(r) ==
  LET made == [who |-> rep[r].who, party |-> CurrentDraft(r).party,
               origin |-> rep[r].src]
  IN /\ rep[r].pc = "resolved"
     /\ Attested(rep[r].src) /\ CurrentDraft(r).sane
     /\ \E m \in IF KnownMandates(r) # {} THEN KnownMandates(r) ELSE {made} :
          /\ span' = span \cup {[src |-> rep[r].src, pos |-> rep[r].i,
                                mandate |-> m, basis |-> rep[r].raw, by |-> r]}
          /\ mandate' = mandate \cup {m}
          /\ rep' = [rep EXCEPT ![r].pc = "writing", ![r].i = rep[r].i + 1]
     /\ speaker' = speaker \cup rep[r].newSpeakers
     /\ UNCHANGED <<worldVars, wormVars, source, created, stamp, attestation,
                    request, held>>

\* insert_span and init_span_state: trigger require_source_attestation and
\* chk_offsets let the row in.
ReparseInsert(r) ==
  LET s == rep[r].src
      created1 == [who |-> rep[r].who, party |-> CurrentDraft(r).party,
                   origin |-> s]
  IN /\ rep[r].pc = "resolved"
     /\ Attested(s)
     /\ CurrentDraft(r).sane
     /\ \E m \in IF KnownMandates(r) # {} THEN KnownMandates(r)
                                          ELSE {created1} :
          rep' = [rep EXCEPT ![r] =
                    [@ EXCEPT !.pc = "writing", !.i = rep[r].i + 1,
                              !.newMandates = rep[r].newMandates \cup ({m} \ mandate),
                              !.newSpans = rep[r].newSpans \cup
                                {[src |-> s, pos |-> rep[r].i, mandate |-> m,
                                  basis |-> rep[r].raw, by |-> r]}]]
     /\ UNCHANGED <<worldVars, ledgerVars>>

\* Mutant: the spans inserted before the refused one are kept.
ReparseRefusedKeep(r) ==
  /\ rep[r].pc = "resolved"
  /\ ~(Attested(rep[r].src) /\ CurrentDraft(r).sane)
  /\ span' = span \cup rep[r].newSpans
  /\ speaker' = speaker \cup rep[r].newSpeakers
  /\ mandate' = mandate \cup rep[r].newMandates
  /\ ReparseSettle(r, "error")
  /\ Release("reparse", r)
  /\ UNCHANGED <<worldVars, wormVars, source, created, stamp, attestation,
                 request>>

\* The insert is refused: exception, rollback of everything.
ReparseRefused(r) ==
  /\ rep[r].pc = "resolved"
  /\ ~(Attested(rep[r].src) /\ CurrentDraft(r).sane)
  /\ ReparseSettle(r, "error")
  /\ Release("reparse", r)
  /\ UNCHANGED <<worldVars, wormVars, tableVars>>

\* write_spans commits; without a single span the source stays empty.
ReparseCommit(r) ==
  /\ rep[r].pc = "writing"
  /\ rep[r].i > Len(rep[r].drafts)
  /\ span' = span \cup rep[r].newSpans
  /\ speaker' = speaker \cup rep[r].newSpeakers
  /\ mandate' = mandate \cup rep[r].newMandates
  /\ ReparseSettle(r, IF rep[r].newSpans = {} THEN "still_empty"
                                              ELSE "reparsed")
  /\ Release("reparse", r)
  /\ UNCHANGED <<worldVars, wormVars, source, created, stamp, attestation,
                 request>>

\* Any other exception from the lock on: rollback, outcome error.
ReparseError(r) ==
  /\ rep[r].pc \in ReparseInTx
  /\ ReparseSettle(r, "error")
  /\ Release("reparse", r)
  /\ UNCHANGED <<worldVars, wormVars, tableVars>>

ReparseFinish(r) ==
  /\ rep[r].pc \in ReparseBetween
  /\ rep[r].todo = {}
  /\ rep' = [rep EXCEPT ![r] = ReparseIdleRun]
  /\ UNCHANGED <<worldVars, ledgerVars>>

\* Mutant: the lock of a dead run stays.
ReparseAbortLocked(r) ==
  /\ rep[r].pc # "idle"
  /\ rep' = [rep EXCEPT ![r] = ReparseIdleRun]
  /\ UNCHANGED <<worldVars, ledgerVars>>

\* The process dies: the server rolls the open transaction back.
ReparseAbort(r) ==
  /\ rep[r].pc # "idle"
  /\ rep' = [rep EXCEPT ![r] = ReparseIdleRun]
  /\ Release("reparse", r)
  /\ UNCHANGED <<worldVars, wormVars, tableVars>>

ReparseStep(r) ==
  \/ \E s \in rep[r].todo : ReparseRead(r, s)
  \/ ReparseLock(r) \/ ReparseRecheck(r)
  \/ ReparseParse(r) \/ ReparseParseFails(r)
  \/ ReparseSkip(r) \/ ReparseResolve(r) \/ ReparseInsert(r)
  \/ ReparseRefused(r) \/ ReparseCommit(r) \/ ReparseFinish(r)

ReparseNext ==
  \E r \in ReparseRuns :
    ReparseSelect(r) \/ ReparseStep(r) \/ ReparseError(r)
=============================================================================
