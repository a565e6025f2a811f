----------------------------- MODULE ReparseProofs -----------------------------
(***************************************************************************)
(* The steps of reparse keep the inductive invariant.  The weight is on    *)
(* two of them: the insert, which extends the uncommitted spans by the     *)
(* draft in hand, and the commit, which turns them into rows.              *)
(***************************************************************************)
EXTENDS SecureProofs

\* What a run has in hand, with its types.
LEMMA ReparseInHand ==
  ASSUME Tables, ReparseInv, NEW r \in ReparseRuns
  PROVE  /\ rep[r] \in Rep /\ ReparseHand(r) /\ r \in Runs
         /\ source \subseteq Source /\ held \subseteq HeldLock
         /\ rep[r].todo \subseteq source /\ rep[r].todo \subseteq Source
         /\ \A s \in rep[r].todo : Attested(s)
         /\ rep[r].pc \in ReparseBusy =>
              /\ rep[r].src \in source /\ rep[r].src \in Source
              /\ rep[r].src.hash \in Bytes /\ Attested(rep[r].src)
              /\ rep[r].raw = rep[r].src.hash
<1>1. rep[r] \in Rep /\ ReparseHand(r)
  BY DEF ReparseInv, ReparseTypeOK
<1>2. source \subseteq Source /\ held \subseteq HeldLock
  BY DEF Tables, LedgerTypeOK
<1>3. rep[r].todo \subseteq source /\ \A s \in rep[r].todo : Attested(s)
  BY <1>1 DEF ReparseHand
<1>4. rep[r].pc \in ReparseBusy =>
        /\ rep[r].src \in source /\ Attested(rep[r].src)
        /\ rep[r].raw = rep[r].src.hash
  BY <1>1 DEF ReparseHand, ReparseBusy, ReparseInTx
<1> QED BY <1>1, <1>2, <1>3, <1>4, ReparseAssumption DEF Source

\* A step that writes no row and takes no lock from another run: only the run
\* that takes it is disturbed.
LEMMA ReparseLocal ==
  ASSUME Tables, ReparseInv, held' \subseteq HeldLock,
         UNCHANGED <<worldVars, wormVars, tableVars>>,
         NEW r \in ReparseRuns,
         \A h \in held : (h.job = "reparse" /\ h.by # r) => h \in held',
         NEW new \in Rep, rep' = [rep EXCEPT ![r] = new],
         ReparseHand(r)'
  PROVE  Tables' /\ ReparseInv'
<1>1. Tables'
  BY TablesFrame
<1>2. /\ ReparseTypeOK' /\ rep'[r] = new
      /\ \A q \in ReparseRuns \ {r} : rep'[q] = rep[q]
  BY DEF ReparseInv, ReparseTypeOK
<1>3. \A s : (Attested(s)' <=> Attested(s)) /\ (HasSpans(s)' <=> HasSpans(s))
  BY DEF Attested, HasSpans, tableVars
<1>4. ASSUME NEW q \in ReparseRuns, q # r PROVE ReparseHand(q)'
  <2>1. rep'[q] = rep[q] /\ ReparseHand(q) /\ UNCHANGED source
    BY <1>2, <1>4 DEF ReparseInv, tableVars
  <2>2. ReparseLockOf(q) \in held => ReparseLockOf(q)' \in held'
    BY <1>4, <2>1 DEF ReparseLockOf
  <2>3. ASSUME NEW p \in ReparseRuns \ {q}, rep'[q].pc \in ReparseInTx,
               rep'[p].pc \in ReparseInTx
        PROVE  rep'[p].src # rep'[q].src
    <3>1. CASE p = r
      BY <1>4, <2>3, <3>1 DEF ReparseHand
    <3>2. CASE p # r
      <4>1. rep'[p] = rep[p]
        BY <1>2, <3>2
      <4> QED BY <2>1, <2>3, <4>1 DEF ReparseHand
    <3> QED BY <3>1, <3>2
  <2> QED BY <1>3, <2>1, <2>2, <2>3 DEF ReparseHand
<1> QED BY <1>1, <1>2, <1>4 DEF ReparseInv

LEMMA ReparseFreshTyped ==
  ASSUME NEW pc \in ReparseBetween \cup ReparseBusy \cup {"idle"},
         NEW todo \in SUBSET Source, NEW src \in Source \cup {None},
         NEW raw \in Bytes \cup {None, Garbled}
  PROVE  ReparseFresh(pc, todo, src, raw) \in Rep
<1>1. <<>> \in Seq(Draft) /\ 1 \in Nat \ {0}
  OBVIOUS
<1> QED BY <1>1 DEF Rep, ReparseFresh

\* The steps that leave no transaction open: selection, read, every refusal,
\* the end of a run.
LEMMA ReparseFreshInv ==
  ASSUME Tables, ReparseInv, held' \subseteq HeldLock,
         UNCHANGED <<worldVars, wormVars, tableVars>>,
         NEW r \in ReparseRuns,
         \A h \in held : (h.job = "reparse" /\ h.by # r) => h \in held',
         NEW pc \in ReparseBetween \cup {"idle", "hashed"},
         NEW todo \in SUBSET source, \A s \in todo : Attested(s),
         NEW src \in Source \cup {None}, NEW raw \in Bytes \cup {None, Garbled},
         pc \notin {"idle", "selected"} => src \in source /\ Attested(src),
         pc = "hashed" => raw = src.hash,
         rep' = [rep EXCEPT ![r] = ReparseFresh(pc, todo, src, raw)]
  PROVE  Tables' /\ ReparseInv'
<1> DEFINE new == ReparseFresh(pc, todo, src, raw)
<1>1. todo \in SUBSET Source
  BY DEF Tables, LedgerTypeOK
<1>2. new \in Rep
  BY <1>1, ReparseFreshTyped DEF ReparseBusy
<1>3. /\ new.pc = pc /\ new.todo = todo /\ new.src = src /\ new.raw = raw
      /\ new.newSpans = {}
  BY DEF ReparseFresh
<1>4. rep' = [rep EXCEPT ![r] = new]
  OBVIOUS
<1> HIDE DEF new
<1>5. rep'[r] = new /\ UNCHANGED <<source, attestation>>
  BY <1>4 DEF ReparseInv, ReparseTypeOK, tableVars
<1>6. /\ pc \notin ReparseInTx
      /\ pc \notin {"spanless", "writing", "resolved"}
      /\ pc \in ReparseBusy => pc = "hashed"
  BY DEF ReparseInTx, ReparseBusy, ReparseBetween, ReparseOutcome
<1>7. ReparseHand(r)'
  BY <1>3, <1>5, <1>6 DEF ReparseHand, Attested
<1> QED BY <1>2, <1>4, <1>7, ReparseLocal

LEMMA ReparseSelectInv ==
  ASSUME Tables, ReparseInv, NEW r \in ReparseRuns, ReparseSelect(r)
  PROVE  Tables' /\ ReparseInv'
<1>1. /\ Oldest(ReparsePending) \in SUBSET source
      /\ \A s \in Oldest(ReparsePending) : Attested(s)
  BY OldestSubset DEF ReparsePending
<1>2. /\ UNCHANGED held /\ held \subseteq HeldLock
      /\ UNCHANGED <<worldVars, wormVars, tableVars>>
  BY ReparseInHand DEF ReparseSelect, ledgerVars
<1>3. rep' = [rep EXCEPT ![r] =
               ReparseFresh("selected", Oldest(ReparsePending), None, None)]
  BY DEF ReparseSelect
<1>4. "selected" \in ReparseBetween
  BY DEF ReparseBetween
<1> QED BY <1>1, <1>2, <1>3, <1>4, ReparseFreshInv

LEMMA ReparseReadInv ==
  ASSUME Tables, ReparseInv, NEW r \in ReparseRuns, NEW s \in rep[r].todo,
         ReparseRead(r, s)
  PROVE  Tables' /\ ReparseInv'
<1>1. /\ s \in source /\ s \in Source /\ Attested(s)
      /\ rep[r].todo \ {s} \in SUBSET source
      /\ \A t \in rep[r].todo \ {s} : Attested(t)
      /\ held \subseteq HeldLock
  BY ReparseInHand
<1>2. /\ Get(s.ref) \in Bytes \cup {None, Garbled}
      /\ CheckBytes(s) \in {"hashed", "hash_mismatch", "worm_missing"}
      /\ CheckBytes(s) = "hashed" => Get(s.ref) = s.hash
  BY <1>1, ReadLemma
<1>3. UNCHANGED held /\ UNCHANGED <<worldVars, wormVars, tableVars>>
  BY DEF ReparseRead, ledgerVars
<1>4. CASE s.text
  <2>1. rep' = [rep EXCEPT ![r] = ReparseFresh(CheckBytes(s), rep[r].todo \ {s},
                                               s, Get(s.ref))]
    BY <1>4 DEF ReparseRead
  <2>2. CheckBytes(s) \in ReparseBetween \cup {"idle", "hashed"}
    BY <1>2 DEF ReparseBetween, ReparseOutcome
  <2> QED BY <1>1, <1>2, <1>3, <2>1, <2>2, ReparseFreshInv
<1>5. CASE ~s.text
  <2>1. rep' = [rep EXCEPT ![r] = ReparseFresh("no_text", rep[r].todo \ {s}, s, None)]
    BY <1>5 DEF ReparseRead
  <2>2. "no_text" \in ReparseBetween
    BY DEF ReparseBetween, ReparseOutcome
  <2> QED BY <1>1, <1>3, <2>1, <2>2, ReparseFreshInv
<1> QED BY <1>4, <1>5

\* Giving the source in hand up: a rollback, or nothing found.
LEMMA ReparseSettleInv ==
  ASSUME Tables, ReparseInv, NEW r \in ReparseRuns,
         rep[r].pc \in ReparseInTx, NEW outcome \in ReparseOutcome,
         ReparseSettle(r, outcome), Release("reparse", r),
         UNCHANGED <<worldVars, wormVars, tableVars>>
  PROVE  Tables' /\ ReparseInv'
<1>1. /\ held' \subseteq HeldLock
      /\ \A h \in held : (h.job = "reparse" /\ h.by # r) => h \in held'
  BY ReparseInHand DEF Release
<1>2. /\ rep[r].todo \in SUBSET source /\ \A s \in rep[r].todo : Attested(s)
      /\ rep[r].src \in source /\ rep[r].src \in Source /\ Attested(rep[r].src)
  BY ReparseInHand DEF ReparseBusy
<1>3. rep' = [rep EXCEPT ![r] = ReparseFresh(outcome, rep[r].todo, rep[r].src, None)]
  BY DEF ReparseSettle
<1>4. outcome \in ReparseBetween /\ outcome # "hashed"
  BY DEF ReparseBetween, ReparseOutcome
<1> QED BY <1>1, <1>2, <1>3, <1>4, ReparseFreshInv

LEMMA ReparseGiveUpInv ==
  ASSUME Tables, ReparseInv, NEW r \in ReparseRuns,
         ReparseParseFails(r) \/ ReparseRefused(r) \/ ReparseError(r)
  PROVE  Tables' /\ ReparseInv'
<1>1. /\ rep[r].pc \in ReparseInTx
      /\ ReparseSettle(r, "still_empty") \/ ReparseSettle(r, "error")
      /\ Release("reparse", r)
      /\ UNCHANGED <<worldVars, wormVars, tableVars>>
  BY DEF ReparseParseFails, ReparseRefused, ReparseError, ReparseInTx
<1>2. "still_empty" \in ReparseOutcome /\ "error" \in ReparseOutcome
  BY DEF ReparseOutcome
<1> QED BY <1>1, <1>2, ReparseSettleInv

LEMMA ReparseIdleInv ==
  ASSUME Tables, ReparseInv, NEW r \in ReparseRuns,
         ReparseFinish(r) \/ ReparseAbort(r)
  PROVE  Tables' /\ ReparseInv'
<1>1. /\ held' \subseteq HeldLock
      /\ \A h \in held : (h.job = "reparse" /\ h.by # r) => h \in held'
      /\ UNCHANGED <<worldVars, wormVars, tableVars>>
  BY ReparseInHand DEF ReparseFinish, ReparseAbort, Release, ledgerVars
<1>2. rep' = [rep EXCEPT ![r] = ReparseFresh("idle", {}, None, None)]
  BY DEF ReparseFinish, ReparseAbort, ReparseIdleRun
<1> QED BY <1>1, <1>2, ReparseFreshInv

-----------------------------------------------------------------------------
(* The transaction *)

\* The lock makes a source one run's own: whoever else is in a transaction
\* holds a lock on another row.
LEMMA ReparseLockInv ==
  ASSUME Tables, ReparseInv, NEW r \in ReparseRuns, ReparseLock(r)
  PROVE  Tables' /\ ReparseInv'
<1> DEFINE new == [rep[r] EXCEPT !.pc = "locked"]
<1>1. /\ rep[r] \in Rep /\ ReparseHand(r) /\ r \in Runs /\ held \subseteq HeldLock
      /\ rep[r].src \in source /\ rep[r].src \in Source /\ Attested(rep[r].src)
      /\ rep[r].raw = rep[r].src.hash /\ rep[r].pc = "hashed"
  BY ReparseInHand DEF ReparseLock, ReparseBusy
<1>2. rep' = [rep EXCEPT ![r] = new]
  BY DEF ReparseLock
<1>3. /\ new \in Rep /\ new.pc = "locked" /\ new.todo = rep[r].todo
      /\ new.src = rep[r].src /\ new.raw = rep[r].raw
      /\ new.newSpans = rep[r].newSpans /\ new.i = rep[r].i
  BY <1>1 DEF Rep, ReparseBusy, ReparseInTx
<1> HIDE DEF new
<1>4. /\ rep'[r] = new
      /\ \A q \in ReparseRuns \ {r} : rep'[q] = rep[q]
  BY <1>2 DEF ReparseInv, ReparseTypeOK
<1>5. UNCHANGED <<worldVars, wormVars, tableVars>>
  BY DEF ReparseLock
<1>6. /\ held' \subseteq HeldLock
      /\ \A h \in held : h \in held'
      /\ ReparseLockOf(r) \in held'
  <2>1. Hold("reparse", r, rep[r].src, "update")
    BY DEF ReparseLock
  <2>2. held' \subseteq HeldLock
    BY <1>1, <2>1, HoldTyped
  <2> QED BY <2>1, <2>2 DEF Hold, ReparseLockOf
<1>7. ReparseLockOf(r)' \in held'
  BY <1>3, <1>4, <1>6 DEF ReparseLockOf
<1>8. \A q \in ReparseRuns \ {r} :
        rep[q].pc \in ReparseInTx => rep[q].src # rep[r].src
  <2> SUFFICES ASSUME NEW q \in ReparseRuns \ {r}, rep[q].pc \in ReparseInTx
               PROVE  rep[q].src # rep[r].src
    OBVIOUS
  <2>1. ReparseLockOf(q) \in held /\ ReparseLockOf(q).src = rep[q].src
    BY DEF ReparseInv, ReparseHand, ReparseLockOf
  <2>2. CanLock(rep[r].src)
    BY DEF ReparseLock
  <2> QED BY <2>1, <2>2 DEF CanLock
<1>9. new.newSpans = {}
  BY <1>1, <1>3 DEF ReparseHand
<1>10. ReparseHand(r)'
  BY <1>1, <1>3, <1>4, <1>5, <1>7, <1>8, <1>9
     DEF ReparseHand, Attested, tableVars
<1> QED BY <1>2, <1>3, <1>5, <1>6, <1>10, ReparseLocal

\* A step inside the transaction that writes nothing and keeps the lock.
LEMMA ReparseInside ==
  ASSUME Tables, ReparseInv, UNCHANGED <<worldVars, ledgerVars>>,
         NEW r \in ReparseRuns, rep[r].pc \in ReparseInTx,
         NEW new \in Rep, rep' = [rep EXCEPT ![r] = new],
         new.pc \in {"spanless", "writing", "resolved"},
         new.todo = rep[r].todo, new.src = rep[r].src, new.raw = rep[r].raw,
         ~HasSpans(rep[r].src),
         new.pc \in {"writing", "resolved"} =>
           new.drafts = Speeches[new.src.hash],
         new.pc = "resolved" =>
           /\ new.i <= Len(new.drafts) /\ new.drafts[new.i].dated
           /\ new.who \in Speaker,
         new.newSpans # {} => new.pc # "spanless",
         \A p \in new.newSpans :
           p.src = new.src /\ p.basis = new.raw /\ p.pos < new.i,
         new.pc \in {"writing", "resolved"} =>
           /\ {p.pos : p \in new.newSpans} = {n \in Dated(new.src.hash) : n < new.i}
           /\ \A p, q \in new.newSpans : p.pos = q.pos => p = q
  PROVE  Tables' /\ ReparseInv'
<1>1. /\ ReparseHand(r) /\ held \subseteq HeldLock
      /\ rep[r].src \in source /\ Attested(rep[r].src)
      /\ rep[r].raw = rep[r].src.hash
  BY ReparseInHand DEF ReparseBusy
<1>2. /\ rep'[r] = new
      /\ \A q \in ReparseRuns \ {r} : rep'[q] = rep[q]
  BY DEF ReparseInv, ReparseTypeOK
<1>3. UNCHANGED held /\ UNCHANGED <<worldVars, wormVars, tableVars>>
  BY DEF ledgerVars
<1>4. ReparseLockOf(r)' \in held'
  BY <1>1, <1>2, <1>3 DEF ReparseHand, ReparseLockOf
<1>5. \A q \in ReparseRuns \ {r} :
        rep'[q].pc \in ReparseInTx => rep'[q].src # rep'[r].src
  BY <1>1, <1>2 DEF ReparseHand
<1>6. /\ \A s : (Attested(s)' <=> Attested(s)) /\ (HasSpans(s)' <=> HasSpans(s))
      /\ source' = source
  BY <1>3 DEF Attested, HasSpans, tableVars
<1>7. ReparseHand(r)'
  <2>1. \A s \in new.todo : s \in source /\ Attested(s)
    BY <1>1 DEF ReparseHand
  <2>2. new.pc \notin {"idle", "selected", "locked"}
    OBVIOUS
  <2> QED BY <1>1, <1>2, <1>4, <1>5, <1>6, <2>1, <2>2 DEF ReparseHand
<1> QED BY <1>1, <1>3, <1>7, ReparseLocal

\* The recheck under the lock.
LEMMA ReparseRecheckInv ==
  ASSUME Tables, ReparseInv, NEW r \in ReparseRuns, ReparseRecheck(r)
  PROVE  Tables' /\ ReparseInv'
<1>1. /\ rep[r] \in Rep /\ ReparseHand(r) /\ rep[r].pc \in ReparseInTx
      /\ rep[r].pc = "locked" /\ rep[r].newSpans = {}
      /\ UNCHANGED <<worldVars, wormVars, tableVars>>
  BY ReparseInHand DEF ReparseRecheck, ReparseHand, ReparseInTx
<1>2. CASE Attested(rep[r].src) /\ ~HasSpans(rep[r].src)
  <2> DEFINE new == [rep[r] EXCEPT !.pc = "spanless"]
  <2>1. rep' = [rep EXCEPT ![r] = new] /\ UNCHANGED held
    BY <1>2 DEF ReparseRecheck
  <2>2. /\ new \in Rep /\ new.pc = "spanless" /\ new.todo = rep[r].todo
        /\ new.src = rep[r].src /\ new.raw = rep[r].raw
        /\ new.newSpans = {}
    BY <1>1 DEF Rep, ReparseBusy, ReparseInTx
  <2> HIDE DEF new
  <2> QED BY <1>1, <1>2, <2>1, <2>2, ReparseInside DEF ledgerVars
<1>3. CASE ~(Attested(rep[r].src) /\ ~HasSpans(rep[r].src))
  <2>1. ReparseSettle(r, "skipped_has_spans") /\ Release("reparse", r)
    BY <1>3 DEF ReparseRecheck
  <2>2. "skipped_has_spans" \in ReparseOutcome
    BY DEF ReparseOutcome
  <2> QED BY <1>1, <2>1, <2>2, ReparseSettleInv
<1> QED BY <1>2, <1>3

LEMMA ReparseParseInv ==
  ASSUME Tables, ReparseInv, NEW r \in ReparseRuns, ReparseParse(r)
  PROVE  Tables' /\ ReparseInv'
<1> DEFINE drafts == Speeches[rep[r].src.hash]
           new == [rep[r] EXCEPT !.pc = "writing", !.i = 1, !.drafts = drafts]
<1>1. /\ rep[r] \in Rep /\ rep[r].pc \in ReparseInTx /\ rep[r].newSpans = {}
      /\ ~HasSpans(rep[r].src) /\ rep[r].src.hash \in Bytes
      /\ UNCHANGED <<worldVars, ledgerVars>>
  BY ReparseInHand DEF ReparseParse, ReparseHand, ReparseInTx, ReparseBusy
<1>2. drafts \in Seq(Draft)
  BY <1>1, LedgerAssumption
<1>3. rep' = [rep EXCEPT ![r] = new]
  BY DEF ReparseParse
<1>4. 1 \in Nat \ {0}
  OBVIOUS
<1>5. /\ new \in Rep /\ new.pc = "writing" /\ new.todo = rep[r].todo
      /\ new.src = rep[r].src /\ new.raw = rep[r].raw /\ new.i = 1
      /\ new.drafts = drafts /\ new.newSpans = {}
  BY <1>1, <1>2, <1>4 DEF Rep, ReparseBusy, ReparseInTx
<1>6. {n \in Dated(rep[r].src.hash) : n < 1} = {}
  BY <1>2 DEF Dated
<1> HIDE DEF new
<1> QED BY <1>1, <1>3, <1>5, <1>6, ReparseInside

\* What holds of the drafts while the run writes.
LEMMA ReparseWriting ==
  ASSUME Tables, ReparseInv, NEW r \in ReparseRuns,
         rep[r].pc \in {"writing", "resolved"}
  PROVE  /\ rep[r] \in Rep /\ rep[r].pc \in ReparseInTx /\ r \in Runs
         /\ rep[r].src \in source /\ rep[r].src \in Source
         /\ rep[r].src.hash \in Bytes /\ Attested(rep[r].src)
         /\ ~HasSpans(rep[r].src) /\ rep[r].raw = rep[r].src.hash
         /\ rep[r].drafts = Speeches[rep[r].src.hash]
         /\ rep[r].drafts \in Seq(Draft)
         /\ rep[r].i \in Nat \ {0} /\ rep[r].i + 1 \in Nat \ {0}
         /\ rep[r].newSpans \subseteq Span
         /\ rep[r].newSpeakers \subseteq Speaker
         /\ rep[r].newMandates \subseteq Mandate
         /\ \A p \in rep[r].newSpans :
              p.src = rep[r].src /\ p.basis = rep[r].raw /\ p.pos < rep[r].i
         /\ {p.pos : p \in rep[r].newSpans} =
              {n \in Dated(rep[r].src.hash) : n < rep[r].i}
         /\ \A p, q \in rep[r].newSpans : p.pos = q.pos => p = q
<1>1. rep[r].pc \in ReparseInTx /\ rep[r].pc \in ReparseBusy
  BY DEF ReparseInTx, ReparseBusy
<1>2. /\ rep[r] \in Rep /\ ReparseHand(r) /\ r \in Runs
      /\ rep[r].src \in source /\ rep[r].src \in Source
      /\ rep[r].src.hash \in Bytes /\ Attested(rep[r].src)
      /\ rep[r].raw = rep[r].src.hash
  BY <1>1, ReparseInHand
<1>3. rep[r].i \in Nat \ {0}
  BY <1>2 DEF Rep
<1>4. rep[r].i + 1 \in Nat \ {0}
  BY <1>3
<1>5. /\ rep[r].drafts \in Seq(Draft) /\ rep[r].newSpans \subseteq Span
      /\ rep[r].newSpeakers \subseteq Speaker
      /\ rep[r].newMandates \subseteq Mandate
  BY <1>2 DEF Rep
<1> QED BY <1>1, <1>2, <1>3, <1>4, <1>5 DEF ReparseHand

\* A draft without a date gets no span: the spans so far are complete for one
\* more draft.
LEMMA ReparseSkipInv ==
  ASSUME Tables, ReparseInv, NEW r \in ReparseRuns, ReparseSkip(r)
  PROVE  Tables' /\ ReparseInv'
<1> DEFINE w == rep[r]
           new == [w EXCEPT !.i = w.i + 1]
<1>1. /\ w.pc = "writing" /\ w.i <= Len(w.drafts) /\ ~w.drafts[w.i].dated
      /\ UNCHANGED <<worldVars, ledgerVars>>
  BY DEF ReparseSkip, Drafting, CurrentDraft
<1>2. /\ w \in Rep /\ w.pc \in ReparseInTx /\ ~HasSpans(w.src)
      /\ w.drafts = Speeches[w.src.hash] /\ w.drafts \in Seq(Draft)
      /\ w.i \in Nat \ {0} /\ w.i + 1 \in Nat \ {0}
      /\ \A p \in w.newSpans : p.src = w.src /\ p.basis = w.raw /\ p.pos < w.i
      /\ {p.pos : p \in w.newSpans} = {n \in Dated(w.src.hash) : n < w.i}
      /\ \A p, q \in w.newSpans : p.pos = q.pos => p = q
      /\ w.newSpans \subseteq Span
  BY <1>1, ReparseWriting
<1>3. rep' = [rep EXCEPT ![r] = new]
  BY <1>2 DEF ReparseSkip, Rep
<1>4. /\ new \in Rep /\ new.pc = "writing" /\ new.todo = w.todo
      /\ new.src = w.src /\ new.raw = w.raw /\ new.i = w.i + 1
      /\ new.drafts = w.drafts /\ new.newSpans = w.newSpans
  BY <1>1, <1>2 DEF Rep
<1>5. {n \in Dated(w.src.hash) : n < w.i} = {n \in Dated(w.src.hash) : n < w.i + 1}
  BY <1>1, <1>2 DEF Dated
<1>6. \A p \in w.newSpans : p.pos < w.i + 1
  BY <1>2 DEF Span
<1> HIDE DEF new, w
<1>7. \A p \in new.newSpans : p.src = new.src /\ p.basis = new.raw /\ p.pos < new.i
  BY <1>2, <1>4, <1>6
<1>8. /\ {p.pos : p \in new.newSpans} = {n \in Dated(new.src.hash) : n < new.i}
      /\ \A p, q \in new.newSpans : p.pos = q.pos => p = q
  BY <1>2, <1>4, <1>5
<1>9. new.pc # "spanless" /\ new.pc # "resolved"
  BY <1>4
<1> QED BY <1>1, <1>2, <1>3, <1>4, <1>7, <1>8, <1>9, ReparseInside DEF w

LEMMA ReparseResolveInv ==
  ASSUME Tables, ReparseInv, NEW r \in ReparseRuns, ReparseResolve(r)
  PROVE  Tables' /\ ReparseInv'
<1> DEFINE w == rep[r]
<1>1. /\ w.pc = "writing" /\ w.i <= Len(w.drafts) /\ w.drafts[w.i].dated
      /\ UNCHANGED <<worldVars, ledgerVars>>
  BY DEF ReparseResolve, Drafting, CurrentDraft
<1>2. /\ w \in Rep /\ w.pc \in ReparseInTx /\ ~HasSpans(w.src) /\ w.src \in Source
      /\ w.drafts = Speeches[w.src.hash] /\ w.drafts \in Seq(Draft)
      /\ w.i \in Nat \ {0} /\ w.newSpeakers \subseteq Speaker
      /\ \A p \in w.newSpans : p.src = w.src /\ p.basis = w.raw /\ p.pos < w.i
      /\ {p.pos : p \in w.newSpans} = {n \in Dated(w.src.hash) : n < w.i}
      /\ \A p, q \in w.newSpans : p.pos = q.pos => p = q
  BY <1>1, ReparseWriting
<1>3. w.drafts[w.i].name \in Names
  <2>1. w.i \in 1..Len(w.drafts)
    BY <1>1, <1>2
  <2>2. w.drafts[w.i] \in Draft
    BY <1>2, <2>1
  <2> QED BY <2>2 DEF Draft
<1>4. [name |-> w.drafts[w.i].name, origin |-> w.src] \in Speaker
  BY <1>2, <1>3 DEF Speaker
<1>5. KnownSpeakers(r, w.drafts[w.i].name) \subseteq Speaker
  BY <1>2 DEF KnownSpeakers, Tables, LedgerTypeOK
<1>6. PICK k \in KnownSpeakers(r, w.drafts[w.i].name) \cup
             {[name |-> w.drafts[w.i].name, origin |-> w.src]} :
        rep' = [rep EXCEPT ![r] =
                  [@ EXCEPT !.pc = "resolved", !.who = k,
                            !.newSpeakers = w.newSpeakers \cup ({k} \ speaker)]]
  BY DEF ReparseResolve, CurrentDraft
<1> DEFINE new == [w EXCEPT !.pc = "resolved", !.who = k,
                            !.newSpeakers = w.newSpeakers \cup ({k} \ speaker)]
<1>7. rep' = [rep EXCEPT ![r] = new]
  BY <1>6
<1>8. k \in Speaker /\ w.newSpeakers \cup ({k} \ speaker) \in SUBSET Speaker
  BY <1>2, <1>4, <1>5, <1>6
<1>9. /\ new \in Rep /\ new.pc = "resolved" /\ new.todo = w.todo
      /\ new.src = w.src /\ new.raw = w.raw /\ new.i = w.i /\ new.who = k
      /\ new.drafts = w.drafts /\ new.newSpans = w.newSpans
  BY <1>2, <1>8 DEF Rep, ReparseBusy, ReparseInTx
<1> HIDE DEF new, w
<1>10. \A p \in new.newSpans : p.src = new.src /\ p.basis = new.raw /\ p.pos < new.i
  BY <1>2, <1>9
<1>11. /\ {p.pos : p \in new.newSpans} = {n \in Dated(new.src.hash) : n < new.i}
       /\ \A p, q \in new.newSpans : p.pos = q.pos => p = q
  BY <1>2, <1>9
<1>12. /\ new.i <= Len(new.drafts) /\ new.drafts[new.i].dated
       /\ new.who \in Speaker /\ new.pc # "spanless"
       /\ new.drafts = Speeches[new.src.hash]
  BY <1>1, <1>2, <1>8, <1>9
<1> QED BY <1>1, <1>2, <1>7, <1>9, <1>10, <1>11, <1>12, ReparseInside DEF w

\* The insert adds the span of the draft in hand and of no other.
LEMMA ReparseInsertInv ==
  ASSUME Tables, ReparseInv, NEW r \in ReparseRuns, ReparseInsert(r)
  PROVE  Tables' /\ ReparseInv'
<1> DEFINE w == rep[r]
<1>1. w.pc = "resolved" /\ UNCHANGED <<worldVars, ledgerVars>>
  BY DEF ReparseInsert
<1>2. /\ w \in Rep /\ w.pc \in ReparseInTx /\ ~HasSpans(w.src) /\ w.src \in Source
      /\ w.drafts = Speeches[w.src.hash] /\ w.drafts \in Seq(Draft)
      /\ w.src.hash \in Bytes /\ w.raw = w.src.hash /\ r \in Runs
      /\ w.i \in Nat \ {0} /\ w.i + 1 \in Nat \ {0}
      /\ w.newMandates \subseteq Mandate /\ w.newSpans \subseteq Span
      /\ \A p \in w.newSpans : p.src = w.src /\ p.basis = w.raw /\ p.pos < w.i
      /\ {p.pos : p \in w.newSpans} = {n \in Dated(w.src.hash) : n < w.i}
      /\ \A p, q \in w.newSpans : p.pos = q.pos => p = q
  BY <1>1, ReparseWriting
<1>3. w.i <= Len(w.drafts) /\ w.drafts[w.i].dated /\ w.who \in Speaker
  BY <1>1, ReparseInHand DEF ReparseHand
<1>4. w.drafts[w.i].party \in Parties
  <2>1. w.i \in 1..Len(w.drafts)
    BY <1>2, <1>3
  <2>2. w.drafts[w.i] \in Draft
    BY <1>2, <2>1
  <2> QED BY <2>2 DEF Draft
<1>5. [who |-> w.who, party |-> w.drafts[w.i].party, origin |-> w.src] \in Mandate
  BY <1>2, <1>3, <1>4 DEF Mandate
<1>6. KnownMandates(r) \subseteq Mandate
  BY <1>2 DEF KnownMandates, Tables, LedgerTypeOK
<1> DEFINE row(m) == [src |-> w.src, pos |-> w.i, mandate |-> m,
                      basis |-> w.raw, by |-> r]
<1>7. PICK m \in KnownMandates(r) \cup
             {[who |-> w.who, party |-> w.drafts[w.i].party, origin |-> w.src]} :
        rep' = [rep EXCEPT ![r] =
                  [@ EXCEPT !.pc = "writing", !.i = w.i + 1,
                            !.newMandates = w.newMandates \cup ({m} \ mandate),
                            !.newSpans = w.newSpans \cup {row(m)}]]
  BY DEF ReparseInsert, CurrentDraft
<1> DEFINE new == [w EXCEPT !.pc = "writing", !.i = w.i + 1,
                            !.newMandates = w.newMandates \cup ({m} \ mandate),
                            !.newSpans = w.newSpans \cup {row(m)}]
<1>8. rep' = [rep EXCEPT ![r] = new]
  BY <1>7
<1>9. /\ m \in Mandate /\ row(m) \in Span
      /\ row(m).src = w.src /\ row(m).pos = w.i /\ row(m).basis = w.raw
  <2>1. m \in Mandate
    BY <1>5, <1>6, <1>7
  <2> QED BY <1>2, <2>1 DEF Span
<1> HIDE DEF row
<1>10. /\ w.newSpans \cup {row(m)} \in SUBSET Span
       /\ w.newMandates \cup ({m} \ mandate) \in SUBSET Mandate
  BY <1>2, <1>9
<1>11. /\ new \in Rep /\ new.pc = "writing" /\ new.todo = w.todo
       /\ new.src = w.src /\ new.raw = w.raw /\ new.i = w.i + 1
       /\ new.drafts = w.drafts /\ new.newSpans = w.newSpans \cup {row(m)}
  BY <1>2, <1>10 DEF Rep, ReparseBusy, ReparseInTx
<1>12. \A p \in w.newSpans : p.pos \in Nat /\ p.pos < w.i
  BY <1>2 DEF Span
<1>13. w.i \in Dated(w.src.hash)
  BY <1>2, <1>3 DEF Dated
<1>14. Dated(w.src.hash) \subseteq Nat
  BY DEF Dated
<1>15. {n \in Dated(w.src.hash) : n < w.i + 1}
         = {n \in Dated(w.src.hash) : n < w.i} \cup {w.i}
  BY <1>2, <1>13, <1>14
<1> HIDE DEF new, w
<1>16. \A p \in new.newSpans : p.src = new.src /\ p.basis = new.raw /\ p.pos < new.i
  BY <1>2, <1>9, <1>11, <1>12
<1>17. {p.pos : p \in new.newSpans} = {n \in Dated(new.src.hash) : n < new.i}
  <2>1. {p.pos : p \in w.newSpans \cup {row(m)}} = {p.pos : p \in w.newSpans} \cup {w.i}
    BY <1>9
  <2> QED BY <1>2, <1>11, <1>15, <2>1
<1>18. \A p, q \in new.newSpans : p.pos = q.pos => p = q
  BY <1>2, <1>9, <1>11, <1>12
<1>19. new.pc # "spanless" /\ new.pc # "resolved"
  BY <1>11
<1> QED
  BY <1>1, <1>2, <1>8, <1>11, <1>16, <1>17, <1>18, <1>19, ReparseInside DEF w

\* The commit: the spans of the transaction are those of every dated draft,
\* their source had none, and it is no other run's.
LEMMA ReparseCommitInv ==
  ASSUME Tables, ReparseInv, NEW r \in ReparseRuns, ReparseCommit(r)
  PROVE  Tables' /\ ReparseInv'
<1> DEFINE w == rep[r]
           outcome == IF w.newSpans = {} THEN "still_empty" ELSE "reparsed"
<1>1. /\ w.pc = "writing" /\ w.i > Len(w.drafts)
      /\ span' = span \cup w.newSpans
      /\ speaker' = speaker \cup w.newSpeakers
      /\ mandate' = mandate \cup w.newMandates
      /\ held' = {h \in held : ~(h.job = "reparse" /\ h.by = r)}
      /\ UNCHANGED <<worldVars, wormVars, source, created, stamp, attestation,
                     request>>
      /\ rep' = [rep EXCEPT ![r] = ReparseFresh(outcome, w.todo, w.src, None)]
  BY DEF ReparseCommit, ReparseSettle, Release
<1>2. /\ w \in Rep /\ w.pc \in ReparseInTx /\ ReparseHand(r)
      /\ w.src \in source /\ w.src \in Source
      /\ Attested(w.src) /\ ~HasSpans(w.src) /\ w.raw = w.src.hash
      /\ w.drafts = Speeches[w.src.hash] /\ w.drafts \in Seq(Draft)
      /\ w.i \in Nat \ {0} /\ w.newSpans \subseteq Span
      /\ w.newSpeakers \subseteq Speaker /\ w.newMandates \subseteq Mandate
      /\ \A p \in w.newSpans : p.src = w.src /\ p.basis = w.raw
      /\ {p.pos : p \in w.newSpans} = {n \in Dated(w.src.hash) : n < w.i}
      /\ \A p, q \in w.newSpans : p.pos = q.pos => p = q
  BY <1>1, ReparseWriting, ReparseInHand
<1>3. {n \in Dated(w.src.hash) : n < w.i} = Dated(w.src.hash)
  BY <1>1, <1>2 DEF Dated
<1>4. WorldTypeOK' /\ LedgerTypeOK'
  BY <1>1, <1>2 DEF Tables, WorldTypeOK, LedgerTypeOK, worldVars, wormVars
<1>5. RowsRooted' /\ UniqueHash' /\ RefsResolve' /\ TokensBind'
      /\ OneTokenPerTsa' /\ AttestationsProved' /\ OneAttestation'
  BY <1>1, <1>2 DEF Tables, RowsRooted, UniqueHash, RefsResolve, TokensBind,
     OneTokenPerTsa, AttestationsProved, OneAttestation, Versions, worldVars,
     wormVars
<1>6. SpansAttested' /\ SpansVerbatim'
  BY <1>1, <1>2 DEF Tables, SpansAttested, SpansVerbatim, Attested
<1> HIDE DEF w, outcome
<1>7. ASSUME NEW s, s # w.src PROVE SpansOf(s)' = SpansOf(s)
  BY <1>1, <1>2, <1>7 DEF SpansOf
<1>8. \A s : s = w.src => {p \in span' : p.src = s} = w.newSpans
  BY <1>1, <1>2 DEF HasSpans
<1>9. SpansComplete'
  <2> SUFFICES ASSUME NEW s \in source
               PROVE  \/ SpansOf(s)' = {}
                      \/ /\ {p.pos : p \in SpansOf(s)'} = Dated(s.hash)
                         /\ \A p, q \in SpansOf(s)' : p.pos = q.pos => p = q
    BY <1>1 DEF SpansComplete
  <2>1. CASE s = w.src
    <3>1. SpansOf(s)' = w.newSpans
      BY <1>8, <2>1 DEF SpansOf
    <3>2. {p.pos : p \in w.newSpans} = Dated(s.hash)
      BY <1>2, <1>3, <2>1
    <3> QED BY <1>2, <3>1, <3>2
  <2>2. CASE s # w.src
    BY <1>7, <2>2 DEF Tables, SpansComplete
  <2> QED BY <2>1, <2>2
<1>10. Tables'
  BY <1>4, <1>5, <1>6, <1>9 DEF Tables
<1> DEFINE new == ReparseFresh(outcome, w.todo, w.src, None)
<1>11. outcome \in {"still_empty", "reparsed"}
  BY DEF outcome
<1>12. w.todo \in SUBSET Source /\ \A s \in w.todo : s \in source /\ Attested(s)
  BY ReparseInHand DEF w
<1>13. new \in Rep
  BY <1>2, <1>11, <1>12, ReparseFreshTyped DEF ReparseBetween, ReparseOutcome
<1>14. new.pc = outcome /\ new.todo = w.todo /\ new.src = w.src /\ new.newSpans = {}
  BY DEF ReparseFresh
<1>15. rep' = [rep EXCEPT ![r] = new]
  BY <1>1
<1> HIDE DEF new
<1>16. /\ ReparseTypeOK' /\ rep'[r] = new
       /\ \A q \in ReparseRuns \ {r} : rep'[q] = rep[q]
  BY <1>13, <1>15 DEF ReparseInv, ReparseTypeOK
<1>17. \A s : /\ Attested(s)' <=> Attested(s)
              /\ s # w.src => (HasSpans(s)' <=> HasSpans(s))
  BY <1>1, <1>2 DEF Attested, HasSpans
<1>18. /\ outcome \notin ReparseInTx /\ outcome \notin ReparseBusy
       /\ outcome \notin {"idle", "selected", "spanless", "writing", "resolved"}
  BY <1>11 DEF ReparseInTx, ReparseBusy
<1>19. ReparseHand(r)'
  BY <1>1, <1>2, <1>12, <1>14, <1>16, <1>17, <1>18 DEF ReparseHand
<1>20. ASSUME NEW q \in ReparseRuns, q # r PROVE ReparseHand(q)'
  <2>1. rep'[q] = rep[q] /\ ReparseHand(q) /\ UNCHANGED source
    BY <1>1, <1>16, <1>20 DEF ReparseInv
  <2>2. ReparseLockOf(q) \in held => ReparseLockOf(q)' \in held'
    BY <1>1, <1>20, <2>1 DEF ReparseLockOf
  <2>3. rep[q].pc \in ReparseInTx => rep[q].src # w.src
    BY <1>2, <1>20 DEF ReparseHand, w
  <2>4. ASSUME NEW p \in ReparseRuns \ {q}, rep'[p].pc \in ReparseInTx
        PROVE  rep'[p] = rep[p]
    BY <1>14, <1>16, <1>18, <2>4
  <2>5. {"spanless", "writing", "resolved"} \subseteq ReparseInTx
    BY DEF ReparseInTx
  <2> QED BY <1>17, <2>1, <2>2, <2>3, <2>4, <2>5 DEF ReparseHand
<1> QED BY <1>10, <1>16, <1>19, <1>20 DEF ReparseInv

\* Every step of reparse keeps the tables right and its runs in order.
LEMMA ReparseKeeps ==
  ASSUME Tables, ReparseInv,
         ReparseNext \/ (\E r \in ReparseRuns : ReparseAbort(r))
  PROVE  Tables' /\ ReparseInv'
<1>1. ASSUME NEW r \in ReparseRuns, ReparseStep(r)
      PROVE  Tables' /\ ReparseInv'
  BY <1>1, ReparseReadInv, ReparseLockInv, ReparseRecheckInv, ReparseParseInv,
     ReparseGiveUpInv, ReparseSkipInv, ReparseResolveInv, ReparseInsertInv,
     ReparseCommitInv, ReparseIdleInv DEF ReparseStep
<1> QED BY <1>1, ReparseSelectInv, ReparseGiveUpInv, ReparseIdleInv DEF ReparseNext

\* What every step of reparse, an abort included, leaves to the other passes.
LEMMA ReparseOthers ==
  ASSUME ReparseNext \/ (\E r \in ReparseRuns : ReparseAbort(r))
  PROVE  UNCHANGED <<cdx, worm, source, stamp, attestation>>
  BY DEF ReparseNext, ReparseStep, ReparseSelect, ReparseRead, ReparseLock,
     ReparseRecheck, ReparseParse, ReparseParseFails, ReparseSkip,
     ReparseResolve, ReparseInsert, ReparseRefused, ReparseCommit, ReparseError,
     ReparseFinish, ReparseAbort, worldVars, ledgerVars, wormVars, tableVars
=============================================================================
