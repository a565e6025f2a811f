----------------------------- MODULE Timestamp -----------------------------
(***************************************************************************)
(* wortlaut timestamp: pipeline/timestamp.py under cli._run_timestamp.  A  *)
(* run lists the sources without a token once and then stamps one after    *)
(* another, each in a session of its own.                                  *)
(***************************************************************************)
EXTENDS Ledger

CONSTANTS
  StampRuns,  \* the processes that run this pass
  Chain       \* the authorities in the order they are asked

\* An empty chain is a configuration error: FallbackTimeStamper refuses it.
ASSUME TimestampAssumption ==
  /\ StampRuns \subseteq Runs
  /\ Chain \in Seq(Tsas) \ {<<>>}

VARIABLE tsr  \* tsr[r]: the state of timestamp run r

\* Between two sources a run is at the outcome of the last one.
StampOutcome == {"stamped", "hash_mismatch", "worm_missing", "tsa_failed"}
StampBetween == StampOutcome \cup {"selected"}
StampBusy == {"hashed", "token", "put", "flushed", "conflict"}

\* todo: the rest of the selected list, src: the source in hand, asked: how many
\* authorities have failed for it, tsa: the one that did not, token: its token,
\* ref: where the token was put.
Tsr == [pc : StampBetween \cup StampBusy \cup {"idle"}, todo : SUBSET Source,
        src : Source \cup {None}, asked : Nat, tsa : Tsas \cup {None},
        token : Token \cup {None}, ref : Nat]

TimestampTypeOK == tsr \in [StampRuns -> Tsr]

StampIdleRun == [pc |-> "idle", todo |-> {}, src |-> None, asked |-> 0,
                 tsa |-> None, token |-> None, ref |-> 0]

TimestampInit == tsr = [r \in StampRuns |-> StampIdleRun]

StampGoto(r, label) == tsr' = [tsr EXCEPT ![r].pc = label]

\* list_sources_without_timestamp, once at the start of the run.
StampPending == {s \in source : ~Stamped(s)}

StampSelect(r) ==
  /\ tsr[r].pc = "idle"
  /\ StampPending # {}
  /\ tsr' = [tsr EXCEPT ![r] =
               [StampIdleRun EXCEPT !.pc = "selected",
                                    !.todo = Oldest(StampPending)]]
  /\ UNCHANGED <<worldVars, ledgerVars>>

\* The next source of the list: read WORM, compare the hash.
StampRead(r, s) ==
  /\ tsr[r].pc \in StampBetween
  /\ IsFirst(s, tsr[r].todo)
  /\ tsr' = [tsr EXCEPT ![r] = [pc |-> CheckBytes(s), todo |-> @.todo \ {s},
                                src |-> s, asked |-> 0, tsa |-> None,
                                token |-> None, ref |-> 0]]
  /\ UNCHANGED <<worldVars, ledgerVars>>

\* What an authority may send back: a token, maybe over other bytes or signed
\* by somebody else, or no granted token at all.
Answers == Token \cup {None}

\* Mutant: the signer is not compared with the pinned certificate.
VerifyTokenUnpinned(answer, h, name) ==
  IF answer = None THEN "malformed"
  ELSE IF answer.imprint # h THEN "mismatch" ELSE "ok"

\* verify_token: what it binds is looked at before who signed it.
VerifyToken(answer, h, name) ==
  IF answer = None THEN "malformed"
  ELSE IF answer.imprint # h THEN "mismatch"
  ELSE IF answer.tsa # name THEN "untrusted" ELSE "ok"

\* FallbackTimeStamper.stamp asks the next authority of the chain; an answer
\* that does not verify at once counts as a failure.
StampAsk(r, answer) ==
  LET name == Chain[tsr[r].asked + 1]
  IN /\ tsr[r].pc = "hashed"
     /\ tsr[r].asked < Len(Chain)
     /\ tsr' = [tsr EXCEPT ![r] =
          IF VerifyToken(answer, tsr[r].src.hash, name) = "ok"
          THEN [tsr[r] EXCEPT !.pc = "token", !.tsa = name, !.token = answer]
          ELSE [tsr[r] EXCEPT !.asked = tsr[r].asked + 1]]
     /\ UNCHANGED <<worldVars, ledgerVars>>

\* Every authority failed.
StampFail(r) ==
  /\ tsr[r].pc = "hashed"
  /\ tsr[r].asked = Len(Chain)
  /\ StampGoto(r, "tsa_failed")
  /\ UNCHANGED <<worldVars, ledgerVars>>

\* The token goes into the WORM store before its row is written.
StampPut(r) ==
  /\ tsr[r].pc = "token"
  /\ Put(tsr[r].token)
  /\ tsr' = [tsr EXCEPT ![r] = [@ EXCEPT !.pc = "put", !.ref = NewRef]]
  /\ UNCHANGED <<worldVars, tableVars, held>>

\* The row run r is inserting, and the key of UNIQUE (source_id, tsa_name).
NewStamp(r) == [src |-> tsr[r].src, tsa |-> tsr[r].tsa, ref |-> tsr[r].ref]

\* Mutant: the key includes the token.
SameStampByToken(t, r) ==
  t.src = tsr[r].src /\ t.tsa = tsr[r].tsa /\ t.ref = tsr[r].ref

SameStamp(t, r) == t.src = tsr[r].src /\ t.tsa = tsr[r].tsa

\* Mutant: a row another run has not committed yet counts as the duplicate.
StampFlushNoWait(r) ==
  /\ tsr[r].pc = "put"
  /\ IF \/ \E t \in stamp : SameStamp(t, r)
        \/ \E q \in StampRuns \ {r} : tsr[q].pc = "flushed" /\ SameStamp(tsr[q], r)
     THEN /\ StampGoto(r, "conflict")
          /\ UNCHANGED held
     ELSE /\ CanReference(tsr[r].src)
          /\ StampGoto(r, "flushed")
          /\ Hold("stamp", r, tsr[r].src, "key share")
  /\ UNCHANGED <<worldVars, wormVars, tableVars>>

\* insert_source_timestamp up to the flush.
StampFlush(r) ==
  /\ tsr[r].pc = "put"
  /\ \A q \in StampRuns \ {r} : tsr[q].pc = "flushed" => ~SameStamp(tsr[q], r)
  /\ IF \E t \in stamp : SameStamp(t, r)
     THEN /\ StampGoto(r, "conflict")
          /\ UNCHANGED held
     ELSE /\ CanReference(tsr[r].src)
          /\ StampGoto(r, "flushed")
          /\ Hold("stamp", r, tsr[r].src, "key share")
  /\ UNCHANGED <<worldVars, wormVars, tableVars>>

StampCommit(r) ==
  /\ tsr[r].pc = "flushed"
  /\ stamp' = stamp \cup {NewStamp(r)}
  /\ StampGoto(r, "stamped")
  /\ Release("stamp", r)
  /\ UNCHANGED <<worldVars, wormVars, source, created, attestation, request,
                 speaker, mandate, span>>

\* IntegrityError: another run was faster, the result is the same.
StampConflict(r) ==
  /\ tsr[r].pc = "conflict"
  /\ StampGoto(r, "stamped")
  /\ UNCHANGED <<worldVars, ledgerVars>>

\* Mutant: a run may stop with sources left on its list.
StampFinishEarly(r) ==
  /\ tsr[r].pc \in StampBetween
  /\ tsr' = [tsr EXCEPT ![r] = StampIdleRun]
  /\ UNCHANGED <<worldVars, ledgerVars>>

\* The list is done.
StampFinish(r) ==
  /\ tsr[r].pc \in StampBetween
  /\ tsr[r].todo = {}
  /\ tsr' = [tsr EXCEPT ![r] = StampIdleRun]
  /\ UNCHANGED <<worldVars, ledgerVars>>

\* The process dies, an exception ends the run, or the circuit breaker stops
\* it between two sources; an open transaction is rolled back.
StampAbort(r) ==
  /\ tsr[r].pc # "idle"
  /\ tsr' = [tsr EXCEPT ![r] = StampIdleRun]
  /\ Release("stamp", r)
  /\ UNCHANGED <<worldVars, wormVars, tableVars>>

StampStep(r) ==
  \/ \E s \in tsr[r].todo : StampRead(r, s)
  \/ \E answer \in Answers : StampAsk(r, answer)
  \/ StampFail(r) \/ StampPut(r) \/ StampFlush(r)
  \/ StampCommit(r) \/ StampConflict(r) \/ StampFinish(r)

TimestampNext ==
  \E r \in StampRuns : StampSelect(r) \/ StampStep(r)
=============================================================================
