------------------------------ MODULE Progress ------------------------------
(***************************************************************************)
(* What must happen in the end, if the passes are run again.  Every run is *)
(* started by hand (betrieb.md, section 2), so the properties are about an *)
(* operator who goes on starting them while there is something to do; a    *)
(* started run goes on unless it fails, and the archive indexes what it    *)
(* stored.  No step is assumed to succeed: the properties speak of         *)
(* behaviours in which mishaps end at some time.                           *)
(***************************************************************************)
EXTENDS Pipeline

StampRun(r) == /\ StampSelect(r) \/ StampStep(r)
               /\ UNCHANGED <<ing, captureVars, att, rep, crashes>>
AttestRun(r) == /\ AttestSelect(r) \/ AttestStep(r)
                /\ UNCHANGED <<ing, tsr, captureVars, rep, crashes>>
ReparseRun(r) == /\ ReparseSelect(r) \/ ReparseStep(r)
                 /\ UNCHANGED <<ing, tsr, captureVars, att, crashes>>
Indexing(s) == Index(s) /\ UNCHANGED <<ledgerVars, runVars, crashes>>

FairSpec ==
  /\ Spec
  /\ \A r \in StampRuns : WF_vars(StampRun(r))
  /\ \A r \in AttestRuns : WF_vars(AttestRun(r))
  /\ \A r \in ReparseRuns : WF_vars(ReparseRun(r))
  /\ \A s \in Snapshot : WF_vars(Indexing(s))

\* A step in which something outside wortlaut fails, or a run dies.
Mishap ==
  \/ Crash
  \/ \E r \in StampRuns : StampFail(r)
  \/ \E r \in AttestRuns :
       \/ AttestError(r)
       \/ \E c \in att[r].cands :
            \/ AttestFetchNone(r, c)
            \/ c.bytes = att[r].src.hash /\ AttestFetch(r, c, Garbled)
  \/ \E r \in ReparseRuns : ReparseParseFails(r) \/ ReparseError(r)

EventuallyCalm == <>[][~Mishap]_vars

InLedger(b) == \E s \in source : s.hash = b
StampedDoc(b) == \E t \in stamp : t.src.hash = b
AttestedDoc(b) == \E a \in attestation : a.src.hash = b
Quoted(b) == \E p \in span : p.src.hash = b
Archivable(b) ==
  \E s \in source : s.hash = b /\ [url |-> s.url, bytes |-> b] \in snaps
Quotable(b) == (\E s \in source : s.hash = b /\ s.text) /\ Dated(b) # {}

\* deploy.md, "ein späterer Lauf holt das nach": once the archive holds the
\* bytes of a source, some later run of attest witnesses it, whatever failed
\* before and whatever the other runs do.
EventuallyAttested ==
  EventuallyCalm => \A b \in Bytes : Archivable(b) ~> AttestedDoc(b)

\* An attested source with frozen text gets its spans, though two runs of
\* reparse wait for each other's locks and attest runs beside them.
EventuallyQuoted ==
  EventuallyCalm =>
    \A b \in Bytes : (AttestedDoc(b) /\ Quotable(b)) ~> Quoted(b)

\* Spec 0076, 4.7, "der nächste Lauf holt sie nach": if timestamp is run again,
\* every source is stamped in the end, although runs die between the token and
\* its row, the first authority may fail every time, and reparse holds the
\* row lock the insert has to wait for.
EventuallyStamped ==
  EventuallyCalm => \A b \in Bytes : InLedger(b) ~> StampedDoc(b)
=============================================================================
