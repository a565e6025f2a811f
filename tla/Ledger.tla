------------------------------- MODULE Ledger -------------------------------
(***************************************************************************)
(* The state the passes share: the WORM object store and the PostgreSQL    *)
(* tables, with the constraints and triggers the migrations install.  The  *)
(* passes are separate processes; every statement sees what was committed  *)
(* before it (READ COMMITTED), and the tables hold committed rows only: an *)
(* uncommitted row is still in its run's own state.                        *)
(*                                                                         *)
(* The tables are append-only (trigger forbid_mutation), so a source read  *)
(* once never changes and a row may be passed around by value.             *)
(***************************************************************************)
EXTENDS World, Sequences

CONSTANTS
  Runs,         \* identities of the processes that run the passes
  Tsas,         \* names of the time-stamping authorities
  Names,        \* full names of speakers
  Parties,      \* parties, with the value that stands for no party
  Speeches,     \* Speeches[b]: the span drafts the parser makes of document b
  Seed,         \* what earlier runs have secured: hash, url, text, attested
  None,         \* no value: a failed WORM read, a variable not yet assigned
  Garbled,      \* bytes that hash to the content_hash of no document
  Limit,        \* --limit of the passes; 0 when the option is absent
  MaxVersions,  \* bound: object versions the WORM store can take
  MaxFaults     \* bound: object versions that are unreadable or altered at once

\* A parsed speech: who spoke for which party, whether the draft carries a date
\* and whether its offsets satisfy chk_offsets (text_end > text_start).
Draft == [name : Names, party : Parties, dated : BOOLEAN, sane : BOOLEAN]

ASSUME LedgerAssumption ==
  /\ Seed \in Seq([hash : Bytes, url : Urls, text : BOOLEAN, attested : BOOLEAN])
  /\ \A i, j \in 1..Len(Seed) : Seed[i].hash = Seed[j].hash => i = j
  /\ Speeches \in [Bytes -> Seq(Draft)]
  /\ Limit \in Nat
  /\ Garbled \notin Bytes
  /\ None \notin Bytes

VARIABLES
  worm,         \* worm[v]: the bytes put as object version v
  missing,      \* versions that cannot be read at present
  altered,      \* versions whose stored bytes have changed
  source,       \* table source
  created,      \* number of source rows created: the order of created_at, id
  stamp,        \* table source_timestamp
  attestation,  \* table source_archive
  request,      \* table capture_request
  speaker,      \* table speaker
  mandate,      \* table mandate
  span,         \* table span (with its 1:1 span_state)
  held          \* locks of open transactions on rows of source

wormVars  == <<worm, missing, altered>>
tableVars == <<source, created, stamp, attestation, request, speaker,
                mandate, span>>
ledgerVars == <<wormVars, tableVars, held>>

Token == [tsa : Tsas, imprint : Bytes]

\* id: primary key in creation order; ref: the WORM version raw_bytes_ref pins;
\* text: whether normalized_text was frozen or is NULL.
Source == [id : Nat, hash : Bytes, url : Urls, ref : Nat, text : BOOLEAN]
Stamp  == [src : Source, tsa : Tsas, ref : Nat]
\* by: the run that wrote the row, None for a row that was there before.
Attestation == [src : Source, snap : Snapshot, sha : Bytes,
                by : Runs \cup {None}]
Request == [src : Source, outcome : {"captured", "failed"}, at : Nat, by : Runs]
\* Neither table has a UNIQUE besides its key: a row is told apart by the
\* source whose transaction created it.
Speaker == [name : Names, origin : Source]
Mandate == [who : Speaker, party : Parties, origin : Source]
\* pos: which draft of the document; basis: the bytes that were parsed; by: the
\* run that wrote the row.
Span == [src : Source, pos : Nat, mandate : Mandate, basis : Bytes, by : Runs]
HeldLock == [job : {"stamp", "capture", "attest", "reparse"}, by : Runs,
         src : Source, mode : {"key share", "update"}]

LedgerTypeOK ==
  /\ worm \in Seq(Bytes \cup Token)
  /\ missing \subseteq Nat
  /\ altered \subseteq Nat
  /\ source \subseteq Source
  /\ created \in Nat
  /\ stamp \subseteq Stamp
  /\ attestation \subseteq Attestation
  /\ request \subseteq Request
  /\ speaker \subseteq Speaker
  /\ mandate \subseteq Mandate
  /\ span \subseteq Span
  /\ held \subseteq HeldLock

SeedRow(i) == [id |-> i, hash |-> Seed[i].hash, url |-> Seed[i].url,
               ref |-> i, text |-> Seed[i].text]
SeedSnapshot(i) == [url |-> Seed[i].url, bytes |-> Seed[i].hash]
SeedAttested == {i \in 1..Len(Seed) : Seed[i].attested}

LedgerInit ==
  /\ WorldInit({SeedSnapshot(i) : i \in SeedAttested})
  /\ worm = [i \in 1..Len(Seed) |-> Seed[i].hash]
  /\ missing = {}
  /\ altered = {}
  /\ source = {SeedRow(i) : i \in 1..Len(Seed)}
  /\ created = Len(Seed)
  /\ stamp = {}
  /\ attestation = {[src |-> SeedRow(i), snap |-> SeedSnapshot(i),
                     sha |-> Seed[i].hash, by |-> None] : i \in SeedAttested}
  /\ request = {}
  /\ speaker = {}
  /\ mandate = {}
  /\ span = {}
  /\ held = {}

-----------------------------------------------------------------------------
(* WORM *)

Versions == 1..Len(worm)

\* MinioWormStore.get returns exactly the pinned version or raises.
Get(v) ==
  IF v \notin Versions \/ v \in missing THEN None
  ELSE IF v \in altered THEN Garbled ELSE worm[v]

\* MinioWormStore.put: always a new version, whose number is the reference.
Put(object) ==
  /\ Len(worm) < MaxVersions
  /\ worm' = Append(worm, object)
  /\ UNCHANGED <<missing, altered>>

\* Mutant: the reference is taken before the put.
NewRefEarly == Len(worm)

NewRef == Len(worm) + 1

\* The store is unreachable or has lost a version, answers again, or returns
\* other bytes than were put.
Faulty == missing \cup altered

WormFault(v) ==
  /\ v \in Versions \ Faulty
  /\ Cardinality(Faulty) < MaxFaults
  /\ \/ missing' = missing \cup {v} /\ UNCHANGED altered
     \/ altered' = altered \cup {v} /\ UNCHANGED missing
  /\ UNCHANGED <<worm, tableVars, held>>

WormRepaired(v) ==
  /\ v \in missing
  /\ missing' = missing \ {v}
  /\ UNCHANGED <<worm, altered, tableVars, held>>

WormNext == \E v \in Versions : WormFault(v) \/ WormRepaired(v)

-----------------------------------------------------------------------------
(* Tables *)

\* source_exists: a committed row with this content_hash.
SourceExists(h) == \E s \in source : s.hash = h

Stamped(s)  == \E t \in stamp : t.src = s
Attested(s) == \E a \in attestation : a.src = s
HasSpans(s) == \E p \in span : p.src = s

\* ORDER BY created_at, id LIMIT n.
Oldest(S) ==
  IF Limit = 0 THEN S
  ELSE {s \in S : Cardinality({t \in S : t.id < s.id}) < Limit}

\* s is the next element of a list selected that way.
IsFirst(s, S) == s \in S /\ \A t \in S : s.id <= t.id

\* Mutant: what was read is not hashed again.
CheckBytesUnverified(s) ==
  IF Get(s.ref) = None THEN "worm_missing" ELSE "hashed"

\* What every pass does before anything else: read the pinned version and
\* compute its hash against the row; only "hashed" goes on.
CheckBytes(s) ==
  IF Get(s.ref) = None THEN "worm_missing"
  ELSE IF Get(s.ref) # s.hash THEN "hash_mismatch" ELSE "hashed"

\* The foreign key of a row inserted under s takes FOR KEY SHARE on the row
\* of s, which waits for a FOR UPDATE lock of another transaction; the lock is
\* kept until the transaction ends.
CanReference(s) == \A h \in held : h.src = s => h.mode = "key share"
\* SELECT ... FOR UPDATE waits for every other lock on the row.
CanLock(s) == \A h \in held : h.src # s

Hold(job, r, s, mode) ==
  held' = held \cup {[job |-> job, by |-> r, src |-> s, mode |-> mode]}
Release(job, r) ==
  held' = {h \in held : ~(h.job = job /\ h.by = r)}
=============================================================================
