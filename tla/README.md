# wortlaut in TLA+

wortlaut keeps a ledger of parliamentary documents and of the verbatim quotes
("spans") taken from them. Its claim is evidential: every quote can be traced to
bytes that were stored unchanged, time-stamped by an independent authority and
seen in a public archive *before* the quote was published (ADR-0009, "provenance
first"). This directory holds the TLA+ model of the part of the program that
carries this claim, the TLC runs that check it and the TLAPS proofs about it.
Paths below are relative to `src/wortlaut/` unless they begin with `migrations/`,
`docs/` or `specs/`.

## 1. Inventory

| component | state | operations | what is hard |
|---|---|---|---|
| ingest (`pipeline/ingest.py`, `cli._run`) | rows of `source`, WORM objects | fetch, hash, dedup, put, normalize, insert | two runs with the same document; death between put and insert; the document changes between two fetches |
| timestamp (`pipeline/timestamp.py`, `cli._run_timestamp`) | rows of `source_timestamp`, tokens in WORM | select, read and hash, sign, put, insert | lost UNIQUE race; altered objects; all authorities down |
| capture (`pipeline/capture.py`, `archive/archiver.py`, `archive/retry.py`) | rows of `capture_request`; orders at Save Page Now | select with cool-down, read and hash, CDX search, order and poll, insert | retries repeat the POST; death between order and row; overlapping runs |
| attest (`pipeline/attest.py`, `archive/wayback_lookup.py`) | rows of `source_archive` | select, read and hash, CDX search, fetch, compare, insert | SHA-1 prefilter; revised documents at the same URL; damaged downloads; lost race |
| reparse (`pipeline/reparse.py`, `pipeline/spans.py`) | rows of `span`, `span_state`, `speaker`, `mandate` | select, read and hash, lock and look again, parse, resolve, insert, commit | two runs on one document; failure in the middle; speakers shared by documents |
| tables (`store/models.py`, `migrations/`) | the rows, locks | UNIQUE keys, foreign keys, `forbid_mutation`, hash trigger, attestation trigger | the waiting and the visibility rules of READ COMMITTED |
| WORM store (`store/worm.py`) | object versions | put (always a new version), get (exactly the pinned one) | lost, unreachable or altered objects |
| pass driver (`cli.py`) | counters, streak, exit code | loop, circuit breaker, exit code | alarms, errors and the breaker compete for one exit code |
| Save Page Now client (`archive/archiver.py`, `throttle.py`, `retry.py`) | the limiter's `last_call`, the HTTP client, retry and poll counters | acquire a turn, POST, poll, back off | an order taken whose answer is lost; "pending" without end; a turn taken too early after a sleep; limits that multiply |
| CDX look-up (`archive/wayback_lookup.py`) | limiters | search, fetch | transient or permanent, timeouts |
| time-stamping clients (`timestamp/`) | failures of the last call | chain of authorities, token verification | ASN.1 and X.509 parsing |
| adapter and parser (`ingest/`) | the cursor and the list so far | discover, fetch, normalize, parse | cursors that repeat; where a turn begins and ends |
| verification, status, API (`pipeline/verify.py`, `store/status.py`, `store/read.py`, `serving/`) | what a request has read so far | verify, span with context, source, search page by page, five counts | several statements per answer, between which passes commit and objects are lost or altered |
| configuration and wiring | none | environment, construction | none for a model |

The passes are separate commands, each run started by hand; nothing runs on a timer
(`docs/betrieb.md`, lines 63 and 285). They share nothing but the database and the WORM
store, do not talk to each other, and derive what is left to do from the rows that are
missing.
Several runs of a pass at the same time are expected by the code (comments at
`pipeline/timestamp.py:85`, `pipeline/attest.py:143`, `store/reparse.py:12`).

What makes each correct: ingest secures a document once and refers to bytes that
are there; timestamp and attest write only rows that are true of those bytes;
capture does not order twice within the cool-down; reparse quotes an attested
document completely, once, from the hashed bytes; the adapter discovers the whole
list or says that it could not, and quotes nobody with another's words; the client
of the archive orders no more often than it may and ends; the driver does not hide
an alarm; the read side never says "ok" of what is not, and no answer mixes two
states of the ledger into a wrong one; and work that failed is done by a later run.

## 2. Modules

    World ── Ledger ─┬─ Ingest ────┐
                     ├─ Timestamp ─┤            ┌─ Progress ───┬─ MCPipeline
                     ├─ Capture ───┼─ Pipeline ─┼─ Invariants ─┘
                     ├─ Attest ────┤            └─ Reading ───── MCReading
                     └─ Reparse ───┘
    PassRun ─────┬─ Command
    SavePageNow ─┘
    DipAdapter ──── MCDipAdapter

    abstract:  Evidence     implemented by Pipeline
               ArchiveCall  used by Pipeline (Capture), implemented by Command

    SecureProofs ─┬─ ArchiveProofs ─┬─ PipelineProofs ─┬─ CaptureProofs
                  └─ ReparseProofs ─┘                  └─ ReadingProofs
    CommandProofs, DipProofs

* **World** — what wortlaut does not control, modelled from how the code uses it:
  documents behind URLs that may be replaced, the archive's snapshots, the CDX
  index that lags behind, the clock. A byte string stands for its SHA-256 (taken
  to be collision free); its SHA-1 is the constant function `Sha1`, which may map
  different byte strings to the same digest.
* **Ledger** — the WORM store and the tables. `worm[v]` is object version `v`;
  `missing` and `altered` are the faults it can have. The tables hold committed
  rows only. `held` are the row locks of open transactions on `source`: an
  insert with a foreign key takes FOR KEY SHARE, reparse takes FOR UPDATE, and
  the two wait for each other. Rows are passed by value because the tables are
  append-only; a row that could otherwise equal another one carries the run that
  wrote it (`by`) or the source it was made for (`origin`), so that a duplicate
  row is a duplicate in the model too.
* **Ingest, Timestamp, Capture, Attest, Reparse** — one per pass. The state of run
  `r` is a record: its place (`pc`) between two awaits, the rest of its pending
  list, the source in hand and its local variables. An action is what happens
  between two awaits that matter: a database statement, a WORM call, a request.
  An insert is split into *flush* (unique and foreign keys are checked, locks
  are taken, a conflict or a wait happens) and *commit* (the row becomes
  visible), because other runs act in between. Each has an abort: the process
  dies, an exception leaves the loop, or the breaker stops it; the server rolls
  the transaction back and the next start of the command is a new run.
* **Pipeline** — all passes, any number of runs of each, over one ledger; the
  safety properties.
* **Evidence** — the abstract specification: what the ledger promises about a
  document, without runs, transactions and storage. `Pipeline!Promise` is the
  refinement mapping, `KeepsPromise` the claim.
* **Progress** — fairness and liveness.
* **Reading** — the read API and the status command beside the passes. A request is a
  sequence of statements and WORM reads, each a step; the passes commit in between.
  A reader writes nothing and takes no lock, so requests do not meet each other and
  one at a time stands for all.
* **PassRun** — one run of ingest or of a pass as the operator sees it: the list,
  outcomes, counters, circuit breaker, exit code.
* **SavePageNow** — the archiver of one run of capture: limiter, HTTP client, POST,
  polls, retry with backoff, in discrete time; and the service, which takes an order
  whether or not its answer arrives and carries it out when it likes.
* **Command** — PassRun with the archiver it drives: a source of a capture run is a
  call, and limiter and client outlive it.
* **ArchiveCall** — the abstract specification of one call of the archiver. It is the
  joint between two levels: Capture uses no more than it promises
  (`Pipeline!AssumesCall`) and the client keeps it (`Command!KeepsCall`), so that
  Capture need not know of polls and limiters.
* **DipAdapter** — one call of the adapter for plenary protocols: `discover` page
  by page, or `parse` of one frozen text. A text is a sequence of tokens (a
  speaker's marker, the chair's, an agenda header, a word, white space), each one
  position long: what the regular expressions find, not how. What is found is named
  by its place: a document by its page and place on it, a segment by the position of
  its marker; the lists of the code are in that order.
* **Invariants** — the inductive invariant `IInv`.
* **MCPipeline**, **MCReading**, **MCDipAdapter** — values of the constants for TLC.
* the modules that end in `Proofs`, see section 5.

Some operators are introduced by a comment "Mutant": they are plausible mistakes
in the definition below them (a guard dropped, an off-by-one, a missing reset).
No module uses them; with such an operator in place of the definition, TLC finds
the property that PROJECT.json names with it violated. They show that the
properties are about the code.

### Correspondence

PROJECT.json, "map", gives the lines of each definition. The choices worth
knowing:

* Every pass first reads the pinned version and compares its hash
  (`CheckBytes`); the outcome is nondeterministic only through the faults.
* `Oldest` and `IsFirst` are ORDER BY created_at, id with LIMIT and the loop in
  that order. `created_at` is modelled by the order of creation.
* A unique index makes a second insert *wait* for an uncommitted row with the
  same key and refuse it when a committed one exists. Flush has the wait as a
  guard and the refusal as a branch.
* The trigger of `source_archive` raises an exception that is not an
  IntegrityError (`store/attestations.py:94`), so a refused row ("refused") ends
  the run; `AttestReportsTrue` says that it never comes to that.
* Reparse runs one transaction per source. Its uncommitted rows (`newSpans`,
  `newSpeakers`, `newMandates`) live in the run until commit. The parser's result
  is the constant `Speeches`: it is deterministic in the bytes.
* `CaptureSelect` decides the cool-down with a `now` that `cli.py:473` reads on the
  application host before migrations and bootstrap, while `requested_at` is the
  database's clock: `now` is anything up to `clock + MaxSkew`, stale or ahead.
* The retry of capture repeats the attempt from the POST on, which is what
  `with_retry` is given. In Capture the polls of one attempt are one step for each
  outcome (success, permanent error with the poll limit among them, transient
  error); in SavePageNow they are single. An order the client gives up is not
  carried out later in Pipeline; a crawl (`Crawled`) stands for that.
* In SavePageNow the limiter gives a turn *before* the client is built, as the code
  does, and building it (a name look-up) may take its time: what is spaced is the
  turns, and `TurnsSpaced` says so. `sinceTurn` is a history variable that the
  limiter does not see. A sleep may last longer than asked.
* In Reading, `Citable` is `_PUBLIC_FILTER` with its joins. Span ids are random, so the
  order of a day's spans is any (`Orders`), but the same in every page, for the query
  breaks ties by id. `SearchPage` is a page with the default or the capped limit; the
  client turns pages until one is empty. Full-text matching and filters are stateless
  conditions on a row; the filter by speaker stands for them.
* verify looks at the *first* time-stamp row by `created_at`, which is the begin of a
  transaction, so that any row of the source may be it.
* An adapter error of ingest changes no state and is left out.
* `StampAsk` is one round of `FallbackTimeStamper.stamp`: the next authority of
  `Chain` answers with a token over any bytes and by any signer, or with nothing
  that parses (`Answers`; time-outs and refused bodies are among the latter), and
  `VerifyToken` decides. Only the token that verified reaches the WORM store.
* The texts `parse` is checked on are those `_canonicalize` can leave: no blank line
  first, last or twice in a row, a line break at the end.
* In PassRun a run of ingest may end with 2 before its loop (`NoList`: discovery
  fails or a source has no legal basis). Configuration errors, which end any
  command with 2 before it does anything, are left out.

## 3. Runs

Bounds common to all runs of Pipeline and Reading: two byte strings (a document and
its revision), one URL, up to two runs of a pass. Two runs are enough for every race
in this code: each conflict is between an insert and *one* other row, and a lock has
one holder. The proofs (section 5) are for any number. Pipeline_four has two runs of
ingest that are alike and interchangeable, which TLC uses as a symmetry (its properties
are safety only); the document behind the URL is either of the two and stays while they
run, since a document replaced between two fetches makes the races of one hash rarer;
the proofs let it change at any time. `MaxVersions` is chosen so
that every run can put what it wants plus what a crash loses; `MaxFaults` and
`MaxCrashes` are 0 or 1, so that the fault can hit any version at any time and the
crash any run at any place. CHECK_DEADLOCK is FALSE throughout: everything may be done.

Capture_race has one attempt per call, because two overlapping runs with retries do
not fit; retries are in Capture_orders (two) and Command (three), and
CaptureProofs is for any number. `MaxSkew = 1` lets a host be ahead by as much as
the shorter cool-down, and stale by as much as the clock has run.

Reading has one request at a time (section 2) and one run of each pass beside it.
The documents are of two days and two speakers, and a page is one row long, the
shortest a client can get, so that rows can shift across every border of a page; that
a limit of 0 or less means the default is the case the run has. Longer pages have
fewer borders, and doubling the limits doubles the run.

In Command a list has up to four sources with a breaker at two failures or switched
off, so that it can trip late, at the end, or after a success in between. The time is
in ticks: an interval of three between turns, a backoff of 1, 2 ticks, two polls per
attempt, three attempts; so a backoff may end before or after the interval has.

Three cursors and three pages give every shape a chain of cursors has: an end, a
repetition, a cycle, one page too many. Six lines hold three turns with a header, a
blank line or a turn of the chair between any two.

| run | question | result |
|---|---|---|
| Timestamp_race | two runs, two sources, two authorities that may answer anything, faults: `TokensBind`, `OneTokenPerTsa`, `StampReportsTrue` | holds |
| Capture_race | two overlapping runs on hosts with stale or fast clocks, a crash: `CooldownRespected`, `OrdersBounded`, `CapturedBacked`, `AssumesCall` | holds |
| Capture_orders | is there one row per order, as `store/models.py` says? | **violated** |
| Archive_race | two runs of attest and two of reparse at once, SHA-1 collides, a draft the database refuses after others were inserted: `AttestationsProved`, `OneAttestation`, `AttestReportsTrue`, `SpansComplete`, `SpansVerbatim`, `SpeakersExist`, `ReparseReportsTrue` | holds |
| Reparse_speakers | two runs: `UniqueSpeaker`, as `store/spans.py` says? | **violated** |
| Pipeline_four | two runs of ingest on one URL beside one each of timestamp, attest and reparse, over a new and an attested document with a common speaker: `IInv`, `UniqueHash`, `RefsResolve`, `IngestReportsTrue`, `UniqueSpeaker`, `KeepsPromise` | holds |
| Progress | timestamp, attest and two reparse runs under fairness, see section 4: `EventuallyAttested`, `EventuallyQuoted`, `EventuallyStamped` | holds |
| Reading | verification, search page by page, a span in its context and status, while passes commit and an object is lost or altered: `ChainOfEvidence`, `DestroyedProofShows`, `VerdictsFair`, `BacklogNotOverstated`, `ContextWhole`, `PagesMissNothing` | holds |
| Command | a run of every command, with the archiver in a run of capture: `CommandTypeOK`, `BreakerExact`, `ExitCodeTrue`, `BreakerBoundsPosts`, `TurnsSpaced`, `KeepsCall`, `RunEnds` | holds |
| PassRun_alarm | does an alarm always end in exit 4, as the specs say? | **violated** |
| DipAdapter | three cursors in every arrangement with three pages allowed; every text of up to six lines: `DiscoversAll`, `QuotedAsSpoken`, `FiledUnderOpenItem` | holds |
| DipAdapter_empty | is no draft empty, as `docs/adapter-konformitaet.md` says? | **violated** |

What the newer ones mean to an operator. `CooldownRespected`: runs that overlap may
both order (the cool-down is decided when a run selects), but no run comes back to a
source before a cool-down is over. `BreakerBoundsPosts`: between two sources that end
the streak of failures a run sends at most `consecutive_failure_limit *
retry_attempts` orders. The streak ends with a capture, but also with
`already_archived`, `worm_missing` and `hash_mismatch`, so that a dead archive may get
more orders than that from a run that meets such sources in between.
`ChainOfEvidence`: an "ok" of verify is earned by what the store returned to it — the
bytes the span was quoted from and the archive shows, never an object altered before
the client asked — and an ok of the time-stamp by a token that was read and binds
those bytes, although the answer is put together from five reads.
`DestroyedProofShows`: a time-stamp the source had is never reported as missing because
its token is lost, for timestamp would not make another; the one exception is an answer
without the bytes, which looks for no token. `PagesMissNothing`: a client that pages until an empty page
sees every span that was there when it began; one that stops at the first `total`
may not, which is listed as a hazard. `BacklogNotOverstated`: the five counts of
status may describe no single moment, but what an operator computes from them never
claims more work done than there is; with another order of the five it would.

The four violations are differences between the code and what its documents say of
it (PROJECT.json, "findings"):

1. *One row per order.* A timeout after Save Page Now has accepted the POST makes
   `with_retry` POST again; the row that is written stands for both orders.
   `OrdersBounded` is what does hold: at most `retry_attempts` orders per row, per
   run at work and per run that died.
2. *One speaker per name.* Two reparse runs on different sources both find nobody
   and both insert. With one run at a time the claim holds (Pipeline_four).
3. *Exit 4 for an alarm.* The breaker returns 3 before the alarm counters are
   looked at. What holds: exit 0 is always an all-clear and an alarm never ends
   as an ordinary error.
4. *No empty draft.* `docs/adapter-konformitaet.md` demands `text_start < text_end` of
   every draft; a speaker's marker with only white space behind it gives one with
   equal offsets, which `chk_offsets` refuses, so that the document is not quoted.
   What holds (`OnlySilenceIsEmpty`, proved): only a turn in which nothing is said is
   empty.

## 4. Liveness and fairness

`FairSpec` assumes weak fairness of each run's steps and of the CDX index. Starting a
run counts as a step: the properties are conditional on an operator who runs the
passes again as long as there is work, which the documents ask for
(`docs/betrieb.md:109-111`, `docs/deploy.md:180-181`) and no timer guarantees. There is
no fairness on the success of anything: the properties read "if mishaps (crashes,
unreachable services, garbled downloads, parser failures) end at some time, then ...",
`EventuallyCalm => ...`. Weak fairness suffices, since a run that waits for a lock is
enabled for good once the holder is done, and PostgreSQL grants the lock then.

* `EventuallyAttested` (`docs/deploy.md`: "ein späterer Lauf holt das nach"): a
  source whose bytes the archive holds gets attested. Here SHA-1 is injective:
  with colliding documents and no more than `max_candidates` fetches per run,
  the wrong snapshot could be tried first in every run.
* `EventuallyQuoted`: an attested source with text and at least one dated speech
  gets its spans.
* `EventuallyStamped` (`specs/0076`, 4.7: "der nächste Lauf holt sie nach"): every
  source is stamped. A mishap is that *all* authorities fail; the first of the two
  may fail every time.

The run Progress checks them with one run of timestamp and attest and two of
reparse, which wait for each other's row locks and may die holding one. Two runs of
timestamp beside each other are in Timestamp_race, for safety only: with them the state
space of Progress is too large. Capture
is left out of Pipeline_four and Progress: it writes a table no other pass reads,
and its only effect on the others, a snapshot, is what `Crawled` brings.

`RunEnds` (run Command) says that every run of a command ends, even if the service
answers "pending" for ever or every answer is lost: polls, attempts and the list are
finite and no wait depends on the service. `CommandSpec` assumes weak fairness of the
program — the process runs on, and a request ends with an answer or an error — and that
time passes, so that a sleep ends. That a request ends is an assumption: the 30 s of the
client (`archive/pinned.py:40`) bound each connect, read and write, not the request as a
whole, so that a server which sends a byte now and then could hold it. Exceptions that
are not handled (`Uncaught`) end a run too, but fairness does not ask for them: a step
that blocked for ever would be found.

Progress takes `Limit = 0` and `MaxFaults = 0` on purpose. With `--limit n`, or
with a breaker that trips first, n sources at the head of the list that fail for
good (an altered object, a draft with empty offsets) are chosen first by every
run and starve those behind them. That is a consequence of the selection, is
listed as a hazard, and no document claims otherwise.

## 5. Proofs

TLAPS checks, for every value of the constants that satisfies the named
assumptions:

| theorem | statement |
|---|---|
| *PipelineProofs* | |
| `Inductive`, `Types` | `Spec => []IInv`, `Spec => []TypeOK` |
| `EachDocumentOnce` | `Spec => []UniqueHash` |
| `NoDanglingReference` | `Spec => []RefsResolve` |
| `TokensBindSources`, `SignedOnce` | `Spec => []TokensBind`, `Spec => []OneTokenPerTsa` |
| `AttestationsTrue`, `AttestedOnce` | `Spec => []AttestationsProved`, `Spec => []OneAttestation` |
| `SpansAllOrNothing`, `QuotedFromBytes` | `Spec => []SpansComplete`, `Spec => []SpansVerbatim` |
| `IngestReports` | `Spec => []IngestReportsTrue` |
| `PromiseKept` | `Spec => KeepsPromise`: Pipeline implements Evidence |
| `StampReports`, `AttestReports`, `ReparseReports` | `Spec => []StampReportsTrue`, and so on |
| `SpeakersAreThere` | `Spec => []SpeakersExist` |
| `OneSpeakerPerName` | `Spec => []UniqueSpeaker`, if there is one reparse run at a time |
| *CaptureProofs* | |
| `CaptureBacked` | `Spec => []CapturedBacked` |
| `CooldownKept` | `Spec => []CooldownRespected`, if `MaxSkew` is at most each cool-down |
| `CallAssumed` | `Spec => AssumesCall`: Capture uses no more than ArchiveCall |
| `OrdersAreBounded` | `Spec => []OrdersBounded`, if `MaxSkew` is at most each cool-down |
| *ReadingProofs* | |
| `NeverFalseOk`, `LossShows` | `ReadSpec => []ChainOfEvidence`, `ReadSpec => []DestroyedProofShows` |
| `NoFalseVerdict` | `ReadSpec => []VerdictsFair` |
| `WholeContext` | `ReadSpec => []ContextWhole` |
| `StatusHonest` | `ReadSpec => []BacklogNotOverstated` |
| `NothingSkipped` | `ReadSpec => []PagesMissNothing` |
| *CommandProofs* | |
| `CommandTypes` | `CommandSpec => []CommandTypeOK` |
| `BreakerCounts`, `ExitTrue` | `CommandSpec => []BreakerExact`, `CommandSpec => []ExitCodeTrue` |
| `OrdersBeforeBreak` | `CommandSpec => []BreakerBoundsPosts` |
| `NoBurst` | `CommandSpec => TurnsSpaced` |
| `ClientKeepsCall` | `CommandSpec => KeepsCall`: the client implements ArchiveCall |
| *DipProofs*, of DipAdapter | |
| `WholeListOrNone` | `Spec => []DiscoversAll` |
| `EveryWordQuoted` | `Spec => []QuotedAsSpoken` |
| `OpenItem` | `Spec => []FiledUnderOpenItem` |
| `OnlySilenceIsEmpty` | `Spec => []EmptyOnlyIfSilent` |

The argument. None of the properties is inductive alone: that a committed row is
right depends on what the run had in hand when it wrote it. `IInv` therefore says
of each run, by its place, what it holds (`IngestHand` ... `ReparseHand`): past the
hash comparison the bytes are the ledger's; past the put the version holds them;
past the flush no other row, committed or not, has the key; under the lock the
source has no spans and no other transaction writes any, and the uncommitted
spans are exactly those of the drafts so far. `Tables` collects the properties
themselves and that every row hangs from a source. Initiation is `InitIInv`. For
the step, a frame argument keeps the proof linear in the number of passes: each
`...Moves` lemma shows that a step of one pass preserves that pass's own clause
and the tables, and the frame lemmas at the head of SecureProofs show that the clauses of the other
passes survive any step that only *adds* rows, versions and listed snapshots
and takes nothing away. SecureProofs goes on with ingest and timestamp,
ArchiveProofs has capture and attest, ReparseProofs reparse; PipelineProofs
adds the world, the WORM faults and the aborts and puts them together.

What rests on it:

* *The refinement.* `PromiseCases` says that the rows Evidence looks at change only by
  a commit or by the CDX index; each of these is one action of Evidence, because the
  run's hand (`IInv`) says that the row it commits is new, rooted and complete.
* *Reports.* The ledger only grows and an altered object stays altered (`Growth`), so a
  report that was true stays true; the hand says that it was.
* *Speakers.* A transaction's mandates and speakers are its own or committed
  (`SpeakersExist` strengthened by what `newSpans`, `newMandates` and `who` refer to).
  That a name has one speaker needs more: `NamesInv` says that the rows of a
  transaction and the committed ones together have no two of a name, which a commit of
  somebody else would break. The hypothesis, no two runs of reparse, cannot be spared:
  Reparse_speakers is the counterexample.
* *Capture.* `BackedHand`: from the order on, the order of this run is in the history,
  and from its execution on the snapshot is there. For the cool-down, `CoolHand`:
  no row a run has written keeps the sources on its list, or the one in hand, from
  being ordered (`Free`): they were free when it selected them, time only goes on, and
  the rows others write cannot make them less free. Here the assumption on `MaxSkew`
  enters: a host ahead of the database by more than a cool-down would order again at
  once.
* *The load on the archiver.* `OrderInv` is `OrdersBounded` with the attempts that are
  really spent, `Spent`, where the property counts `Attempts` for every run at work: a
  POST adds one order and one spent attempt; a crash forgets at most `Attempts` of them
  and is counted itself; a commit forgets as many and adds a row. That the row is a new
  one (`FreshRow`) is `CoolHand`, hence the same hypothesis on the clocks. A run that
  leaves its source without a row (already archived, or the search failed) has ordered
  nothing (`CallInv`).
* *The read side.* Reading takes no step of Pipeline away (`ReadIsSpec`), so all
  invariants above hold in it; what a request learned of a span (it may be shown,
  its source, a row of its time-stamps) stays true because rows are never taken back
  (`ReadHand`). `OkEarned` says what an ok was said of: the bytes that came back are
  the ledger's, hence not those of an altered object (`LedgerAssumption`: garbled bytes
  are no document), and the token that came back verified, whatever the row promised;
  `LossShows` holds because a source once stamped stays stamped, so that verify finds a
  row and then either a verdict or "unreadable". `WholeContext` needs `SpansComplete`: had reparse made spans visible one
  by one, a context could be cut in half. `StatusHonest`: what the
  counts taken so far claim is no more than what is done (`CountsFair`), and a claim
  once true stays true because work is only added (`FairStays`); with another order of
  the five counts the first part fails. `NothingSkipped`: `Place` is the number of
  matches before a row, and `PageInv` says that every row that was due and stands
  before the offset has been seen. New rows only push a row back (`PlaceGrows`), a page
  is long enough for the places it covers (`RowsBetween`), and an empty page means
  that nothing stands behind it either (`EmptyPage`).
* *The command.* `StreakIs` and `CountIs` tie the counters the code keeps to the list of
  outcomes. `TurnInv`: the limiter's `last_call` is never older than the last turn it
  really gave. `PostInv`: orders since the streak last ended are at most `Attempts` for each
  source of the streak plus those of the call in hand (`Used`). `CallTold`: what the
  client has counted and heard is what the service has taken and done.
* *The adapter.* `DiscoverInv`: the cursors so far form a path no page of which is the
  last (`Walked`), and the list is what the pages of the path hold (`FoundTo`). For
  `parse`, the positions between a marker and the end of its turn are those whose
  last marker it is (`InTurn`), and trimming leaves out white space only
  (`TurnTrimmed`); a header between the marker and the text would be text.

Assumptions: those named `...Assumption` in the modules. They say that the seed is
a sequence of rows with distinct hashes, that the special values differ from byte
strings, that bounds are numbers and that runs are runs. `Attempts` is at
least 1: the setting `retry_attempts` is not validated by the code, and 0 would
end in its "unreachable" assertion. `Chain` is a sequence of
authorities that is not empty (`timestamp/tsa.py:129` refuses an empty one). Nothing
is assumed about `Sha1`, `Speeches` beyond its type, or the number of runs.

`BackoffAssumption` says that the backoffs are numbers; it is true, and stated because
the provers do not know powers.

That tables, orders and runs at work are finite sets, which counting them needs, is
not assumed but part of the invariants (`FiniteSources`, `Countable`): every step adds
one row at most. `IsFiniteSet(Bytes)` is assumed, for the rows a search may ever show;
byte strings of bounded length are finitely many.

Model-checked only: liveness (`EventuallyAttested`, `EventuallyQuoted`,
`EventuallyStamped`, `RunEnds`), which needs fairness and ENABLED. All invariants, action
properties and refinements of the passing runs are proved. The four runs that expect
a violation need no proof: their counterexamples are behaviours of the model.

## 6. Not modelled, and why

* *Migration 0006 beside an old writer.* It counts spans of unattested sources and
  then creates the trigger; a span inserted in between by the previous version of the
  program would slip through. That program is not in the repository, so the old
  writer cannot be modelled from its source. The other migrations only create what Ledger has from the start.
* *Starvation.* With `--limit n`, or with a breaker that trips first, n sources that fail
  for good starve those behind them (section 4). It follows from the selection alone.
* *archive.today, `archive_all`, `DisableAfterFailures`.* Built and closed by the
  program, called by no command: they have no behaviour.
* *The limiter and the retries of the CDX look-up.* The same classes as those of
  SavePageNow; in Capture and Attest a search or a fetch has a result or an error.
* *The adapter conformance suite* checks adapters and keeps no state. It would only
  repeat what DipAdapter says of `discover` and `parse`.
* *PDF extraction and regular expressions, ASN.1, X.509, HTTP header checks, SSRF checks,
  query parsing, full-text search.* Conversions and checks without state. The
  segmenter yields an empty segment for a turn in which nothing is said
  (DipAdapter_empty); the constant `Speeches` carries it into Archive_race as a draft
  that is not `sane`.
* *Argument parsing, configuration, logging.* The settings are constants. Some are not
  validated by the code (`spn2_poll_interval` of 0, `retry_attempts` of 0); the
  assumptions leave those out and name them.
* The table `ingest_adapter`: nothing depends on it; reparse selects by adapter name, and
  one adapter exists. The check that a source's bytes match is exact in the model
  because SHA-256 is taken to be collision free.

## 7. Plan

Done, in this order: World and Ledger; the five passes, the chain of time-stamping
authorities included; Pipeline and its safety properties; Evidence and the
refinement; Progress; PassRun; DipAdapter; `IInv` and its proof; SavePageNow, Command
and the contract ArchiveCall between them and Capture; Reading; the proofs of the
refinements, the reports, capture, the read side, the command and the adapter.

What could come next: several readers, once requests share state (a cache, a pool with
a limit); `archive_all`, once a command calls it; the old writer beside migration 0006,
should its source be at hand.
