----------------------------- MODULE SavePageNow -----------------------------
(***************************************************************************)
(* archive/archiver.WaybackArchiver with its RateLimiter (archive/throttle)*)
(* and with_retry (archive/retry), over the successive calls of one run of *)
(* capture: the waits, the POST of an order, the polls, and which error    *)
(* ends a call.                                                            *)
(*                                                                         *)
(* Time passes in ticks.  A sleep ends when its time is over or later,     *)
(* never earlier; a request takes as long as it likes.                     *)
(***************************************************************************)
EXTENDS Naturals

CONSTANTS
  MinInterval,   \* wayback_min_interval
  Attempts,      \* retry_attempts
  BaseDelay,     \* retry_base_delay
  PollInterval,  \* spn2_poll_interval
  PollTimeout    \* spn2_poll_timeout

\* The settings are not validated: with an interval of 0 the number of polls is
\* a division by zero, without attempts with_retry ends on its AssertionError.
ASSUME SavePageNowAssumption ==
  /\ MinInterval \in Nat /\ BaseDelay \in Nat /\ PollTimeout \in Nat
  /\ PollInterval \in Nat \ {0}
  /\ Attempts \in Nat \ {0}
\* True of every natural number; stated because the provers do not know powers.
ASSUME BackoffAssumption == \A n \in 0..Attempts : BaseDelay * 2^n \in Nat

VARIABLES
  call,      \* the call in progress
  lastCall,  \* the limiter's last_call, as its age; MinInterval: that or more
  client,    \* whether the httpx client exists
  sinceTurn  \* history: the age of the last turn the limiter really gave

archiverVars == <<call, lastCall, client, sinceTurn>>

Sleeping == {"queueing", "napping", "backing_off"}
Asking == {"posting", "polling"}
Ended == {"archived", "failed"}

\* attempt: with_retry's count of the attempts that failed; polls: those of
\* this attempt; wait: what is left of the sleep; job: the order as the service
\* has it.
Call == [pc : {"none", "turn", "build"} \cup Sleeping \cup Asking \cup Ended,
         attempt : 0..Attempts, polls : Nat, wait : Nat,
         job : {"none", "taken", "done"}]

NoCall == [pc |-> "none", attempt |-> 0, polls |-> 0, wait |-> 0, job |-> "none"]

ArchiverTypeOK ==
  /\ call \in Call
  /\ lastCall \in 0..MinInterval
  /\ client \in BOOLEAN
  /\ sinceTurn \in 0..MinInterval

\* The first call never waits.
ArchiverInit ==
  /\ call = NoCall
  /\ lastCall = MinInterval
  /\ client = FALSE
  /\ sinceTurn = MinInterval

\* with_retry calls the attempt function.
StartCall ==
  /\ call.pc = "none"
  /\ call' = [NoCall EXCEPT !.pc = "turn"]
  /\ UNCHANGED <<lastCall, client, sinceTurn>>

\* acquire is over; the POST is sent at once if there is a client to send it.
TakeTurn ==
  /\ call' = [call EXCEPT !.pc = IF client THEN "posting" ELSE "build",
                          !.wait = 0, !.polls = 0]
  /\ sinceTurn' = 0
  /\ UNCHANGED client

\* RateLimiter.acquire, the minimum interval over already.
Acquire ==
  /\ call.pc = "turn"
  /\ lastCall = MinInterval
  /\ lastCall' = 0
  /\ TakeTurn

\* The same, not over: sleep for the rest of it.
AcquireWait ==
  /\ call.pc = "turn"
  /\ lastCall < MinInterval
  /\ call' = [call EXCEPT !.pc = "queueing", !.wait = MinInterval - lastCall]
  /\ UNCHANGED <<lastCall, client, sinceTurn>>

\* Mutant: after the sleep, last_call is not set.
AwakeForgetful ==
  /\ call.pc = "queueing" /\ call.wait = 0
  /\ UNCHANGED lastCall
  /\ TakeTurn

\* After the sleep last_call is the time now, not the one before it.
Awake ==
  /\ call.pc = "queueing" /\ call.wait = 0
  /\ lastCall' = 0
  /\ TakeTurn

\* _client_or_create resolves the host's name, and may take its time over it.
BuildClient ==
  /\ call.pc = "build"
  /\ client' = TRUE
  /\ call' = [call EXCEPT !.pc = "posting"]
  /\ UNCHANGED <<lastCall, sinceTurn>>

\* The service takes the order, whether its answer arrives or not, and carries
\* it out when it likes.
ServiceTakes ==
  /\ call.pc = "posting" /\ call.job = "none"
  /\ call' = [call EXCEPT !.job = "taken"]
  /\ UNCHANGED <<lastCall, client, sinceTurn>>

ServiceCaptures ==
  /\ call.pc \in {"posting", "napping", "polling"} /\ call.job = "taken"
  /\ call' = [call EXCEPT !.job = "done"]
  /\ UNCHANGED <<lastCall, client, sinceTurn>>

Nap == [call EXCEPT !.pc = "napping", !.wait = PollInterval]

\* The answer to the POST holds a job id.
JobGiven ==
  /\ call.pc = "posting" /\ call.job # "none"
  /\ call' = Nap
  /\ UNCHANGED <<lastCall, client, sinceTurn>>

Poll ==
  /\ call.pc = "napping" /\ call.wait = 0
  /\ call' = [call EXCEPT !.pc = "polling"]
  /\ UNCHANGED <<lastCall, client, sinceTurn>>

\* A poll says success and names the snapshot.
PollSuccess ==
  /\ call.pc = "polling" /\ call.job = "done"
  /\ call' = [call EXCEPT !.pc = "archived"]
  /\ UNCHANGED <<lastCall, client, sinceTurn>>

\* At least one poll, whatever the timeout.
MaxPolls == IF PollTimeout < PollInterval THEN 1 ELSE PollTimeout \div PollInterval

\* Mutant: polling goes on until there is an answer.
PollPendingForever ==
  /\ call.pc = "polling"
  /\ call' = [Nap EXCEPT !.polls = IF @ < MaxPolls THEN @ + 1 ELSE @]
  /\ UNCHANGED <<lastCall, client, sinceTurn>>

\* Any other state is "pending"; with the last poll that is capture_timeout,
\* which is permanent.
PollPending ==
  /\ call.pc = "polling"
  /\ call' = [(IF call.polls + 1 < MaxPolls THEN Nap
                                            ELSE [call EXCEPT !.pc = "failed"])
                EXCEPT !.polls = @ + 1]
  /\ UNCHANGED <<lastCall, client, sinceTurn>>

\* Mutant: a status is looked at only if it names a snapshot.
PermanentErrorOptimistic ==
  /\ call.pc \in Asking
  /\ call' = [call EXCEPT !.pc = IF @ = "polling" THEN "archived" ELSE "failed"]
  /\ UNCHANGED <<lastCall, client, sinceTurn>>

\* 401 and most of 4xx, no JSON, no job id, a status_ext not listed as
\* transient, a success without snapshot data or with a foreign host.
PermanentError ==
  /\ call.pc \in Asking
  /\ call' = [call EXCEPT !.pc = "failed"]
  /\ UNCHANGED <<lastCall, client, sinceTurn>>

\* Mutant: the last attempt is followed by one more.
TransientErrorOneMore ==
  /\ call.pc \in Asking \cup {"build"}
  /\ call' = [call EXCEPT !.pc = IF call.attempt < Attempts THEN "backing_off" ELSE "failed",
                          !.attempt = IF @ < Attempts THEN @ + 1 ELSE @,
                          !.job = "none", !.wait = BaseDelay * 2^call.attempt]
  /\ UNCHANGED <<lastCall, client, sinceTurn>>

\* 429, 408, 5xx, a timeout, a lost connection, a listed status_ext, or a host
\* that cannot be resolved.  After the last attempt with_retry raises it.
TransientError ==
  /\ call.pc \in Asking \cup {"build"}
  /\ LET missed == [call EXCEPT !.attempt = @ + 1, !.job = "none"]
     IN call' = IF missed.attempt < Attempts
                THEN [missed EXCEPT !.pc = "backing_off", !.wait = BaseDelay * 2^call.attempt]
                ELSE [missed EXCEPT !.pc = "failed"]
  /\ UNCHANGED <<lastCall, client, sinceTurn>>

\* with_retry after its backoff.
TryAgain ==
  /\ call.pc = "backing_off" /\ call.wait = 0
  /\ call' = [call EXCEPT !.pc = "turn"]
  /\ UNCHANGED <<lastCall, client, sinceTurn>>

\* A tick passes, for all clocks.
Older(age) == IF age < MinInterval THEN age + 1 ELSE age
Tick ==
  /\ call' = [call EXCEPT !.wait = IF @ > 0 THEN @ - 1 ELSE 0]
  /\ lastCall' = Older(lastCall)
  /\ sinceTurn' = Older(sinceTurn)
  /\ UNCHANGED client

CallStep ==
  \/ Acquire \/ AcquireWait \/ Awake \/ BuildClient
  \/ JobGiven \/ Poll \/ PollSuccess \/ PollPending
  \/ PermanentError \/ TransientError \/ TryAgain

Service == ServiceTakes \/ ServiceCaptures

-----------------------------------------------------------------------------

\* throttle.py, no burst: from the moment the limiter lets one attempt through
\* to the moment it lets the next one through, of this call or a later one,
\* the minimum interval has passed, however long sleeps and requests take.
TurnsSpaced ==
  [][(call.pc \in {"turn", "queueing"} /\ call'.pc \in {"build", "posting"})
       => sinceTurn = MinInterval]_archiverVars
=============================================================================
