--------------------------- MODULE CommandProofs ---------------------------
(***************************************************************************)
(* One run of a command, for a list of any length and any settings: the    *)
(* breaker counts right, the exit code is true, the limiter keeps its      *)
(* distance, the breaker bounds the orders, and the archiver's client      *)
(* keeps the promise of module ArchiveCall.                                *)
(***************************************************************************)
EXTENDS Command, TLAPS

-----------------------------------------------------------------------------
(* The driver *)

\* The streak is the length of the longest run of failures at the end.
StreakIs ==
  /\ streak <= Len(seen)
  /\ \A i \in (Len(seen) - streak + 1)..Len(seen) : seen[i] \in Failures[pass]
  /\ streak < Len(seen) => seen[Len(seen) - streak] \notin Failures[pass]

\* The counters are those of the outcomes there were.
CountIs == \A o \in AllOutcomes : count[o] > 0 <=> Happened({o})

BreakerInv ==
  limit > 0 =>
    /\ streak <= limit
    /\ phase = "next" => streak < limit
    /\ exit = 3 /\ seen # <<>> => streak = limit

PhaseInv ==
  /\ phase # "done" => exit = Running
  /\ phase \in {"list", "preflight"} => seen = <<>>
  /\ Len(seen) <= pending
  /\ \A i \in 1..Len(seen) : seen[i] \in Outcomes[pass]

RunInv ==
  /\ TypeOK /\ StreakIs /\ CountIs /\ BreakerInv /\ PhaseInv /\ ExitCodeTrue

LEMMA OutcomesOf ==
  ASSUME NEW p \in Passes
  PROVE  /\ Outcomes[p] \subseteq AllOutcomes /\ Failures[p] \subseteq Outcomes[p]
         /\ Alarms[p] \subseteq AllOutcomes /\ "error" \in AllOutcomes
         /\ "error" \in Outcomes[p] => p # "timestamp"
  BY DEF Passes, Outcomes, AllOutcomes, Common, Failures, Alarms

\* Every step but Process leaves the outcomes alone.
Quiet == UNCHANGED <<pass, limit, pending, seen, count, streak>>

LEMMA QuietStep ==
  ASSUME RunInv, Quiet, NoList \/ DryRun \/ Begin \/ Preflight \/ Breaker \/ Finish
                          \/ Raise
  PROVE  RunInv'
<1>1. TypeOK'
  BY DEF RunInv, TypeOK, Quiet, NoList, DryRun, Begin, Preflight, Breaker, Finish,
     Raise, Stop, ExitCode, Running, Traceback
<1>2. StreakIs' /\ CountIs'
  BY DEF RunInv, StreakIs, CountIs, Happened, Quiet
<1>3. limit \in Nat /\ streak \in Nat /\ Len(seen) \in Nat
  BY PassRunAssumption DEF RunInv, TypeOK
<1>4. phase' # "done" => exit' = Running
  BY DEF RunInv, PhaseInv, NoList, DryRun, Begin, Preflight, Breaker, Finish, Raise,
     Stop
<1>5. phase' \in {"list", "preflight"} => phase = "list"
  BY DEF NoList, DryRun, Begin, Preflight, Breaker, Finish, Raise, Stop
<1>6. PhaseInv'
  BY <1>4, <1>5 DEF RunInv, PhaseInv, Quiet
<1>7. exit' = 3 => \/ Breaker /\ Tripped
                   \/ Preflight
  BY DEF RunInv, PhaseInv, NoList, DryRun, Begin, Preflight, Breaker, Finish, Raise,
     Stop, Running, Traceback, ExitCode
<1>8. phase' = "next" => \/ Begin \/ Preflight
                         \/ Breaker /\ ~Tripped
  BY DEF NoList, DryRun, Begin, Preflight, Breaker, Finish, Raise, Stop
<1>9. Begin \/ Preflight => seen = <<>> /\ streak = 0
  BY <1>3 DEF RunInv, PhaseInv, StreakIs, Begin, Preflight
<1>10. BreakerInv'
  BY <1>3, <1>7, <1>8, <1>9 DEF RunInv, BreakerInv, Tripped, Quiet
<1>11. ExitCodeTrue'
  <2>1. CASE Finish
    <3>1. /\ pass \in Passes /\ Len(seen) = pending /\ exit' = ExitCode
          /\ \A o \in AllOutcomes : count[o] > 0 <=> Happened({o})
          /\ \A i \in 1..Len(seen) : seen[i] \in Outcomes[pass]
      BY <2>1 DEF RunInv, TypeOK, Finish, Stop, CountIs, PhaseInv
    <3>2. Counted(Alarms[pass]) <=> Happened(Alarms[pass])
      BY <3>1, OutcomesOf DEF Counted, Happened
    <3>3. Counted({"error"}) <=> Happened({"error"})
      BY <3>1, OutcomesOf DEF Counted, Happened
    <3>4. pass = "timestamp" => ~Happened({"error"})
      BY <3>1, OutcomesOf DEF Happened
    <3>5. Happened(Alarms[pass] \cup {"error"}) <=>
            Happened(Alarms[pass]) \/ Happened({"error"})
      BY DEF Happened
    <3> QED BY <3>1, <3>2, <3>3, <3>4, <3>5
            DEF ExitCodeTrue, ExitCode, Quiet, Happened
  <2>2. CASE ~Finish
    <3>1. exit' \in {0, 1, 4} => seen = <<>>
      BY <2>2 DEF RunInv, PhaseInv, NoList, DryRun, Begin, Preflight, Breaker,
         Raise, Stop, Running, Traceback
    <3>2. exit' \in {1, 4} => FALSE
      BY <2>2 DEF RunInv, PhaseInv, NoList, DryRun, Begin, Preflight, Breaker,
         Raise, Stop, Running, Traceback
    <3> QED BY <3>1, <3>2 DEF ExitCodeTrue, Happened, Quiet
  <2> QED BY <2>1, <2>2
<1> QED BY <1>1, <1>2, <1>6, <1>10, <1>11 DEF RunInv

LEMMA ProcessStep ==
  ASSUME RunInv, NEW o \in AllOutcomes, Process(o)
  PROVE  RunInv'
<1>1. /\ pass \in Passes /\ limit \in Nat /\ streak \in Nat /\ pending \in Nat
      /\ seen \in Seq(AllOutcomes) /\ count \in [AllOutcomes -> Nat]
      /\ Len(seen) \in Nat /\ exit = Running /\ Len(seen) < pending
  BY PassRunAssumption DEF RunInv, TypeOK, PhaseInv, Process
<1>2. /\ seen' = Append(seen, o) /\ Len(seen') = Len(seen) + 1
      /\ seen' \in Seq(AllOutcomes)
      /\ \A i \in 1..Len(seen) : seen'[i] = seen[i]
      /\ seen'[Len(seen) + 1] = o /\ seen' # <<>>
  BY <1>1 DEF Process
<1>3. TypeOK'
  BY <1>1, <1>2 DEF RunInv, TypeOK, Process
<1>4. StreakIs'
  <2>1. CASE o \in Failures[pass]
    <3>1. streak' = streak + 1 /\ pass' = pass
      BY <2>1 DEF Process
    <3>2. \A i \in (Len(seen) - streak + 1)..Len(seen) + 1 :
            seen'[i] \in Failures[pass]
      BY <1>1, <1>2, <2>1 DEF RunInv, StreakIs
    <3> QED BY <1>1, <1>2, <3>1, <3>2 DEF RunInv, StreakIs
  <2>2. CASE o \notin Failures[pass]
    <3>1. streak' = 0 /\ pass' = pass
      BY <2>2 DEF Process
    <3> QED BY <1>1, <1>2, <2>2, <3>1 DEF StreakIs
  <2> QED BY <2>1, <2>2
<1>5. CountIs'
  <2> SUFFICES ASSUME NEW p \in AllOutcomes
               PROVE  count'[p] > 0 <=> \E i \in 1..Len(seen') : seen'[i] = p
    BY DEF CountIs, Happened
  <2>1. (\E i \in 1..Len(seen') : seen'[i] = p) <=>
          p = o \/ \E i \in 1..Len(seen) : seen[i] = p
    BY <1>1, <1>2
  <2>2. count[p] > 0 <=> \E i \in 1..Len(seen) : seen[i] = p
    BY DEF RunInv, CountIs, Happened
  <2>3. count'[p] = IF p = o THEN count[p] + 1 ELSE count[p]
    BY <1>1 DEF Process
  <2> QED BY <1>1, <2>1, <2>2, <2>3
<1>6. PhaseInv'
  <2>1. \A i \in 1..Len(seen) + 1 : seen'[i] \in Outcomes[pass]
    BY <1>1, <1>2 DEF RunInv, PhaseInv, Process
  <2> QED BY <1>1, <1>2, <2>1 DEF PhaseInv, Process
<1>7. BreakerInv'
  BY <1>1 DEF RunInv, BreakerInv, Process, Running
<1>8. ExitCodeTrue'
  BY <1>1 DEF ExitCodeTrue, Process, Running
<1> QED BY <1>3, <1>4, <1>5, <1>6, <1>7, <1>8 DEF RunInv

LEMMA RunInvStep == ASSUME RunInv, [Next]_vars PROVE RunInv'
<1>1. CASE UNCHANGED vars
  BY <1>1 DEF vars, RunInv, TypeOK, StreakIs, CountIs, BreakerInv, PhaseInv,
     ExitCodeTrue, Happened
<1>2. (NoList \/ DryRun \/ Begin \/ Preflight \/ Breaker \/ Finish \/ Raise) => Quiet
  BY DEF NoList, DryRun, Begin, Preflight, Breaker, Finish, Raise, Quiet
<1> QED BY <1>1, <1>2, QuietStep, ProcessStep DEF Next

LEMMA RunInvInit == Init => RunInv
  BY PassRunAssumption DEF Init, RunInv, TypeOK, StreakIs, CountIs, BreakerInv,
     PhaseInv, ExitCodeTrue, Happened, Running

\* A step of the command is one of the driver, or none.
LEMMA DriverStep == CommandNext => [Next]_vars
  BY DEF CommandNext, Program, RunStep, Uncaught, Probe, CallArchiver, ArchiverWorks,
     Outcome, TimePasses, SaveService, Next

\* If the last n outcomes failed, the streak is at least n.
LEMMA FailedStreak ==
  ASSUME RunInv, NEW n \in Nat
  PROVE  FailedLast(n) <=> n <= streak
<1>1. streak \in Nat /\ Len(seen) \in Nat
  BY DEF RunInv, TypeOK
<1>2. ASSUME FailedLast(n), n > streak PROVE FALSE
  <2>1. Len(seen) - streak \in (Len(seen) - n + 1)..Len(seen)
    BY <1>1, <1>2 DEF FailedLast
  <2> QED BY <1>1, <1>2, <2>1 DEF FailedLast, RunInv, StreakIs
<1>3. n <= streak => FailedLast(n)
  BY <1>1 DEF FailedLast, RunInv, StreakIs
<1> QED BY <1>1, <1>2, <1>3

LEMMA RunInvHolds == CommandSpec => []RunInv
<1>1. CommandInit => RunInv
  BY RunInvInit DEF CommandInit
<1>2. RunInv /\ [CommandNext]_commandVars => RunInv'
  <2>1. UNCHANGED commandVars => UNCHANGED vars
    BY DEF commandVars
  <2> QED BY <2>1, DriverStep, RunInvStep
<1> QED BY <1>1, <1>2, PTL DEF CommandSpec

\* The breaker lets no more than limit sources in a row fail, and stops a run
\* for no other reason.
THEOREM BreakerCounts == CommandSpec => []BreakerExact
<1>1. RunInv => BreakerExact
  <2> SUFFICES ASSUME RunInv, limit > 0 PROVE BreakerExact
    BY DEF BreakerExact
  <2>1. limit \in Nat /\ limit + 1 \in Nat /\ streak \in Nat
    BY PassRunAssumption DEF RunInv, TypeOK
  <2>2. /\ FailedLast(limit) <=> limit <= streak
        /\ FailedLast(limit + 1) <=> limit + 1 <= streak
    BY <2>1, FailedStreak
  <2> QED BY <2>1, <2>2 DEF RunInv, BreakerInv, BreakerExact
<1> QED BY <1>1, RunInvHolds, PTL

\* 0 is the all-clear, and an alarm never ends on another code.
THEOREM ExitTrue == CommandSpec => []ExitCodeTrue
<1>1. RunInv => ExitCodeTrue
  BY DEF RunInv
<1> QED BY <1>1, RunInvHolds, PTL

-----------------------------------------------------------------------------
(* The archiver's client *)

\* Without an order under way, the service has none; and every attempt but the
\* last that failed is one with_retry allows.
CallTold ==
  /\ call.pc = "none" => call.attempt = 0
  /\ call.pc \in {"none", "turn", "queueing", "build", "backing_off"} =>
       call.job = "none"
  /\ call.pc \in {"napping", "polling"} => call.job \in {"taken", "done"}
  /\ call.pc = "archived" => call.job = "done"
  /\ call.pc # "failed" => call.attempt < Attempts

\* last_call is the last turn, and who sleeps sleeps long enough.
TurnInv ==
  /\ lastCall = sinceTurn
  /\ call.pc = "queueing" => MinInterval <= call.wait + sinceTurn

\* ArchiverTypeOK but for the Boolean.
ClientTypes ==
  call \in Call /\ lastCall \in 0..MinInterval /\ sinceTurn \in 0..MinInterval

ClientInv == ClientTypes /\ CallTold /\ TurnInv

LEMMA ClientInvInit == ArchiverInit => ClientInv
  BY SavePageNowAssumption DEF ArchiverInit, NoCall, ClientInv, ClientTypes, Call, Sleeping,
     Asking, Ended, CallTold, TurnInv

\* The steps of a call, each with what it makes of the call.
CallMoves ==
  \/ StartCall \/ CallStep \/ Service \/ Tick
  \/ call' = NoCall /\ UNCHANGED <<lastCall, sinceTurn>>

LEMMA ClientStep ==
  ASSUME [CommandNext]_commandVars
  PROVE  CallMoves \/ UNCHANGED <<call, lastCall, sinceTurn>>
<1>1. CASE UNCHANGED archiverVars \/ UNCHANGED commandVars
  BY <1>1 DEF archiverVars, commandVars
<1>2. CASE Probe
  BY <1>2 DEF Probe
<1>3. CASE CallArchiver \/ ArchiverWorks \/ TimePasses \/ SaveService
  BY <1>3 DEF CallArchiver, ArchiverWorks, TimePasses, SaveService, CallMoves
<1>4. CASE \E o \in AllOutcomes : Outcome(o)
  BY <1>4 DEF Outcome, CallMoves
<1>5. RunStep \/ Uncaught => UNCHANGED archiverVars
  BY DEF RunStep, Uncaught
<1> QED BY <1>1, <1>2, <1>3, <1>4, <1>5 DEF CommandNext, Program

\* A call after an attempt that failed.
LEMMA FailedCall ==
  ASSUME NEW c \in Call, NEW n \in 0..Attempts, NEW delay \in Nat,
         NEW p \in Sleeping \cup Ended
  PROVE  /\ [c EXCEPT !.attempt = n, !.job = "none", !.pc = p] \in Call
         /\ [c EXCEPT !.attempt = n, !.job = "none", !.pc = p, !.wait = delay] \in Call
  BY DEF Call

LEMMA ClientTyped ==
  ASSUME ClientInv, CallMoves
  PROVE  ClientTypes' /\ CallTold' /\ TurnInv'
<1>1. /\ ClientTypes /\ CallTold /\ TurnInv
      /\ Attempts \in Nat \ {0} /\ MinInterval \in Nat /\ PollInterval \in Nat
      /\ call.attempt \in Nat /\ lastCall \in Nat
  BY SavePageNowAssumption DEF ClientInv, ClientTypes, Call
<1>2. CASE StartCall
  BY <1>1, <1>2 DEF StartCall, NoCall, ClientTypes, Call, CallTold, TurnInv
<1>3. CASE call' = NoCall /\ UNCHANGED <<lastCall, sinceTurn>>
  BY <1>1, <1>3 DEF NoCall, ClientTypes, Call, CallTold, TurnInv
<1>4. CASE Acquire \/ Awake
  <2>1. PICK label \in {"posting", "build"} :
          call' = [call EXCEPT !.pc = label, !.wait = 0, !.polls = 0]
    <3>1. call' = [call EXCEPT !.pc = IF client THEN "posting" ELSE "build",
                               !.wait = 0, !.polls = 0]
      BY <1>4 DEF Acquire, Awake, TakeTurn
    <3> QED BY <3>1
  <2>2. lastCall' = 0 /\ sinceTurn' = 0
    BY <1>4 DEF Acquire, Awake, TakeTurn
  <2>3. call.pc \in {"turn", "queueing"}
    BY <1>4 DEF Acquire, Awake
  <2>4. /\ call'.pc = label /\ call'.job = call.job
        /\ call'.attempt = call.attempt
    BY <1>1, <2>1 DEF ClientTypes, Call
  <2>5. call' \in Call
    BY <1>1, <2>1 DEF ClientTypes, Call, Asking
  <2> QED BY <1>1, <2>2, <2>3, <2>4, <2>5 DEF ClientTypes, CallTold, TurnInv
<1>5. CASE AcquireWait
  <2>1. /\ call' = [call EXCEPT !.pc = "queueing", !.wait = MinInterval - lastCall]
        /\ MinInterval - lastCall \in Nat /\ call.pc = "turn"
        /\ UNCHANGED <<lastCall, sinceTurn>>
    BY <1>1, <1>5 DEF AcquireWait, ClientTypes
  <2>2. /\ call'.pc = "queueing" /\ call'.wait = MinInterval - lastCall
        /\ call'.job = call.job /\ call'.attempt = call.attempt
    BY <1>1, <2>1 DEF ClientTypes, Call
  <2>3. call' \in Call
    BY <1>1, <2>1 DEF ClientTypes, Call, Sleeping
  <2> QED BY <1>1, <2>1, <2>2, <2>3 DEF ClientTypes, CallTold, TurnInv
<1>6. CASE BuildClient \/ Poll \/ TryAgain
  BY <1>1, <1>6 DEF BuildClient, Poll, TryAgain, ClientTypes, Call, Asking,
     CallTold, TurnInv
<1>7. CASE JobGiven
  BY <1>1, <1>7 DEF JobGiven, Nap, ClientTypes, Call, Sleeping, CallTold, TurnInv
<1>8. CASE PollSuccess
  BY <1>1, <1>8 DEF PollSuccess, ClientTypes, Call, Ended, CallTold, TurnInv
<1>9. CASE PollPending
  <2>1. /\ call.pc = "polling" /\ UNCHANGED <<lastCall, sinceTurn>>
        /\ \/ call' = [Nap EXCEPT !.polls = @ + 1]
           \/ call' = [[call EXCEPT !.pc = "failed"] EXCEPT !.polls = @ + 1]
    BY <1>9 DEF PollPending
  <2>2. /\ call'.pc \in {"napping", "failed"} /\ call'.job = call.job
        /\ call'.attempt = call.attempt
    BY <1>1, <2>1 DEF Nap, ClientTypes, Call
  <2>3. Nap \in Call /\ [call EXCEPT !.pc = "failed"] \in Call
    BY <1>1 DEF Nap, ClientTypes, Call, Sleeping, Ended
  <2>4. ASSUME NEW c \in Call PROVE [c EXCEPT !.polls = c.polls + 1] \in Call
    BY DEF Call
  <2>5. call' \in Call
    BY <2>1, <2>3, <2>4
  <2> QED BY <1>1, <2>1, <2>2, <2>5 DEF ClientTypes, CallTold, TurnInv
<1>10. CASE PermanentError
  BY <1>1, <1>10 DEF PermanentError, Asking, ClientTypes, Call, Ended, CallTold,
     TurnInv
<1>11. CASE TransientError
  <2>1. /\ call.pc \in {"posting", "polling", "build"}
        /\ UNCHANGED <<lastCall, sinceTurn>>
        /\ IF call.attempt + 1 < Attempts
           THEN call' = [call EXCEPT !.attempt = @ + 1, !.job = "none",
                                     !.pc = "backing_off",
                                     !.wait = BaseDelay * 2^call.attempt]
           ELSE call' = [call EXCEPT !.attempt = @ + 1, !.job = "none",
                                     !.pc = "failed"]
    BY <1>1, <1>11 DEF TransientError, Asking, ClientTypes, Call
  <2>2. call.attempt \in 0..Attempts /\ call.attempt < Attempts
    BY <1>1, <2>1 DEF ClientTypes, Call, CallTold
  <2>3. BaseDelay * 2^call.attempt \in Nat
    BY <2>2, BackoffAssumption
  <2>4. /\ call'.pc \in {"backing_off", "failed"} /\ call'.job = "none"
        /\ call'.attempt = call.attempt + 1
        /\ call'.pc = "backing_off" => call.attempt + 1 < Attempts
    BY <1>1, <2>1 DEF ClientTypes, Call
  <2>5. /\ call \in Call /\ call.attempt + 1 \in 0..Attempts
        /\ "backing_off" \in Sleeping \cup Ended /\ "failed" \in Sleeping \cup Ended
    BY <1>1, <2>2 DEF ClientTypes, Sleeping, Ended
  <2>6. /\ [call EXCEPT !.attempt = call.attempt + 1, !.job = "none",
                       !.pc = "backing_off",
                       !.wait = BaseDelay * 2^call.attempt] \in Call
        /\ [call EXCEPT !.attempt = call.attempt + 1, !.job = "none",
                       !.pc = "failed"] \in Call
    BY <2>3, <2>5, FailedCall
  <2>7. call' \in Call
    BY <2>1, <2>6
  <2> QED BY <1>1, <2>1, <2>2, <2>4, <2>7 DEF ClientTypes, CallTold, TurnInv
<1>12. CASE Service
  BY <1>1, <1>12 DEF Service, ServiceTakes, ServiceCaptures, ClientTypes, Call,
     CallTold, TurnInv
<1>13. CASE Tick
  <2>1. /\ call' = [call EXCEPT !.wait = IF @ > 0 THEN @ - 1 ELSE 0]
        /\ lastCall' = Older(lastCall) /\ sinceTurn' = Older(sinceTurn)
    BY <1>13 DEF Tick
  <2> QED BY <1>1, <2>1 DEF ClientTypes, Call, CallTold, TurnInv, Older
<1> QED BY <1>2, <1>3, <1>4, <1>5, <1>6, <1>7, <1>8, <1>9, <1>10, <1>11, <1>12,
           <1>13 DEF CallMoves, CallStep

LEMMA ClientInvStep ==
  ASSUME ClientInv, [CommandNext]_commandVars
  PROVE  ClientInv'
<1>1. ASSUME UNCHANGED <<call, lastCall, sinceTurn>> PROVE ClientInv'
  BY <1>1 DEF ClientInv, ClientTypes, CallTold, TurnInv
<1> QED BY <1>1, ClientStep, ClientTyped DEF ClientInv

LEMMA ClientInvHolds == CommandSpec => []ClientInv
<1>1. CommandInit => ClientInv
  BY ClientInvInit DEF CommandInit
<1> QED BY <1>1, ClientInvStep, PTL DEF CommandSpec

\* Between two turns the limiter gives, the minimum interval passes, however
\* the sleeps, the requests and the calls fall.
THEOREM NoBurst == CommandSpec => TurnsSpaced
<1>1. ASSUME ClientInv, [CommandNext]_commandVars,
             call.pc \in {"turn", "queueing"}, call'.pc \in {"build", "posting"}
      PROVE  sinceTurn = MinInterval
  <2>1. /\ call \in Call /\ TurnInv /\ MinInterval \in Nat
        /\ sinceTurn \in 0..MinInterval
    BY <1>1, SavePageNowAssumption DEF ClientInv, ClientTypes
  <2>2. CallMoves
    BY <1>1, ClientStep
  <2>3. Acquire \/ Awake
    <3>1. ~StartCall /\ call' # NoCall
      BY <1>1 DEF StartCall, NoCall
    <3>2. ~AcquireWait /\ ~Tick /\ ~Service
      BY <1>1, <2>1 DEF AcquireWait, Tick, Service, ServiceTakes, ServiceCaptures,
         Call
    <3>3. /\ ~BuildClient /\ ~JobGiven /\ ~Poll /\ ~PollSuccess /\ ~PollPending
          /\ ~PermanentError /\ ~TransientError /\ ~TryAgain
      BY <1>1 DEF BuildClient, JobGiven, Poll, PollSuccess, PollPending,
         PermanentError, TransientError, TryAgain, Asking
    <3> QED BY <2>2, <3>1, <3>2, <3>3 DEF CallMoves, CallStep
  <2> QED BY <2>1, <2>3 DEF Acquire, Awake, TurnInv, Call
<1>2. ClientInv /\ [CommandNext]_commandVars =>
        [(call.pc \in {"turn", "queueing"} /\ call'.pc \in {"build", "posting"})
           => sinceTurn = MinInterval]_archiverVars
  BY <1>1
<1> QED BY <1>2, ClientInvHolds, PTL DEF CommandSpec, TurnsSpaced

-----------------------------------------------------------------------------
(* The two together *)

\* The orders the call in progress may account for.
Used ==
  CASE call.pc = "none" -> 0
    [] call.pc \in {"turn", "queueing", "build", "backing_off"} -> call.attempt
    [] call.pc \in {"posting", "napping", "polling"} -> call.attempt + 1
    [] OTHER -> Attempts

\* Every source of the streak stands for Attempts orders at most; and there is
\* no call once the breaker has tripped.
PostInv ==
  /\ posts \in Nat /\ client \in BOOLEAN
  /\ posts <= streak * Attempts + Used
  /\ limit > 0 /\ call.pc # "none" => streak < limit

LEMMA UsedBound == ASSUME ClientInv PROVE Used \in Nat /\ Used <= Attempts
<1>1. /\ call.attempt \in Nat /\ call.attempt <= Attempts /\ Attempts \in Nat \ {0}
      /\ call.pc # "failed" => call.attempt < Attempts
  BY SavePageNowAssumption DEF ClientInv, ClientTypes, CallTold, Call
<1> QED BY <1>1 DEF Used

\* The steps of the archiver's client post no more than they account for.
LEMMA PostsUsed ==
  ASSUME ClientInv, StartCall \/ CallStep \/ Service \/ Tick
  PROVE  /\ Used \in Nat /\ Used' \in Nat
         /\ Used + (IF call.pc # "posting" /\ call'.pc = "posting" THEN 1 ELSE 0) <= Used'
<1> DEFINE new == IF call.pc # "posting" /\ call'.pc = "posting" THEN 1 ELSE 0
<1>1. /\ call \in Call /\ call.attempt \in Nat /\ Attempts \in Nat \ {0}
      /\ call' \in Call /\ call'.attempt \in Nat
      /\ CallTold /\ CallTold' /\ Used \in Nat /\ Used <= Attempts
      /\ Used' \in Nat
  <2>1. ClientInv'
    BY ClientTyped DEF CallMoves, ClientInv
  <2>2. Used' \in Nat
    BY <2>1, SavePageNowAssumption DEF ClientInv, ClientTypes, Call, Used
  <2> QED BY <2>1, <2>2, UsedBound, SavePageNowAssumption
          DEF ClientInv, ClientTypes, Call
<1>2. ASSUME call'.pc \in {"posting", "build"}, call'.attempt = call.attempt,
             call.pc \in {"turn", "queueing", "build"}
      PROVE  Used + new <= Used'
  BY <1>1, <1>2 DEF Used
<1>3. ASSUME UNCHANGED <<call.pc, call.attempt>> PROVE Used + new <= Used'
  BY <1>1, <1>3 DEF Used
<1>4. ASSUME call'.pc \in {"archived", "failed"} PROVE Used + new <= Used'
  BY <1>1, <1>4 DEF Used
<1>5. ASSUME call.pc \in {"posting", "napping", "polling"},
             call'.pc \in {"napping", "polling"}, call'.attempt = call.attempt
      PROVE  Used + new <= Used'
  BY <1>1, <1>5 DEF Used
<1>6. ASSUME call.pc \in {"none", "turn", "backing_off"},
             call'.pc \in {"turn", "queueing"}, call'.attempt = call.attempt
      PROVE  Used + new <= Used'
  BY <1>1, <1>6 DEF Used
<1>7. ASSUME call.pc \in {"posting", "polling", "build"},
             call'.pc = "backing_off", call'.attempt = call.attempt + 1
      PROVE  Used + new <= Used'
  BY <1>1, <1>7 DEF Used
<1> SUFFICES Used + new <= Used'
  BY <1>1
<1> HIDE DEF new
<1>8. CASE StartCall
  BY <1>1, <1>6, <1>8 DEF StartCall, NoCall, CallTold
<1>9. CASE Acquire \/ Awake
  <2>1. call' = [call EXCEPT !.pc = IF client THEN "posting" ELSE "build",
                             !.wait = 0, !.polls = 0]
    BY <1>9 DEF Acquire, Awake, TakeTurn
  <2>2. call'.pc \in {"posting", "build"} /\ call'.attempt = call.attempt
    BY <1>1, <2>1 DEF Call
  <2> QED BY <1>2, <1>9, <2>2 DEF Acquire, Awake
<1>10. CASE AcquireWait \/ TryAgain
  <2>1. call'.pc \in {"turn", "queueing"} /\ call'.attempt = call.attempt
    BY <1>1, <1>10 DEF AcquireWait, TryAgain, Call
  <2> QED BY <1>6, <1>10, <2>1 DEF AcquireWait, TryAgain
<1>11. CASE BuildClient
  <2>1. call'.pc = "posting" /\ call'.attempt = call.attempt
    BY <1>1, <1>11 DEF BuildClient, Call
  <2> QED BY <1>2, <1>11, <2>1 DEF BuildClient
<1>12. CASE JobGiven \/ Poll
  <2>1. call'.pc \in {"napping", "polling"} /\ call'.attempt = call.attempt
    BY <1>1, <1>12 DEF JobGiven, Nap, Poll, Call
  <2> QED BY <1>5, <1>12, <2>1 DEF JobGiven, Poll
<1>13. CASE PollSuccess \/ PermanentError
  <2>1. call'.pc \in {"archived", "failed"}
    BY <1>1, <1>13 DEF PollSuccess, PermanentError, Call
  <2> QED BY <1>4, <2>1
<1>14. CASE PollPending
  <2>1. /\ call.pc = "polling"
        /\ \/ call' = [Nap EXCEPT !.polls = @ + 1]
           \/ call' = [[call EXCEPT !.pc = "failed"] EXCEPT !.polls = @ + 1]
    BY <1>14 DEF PollPending
  <2>2. call'.pc \in {"napping", "failed"} /\ call'.attempt = call.attempt
    BY <1>1, <2>1 DEF Nap, Call
  <2> QED BY <1>4, <1>5, <2>1, <2>2
<1>15. CASE TransientError
  <2>1. /\ call.pc \in {"posting", "polling", "build"}
        /\ call'.pc \in {"backing_off", "failed"}
        /\ call'.attempt = call.attempt + 1
    BY <1>1, <1>15 DEF TransientError, Asking, Call
  <2> QED BY <1>4, <1>7, <2>1
<1>16. CASE Service \/ Tick
  <2>1. UNCHANGED <<call.pc, call.attempt>>
    BY <1>1, <1>16 DEF Service, ServiceTakes, ServiceCaptures, Tick, Call
  <2> QED BY <1>3, <2>1
<1> QED BY <1>8, <1>9, <1>10, <1>11, <1>12, <1>13, <1>14, <1>15, <1>16 DEF CallStep

LEMMA PostInvStep ==
  ASSUME RunInv, ClientInv, PostInv, [CommandNext]_commandVars
  PROVE  PostInv'
<1>1. /\ limit \in Nat /\ streak \in Nat /\ posts \in Nat
      /\ Attempts \in Nat \ {0} /\ Used \in Nat /\ Used <= Attempts
      /\ posts <= streak * Attempts + Used /\ streak * Attempts \in Nat
      /\ client \in BOOLEAN
      /\ limit > 0 /\ call.pc # "none" => streak < limit
  BY PassRunAssumption, SavePageNowAssumption, UsedBound
     DEF RunInv, TypeOK, PostInv
<1>2. client' \in BOOLEAN
  <2>1. \/ UNCHANGED client \/ BuildClient \/ Probe
    BY DEF CommandNext, Program, RunStep, Uncaught, Probe, CallArchiver, StartCall,
       ArchiverWorks, CallStep, Acquire, AcquireWait, Awake, TakeTurn, JobGiven, Poll,
       PollSuccess, PollPending, PermanentError, TransientError, TryAgain, Outcome,
       TimePasses, Tick, SaveService, Service, ServiceTakes, ServiceCaptures,
       commandVars, archiverVars
  <2> QED BY <1>1, <2>1 DEF BuildClient, Probe
<1>3. CASE UNCHANGED <<posts, streak, limit, call>>
  BY <1>1, <1>2, <1>3 DEF PostInv, Used
<1>4. CASE CallArchiver \/ ArchiverWorks \/ TimePasses \/ SaveService
  <2> DEFINE new == IF call.pc # "posting" /\ call'.pc = "posting" THEN 1 ELSE 0
  <2>1. StartCall \/ CallStep \/ Service \/ Tick
    BY <1>4 DEF CallArchiver, ArchiverWorks, TimePasses, SaveService
  <2>2. Used' \in Nat /\ Used + new <= Used'
    BY <2>1, PostsUsed
  <2>3. /\ posts' = posts \/ posts' = posts + new
        /\ streak' = streak /\ limit' = limit /\ Capturing
    BY <1>4 DEF CallArchiver, ArchiverWorks, TimePasses, SaveService, vars
  <2>4. new \in {0, 1}
    OBVIOUS
  <2>5. limit > 0 => streak < limit
    BY <2>3 DEF RunInv, BreakerInv, Capturing
  <2> HIDE DEF new
  <2> QED BY <1>1, <1>2, <2>2, <2>3, <2>4, <2>5 DEF PostInv
<1>5. ASSUME NEW o \in AllOutcomes, Outcome(o) PROVE PostInv'
  <2>1. /\ call'.pc = "none" /\ Used' = 0
    BY <1>5 DEF Outcome, NoCall, Used
  <2>2. CASE o \in Failures[pass]
    <3>1. posts' = posts /\ streak' = streak + 1
      BY <1>5, <2>2 DEF Outcome, Process
    <3>2. (streak + 1) * Attempts = streak * Attempts + Attempts
      BY <1>1
    <3> QED BY <1>1, <1>2, <2>1, <3>1, <3>2 DEF PostInv
  <2>3. CASE o \notin Failures[pass]
    <3>1. posts' = 0 /\ streak' = 0
      BY <1>5, <2>3 DEF Outcome, Process
    <3> QED BY <1>1, <1>2, <2>1, <3>1 DEF PostInv
  <2> QED BY <2>2, <2>3
<1>6. RunStep \/ Uncaught \/ Probe \/ UNCHANGED commandVars =>
        UNCHANGED <<posts, streak, limit, call>>
  BY DEF RunStep, Uncaught, Probe, NoList, DryRun, Begin, Breaker, Finish, Raise, Preflight,
     commandVars, vars, archiverVars
<1> QED BY <1>3, <1>4, <1>5, <1>6 DEF CommandNext, Program

LEMMA PostInvHolds == CommandSpec => []PostInv
<1>1. CommandInit => PostInv
  <2>1. CommandInit => Used = 0 /\ call.pc = "none"
    BY DEF CommandInit, ArchiverInit, NoCall, Used
  <2>2. CommandInit => posts = 0 /\ streak = 0 /\ client = FALSE
    BY DEF CommandInit, Init, ArchiverInit
  <2>3. 0 * Attempts = 0
    BY SavePageNowAssumption
  <2>4. CommandInit => posts <= streak * Attempts + Used
    BY <2>1, <2>2, <2>3
  <2>5. client = FALSE => client \in BOOLEAN
    OBVIOUS
  <2> QED BY <2>1, <2>2, <2>4, <2>5 DEF PostInv
<1> QED BY <1>1, PostInvStep, RunInvHolds, ClientInvHolds, PTL DEF CommandSpec

\* Every variable of the command keeps its type.
THEOREM CommandTypes == CommandSpec => []CommandTypeOK
<1>1. RunInv /\ ClientInv /\ PostInv => CommandTypeOK
  BY DEF RunInv, ClientInv, ClientTypes, PostInv, CommandTypeOK, ArchiverTypeOK
<1> QED BY <1>1, RunInvHolds, ClientInvHolds, PostInvHolds, PTL

\* An archive that fails gets limit times Attempts orders at most before the
\* breaker stops the run.
THEOREM OrdersBeforeBreak == CommandSpec => []BreakerBoundsPosts
<1>1. ASSUME RunInv, ClientInv, PostInv, limit > 0
      PROVE  posts <= limit * Attempts
  <2>1. /\ limit \in Nat /\ streak \in Nat /\ posts \in Nat /\ Attempts \in Nat
        /\ Used \in Nat /\ Used <= Attempts /\ streak <= limit
        /\ posts <= streak * Attempts + Used
        /\ call.pc # "none" => streak < limit
    BY <1>1, PassRunAssumption, SavePageNowAssumption, UsedBound
       DEF RunInv, TypeOK, BreakerInv, PostInv
  <2>2. CASE streak < limit
    <3>1. streak * Attempts + Attempts <= limit * Attempts
      BY <2>1, <2>2
    <3>2. streak * Attempts \in Nat /\ limit * Attempts \in Nat
      BY <2>1
    <3> QED BY <2>1, <3>1, <3>2
  <2>3. CASE streak = limit
    <3>1. call.pc = "none"
      BY <2>1, <2>3
    <3>2. Used = 0 /\ limit * Attempts \in Nat
      BY <2>1, <3>1 DEF Used
    <3> QED BY <2>1, <2>3, <3>2
  <2> QED BY <2>1, <2>2, <2>3
<1>2. RunInv /\ ClientInv /\ PostInv => BreakerBoundsPosts
  BY <1>1 DEF BreakerBoundsPosts
<1> QED BY <1>2, RunInvHolds, ClientInvHolds, PostInvHolds, PTL

-----------------------------------------------------------------------------
(* The promise of a call *)

\* Where the call stands, as CallSeen has it.
SeenStage ==
  IF call.pc \in Ended \cup {"none"} THEN call.pc
  ELSE [none |-> "posting", taken |-> "ordered", done |-> "executed"][call.job]
SeenTries == IF call.job = "none" THEN call.attempt ELSE call.attempt + 1

LEMMA SeenCases ==
  ASSUME ClientInv
  PROVE  /\ call.pc \in Ended \cup {"none"} => SeenStage = call.pc
         /\ call.pc \notin Ended \cup {"none"} =>
              /\ call.job = "none" => SeenStage = "posting"
              /\ call.job = "taken" => SeenStage = "ordered"
              /\ call.job = "done" => SeenStage = "executed"
         /\ call.job = "none" => SeenTries = call.attempt
         /\ call.job # "none" => SeenTries = call.attempt + 1
         /\ call.job \in {"none", "taken", "done"}
         /\ call.attempt \in Nat /\ Attempts \in Nat
         /\ call.pc = "none" => call.attempt = 0 /\ call.job = "none"
<1>1. /\ call.job \in {"none", "taken", "done"} /\ call.attempt \in Nat
      /\ Attempts \in Nat
      /\ call.pc = "none" => call.attempt = 0 /\ call.job = "none"
  BY SavePageNowAssumption DEF ClientInv, ClientTypes, CallTold, Call
<1> QED BY <1>1 DEF SeenStage, SeenTries

LEMMA CallSeenStep ==
  ASSUME ClientInv, [CommandNext]_commandVars
  PROVE  [CallSeen!Next]_(CallSeen!callVars)
<1> SUFFICES ASSUME call' # call
             PROVE  CallSeen!Next \/ UNCHANGED <<SeenStage, SeenTries>>
  BY DEF CallSeen!callVars, SeenStage, SeenTries
<1>1. CallMoves
  BY ClientStep
<1>2. /\ call \in Call /\ call' \in Call /\ CallTold /\ CallTold'
  BY <1>1, ClientTyped DEF ClientInv, ClientTypes
<1>3. SeenStage \in {"none", "posting", "ordered", "executed", "archived", "failed"}
  BY <1>2, SeenCases DEF Ended
<1>4. CASE StartCall
  <2>1. call.pc = "none" /\ call'.pc = "turn" /\ call'.attempt = 0 /\ call'.job = "none"
    BY <1>4 DEF StartCall, NoCall
  <2>2. SeenStage = "none" /\ SeenStage' = "posting" /\ SeenTries' = 0
    BY <1>2, <2>1 DEF SeenStage, SeenTries, Ended
  <2> QED BY <2>2 DEF CallSeen!Next, CallSeen!Begin, SeenStage, SeenTries
\* While the call goes on, only the job and the attempt are seen.
<1>5. ASSUME call.pc \notin Ended \cup {"none"}, call'.pc \notin Ended \cup {"none"},
             call'.job = call.job, call'.attempt = call.attempt
      PROVE  UNCHANGED <<SeenStage, SeenTries>>
  BY <1>5 DEF SeenStage, SeenTries
<1>6. CASE Acquire \/ Awake
  <2>1. call' = [call EXCEPT !.pc = IF client THEN "posting" ELSE "build",
                             !.wait = 0, !.polls = 0]
    BY <1>6 DEF Acquire, Awake, TakeTurn
  <2>2. /\ call'.pc \in {"posting", "build"} /\ call'.job = call.job
        /\ call'.attempt = call.attempt
    BY <1>2, <2>1 DEF Call
  <2> QED BY <1>5, <1>6, <2>2 DEF Acquire, Awake, Ended
<1>7. CASE AcquireWait \/ TryAgain \/ BuildClient \/ JobGiven \/ Poll
  <2>1. /\ call'.pc \in {"queueing", "turn", "posting", "napping", "polling"}
        /\ call'.job = call.job /\ call'.attempt = call.attempt
    BY <1>2, <1>7 DEF AcquireWait, TryAgain, BuildClient, JobGiven, Nap, Poll, Call
  <2>2. call.pc \notin Ended \cup {"none"}
    BY <1>7 DEF AcquireWait, TryAgain, BuildClient, JobGiven, Poll, Ended
  <2> QED BY <1>5, <2>1, <2>2 DEF Ended
\* An answer, or none: the call fails and the service has what it has.
<1>8. ASSUME call.pc \in Asking, call'.pc = "failed", call'.job = call.job,
             call'.attempt = call.attempt
      PROVE  CallSeen!Next
  <2>1. SeenStage \in {"posting", "ordered", "executed"}
    BY <1>8, SeenCases DEF Asking, Ended
  <2>2. SeenStage' = "failed" /\ SeenTries' = SeenTries
    BY <1>8 DEF SeenStage, SeenTries, Ended
  <2> QED BY <2>1, <2>2 DEF CallSeen!Next, CallSeen!GiveUp, SeenStage, SeenTries
<1>9. CASE PollPending
  <2>1. /\ call.pc = "polling"
        /\ \/ call' = [Nap EXCEPT !.polls = @ + 1]
           \/ call' = [[call EXCEPT !.pc = "failed"] EXCEPT !.polls = @ + 1]
    BY <1>9 DEF PollPending
  <2>2. /\ call'.pc \in {"napping", "failed"} /\ call'.job = call.job
        /\ call'.attempt = call.attempt
    BY <1>2, <2>1 DEF Nap, Call
  <2> QED BY <1>5, <1>8, <2>1, <2>2 DEF Asking, Ended
<1>10. CASE PermanentError
  BY <1>2, <1>8, <1>10 DEF PermanentError, Call
<1>11. CASE PollSuccess
  <2>1. /\ call.pc = "polling" /\ call.job = "done" /\ call'.pc = "archived"
        /\ call'.job = "done" /\ call'.attempt = call.attempt
    BY <1>2, <1>11 DEF PollSuccess, Call
  <2>2. /\ SeenStage = "executed" /\ SeenStage' = "archived"
        /\ SeenTries' = SeenTries
    BY <2>1 DEF SeenStage, SeenTries, Ended
  <2> QED BY <2>2 DEF CallSeen!Next, CallSeen!Archive, SeenStage, SeenTries
<1>12. CASE TransientError
  <2>1. /\ call.pc \in {"posting", "polling", "build"} /\ call'.job = "none"
        /\ call'.attempt = call.attempt + 1
        /\ call'.pc = IF call.attempt + 1 < Attempts THEN "backing_off" ELSE "failed"
    BY <1>2, <1>12 DEF TransientError, Asking, Call
  <2>2. /\ SeenStage' = IF call.attempt + 1 < Attempts THEN "posting" ELSE "failed"
        /\ SeenTries' = call.attempt + 1
    BY <2>1 DEF SeenStage, SeenTries, Ended
  <2>3. \/ SeenStage = "posting" /\ SeenTries = call.attempt
        \/ SeenStage \in {"ordered", "executed"} /\ SeenTries = call.attempt + 1
    BY <2>1, SeenCases DEF Ended
  <2> QED BY <2>2, <2>3 DEF CallSeen!Next, CallSeen!Transient, CallSeen!Again,
             SeenStage, SeenTries
<1>13. CASE ServiceTakes
  <2>1. /\ call.pc = "posting" /\ call.job = "none" /\ call'.pc = "posting"
        /\ call'.job = "taken" /\ call'.attempt = call.attempt
    BY <1>2, <1>13 DEF ServiceTakes, Call
  <2>2. /\ SeenStage = "posting" /\ SeenStage' = "ordered"
        /\ SeenTries' = SeenTries + 1
    BY <2>1 DEF SeenStage, SeenTries, Ended
  <2> QED BY <2>2 DEF CallSeen!Next, CallSeen!Order, SeenStage, SeenTries
<1>14. CASE ServiceCaptures
  <2>1. /\ call.pc \in {"posting", "napping", "polling"} /\ call.job = "taken"
        /\ call'.pc = call.pc /\ call'.job = "done" /\ call'.attempt = call.attempt
    BY <1>2, <1>14 DEF ServiceCaptures, Call
  <2>2. /\ SeenStage = "ordered" /\ SeenStage' = "executed"
        /\ SeenTries' = SeenTries
    BY <2>1 DEF SeenStage, SeenTries, Ended
  <2> QED BY <2>2 DEF CallSeen!Next, CallSeen!Execute, SeenStage, SeenTries
<1>15. CASE Tick
  <2>1. /\ call'.pc = call.pc /\ call'.job = call.job /\ call'.attempt = call.attempt
    BY <1>2, <1>15 DEF Tick, Call
  <2> QED BY <2>1 DEF SeenStage, SeenTries
<1>16. CASE call' = NoCall
  <2>1. SeenStage' = "none" /\ SeenTries' = 0
    BY <1>16 DEF NoCall, SeenStage, SeenTries
  <2>2. SeenStage = "none" => SeenTries = 0
    BY SeenCases DEF SeenStage, Ended
  <2> QED BY <2>1, <2>2 DEF CallSeen!Next, CallSeen!Leave, SeenStage, SeenTries
<1> QED BY <1>1, <1>4, <1>6, <1>7, <1>9, <1>10, <1>11, <1>12, <1>13, <1>14, <1>15,
           <1>16 DEF CallMoves, CallStep, Service

\* The client gives capture the archiver it counts on.
THEOREM ClientKeepsCall == CommandSpec => KeepsCall
<1>1. CommandInit => CallSeen!Init
  BY DEF CommandInit, ArchiverInit, NoCall, CallSeen!Init
<1>2. ClientInv /\ [CommandNext]_commandVars =>
        [CallSeen!Next]_(CallSeen!callVars)
  BY CallSeenStep
<1> QED BY <1>1, <1>2, ClientInvHolds, PTL DEF CommandSpec, KeepsCall, CallSeen!Spec
=============================================================================
