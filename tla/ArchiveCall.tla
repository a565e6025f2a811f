----------------------------- MODULE ArchiveCall -----------------------------
(***************************************************************************)
(* What one call of Archiver.archive promises its caller: the Save Page    *)
(* Now service gets at most Attempts orders for it; "archived" is only     *)
(* answered once an order has been carried out; an error is final unless   *)
(* it is transient and attempts are left.  Capture relies on this and      *)
(* SavePageNow delivers it.                                                *)
(***************************************************************************)
EXTENDS Naturals

CONSTANT Attempts

VARIABLES
  stage,   \* where the call stands; "none": no call in progress
  tries    \* attempts that are behind it or under way

callVars == <<stage, tries>>

Stages == {"none", "posting", "ordered", "executed", "archived", "failed"}

Begin ==
  /\ stage = "none"
  /\ stage' = "posting"
  /\ tries' = 0

\* The service accepts an order.
Order ==
  /\ stage = "posting"
  /\ stage' = "ordered"
  /\ tries' = tries + 1

\* The service carries it out.
Execute ==
  /\ stage = "ordered"
  /\ stage' = "executed"
  /\ UNCHANGED tries

Archive ==
  /\ stage = "executed"
  /\ stage' = "archived"
  /\ UNCHANGED tries

GiveUp ==
  /\ stage \in {"posting", "ordered", "executed"}
  /\ stage' = "failed"
  /\ UNCHANGED tries

\* A transient error of attempt n.
Again(n) ==
  /\ tries' = n
  /\ stage' = IF n < Attempts THEN "posting" ELSE "failed"

Transient ==
  \/ stage = "posting" /\ Again(tries + 1)
  \/ stage \in {"ordered", "executed"} /\ Again(tries)

\* The caller takes the answer, or does not live to see it.
Leave ==
  /\ stage # "none"
  /\ stage' = "none"
  /\ tries' = 0

Init == stage = "none" /\ tries = 0

Next == Begin \/ Order \/ Execute \/ Archive \/ GiveUp \/ Transient \/ Leave

Spec == Init /\ [][Next]_callVars
=============================================================================
