---------------------------- MODULE TimerService ----------------------------
(***************************************************************************)
(* What durable timers promise the modules that use them (SPEC.md, "durable*)
(* timers"; the guests' host functions schedule_set and schedule_cancel):  *)
(* a job stays until its handler succeeded, it is cancelled, or it is      *)
(* replaced; its handler is tried again until then, at least once; an      *)
(* attempt of a replaced or cancelled job settles nothing.  Module         *)
(* Scheduler implements it, as long as no profile is erased.               *)
(***************************************************************************)
EXTENDS Naturals

CONSTANT Timers   \* a module's name and the id of its job

VARIABLES
  job,       \* "none", "pending", or "served" while its row cannot be deleted
  version,   \* how often the timer was set
  attempts   \* the attempts under way, each with the version it is for

serviceVars == <<job, version, attempts>>

ServiceInit ==
  /\ job = [t \in Timers |-> "none"]
  /\ version = [t \in Timers |-> 0]
  /\ attempts = {}

Set(t) ==
  /\ job' = [job EXCEPT ![t] = "pending"]
  /\ version' = [version EXCEPT ![t] = @ + 1]
  /\ UNCHANGED attempts

Cancel(t) == job' = [job EXCEPT ![t] = "none"] /\ UNCHANGED <<version, attempts>>

Attempt(t) ==
  /\ job[t] = "pending"
  /\ attempts' = attempts \cup {<<t, version[t]>>}
  /\ UNCHANGED <<job, version>>

\* The handler of t's version v is done: if it succeeded and the job was not replaced
\* meanwhile, nor cancelled, that was the job.  (A job cancelled and set again while its
\* handler runs may have two attempts at once.)
Settle(t, v, ok) ==
  /\ <<t, v>> \in attempts /\ attempts' \in {attempts, attempts \ {<<t, v>>}}
  /\ IF ok /\ v = version[t] /\ job[t] # "none"
     THEN \E settled \in {"none", "served"} : job' = [job EXCEPT ![t] = settled]
     ELSE UNCHANGED job
  /\ UNCHANGED version

\* The row of a served job is deleted at last.
Discard(t) == job[t] = "served" /\ Cancel(t)

\* The process starts anew: attempts are forgotten, and what still has a row is pending.
StartAnew ==
  /\ attempts' = {}
  /\ job' = [t \in Timers |-> IF job[t] = "none" THEN "none" ELSE "pending"]
  /\ UNCHANGED version

ServiceNext ==
  \/ \E t \in Timers : Set(t) \/ Cancel(t) \/ Attempt(t) \/ Discard(t)
  \/ \E a \in attempts, ok \in BOOLEAN : Settle(a[1], a[2], ok)
  \/ StartAnew

Service == ServiceInit /\ [][ServiceNext]_serviceVars
=============================================================================
