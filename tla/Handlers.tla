------------------------------ MODULE Handlers ------------------------------
(***************************************************************************)
(* What the handlers of the guest modules have in common.  A worker runs   *)
(* one handler at a time; a handler is a series of host calls that each    *)
(* commit at once, and one that fails or runs out of time ends it there:   *)
(* what was written stays, what was to follow is lost.                     *)
(***************************************************************************)
EXTENDS Naturals, Sequences, FiniteSets

CONSTANT MaxMishaps   \* bound: handlers cut short

VARIABLES
  db,     \* the rows of the module and of the host's stores it uses, as one record
  world   \* what the module does not keep: the clock, settings, bounds, and what happened

handlerVars == <<db, world>>

\* The handler's writes lead to these states in order; it ends after the last, when the
\* world becomes w, or is cut short before that.
Perform(states, w) ==
  \E i \in 0..Len(states) :
    /\ db' = IF i = 0 THEN db ELSE states[i]
    /\ IF i = Len(states) THEN world' = w
       ELSE world.mishaps < MaxMishaps /\ world' = [w EXCEPT !.mishaps = @ + 1]

-----------------------------------------------------------------------------
(***************************************************************************)
(* The durable timers as a guest module sees them: a job by its id, set,   *)
(* replaced and cancelled by handlers, sent to the module's queue when it  *)
(* is due, deleted when its handler succeeded and it was not set anew      *)
(* meanwhile, and sent again when the handler failed.  What the scheduler  *)
(* does for that is in module Scheduler.                                   *)
(***************************************************************************)
(* db.jobs: each id's job: "none", "set", or "sent".  world.queue: the ids whose timers  *)
(* wait at the worker, cancelled ones too.                                               *)

SetTimer(d, id) == [d EXCEPT !.jobs[id] = "set"]
CancelTimer(d, id) == [d EXCEPT !.jobs[id] = "none"]

IsPending(d, id) == d.jobs[id] # "none"
IsDriven(id) == IsPending(db, id) \/ id \in world.queue

Send(id) ==
  /\ db.jobs[id] = "set" /\ id \notin world.queue
  /\ db' = [db EXCEPT !.jobs[id] = "sent"]
  /\ world' = [world EXCEPT !.queue = @ \cup {id}]

\* The handler of id's timer, as Perform: the answer settles the job it was sent for.
PerformTimer(id, states, w) ==
  /\ id \in world.queue
  /\ \E i \in 0..Len(states) :
       LET d == IF i = 0 THEN db ELSE states[i]
           settled(job) == [d EXCEPT !.jobs[id] = IF @ = "sent" THEN job ELSE @]
           taken == [w EXCEPT !.queue = @ \ {id}]
       IN IF i = Len(states) THEN db' = settled("none") /\ world' = taken
          ELSE /\ world.mishaps < MaxMishaps
               /\ db' = settled("set") /\ world' = [taken EXCEPT !.mishaps = @ + 1]
=============================================================================
