------------------------------ MODULE Scheduler ------------------------------
(***************************************************************************)
(* The durable timer scheduler of the bot (crates/jeeves/src/scheduler.rs):*)
(* one thread that owns the in-memory job table, mirrors it in the         *)
(* `scheduled_jobs` table, hands due jobs to the module host and waits for *)
(* the host's completions.  The module host is abstract here: it holds the *)
(* delivery attempts it was given in `sent` and answers each one, in any   *)
(* order, with success or failure.                                         *)
(*                                                                         *)
(* Time is in ticks of one second and saturates at MaxTime; a retry stamp  *)
(* saturates with it, so a postponed retry is never lost beyond the bound. *)
(* The clock never steps back (SystemTime is assumed monotonic).           *)
(***************************************************************************)
EXTENDS Naturals, Sequences, FiniteSets

CONSTANTS
  Modules,       \* names of WASM modules that own jobs
  Ids,           \* job ids, unique within a module
  Owners,        \* profile UUIDs a job may belong to
  NoOwner,       \* owner_profile_id = None
  Payloads,      \* acceptable payloads
  Malformed,     \* a request that breaks an id, address or payload limit
  NoJob,         \* absence of a row or map entry
  Requests,      \* which of "set" and "cancel" clients use
  Slots,         \* places where a delivery attempt waits or runs
  DeliveryQueue, \* capacity of the scheduler-to-host channel (64)
  InboxSize,     \* capacity of the request channel (256)
  MaxJobs,       \* MAX_JOBS_PER_MODULE
  RetrySeconds,  \* ABSENT_RETRY_SECONDS
  Horizon,       \* MAX_HORIZON_SECONDS
  MaxTime,       \* bound: last instant of the clock
  MaxSets,       \* bound: accepted schedule_set calls per key
  MaxFaults      \* bound: database errors and restarts in a behaviour

Keys  == Modules \X Ids
Times == 0..MaxTime

\* The fields of ScheduledJob beside its key.
Job == [owner: Owners \cup {NoOwner}, due: Times, payload: Payloads,
        created: Times]

\* One attempt handed to the host: the key, the job as it was when sent, and
\* (history) which accepted schedule_set call made that job.
Delivery == [key: Keys, job: Job, gen: Nat]

\* The data a schedule_set call carries.
SetData == [owner: Owners \cup {NoOwner}, due: Times,
            payload: Payloads \cup {Malformed}]

SetRequest      == [op: {"set"}, key: Keys, data: SetData]
CancelRequest   == [op: {"cancel"}, key: Keys]
CompleteRequest == [op: {"complete"}, attempt: Delivery, ok: BOOLEAN]
Request         == SetRequest \cup CancelRequest \cup CompleteRequest

ASSUME ConstantsAssumption ==
  /\ MaxTime \in Nat \ {0} /\ MaxSets \in Nat /\ MaxFaults \in Nat
  /\ RetrySeconds \in Nat /\ Horizon \in Nat
  /\ NoJob \notin Job /\ NoJob \notin Delivery
  /\ Malformed \notin Payloads

VARIABLES
  now,        \* now_secs()
  rows,       \* scheduled_jobs rows in SQLite
  jobs,       \* the thread's job map
  retryAfter, \* retry_after; 0 stands for no entry
  inFlight,   \* in_flight
  completed,  \* completed: succeeded, but the row could not be deleted yet
  phase,      \* where the thread's loop stands
  batch,      \* keys the current pass has yet to finish or to send
  loopNow,    \* the clock as the current pass read it
  inbox,      \* the request channel
  sent,       \* attempts the host holds
  gen,        \* history: accepted schedule_set calls per key
  succeeded,  \* history: keys whose current job was reported successful
  restored,   \* history: the last start could read the rows
  cancelled,  \* history: keys cancelled since the last start
  faults      \* faults so far

memory == <<jobs, retryAfter, inFlight, completed>>
thread == <<phase, batch, loopNow>>
history == <<gen, succeeded, restored, cancelled>>
vars == <<now, rows, memory, thread, inbox, sent, history, faults>>

\* Mutant: the retry stamp is added without saturation.
LaterUnsaturated(t) == t + RetrySeconds

Later(t) == IF t + RetrySeconds > MaxTime THEN MaxTime ELSE t + RetrySeconds

Fault == faults < MaxFaults /\ faults' = faults + 1

Init ==
  /\ now = 1
  /\ rows = [k \in Keys |-> NoJob]
  /\ jobs = rows
  /\ retryAfter = [k \in Keys |-> 0]
  /\ inFlight = {} /\ completed = {}
  /\ phase = "loop" /\ batch = {} /\ loopNow = now
  /\ inbox = <<>>
  /\ sent = [s \in Slots |-> NoJob]
  /\ gen = [k \in Keys |-> 0]
  /\ succeeded = {} /\ restored = TRUE /\ cancelled = {}
  /\ faults = 0

-----------------------------------------------------------------------------
(* finish_completed: retry the deletion of rows whose job already ran.     *)

BeginFinish ==
  /\ phase = "loop"
  /\ phase' = "finish"
  /\ batch' = {k \in completed : retryAfter[k] <= now}
  /\ loopNow' = now
  /\ UNCHANGED <<now, rows, memory, inbox, sent, history, faults>>

\* A key in `completed` has no job any more when another attempt of it succeeded as well.
FinishOne(k) ==
  /\ phase = "finish"
  /\ k \in batch
  /\ batch' = batch \ {k}
  /\ \/ /\ jobs[k] = NoJob
        /\ completed' = completed \ {k}
        /\ retryAfter' = [retryAfter EXCEPT ![k] = 0]
        /\ UNCHANGED <<rows, jobs, faults>>
     \/ /\ jobs[k] # NoJob
        /\ rows' = [rows EXCEPT ![k] = NoJob]
        /\ jobs' = [jobs EXCEPT ![k] = NoJob]
        /\ completed' = completed \ {k}
        /\ retryAfter' = [retryAfter EXCEPT ![k] = 0]
        /\ UNCHANGED faults
     \/ /\ jobs[k] # NoJob
        /\ Fault
        /\ retryAfter' = [retryAfter EXCEPT ![k] = Later(loopNow)]
        /\ UNCHANGED <<rows, jobs, completed>>
  /\ UNCHANGED <<now, inFlight, phase, loopNow, inbox, sent, history>>

-----------------------------------------------------------------------------
(* deliver_due: hand every due job that is not already out to the host.    *)

\* Mutant: jobs that ran but whose row is still there are not left out.
DueWithCompleted == {k \in Keys : /\ jobs[k] # NoJob /\ k \notin inFlight
                                  /\ jobs[k].due <= now /\ retryAfter[k] <= now}

\* Mutant: jobs that are already out are not left out.
DueWithInFlight == {k \in Keys : /\ jobs[k] # NoJob /\ k \notin completed
                                 /\ jobs[k].due <= now /\ retryAfter[k] <= now}

Due == {k \in Keys : /\ jobs[k] # NoJob
                     /\ k \notin inFlight /\ k \notin completed
                     /\ jobs[k].due <= now /\ retryAfter[k] <= now}

BeginDeliver ==
  /\ phase = "finish"
  /\ batch = {}
  /\ phase' = "deliver"
  /\ batch' = Due
  /\ loopNow' = now
  /\ UNCHANGED <<now, rows, memory, inbox, sent, history, faults>>

Earlier(j, k) == \/ jobs[j].due < jobs[k].due
                 \/ jobs[j].due = jobs[k].due /\ jobs[j].created < jobs[k].created

Held == {s \in Slots : sent[s] # NoJob}

\* Mutant: the attempt that could not be handed over is marked as out.
QueueIsFullButOut(k) ==
  /\ Cardinality(Held) >= DeliveryQueue
  /\ inFlight' = inFlight \cup {k}
  /\ UNCHANGED <<sent, retryAfter>>

\* try_send fails: the job waits for its next turn.
QueueIsFull(k) ==
  /\ Cardinality(Held) >= DeliveryQueue
  /\ retryAfter' = [retryAfter EXCEPT ![k] = Later(loopNow)]
  /\ UNCHANGED <<sent, inFlight>>

SendOne(k) ==
  /\ phase = "deliver"
  /\ k \in batch
  /\ \A j \in batch : ~Earlier(j, k)
  /\ batch' = batch \ {k}
  /\ \/ \E s \in Slots \ Held :
          /\ sent' = [sent EXCEPT ![s] =
                        [key |-> k, job |-> jobs[k], gen |-> gen[k]]]
          /\ inFlight' = inFlight \cup {k}
          /\ UNCHANGED retryAfter
     \/ QueueIsFull(k)
  /\ UNCHANGED <<now, rows, jobs, completed, phase, loopNow, inbox, history,
                 faults>>

EndDeliver ==
  /\ phase = "deliver"
  /\ batch = {}
  /\ phase' = "receive"
  /\ UNCHANGED <<now, rows, memory, batch, loopNow, inbox, sent, history, faults>>

-----------------------------------------------------------------------------
(* handle_request, one action per kind of request.                         *)

Receive(op) ==
  /\ phase = "receive"
  /\ inbox # <<>>
  /\ Head(inbox).op = op
  /\ inbox' = Tail(inbox)
  /\ phase' = "loop"
  /\ UNCHANGED <<now, batch, loopNow, sent>>

\* Mutant: a due time of this very second is accepted.
AcceptableNow(key, data) ==
  /\ data.payload # Malformed
  /\ data.due >= now /\ data.due <= now + Horizon

\* validate_set
Acceptable(key, data) ==
  /\ data.payload # Malformed
  /\ data.due > now /\ data.due <= now + Horizon
  /\ \/ jobs[key] # NoJob
     \/ Cardinality({i \in Ids : jobs[<<key[1], i>>] # NoJob}) < MaxJobs

HandleSet ==
  /\ Receive("set")
  /\ LET key  == Head(inbox).key
         data == Head(inbox).data
         job  == [owner |-> data.owner, due |-> data.due,
                  payload |-> data.payload, created |-> now]
     IN \/ /\ ~Acceptable(key, data)
           /\ UNCHANGED <<rows, memory, history, faults>>
        \/ /\ Acceptable(key, data)     \* the INSERT fails: an Err reply
           /\ Fault
           /\ UNCHANGED <<rows, memory, history>>
        \/ /\ Acceptable(key, data)
           /\ rows' = [rows EXCEPT ![key] = job]
           /\ jobs' = [jobs EXCEPT ![key] = job]
           /\ retryAfter' = [retryAfter EXCEPT ![key] = 0]
           /\ completed' = completed \ {key}
           /\ gen' = [gen EXCEPT ![key] = @ + 1]
           /\ succeeded' = succeeded \ {key}
           /\ UNCHANGED <<inFlight, restored, cancelled, faults>>

\* Mutant: the map entry goes even when the row could not be deleted.
HandleCancelIgnoringError ==
  /\ Receive("cancel")
  /\ LET key == Head(inbox).key
     IN /\ jobs' = [jobs EXCEPT ![key] = NoJob]
        /\ retryAfter' = [retryAfter EXCEPT ![key] = 0]
        /\ inFlight' = inFlight \ {key}
        /\ completed' = completed \ {key}
        /\ \/ rows' = [rows EXCEPT ![key] = NoJob] /\ UNCHANGED faults
           \/ Fault /\ UNCHANGED rows
        /\ UNCHANGED history

HandleCancel ==
  /\ Receive("cancel")
  /\ LET key == Head(inbox).key
     IN \/ /\ rows' = [rows EXCEPT ![key] = NoJob]
           /\ jobs' = [jobs EXCEPT ![key] = NoJob]
           /\ retryAfter' = [retryAfter EXCEPT ![key] = 0]
           /\ inFlight' = inFlight \ {key}
           /\ completed' = completed \ {key}
           /\ cancelled' = cancelled \cup {key}
           /\ UNCHANGED <<gen, succeeded, restored, faults>>
        \/ /\ Fault
           /\ UNCHANGED <<rows, memory, history>>

\* Mutant: any job under the attempt's id counts as the one that was sent.
CurrentById(attempt) == jobs[attempt.key] # NoJob

\* Is the job the attempt carried still the one stored under its id?
Current(attempt) == jobs[attempt.key] = attempt.job

\* Mutant: the answer to an outdated attempt returns before clearing in_flight.
ClearInFlightIfCurrent(attempt) ==
  inFlight' = IF Current(attempt) THEN inFlight \ {attempt.key} ELSE inFlight

ClearInFlight(attempt) == inFlight' = inFlight \ {attempt.key}

HandleComplete ==
  /\ Receive("complete")
  /\ LET attempt == Head(inbox).attempt
         key     == attempt.key
         current == Current(attempt)
     IN /\ ClearInFlight(attempt)
        /\ succeeded' = IF current /\ Head(inbox).ok
                        THEN succeeded \cup {key} ELSE succeeded
        /\ \/ /\ ~current
              /\ UNCHANGED <<rows, jobs, retryAfter, completed, faults>>
           \/ /\ current /\ Head(inbox).ok
              /\ rows' = [rows EXCEPT ![key] = NoJob]
              /\ jobs' = [jobs EXCEPT ![key] = NoJob]
              /\ retryAfter' = [retryAfter EXCEPT ![key] = 0]
              /\ UNCHANGED <<completed, faults>>
           \/ /\ current /\ Head(inbox).ok
              /\ Fault
              /\ completed' = completed \cup {key}
              /\ retryAfter' = [retryAfter EXCEPT ![key] = Later(now)]
              /\ UNCHANGED <<rows, jobs>>
           \/ /\ current /\ ~Head(inbox).ok
              /\ retryAfter' = [retryAfter EXCEPT ![key] = Later(now)]
              /\ UNCHANGED <<rows, jobs, completed, faults>>
  /\ UNCHANGED <<gen, restored, cancelled>>

\* recv_timeout runs out: the loop starts over.
ReceiveTimeout ==
  /\ phase = "receive"
  /\ inbox = <<>>
  /\ phase' = "loop"
  /\ UNCHANGED <<now, rows, memory, batch, loopNow, inbox, sent, history, faults>>

-----------------------------------------------------------------------------
(* The scheduler's surroundings.                                           *)

\* set_blocking: try_send refuses when the channel is full (no state changes).
RequestSet(key, data) ==
  /\ "set" \in Requests
  /\ Len(inbox) < InboxSize
  /\ gen[key] < MaxSets
  /\ inbox' = Append(inbox, [op |-> "set", key |-> key, data |-> data])
  /\ UNCHANGED <<now, rows, memory, thread, sent, history, faults>>

\* cancel_blocking, called by the owning module or from the operator's TUI.
RequestCancel(key) ==
  /\ "cancel" \in Requests
  /\ Len(inbox) < InboxSize
  /\ inbox' = Append(inbox, [op |-> "cancel", key |-> key])
  /\ UNCHANGED <<now, rows, memory, thread, sent, history, faults>>

\* ScheduledCompletion::finish: a blocking send.
Complete(s, ok) ==
  /\ sent[s] # NoJob
  /\ Len(inbox) < InboxSize
  /\ inbox' = Append(inbox, [op |-> "complete", attempt |-> sent[s], ok |-> ok])
  /\ sent' = [sent EXCEPT ![s] = NoJob]
  /\ UNCHANGED <<now, rows, memory, thread, history, faults>>

\* deletion_finish erases a profile: its rows go, the job map is not told.
EraseOwner(o) ==
  /\ rows' = [k \in Keys |-> IF rows[k] # NoJob /\ rows[k].owner = o
                             THEN NoJob ELSE rows[k]]
  /\ UNCHANGED <<now, memory, thread, inbox, sent, history, faults>>

\* The process stops and starts again.  The job map is read back from the rows;
\* when that read fails the thread logs it and runs with an empty map.
Restart ==
  /\ Fault
  /\ restored' \in BOOLEAN
  /\ jobs' = IF restored' THEN rows ELSE [k \in Keys |-> NoJob]
  /\ retryAfter' = [k \in Keys |-> 0]
  /\ inFlight' = {} /\ completed' = {} /\ succeeded' = {} /\ cancelled' = {}
  /\ phase' = "loop" /\ batch' = {} /\ loopNow' = now
  /\ inbox' = <<>>
  /\ sent' = [s \in Slots |-> NoJob]
  /\ UNCHANGED <<now, rows, gen>>

Tick ==
  /\ now < MaxTime
  /\ now' = now + 1
  /\ UNCHANGED <<rows, memory, thread, inbox, sent, history, faults>>

-----------------------------------------------------------------------------
Thread ==
  \/ BeginFinish
  \/ \E k \in Keys : FinishOne(k)
  \/ BeginDeliver
  \/ \E k \in Keys : SendOne(k)
  \/ EndDeliver
  \/ HandleSet \/ HandleCancel \/ HandleComplete
  \/ ReceiveTimeout

Environment ==
  \/ \E k \in Keys, d \in SetData : RequestSet(k, d)
  \/ \E k \in Keys : RequestCancel(k)
  \/ \E s \in Slots, ok \in BOOLEAN : Complete(s, ok)
  \/ \E o \in Owners : EraseOwner(o)
  \/ Restart
  \/ Tick

Next == Thread \/ Environment

Spec == Init /\ [][Next]_vars

-----------------------------------------------------------------------------
(* Fairness: the thread never stops looping (recv_timeout waits at most 60 *)
(* seconds), the clock runs, and the module host answers every attempt; a  *)
(* module that is asked again and again eventually accepts its timer.      *)

SucceedFor(k) == \E s \in Held : sent[s].key = k /\ Complete(s, TRUE)

Fairness ==
  /\ WF_vars(Thread)
  /\ WF_vars(Tick)
  /\ \A s \in Slots : WF_vars(\E ok \in BOOLEAN : Complete(s, ok))
  /\ \A k \in Keys : SF_vars(SucceedFor(k))

FairSpec == Spec /\ Fairness

-----------------------------------------------------------------------------
(* Properties.                                                             *)

\* The thread, its queues and its rows hold what the code can put there.
TypeOK ==
  /\ now \in Times /\ loopNow \in Times
  /\ rows \in [Keys -> Job \cup {NoJob}]
  /\ jobs \in [Keys -> Job \cup {NoJob}]
  /\ retryAfter \in [Keys -> Times]
  /\ inFlight \in SUBSET Keys /\ completed \in SUBSET Keys
  /\ phase \in {"loop", "finish", "deliver", "receive"}
  /\ batch \in SUBSET Keys
  /\ inbox \in Seq(Request)
  /\ sent \in [Slots -> Delivery \cup {NoJob}]
  /\ gen \in [Keys -> Nat]
  /\ succeeded \in SUBSET Keys /\ cancelled \in SUBSET Keys /\ restored \in BOOLEAN
  /\ faults \in 0..MaxFaults

\* Attempts the host holds and completions on their way back.
Outstanding ==
  {sent[s] : s \in Held}
    \cup {inbox[i].attempt : i \in {n \in DOMAIN inbox : inbox[n].op = "complete"}}

\* "An old completion must never delete that newer job" (scheduler.rs): once a
\* job was replaced, no attempt of the replaced one still out equals the job
\* now stored under its id, so the comparison in handle_request tells them apart.
StaleAttemptsDiffer ==
  \A d \in Outstanding :
    d.gen # gen[d.key] => jobs[d.key] = NoJob \/ jobs[d.key] # d.job

\* What makes StaleAttemptsDiffer inductive: an attempt was due when it was sent,
\* and whatever replaced its job was accepted later with a due time still ahead.
AttemptsAreOlder ==
  \A d \in Outstanding :
    /\ d.job.due <= now
    /\ d.gen <= gen[d.key]
    /\ d.gen # gen[d.key] /\ jobs[d.key] # NoJob => d.job.due < jobs[d.key].due

BatchIsDue ==
  phase = "deliver" => \A k \in batch : jobs[k] # NoJob /\ jobs[k].due <= now

\* What keeps a served timer from being sent: its job is gone or is only waiting
\* for the row to be deleted, and a delivery pass never picks such a key.
ServedIsSettled ==
  /\ \A k \in succeeded : jobs[k] = NoJob \/ k \in completed
  /\ phase = "deliver" => batch \cap completed = {}

\* The same promise as an effect: a completion takes a job out of the map only if
\* it answers an attempt of that very job, not of one it has replaced.
NewerJobSurvives ==
  [][\A k \in Keys :
       jobs[k] # NoJob /\ jobs'[k] = NoJob /\ HandleComplete
         => Head(inbox).attempt.gen = gen[k]]_vars

\* Every durable row is in the job map of the running thread, unless the last
\* start could not read the rows: no accepted timer waits for a restart to fire,
\* whatever mix of replacement, cancellation, failed deletes and retries ran.
RowsAreScheduled ==
  restored => \A k \in Keys : rows[k] # NoJob => jobs[k] = rows[k]

\* A timer whose handler succeeded is not sent again by this process, even while
\* its row cannot be deleted (the `completed` set in scheduler.rs).
NotSentAfterSuccess ==
  [][\A s \in Slots : sent[s] = NoJob /\ sent'[s] # NoJob
       => sent'[s].key \notin succeeded]_vars

\* One attempt of a key at a time, unless it was cancelled: in_flight covers every
\* attempt the host still owes an answer, through replacement of the job, a full
\* queue and late answers, so two handlers of one timer never overlap.  A cancel
\* forgets the attempt in flight, and the next job of the key may overtake it.
OneAttemptPerKey ==
  /\ \A s, t \in Held :
       sent[s].key = sent[t].key /\ sent[s].key \notin cancelled => s = t
  /\ \A d \in Outstanding : d.key \in inFlight \cup cancelled

\* Attempts are told apart: those of replaced jobs by their contents, those of one
\* job because there is only one at a time.
AttemptsAreApart == StaleAttemptsDiffer /\ OneAttemptPerKey

\* A timer is only sent while its row is stored: erasing a profile removes its
\* "UUID-owned scheduled jobs" (SPEC.md), so they must not fire afterwards.
OnlyStoredJobsFire ==
  [][\A s \in Slots : sent[s] = NoJob /\ sent'[s] # NoJob
       => rows[sent'[s].key] # NoJob]_vars

\* What the durable timers promise (SPEC.md, "durable" timers): the rows, with what is out and
\* on its way back, behave like the service the modules rely on, whatever is replaced, full,
\* refused, restarted or failing.
Timer == INSTANCE TimerService
  WITH Timers <- Keys, version <- gen,
       job <- [k \in Keys |-> IF rows[k] = NoJob THEN "none"
                              ELSE IF k \in completed THEN "served" ELSE "pending"],
       attempts <- {<<d.key, d.gen>> : d \in Outstanding}

TimersAreDurable == Timer!Service

\* Every accepted timer is eventually run to success, cancelled or replaced: a
\* rejected attempt, a full queue, a lost row delete or a restart only delays it.
JobsAreServed ==
  \A k \in Keys : \A g \in 1..MaxSets :
    (gen[k] = g /\ jobs[k] # NoJob /\ restored)
      ~> (gen[k] # g \/ jobs[k] = NoJob \/ ~restored)

=============================================================================
