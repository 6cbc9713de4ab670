---------------------------- MODULE DataLifecycle ----------------------------
(***************************************************************************)
(* Erasing a person's data (modules/mod.rs, db.rs): the confirmation       *)
(* journal, the module thread that asks one module worker after another    *)
(* for a deletion plan and applies it to the module's key-value rows, the  *)
(* workers that meanwhile handle the events already queued for them, and   *)
(* the resumption of unfinished workflows at every reload and restart.     *)
(*                                                                         *)
(* A module's rows are one aggregate record here: a set of facts, each     *)
(* about one person.  A handler reads the record and later writes it back  *)
(* with a fact more; a plan is the record as the host read it, without the *)
(* facts about the subject.                                                *)
(***************************************************************************)
EXTENDS Naturals, Sequences, FiniteSets

CONSTANTS
  Modules,    \* modules with lifecycle hooks
  Persons,    \* profile UUIDs
  Admins,     \* those of them with the super-admin role
  Nobody,     \* a redacted profile column
  Absent,     \* no event, no module
  Overlap,    \* does a reload happen while replaced workers have events left?
  MaxJobs,    \* bound: deletion requests in a behaviour
  MaxEvents,  \* bound: events that make a module store something
  MaxFaults,  \* bound: crashes, timeouts, hook failures and database errors
  QueueCap    \* bound: events waiting in a worker's channel (64)

ASSUME ConstantsAssumption ==
  /\ MaxJobs \in Nat /\ MaxEvents \in Nat /\ MaxFaults \in Nat /\ QueueCap \in Nat
  /\ Admins \subseteq Persons /\ Nobody \notin Persons /\ Absent \notin Modules
  /\ Overlap \in BOOLEAN

Jobs   == 1..MaxJobs      \* ids in order of created_at
Fact   == [who: Persons, n: Nat]
Record == SUBSET Fact
Hand   == [who: Persons, seen: Record]

\* A worker's messages: an event from a person, or the host's deletion request.
Message == [kind: {"event"}, who: Persons] \cup [kind: {"delete"}]

\* The module thread: where it stands, the job and the module it is about, what it read of
\* the module's rows and when, and the jobs still to resume.
HostState == [at: {"idle", "pick", "wait", "apply", "mark", "fail"}, job: 0..MaxJobs,
              module: Modules \cup {Absent}, entries: Record, asOf: Nat, todo: SUBSET Jobs]

\* Threads of a module: the current worker, and the one a reload replaced, which
\* still works off what it had been given.
Threads  == {"new", "old"}
Statuses == {"none", "awaiting", "pending", "failed", "completed", "cancelled",
             "expired"}

VARIABLES
  \* the database
  profiles,  \* live profiles
  status,    \* data_deletion_jobs.status; "none": no such row yet
  subject,   \* data_deletion_jobs.profile_id
  requester, \* data_deletion_jobs.requester_profile_id
  pending,   \* data_deletion_modules rows that are not completed
  registry,  \* module_lifecycle_registry
  kv,        \* module_kv, one record per module
  late,      \* jobs whose ten minutes are over
  \* the process
  loaded,    \* modules with a running worker
  queue,     \* per module and thread, the messages waiting
  busy,      \* per module and thread, the event in hand and the record it read
  inbound,   \* an event whose sender is resolved but that is not dispatched yet
  host,      \* the module thread
  \* history and bounds
  arrived,   \* events so far
  facts,     \* facts written so far
  target,    \* whose data each job is about
  scope,     \* the modules each job listed when it was created
  applied,   \* per job and module, the facts written when the applied plan was
             \* asked for; MaxEvents if none was
  confirmed, \* jobs their requester confirmed in time
  faults

journal == <<profiles, status, subject, requester, pending, late>>
workers == <<loaded, queue, busy>>
history == <<target, scope, applied, confirmed>>
vars == <<journal, registry, kv, workers, inbound, host, arrived, facts, history,
          faults>>

Idle == [at |-> "idle", job |-> 0, module |-> Absent, entries |-> {}, asOf |-> 0,
         todo |-> {}]

Fault == faults < MaxFaults /\ faults' = faults + 1

NoQueues == [m \in Modules |-> [t \in Threads |-> <<>>]]
NoHands  == [m \in Modules |-> [t \in Threads |-> Absent]]

Init ==
  /\ profiles = Persons
  /\ status = [j \in Jobs |-> "none"]
  /\ subject = [j \in Jobs |-> Nobody] /\ requester = subject
  /\ pending = [j \in Jobs |-> {}]
  /\ loaded \in SUBSET Modules /\ registry = loaded
  /\ kv = [m \in Modules |-> {}]
  /\ late = {}
  /\ queue = NoQueues /\ busy = NoHands
  /\ inbound = Absent /\ host = Idle
  /\ arrived = 0 /\ facts = 0
  /\ target = subject /\ scope = pending
  /\ applied = [j \in Jobs |-> [m \in Modules |-> MaxEvents]]
  /\ confirmed = {}
  /\ faults = 0

-----------------------------------------------------------------------------
(* Events on their way to the workers.                                     *)

\* The event pipeline resolves the sender's profile, then queues the event.
Arrive(p, m) ==
  /\ inbound = Absent
  /\ arrived < MaxEvents
  /\ p \in profiles
  /\ inbound' = [who |-> p, module |-> m]
  /\ arrived' = arrived + 1
  /\ UNCHANGED <<journal, registry, kv, workers, host, facts, history, faults>>

\* dispatch: a module that is not loaded, or is behind, loses the event.
Dispatch ==
  /\ host.at = "idle"
  /\ inbound # Absent
  /\ LET m == inbound.module
     IN queue' = IF m \in loaded /\ Len(queue[m]["new"]) < QueueCap
                 THEN [queue EXCEPT ![m]["new"] =
                         Append(@, [kind |-> "event", who |-> inbound.who])]
                 ELSE queue
  /\ inbound' = Absent
  /\ UNCHANGED <<journal, registry, kv, loaded, busy, host, arrived, facts,
                 history, faults>>

\* A handler starts: it reads its record through kv_get.
HandlerReads(m, t) ==
  /\ busy[m][t] = Absent
  /\ queue[m][t] # <<>> /\ Head(queue[m][t]).kind = "event"
  /\ queue' = [queue EXCEPT ![m][t] = Tail(@)]
  /\ busy' = [busy EXCEPT ![m][t] = [who |-> Head(queue[m][t]).who, seen |-> kv[m]]]
  /\ UNCHANGED <<journal, registry, kv, loaded, inbound, host, arrived, facts,
                 history, faults>>

\* It ends: kv_set stores the record it read, with what the event adds.
HandlerWrites(m, t) ==
  /\ busy[m][t] # Absent
  /\ facts' = facts + 1
  /\ kv' = [kv EXCEPT ![m] = busy[m][t].seen
                               \cup {[who |-> busy[m][t].who, n |-> facts + 1]}]
  /\ busy' = [busy EXCEPT ![m][t] = Absent]
  /\ UNCHANGED <<journal, registry, loaded, queue, inbound, host, arrived, history,
                 faults>>

-----------------------------------------------------------------------------
(* The journal: request and confirmation.                                  *)

\* Mutant: an older request about the same person stays confirmable.
SupersededByNone(p) == {}

Superseded(p) == {j \in Jobs : status[j] = "awaiting" /\ subject[j] = p}

\* Mutant: an empty value is stored where NULL belongs.
RedactEmpty(column, set) == [j \in Jobs |-> IF j \in set THEN Absent ELSE column[j]]

\* A row that comes to an end keeps no identifiers.
Redact(column, set) == [j \in Jobs |-> IF j \in set THEN Nobody ELSE column[j]]
Retire(set, s) == [j \in Jobs |-> IF j \in set THEN s ELSE status[j]]

\* initiate_deletion and deletion_create; !mydata asks for oneself, !data needs
\* the super-admin role.
Initiate(r, p, j) ==
  /\ host.at = "idle"
  /\ p \in profiles
  /\ r = p \/ r \in Admins
  /\ status[j] = "none" /\ \A i \in 1..(j - 1) : status[i] # "none"
  /\ LET modules == registry \cup {m \in Modules : kv[m] # {}}
     IN /\ status' = [Retire(Superseded(p), "cancelled") EXCEPT ![j] = "awaiting"]
        /\ subject' = [Redact(subject, Superseded(p)) EXCEPT ![j] = p]
        /\ requester' = [Redact(requester, Superseded(p)) EXCEPT ![j] = r]
        /\ pending' = [pending EXCEPT ![j] = modules]
        /\ scope' = [scope EXCEPT ![j] = modules]
        /\ target' = [target EXCEPT ![j] = p]
  /\ UNCHANGED <<profiles, late, registry, kv, workers, inbound, host, arrived,
                 facts, applied, confirmed, faults>>

\* Ten minutes go by; the deadline is only read while a request awaits confirmation.
TimePasses(j) ==
  /\ status[j] = "awaiting" /\ j \notin late
  /\ late' = late \cup {j}
  /\ UNCHANGED <<profiles, status, subject, requester, pending, registry, kv,
                 workers, inbound, host, arrived, facts, history, faults>>

\* Mutant: the deadline is not compared.
ConfirmableAnyTime(r, j) ==
  /\ requester[j] = r /\ (r \in Admins \/ subject[j] = r)
  /\ status[j] \in {"awaiting", "failed"}

\* deletion_confirm's UPDATE: whose token, whose profile, and in which state.
Confirmable(r, j) ==
  /\ requester[j] = r
  /\ r \in Admins \/ subject[j] = r
  /\ \/ status[j] = "awaiting" /\ j \notin late
     \/ status[j] = "failed"

\* confirm_deletion: a wrong or expired token changes nothing.
Confirm(r, j) ==
  /\ host.at = "idle"
  /\ Confirmable(r, j)
  /\ status' = [status EXCEPT ![j] = "pending"]
  /\ confirmed' = IF j \in late THEN confirmed ELSE confirmed \cup {j}
  /\ host' = [Idle EXCEPT !.at = "pick", !.job = j]
  /\ UNCHANGED <<profiles, subject, requester, pending, late, registry, kv, workers,
                 inbound, arrived, facts, target, scope, applied, faults>>

-----------------------------------------------------------------------------
(* process_deletion, on the module thread: it handles nothing else.        *)

\* The next job of resume_deletions, oldest first, or back to the event loop.
Onward(todo) ==
  IF todo = {} THEN Idle
  ELSE LET j == CHOOSE i \in todo : \A k \in todo : i <= k
       IN [Idle EXCEPT !.at = "pick", !.job = j, !.todo = todo \ {j}]

\* Read the module's rows and put the request behind what its worker still has.
AskModule(m) ==
  /\ host.at = "pick"
  /\ m \in pending[host.job] \cap loaded
  /\ host' = [host EXCEPT !.at = "wait", !.module = m, !.entries = kv[m],
                          !.asOf = facts]
  /\ queue' = [queue EXCEPT ![m]["new"] = Append(@, [kind |-> "delete"])]
  /\ UNCHANGED <<journal, registry, kv, loaded, busy, inbound, arrived, facts,
                 history, faults>>

\* The worker's data_delete hook answers with a plan.
Answer(m) ==
  /\ busy[m]["new"] = Absent
  /\ queue[m]["new"] # <<>> /\ Head(queue[m]["new"]).kind = "delete"
  /\ queue' = [queue EXCEPT ![m]["new"] = Tail(@)]
  /\ \/ host' = [host EXCEPT !.at = "apply"] /\ UNCHANGED faults
     \/ host' = [host EXCEPT !.at = "fail"] /\ Fault  \* malformed module state
  /\ UNCHANGED <<journal, registry, kv, loaded, busy, inbound, arrived, facts,
                 history>>

\* recv_timeout: the request stays with the worker, its answer goes nowhere.  It is the
\* last message: this thread dispatches the others, and it was waiting.
AnswerTimeout ==
  /\ host.at = "wait"
  /\ Fault
  /\ host' = [host EXCEPT !.at = "fail"]
  /\ queue' = [queue EXCEPT ![host.module]["new"] = SubSeq(@, 1, Len(@) - 1)]
  /\ UNCHANGED <<journal, registry, kv, loaded, busy, inbound, arrived, facts,
                 history>>

About(p, record) == {f \in record : f.who = p}

\* Mutant: a failed transaction counts as an applied plan.
ApplyIgnoringError ==
  /\ host.at = "apply"
  /\ \/ LET m == host.module
            p == subject[host.job]
        IN kv' = IF About(p, host.entries) # {} /\ kv[m] # {}
                 THEN [kv EXCEPT ![m] = host.entries \ About(p, host.entries)]
                 ELSE kv
     \/ UNCHANGED kv
  /\ applied' = [applied EXCEPT ![host.job][host.module] = host.asOf]
  /\ host' = [host EXCEPT !.at = "mark"]
  /\ UNCHANGED <<journal, registry, workers, inbound, arrived, facts, target, scope,
                 confirmed, faults>>

\* kv_apply_module: UPDATE or DELETE the rows the plan names.
Apply ==
  /\ host.at = "apply"
  /\ \/ LET m == host.module
            p == subject[host.job]
        IN /\ kv' = IF About(p, host.entries) # {} /\ kv[m] # {}
                    THEN [kv EXCEPT ![m] = host.entries \ About(p, host.entries)]
                    ELSE kv
           /\ applied' = [applied EXCEPT ![host.job][m] = host.asOf]
           /\ host' = [host EXCEPT !.at = "mark"]
           /\ UNCHANGED faults
     \/ Fault /\ host' = [host EXCEPT !.at = "fail"] /\ UNCHANGED <<kv, applied>>
  /\ UNCHANGED <<journal, registry, workers, inbound, arrived, facts, target, scope,
                 confirmed>>

\* deletion_module_done
Mark ==
  /\ host.at = "mark"
  /\ \/ /\ pending' = [pending EXCEPT ![host.job] = @ \ {host.module}]
        /\ host' = [host EXCEPT !.at = "pick"]
        /\ UNCHANGED faults
     \/ Fault /\ host' = [host EXCEPT !.at = "fail"] /\ UNCHANGED pending
  /\ UNCHANGED <<profiles, status, subject, requester, late, registry, kv, workers,
                 inbound, arrived, facts, history>>

\* Mutant: the profile goes although a module is still to be asked.
FinishedBesidesMissing == pending[host.job] \cap loaded = {}

Finished == pending[host.job] = {}

\* deletion_finish, one transaction.
Finish ==
  /\ host.at = "pick" /\ Finished
  /\ \/ LET j == host.job
        IN /\ profiles' = profiles \ {subject[j]}
           /\ status' = Retire({j}, "completed")
           /\ subject' = Redact(subject, {j}) /\ requester' = Redact(requester, {j})
           /\ host' = Onward(host.todo)
           /\ UNCHANGED faults
     \/ Fault /\ host' = [host EXCEPT !.at = "fail"]
        /\ UNCHANGED <<profiles, status, subject, requester>>
  /\ UNCHANGED <<pending, late, registry, kv, workers, inbound, arrived, facts,
                 history>>

\* A listed module has no worker.
MissingModule ==
  /\ host.at = "pick"
  /\ ~(pending[host.job] \subseteq loaded)
  /\ host' = [host EXCEPT !.at = "fail"]
  /\ UNCHANGED <<journal, registry, kv, workers, inbound, arrived, facts, history,
                 faults>>

\* deletion_fail: the workflow waits for the next reload, restart or confirmation.
Fail ==
  /\ host.at = "fail"
  /\ status' = [status EXCEPT ![host.job] = "failed"]
  /\ host' = Onward(host.todo)
  /\ UNCHANGED <<profiles, subject, requester, pending, late, registry, kv, workers,
                 inbound, arrived, facts, history, faults>>

-----------------------------------------------------------------------------
(* Reload, restart, and the journal scan they share.                       *)

\* Mutant: only workflows that never failed are taken up again.
UnfinishedPending == {j \in Jobs : status[j] = "pending"}

Unfinished == {j \in Jobs : status[j] \in {"pending", "failed"}}

Lapsed == {j \in Jobs : status[j] = "awaiting" /\ j \in late}

\* deletion_pending: expire what was never confirmed.
ExpireLapsed ==
  /\ status' = Retire(Lapsed, "expired")
  /\ subject' = Redact(subject, Lapsed) /\ requester' = Redact(requester, Lapsed)

\* !data pending scans the journal too.
ListPending ==
  /\ host.at = "idle"
  /\ ExpireLapsed
  /\ UNCHANGED <<profiles, pending, late, registry, kv, workers, inbound, host,
                 arrived, facts, history, faults>>

Start(modules) ==
  /\ loaded' = modules
  /\ registry' = registry \cup modules
  /\ ExpireLapsed
  /\ host' = Onward(Unfinished)

\* ModMsg::Reload: new workers start, the old ones finish what they were given.
Reload(modules) ==
  /\ host.at = "idle"
  /\ \A m \in Modules : queue[m]["old"] = <<>> /\ busy[m]["old"] = Absent
  /\ Overlap \/ (queue = NoQueues /\ busy = NoHands)
  /\ Start(modules)
  /\ queue' = [m \in Modules |->
                [t \in Threads |-> IF t = "old" THEN queue[m]["new"] ELSE <<>>]]
  /\ busy' = [m \in Modules |->
               [t \in Threads |-> IF t = "old" THEN busy[m]["new"] ELSE Absent]]
  /\ UNCHANGED <<profiles, pending, late, kv, inbound, arrived, facts, history,
                 faults>>

Crash(modules) ==
  /\ Fault
  /\ Start(modules)
  /\ queue' = NoQueues /\ busy' = NoHands /\ inbound' = Absent
  /\ UNCHANGED <<profiles, pending, late, kv, arrived, facts, history>>

-----------------------------------------------------------------------------
HostStep == \/ \E m \in Modules : AskModule(m)
            \/ AnswerTimeout \/ Apply \/ Mark \/ Finish \/ MissingModule \/ Fail

WorkerStep(m, t) ==
  HandlerReads(m, t) \/ HandlerWrites(m, t) \/ (t = "new" /\ Answer(m))

Next ==
  \/ \E p \in Persons, m \in Modules : Arrive(p, m)
  \/ Dispatch
  \/ \E m \in Modules, t \in Threads : HandlerReads(m, t) \/ HandlerWrites(m, t)
  \/ \E m \in Modules : AskModule(m) \/ Answer(m)
  \/ \E r, p \in Persons, j \in Jobs : Initiate(r, p, j)
  \/ \E r \in Persons, j \in Jobs : Confirm(r, j)
  \/ \E j \in Jobs : TimePasses(j)
  \/ AnswerTimeout \/ Apply \/ Mark \/ Finish \/ MissingModule \/ Fail
  \/ ListPending
  \/ \E modules \in SUBSET Modules : Reload(modules) \/ Crash(modules)

Spec == Init /\ [][Next]_vars

\* The threads run; absent modules are installed again one day, which the
\* directory watcher turns into a reload with all of them.
Fairness ==
  /\ WF_vars(HostStep) /\ WF_vars(Dispatch)
  /\ \A m \in Modules, t \in Threads : WF_vars(WorkerStep(m, t))
  /\ SF_vars(Reload(Modules))

FairSpec == Spec /\ Fairness

-----------------------------------------------------------------------------
(* Properties.                                                             *)

\* The journal, the rows, the queues and the module thread are well typed.
TypeOK ==
  /\ profiles \subseteq Persons
  /\ status \in [Jobs -> Statuses]
  /\ subject \in [Jobs -> Persons \cup {Nobody}]
  /\ requester \in [Jobs -> Persons \cup {Nobody}]
  /\ pending \in [Jobs -> SUBSET Modules] /\ scope \in [Jobs -> SUBSET Modules]
  /\ registry \subseteq Modules /\ loaded \subseteq Modules
  /\ kv \in [Modules -> Record]
  /\ late \subseteq Jobs /\ confirmed \subseteq Jobs
  /\ queue \in [Modules -> [Threads -> Seq(Message)]]
  /\ busy \in [Modules -> [Threads -> Hand \cup {Absent}]]
  /\ inbound \in [who: Persons, module: Modules] \cup {Absent}
  /\ host \in HostState
  /\ arrived \in 0..MaxEvents /\ facts \in Nat
  /\ target \in [Jobs -> Persons \cup {Nobody}]
  /\ applied \in [Jobs -> [Modules -> Nat]]
  /\ faults \in 0..MaxFaults

\* Nobody is erased by a request that was superseded, lapsed or not confirmed in
\* its ten minutes, however failures, retries and restarts follow each other.
ErasureWasConfirmed ==
  \A j \in Jobs : status[j] \in {"pending", "failed", "completed"} => j \in confirmed

\* At most one request about a person can be confirmed at any time, so an old
\* token never starts an erasure the person has since asked for anew.
OneTokenPerPerson ==
  \A i, j \in Jobs :
    status[i] = "awaiting" /\ status[j] = "awaiting" /\ subject[i] = subject[j] => i = j

\* An erasure rests on a confirmation its person meant: the token was current when it
\* was entered, and no older one is left that could be entered.
OldTokensAreDead == ErasureWasConfirmed /\ OneTokenPerPerson

\* "Host profile rows ... are removed only after every registered module completes"
\* (SPEC.md): a profile goes only in the step that finds every module listed by a
\* confirmed job of its own asked since.
ProfileGoesLast ==
  [][\A p \in profiles \ profiles' : \E j \in confirmed :
       /\ target[j] = p /\ status'[j] = "completed"
       /\ scope[j] \cap pending[j] = {}]_vars

\* "Module progression ... deleted on a confirmed request" (SPEC.md): what a listed
\* module had stored about the person when its plan was asked for is gone once the
\* workflow completes, whichever steps failed or were repeated, as long as no
\* replaced worker is still writing (Overlap = FALSE).
OldDataIsGone ==
  \A j \in Jobs : status[j] = "completed" =>
    \A m \in scope[j] : \A f \in About(target[j], kv[m]) : f.n > applied[j][m]

\* "Aggregate records are rewritten to remove only that subject" (SPEC.md): a plan
\* never takes away what a module knows about somebody else.
OnlySubjectRemoved ==
  [][Apply => \A m \in Modules : \A f \in kv[m] \ kv'[m] :
                f.who = subject[host.job]]_vars

\* A confirmed request is carried out in the end: a crash, a timeout, a missing
\* module or a database error only delays it.
ConfirmedIsCompleted ==
  \A j \in Jobs : (status[j] \in {"pending", "failed"}) ~> (status[j] = "completed")

=============================================================================
