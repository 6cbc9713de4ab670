----------------------------- MODULE Reminders ------------------------------
(***************************************************************************)
(* Reminders of one network (modules-src/reminders) and the part of the    *)
(* scheduler they rest on: its jobs in memory and their rows.              *)
(*                                                                         *)
(* Handlers run one at a time in the module's worker.  A handler makes     *)
(* several calls to the host, and `done` says how far it came before one   *)
(* of them failed; "all" is its normal end.  Messages are handled as they  *)
(* come, an attempt of a timer some time after the scheduler sent it.  A   *)
(* timer whose handler failed is sent again.  The erasure of a person      *)
(* reads the module's rows, writes back what the module made of them, and  *)
(* removes the person's rows and profile last.                             *)
(*                                                                         *)
(* Texts, places, time zones and how a phrase is read are left out: when a *)
(* reminder is due is the model's choice.                                  *)
(***************************************************************************)
EXTENDS Naturals, FiniteSets

CONSTANTS
  People,          \* profiles
  None,            \* no row
  Delays,          \* how far ahead people ask
  Period,          \* from one occurrence of a recurring reminder to the next
  SnoozeDelay,     \* DEFAULT_SNOOZE
  SnoozeWindow,    \* SNOOZE_WINDOW
  RequestTtl,      \* REQUEST_TTL
  MaxPending,      \* max_pending
  MaxRecurring,    \* max_recurring
  MaxPerRecipient, \* MAX_REQUESTS_PER_RECIPIENT
  MaxTime,         \* bound: the clock
  MaxNumber,       \* bound: reminders of one person
  MaxCommands,     \* bound: commands that change something, erasures among them
  MaxTroubles,     \* bound: failed handlers, restarts and erasures
  MaxErasures      \* bound: people erased

ASSUME RemindersAssumption ==
  /\ Delays \subseteq Nat \ {0} /\ {Period, SnoozeDelay, MaxPending} \subseteq Nat \ {0}
  /\ {SnoozeWindow, RequestTtl, MaxRecurring, MaxPerRecipient, MaxTime, MaxNumber,
      MaxCommands, MaxTroubles, MaxErasures} \subseteq Nat
  /\ None \notin People

VARIABLES
  now,
  jobs,       \* the scheduler's jobs
  rows,       \* the scheduled_jobs table
  flight,     \* attempts with the worker
  answers,    \* one-offs served, of which the scheduler has yet to remove the job
  seq,        \* sequence: the last number given to a person's reminder
  last,       \* last: what was delivered last
  requests,   \* requests: offers to other people that wait for an answer; the token is the
              \* place in the list, which only ever grows at its end
  alive,      \* profiles that exist
  erasure,    \* the erasure in progress, with the rows it read
  commands, troubles, erasures,   \* the bounds; a command's number stands for its request
  acked,      \* reminders whose owner was told they are set (history)
  posts,      \* 1 when a reminder was posted (history)
  served,     \* how often the delivery of a one-off ended well (history)
  unheard,    \* how often a restart lost the answer that it had (history)
  cancelled,  \* reminders whose owner was told they are cancelled (history)
  late,       \* those of them that were already with the worker (history)
  consents    \* requests their addressee accepted (history)

scheduler == <<jobs, rows, flight, answers>>
store == <<seq, last, requests>>
people == <<alive, erasure, erasures>>
history == <<acked, posts, served, unheard, cancelled, late, consents>>
vars == <<now, scheduler, store, people, commands, troubles, history>>

Ids == People \X (1..MaxNumber)
Id(j) == <<j.owner, j.number>>
NoErasure == [stage |-> "none", who |-> None, requests |-> {}, seq |-> 0, last |-> None]

\* The start, with so much of the bounds used up.
InitAfter(time, given, failed) ==
  /\ now = time
  /\ jobs = {} /\ rows = {} /\ flight = {} /\ answers = {}
  /\ seq = [p \in People |-> 0] /\ last = [p \in People |-> None] /\ requests = {}
  /\ alive = People /\ erasure = NoErasure
  /\ commands = given /\ troubles = failed /\ erasures = 0
  /\ acked = {} /\ posts = [i \in Ids |-> 0] /\ served = [i \in Ids |-> 0]
  /\ unheard = [i \in Ids |-> 0] /\ cancelled = {} /\ late = {} /\ consents = {}

Init == InitAfter(0, 0, 0)

-----------------------------------------------------------------------------
(* Helpers.                                                                *)

\* A handler that comes as far as `done` fails unless that is the end.
Ends(done) ==
  IF done = "all" THEN UNCHANGED troubles
  ELSE troubles + erasures < MaxTroubles /\ troubles' = troubles + 1

Counted == commands < MaxCommands /\ commands' = commands + 1

\* schedule_set: a job replaces the one with its id.
With(js, j) == {k \in js : Id(k) # Id(j)} \cup {j}

Owned(p) == {j \in jobs : j.owner = p}
Recurring(p) == {j \in Owned(p) : j.every}

NewJob(p, at, every, from) ==
  [owner |-> p, number |-> seq[p] + 1, at |-> at, every |-> every, from |-> from]

\* A mutant: the new number is not saved.
ScheduleUnsaved(p, at, every, from, done) ==
  /\ Cardinality(Owned(p)) < MaxPending
  /\ seq[p] < MaxNumber
  /\ UNCHANGED seq
  /\ LET j == NewJob(p, at, every, from)
     IN /\ IF done = "numbered" THEN UNCHANGED <<jobs, rows>>
           ELSE jobs' = With(jobs, j) /\ rows' = With(rows, j)
        /\ acked' = IF done = "all" THEN acked \cup {Id(j)} ELSE acked

\* schedule_new: within the person's limit, under the person's next number.
ScheduleNew(p, at, every, from, done) ==
  /\ Cardinality(Owned(p)) < MaxPending
  /\ seq[p] < MaxNumber
  /\ seq' = [seq EXCEPT ![p] = @ + 1]
  /\ LET j == NewJob(p, at, every, from)
     IN /\ IF done = "numbered" THEN UNCHANGED <<jobs, rows>>
           ELSE jobs' = With(jobs, j) /\ rows' = With(rows, j)
        /\ acked' = IF done = "all" THEN acked \cup {Id(j)} ELSE acked

\* load_requests: a request waits an hour.
Waiting == {r \in requests : now - r.created < RequestTtl}

ToIn(rs, p) == {r \in rs : r.to = p}

-----------------------------------------------------------------------------
(* Commands.                                                               *)

\* !remind me ...
Remind(p, delay, every, done) ==
  /\ p \in alive
  /\ every => Cardinality(Recurring(p)) < MaxRecurring
  /\ now + delay <= MaxTime
  /\ ScheduleNew(p, now + delay, every, 0, done)
  /\ Counted /\ Ends(done)
  /\ UNCHANGED <<now, flight, answers, last, requests, people, posts, served, unheard,
                 cancelled, late, consents>>

Request(p, q, at) ==
  [token |-> commands + 1, from |-> p, to |-> q, at |-> at, created |-> now]

\* !remind <nick> ...: the other person is asked.
AskOther(p, q, delay) ==
  /\ {p, q} \subseteq alive /\ p # q
  /\ now + delay <= MaxTime
  /\ \A r \in ToIn(Waiting, q) : r.from # p
  /\ Cardinality(ToIn(Waiting, q)) < MaxPerRecipient
  /\ Counted
  /\ requests' = Waiting \cup
                   {Request(p, q, now + delay)}
  /\ UNCHANGED <<now, scheduler, seq, last, people, troubles, history>>

\* A mutant: whoever answers takes the first request.
FirstOfAny(rs, p) == CHOOSE r \in rs : \A s \in rs : r.token <= s.token

FirstFor(rs, p) == CHOOSE r \in ToIn(rs, p) : \A s \in ToIn(rs, p) : r.token <= s.token

\* !remind accept, !remind decline: the request is gone either way.
Answer(p, accept, done) ==
  /\ p \in alive /\ ToIn(Waiting, p) # {}
  /\ LET r == FirstFor(Waiting, p)
     IN /\ requests' = Waiting \ {r}
        /\ consents' = IF accept /\ r.to = p THEN consents \cup {r.token} ELSE consents
        /\ IF accept /\ r.at > now /\ done # "taken" /\ Cardinality(Owned(p)) < MaxPending
           THEN ScheduleNew(p, r.at, FALSE, r.token, done)
           ELSE UNCHANGED <<jobs, rows, seq, acked>>
  /\ Counted /\ Ends(done)
  /\ UNCHANGED <<now, flight, answers, last, people, posts, served, unheard, cancelled, late>>

\* !snooze: the reminder delivered last comes again, as a new one.
Snooze(p, done) ==
  /\ p \in alive /\ last[p] # None
  /\ now - last[p].at <= SnoozeWindow
  /\ now + SnoozeDelay <= MaxTime
  /\ ScheduleNew(p, now + SnoozeDelay, FALSE, last[p].from, done)
  /\ Counted /\ Ends(done)
  /\ UNCHANGED <<now, flight, answers, last, requests, people, posts, served, unheard,
                 cancelled, late, consents>>

\* !remind cancel <id>
Cancel(p, j) ==
  /\ p \in alive /\ j \in Owned(p)
  /\ jobs' = jobs \ {j}
  /\ rows' = {k \in rows : Id(k) # Id(j)}
  /\ cancelled' = IF rows' # rows THEN cancelled \cup {Id(j)} ELSE cancelled
  /\ late' = IF \E k \in flight : Id(k) = Id(j) THEN late \cup {Id(j)} ELSE late
  /\ Counted
  /\ UNCHANGED <<now, flight, answers, store, people, troubles, acked, posts, served, unheard,
                 consents>>

-----------------------------------------------------------------------------
(* Timers.                                                                 *)

\* A mutant: a job is sent in the second it is due, or never.
DueNow(j) == j.at = now

Due(j) == j.at <= now

\* A mutant: a job that was served is sent again until it is removed.
Unanswered(j) == \A k \in flight : Id(k) # Id(j)

\* An attempt of the job is out, or was served and the job is about to go.
Waits(j) == j \notin answers /\ \A k \in flight : Id(k) # Id(j)

\* The scheduler sends a due job.
Send(id) ==
  /\ \E j \in jobs : Id(j) = id /\ Due(j) /\ Waits(j) /\ flight' = flight \cup {j}
  /\ UNCHANGED <<now, jobs, rows, answers, store, people, commands, troubles, history>>

\* The next occurrence is computed from the time of the delivery.
Occurrence(j) == [j EXCEPT !.at = now + Period]

\* What !snooze finds.
Record(j) == [from |-> j.from, at |-> now]

\* on_event: the reminder is posted, kept for !snooze, counted, and scheduled anew if
\* it recurs.  Counting fails for a profile that does not exist, and with it the
\* handler.  The scheduler hears of a one-off later; of an occurrence that set the next
\* one, and of a failure, there is nothing more for it to do than clear its mark.
Deliver(id, done) ==
  \E j \in flight :
    /\ Id(j) = id
    /\ done = "all" => j.owner \in alive
    /\ done # "all" /\ j.owner \notin alive => done = "kept"
    /\ flight' = flight \ {j}
    /\ posts' = [posts EXCEPT ![id] = IF done = "none" THEN @ ELSE 1]
    /\ last' = IF done \in {"none", "posted"} THEN last
               ELSE [last EXCEPT ![j.owner] = Record(j)]
    /\ IF done = "all" /\ j.every
       THEN jobs' = With(jobs, Occurrence(j)) /\ rows' = With(rows, Occurrence(j))
       ELSE UNCHANGED <<jobs, rows>>
    /\ answers' = IF done = "all" /\ ~j.every THEN answers \cup {j} ELSE answers
    /\ served' = [served EXCEPT ![id] = IF done = "all" /\ ~j.every THEN @ + 1 ELSE @]
    /\ IF j.owner \notin alive THEN UNCHANGED troubles ELSE Ends(done)
    /\ UNCHANGED <<now, seq, requests, people, commands, acked, unheard, cancelled, late,
                   consents>>

\* DeliveryComplete, finish_completed: the job goes unless it is another by now.  While
\* the deletion fails it is tried again: the answer waits on.
Complete(id) ==
  /\ \E j \in answers :
       /\ Id(j) = id
       /\ answers' = answers \ {j}
       /\ IF j \in jobs THEN jobs' = jobs \ {j} /\ rows' = {k \in rows : Id(k) # id}
          ELSE UNCHANGED <<jobs, rows>>
  /\ UNCHANGED <<now, flight, store, people, commands, troubles, history>>

Tick ==
  /\ now < MaxTime /\ now' = now + 1
  /\ UNCHANGED <<scheduler, store, people, commands, troubles, history>>

\* The host starts again, with the jobs of the table; what was served but not removed
\* is among them.
Restart ==
  /\ Ends("restart")
  /\ jobs' = rows /\ flight' = {} /\ answers' = {}
  /\ unheard' = [i \in Ids |-> IF \E j \in answers \cap rows : Id(j) = i THEN unheard[i] + 1
                                ELSE unheard[i]]
  /\ UNCHANGED <<now, rows, store, people, commands, acked, posts, served, cancelled, late,
                 consents>>

-----------------------------------------------------------------------------
(* Erasure.                                                                *)

ReadRows(p) ==
  /\ erasure.stage = "none" /\ p \in alive
  /\ erasures < MaxErasures /\ troubles + erasures < MaxTroubles
  /\ erasures' = erasures + 1 /\ Counted
  /\ erasure' = [stage |-> "asked", who |-> p, requests |-> requests,
                 seq |-> seq[p], last |-> last[p]]
  /\ UNCHANGED <<now, scheduler, store, alive, troubles, history>>

\* data_delete, applied: the rows that were read are removed or written back.
ApplyPlan ==
  /\ erasure.stage = "asked"
  /\ LET p == erasure.who
         without == {r \in erasure.requests : r.from # p /\ r.to # p}
     IN /\ seq' = [seq EXCEPT ![p] = IF erasure.seq > 0 THEN 0 ELSE @]
        /\ last' = [last EXCEPT ![p] = IF erasure.last # None THEN None ELSE @]
        /\ requests' = IF without # erasure.requests THEN without ELSE requests
  /\ erasure' = [erasure EXCEPT !.stage = "applied"]
  /\ UNCHANGED <<now, scheduler, alive, erasures, commands, troubles, history>>

\* deletion_finish: the person's rows go, the jobs in memory stay.
FinishErasure ==
  /\ erasure.stage = "applied"
  /\ rows' = {j \in rows : j.owner # erasure.who}
  /\ alive' = alive \ {erasure.who}
  /\ erasure' = NoErasure
  /\ UNCHANGED <<now, jobs, flight, answers, store, erasures, commands, troubles, history>>

-----------------------------------------------------------------------------
NewDone == {"numbered", "scheduled", "all"}
DeliverDone == {"none", "posted", "kept", "all"}

Command(p) ==
  \/ \E delay \in Delays, every \in BOOLEAN, done \in NewDone : Remind(p, delay, every, done)
  \/ \E q \in People, delay \in Delays : AskOther(p, q, delay)
  \/ \E accept \in BOOLEAN, done \in NewDone \cup {"taken"} : Answer(p, accept, done)
  \/ \E done \in NewDone : Snooze(p, done)
  \/ \E j \in jobs : Cancel(p, j)

Timers(p) ==
  \E n \in 1..MaxNumber :
    \/ Send(<<p, n>>)
    \/ \E done \in DeliverDone : Deliver(<<p, n>>, done)
    \/ Complete(<<p, n>>)

Next ==
  \/ \E p \in People : Command(p) \/ Timers(p) \/ ReadRows(p)
  \/ Tick \/ Restart \/ ApplyPlan \/ FinishErasure

\* The scheduler and the worker are threads that keep running, and time passes.
Fairness == WF_vars(Tick) /\ \A p \in People : WF_vars(Timers(p))

Spec == Init /\ [][Next]_vars /\ Fairness

-----------------------------------------------------------------------------
(* Properties.                                                             *)

Jobs ==
  [owner : People, number : 1..MaxNumber, at : Nat, every : BOOLEAN, from : 0..MaxCommands]
Requests ==
  [token : 1..MaxCommands, from : People, to : People, at : Nat, created : 0..MaxTime]
Delivered == [from : 0..MaxCommands, at : 0..MaxTime]

TypeOK ==
  /\ now \in 0..MaxTime
  /\ IsFiniteSet(jobs) /\ jobs \subseteq Jobs /\ IsFiniteSet(rows) /\ rows \subseteq Jobs
  /\ flight \subseteq Jobs /\ answers \subseteq Jobs
  /\ seq \in [People -> 0..MaxNumber] /\ last \in [People -> Delivered \cup {None}]
  /\ IsFiniteSet(requests) /\ requests \subseteq Requests
  /\ alive \subseteq People
  /\ IsFiniteSet(erasure.requests) /\ erasure.requests \subseteq Requests
  /\ erasure \in [stage : {"none", "asked", "applied"}, who : People \cup {None},
                  requests : SUBSET Requests, seq : 0..MaxNumber, last : Delivered \cup {None}]
  /\ erasure.who = None <=> erasure.stage = "none"
  /\ commands \in 0..MaxCommands /\ troubles \in Nat /\ erasures \in Nat
  /\ acked \subseteq Ids /\ cancelled \subseteq Ids /\ late \subseteq Ids
  /\ consents \subseteq 1..MaxCommands
  /\ posts \in [Ids -> 0..1] /\ served \in [Ids -> Nat] /\ unheard \in [Ids -> Nat]

Present == {p \in alive : erasure.who # p}

\* Of every reminder its owner was told of there is a job, or it was posted or
\* cancelled; a one-off is served once however handlers fail ("overdue jobs fire once"),
\* and once more only for an answer that a restart lost before the row was deleted; and
\* one whose cancellation was confirmed does not come back, unless it was already with
\* the worker.
RemindersAreKept ==
  \A id \in acked :
    id[1] \in Present =>
      /\ \/ \E j \in jobs : Id(j) = id
         \/ posts[id] > 0
         \/ id \in cancelled
      /\ served[id] <= 1 + unheard[id]
      /\ id \in cancelled \ late => \A j \in jobs : Id(j) # id

\* "Nothing is scheduled unless she answers !remind accept within the hour", "requests
\* are capped at one per pair and three per recipient", recurring reminders at
\* max_recurring; the last unless a cancelled one was with the worker and came back.
AskingIsLimited ==
  /\ \A j \in jobs \cup flight : j.from # 0 => j.from \in consents
  /\ \A r, s \in requests : r # s => r.from # s.from \/ r.to # s.to
  /\ \A p \in People : Cardinality(ToIn(requests, p)) <= MaxPerRecipient
  /\ late = {} => \A p \in Present : Cardinality(Recurring(p)) <= MaxRecurring

\* What was asked for is kept, and nothing else was asked for.
RemindersAreSound == RemindersAreKept /\ AskingIsLimited

\* Again and again nobody waits for a reminder they were told is set: each is posted or
\* cancelled some time, unless its owner is erased (commands are bounded).
RemindersArrive ==
  []<>(\A id \in acked : posts[id] > 0 \/ id \in cancelled \/ id[1] \notin Present)
=============================================================================
