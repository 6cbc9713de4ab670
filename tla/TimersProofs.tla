--------------------------- MODULE TimersProofs ---------------------------
(***************************************************************************)
(* Proofs about what is kept for later.  The reminders: what is kept has   *)
(* its shape; what a person was told is set is kept, and nothing is set    *)
(* that nobody agreed to.  Timed bans and weather alerts: what is in force *)
(* has its timer, and what was told is true.                               *)
(***************************************************************************)
EXTENDS MCTimers, Sequences, FiniteSetTheorems, WellFoundedInduction, TLAPS

-----------------------------------------------------------------------------
(* Shapes.                                                                 *)

LEMMA Bounds ==
  /\ MaxTime \in Nat /\ MaxNumber \in Nat /\ MaxCommands \in Nat /\ MaxPerRecipient \in Nat
  /\ MaxRecurring \in Nat /\ Period \in Nat /\ SnoozeDelay \in Nat /\ Delays \subseteq Nat
  /\ MaxTroubles \in Nat /\ MaxErasures \in Nat /\ None \notin People
  BY RemindersAssumption

LEMMA JobParts ==
  ASSUME NEW j \in Jobs
  PROVE  /\ j.owner \in People /\ j.number \in 1..MaxNumber /\ j.number \in Nat
         /\ j.at \in Nat /\ j.every \in BOOLEAN /\ j.from \in 0..MaxCommands
         /\ Id(j) = <<j.owner, j.number>> /\ Id(j) \in Ids
         /\ Id(j)[1] = j.owner /\ Id(j)[2] = j.number
  BY Bounds DEF Jobs, Id, Ids

LEMMA NewJobParts ==
  ASSUME TypeOK, NEW p \in People, NEW at \in Nat, NEW every \in BOOLEAN, NEW from \in 0..MaxCommands,
         seq[p] < MaxNumber
  PROVE  /\ NewJob(p, at, every, from) \in Jobs /\ NewJob(p, at, every, from).from = from
         /\ NewJob(p, at, every, from).every = every /\ NewJob(p, at, every, from).owner = p
         /\ NewJob(p, at, every, from).number = seq[p] + 1
         /\ Id(NewJob(p, at, every, from)) = <<p, seq[p] + 1>>
         /\ seq[p] + 1 \in 1..MaxNumber
<1>1. seq[p] \in 0..MaxNumber /\ seq[p] + 1 \in 1..MaxNumber
  BY Bounds DEF TypeOK
<1> QED
  BY <1>1 DEF NewJob, Jobs, Id

LEMMA OccurrenceParts ==
  ASSUME TypeOK, NEW j \in Jobs
  PROVE  /\ Occurrence(j) \in Jobs /\ Id(Occurrence(j)) = Id(j) /\ Occurrence(j).owner = j.owner
         /\ Occurrence(j).every = j.every /\ Occurrence(j).from = j.from
<1>1. now + Period \in Nat
  BY Bounds DEF TypeOK
<1> QED
  BY <1>1 DEF Occurrence, Jobs, Id

LEMMA RecordIsTyped ==
  ASSUME TypeOK, NEW j \in Jobs
  PROVE  Record(j) \in Delivered /\ Record(j).from = j.from
  BY DEF Record, Delivered, TypeOK, Jobs

LEMMA WithIsTyped ==
  ASSUME NEW js, NEW j \in Jobs, js \subseteq Jobs
  PROVE  With(js, j) \subseteq Jobs /\ (IsFiniteSet(js) => IsFiniteSet(With(js, j)))
<1>1. {k \in js : Id(k) # Id(j)} \subseteq js
  OBVIOUS
<1>2. IsFiniteSet(js) => IsFiniteSet({k \in js : Id(k) # Id(j)})
  BY <1>1, FS_Subset
<1> QED
  BY <1>2, FS_AddElement DEF With

LEMMA RequestIsTyped ==
  ASSUME TypeOK, commands < MaxCommands, NEW p \in People, NEW q \in People, NEW at \in Nat
  PROVE  Request(p, q, at) \in Requests
<1>1. commands + 1 \in 1..MaxCommands /\ now \in 0..MaxTime
  BY Bounds DEF TypeOK
<1> QED
  BY <1>1 DEF Request, Requests

LEMMA WaitingIsTyped ==
  ASSUME TypeOK
  PROVE  Waiting \subseteq Requests /\ IsFiniteSet(Waiting) /\ Waiting \subseteq requests
  BY FS_Subset DEF Waiting, TypeOK

\* The request that is answered waits for the one who answers.
LEMMA FirstIsTyped ==
  ASSUME TypeOK, NEW p \in People, ToIn(Waiting, p) # {}
  PROVE  FirstFor(Waiting, p) \in Waiting /\ FirstFor(Waiting, p).to = p
<1> DEFINE S == {r.token : r \in ToIn(Waiting, p)}
<1>1. S \subseteq Nat /\ S # {}
  BY WaitingIsTyped, Bounds DEF ToIn, Requests
<1>2. \A r \in ToIn(Waiting, p) : r.token \in S
  OBVIOUS
<1>3. \A n \in S : \E r \in ToIn(Waiting, p) : n = r.token
  OBVIOUS
<1> HIDE DEF S
<1>4. PICK n \in S : \A m \in S : n <= m
  <2>1. PICK n \in S : \A m \in S : ~(<<m, n>> \in OpToRel(<, Nat))
    BY <1>1, NatLessThanWellFounded, WFMin
  <2>2. \A m \in S : ~(m < n)
    BY <1>1, <2>1 DEF OpToRel
  <2> QED
    BY <1>1, <2>2
<1>5. \E r \in ToIn(Waiting, p) : \A s \in ToIn(Waiting, p) : r.token <= s.token
  BY <1>2, <1>4, <1>3
<1>6. FirstFor(Waiting, p) \in ToIn(Waiting, p)
  BY <1>5 DEF FirstFor
<1> QED
  BY <1>6 DEF ToIn

\* A person's next reminder.
LEMMA ScheduleKeepsTypes ==
  ASSUME TypeOK, NEW p \in alive, NEW at \in Nat, NEW every \in BOOLEAN, NEW from \in 0..MaxCommands,
         NEW done, ScheduleNew(p, at, every, from, done)
  PROVE  /\ IsFiniteSet(jobs') /\ jobs' \subseteq Jobs /\ IsFiniteSet(rows') /\ rows' \subseteq Jobs
         /\ seq' \in [People -> 0..MaxNumber] /\ acked' \subseteq Ids
<1> DEFINE j == NewJob(p, at, every, from)
<1>1. p \in People /\ seq[p] < MaxNumber /\ seq \in [People -> 0..MaxNumber]
  BY DEF TypeOK, ScheduleNew
<1>2. j \in Jobs /\ Id(j) \in Ids /\ seq[p] + 1 \in 0..MaxNumber
  BY <1>1, NewJobParts, JobParts, Bounds
<1>3. /\ seq' = [seq EXCEPT ![p] = @ + 1]
      /\ \/ UNCHANGED <<jobs, rows>>
         \/ jobs' = With(jobs, j) /\ rows' = With(rows, j)
      /\ acked' \subseteq acked \cup {Id(j)}
  BY DEF ScheduleNew
<1> HIDE DEF j
<1>4. IsFiniteSet(jobs) /\ jobs \subseteq Jobs /\ IsFiniteSet(rows) /\ rows \subseteq Jobs /\ acked \subseteq Ids
  BY DEF TypeOK
<1>5. IsFiniteSet(jobs') /\ jobs' \subseteq Jobs /\ IsFiniteSet(rows') /\ rows' \subseteq Jobs
  BY <1>2, <1>3, <1>4, WithIsTyped
<1> QED
  BY <1>1, <1>2, <1>3, <1>4, <1>5

\* What each sort of step leaves of the shape of the state.
LEMMA RemindKeepsTypes ==
  ASSUME TypeOK, NEW p \in People, NEW delay \in Delays, NEW every \in BOOLEAN, NEW done,
         Remind(p, delay, every, done)
  PROVE  TypeOK'
<1>1. /\ p \in alive /\ ScheduleNew(p, now + delay, every, 0, done)
      /\ commands < MaxCommands /\ commands' = commands + 1
      /\ troubles' = troubles \/ troubles' = troubles + 1
      /\ UNCHANGED <<now, flight, answers, last, requests, people, posts, served, unheard, cancelled, late, consents>>
  BY DEF Remind, Counted, Ends
<1>2. now + delay \in Nat /\ 0 \in 0..MaxCommands
  BY Bounds DEF TypeOK
<1>3. /\ IsFiniteSet(jobs') /\ jobs' \subseteq Jobs /\ IsFiniteSet(rows') /\ rows' \subseteq Jobs
      /\ seq' \in [People -> 0..MaxNumber] /\ acked' \subseteq Ids
  BY <1>1, <1>2, ScheduleKeepsTypes
<1>4. commands' \in 0..MaxCommands /\ troubles' \in Nat
  BY <1>1, Bounds DEF TypeOK
<1> QED
  BY <1>1, <1>3, <1>4 DEF TypeOK, people

LEMMA SnoozeKeepsTypes ==
  ASSUME TypeOK, NEW p \in People, NEW done, Snooze(p, done)
  PROVE  TypeOK'
<1>1. /\ p \in alive /\ ScheduleNew(p, now + SnoozeDelay, FALSE, last[p].from, done)
      /\ last[p] # None
      /\ commands < MaxCommands /\ commands' = commands + 1
      /\ troubles' = troubles \/ troubles' = troubles + 1
      /\ UNCHANGED <<now, flight, answers, last, requests, people, posts, served, unheard, cancelled, late, consents>>
  BY DEF Snooze, Counted, Ends
<1>2. now + SnoozeDelay \in Nat /\ last[p].from \in 0..MaxCommands
  BY <1>1, Bounds DEF TypeOK, Delivered
<1>3. /\ IsFiniteSet(jobs') /\ jobs' \subseteq Jobs /\ IsFiniteSet(rows') /\ rows' \subseteq Jobs
      /\ seq' \in [People -> 0..MaxNumber] /\ acked' \subseteq Ids
  BY <1>1, <1>2, ScheduleKeepsTypes
<1>4. commands' \in 0..MaxCommands /\ troubles' \in Nat
  BY <1>1, Bounds DEF TypeOK
<1> QED
  BY <1>1, <1>3, <1>4 DEF TypeOK, people

LEMMA AskKeepsTypes ==
  ASSUME TypeOK, NEW p \in People, NEW q \in People, NEW delay \in Delays, AskOther(p, q, delay)
  PROVE  TypeOK'
<1>1. /\ requests' = Waiting \cup {Request(p, q, now + delay)}
      /\ commands < MaxCommands /\ commands' = commands + 1
      /\ UNCHANGED <<now, scheduler, seq, last, people, troubles, history>>
  BY DEF AskOther, Counted
<1>2. now + delay \in Nat
  BY Bounds DEF TypeOK
<1>3. IsFiniteSet(requests') /\ requests' \subseteq Requests
  BY <1>1, <1>2, RequestIsTyped, WaitingIsTyped, FS_AddElement
<1>4. commands' \in 0..MaxCommands
  BY <1>1, Bounds DEF TypeOK
<1> QED
  BY <1>1, <1>3, <1>4 DEF TypeOK, people, scheduler, history

LEMMA AnswerKeepsTypes ==
  ASSUME TypeOK, NEW p \in People, NEW accept \in BOOLEAN, NEW done, Answer(p, accept, done)
  PROVE  TypeOK'
<1> DEFINE r == FirstFor(Waiting, p)
<1>1. /\ p \in alive /\ requests' = Waiting \ {r}
      /\ consents' \subseteq consents \cup {r.token}
      /\ \/ ScheduleNew(p, r.at, FALSE, r.token, done)
         \/ UNCHANGED <<jobs, rows, seq, acked>>
      /\ commands < MaxCommands /\ commands' = commands + 1
      /\ troubles' = troubles \/ troubles' = troubles + 1
      /\ UNCHANGED <<now, flight, answers, last, people, posts, served, unheard, cancelled, late>>
  BY DEF Answer, Counted, Ends
<1>2. r \in Requests
  BY FirstIsTyped, WaitingIsTyped DEF Answer
<1> HIDE DEF r
<1>3. r.at \in Nat /\ r.token \in 0..MaxCommands /\ r.token \in 1..MaxCommands
  BY <1>2, Bounds DEF Requests
<1>4. /\ IsFiniteSet(jobs') /\ jobs' \subseteq Jobs /\ IsFiniteSet(rows') /\ rows' \subseteq Jobs
      /\ seq' \in [People -> 0..MaxNumber] /\ acked' \subseteq Ids
  <2>1. CASE ScheduleNew(p, r.at, FALSE, r.token, done)
    BY <1>1, <1>3, <2>1, ScheduleKeepsTypes
  <2>2. CASE UNCHANGED <<jobs, rows, seq, acked>>
    BY <2>2 DEF TypeOK
  <2> QED
    BY <1>1, <2>1, <2>2
<1>5. IsFiniteSet(requests') /\ requests' \subseteq Requests
  BY <1>1, WaitingIsTyped, FS_Subset
<1>6. consents' \subseteq 1..MaxCommands
  BY <1>1, <1>3 DEF TypeOK
<1>7. commands' \in 0..MaxCommands /\ troubles' \in Nat
  BY <1>1, Bounds DEF TypeOK
<1> QED
  BY <1>1, <1>4, <1>5, <1>6, <1>7 DEF TypeOK, people

LEMMA CancelKeepsTypes ==
  ASSUME TypeOK, NEW p \in People, NEW j \in jobs, Cancel(p, j)
  PROVE  TypeOK'
<1>1. /\ jobs' = jobs \ {j} /\ rows' \subseteq rows
      /\ cancelled' \subseteq cancelled \cup {Id(j)} /\ late' \subseteq late \cup {Id(j)}
      /\ commands < MaxCommands /\ commands' = commands + 1
      /\ UNCHANGED <<now, flight, answers, store, people, troubles, acked, posts, served, unheard, consents>>
  BY DEF Cancel, Counted
<1>2. Id(j) \in Ids
  BY JobParts DEF TypeOK
<1>3. IsFiniteSet(jobs') /\ jobs' \subseteq Jobs /\ IsFiniteSet(rows') /\ rows' \subseteq Jobs
  BY <1>1, FS_Subset DEF TypeOK
<1>4. commands' \in 0..MaxCommands
  BY <1>1, Bounds DEF TypeOK
<1> QED
  BY <1>1, <1>2, <1>3, <1>4 DEF TypeOK, people, store

LEMMA DeliverKeepsTypes ==
  ASSUME TypeOK, NEW id \in Ids, NEW done, Deliver(id, done)
  PROVE  TypeOK'
<1>1. PICK j \in flight :
        /\ flight' = flight \ {j}
        /\ posts' = [posts EXCEPT ![id] = IF done = "none" THEN @ ELSE 1]
        /\ last' = last \/ last' = [last EXCEPT ![j.owner] = Record(j)]
        /\ \/ jobs' = With(jobs, Occurrence(j)) /\ rows' = With(rows, Occurrence(j))
           \/ UNCHANGED <<jobs, rows>>
        /\ answers' \subseteq answers \cup {j}
        /\ served' = [served EXCEPT ![id] = IF done = "all" /\ ~j.every THEN @ + 1 ELSE @]
        /\ troubles' = troubles \/ troubles' = troubles + 1
        /\ UNCHANGED <<now, seq, requests, people, commands, acked, unheard, cancelled, late, consents>>
  BY DEF Deliver, Ends
<1>2. j \in Jobs /\ j.owner \in People /\ Occurrence(j) \in Jobs /\ Record(j) \in Delivered
  BY JobParts, OccurrenceParts, RecordIsTyped DEF TypeOK
<1>3. IsFiniteSet(jobs') /\ jobs' \subseteq Jobs /\ IsFiniteSet(rows') /\ rows' \subseteq Jobs
      /\ flight' \subseteq Jobs /\ answers' \subseteq Jobs
  <2>1. /\ IsFiniteSet(jobs) /\ jobs \subseteq Jobs /\ IsFiniteSet(rows) /\ rows \subseteq Jobs
        /\ flight \subseteq Jobs /\ answers \subseteq Jobs
    BY DEF TypeOK
  <2> QED
    BY <1>1, <1>2, <2>1, WithIsTyped
<1>4. last' \in [People -> Delivered \cup {None}]
  BY <1>1, <1>2 DEF TypeOK
<1>5. posts' \in [Ids -> 0..1]
  BY <1>1 DEF TypeOK
<1>6. served' \in [Ids -> Nat]
  BY <1>1 DEF TypeOK
<1>7. troubles' \in Nat
  BY <1>1 DEF TypeOK
<1> QED
  BY <1>1, <1>3, <1>4, <1>5, <1>6, <1>7 DEF TypeOK, people

LEMMA CompleteKeepsTypes ==
  ASSUME TypeOK, NEW id, Complete(id)
  PROVE  TypeOK'
<1>1. /\ answers' \subseteq answers /\ jobs' \subseteq jobs /\ rows' \subseteq rows
      /\ UNCHANGED <<now, flight, store, people, commands, troubles, history>>
  BY DEF Complete
<1>2. IsFiniteSet(jobs') /\ jobs' \subseteq Jobs /\ IsFiniteSet(rows') /\ rows' \subseteq Jobs /\ answers' \subseteq Jobs
  BY <1>1, FS_Subset DEF TypeOK
<1> QED
  BY <1>1, <1>2 DEF TypeOK, store, people, history

LEMMA RestartKeepsTypes ==
  ASSUME TypeOK, Restart
  PROVE  TypeOK'
<1>1. /\ jobs' = rows /\ flight' = {} /\ answers' = {} /\ (troubles' = troubles \/ troubles' = troubles + 1)
      /\ UNCHANGED <<now, rows, store, people, commands, acked, posts, served, cancelled, late, consents>>
  BY DEF Restart, Ends
<1>2. unheard' \in [Ids -> Nat]
  BY DEF Restart, TypeOK
<1> QED
  BY <1>1, <1>2 DEF TypeOK, store, people

LEMMA ReadKeepsTypes ==
  ASSUME TypeOK, NEW p \in People, ReadRows(p)
  PROVE  TypeOK'
<1>1. /\ erasures' = erasures + 1
      /\ erasure' = [stage |-> "asked", who |-> p, requests |-> requests, seq |-> seq[p], last |-> last[p]]
      /\ commands < MaxCommands /\ commands' = commands + 1
      /\ UNCHANGED <<now, scheduler, store, alive, troubles, history>>
  BY DEF ReadRows, Counted
<1>2. /\ erasure' \in [stage : {"none", "asked", "applied"}, who : People \cup {None},
                      requests : SUBSET Requests, seq : 0..MaxNumber, last : Delivered \cup {None}]
      /\ erasure'.requests = requests /\ erasure'.who = p /\ erasure'.stage = "asked"
  BY <1>1 DEF TypeOK
<1>3. /\ p # None /\ erasures' \in Nat /\ commands' \in 0..MaxCommands
      /\ IsFiniteSet(requests) /\ requests \subseteq Requests
  BY <1>1, Bounds DEF TypeOK
<1> QED
  BY <1>1, <1>2, <1>3 DEF TypeOK, scheduler, store, history

LEMMA ApplyKeepsTypes ==
  ASSUME TypeOK, ApplyPlan
  PROVE  TypeOK'
<1> DEFINE p == erasure.who
<1>1. /\ erasure.stage = "asked"
      /\ seq' = [seq EXCEPT ![p] = IF erasure.seq > 0 THEN 0 ELSE @]
      /\ last' = [last EXCEPT ![p] = IF erasure.last # None THEN None ELSE @]
      /\ requests' \subseteq erasure.requests \/ requests' = requests
      /\ erasure' = [erasure EXCEPT !.stage = "applied"]
      /\ UNCHANGED <<now, scheduler, alive, erasures, commands, troubles, history>>
  BY DEF ApplyPlan
<1>2. seq' \in [People -> 0..MaxNumber] /\ last' \in [People -> Delivered \cup {None}]
  BY <1>1, Bounds DEF TypeOK
<1>3. IsFiniteSet(requests') /\ requests' \subseteq Requests
  BY <1>1, FS_Subset DEF TypeOK
<1>4. /\ erasure' \in [stage : {"none", "asked", "applied"}, who : People \cup {None},
                      requests : SUBSET Requests, seq : 0..MaxNumber, last : Delivered \cup {None}]
      /\ erasure'.requests = erasure.requests /\ erasure'.who = erasure.who /\ erasure'.stage = "applied"
  BY <1>1 DEF TypeOK
<1>5. erasure'.who # None /\ IsFiniteSet(erasure'.requests) /\ erasure'.requests \subseteq Requests
  BY <1>1, <1>4 DEF TypeOK
<1> QED
  BY <1>1, <1>2, <1>3, <1>4, <1>5 DEF TypeOK, scheduler, history

LEMMA FinishKeepsTypes ==
  ASSUME TypeOK, FinishErasure
  PROVE  TypeOK'
<1>1. /\ rows' \subseteq rows /\ IsFiniteSet(rows') /\ alive' \subseteq alive /\ erasure' = NoErasure
      /\ UNCHANGED <<now, jobs, flight, answers, store, erasures, commands, troubles, history>>
  BY FS_Subset DEF FinishErasure, TypeOK
<1>2. /\ NoErasure \in [stage : {"none", "asked", "applied"}, who : People \cup {None},
                      requests : SUBSET Requests, seq : 0..MaxNumber, last : Delivered \cup {None}]
      /\ NoErasure.requests = {} /\ NoErasure.who = None /\ NoErasure.stage = "none"
  BY Bounds DEF NoErasure
<1>3. IsFiniteSet({})
  BY FS_EmptySet
<1> QED
  BY <1>1, <1>2, <1>3 DEF TypeOK, store, history

LEMMA TypeStep ==
  ASSUME TypeOK, [Next]_vars
  PROVE  TypeOK'
<1>1. CASE UNCHANGED vars
  BY <1>1 DEF TypeOK, vars, scheduler, store, people, history
<1>2. ASSUME NEW p \in People, Command(p)
      PROVE  TypeOK'
  BY <1>2, RemindKeepsTypes, AskKeepsTypes, AnswerKeepsTypes, SnoozeKeepsTypes, CancelKeepsTypes
     DEF Command
<1>3. ASSUME NEW p \in People, Timers(p)
      PROVE  TypeOK'
  <2>1. PICK n \in 1..MaxNumber :
          \/ Send(<<p, n>>)
          \/ \E done \in DeliverDone : Deliver(<<p, n>>, done)
          \/ Complete(<<p, n>>)
    BY <1>3 DEF Timers
  <2>2. <<p, n>> \in Ids
    BY DEF Ids
  <2>3. CASE Send(<<p, n>>)
    BY <2>3 DEF Send, TypeOK, store, people, history
  <2>4. ASSUME NEW done \in DeliverDone, Deliver(<<p, n>>, done)
        PROVE  TypeOK'
    BY <2>2, <2>4, DeliverKeepsTypes
  <2> QED
    BY <2>1, <2>3, <2>4, CompleteKeepsTypes
<1>4. CASE Tick
  BY <1>4, Bounds DEF Tick, TypeOK, scheduler, store, people, history
<1>5. CASE Restart
  BY <1>5, RestartKeepsTypes
<1>6. CASE ApplyPlan \/ FinishErasure \/ \E p \in People : ReadRows(p)
  BY <1>6, ApplyKeepsTypes, FinishKeepsTypes, ReadKeepsTypes
<1> QED
  BY <1>1, <1>2, <1>3, <1>4, <1>5, <1>6 DEF Next

THEOREM TypeCorrect == Spec => []TypeOK
<1>1. Init => TypeOK
  BY Bounds, FS_EmptySet DEF Init, InitAfter, NoErasure, TypeOK
<1>2. TypeOK /\ [Next]_vars => TypeOK'
  BY TypeStep
<1> QED
  BY <1>1, <1>2, PTL DEF Spec

-----------------------------------------------------------------------------
(* What the reminders of the people who are not being erased rest on.  The *)
(* table has the jobs of the living; an attempt that is out has its job as *)
(* it was sent, unless it was cancelled meanwhile; numbers are given once; *)
(* what was cancelled before it was sent has no job; and what was served   *)
(* has one only until its answer is heard, or if a restart lost the answer.*)

Here(id) == id[1] \in Present
Names(js) == {Id(j) : j \in js}
Given(id) == id \in acked \cup cancelled \cup Names(jobs) \cup Names(flight) \/ served[id] > 0
Over == cancelled \ late

RowsAreJobs == rows = {j \in jobs : j.owner \in alive}
OneEach(js) == \A j, k \in js : Id(j) = Id(k) => j = k
FlightIsKnown ==
  \A j \in flight : j.owner \in Present =>
    /\ \A k \in jobs : Id(k) = Id(j) => k = j
    /\ j \in jobs \/ Id(j) \in late
NumbersAreGiven == \A id \in Ids : Here(id) /\ Given(id) => id[2] <= seq[id[1]]
OverIsOver == \A j \in jobs \cup flight : j.owner \in Present => Id(j) \notin Over
NotServedYet ==
  \A j \in (jobs \ answers) \cup flight : j.owner \in Present => served[Id(j)] <= unheard[Id(j)]
ServedOnce == \A id \in Ids : Here(id) => served[id] <= 1 + unheard[id]
AnswersAreKnown == answers \cap flight = {} /\ \A j \in answers : posts[Id(j)] > 0
Kept == \A id \in acked : Here(id) => id \in Names(jobs) \cup cancelled \/ posts[id] > 0
RecurringIsLimited == late = {} => \A p \in Present : Cardinality(Recurring(p)) <= MaxRecurring

KeepInv ==
  /\ RowsAreJobs /\ OneEach(jobs) /\ OneEach(flight) /\ FlightIsKnown /\ NumbersAreGiven
  /\ OverIsOver /\ NotServedYet /\ ServedOnce /\ AnswersAreKnown /\ Kept /\ RecurringIsLimited

LEMMA PresentAreAlive ==
  ASSUME TypeOK
  PROVE  Present \subseteq alive /\ Present \subseteq People
  BY DEF Present, TypeOK

LEMMA RecurringIsFinite ==
  ASSUME TypeOK, NEW p
  PROVE  IsFiniteSet(Recurring(p)) /\ Cardinality(Recurring(p)) \in Nat
  BY FS_Subset, FS_CardinalityType DEF Recurring, Owned, TypeOK

\* The number that comes next has not been given.
LEMMA NextIsNew ==
  ASSUME TypeOK, KeepInv, NEW p \in Present, seq[p] < MaxNumber
  PROVE  /\ <<p, seq[p] + 1>> \in Ids /\ ~Given(<<p, seq[p] + 1>>)
         /\ \A j \in jobs \cup flight : Id(j) # <<p, seq[p] + 1>>
<1>1. p \in People /\ seq[p] \in 0..MaxNumber
  BY PresentAreAlive DEF TypeOK
<1>2. <<p, seq[p] + 1>> \in Ids /\ ~(seq[p] + 1 <= seq[p])
  BY <1>1, Bounds DEF Ids
<1>3. ~Given(<<p, seq[p] + 1>>)
  BY <1>1, <1>2 DEF KeepInv, NumbersAreGiven, Here
<1> QED
  BY <1>2, <1>3 DEF Given, Names

LEMMA AtMostOneMore ==
  ASSUME NEW S, NEW x, IsFiniteSet(S)
  PROVE  IsFiniteSet(S \cup {x}) /\ Cardinality(S \cup {x}) <= Cardinality(S) + 1
<1>1. Cardinality(S) \in Nat
  BY FS_CardinalityType
<1> QED
  BY <1>1, FS_AddElement

\* A recurring reminder more, or one in another's place.
LEMMA OneMoreRecurring ==
  ASSUME TypeOK, NEW S, NEW p, NEW x, S = {j \in With(jobs, x) : j.owner = p /\ j.every}
  PROVE  /\ Cardinality(S) <= Cardinality(Recurring(p)) + 1
         /\ x.owner # p \/ ~x.every \/ (\E k \in Recurring(p) : Id(k) = Id(x))
              => Cardinality(S) <= Cardinality(Recurring(p))
<1>1. IsFiniteSet(Recurring(p)) /\ Cardinality(Recurring(p)) \in Nat
  BY RecurringIsFinite
<1>2. S \subseteq Recurring(p) \cup {x}
  BY DEF With, Recurring, Owned
<1>3. IsFiniteSet(Recurring(p) \cup {x}) /\ Cardinality(Recurring(p) \cup {x}) <= Cardinality(Recurring(p)) + 1
  BY <1>1, FS_AddElement
<1>4. IsFiniteSet(S) /\ Cardinality(S) \in Nat /\ Cardinality(Recurring(p) \cup {x}) \in Nat
  BY <1>2, <1>3, FS_Subset, FS_CardinalityType
<1>5. Cardinality(S) <= Cardinality(Recurring(p) \cup {x})
  BY <1>2, <1>3, FS_Subset
<1>6. CASE x.owner # p \/ ~x.every
  <2>1. S \subseteq Recurring(p)
    BY <1>6 DEF With, Recurring, Owned
  <2>2. Cardinality(S) <= Cardinality(Recurring(p))
    BY <1>1, <2>1, FS_Subset
  <2> QED
    BY <1>1, <1>4, <2>2
<1>7. ASSUME NEW k \in Recurring(p), Id(k) = Id(x)
      PROVE  Cardinality(S) <= Cardinality(Recurring(p))
  <2> DEFINE rest == Recurring(p) \ {k}
  <2>1. IsFiniteSet(rest) /\ Cardinality(rest) = Cardinality(Recurring(p)) - 1
    BY <1>1, FS_RemoveElement
  <2>2. S \subseteq rest \cup {x}
    BY <1>7 DEF With, Recurring, Owned
  <2> HIDE DEF rest
  <2>3. IsFiniteSet(rest \cup {x}) /\ Cardinality(rest \cup {x}) <= Cardinality(rest) + 1
    BY <2>1, AtMostOneMore
  <2>4. Cardinality(S) <= Cardinality(rest \cup {x}) /\ Cardinality(rest \cup {x}) \in Nat
    BY <2>2, <2>3, FS_Subset, FS_CardinalityType
  <2> QED
    BY <1>1, <1>4, <2>1, <2>3, <2>4
<1> QED
  BY <1>1, <1>3, <1>4, <1>5, <1>6, <1>7

\* A new reminder.
LEMMA ScheduleKeeps ==
  ASSUME TypeOK, TypeOK', KeepInv, NEW p \in alive, NEW at \in Nat, NEW every \in BOOLEAN,
         NEW from \in 0..MaxCommands, NEW done, ScheduleNew(p, at, every, from, done),
         every => Cardinality(Recurring(p)) < MaxRecurring,
         UNCHANGED <<flight, answers, alive, erasure, posts, served, unheard, cancelled, late>>
  PROVE  KeepInv'
<1> DEFINE x == NewJob(p, at, every, from)
<1>1. p \in People /\ seq[p] \in 0..MaxNumber /\ seq[p] < MaxNumber
  BY DEF TypeOK, ScheduleNew
<1>2. /\ x \in Jobs /\ Id(x) = <<p, seq[p] + 1>> /\ x.owner = p /\ x.every = every
      /\ Id(x) \in Ids /\ Id(x)[1] = p /\ Id(x)[2] = seq[p] + 1
  BY <1>1, NewJobParts, JobParts
<1>3. /\ seq' = [seq EXCEPT ![p] = seq[p] + 1]
      /\ \/ UNCHANGED <<jobs, rows>> /\ UNCHANGED acked
         \/ jobs' = With(jobs, x) /\ rows' = With(rows, x) /\ acked' \in {acked, acked \cup {Id(x)}}
  <2>1. CASE done = "numbered"
    BY <2>1 DEF ScheduleNew
  <2>2. CASE done # "numbered"
    BY <2>2 DEF ScheduleNew
  <2> QED
    BY <2>1, <2>2
<1> HIDE DEF x
<1>4. Present' = Present
  BY DEF Present
<1>5. p \in Present => ~Given(Id(x)) /\ \A j \in jobs \cup flight : Id(j) # Id(x)
  BY <1>1, <1>2, NextIsNew
<1>6. jobs \subseteq Jobs /\ rows \subseteq Jobs /\ flight \subseteq Jobs /\ jobs' \subseteq Jobs
  BY DEF TypeOK
<1>7. /\ \A j \in jobs' : j = x \/ j \in jobs
      /\ \A j \in jobs : j.owner \in Present => j \in jobs'
      /\ x \in jobs' \/ UNCHANGED <<jobs, acked>>
  BY <1>2, <1>3, <1>5, <1>6, JobParts DEF With
<1>8. RowsAreJobs'
  <2>1. rows = {j \in jobs : j.owner \in alive}
    BY DEF KeepInv, RowsAreJobs
  <2>2. rows' = {j \in jobs' : j.owner \in alive}
    BY <1>2, <1>3, <2>1 DEF With
  <2> QED
    BY <2>2 DEF RowsAreJobs
<1>9. OneEach(jobs)'
  BY <1>3 DEF KeepInv, OneEach, With
<1>10. FlightIsKnown'
  <2>1. \A j \in flight : j.owner \in Present => Id(j) # Id(x)
    BY <1>2, <1>5, <1>6, JobParts
  <2> QED
    BY <1>4, <1>7, <2>1 DEF KeepInv, FlightIsKnown
<1>11. NumbersAreGiven'
  <2>1. ASSUME NEW id \in Ids, id[1] \in Present, Given(id)'
        PROVE  id[2] <= seq'[id[1]]
    <3>1. Given(id) \/ id = Id(x)
      BY <1>3, <1>7, <2>1 DEF Given, Names
    <3>2. id[1] \in People /\ id[2] \in Nat /\ seq[id[1]] \in Nat
      BY <2>1, Bounds DEF Ids, TypeOK
    <3>3. CASE Given(id)
      <4>1. id[2] <= seq[id[1]]
        BY <2>1, <3>3 DEF KeepInv, NumbersAreGiven, Here
      <4> QED
        BY <1>1, <1>3, <3>2, <4>1 DEF TypeOK
    <3>4. CASE id = Id(x)
      BY <1>1, <1>2, <1>3, <3>4 DEF TypeOK
    <3> QED
      BY <3>1, <3>3, <3>4
  <2> QED
    BY <1>4, <2>1 DEF NumbersAreGiven, Here
<1>12. OverIsOver'
  <2>1. Over' = Over
    BY DEF Over
  <2>2. \A id \in Over : Given(id)
    BY DEF Over, Given
  <2> QED
    BY <1>2, <1>4, <1>5, <1>7, <2>1, <2>2 DEF KeepInv, OverIsOver
<1>13. ServedOnce' /\ AnswersAreKnown'
  BY <1>4 DEF KeepInv, ServedOnce, AnswersAreKnown, Here
<1>16. NotServedYet'
  <2>1. ASSUME NEW j \in (jobs' \ answers) \cup flight, j.owner \in Present
        PROVE  served[Id(j)] <= unheard[Id(j)]
    <3>1. CASE j = x
      <4>1. ~(served[Id(x)] > 0)
        BY <1>2, <1>5, <2>1, <3>1 DEF Given
      <4> QED
        BY <1>2, <3>1, <4>1 DEF TypeOK
    <3>2. CASE j # x
      BY <1>7, <2>1, <3>2 DEF KeepInv, NotServedYet
    <3> QED
      BY <3>1, <3>2
  <2> QED
    BY <1>4, <2>1 DEF NotServedYet
<1>14. Kept'
  <2>1. ASSUME NEW id \in acked', id[1] \in Present
        PROVE  id \in {Id(j) : j \in jobs'} \cup cancelled \/ posts[id] > 0
    <3>1. id \in acked \/ (id = Id(x) /\ x \in jobs')
      BY <1>3, <1>7, <2>1
    <3>2. CASE id \in acked
      <4>1. id \in {Id(j) : j \in jobs} \cup cancelled \/ posts[id] > 0
        BY <2>1, <3>2 DEF KeepInv, Kept, Here, Names
      <4>2. \A j \in jobs : Id(j) = id => j \in jobs'
        BY <1>6, <1>7, <2>1, JobParts
      <4> QED
        BY <4>1, <4>2
    <3> QED
      BY <3>1, <3>2
  <2> QED
    BY <1>4, <2>1 DEF Kept, Here, Names
<1>15. RecurringIsLimited'
  <2>1. ASSUME late = {}, NEW q \in Present
        PROVE  Cardinality({j \in jobs' : j.owner = q /\ j.every}) <= MaxRecurring
    <3>1. PICK S : S = {j \in jobs' : j.owner = q /\ j.every}
      OBVIOUS
    <3> SUFFICES Cardinality(S) <= MaxRecurring
      BY <3>1
    <3>2. Cardinality(Recurring(q)) <= MaxRecurring /\ Cardinality(Recurring(q)) \in Nat
      BY <2>1, RecurringIsFinite DEF KeepInv, RecurringIsLimited
    <3>3. CASE jobs' = jobs
      <4>1. S = Recurring(q)
        BY <3>1, <3>3 DEF Recurring, Owned
      <4> QED
        BY <3>2, <4>1
    <3>4. CASE jobs' = With(jobs, x)
      <4>1. /\ Cardinality(S) <= Cardinality(Recurring(q)) + 1
            /\ x.owner # q \/ ~x.every => Cardinality(S) <= Cardinality(Recurring(q))
        BY <3>1, <3>4, OneMoreRecurring
      <4>2. IsFiniteSet(S) /\ Cardinality(S) \in Nat
        BY <3>1, FS_Subset, FS_CardinalityType DEF TypeOK
      <4>3. CASE x.owner # q \/ ~x.every
        BY <3>2, <4>1, <4>2, <4>3, Bounds
      <4>4. CASE x.owner = q /\ x.every
        <5>1. Cardinality(Recurring(q)) < MaxRecurring
          BY <1>2, <4>4
        <5> QED
          BY <3>2, <4>1, <4>2, <5>1, Bounds
      <4> QED
        BY <4>3, <4>4
    <3> QED
      BY <1>3, <3>3, <3>4
  <2> QED
    BY <1>4, <2>1 DEF RecurringIsLimited, Recurring, Owned
<1> QED
  BY <1>8, <1>9, <1>10, <1>11, <1>12, <1>13, <1>14, <1>15, <1>16 DEF KeepInv, OneEach

LEMMA FewerRecurring ==
  ASSUME TypeOK, KeepInv, Present' \subseteq Present, late \subseteq late', jobs' \subseteq jobs
  PROVE  RecurringIsLimited'
<1>1. ASSUME late = {}, NEW q \in Present
      PROVE  Cardinality({j \in jobs' : j.owner = q /\ j.every}) <= MaxRecurring
  <2>1. PICK S : S = {j \in jobs' : j.owner = q /\ j.every}
    OBVIOUS
  <2>2. Cardinality(Recurring(q)) <= MaxRecurring /\ Cardinality(Recurring(q)) \in Nat
    BY <1>1, RecurringIsFinite DEF KeepInv, RecurringIsLimited
  <2>3. S \subseteq Recurring(q) /\ IsFiniteSet(Recurring(q))
    BY <2>1, RecurringIsFinite DEF Recurring, Owned
  <2>4. Cardinality(S) <= Cardinality(Recurring(q)) /\ Cardinality(S) \in Nat
    BY <2>3, FS_Subset, FS_CardinalityType
  <2>5. Cardinality(S) <= MaxRecurring
    BY <2>2, <2>4, Bounds
  <2> QED
    BY <2>1, <2>5
<1> QED
  BY <1>1 DEF RecurringIsLimited, Recurring, Owned

\* A step that sets no job and gives no number to those who stay.
LEMMA QuietKeeps ==
  ASSUME TypeOK, KeepInv, UNCHANGED <<jobs, flight, answers, acked, posts, served, unheard, cancelled, late>>,
         Present' \subseteq Present, \A p \in Present : seq'[p] = seq[p],
         rows' = {j \in jobs : j.owner \in alive'}
  PROVE  KeepInv'
<1>1. RowsAreJobs'
  BY DEF RowsAreJobs
<1>2. OneEach(jobs)' /\ OneEach(flight)'
  BY DEF KeepInv, OneEach
<1>3. FlightIsKnown'
  BY DEF KeepInv, FlightIsKnown
<1>4. NumbersAreGiven'
  <2>1. \A id \in Ids : id[1] \in Present' /\ Given(id)' => id[1] \in Present /\ Given(id)
    BY DEF Given, Names
  <2>2. \A id \in Ids : id[1] \in Present /\ Given(id) => id[2] <= seq'[id[1]]
    BY DEF KeepInv, NumbersAreGiven, Here
  <2> QED
    BY <2>1, <2>2 DEF NumbersAreGiven, Here
<1>5. OverIsOver' /\ ServedOnce' /\ Kept'
  BY DEF KeepInv, OverIsOver, Over, ServedOnce, Kept, Here, Names
<1>7. NotServedYet' /\ AnswersAreKnown'
  BY DEF KeepInv, NotServedYet, AnswersAreKnown
<1>6. RecurringIsLimited'
  BY FewerRecurring
<1> QED
  BY <1>1, <1>2, <1>3, <1>4, <1>5, <1>6, <1>7 DEF KeepInv, OneEach

\* Jobs that go, of their owner's own will or with the restart.
LEMMA CancelKeeps ==
  ASSUME TypeOK, KeepInv, NEW p \in People, NEW j \in jobs, Cancel(p, j)
  PROVE  KeepInv'
<1>1. /\ p \in alive /\ j.owner = p /\ jobs' = jobs \ {j} /\ rows' = {k \in rows : Id(k) # Id(j)}
      /\ UNCHANGED <<flight, answers, seq, alive, erasure, acked, posts, served, unheard>>
      /\ late' = IF \E k \in flight : Id(k) = Id(j) THEN late \cup {Id(j)} ELSE late
  BY DEF Cancel, Owned, store, people
<1>2. Present' = Present /\ jobs \subseteq Jobs /\ flight \subseteq Jobs /\ j \in Jobs
  BY <1>1 DEF Present, TypeOK
<1>3. /\ OneEach(jobs) /\ OneEach(flight) /\ rows = {k \in jobs : k.owner \in alive}
  BY DEF KeepInv, RowsAreJobs
<1>4. rows' = {k \in jobs' : k.owner \in alive} /\ j \in rows
  BY <1>1, <1>3 DEF OneEach
<1>5. cancelled' = cancelled \cup {Id(j)}
  <2>1. rows' # rows
    BY <1>1, <1>4
  <2> QED
    BY <2>1 DEF Cancel
<1>6. OneEach(jobs)' /\ OneEach(flight)'
  BY <1>1, <1>3 DEF OneEach
<1>7. FlightIsKnown'
  BY <1>1, <1>2 DEF KeepInv, FlightIsKnown
<1>8. NumbersAreGiven'
  <2>1. \A id \in Ids : Given(id)' => Given(id)
    BY <1>1, <1>5 DEF Given, Names
  <2> QED
    BY <1>1, <1>2, <2>1 DEF KeepInv, NumbersAreGiven, Here
<1>9. OverIsOver'
  <2>1. ASSUME NEW k \in jobs' \cup flight', k.owner \in Present, Id(k) \in Over'
        PROVE  FALSE
    <3>1. k \in jobs \cup flight /\ Id(k) \notin Over
      BY <1>1, <2>1 DEF KeepInv, OverIsOver
    <3>2. Id(k) = Id(j) /\ Id(k) \notin late'
      BY <1>1, <1>5, <2>1, <3>1 DEF Over
    <3>3. k \notin flight
      BY <1>1, <3>2
    <3>4. k = j
      BY <1>3, <3>1, <3>2, <3>3 DEF OneEach
    <3> QED
      BY <1>1, <2>1, <3>3, <3>4
  <2> QED
    BY <1>2, <2>1 DEF OverIsOver
<1>10. ServedOnce' /\ NotServedYet' /\ AnswersAreKnown'
  BY <1>1, <1>2 DEF KeepInv, ServedOnce, NotServedYet, AnswersAreKnown, Here
<1>11. Kept'
  <2>1. ASSUME NEW id \in acked, id[1] \in Present
        PROVE  id \in {Id(k) : k \in jobs'} \cup cancelled' \/ posts[id] > 0
    <3>1. id \in {Id(k) : k \in jobs} \cup cancelled \/ posts[id] > 0
      BY <2>1 DEF KeepInv, Kept, Here, Names
    <3> QED
      BY <1>1, <1>5, <3>1
  <2> QED
    BY <1>1, <1>2, <2>1 DEF Kept, Here, Names
<1>12. RecurringIsLimited'
  BY <1>1, <1>2, FewerRecurring
<1> QED
  BY <1>1, <1>4, <1>6, <1>7, <1>8, <1>9, <1>10, <1>11, <1>12 DEF KeepInv, RowsAreJobs, OneEach

LEMMA SendKeeps ==
  ASSUME TypeOK, KeepInv, NEW id \in Ids, Send(id)
  PROVE  KeepInv'
<1>1. PICK j \in jobs : Id(j) = id /\ flight' = flight \cup {j} /\ Waits(j)
  BY DEF Send
<1>2. /\ (\A k \in flight : Id(k) # id) /\ j \notin answers
      /\ UNCHANGED <<jobs, rows, answers, seq, alive, erasure, acked, posts, served, unheard, cancelled, late>>
  BY <1>1 DEF Send, Waits, store, people, history
<1>3. Present' = Present
  BY <1>2 DEF Present
<1>4. RowsAreJobs'
  BY <1>2 DEF KeepInv, RowsAreJobs
<1>5. OneEach(jobs)'
  BY <1>2 DEF KeepInv, OneEach
<1>6. OneEach(flight)'
  BY <1>1, <1>2 DEF KeepInv, OneEach
<1>7. FlightIsKnown'
  <2>1. \A k \in jobs : Id(k) = Id(j) => k = j
    BY DEF KeepInv, OneEach
  <2> QED
    BY <1>1, <1>2, <1>3, <2>1 DEF KeepInv, FlightIsKnown
<1>8. NumbersAreGiven'
  <2>1. \A i \in Ids : Given(i)' => Given(i)
    BY <1>1, <1>2 DEF Given, Names
  <2> QED
    BY <1>2, <1>3, <2>1 DEF KeepInv, NumbersAreGiven, Here
<1>9. OverIsOver'
  BY <1>1, <1>2, <1>3 DEF KeepInv, OverIsOver, Over
<1>10. ServedOnce' /\ Kept'
  BY <1>2, <1>3 DEF KeepInv, ServedOnce, Kept, Here, Names
<1>12. NotServedYet' /\ AnswersAreKnown'
  BY <1>1, <1>2, <1>3 DEF KeepInv, NotServedYet, AnswersAreKnown
<1>11. RecurringIsLimited'
  BY <1>2, <1>3, FewerRecurring
<1> QED
  BY <1>4, <1>5, <1>6, <1>7, <1>8, <1>9, <1>10, <1>11, <1>12 DEF KeepInv, OneEach

LEMMA RestartKeeps ==
  ASSUME TypeOK, KeepInv, Restart
  PROVE  KeepInv'
<1>1. /\ jobs' = rows /\ flight' = {} /\ answers' = {} /\ rows = {j \in jobs : j.owner \in alive}
      /\ UNCHANGED <<rows, seq, alive, erasure, acked, posts, served, cancelled, late>>
  BY DEF Restart, store, people, KeepInv, RowsAreJobs
<1>2. Present' = Present /\ Present \subseteq alive
  BY <1>1 DEF Present
<1>3. RowsAreJobs' /\ FlightIsKnown'
  BY <1>1 DEF RowsAreJobs, FlightIsKnown
<1>4. OneEach(jobs)' /\ OneEach(flight)'
  BY <1>1 DEF KeepInv, OneEach
<1>5. NumbersAreGiven'
  <2>1. \A i \in Ids : Given(i)' => Given(i)
    BY <1>1 DEF Given, Names
  <2> QED
    BY <1>1, <1>2, <2>1 DEF KeepInv, NumbersAreGiven, Here
<1>6. OverIsOver'
  BY <1>1, <1>2 DEF KeepInv, OverIsOver, Over
<1>9. \A i \in Ids :
        /\ served[i] \in Nat /\ unheard[i] \in Nat /\ unheard'[i] \in Nat /\ unheard[i] <= unheard'[i]
        /\ (\E j \in answers \cap rows : Id(j) = i) => unheard'[i] = unheard[i] + 1
  BY DEF Restart, TypeOK
<1>10. ServedOnce' /\ AnswersAreKnown'
  BY <1>1, <1>2, <1>9 DEF KeepInv, ServedOnce, AnswersAreKnown, Here
<1>11. NotServedYet'
  <2>1. ASSUME NEW j \in rows, j.owner \in Present
        PROVE  served[Id(j)] <= unheard'[Id(j)]
    <3>1. j \in jobs /\ Id(j) \in Ids /\ Id(j)[1] \in Present
      BY <1>1, <2>1, JobParts DEF TypeOK
    <3>2. CASE j \in answers
      <4>1. served[Id(j)] <= 1 + unheard[Id(j)]
        BY <3>1 DEF KeepInv, ServedOnce, Here
      <4> QED
        BY <1>9, <2>1, <3>1, <3>2, <4>1
    <3>3. CASE j \notin answers
      <4>1. served[Id(j)] <= unheard[Id(j)]
        BY <2>1, <3>1, <3>3 DEF KeepInv, NotServedYet
      <4> QED
        BY <1>9, <3>1, <4>1
    <3> QED
      BY <3>2, <3>3
  <2> QED
    BY <1>1, <1>2, <2>1 DEF NotServedYet
<1>7. Kept'
  <2>1. ASSUME NEW id \in acked, id[1] \in Present
        PROVE  id \in {Id(k) : k \in jobs'} \cup cancelled \/ posts[id] > 0
    <3>1. id \in {Id(k) : k \in jobs} \cup cancelled \/ posts[id] > 0
      BY <2>1 DEF KeepInv, Kept, Here, Names
    <3>2. \A k \in jobs : Id(k) = id => k \in jobs'
      BY <1>1, <1>2, <2>1, JobParts DEF TypeOK
    <3> QED
      BY <3>1, <3>2
  <2> QED
    BY <1>1, <1>2, <2>1 DEF Kept, Here, Names
<1>8. RecurringIsLimited'
  BY <1>1, <1>2, FewerRecurring
<1> QED
  BY <1>3, <1>4, <1>5, <1>6, <1>7, <1>8, <1>10, <1>11 DEF KeepInv, OneEach

\* What was served goes, and it was posted.
LEMMA CompleteKeeps ==
  ASSUME TypeOK, KeepInv, NEW id \in Ids, Complete(id)
  PROVE  KeepInv'
<1>1. PICK j \in answers :
        /\ Id(j) = id /\ answers' = answers \ {j}
        /\ \/ j \in jobs /\ jobs' = jobs \ {j} /\ rows' = {k \in rows : Id(k) # id}
           \/ j \notin jobs /\ UNCHANGED <<jobs, rows>>
        /\ UNCHANGED <<flight, seq, alive, erasure, acked, posts, served, unheard, cancelled, late>>
  BY DEF Complete, store, people, history
<1>2. Present' = Present /\ jobs' \subseteq jobs /\ j \notin flight /\ posts[id] > 0
  BY <1>1 DEF Present, KeepInv, AnswersAreKnown
<1>3. OneEach(jobs) /\ OneEach(flight) /\ rows = {k \in jobs : k.owner \in alive}
  BY DEF KeepInv, RowsAreJobs
<1>4. RowsAreJobs'
  <2>1. rows' = {k \in jobs' : k.owner \in alive}
    BY <1>1, <1>3 DEF OneEach
  <2> QED
    BY <1>1, <2>1 DEF RowsAreJobs
<1>5. OneEach(jobs)' /\ OneEach(flight)'
  BY <1>1, <1>2, <1>3 DEF OneEach
<1>6. FlightIsKnown'
  BY <1>1, <1>2 DEF KeepInv, FlightIsKnown
<1>7. NumbersAreGiven'
  <2>1. \A i \in Ids : Given(i)' => Given(i)
    BY <1>1, <1>2 DEF Given, Names
  <2> QED
    BY <1>1, <1>2, <2>1 DEF KeepInv, NumbersAreGiven, Here
<1>8. OverIsOver' /\ ServedOnce' /\ AnswersAreKnown'
  BY <1>1, <1>2 DEF KeepInv, OverIsOver, Over, ServedOnce, AnswersAreKnown, Here
<1>9. NotServedYet'
  <2>1. jobs' \ answers' \subseteq jobs \ answers
    BY <1>1
  <2> QED
    BY <1>1, <1>2, <2>1 DEF KeepInv, NotServedYet
<1>10. Kept'
  <2>1. ASSUME NEW i \in acked, i[1] \in Present
        PROVE  i \in {Id(k) : k \in jobs'} \cup cancelled \/ posts[i] > 0
    <3>1. i \in {Id(k) : k \in jobs} \cup cancelled \/ posts[i] > 0
      BY <2>1 DEF KeepInv, Kept, Here, Names
    <3> QED
      BY <1>1, <1>2, <3>1
  <2> QED
    BY <1>1, <1>2, <2>1 DEF Kept, Here, Names
<1>11. RecurringIsLimited'
  BY <1>1, <1>2, FewerRecurring
<1> QED
  BY <1>4, <1>5, <1>6, <1>7, <1>8, <1>9, <1>10, <1>11 DEF KeepInv, OneEach

\* The steps of an erasure touch only who is erased.
LEMMA ErasureKeeps ==
  ASSUME TypeOK, KeepInv, FinishErasure \/ ApplyPlan \/ \E p \in People : ReadRows(p)
  PROVE  KeepInv'
<1>1. rows = {j \in jobs : j.owner \in alive}
  BY DEF KeepInv, RowsAreJobs
<1>2. CASE FinishErasure
  <2>1. /\ UNCHANGED <<jobs, flight, answers, seq, acked, posts, served, unheard, cancelled, late>>
        /\ rows' = {j \in rows : j.owner # erasure.who} /\ alive' = alive \ {erasure.who}
        /\ erasure'.who = None
    BY <1>2 DEF FinishErasure, store, history, NoErasure
  <2>2. rows' = {j \in jobs : j.owner \in alive'}
    BY <1>1, <2>1
  <2>3. Present' \subseteq Present
    BY <2>1 DEF Present
  <2> QED
    BY <2>1, <2>2, <2>3, QuietKeeps
<1>3. CASE ApplyPlan
  <2>1. /\ UNCHANGED <<jobs, flight, answers, rows, alive, acked, posts, served, unheard, cancelled, late>>
        /\ seq' = [seq EXCEPT ![erasure.who] = IF erasure.seq > 0 THEN 0 ELSE @]
        /\ erasure' = [erasure EXCEPT !.stage = "applied"]
    BY <1>3 DEF ApplyPlan, scheduler, history
  <2>2. erasure'.who = erasure.who
    BY <2>1 DEF TypeOK
  <2>3. \A p \in Present : seq'[p] = seq[p]
    BY <2>1 DEF Present, TypeOK
  <2>4. Present' = Present
    BY <2>1, <2>2 DEF Present
  <2> QED
    BY <1>1, <2>1, <2>3, <2>4, QuietKeeps
<1>4. ASSUME NEW p \in People, ReadRows(p)
      PROVE  KeepInv'
  <2>1. /\ UNCHANGED <<jobs, flight, answers, rows, seq, alive, acked, posts, served, unheard, cancelled, late>>
        /\ erasure.stage = "none"
    BY <1>4 DEF ReadRows, scheduler, store, history
  <2>2. erasure.who = None
    BY <2>1 DEF TypeOK
  <2>3. Present' \subseteq Present
    BY <2>1, <2>2, Bounds DEF Present, TypeOK
  <2> QED
    BY <1>1, <2>1, <2>3, QuietKeeps
<1> QED
  BY <1>2, <1>3, <1>4

\* What a delivery does, by its ends.
LEMMA DeliverCases ==
  ASSUME TypeOK, NEW id \in Ids, NEW done, Deliver(id, done)
  PROVE  \E j \in flight :
           /\ Id(j) = id /\ j \in Jobs /\ flight' = flight \ {j}
           /\ \A i \in Ids : posts[i] > 0 => posts'[i] > 0
           /\ done = "all" => j.owner \in alive /\ posts'[id] > 0
           /\ \/ UNCHANGED <<jobs, rows, answers, served>>
              \/ /\ done = "all" /\ j.every /\ UNCHANGED <<answers, served>>
                 /\ jobs' = With(jobs, Occurrence(j)) /\ rows' = With(rows, Occurrence(j))
              \/ /\ done = "all" /\ ~j.every /\ served' = [served EXCEPT ![id] = served[id] + 1]
                 /\ UNCHANGED <<jobs, rows>> /\ answers' = answers \cup {j}
           /\ UNCHANGED <<seq, alive, erasure, acked, unheard, cancelled, late>>
<1>1. PICK j \in flight :
        /\ Id(j) = id /\ flight' = flight \ {j}
        /\ done = "all" => j.owner \in alive
        /\ posts' = [posts EXCEPT ![id] = IF done = "none" THEN @ ELSE 1]
        /\ IF done = "all" /\ j.every
           THEN jobs' = With(jobs, Occurrence(j)) /\ rows' = With(rows, Occurrence(j))
           ELSE UNCHANGED <<jobs, rows>>
        /\ answers' = IF done = "all" /\ ~j.every THEN answers \cup {j} ELSE answers
        /\ served' = [served EXCEPT ![id] = IF done = "all" /\ ~j.every THEN @ + 1 ELSE @]
        /\ UNCHANGED <<seq, people, acked, unheard, cancelled, late>>
  BY DEF Deliver
<1>2. posts \in [Ids -> 0..1] /\ served \in [Ids -> Nat] /\ j \in Jobs
  BY DEF TypeOK
<1>3. /\ \A i \in Ids : posts[i] > 0 => posts'[i] > 0
      /\ done = "all" => posts'[id] > 0
  <2>1. \A i \in Ids : posts'[i] = IF i = id
                                   THEN IF done = "none" THEN posts[i] ELSE 1
                                   ELSE posts[i]
    BY <1>1, <1>2
  <2>2. \A i \in Ids : posts[i] \in 0..1
    BY <1>2
  <2> QED
    BY <2>1, <2>2
<1>4. \/ UNCHANGED <<jobs, rows, answers, served>>
      \/ /\ done = "all" /\ j.every /\ UNCHANGED <<answers, served>>
         /\ jobs' = With(jobs, Occurrence(j)) /\ rows' = With(rows, Occurrence(j))
      \/ /\ done = "all" /\ ~j.every /\ served' = [served EXCEPT ![id] = served[id] + 1]
         /\ UNCHANGED <<jobs, rows>> /\ answers' = answers \cup {j}
  <2>1. CASE done = "all" /\ j.every
    BY <1>1, <1>2, <2>1
  <2>2. CASE done = "all" /\ ~j.every
    BY <1>1, <1>2, <2>2
  <2>3. CASE done # "all"
    BY <1>1, <1>2, <2>3
  <2> QED
    BY <2>1, <2>2, <2>3
<1> QED
  BY <1>1, <1>2, <1>3, <1>4 DEF people

LEMMA DeliverKeeps ==
  ASSUME TypeOK, TypeOK', KeepInv, NEW id \in Ids, NEW done, Deliver(id, done)
  PROVE  KeepInv'
<1>1. PICK j \in flight :
        /\ Id(j) = id /\ j \in Jobs /\ flight' = flight \ {j}
        /\ \A i \in Ids : posts[i] > 0 => posts'[i] > 0
        /\ done = "all" => j.owner \in alive /\ posts'[id] > 0
        /\ \/ UNCHANGED <<jobs, rows, answers, served>>
           \/ /\ done = "all" /\ j.every /\ UNCHANGED <<answers, served>>
              /\ jobs' = With(jobs, Occurrence(j)) /\ rows' = With(rows, Occurrence(j))
           \/ /\ done = "all" /\ ~j.every /\ served' = [served EXCEPT ![id] = served[id] + 1]
              /\ UNCHANGED <<jobs, rows>> /\ answers' = answers \cup {j}
        /\ UNCHANGED <<seq, alive, erasure, acked, unheard, cancelled, late>>
  BY DeliverCases
<1> DEFINE x == Occurrence(j)
<1>2. /\ x \in Jobs /\ Id(x) = id /\ x.owner = j.owner /\ x.every = j.every
      /\ id[1] = j.owner /\ Present' = Present
  BY <1>1, OccurrenceParts, JobParts DEF Present
<1> HIDE DEF x
<1>3. /\ OneEach(jobs) /\ OneEach(flight) /\ rows = {k \in jobs : k.owner \in alive}
      /\ jobs \subseteq Jobs /\ flight \subseteq Jobs /\ served \in [Ids -> Nat]
  BY DEF KeepInv, RowsAreJobs, TypeOK
<1>4. \/ UNCHANGED <<jobs, rows, answers, served>>
      \/ /\ done = "all" /\ j.every /\ UNCHANGED <<answers, served>>
         /\ jobs' = With(jobs, x) /\ rows' = With(rows, x)
      \/ /\ done = "all" /\ ~j.every /\ served' = [served EXCEPT ![id] = served[id] + 1]
         /\ UNCHANGED <<jobs, rows>> /\ answers' = answers \cup {j}
  BY <1>1 DEF x
<1>5. \A k \in flight' : k \in flight /\ Id(k) # id
  BY <1>1, <1>3 DEF OneEach
<1>6. \A k \in jobs' : k \in jobs \/ k = x
  BY <1>4 DEF With
<1>7. j.owner \in Present => /\ \A k \in jobs : Id(k) = id => k = j
                             /\ j \in jobs \/ id \in late
                             /\ id \notin Over /\ served[id] <= unheard[id]
  BY <1>1 DEF KeepInv, FlightIsKnown, OverIsOver, NotServedYet
<1>8. RowsAreJobs'
  <2>1. rows' = {k \in jobs' : k.owner \in alive}
    BY <1>1, <1>2, <1>3, <1>4 DEF With
  <2> QED
    BY <1>1, <2>1 DEF RowsAreJobs
<1>9. OneEach(jobs)' /\ OneEach(flight)'
  <2>1. OneEach(jobs)'
    BY <1>3, <1>4 DEF OneEach, With
  <2>2. OneEach(flight)'
    BY <1>1, <1>3 DEF OneEach
  <2> QED
    BY <2>1, <2>2
<1>10. FlightIsKnown'
  <2>1. ASSUME NEW k \in flight', k.owner \in Present
        PROVE  /\ \A m \in jobs' : Id(m) = Id(k) => m = k
               /\ k \in jobs' \/ Id(k) \in late
    <3>1. /\ \A m \in jobs : Id(m) = Id(k) => m = k
          /\ k \in jobs \/ Id(k) \in late
      BY <1>5, <2>1 DEF KeepInv, FlightIsKnown
    <3>2. k \in jobs => k \in jobs'
      BY <1>1, <1>2, <1>4, <1>5, <2>1 DEF With
    <3> QED
      BY <1>2, <1>5, <1>6, <2>1, <3>1, <3>2
  <2> QED
    BY <1>1, <1>2, <2>1 DEF FlightIsKnown
<1>11. NumbersAreGiven'
  <2>1. \A i \in Ids : Given(i)' => Given(i)
    <3>1. Given(id)
      BY <1>1 DEF Given, Names
    <3>2. ASSUME NEW i \in Ids, Given(i)', i # id
          PROVE  Given(i)
      <4>1. served'[i] = served[i]
        BY <1>3, <1>4, <3>2
      <4> QED
        BY <1>1, <1>2, <1>5, <1>6, <3>2, <4>1 DEF Given, Names
    <3> QED
      BY <3>1, <3>2
  <2> QED
    BY <1>1, <1>2, <2>1 DEF KeepInv, NumbersAreGiven, Here
<1>12. OverIsOver'
  <2>1. ASSUME NEW k \in jobs' \cup flight', k.owner \in Present
        PROVE  Id(k) \notin Over'
    <3>1. CASE Id(k) # id
      <4>1. k \in jobs \cup flight
        BY <1>2, <1>5, <1>6, <2>1, <3>1
      <4> QED
        BY <1>1, <2>1, <4>1 DEF KeepInv, OverIsOver, Over
    <3>2. CASE Id(k) = id
      <4>1. k \in jobs' /\ j.owner \in Present
        BY <1>1, <1>2, <1>3, <1>5, <1>6, <2>1, <3>2, JobParts
      <4> QED
        BY <1>1, <1>7, <3>2, <4>1 DEF Over
    <3> QED
      BY <3>1, <3>2
  <2> QED
    BY <1>2, <2>1 DEF OverIsOver
<1>13. ServedOnce'
  <2>1. ASSUME NEW i \in Ids, i[1] \in Present
        PROVE  served'[i] <= 1 + unheard[i]
    <3>1. served[i] <= 1 + unheard[i] /\ served[i] \in Nat /\ unheard[i] \in Nat
      BY <1>3, <2>1 DEF KeepInv, ServedOnce, Here, TypeOK
    <3>2. i = id => served[i] <= unheard[i]
      BY <1>2, <1>7, <2>1
    <3> QED
      BY <1>3, <1>4, <3>1, <3>2
  <2> QED
    BY <1>1, <1>2, <2>1 DEF ServedOnce, Here
<1>16. NotServedYet'
  <2>1. ASSUME NEW k \in (jobs' \ answers') \cup flight', k.owner \in Present
        PROVE  served'[Id(k)] <= unheard[Id(k)]
    <3>1. CASE Id(k) # id
      <4>1. k \in (jobs \ answers) \cup flight /\ Id(k) \in Ids
        BY <1>2, <1>3, <1>4, <1>5, <1>6, <2>1, <3>1, JobParts
      <4>2. served'[Id(k)] = served[Id(k)]
        BY <1>3, <1>4, <3>1, <4>1
      <4> QED
        BY <2>1, <4>1, <4>2 DEF KeepInv, NotServedYet
    <3>2. CASE Id(k) = id
      <4>1. k \in jobs' /\ k \notin answers' /\ j.owner \in Present
        BY <1>1, <1>2, <1>3, <1>5, <1>6, <2>1, <3>2, JobParts
      <4>2. served' = served
        BY <1>4, <1>7, <3>2, <4>1
      <4> QED
        BY <1>7, <3>2, <4>1, <4>2
    <3> QED
      BY <3>1, <3>2
  <2> QED
    BY <1>1, <1>2, <2>1 DEF NotServedYet
<1>17. AnswersAreKnown'
  <2>1. answers \cap flight = {} /\ \A k \in answers : posts[Id(k)] > 0
    BY DEF KeepInv, AnswersAreKnown
  <2>2. \A k \in answers : posts'[Id(k)] > 0
    BY <1>1, <2>1, JobParts DEF TypeOK
  <2> QED
    BY <1>1, <1>4, <2>1, <2>2 DEF AnswersAreKnown
<1>14. Kept'
  <2>1. ASSUME NEW i \in acked, i[1] \in Present
        PROVE  i \in {Id(k) : k \in jobs'} \cup cancelled \/ posts'[i] > 0
    <3>1. i \in {Id(k) : k \in jobs} \cup cancelled \/ posts[i] > 0
      BY <2>1 DEF KeepInv, Kept, Here, Names
    <3>2. posts[i] > 0 => posts'[i] > 0
      BY <1>1, <2>1 DEF TypeOK
    <3>3. ASSUME NEW k \in jobs, Id(k) = i
          PROVE  i \in {Id(m) : m \in jobs'} \/ posts'[i] > 0
      <4>1. k \in jobs' \/ (x \in jobs' /\ Id(k) = id) \/ (done = "all" /\ k = j)
        BY <1>2, <1>4 DEF With
      <4> QED
        BY <1>1, <1>2, <3>3, <4>1
    <3> QED
      BY <3>1, <3>2, <3>3
  <2> QED
    BY <1>1, <1>2, <2>1 DEF Kept, Here, Names
<1>15. RecurringIsLimited'
  <2>1. CASE jobs' \subseteq jobs
    BY <1>1, <1>2, <2>1, FewerRecurring
  <2>2. CASE jobs' = With(jobs, x) /\ j.every
    <3>1. ASSUME late = {}, NEW q \in Present
          PROVE  Cardinality({k \in jobs' : k.owner = q /\ k.every}) <= MaxRecurring
      <4>1. PICK S : S = {k \in jobs' : k.owner = q /\ k.every}
        OBVIOUS
      <4>2. Cardinality(Recurring(q)) <= MaxRecurring /\ Cardinality(Recurring(q)) \in Nat
        BY <3>1, RecurringIsFinite DEF KeepInv, RecurringIsLimited
      <4>3. x.owner # q \/ \E k \in Recurring(q) : Id(k) = Id(x)
        <5>1. CASE x.owner = q
          <6>1. j \in jobs
            BY <1>2, <1>7, <3>1, <5>1
          <6>2. j \in Recurring(q) /\ Id(j) = Id(x)
            BY <1>1, <1>2, <2>2, <5>1, <6>1 DEF Recurring, Owned
          <6> QED
            BY <6>2
        <5> QED
          BY <5>1
      <4>4. Cardinality(S) <= Cardinality(Recurring(q))
        BY <2>2, <4>1, <4>3, OneMoreRecurring
      <4>5. Cardinality(S) \in Nat
        BY <4>1, FS_Subset, FS_CardinalityType DEF TypeOK
      <4>6. Cardinality(S) <= MaxRecurring
        BY <4>2, <4>4, <4>5, Bounds
      <4> QED
        BY <4>1, <4>6
    <3> QED
      BY <1>1, <1>2, <3>1 DEF RecurringIsLimited, Recurring, Owned
  <2> QED
    BY <1>4, <2>1, <2>2
<1> QED
  BY <1>8, <1>9, <1>10, <1>11, <1>12, <1>13, <1>14, <1>15, <1>16, <1>17 DEF KeepInv, OneEach

-----------------------------------------------------------------------------
(* What people agreed to.                                                  *)

Agreed ==
  /\ \A j \in jobs \cup flight : j.from # 0 => j.from \in consents
  /\ \A p \in People : last[p] # None /\ last[p].from # 0 => last[p].from \in consents
Few(rs) ==
  /\ \A r, s \in rs : r # s => r.from # s.from \/ r.to # s.to
  /\ \A p \in People : Cardinality(ToIn(rs, p)) <= MaxPerRecipient
AskInv == Agreed /\ Few(requests) /\ Few(erasure.requests)

LEMMA FewerIsFew ==
  ASSUME NEW S, NEW T, IsFiniteSet(S), Few(S), T \subseteq S
  PROVE  Few(T)
<1>1. \A r, s \in T : r # s => r.from # s.from \/ r.to # s.to
  BY DEF Few
<1>2. ASSUME NEW p \in People
      PROVE  Cardinality(ToIn(T, p)) <= MaxPerRecipient
  <2>1. IsFiniteSet(ToIn(S, p)) /\ ToIn(T, p) \subseteq ToIn(S, p)
    BY FS_Subset DEF ToIn
  <2>2. /\ Cardinality(ToIn(T, p)) <= Cardinality(ToIn(S, p))
        /\ Cardinality(ToIn(T, p)) \in Nat /\ Cardinality(ToIn(S, p)) \in Nat
    BY <2>1, FS_Subset, FS_CardinalityType
  <2>3. Cardinality(ToIn(S, p)) <= MaxPerRecipient
    BY DEF Few
  <2> QED
    BY <2>2, <2>3, Bounds
<1> QED
  BY <1>1, <1>2 DEF Few

LEMMA OneMoreIsFew ==
  ASSUME NEW S, NEW x, IsFiniteSet(S), Few(S), Cardinality(ToIn(S, x.to)) < MaxPerRecipient,
         \A r \in ToIn(S, x.to) : r.from # x.from
  PROVE  Few(S \cup {x})
<1>1. \A r, s \in S \cup {x} : r # s => r.from # s.from \/ r.to # s.to
  BY DEF Few, ToIn
<1>2. ASSUME NEW p \in People
      PROVE  Cardinality(ToIn(S \cup {x}, p)) <= MaxPerRecipient
  <2>1. IsFiniteSet(ToIn(S, p)) /\ Cardinality(ToIn(S, p)) \in Nat
    BY FS_Subset, FS_CardinalityType DEF ToIn
  <2>2. CASE p # x.to
    <3>1. ToIn(S \cup {x}, p) = ToIn(S, p)
      BY <2>2 DEF ToIn
    <3> QED
      BY <3>1 DEF Few
  <2>3. CASE p = x.to
    <3>1. ToIn(S \cup {x}, p) = ToIn(S, p) \cup {x}
      BY <2>3 DEF ToIn
    <3>2. /\ Cardinality(ToIn(S, p) \cup {x}) <= Cardinality(ToIn(S, p)) + 1
          /\ Cardinality(ToIn(S, p) \cup {x}) \in Nat
      BY <2>1, AtMostOneMore, FS_CardinalityType
    <3>3. Cardinality(ToIn(S, p)) < MaxPerRecipient
      BY <2>3
    <3>4. Cardinality(ToIn(S, p) \cup {x}) <= MaxPerRecipient
      BY <2>1, <3>2, <3>3, Bounds
    <3> QED
      BY <3>1, <3>4
  <2> QED
    BY <2>2, <2>3
<1> QED
  BY <1>1, <1>2 DEF Few

LEMMA RequestsAreFinite ==
  ASSUME TypeOK
  PROVE  IsFiniteSet(requests) /\ IsFiniteSet(erasure.requests) /\ IsFiniteSet(Waiting)
  BY WaitingIsTyped DEF TypeOK

\* A job more, about something that was agreed to.
LEMMA ScheduledAreAgreed ==
  ASSUME TypeOK, Agreed, NEW p \in alive, NEW at \in Nat, NEW every \in BOOLEAN, NEW done,
         NEW from \in 0..MaxCommands, ScheduleNew(p, at, every, from, done),
         consents \subseteq consents', from # 0 => from \in consents', UNCHANGED <<flight, last>>
  PROVE  Agreed'
<1> DEFINE x == NewJob(p, at, every, from)
<1>1. jobs' = jobs \/ jobs' = With(jobs, x)
  BY DEF ScheduleNew
<1>2. x.from = from
  BY NewJobParts DEF TypeOK, ScheduleNew
<1> HIDE DEF x
<1>3. \A j \in jobs' : j \in jobs \/ j = x
  BY <1>1 DEF With
<1> QED
  BY <1>2, <1>3 DEF Agreed

LEMMA CommandsAsk ==
  ASSUME TypeOK, AskInv, NEW p \in People, Command(p)
  PROVE  AskInv'
<1>1. Agreed /\ Few(requests) /\ Few(erasure.requests)
  BY DEF AskInv
<1>2. ASSUME erasure' = erasure
      PROVE  Few(erasure.requests)'
  BY <1>1, <1>2 DEF Few, ToIn
<1>3. ASSUME requests' = requests
      PROVE  Few(requests)'
  BY <1>1, <1>3 DEF Few, ToIn
<1>4. ASSUME NEW delay \in Delays, NEW every \in BOOLEAN, NEW done, Remind(p, delay, every, done)
      PROVE  AskInv'
  <2>1. /\ p \in alive /\ ScheduleNew(p, now + delay, every, 0, done)
        /\ UNCHANGED <<flight, last, requests, erasure, consents>>
    BY <1>4 DEF Remind, people
  <2>2. now + delay \in Nat /\ 0 \in 0..MaxCommands
    BY Bounds DEF TypeOK
  <2>3. Agreed'
    BY <1>1, <2>1, <2>2, ScheduledAreAgreed
  <2> QED
    BY <1>2, <1>3, <2>1, <2>3 DEF AskInv, Few
<1>5. ASSUME NEW done, Snooze(p, done)
      PROVE  AskInv'
  <2>1. /\ p \in alive /\ ScheduleNew(p, now + SnoozeDelay, FALSE, last[p].from, done) /\ last[p] # None
        /\ UNCHANGED <<flight, last, requests, erasure, consents>>
    BY <1>5 DEF Snooze, people
  <2>2. now + SnoozeDelay \in Nat /\ last[p].from \in 0..MaxCommands
    BY <2>1, Bounds DEF TypeOK, Delivered
  <2>3. last[p].from # 0 => last[p].from \in consents
    BY <1>1, <2>1 DEF Agreed
  <2>4. Agreed'
    BY <1>1, <2>1, <2>2, <2>3, ScheduledAreAgreed
  <2> QED
    BY <1>2, <1>3, <2>1, <2>4 DEF AskInv, Few
<1>6. ASSUME NEW q \in People, NEW delay \in Delays, AskOther(p, q, delay)
      PROVE  AskInv'
  <2>1. /\ requests' = Waiting \cup {Request(p, q, now + delay)}
        /\ \A r \in ToIn(Waiting, q) : r.from # p
        /\ Cardinality(ToIn(Waiting, q)) < MaxPerRecipient
        /\ UNCHANGED <<jobs, flight, last, erasure, consents>>
    BY <1>6 DEF AskOther, scheduler, people, history
  <2>2. Request(p, q, now + delay).to = q /\ Request(p, q, now + delay).from = p
    BY DEF Request
  <2>3. Few(Waiting)
    BY <1>1, WaitingIsTyped, RequestsAreFinite, FewerIsFew
  <2>4. Few(Waiting \cup {Request(p, q, now + delay)})
    BY <2>1, <2>2, <2>3, RequestsAreFinite, OneMoreIsFew
  <2>5. Few(requests)'
    BY <2>1, <2>4 DEF Few, ToIn
  <2>6. Agreed'
    BY <1>1, <2>1 DEF Agreed
  <2> QED
    BY <1>2, <2>1, <2>5, <2>6 DEF AskInv, Few
<1>7. ASSUME NEW accept \in BOOLEAN, NEW done, Answer(p, accept, done)
      PROVE  AskInv'
  <2> DEFINE r == FirstFor(Waiting, p)
  <2>1. /\ p \in alive /\ requests' = Waiting \ {r} /\ ToIn(Waiting, p) # {}
        /\ consents' = IF accept /\ r.to = p THEN consents \cup {r.token} ELSE consents
        /\ \/ accept /\ ScheduleNew(p, r.at, FALSE, r.token, done)
           \/ UNCHANGED jobs
        /\ UNCHANGED <<flight, last, erasure>>
    BY <1>7 DEF Answer, people
  <2>2. r \in Requests /\ r.to = p
    BY <2>1, FirstIsTyped, WaitingIsTyped
  <2> HIDE DEF r
  <2>3. r.at \in Nat /\ r.token \in 0..MaxCommands
    BY <2>2, Bounds DEF Requests
  <2>4. Agreed'
    <3>1. CASE UNCHANGED jobs
      BY <1>1, <2>1, <3>1 DEF Agreed
    <3>2. CASE accept /\ ScheduleNew(p, r.at, FALSE, r.token, done)
      BY <1>1, <2>1, <2>2, <2>3, <3>2, ScheduledAreAgreed
    <3> QED
      BY <2>1, <3>1, <3>2
  <2>5. Few(Waiting \ {r})
    BY <1>1, WaitingIsTyped, RequestsAreFinite, FewerIsFew
  <2>6. Few(requests)'
    BY <2>1, <2>5 DEF Few, ToIn
  <2> QED
    BY <1>2, <2>1, <2>4, <2>6 DEF AskInv, Few
<1>8. ASSUME NEW j \in jobs, Cancel(p, j)
      PROVE  AskInv'
  <2>1. jobs' \subseteq jobs /\ UNCHANGED <<flight, last, requests, erasure, consents>>
    BY <1>8 DEF Cancel, store, people
  <2>2. Agreed'
    BY <1>1, <2>1 DEF Agreed
  <2> QED
    BY <1>2, <1>3, <2>1, <2>2 DEF AskInv, Few
<1>9. CASE \E delay \in Delays, every \in BOOLEAN, done \in NewDone : Remind(p, delay, every, done)
  BY <1>4, <1>9
<1>10. CASE \E accept \in BOOLEAN, done \in NewDone \cup {"taken"} : Answer(p, accept, done)
  BY <1>7, <1>10
<1>11. CASE \/ \E q \in People, delay \in Delays : AskOther(p, q, delay)
            \/ \E done \in NewDone : Snooze(p, done)
            \/ \E j \in jobs : Cancel(p, j)
  BY <1>5, <1>6, <1>8, <1>11
<1> QED
  BY <1>9, <1>10, <1>11 DEF Command

LEMMA TimersAsk ==
  ASSUME TypeOK, AskInv, NEW id \in Ids,
         Send(id) \/ (\E done \in DeliverDone : Deliver(id, done)) \/ Complete(id)
  PROVE  AskInv'
<1>1. Agreed /\ Few(requests) /\ Few(erasure.requests)
  BY DEF AskInv
<1>2. UNCHANGED <<requests, erasure, consents>>
  BY DEF Send, Deliver, Complete, store, people, history
<1>3. Few(requests)' /\ Few(erasure.requests)'
  BY <1>1, <1>2 DEF Few, ToIn
<1>4. ASSUME Send(id)
      PROVE  Agreed'
  BY <1>1, <1>4 DEF Send, Agreed, store, history
<1>5. ASSUME NEW done \in DeliverDone, Deliver(id, done)
      PROVE  Agreed'
  <2>1. PICK j \in flight :
          /\ flight' = flight \ {j}
          /\ last' = last \/ last' = [last EXCEPT ![j.owner] = Record(j)]
          /\ \/ jobs' = With(jobs, Occurrence(j))
             \/ jobs' \subseteq jobs
    BY <1>5 DEF Deliver
  <2>2. j \in Jobs /\ j.owner \in People /\ Occurrence(j).from = j.from /\ Record(j).from = j.from
    BY JobParts, OccurrenceParts, RecordIsTyped DEF TypeOK
  <2>3. \A k \in jobs' : k \in jobs \/ k = Occurrence(j)
    BY <2>1 DEF With
  <2>4. \A p \in People : last'[p] = last[p] \/ last'[p] = Record(j)
    BY <2>1 DEF TypeOK
  <2>5. j.from # 0 => j.from \in consents
    BY <1>1 DEF Agreed
  <2>6. \A k \in jobs' \cup flight' : k.from # 0 => k.from \in consents'
    BY <1>1, <1>2, <2>1, <2>2, <2>3, <2>5 DEF Agreed
  <2>7. \A p \in People : last'[p] # None /\ last'[p].from # 0 => last'[p].from \in consents'
    BY <1>1, <1>2, <2>2, <2>4, <2>5 DEF Agreed
  <2> QED
    BY <2>6, <2>7 DEF Agreed
<1>7. ASSUME Complete(id)
      PROVE  Agreed'
  BY <1>1, <1>7 DEF Complete, Agreed, store, history
<1>6. Agreed'
  BY <1>4, <1>5, <1>7
<1> QED
  BY <1>3, <1>6 DEF AskInv, Few

LEMMA OthersAsk ==
  ASSUME TypeOK, RowsAreJobs, AskInv,
         UNCHANGED vars \/ Tick \/ Restart \/ ApplyPlan \/ FinishErasure \/ \E p \in People : ReadRows(p)
  PROVE  AskInv'
<1>1. Agreed /\ Few(requests) /\ Few(erasure.requests)
  BY DEF AskInv
<1>2. CASE UNCHANGED vars \/ Tick
  BY <1>1, <1>2 DEF vars, Tick, scheduler, store, people, history, AskInv, Agreed, Few, ToIn
<1>3. CASE Restart
  <2>1. jobs' = rows /\ flight' = {} /\ UNCHANGED <<last, requests, erasure, consents>> /\ rows \subseteq jobs
    BY <1>3 DEF Restart, store, people, history, RowsAreJobs
  <2> QED
    BY <1>1, <2>1 DEF AskInv, Agreed, Few, ToIn
<1>4. CASE ApplyPlan
  <2>1. /\ \/ requests' = requests \/ requests' \subseteq erasure.requests
        /\ erasure' = [erasure EXCEPT !.stage = "applied"]
        /\ last' = [last EXCEPT ![erasure.who] = IF erasure.last # None THEN None ELSE @]
        /\ UNCHANGED <<jobs, flight, consents>>
    BY <1>4 DEF ApplyPlan, scheduler, history
  <2>2. erasure'.requests = erasure.requests
    BY <2>1 DEF TypeOK
  <2>3. \A p \in People : last'[p] = last[p] \/ last'[p] = None
    BY <2>1 DEF TypeOK
  <2>4. Agreed'
    BY <1>1, <2>1, <2>3 DEF Agreed
  <2>5. PICK S : S = requests'
    OBVIOUS
  <2>6. Few(S)
    BY <1>1, <2>1, <2>5, RequestsAreFinite, FewerIsFew
  <2> QED
    BY <1>1, <2>2, <2>4, <2>5, <2>6 DEF AskInv, Few, ToIn
<1>5. CASE FinishErasure
  <2>1. erasure'.requests = {} /\ UNCHANGED <<jobs, flight, last, requests, consents>>
    BY <1>5 DEF FinishErasure, NoErasure, store, history
  <2>2. Few({})
    BY <1>1, RequestsAreFinite, FewerIsFew
  <2> QED
    BY <1>1, <2>1, <2>2 DEF AskInv, Agreed, Few, ToIn
<1>6. ASSUME NEW p \in People, ReadRows(p)
      PROVE  AskInv'
  <2>1. erasure'.requests = requests /\ UNCHANGED <<jobs, flight, last, requests, consents>>
    BY <1>6 DEF ReadRows, scheduler, store, history
  <2> QED
    BY <1>1, <2>1 DEF AskInv, Agreed, Few, ToIn
<1> QED
  BY <1>2, <1>3, <1>4, <1>5, <1>6

-----------------------------------------------------------------------------
(* All together.                                                           *)

LEMMA CommandsKeep ==
  ASSUME TypeOK, TypeOK', KeepInv, AskInv, NEW p \in People, Command(p)
  PROVE  KeepInv'
<1>1. ASSUME NEW delay \in Delays, NEW every \in BOOLEAN, NEW done, Remind(p, delay, every, done)
      PROVE  KeepInv'
  <2>1. /\ p \in alive /\ ScheduleNew(p, now + delay, every, 0, done)
        /\ every => Cardinality(Recurring(p)) < MaxRecurring
        /\ UNCHANGED <<flight, answers, alive, erasure, posts, served, unheard, cancelled, late>>
    BY <1>1 DEF Remind, people
  <2>2. now + delay \in Nat /\ 0 \in 0..MaxCommands
    BY Bounds DEF TypeOK
  <2> QED
    BY <2>1, <2>2, ScheduleKeeps
<1>2. ASSUME NEW done, Snooze(p, done)
      PROVE  KeepInv'
  <2>1. /\ p \in alive /\ ScheduleNew(p, now + SnoozeDelay, FALSE, last[p].from, done) /\ last[p] # None
        /\ UNCHANGED <<flight, answers, alive, erasure, posts, served, unheard, cancelled, late>>
    BY <1>2 DEF Snooze, people
  <2>2. now + SnoozeDelay \in Nat /\ last[p].from \in 0..MaxCommands
    BY <2>1, Bounds DEF TypeOK, Delivered
  <2> QED
    BY <2>1, <2>2, ScheduleKeeps
<1>3. rows = {j \in jobs : j.owner \in alive}
  BY DEF KeepInv, RowsAreJobs
<1>4. ASSUME NEW q \in People, NEW delay \in Delays, AskOther(p, q, delay)
      PROVE  KeepInv'
  <2>1. UNCHANGED <<jobs, rows, flight, answers, seq, alive, erasure, acked, posts, served, unheard, cancelled, late>>
    BY <1>4 DEF AskOther, scheduler, people, history
  <2> QED
    BY <1>3, <2>1, QuietKeeps DEF Present
<1>5. ASSUME NEW accept \in BOOLEAN, NEW done, Answer(p, accept, done)
      PROVE  KeepInv'
  <2> DEFINE r == FirstFor(Waiting, p)
  <2>1. /\ p \in alive /\ ToIn(Waiting, p) # {}
        /\ \/ ScheduleNew(p, r.at, FALSE, r.token, done)
           \/ UNCHANGED <<jobs, rows, seq, acked>>
        /\ UNCHANGED <<flight, answers, alive, erasure, posts, served, unheard, cancelled, late>>
    BY <1>5 DEF Answer, people
  <2>2. r \in Requests
    BY <2>1, FirstIsTyped, WaitingIsTyped
  <2> HIDE DEF r
  <2>3. r.at \in Nat /\ r.token \in 0..MaxCommands
    BY <2>2, Bounds DEF Requests
  <2>4. CASE ScheduleNew(p, r.at, FALSE, r.token, done)
    BY <2>1, <2>3, <2>4, ScheduleKeeps
  <2>5. CASE UNCHANGED <<jobs, rows, seq, acked>>
    BY <1>3, <2>1, <2>5, QuietKeeps DEF Present
  <2> QED
    BY <2>1, <2>4, <2>5
<1>6. CASE \E delay \in Delays, every \in BOOLEAN, done \in NewDone : Remind(p, delay, every, done)
  BY <1>1, <1>6
<1>7. CASE \E accept \in BOOLEAN, done \in NewDone \cup {"taken"} : Answer(p, accept, done)
  BY <1>5, <1>7
<1>8. CASE \/ \E q \in People, delay \in Delays : AskOther(p, q, delay)
           \/ \E done \in NewDone : Snooze(p, done)
           \/ \E j \in jobs : Cancel(p, j)
  BY <1>2, <1>4, <1>8, CancelKeeps
<1> QED
  BY <1>6, <1>7, <1>8 DEF Command

LEMMA SoundInit ==
  ASSUME Init
  PROVE  KeepInv /\ AskInv
<1>1. /\ jobs = {} /\ rows = {} /\ flight = {} /\ answers = {} /\ requests = {} /\ erasure.requests = {}
      /\ acked = {} /\ cancelled = {} /\ late = {} /\ \A i \in Ids : served[i] = 0 /\ unheard[i] = 0
      /\ \A p \in People : last[p] = None
  BY DEF Init, InitAfter, NoErasure
<1>2. Cardinality({}) = 0 /\ \A p : Recurring(p) = {}
  BY <1>1, FS_EmptySet DEF Recurring, Owned
<1>3. KeepInv
  <2>1. RowsAreJobs /\ OneEach(jobs) /\ OneEach(flight) /\ FlightIsKnown /\ OverIsOver /\ Kept
    BY <1>1 DEF RowsAreJobs, OneEach, FlightIsKnown, OverIsOver, Kept
  <2>2. NumbersAreGiven
    BY <1>1 DEF NumbersAreGiven, Given, Names
  <2>3. ServedOnce
    BY <1>1 DEF ServedOnce
  <2>5. NotServedYet /\ AnswersAreKnown
    BY <1>1 DEF NotServedYet, AnswersAreKnown
  <2>4. RecurringIsLimited
    BY <1>2, Bounds DEF RecurringIsLimited
  <2> QED
    BY <2>1, <2>2, <2>3, <2>4, <2>5 DEF KeepInv
<1>4. Few({})
  <2>1. \A p : ToIn({}, p) = {}
    BY DEF ToIn
  <2> QED
    BY <1>2, <2>1, Bounds DEF Few
<1> QED
  BY <1>1, <1>3, <1>4 DEF AskInv, Agreed

LEMMA SoundStep ==
  ASSUME TypeOK, TypeOK', KeepInv, AskInv, [Next]_vars
  PROVE  KeepInv' /\ AskInv'
<1>1. RowsAreJobs /\ rows = {j \in jobs : j.owner \in alive}
  BY DEF KeepInv, RowsAreJobs
<1>2. ASSUME NEW p \in People, Command(p)
      PROVE  KeepInv' /\ AskInv'
  BY <1>2, CommandsKeep, CommandsAsk
<1>3. ASSUME NEW p \in People, Timers(p)
      PROVE  KeepInv' /\ AskInv'
  <2>1. PICK n \in 1..MaxNumber :
          \/ Send(<<p, n>>)
          \/ \E done \in DeliverDone : Deliver(<<p, n>>, done)
          \/ Complete(<<p, n>>)
    BY <1>3 DEF Timers
  <2>2. <<p, n>> \in Ids
    BY DEF Ids
  <2>3. KeepInv'
    BY <2>1, <2>2, SendKeeps, DeliverKeeps, CompleteKeeps
  <2>4. AskInv'
    BY <2>1, <2>2, TimersAsk
  <2> QED
    BY <2>3, <2>4
<1>4. CASE UNCHANGED vars \/ Tick
  <2>1. UNCHANGED <<jobs, rows, flight, answers, seq, alive, erasure, acked, posts, served, unheard, cancelled, late>>
    BY <1>4 DEF vars, Tick, scheduler, store, people, history
  <2>2. KeepInv'
    BY <1>1, <2>1, QuietKeeps DEF Present
  <2> QED
    BY <1>1, <1>4, <2>2, OthersAsk
<1>5. CASE Restart
  BY <1>1, <1>5, RestartKeeps, OthersAsk
<1>6. CASE FinishErasure \/ ApplyPlan \/ \E p \in People : ReadRows(p)
  <2>1. KeepInv'
    BY <1>6, ErasureKeeps
  <2> QED
    BY <1>1, <1>6, <2>1, OthersAsk
<1> QED
  BY <1>2, <1>3, <1>4, <1>5, <1>6 DEF Next

LEMMA SoundFollows ==
  ASSUME TypeOK, KeepInv, AskInv
  PROVE  RemindersAreSound
<1>1. ASSUME NEW id \in acked, id[1] \in Present
      PROVE  /\ (\E j \in jobs : Id(j) = id) \/ posts[id] > 0 \/ id \in cancelled
             /\ served[id] <= 1 + unheard[id]
             /\ id \in cancelled \ late => \A j \in jobs : Id(j) # id
  <2>1. id \in Ids
    BY DEF TypeOK
  <2>2. \A j \in jobs : Id(j) = id => j.owner = id[1]
    BY JobParts DEF TypeOK
  <2>3. id \in Names(jobs) \cup cancelled \/ posts[id] > 0
    BY <1>1 DEF KeepInv, Kept, Here
  <2>4. served[id] <= 1 + unheard[id]
    BY <1>1, <2>1 DEF KeepInv, ServedOnce, Here
  <2>5. id \in cancelled \ late => \A j \in jobs : Id(j) # id
    BY <1>1, <2>2 DEF KeepInv, OverIsOver, Over
  <2> QED
    BY <2>3, <2>4, <2>5 DEF Names
<1>2. RemindersAreKept
  BY <1>1 DEF RemindersAreKept
<1>3. AskingIsLimited
  BY DEF AskingIsLimited, AskInv, Agreed, Few, KeepInv, RecurringIsLimited
<1> QED
  BY <1>2, <1>3 DEF RemindersAreSound

\* Whatever handlers are cut short, however often the host restarts or an attempt is sent
\* again: what a person was told is set has its job until it was posted or cancelled, a
\* one-off is served once, and again only as often as a restart lost the answer before its
\* row was deleted, what was cancelled in time stays away, and nobody gets a reminder they
\* did not ask for or accept (reminders/src/lib.rs, scheduler.rs).
THEOREM RemindersCount == Spec => []RemindersAreSound
<1>1. Init => KeepInv /\ AskInv
  BY SoundInit
<1>2. TypeOK /\ TypeOK' /\ KeepInv /\ AskInv /\ [Next]_vars => KeepInv' /\ AskInv'
  BY SoundStep
<1>3. TypeOK /\ KeepInv /\ AskInv => RemindersAreSound
  BY SoundFollows
<1> QED
  BY <1>1, <1>2, <1>3, TypeCorrect, PTL DEF Spec
-----------------------------------------------------------------------------
(* What administrators ordered for a channel (module ChannelOrders).  A    *)
(* ban is set after its timer and lifted before it, so that wherever a     *)
(* handler is cut the ban keeps a job, unless the line that was to lift it *)
(* was dropped; a tick books the next one first.                           *)

Job == {"none", "set", "sent"}

\* A timer's handler settles the job it was sent for, unless it was set anew: it goes when
\* the handler is done, and is tried again when it was cut short.
Settled(d, id, job) == [d EXCEPT !.jobs[id] = IF @ = "sent" THEN job ELSE @]
TakenOff(w, id) == [w EXCEPT !.queue = @ \ {id}]
CutShort(w) == [w EXCEPT !.mishaps = @ + 1]

LEMMA TimerOutcome ==
  ASSUME NEW id, NEW states, NEW n \in Nat \ {0}, Len(states) = n, NEW w,
         Orders!PerformTimer(id, states, w)
  PROVE  \/ /\ \E i \in 0..n : db' = Settled(IF i = 0 THEN db ELSE states[i], id, "set")
            /\ world' = CutShort(TakenOff(w, id))
         \/ db' = Settled(states[n], id, "none") /\ world' = TakenOff(w, id)
<1>1. PICK i \in 0..n :
        LET d == IF i = 0 THEN db ELSE states[i]
        IN IF i = n THEN db' = Settled(d, id, "none") /\ world' = TakenOff(w, id)
           ELSE db' = Settled(d, id, "set") /\ world' = CutShort(TakenOff(w, id))
  BY DEF Orders!PerformTimer, Settled, TakenOff, CutShort
<1>2. i = n => db' = Settled(states[n], id, "none") /\ world' = TakenOff(w, id)
  BY <1>1
<1>3. i # n => /\ db' = Settled(IF i = 0 THEN db ELSE states[i], id, "set")
               /\ world' = CutShort(TakenOff(w, id))
  BY <1>1
<1> QED BY <1>2, <1>3

\* What a handler of one or of two writes leaves, cut short or not.
LEMMA TwoWrites ==
  ASSUME NEW a, NEW b, NEW w, Orders!Perform(<<a, b>>, w)
  PROVE  \/ db' \in {db, a} /\ world' = CutShort(w)
         \/ db' = b /\ world' = w
<1>1. PICK i \in 0..2 : /\ db' = IF i = 0 THEN db ELSE <<a, b>>[i]
                        /\ IF i = 2 THEN world' = w ELSE world' = CutShort(w)
  BY DEF Orders!Perform, CutShort
<1>2. i = 0 \/ i = 1 \/ i = 2
  OBVIOUS
<1> QED BY <1>1, <1>2

-----------------------------------------------------------------------------
(* Timed bans.                                                             *)

BanRows == [jobs : [Masks -> Job], bans : SUBSET Masks, left : SUBSET Masks]
BanWorlds == [queue : SUBSET Masks, asked : Nat, mishaps : Nat]
Booked(d) == d \in BanRows /\ \A m \in d.bans : d.jobs[m] # "none" \/ m \in d.left

BansInv == Booked(db) /\ world \in BanWorlds

\* The ban does not need its job any more.
IsFree(d, m) == m \notin d.bans \/ m \in d.left

\* A job may be set at any time, a ban only with its job, and a job may go with its ban.
LEMMA JobChanges ==
  ASSUME NEW d, Booked(d), NEW m \in Masks, NEW job \in Job, job # "none" \/ IsFree(d, m)
  PROVE  /\ Booked([d EXCEPT !.jobs[m] = job])
         /\ [d EXCEPT !.jobs[m] = job].jobs[m] = job
<1> DEFINE e == [d EXCEPT !.jobs[m] = job]
<1>1. d.jobs \in [Masks -> Job] /\ d.bans \in SUBSET Masks /\ d.left \in SUBSET Masks
  BY DEF Booked, BanRows
<1>2. e.jobs = [d.jobs EXCEPT ![m] = job] /\ e.bans = d.bans /\ e.left = d.left /\ e \in BanRows
  BY <1>1 DEF Booked, BanRows
<1>3. Booked(e)
  BY <1>1, <1>2 DEF Booked, IsFree
<1> QED BY <1>1, <1>2, <1>3

\* A line that gets through, and one that is dropped.
LEMMA ModeChanges ==
  ASSUME NEW d, Booked(d), NEW m \in Masks, NEW adding \in BOOLEAN, adding => d.jobs[m] # "none",
         NEW e \in Orders!Mode(d, adding, m)
  PROVE  Booked(e) /\ (~adding => IsFree(e, m))
<1> DEFINE c == [d EXCEPT !.bans = IF adding THEN @ \cup {m} ELSE @ \ {m}]
<1>1. d.jobs \in [Masks -> Job] /\ d.bans \in SUBSET Masks /\ d.left \in SUBSET Masks
  BY DEF Booked, BanRows
<1>2. CASE e = Orders!Obeyed(d, adding, m)
  <2>1. /\ c.bans = IF adding THEN d.bans \cup {m} ELSE d.bans \ {m}
        /\ c.left = d.left /\ c.jobs = d.jobs /\ c \in BanRows
    BY <1>1 DEF Booked, BanRows
  <2>2. e = [c EXCEPT !.left = @ \ {m}]
    BY <1>2 DEF Orders!Obeyed
  <2> HIDE DEF c
  <2>3. e.left = d.left \ {m} /\ e.jobs = d.jobs /\ e.bans = c.bans /\ e \in BanRows
    BY <1>1, <2>1, <2>2 DEF BanRows
  <2> QED BY <1>1, <2>1, <2>3 DEF Booked, IsFree
<1>3. CASE e = Orders!Unheard(d, adding, m)
  <2>1. CASE adding
    BY <1>3, <2>1 DEF Orders!Unheard
  <2>2. CASE ~adding
    <3>1. e = [d EXCEPT !.left = @ \cup (d.bans \cap {m})]
      BY <1>3, <2>2 DEF Orders!Unheard
    <3>2. /\ e.left = d.left \cup (d.bans \cap {m}) /\ e.jobs = d.jobs /\ e.bans = d.bans
          /\ e \in BanRows
      BY <1>1, <3>1 DEF Booked, BanRows
    <3> QED BY <1>1, <3>2 DEF Booked, IsFree
  <2> QED BY <2>1, <2>2
<1> QED BY <1>2, <1>3 DEF Orders!Mode

LEMMA SettledIsBooked ==
  ASSUME NEW d, Booked(d), NEW m \in Masks, NEW job \in Job, job # "none" \/ IsFree(d, m)
  PROVE  Booked(Settled(d, m, job))
<1>1. CASE d.jobs[m] = "sent"
  <2>1. Settled(d, m, job) = [d EXCEPT !.jobs[m] = job]
    BY <1>1 DEF Settled
  <2> QED BY <2>1, JobChanges
<1>2. CASE d.jobs[m] # "sent"
  <2>1. Settled(d, m, job) = [d EXCEPT !.jobs[m] = @]
    BY <1>2 DEF Settled
  <2>2. d.jobs[m] \in Job /\ (d.jobs[m] # "none" \/ IsFree(d, m))
    BY DEF Booked, BanRows, IsFree
  <2> QED BY <2>1, <2>2, JobChanges
<1> QED BY <1>1, <1>2

LEMMA WorldChanges ==
  ASSUME NEW w \in BanWorlds, NEW m \in Masks
  PROVE  /\ [w EXCEPT !.asked = @ + 1] \in BanWorlds
         /\ CutShort(w) \in BanWorlds
         /\ TakenOff(w, m) \in BanWorlds
         /\ [w EXCEPT !.queue = @ \cup {m}] \in BanWorlds
BY DEF BanWorlds, CutShort, TakenOff

LEMMA BansStart == Orders!BansInit => BansInv
  BY DEF Orders!BansInit, BansInv, Booked, BanRows, BanWorlds, Job

LEMMA BansStep ==
  ASSUME BansInv, Orders!BansNext
  PROVE  BansInv'
<1>1. ASSUME NEW m \in Masks, Orders!AskBan(m)
      PROVE  BansInv'
  <2> DEFINE a == Orders!SetTimer(db, m)
             w == [world EXCEPT !.asked = @ + 1]
  <2>1. Booked(a) /\ a.jobs[m] = "set"
    BY JobChanges DEF Orders!SetTimer, BansInv, Job
  <2>2. PICK b \in Orders!Mode(a, TRUE, m) : Orders!Perform(<<a, b>>, w)
    BY <1>1 DEF Orders!AskBan, Orders!Ban
  <2> HIDE DEF a
  <2>3. Booked(b)
    BY <2>1, <2>2, ModeChanges
  <2>4. w \in BanWorlds /\ CutShort(w) \in BanWorlds
    BY WorldChanges DEF BansInv
  <2> HIDE DEF w
  <2>5. \/ db' \in {db, a} /\ world' = CutShort(w)
        \/ db' = b /\ world' = w
    BY <2>2, TwoWrites
  <2> QED BY <2>1, <2>3, <2>4, <2>5 DEF BansInv
<1>2. ASSUME NEW m \in Masks, Orders!AskUnban(m)
      PROVE  BansInv'
  <2>1. PICK a \in Orders!Mode(db, FALSE, m) : Orders!Perform(<<a, Orders!CancelTimer(a, m)>>, world)
    BY <1>2 DEF Orders!AskUnban, Orders!Unban
  <2> DEFINE b == Orders!CancelTimer(a, m)
  <2>2. Booked(a) /\ IsFree(a, m)
    BY <2>1, ModeChanges DEF BansInv
  <2>3. Booked(b)
    <3>1. Booked([a EXCEPT !.jobs[m] = "none"])
      BY <2>2, JobChanges DEF Job
    <3> QED BY <3>1 DEF Orders!CancelTimer
  <2>4. world \in BanWorlds /\ CutShort(world) \in BanWorlds
    BY WorldChanges DEF BansInv
  <2>5. Orders!Perform(<<a, b>>, world)
    BY <2>1
  <2> HIDE DEF b
  <2>6. \/ db' \in {db, a} /\ world' = CutShort(world)
        \/ db' = b /\ world' = world
    BY <2>5, TwoWrites
  <2> QED BY <2>2, <2>3, <2>4, <2>6 DEF BansInv
<1>3. ASSUME NEW m \in Masks, Orders!Send(m)
      PROVE  BansInv'
  <2>1. db' = [db EXCEPT !.jobs[m] = "sent"] /\ world' = [world EXCEPT !.queue = @ \cup {m}]
    BY <1>3 DEF Orders!Send
  <2>2. Booked([db EXCEPT !.jobs[m] = "sent"])
    BY JobChanges DEF BansInv, Job
  <2>3. [world EXCEPT !.queue = @ \cup {m}] \in BanWorlds
    BY WorldChanges DEF BansInv
  <2> QED BY <2>1, <2>2, <2>3 DEF BansInv
<1>4. ASSUME NEW m \in Masks, Orders!Expire(m)
      PROVE  BansInv'
  <2>1. PICK a \in Orders!Mode(db, FALSE, m) : Orders!PerformTimer(m, <<a>>, world)
    BY <1>4 DEF Orders!Expire
  <2> DEFINE states == <<a>>
             w == TakenOff(world, m)
  <2>2. Booked(a) /\ IsFree(a, m)
    BY <2>1, ModeChanges DEF BansInv
  <2>3. Orders!PerformTimer(m, states, world) /\ Len(states) = 1 /\ states[1] = a /\ 1 \in Nat \ {0}
    BY <2>1
  <2>4. w \in BanWorlds /\ CutShort(w) \in BanWorlds
    BY WorldChanges DEF BansInv
  <2> HIDE DEF states
  <2>5. \/ db' \in {Settled(db, m, "set"), Settled(a, m, "set")} /\ world' = CutShort(w)
        \/ db' = Settled(a, m, "none") /\ world' = w
    <3>1. \/ /\ \E i \in 0..1 : db' = Settled(IF i = 0 THEN db ELSE states[i], m, "set")
             /\ world' = CutShort(w)
          \/ db' = Settled(states[1], m, "none") /\ world' = w
      BY <2>3, TimerOutcome
    <3>2. \A i \in 0..1 : (IF i = 0 THEN db ELSE states[i]) \in {db, a}
      BY <2>3
    <3> QED BY <2>3, <3>1, <3>2
  <2> HIDE DEF w
  <2>6. Booked(Settled(db, m, "set")) /\ Booked(Settled(a, m, "set"))
    BY <2>2, SettledIsBooked DEF BansInv, Job
  <2>7. Booked(Settled(a, m, "none"))
    BY <2>2, SettledIsBooked DEF Job
  <2> QED BY <2>4, <2>5, <2>6, <2>7 DEF BansInv
<1> QED BY <1>1, <1>2, <1>3, <1>4 DEF Orders!BansNext

LEMMA BansFollow == BansInv => Orders!BansAreDriven
  BY DEF BansInv, Booked, BanRows, Orders!BansAreDriven, Orders!IsDriven, Orders!IsPending

-----------------------------------------------------------------------------
(* Weather alerts.  A warning that is posted was seen where it is in       *)
(* force, so that one seen nowhere, in no dark cell, is over; and what the *)
(* channel was told is what is posted, until a handler is cut short.       *)

Area == [w \in Warnings |-> IF w = CHOOSE v \in Warnings : TRUE THEN Cells
                            ELSE {CHOOSE c \in Cells : TRUE}]

AlertRows == [jobs : [{Orders!Tick} -> Job], posted : [Warnings -> SUBSET Cells]]
AlertWorlds ==
  [queue : SUBSET {Orders!Tick}, inForce : SUBSET Warnings, old : SUBSET Warnings,
   watched : SUBSET Cells, strict : BOOLEAN, quiet : BOOLEAN, asked : BOOLEAN,
   told : SUBSET Warnings, repeated : BOOLEAN, liftedInForce : BOOLEAN, turns : Nat, mishaps : Nat]

Filled(table) == {w \in Warnings : table[w] # {}}
Shown(d) == Filled(d.posted)
SeenThere(d) == d \in AlertRows /\ \A w \in Warnings : d.posted[w] \subseteq Area[w]

AlertsInv ==
  /\ SeenThere(db) /\ world \in AlertWorlds
  /\ world.asked => db.jobs[Orders!Tick] # "none"
  /\ world.mishaps = 0 => world.told = Shown(db) /\ ~world.repeated
  /\ ~world.liftedInForce

LEMMA AlertsStart == Orders!AlertsInit => AlertsInv
  BY DEF Orders!AlertsInit, AlertsInv, SeenThere, AlertRows, AlertWorlds, Shown, Filled, Job, Orders!Tick

\* Setting the tick's job keeps what is posted.
LEMMA TickChanges ==
  ASSUME NEW d, SeenThere(d), NEW job \in Job
  PROVE  LET e == [d EXCEPT !.jobs[Orders!Tick] = job]
         IN SeenThere(e) /\ e.jobs[Orders!Tick] = job /\ e.posted = d.posted
<1> DEFINE e == [d EXCEPT !.jobs[Orders!Tick] = job]
<1>1. d.jobs \in [{Orders!Tick} -> Job] /\ d.posted \in [Warnings -> SUBSET Cells]
  BY DEF SeenThere, AlertRows
<1>2. e.jobs = [d.jobs EXCEPT ![Orders!Tick] = job] /\ e.posted = d.posted /\ e \in AlertRows
  BY <1>1 DEF SeenThere, AlertRows
<1> QED BY <1>1, <1>2 DEF SeenThere

LEMMA TickSettles ==
  ASSUME NEW d, SeenThere(d), NEW job \in Job
  PROVE  LET e == Settled(d, Orders!Tick, job)
         IN /\ SeenThere(e) /\ e.posted = d.posted
            /\ e.jobs[Orders!Tick] = IF d.jobs[Orders!Tick] = "sent" THEN job ELSE d.jobs[Orders!Tick]
<1>1. CASE d.jobs[Orders!Tick] = "sent"
  <2>1. Settled(d, Orders!Tick, job) = [d EXCEPT !.jobs[Orders!Tick] = job]
    BY <1>1 DEF Settled
  <2> QED BY <1>1, <2>1, TickChanges
<1>2. CASE d.jobs[Orders!Tick] # "sent"
  <2>1. Settled(d, Orders!Tick, job) = [d EXCEPT !.jobs[Orders!Tick] = @]
    BY <1>2 DEF Settled
  <2>2. d.jobs[Orders!Tick] \in Job
    BY DEF SeenThere, AlertRows
  <2> QED BY <1>2, <2>1, <2>2, TickChanges
<1> QED BY <1>1, <1>2

\* What a lookup shows is where the warning is; what is posted afterwards was seen, or was
\* posted and neither lifted nor forgotten.
LEMMA LookupFacts ==
  ASSUME AlertsInv, NEW dark \in SUBSET Cells, NEW shown,
         NEW after \in Orders!Posted(Orders!Seen(dark, shown), dark)
  PROVE  LET seen == Orders!Seen(dark, shown)
             gone == Orders!Lifted(seen, dark) \cup Orders!Forgotten(seen, dark)
         IN /\ after \in [Warnings -> SUBSET Cells]
            /\ \A w \in Warnings : after[w] \subseteq Area[w]
            /\ \A w \in Warnings : after[w] # {} => w \notin gone /\ (seen[w] # {} \/ db.posted[w] # {})
<1> DEFINE seen == Orders!Seen(dark, shown)
           gone == Orders!Lifted(seen, dark) \cup Orders!Forgotten(seen, dark)
           all == [w \in Warnings |-> IF w \in gone THEN {} ELSE IF seen[w] # {} THEN seen[w]
                                      ELSE db.posted[w]]
<1>1. db.posted \in [Warnings -> SUBSET Cells] /\ \A w \in Warnings : db.posted[w] \subseteq Area[w]
  BY DEF AlertsInv, SeenThere, AlertRows
<1>2. world.watched \subseteq Cells
  BY DEF AlertsInv, AlertWorlds
<1>3. \A w \in Warnings : seen[w] \subseteq Cells \cap Area[w]
  BY <1>2 DEF Orders!Seen, Area
<1>4. \/ after = all
      \/ \E w \in Warnings : after = [all EXCEPT ![w] = {}]
  BY DEF Orders!Posted
<1> HIDE DEF seen, gone
<1>5. /\ all \in [Warnings -> SUBSET Cells]
      /\ \A w \in Warnings : all[w] \subseteq Area[w]
      /\ \A w \in Warnings : all[w] # {} => w \notin gone /\ (seen[w] # {} \/ db.posted[w] # {})
  BY <1>1, <1>3
<1> HIDE DEF all
<1>6. after \in [Warnings -> SUBSET Cells] /\ \A w \in Warnings : after[w] \in {all[w], {}}
  BY <1>4, <1>5
<1> QED BY <1>5, <1>6 DEF seen, gone

\* Nothing is lifted while it is in force at a member's.
LEMMA LiftedIsOver ==
  ASSUME AlertsInv, NEW dark \in SUBSET Cells, NEW shown,
         NEW w \in Orders!Lifted(Orders!Seen(dark, shown), dark), w \in world.inForce
  PROVE  FALSE
<1>1. /\ w \in Warnings /\ Orders!Seen(dark, shown)[w] = {} /\ Orders!Relevant(w)
      /\ db.posted[w] \cap world.watched # {} /\ db.posted[w] \cap dark = {}
  BY DEF Orders!Lifted
<1>2. PICK c \in db.posted[w] \cap world.watched : TRUE
  BY <1>1
<1>3. c \in Area[w] /\ c \notin dark
  BY <1>1, <1>2 DEF AlertsInv, SeenThere
<1>4. c \in Orders!Seen(dark, shown)[w]
  BY <1>1, <1>2, <1>3 DEF Orders!Seen, Area
<1> QED BY <1>1, <1>4

\* A tick books the next before anything else, and posts what it was given at the end.
LEMMA TickStates ==
  ASSUME NEW after
  PROVE  LET booked == [db EXCEPT !.jobs[Orders!Tick] = "set"]
             posting == [booked EXCEPT !.posted = after]
             n == IF world.quiet THEN 1 ELSE 3
         IN /\ Len(Orders!Steps(after)) = n
            /\ \A i \in 1..n : Orders!Steps(after)[i] \in {booked, posting}
            /\ Orders!Steps(after)[n] = IF world.quiet THEN booked ELSE posting
<1> DEFINE booked == [db EXCEPT !.jobs[Orders!Tick] = "set"]
           posting == [booked EXCEPT !.posted = after]
<1>1. Orders!Steps(after) = <<booked>> \o IF world.quiet THEN <<>> ELSE <<booked, posting>>
  BY DEF Orders!Steps, Orders!SetTimer
<1> HIDE DEF booked, posting
<1>2. world.quiet => Orders!Steps(after) = <<booked>>
  <2>1. <<booked>> \o <<>> = <<booked>>
    OBVIOUS
  <2> QED BY <1>1, <2>1
<1>3. <<booked>> \in Seq({booked, posting}) /\ <<booked, posting>> \in Seq({booked, posting})
  OBVIOUS
<1>4. ~world.quiet => /\ Len(Orders!Steps(after)) = 3
                      /\ Orders!Steps(after)[1] = booked /\ Orders!Steps(after)[2] = booked
                      /\ Orders!Steps(after)[3] = posting
  BY <1>1, <1>3
<1>5. \A i \in 1..3 : i = 1 \/ i = 2 \/ i = 3
  OBVIOUS
<1>6. CASE world.quiet
  <2>1. /\ Len(Orders!Steps(after)) = 1 /\ Orders!Steps(after)[1] = booked
        /\ \A i \in 1..1 : i = 1
    BY <1>2, <1>6
  <2> QED BY <1>6, <2>1 DEF booked, posting
<1>7. CASE ~world.quiet
  <2>1. /\ Len(Orders!Steps(after)) = 3 /\ Orders!Steps(after)[3] = posting
        /\ \A i \in 1..3 : Orders!Steps(after)[i] \in {booked, posting}
    BY <1>4, <1>5, <1>7
  <2> QED BY <1>7, <2>1 DEF booked, posting
<1> QED BY <1>6, <1>7

TickWorld(dark, shown, after) ==
  LET seen == Orders!Seen(dark, shown)
      announced == {w \in Warnings : seen[w] # {} /\ db.posted[w] = {}}
      over == Orders!Lifted(seen, dark)
  IN IF world.quiet THEN world
     ELSE [world EXCEPT
             !.told = (@ \cup announced) \ (over \cup Orders!Forgotten(seen, dark)
                        \cup {w \in Warnings : after[w] = {}}),
             !.repeated = @ \/ announced \cap world.told # {} \/ over \ world.told # {},
             !.liftedInForce = @ \/ \E w \in over \cap world.inForce :
                                      db.posted[w] \cap world.watched # {}]

\* After a tick the channel was told what is posted, nothing a second time, and nothing was
\* lifted too early.
LEMMA TickTells ==
  ASSUME AlertsInv, NEW dark \in SUBSET Cells, NEW shown,
         NEW after \in Orders!Posted(Orders!Seen(dark, shown), dark)
  PROVE  LET w == TickWorld(dark, shown, after)
         IN /\ w \in AlertWorlds /\ w.asked = world.asked /\ w.mishaps = world.mishaps
            /\ ~w.liftedInForce
            /\ world.mishaps = 0 =>
                 /\ ~w.repeated
                 /\ w.told = IF world.quiet THEN Shown(db) ELSE Filled(after)
<1> DEFINE seen == Orders!Seen(dark, shown)
           announced == {w \in Warnings : seen[w] # {} /\ db.posted[w] = {}}
           over == Orders!Lifted(seen, dark)
           forgotten == Orders!Forgotten(seen, dark)
           toldNow == (world.told \cup announced) \ (over \cup forgotten
                         \cup {w \in Warnings : after[w] = {}})
           again_ == world.repeated \/ announced \cap world.told # {} \/ over \ world.told # {}
           early == world.liftedInForce \/ \E w \in over \cap world.inForce :
                                             db.posted[w] \cap world.watched # {}
           w == TickWorld(dark, shown, after)
<1>1. CASE world.quiet
  BY <1>1 DEF TickWorld, AlertsInv
<1>2. CASE ~world.quiet
  <2>1. w = [world EXCEPT !.told = toldNow, !.repeated = again_, !.liftedInForce = early]
    BY <1>2 DEF TickWorld
  <2>2. world \in AlertWorlds /\ ~world.liftedInForce
    BY DEF AlertsInv
  <2>3. \A x \in over : x \in Warnings /\ seen[x] = {} /\ db.posted[x] # {}
    BY DEF Orders!Lifted
  <2>4. \A x \in Warnings : after[x] # {} => /\ x \notin over \cup forgotten
                                             /\ seen[x] # {} \/ db.posted[x] # {}
    BY LookupFacts
  <2>5. \A x \in over : x \notin world.inForce
    BY LiftedIsOver
  <2> HIDE DEF w, seen, over, forgotten
  <2>6. toldNow \subseteq Warnings /\ again_ \in BOOLEAN /\ early \in BOOLEAN
    BY <2>2 DEF AlertWorlds
  <2>7. ~early
    BY <2>2, <2>5
  <2>8. world.mishaps = 0 => ~again_ /\ toldNow = Filled(after)
    <3>1. SUFFICES ASSUME world.mishaps = 0 PROVE ~again_ /\ toldNow = Filled(after)
      OBVIOUS
    <3>2. ~world.repeated /\ world.told = Shown(db)
      BY <3>1 DEF AlertsInv
    <3>3. ~again_
      BY <2>3, <3>2 DEF Shown, Filled
    <3>4. toldNow = Filled(after)
      BY <2>4, <3>2 DEF Shown, Filled
    <3> QED BY <3>3, <3>4
  <2> HIDE DEF toldNow, again_, early
  <2>9. /\ w \in AlertWorlds /\ w.asked = world.asked /\ w.mishaps = world.mishaps
        /\ w.told = toldNow /\ w.repeated = again_ /\ w.liftedInForce = early
    BY <2>1, <2>2, <2>6 DEF AlertWorlds
  <2> QED BY <1>2, <2>7, <2>8, <2>9 DEF w
<1> QED BY <1>1, <1>2

\* The worlds a handler of the tick may leave.
LEMMA TickEnds ==
  ASSUME NEW w \in AlertWorlds
  PROVE  LET taken == TakenOff(w, Orders!Tick)
             cut == CutShort(taken)
         IN /\ taken \in AlertWorlds /\ taken.asked = w.asked /\ taken.mishaps = w.mishaps
            /\ taken.told = w.told /\ taken.repeated = w.repeated
            /\ taken.liftedInForce = w.liftedInForce
            /\ cut \in AlertWorlds /\ cut.asked = w.asked /\ cut.mishaps = w.mishaps + 1
            /\ cut.liftedInForce = w.liftedInForce
<1> DEFINE taken == TakenOff(w, Orders!Tick)
           cut == CutShort(taken)
<1>1. /\ taken \in AlertWorlds /\ taken.asked = w.asked /\ taken.mishaps = w.mishaps
      /\ taken.told = w.told /\ taken.repeated = w.repeated
      /\ taken.liftedInForce = w.liftedInForce
  BY DEF AlertWorlds, TakenOff
<1> HIDE DEF taken
<1>2. cut \in AlertWorlds /\ cut.asked = taken.asked /\ cut.mishaps = taken.mishaps + 1
      /\ cut.liftedInForce = taken.liftedInForce
  BY <1>1 DEF AlertWorlds, CutShort
<1> QED BY <1>1, <1>2 DEF taken

LEMMA TickStep ==
  ASSUME AlertsInv, NEW dark \in SUBSET Cells, NEW shown, Orders!TickNow(dark, shown)
  PROVE  AlertsInv'
<1>1. PICK after \in Orders!Posted(Orders!Seen(dark, shown), dark) :
        Orders!PerformTimer(Orders!Tick, Orders!Steps(after), TickWorld(dark, shown, after))
  BY DEF Orders!TickNow, TickWorld
<1> DEFINE w == TickWorld(dark, shown, after)
           taken == TakenOff(w, Orders!Tick)
           cut == CutShort(taken)
           booked == [db EXCEPT !.jobs[Orders!Tick] = "set"]
           posting == [booked EXCEPT !.posted = after]
           n == IF world.quiet THEN 1 ELSE 3
           states == Orders!Steps(after)
<1>2. /\ w \in AlertWorlds /\ w.asked = world.asked /\ w.mishaps = world.mishaps
      /\ ~w.liftedInForce
      /\ world.mishaps = 0 =>
           /\ ~w.repeated
           /\ w.told = IF world.quiet THEN Shown(db) ELSE Filled(after)
  <2> HIDE DEF w
  <2> QED BY TickTells DEF w
<1>3. /\ Len(states) = n /\ \A i \in 1..n : states[i] \in {booked, posting}
      /\ states[n] = IF world.quiet THEN booked ELSE posting
  BY TickStates
<1>4. SeenThere(db) /\ (world.asked => db.jobs[Orders!Tick] # "none")
  BY DEF AlertsInv
<1>5. SeenThere(booked) /\ booked.jobs[Orders!Tick] = "set" /\ booked.posted = db.posted
  BY <1>4, TickChanges DEF Job
<1>6. SeenThere(posting) /\ posting.jobs[Orders!Tick] = "set" /\ posting.posted = after
  <2>1. after \in [Warnings -> SUBSET Cells] /\ \A x \in Warnings : after[x] \subseteq Area[x]
    BY LookupFacts
  <2>2. booked \in AlertRows
    BY <1>5 DEF SeenThere
  <2> HIDE DEF booked
  <2>3. posting \in AlertRows /\ posting.jobs = booked.jobs /\ posting.posted = after
    BY <2>1, <2>2 DEF AlertRows
  <2> QED BY <1>5, <2>1, <2>3 DEF SeenThere
<1>7. n \in Nat \ {0} /\ Orders!PerformTimer(Orders!Tick, states, w)
  BY <1>1
<1> HIDE DEF w, n, states, booked, posting
<1>8. \/ /\ \E i \in 0..n : db' = Settled(IF i = 0 THEN db ELSE states[i], Orders!Tick, "set")
         /\ world' = cut
      \/ db' = Settled(states[n], Orders!Tick, "none") /\ world' = taken
  BY <1>3, <1>7, TimerOutcome
<1>9. /\ taken \in AlertWorlds /\ taken.asked = w.asked /\ taken.mishaps = w.mishaps
      /\ taken.told = w.told /\ taken.repeated = w.repeated
      /\ taken.liftedInForce = w.liftedInForce
      /\ cut \in AlertWorlds /\ cut.asked = w.asked /\ cut.mishaps = w.mishaps + 1
      /\ cut.liftedInForce = w.liftedInForce
  BY <1>2, TickEnds
<1>10. CASE /\ world' = cut
            /\ \E i \in 0..n : db' = Settled(IF i = 0 THEN db ELSE states[i], Orders!Tick, "set")
  <2>1. PICK d \in {db, booked, posting} : db' = Settled(d, Orders!Tick, "set")
    <3>1. PICK i \in 0..n : db' = Settled(IF i = 0 THEN db ELSE states[i], Orders!Tick, "set")
      BY <1>10
    <3>2. (IF i = 0 THEN db ELSE states[i]) \in {db, booked, posting}
      BY <1>3, <1>7
    <3> QED BY <3>1, <3>2
  <2>2. SeenThere(d) /\ (world.asked => d.jobs[Orders!Tick] # "none")
    BY <1>4, <1>5, <1>6
  <2>3. SeenThere(db') /\ (world.asked => db'.jobs[Orders!Tick] # "none")
    BY <2>1, <2>2, TickSettles DEF Job
  <2>4. w.mishaps \in Nat
    BY <1>2 DEF AlertWorlds
  <2> HIDE DEF taken, cut
  <2> QED BY <1>2, <1>9, <1>10, <2>3, <2>4 DEF AlertsInv
<1>11. CASE db' = Settled(states[n], Orders!Tick, "none") /\ world' = taken
  <2>1. SeenThere(states[n]) /\ states[n].jobs[Orders!Tick] = "set"
    BY <1>3, <1>5, <1>6
  <2>2. /\ SeenThere(db') /\ db'.jobs[Orders!Tick] = "set"
        /\ db'.posted = IF world.quiet THEN db.posted ELSE after
    BY <1>3, <1>5, <1>6, <1>11, <2>1, TickSettles DEF Job
  <2>3. Shown(db') = IF world.quiet THEN Shown(db) ELSE Filled(after)
    BY <2>2 DEF Shown
  <2> HIDE DEF taken, cut
  <2>4. Shown(db)' = Shown(db')
    BY DEF Shown, Filled
  <2> QED BY <1>2, <1>9, <1>11, <2>2, <2>3, <2>4 DEF AlertsInv
<1> QED BY <1>8, <1>10, <1>11

LEMMA SwitchStep ==
  ASSUME AlertsInv, Orders!TurnOn \/ Orders!TurnOff
  PROVE  AlertsInv'
<1>1. SeenThere(db) /\ world \in AlertWorlds /\ ~world.liftedInForce
  BY DEF AlertsInv
<1>2. CASE Orders!TurnOn
  <2>1. /\ db' = [db EXCEPT !.jobs[Orders!Tick] = "set"]
        /\ world' = [world EXCEPT !.asked = TRUE, !.turns = @ + 1]
    BY <1>2 DEF Orders!TurnOn, Orders!SetTimer
  <2>2. SeenThere(db') /\ db'.jobs[Orders!Tick] = "set" /\ db'.posted = db.posted
    BY <1>1, <2>1, TickChanges DEF Job
  <2>3. /\ world' \in AlertWorlds /\ world'.told = world.told /\ world'.repeated = world.repeated
        /\ world'.liftedInForce = world.liftedInForce /\ world'.mishaps = world.mishaps
    <3> DEFINE on == [world EXCEPT !.asked = TRUE]
    <3>1. /\ on \in AlertWorlds /\ on.told = world.told /\ on.repeated = world.repeated
          /\ on.liftedInForce = world.liftedInForce /\ on.mishaps = world.mishaps
      BY <1>1 DEF AlertWorlds
    <3>2. world' = [on EXCEPT !.turns = world.turns + 1] /\ world.turns + 1 \in Nat
      BY <1>1, <2>1 DEF AlertWorlds
    <3> HIDE DEF on
    <3> QED BY <3>1, <3>2 DEF AlertWorlds
  <2> QED BY <2>2, <2>3 DEF AlertsInv, Shown
<1>3. CASE Orders!TurnOff
  <2> DEFINE off == Orders!CancelTimer(db, Orders!Tick)
             none == [w \in Warnings |-> {}]
             bare == [off EXCEPT !.posted = none]
             w == [world EXCEPT !.asked = FALSE, !.told = {}, !.turns = @ + 1]
  <2>1. Orders!Perform(<<off, bare>>, w)
    BY <1>3 DEF Orders!TurnOff
  <2>2. SeenThere(off)
    BY <1>1, TickChanges DEF Job, Orders!CancelTimer
  <2>3. /\ w \in AlertWorlds /\ ~w.asked /\ w.told = {} /\ w.repeated = world.repeated
        /\ w.liftedInForce = world.liftedInForce /\ w.mishaps = world.mishaps
    <3> DEFINE one == [world EXCEPT !.asked = FALSE]
               two == [one EXCEPT !.told = {}]
    <3>1. /\ one \in AlertWorlds /\ ~one.asked /\ one.repeated = world.repeated
          /\ one.liftedInForce = world.liftedInForce /\ one.mishaps = world.mishaps
      BY <1>1 DEF AlertWorlds
    <3>2. w = [two EXCEPT !.turns = world.turns + 1] /\ world.turns + 1 \in Nat
      BY <1>1 DEF AlertWorlds
    <3> HIDE DEF one, w
    <3>3. /\ two \in AlertWorlds /\ ~two.asked /\ two.told = {} /\ two.repeated = one.repeated
          /\ two.liftedInForce = one.liftedInForce /\ two.mishaps = one.mishaps
      BY <3>1 DEF AlertWorlds
    <3> HIDE DEF two
    <3> QED BY <3>1, <3>2, <3>3 DEF AlertWorlds
  <2> HIDE DEF off, w
  <2>4. SeenThere(bare) /\ Shown(bare) = {}
    <3>1. none \in [Warnings -> SUBSET Cells] /\ \A x \in Warnings : none[x] = {}
      OBVIOUS
    <3> HIDE DEF none
    <3>2. bare \in AlertRows /\ bare.posted = none
      BY <2>2, <3>1 DEF SeenThere, AlertRows
    <3> QED BY <3>1, <3>2 DEF SeenThere, Shown, Filled
  <2>5. /\ CutShort(w) \in AlertWorlds /\ ~CutShort(w).asked /\ CutShort(w).mishaps = w.mishaps + 1
        /\ CutShort(w).liftedInForce = w.liftedInForce /\ w.mishaps \in Nat
    BY <2>3 DEF AlertWorlds, CutShort
  <2> HIDE DEF bare
  <2>6. \/ db' \in {db, off} /\ world' = CutShort(w)
        \/ db' = bare /\ world' = w
    BY <2>1, TwoWrites
  <2>7. CASE db' \in {db, off} /\ world' = CutShort(w)
    <3>1. SeenThere(db') /\ world'.mishaps # 0
      BY <1>1, <2>2, <2>5, <2>7
    <3> QED BY <1>1, <2>3, <2>5, <2>7, <3>1 DEF AlertsInv
  <2>8. CASE db' = bare /\ world' = w
    <3>1. Shown(db)' = {}
      BY <2>4, <2>8 DEF Shown
    <3> QED BY <1>1, <2>3, <2>4, <2>8, <3>1 DEF AlertsInv
  <2> QED BY <2>6, <2>7, <2>8
<1> QED BY <1>2, <1>3

\* Whatever the weather, members and settings do touches neither timers nor what was told.
LEMMA TurnStep ==
  ASSUME AlertsInv, NEW w \in AlertWorlds, Orders!Turn(w),
         w.asked = world.asked, w.told = world.told, w.repeated = world.repeated,
         w.liftedInForce = world.liftedInForce, w.mishaps = world.mishaps
  PROVE  AlertsInv'
<1>1. world' = [w EXCEPT !.turns = @ + 1] /\ UNCHANGED db
  BY DEF Orders!Turn
<1>2. /\ world' \in AlertWorlds /\ world'.asked = w.asked /\ world'.told = w.told
      /\ world'.repeated = w.repeated /\ world'.liftedInForce = w.liftedInForce
      /\ world'.mishaps = w.mishaps
  BY <1>1 DEF AlertWorlds
<1> QED BY <1>1, <1>2 DEF AlertsInv, Shown, SeenThere

LEMMA AlertsStep ==
  ASSUME AlertsInv, Orders!AlertsNext
  PROVE  AlertsInv'
<1>1. SeenThere(db) /\ world \in AlertWorlds
  BY DEF AlertsInv
<1>2. ASSUME Orders!Send(Orders!Tick)
      PROVE  AlertsInv'
  <2>1. /\ db' = [db EXCEPT !.jobs[Orders!Tick] = "sent"]
        /\ world' = [world EXCEPT !.queue = @ \cup {Orders!Tick}]
    BY <1>2 DEF Orders!Send
  <2>2. SeenThere(db') /\ db'.jobs[Orders!Tick] = "sent" /\ db'.posted = db.posted
    BY <1>1, <2>1, TickChanges DEF Job
  <2>3. /\ world' \in AlertWorlds /\ world'.asked = world.asked /\ world'.told = world.told
        /\ world'.repeated = world.repeated /\ world'.liftedInForce = world.liftedInForce
        /\ world'.mishaps = world.mishaps
    BY <1>1, <2>1 DEF AlertWorlds
  <2> QED BY <2>2, <2>3 DEF AlertsInv, Shown
<1>3. ASSUME NEW x \in Warnings, Orders!Turn([world EXCEPT !.inForce = @ \cup {x}])
      PROVE  AlertsInv'
  <2> DEFINE w == [world EXCEPT !.inForce = @ \cup {x}]
  <2>1. /\ w \in AlertWorlds /\ w.asked = world.asked /\ w.told = world.told
        /\ w.repeated = world.repeated /\ w.liftedInForce = world.liftedInForce
        /\ w.mishaps = world.mishaps
    BY <1>1 DEF AlertWorlds
  <2> HIDE DEF w
  <2> QED BY <1>3, <2>1, TurnStep DEF w
<1>4. ASSUME NEW x \in Warnings,
             Orders!Turn([world EXCEPT !.inForce = @ \ {x}, !.old = @ \cup {x}])
      PROVE  AlertsInv'
  <2> DEFINE w == [world EXCEPT !.inForce = @ \ {x}, !.old = @ \cup {x}]
  <2>1. /\ w \in AlertWorlds /\ w.asked = world.asked /\ w.told = world.told
        /\ w.repeated = world.repeated /\ w.liftedInForce = world.liftedInForce
        /\ w.mishaps = world.mishaps
    BY <1>1 DEF AlertWorlds
  <2> QED BY <1>4, <2>1, TurnStep
<1>5. ASSUME NEW cells \in SUBSET Cells, Orders!Turn([world EXCEPT !.watched = cells])
      PROVE  AlertsInv'
  <2> DEFINE w == [world EXCEPT !.watched = cells]
  <2>1. /\ w \in AlertWorlds /\ w.asked = world.asked /\ w.told = world.told
        /\ w.repeated = world.repeated /\ w.liftedInForce = world.liftedInForce
        /\ w.mishaps = world.mishaps
    BY <1>1 DEF AlertWorlds
  <2> QED BY <1>5, <2>1, TurnStep
<1>6. ASSUME Orders!Turn([world EXCEPT !.strict = ~@]) \/ Orders!Turn([world EXCEPT !.quiet = ~@])
      PROVE  AlertsInv'
  <2>1. PICK w \in {[world EXCEPT !.strict = ~@], [world EXCEPT !.quiet = ~@]} : Orders!Turn(w)
    BY <1>6
  <2>2. /\ w \in AlertWorlds /\ w.asked = world.asked /\ w.told = world.told
        /\ w.repeated = world.repeated /\ w.liftedInForce = world.liftedInForce
        /\ w.mishaps = world.mishaps
    BY <1>1, <2>1 DEF AlertWorlds
  <2> QED BY <2>1, <2>2, TurnStep
<1>7. \/ \E dark \in SUBSET Cells : \E shown : Orders!TickNow(dark, shown)
      \/ Orders!Send(Orders!Tick) \/ Orders!TurnOn \/ Orders!TurnOff
      \/ \E x \in Warnings : \/ Orders!Turn([world EXCEPT !.inForce = @ \cup {x}])
                             \/ Orders!Turn([world EXCEPT !.inForce = @ \ {x}, !.old = @ \cup {x}])
      \/ \E cells \in SUBSET Cells : Orders!Turn([world EXCEPT !.watched = cells])
      \/ Orders!Turn([world EXCEPT !.strict = ~@]) \/ Orders!Turn([world EXCEPT !.quiet = ~@])
  BY DEF Orders!AlertsNext
<1> QED BY <1>2, <1>3, <1>4, <1>5, <1>6, <1>7, TickStep, SwitchStep

LEMMA AlertsFollow == AlertsInv => Orders!AlertsAreTrue
  BY DEF AlertsInv, Orders!AlertsAreTrue, Orders!IsDriven, Orders!IsPending

-----------------------------------------------------------------------------
OrdersInv == (active = "bans" => BansInv) /\ (active = "alerts" => AlertsInv)

LEMMA OrdersStep ==
  ASSUME OrdersInv, [TimersNext]_<<active, guest, vars, memoVars>>
  PROVE  OrdersInv'
<1>1. CASE active = "bans" /\ Orders!BansNext /\ UNCHANGED active
  BY <1>1, BansStep DEF OrdersInv
<1>2. CASE active = "alerts" /\ Orders!AlertsNext /\ UNCHANGED active
  BY <1>2, AlertsStep DEF OrdersInv
<1>3. CASE active \notin {"bans", "alerts"} /\ UNCHANGED active
  BY <1>3 DEF OrdersInv
<1>4. CASE UNCHANGED <<active, guest>>
  BY <1>4 DEF OrdersInv, BansInv, AlertsInv, guest, SeenThere, Booked, Shown
<1> QED BY <1>1, <1>2, <1>3, <1>4 DEF TimersNext

\* However timers are late, stale or sent again and handlers cut short: a ban in force has
\* its timer unless a line that was to lift it was dropped, alerts that were asked for stay
\* booked, and no warning is told twice or lifted while it is in force (operator and
\* weather/src/broadcast.rs).
THEOREM OrdersAreBooked == TimersSpec => []PromisesAreBooked
<1>1. TimersInit => OrdersInv
  BY BansStart, AlertsStart DEF TimersInit, OrdersInv
<1>2. OrdersInv /\ [TimersNext]_<<active, guest, vars, memoVars>> => OrdersInv'
  BY OrdersStep
<1>3. OrdersInv => PromisesAreBooked
  BY BansFollow, AlertsFollow DEF OrdersInv, PromisesAreBooked
<1> QED BY <1>1, <1>2, <1>3, PTL DEF TimersSpec
=============================================================================
