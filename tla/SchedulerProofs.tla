--------------------------- MODULE SchedulerProofs ---------------------------
(***************************************************************************)
(* Proofs about Scheduler, and about Registry, Console and Backups as they *)
(* run beside it in MCConsole, for every value of their constants.         *)
(***************************************************************************)
EXTENDS MCConsole, SequenceTheorems, FiniteSetTheorems, WellFoundedInduction, TLAPS

\* Saturating addition stays on the clock.
LEMMA LaterType == \A t \in Times : Later(t) \in Times
  BY ConstantsAssumption DEF Later, Times

\* The types of the request records.
LEMMA RequestTypes ==
  /\ \A k \in Keys, d \in SetData : [op |-> "set", key |-> k, data |-> d] \in Request
  /\ \A k \in Keys : [op |-> "cancel", key |-> k] \in Request
  /\ \A d \in Delivery, b \in BOOLEAN :
       [op |-> "complete", attempt |-> d, ok |-> b] \in Request
  /\ \A r \in Request :
       /\ r.op = "set" => r.key \in Keys /\ r.data \in SetData
       /\ r.op = "cancel" => r.key \in Keys
       /\ r.op = "complete" => r.attempt \in Delivery /\ r.ok \in BOOLEAN
  BY DEF Request, SetRequest, CancelRequest, CompleteRequest

\* What a received request leaves of the inbox, and the type of what it takes.
LEMMA ReceiveType ==
  ASSUME TypeOK, NEW op, Receive(op)
  PROVE  /\ inbox' \in Seq(Request) /\ phase' = "loop"
         /\ Head(inbox) \in Request /\ Head(inbox).op = op
         /\ op = "set" => Head(inbox).key \in Keys /\ Head(inbox).data \in SetData
         /\ op = "cancel" => Head(inbox).key \in Keys
         /\ op = "complete" => /\ Head(inbox).attempt \in Delivery
                               /\ Head(inbox).ok \in BOOLEAN
         /\ UNCHANGED <<now, batch, loopNow, sent>>
<1>1. inbox # <<>> /\ inbox \in Seq(Request)
  BY DEF Receive, TypeOK
<1>2. Head(inbox) \in Request /\ Tail(inbox) \in Seq(Request)
  BY <1>1
<1> QED BY <1>1, <1>2, RequestTypes DEF Receive

LEMMA FaultType == ASSUME TypeOK, Fault PROVE faults' \in 0..MaxFaults
  BY ConstantsAssumption DEF TypeOK, Fault

\* Attempts are sent for stored jobs, so the state is well typed once the batch
\* of the delivery pass holds only keys with a job.
LEMMA TypeStep == TypeOK /\ BatchIsDue /\ [Next]_vars => TypeOK'
<1> SUFFICES ASSUME TypeOK, BatchIsDue, [Next]_vars PROVE TypeOK'
  OBVIOUS
<1> USE ConstantsAssumption
<1>1. ASSUME BeginFinish PROVE TypeOK'
  BY <1>1 DEF BeginFinish, TypeOK, memory, history
<1>2. ASSUME NEW k \in Keys, FinishOne(k) PROVE TypeOK'
  <2>1. CASE Fault /\ retryAfter' = [retryAfter EXCEPT ![k] = Later(loopNow)]
                   /\ UNCHANGED <<rows, jobs, completed>>
    BY <1>2, <2>1, FaultType, LaterType DEF FinishOne, TypeOK, history
  <2>3. CASE /\ completed' = completed \ {k} /\ retryAfter' = [retryAfter EXCEPT ![k] = 0]
             /\ UNCHANGED <<rows, jobs, faults>>
    BY <1>2, <2>3 DEF FinishOne, TypeOK, history, Times
  <2>2. CASE /\ rows' = [rows EXCEPT ![k] = NoJob] /\ jobs' = [jobs EXCEPT ![k] = NoJob]
             /\ completed' = completed \ {k}
             /\ retryAfter' = [retryAfter EXCEPT ![k] = 0] /\ UNCHANGED faults
    BY <1>2, <2>2 DEF FinishOne, TypeOK, history, Times
  <2> QED BY <1>2, <2>1, <2>2, <2>3 DEF FinishOne
<1>3. ASSUME BeginDeliver PROVE TypeOK'
  BY <1>3 DEF BeginDeliver, Due, TypeOK, memory, history
<1>4. ASSUME NEW k \in Keys, SendOne(k) PROVE TypeOK'
  <2>1. jobs[k] \in Job /\ gen[k] \in Nat
    BY <1>4 DEF SendOne, QueueIsFull, BatchIsDue, TypeOK
  <2>2. [key |-> k, job |-> jobs[k], gen |-> gen[k]] \in Delivery
    BY <2>1 DEF Delivery
  <2>3. \A s \in Slots : [sent EXCEPT ![s] = [key |-> k, job |-> jobs[k], gen |-> gen[k]]]
                           \in [Slots -> Delivery \cup {NoJob}]
    BY <2>2 DEF TypeOK
  <2>4. Later(loopNow) \in Times
    BY LaterType DEF TypeOK
  <2> QED BY <1>4, <2>3, <2>4 DEF SendOne, QueueIsFull, TypeOK, history
<1>5. ASSUME EndDeliver PROVE TypeOK'
  BY <1>5 DEF EndDeliver, TypeOK, memory, history
<1>6. ASSUME HandleSet PROVE TypeOK'
  <2> DEFINE key  == Head(inbox).key
             data == Head(inbox).data
             job  == [owner |-> data.owner, due |-> data.due,
                      payload |-> data.payload, created |-> now]
  <2>1. /\ inbox' \in Seq(Request) /\ phase' = "loop"
        /\ key \in Keys /\ data \in SetData
        /\ UNCHANGED <<now, batch, loopNow, sent>>
    BY <1>6, ReceiveType DEF HandleSet
  <2>2. CASE UNCHANGED <<rows, memory, history>> /\ (Fault \/ UNCHANGED faults)
    BY <2>1, <2>2, FaultType DEF TypeOK, memory, history
  <2>3. CASE /\ Acceptable(key, data)
             /\ rows' = [rows EXCEPT ![key] = job] /\ jobs' = [jobs EXCEPT ![key] = job]
             /\ retryAfter' = [retryAfter EXCEPT ![key] = 0]
             /\ completed' = completed \ {key}
             /\ gen' = [gen EXCEPT ![key] = @ + 1] /\ succeeded' = succeeded \ {key}
             /\ UNCHANGED <<inFlight, restored, cancelled, faults>>
    <3>1. data.payload \in Payloads /\ data.owner \in Owners \cup {NoOwner} /\ data.due \in Times
      BY <2>1, <2>3 DEF SetData, Acceptable
    <3>2. job \in Job
      BY <3>1 DEF Job, TypeOK
    <3>3. 0 \in Times
      BY DEF Times
    <3> HIDE DEF job, key, data
    <3> QED BY <2>1, <2>3, <3>2, <3>3 DEF TypeOK
  <2> QED BY <1>6, <2>2, <2>3 DEF HandleSet
<1>7. ASSUME HandleCancel PROVE TypeOK'
  <2> DEFINE key == Head(inbox).key
  <2>1. /\ inbox' \in Seq(Request) /\ phase' = "loop" /\ key \in Keys
        /\ UNCHANGED <<now, batch, loopNow, sent>>
    BY <1>7, ReceiveType DEF HandleCancel
  <2>2. CASE Fault /\ UNCHANGED <<rows, memory, history>>
    BY <2>1, <2>2, FaultType DEF TypeOK, memory, history
  <2>3. CASE /\ rows' = [rows EXCEPT ![key] = NoJob] /\ jobs' = [jobs EXCEPT ![key] = NoJob]
             /\ retryAfter' = [retryAfter EXCEPT ![key] = 0]
             /\ inFlight' = inFlight \ {key} /\ completed' = completed \ {key}
             /\ cancelled' = cancelled \cup {key}
             /\ UNCHANGED <<gen, succeeded, restored, faults>>
    BY <2>1, <2>3 DEF TypeOK, Times
  <2> QED BY <1>7, <2>2, <2>3 DEF HandleCancel
<1>8. ASSUME HandleComplete PROVE TypeOK'
  <2> DEFINE attempt == Head(inbox).attempt
             key     == attempt.key
  <2>1. /\ inbox' \in Seq(Request) /\ phase' = "loop" /\ attempt \in Delivery
        /\ UNCHANGED <<now, batch, loopNow, sent>>
    BY <1>8, ReceiveType DEF HandleComplete
  <2>2. key \in Keys
    BY <2>1 DEF Delivery
  <2> HIDE DEF key, attempt
  <2>3. /\ inFlight' = inFlight \ {key}
        /\ succeeded' \in {succeeded, succeeded \cup {key}}
        /\ rows' \in {rows, [rows EXCEPT ![key] = NoJob]}
        /\ jobs' \in {jobs, [jobs EXCEPT ![key] = NoJob]}
        /\ completed' \in {completed, completed \cup {key}}
        /\ retryAfter' \in {retryAfter, [retryAfter EXCEPT ![key] = 0],
                            [retryAfter EXCEPT ![key] = Later(now)]}
        /\ UNCHANGED <<gen, restored, cancelled>>
        /\ Fault \/ UNCHANGED faults
    BY <1>8 DEF HandleComplete, ClearInFlight, attempt, key
  <2>4. Later(now) \in Times /\ 0 \in Times
    BY LaterType DEF TypeOK, Times
  <2>5. faults' \in 0..MaxFaults
    BY <2>3, FaultType DEF TypeOK
  <2>6. /\ rows' \in [Keys -> Job \cup {NoJob}] /\ jobs' \in [Keys -> Job \cup {NoJob}]
        /\ inFlight' \in SUBSET Keys /\ completed' \in SUBSET Keys
        /\ succeeded' \in SUBSET Keys
    BY <2>2, <2>3 DEF TypeOK
  <2>7. retryAfter' \in [Keys -> Times]
    BY <2>2, <2>3, <2>4 DEF TypeOK
  <2> QED BY <2>1, <2>3, <2>5, <2>6, <2>7 DEF TypeOK
<1>9. ASSUME ReceiveTimeout PROVE TypeOK'
  BY <1>9 DEF ReceiveTimeout, TypeOK, memory, history
<1>10. ASSUME NEW k \in Keys, NEW d \in SetData, RequestSet(k, d) PROVE TypeOK'
  BY <1>10, RequestTypes DEF RequestSet, TypeOK, memory, thread, history
<1>11. ASSUME NEW k \in Keys, RequestCancel(k) PROVE TypeOK'
  BY <1>11, RequestTypes DEF RequestCancel, TypeOK, memory, thread, history
<1>12. ASSUME NEW s \in Slots, NEW ok \in BOOLEAN, Complete(s, ok) PROVE TypeOK'
  BY <1>12, RequestTypes DEF Complete, TypeOK, memory, thread, history
<1>13. ASSUME NEW o \in Owners, EraseOwner(o) PROVE TypeOK'
  BY <1>13 DEF EraseOwner, TypeOK, memory, thread, history
<1>14. ASSUME Restart PROVE TypeOK'
  BY <1>14, FaultType DEF Restart, TypeOK, Times
<1>15. ASSUME Tick PROVE TypeOK'
  BY <1>15 DEF Tick, TypeOK, Times, memory, thread, history
<1>16. CASE UNCHANGED vars
  BY <1>16 DEF vars, TypeOK, memory, thread, history
<1> QED
  BY <1>1, <1>2, <1>3, <1>4, <1>5, <1>6, <1>7, <1>8, <1>9, <1>10, <1>11, <1>12,
     <1>13, <1>14, <1>15, <1>16 DEF Next, Thread, Environment

\* The keys a delivery pass still has to send keep their due jobs: only the
\* thread changes the job map, and it handles no request during a pass.
LEMMA BatchStep == TypeOK /\ BatchIsDue /\ [Next]_vars => BatchIsDue'
<1> SUFFICES ASSUME TypeOK, BatchIsDue, [Next]_vars PROVE BatchIsDue'
  OBVIOUS
<1> USE DEF BatchIsDue
<1>1. CASE phase' # "deliver"
  BY <1>1
<1>2. CASE phase # "deliver" /\ phase' = "deliver"
  <2>1. BeginDeliver
    BY <1>2 DEF Next, Thread, Environment, BeginFinish, FinishOne, SendOne, QueueIsFull, EndDeliver,
       HandleSet, HandleCancel, HandleComplete, Receive, ReceiveTimeout, RequestSet,
       RequestCancel, Complete, EraseOwner, Restart, Tick, vars, thread
  <2> QED BY <2>1 DEF BeginDeliver, Due, memory
<1>3. CASE phase = "deliver" /\ phase' = "deliver"
  <2>1. UNCHANGED jobs /\ batch' \subseteq batch /\ now' \in {now, now + 1}
    <3>1. CASE Thread
      BY <1>3, <3>1 DEF Thread, BeginFinish, FinishOne, BeginDeliver, SendOne, QueueIsFull, EndDeliver,
         HandleSet, HandleCancel, HandleComplete, Receive, ReceiveTimeout
    <3>2. CASE Environment
      BY <1>3, <3>2 DEF Environment, RequestSet, RequestCancel, Complete, EraseOwner,
         Restart, Tick, thread, memory
    <3>3. CASE UNCHANGED vars
      BY <3>3 DEF vars, thread, memory
    <3> QED BY <3>1, <3>2, <3>3 DEF Next
  <2>2. \A k \in batch : jobs[k] # NoJob => jobs[k].due \in Times
    BY DEF TypeOK, Job
  <2>3. \A k \in batch' : k \in batch /\ jobs[k] # NoJob /\ jobs[k].due <= now
    BY <1>3, <2>1
  <2>4. now \in Nat /\ \A k \in batch : jobs[k] # NoJob => jobs[k].due \in Nat
    BY <2>2 DEF TypeOK, Times
  <2> QED BY <2>1, <2>3, <2>4
<1> QED BY <1>1, <1>2, <1>3

\* Attempts in transit: receiving, asking, answering and restarting create none.
LEMMA InboxAppend ==
  ASSUME TypeOK, NEW r \in Request, inbox' = Append(inbox, r),
         r.op = "complete" => r.attempt \in Outstanding,
         \A s \in Slots : sent'[s] \in {sent[s], NoJob}
  PROVE  Outstanding' \subseteq Outstanding
<1>1. /\ DOMAIN inbox = 1..Len(inbox) /\ Len(inbox) \in Nat
      /\ DOMAIN inbox' = 1..(Len(inbox) + 1)
      /\ \A i \in 1..Len(inbox) : inbox'[i] = inbox[i]
      /\ inbox'[Len(inbox) + 1] = r
  <2>1. inbox \in Seq(Request) /\ inbox' \in Seq(Request)
    BY DEF TypeOK
  <2> QED BY <2>1, AppendProperties, LenProperties
<1>2. \A i \in DOMAIN inbox' : inbox'[i].op = "complete" => inbox'[i].attempt \in Outstanding
  <2> SUFFICES ASSUME NEW i \in DOMAIN inbox', inbox'[i].op = "complete"
               PROVE  inbox'[i].attempt \in Outstanding
    OBVIOUS
  <2>1. CASE i \in 1..Len(inbox)
    BY <1>1, <2>1 DEF Outstanding
  <2>2. CASE i = Len(inbox) + 1
    BY <1>1, <2>2
  <2> QED BY <1>1, <2>1, <2>2
<1>3. \A s \in Held' : sent'[s] \in Outstanding
  BY DEF Held, Outstanding
<1> QED BY <1>2, <1>3 DEF Outstanding

LEMMA InboxReceive ==
  ASSUME TypeOK, NEW op, Receive(op)
  PROVE  /\ Outstanding' \subseteq Outstanding
         /\ op = "complete" => Head(inbox).attempt \in Outstanding
<1>1. inbox # <<>> /\ inbox \in Seq(Request) /\ inbox' = Tail(inbox) /\ Head(inbox).op = op
      /\ sent' = sent
  BY DEF Receive, TypeOK
<1>2. /\ DOMAIN inbox = 1..Len(inbox) /\ Len(inbox) \in Nat \ {0} /\ Head(inbox) = inbox[1]
      /\ DOMAIN inbox' = 1..(Len(inbox) - 1)
      /\ \A i \in 1..(Len(inbox) - 1) : inbox'[i] = inbox[i + 1]
  BY <1>1, HeadTailProperties, LenProperties, EmptySeq
<1>3. \A i \in DOMAIN inbox' : inbox'[i].op = "complete" => inbox'[i].attempt \in Outstanding
  <2> SUFFICES ASSUME NEW i \in DOMAIN inbox', inbox'[i].op = "complete"
               PROVE  inbox'[i].attempt \in Outstanding
    OBVIOUS
  <2>1. i + 1 \in DOMAIN inbox /\ inbox'[i] = inbox[i + 1]
    BY <1>2
  <2> QED BY <2>1 DEF Outstanding
<1>4. \A s \in Held' : sent'[s] \in Outstanding
  BY <1>1 DEF Held, Outstanding
<1>5. op = "complete" => Head(inbox).attempt \in Outstanding
  <2>1. 1 \in DOMAIN inbox
    BY <1>2
  <2> QED BY <1>1, <1>2, <2>1 DEF Outstanding
<1> QED BY <1>3, <1>4, <1>5 DEF Outstanding

LEMMA OutstandingTypes == TypeOK => Outstanding \subseteq Delivery
<1> SUFFICES ASSUME TypeOK, NEW d \in Outstanding PROVE d \in Delivery
  OBVIOUS
<1>1. CASE \E s \in Held : d = sent[s]
  BY <1>1 DEF Held, TypeOK
<1>2. CASE \E i \in DOMAIN inbox : inbox[i].op = "complete" /\ d = inbox[i].attempt
  <2>1. PICK i \in DOMAIN inbox : inbox[i].op = "complete" /\ d = inbox[i].attempt
    BY <1>2
  <2>2. inbox[i] \in Request
    BY LenProperties DEF TypeOK
  <2> QED BY <2>1, <2>2, RequestTypes
<1> QED BY <1>1, <1>2 DEF Outstanding

\* Attempts are never younger than what replaced their job.
LEMMA AttemptsStep ==
  TypeOK /\ BatchIsDue /\ AttemptsAreOlder /\ [Next]_vars => AttemptsAreOlder'
<1> SUFFICES ASSUME TypeOK, BatchIsDue, AttemptsAreOlder, [Next]_vars,
                    NEW d \in Outstanding'
             PROVE  /\ d.job.due <= now'
                    /\ d.gen <= gen'[d.key]
                    /\ d.gen # gen'[d.key] /\ jobs'[d.key] # NoJob
                         => d.job.due < jobs'[d.key].due
  BY DEF AttemptsAreOlder
<1> DEFINE Older == /\ d.job.due <= now'
                    /\ d.gen <= gen'[d.key]
                    /\ d.gen # gen'[d.key] /\ jobs'[d.key] # NoJob
                         => d.job.due < jobs'[d.key].due
\* A step that creates no attempt, accepts no job and never sets the clock back.
<1>1. ASSUME d \in Outstanding, UNCHANGED gen, now' \in {now, now + 1},
             \A k \in Keys : jobs'[k] \in {jobs[k], NoJob}
      PROVE  Older
  <2>1. d \in Delivery
    BY <1>1, OutstandingTypes
  <2>2. d.key \in Keys /\ d.job.due \in Nat /\ now \in Nat
    BY <2>1 DEF Delivery, Job, Times, TypeOK
  <2> QED BY <1>1, <2>2 DEF AttemptsAreOlder
<1>2. ASSUME NEW k \in Keys, SendOne(k) PROVE Older
  <2>1. UNCHANGED <<jobs, gen, now, inbox>>
    BY <1>2 DEF SendOne, QueueIsFull, history
  <2>2. CASE d \in Outstanding
    BY <1>1, <2>1, <2>2
  <2>3. CASE d \notin Outstanding
    <3>1. PICK s \in Slots : d = sent'[s] /\ sent'[s] # NoJob /\ sent'[s] # sent[s]
      BY <2>1, <2>3 DEF Outstanding, Held
    <3>2. d = [key |-> k, job |-> jobs[k], gen |-> gen[k]]
      BY <1>2, <3>1 DEF SendOne, QueueIsFull, TypeOK
    <3>3. jobs[k] # NoJob /\ jobs[k].due <= now /\ gen[k] \in Nat
      BY <1>2 DEF SendOne, QueueIsFull, BatchIsDue, TypeOK
    <3> QED BY <2>1, <3>2, <3>3
  <2> QED BY <2>2, <2>3
<1>3. ASSUME HandleSet PROVE Older
  <2>1. d \in Outstanding
    BY <1>3, InboxReceive DEF HandleSet
  <2>2. now' = now
    BY <1>3 DEF HandleSet, Receive
  <2>3. CASE UNCHANGED <<jobs, gen>>
    BY <1>1, <2>1, <2>2, <2>3
  <2>4. CASE ~UNCHANGED <<jobs, gen>>
    <3> DEFINE key  == Head(inbox).key
               data == Head(inbox).data
    <3>1. /\ key \in Keys /\ data \in SetData
      BY <1>3, ReceiveType DEF HandleSet
    <3>2. /\ data.due > now
          /\ jobs' = [jobs EXCEPT ![key] = [owner |-> data.owner, due |-> data.due,
                                            payload |-> data.payload, created |-> now]]
          /\ gen' = [gen EXCEPT ![key] = @ + 1]
      BY <1>3, <2>4 DEF HandleSet, Acceptable, memory, history
    <3>3. d \in Delivery
      BY <2>1, OutstandingTypes
    <3>4. /\ d.key \in Keys /\ d.gen \in Nat /\ d.job.due \in Nat /\ now \in Nat
          /\ gen[d.key] \in Nat /\ data.due \in Nat
      BY <3>1, <3>3 DEF Delivery, Job, Times, TypeOK, SetData
    <3>5. d.job.due <= now /\ d.gen <= gen[d.key]
      BY <2>1 DEF AttemptsAreOlder
    <3>6. CASE d.key = key
      <4>1. gen'[d.key] = gen[d.key] + 1 /\ jobs'[d.key].due = data.due
        BY <3>1, <3>2, <3>6 DEF TypeOK
      <4> HIDE DEF key, data
      <4> QED BY <2>2, <3>2, <3>4, <3>5, <4>1
    <3>7. CASE d.key # key
      <4>1. gen'[d.key] = gen[d.key] /\ jobs'[d.key] = jobs[d.key]
        BY <3>1, <3>2, <3>4, <3>7 DEF TypeOK
      <4> QED BY <2>1, <2>2, <4>1 DEF AttemptsAreOlder
    <3> QED BY <3>6, <3>7
  <2> QED BY <2>3, <2>4
<1>4. ASSUME HandleCancel PROVE Older
  <2>1. d \in Outstanding
    BY <1>4, InboxReceive DEF HandleCancel
  <2>2. UNCHANGED <<now, gen>> /\ \A k \in Keys : jobs'[k] \in {jobs[k], NoJob}
    BY <1>4 DEF HandleCancel, Receive, memory, history, TypeOK
  <2> QED BY <1>1, <2>1, <2>2
<1>5. ASSUME HandleComplete PROVE Older
  <2>1. d \in Outstanding
    BY <1>5, InboxReceive DEF HandleComplete
  <2>2. UNCHANGED <<now, gen>> /\ \A k \in Keys : jobs'[k] \in {jobs[k], NoJob}
    BY <1>5 DEF HandleComplete, Receive, TypeOK
  <2> QED BY <1>1, <2>1, <2>2
<1>6. ASSUME NEW r \in Request, inbox' = Append(inbox, r),
             r.op = "complete" => r.attempt \in Outstanding,
             \A s \in Slots : sent'[s] \in {sent[s], NoJob},
             UNCHANGED <<now, gen, jobs>>
      PROVE  Older
  BY <1>1, <1>6, InboxAppend
<1>7. ASSUME NEW k \in Keys, NEW data \in SetData, RequestSet(k, data) PROVE Older
  <2>1. [op |-> "set", key |-> k, data |-> data] \in Request
    BY RequestTypes
  <2> QED BY <1>6, <1>7, <2>1 DEF RequestSet, memory, history
<1>8. ASSUME NEW k \in Keys, RequestCancel(k) PROVE Older
  <2>1. [op |-> "cancel", key |-> k] \in Request
    BY RequestTypes
  <2> QED BY <1>6, <1>8, <2>1 DEF RequestCancel, memory, history
<1>9. ASSUME NEW s \in Slots, NEW ok \in BOOLEAN, Complete(s, ok) PROVE Older
  <2>1. sent[s] \in Delivery /\ sent[s] \in Outstanding
    BY <1>9 DEF Complete, Outstanding, Held, TypeOK
  <2>2. [op |-> "complete", attempt |-> sent[s], ok |-> ok] \in Request
    BY <2>1, RequestTypes
  <2>3. \A t \in Slots : sent'[t] \in {sent[t], NoJob}
    BY <1>9 DEF Complete, TypeOK
  <2> QED BY <1>6, <1>9, <2>1, <2>2, <2>3 DEF Complete, memory, history
<1>10. ASSUME Restart PROVE Older
  <2>1. Outstanding' = {}
    <3>1. inbox' = <<>> /\ \A s \in Slots : sent'[s] = NoJob
      BY <1>10 DEF Restart
    <3>2. DOMAIN inbox' = {}
      BY <3>1
    <3> QED BY <3>1, <3>2 DEF Outstanding, Held
  <2> QED BY <2>1
<1>11. ASSUME UNCHANGED <<inbox, sent, gen>>, now' \in {now, now + 1},
              \A k \in Keys : jobs'[k] \in {jobs[k], NoJob}
       PROVE  Older
  BY <1>1, <1>11 DEF Outstanding, Held
<1>12. CASE Thread
  <2>1. CASE \E k \in Keys : FinishOne(k)
    BY <1>11, <2>1 DEF FinishOne, history, TypeOK
  <2>2. CASE BeginFinish \/ BeginDeliver \/ EndDeliver \/ ReceiveTimeout
    BY <1>11, <2>2 DEF BeginFinish, BeginDeliver, EndDeliver, ReceiveTimeout, memory, history
  <2> QED BY <1>2, <1>3, <1>4, <1>5, <1>12, <2>1, <2>2 DEF Thread
<1>13. CASE Environment
  <2>1. CASE Tick \/ \E o \in Owners : EraseOwner(o)
    BY <1>11, <2>1 DEF Tick, EraseOwner, memory, history
  <2> QED BY <1>7, <1>8, <1>9, <1>10, <1>13, <2>1 DEF Environment
<1>14. CASE UNCHANGED vars
  BY <1>11, <1>14 DEF vars, memory, history
<1> QED BY <1>12, <1>13, <1>14 DEF Next

\* The inductive invariant of the scheduler.
IInv == TypeOK /\ BatchIsDue /\ AttemptsAreOlder

LEMMA InitInvariant == Init => IInv
<1> SUFFICES ASSUME Init PROVE IInv
  OBVIOUS
<1> USE ConstantsAssumption
<1>1. Outstanding = {}
  <2>1. inbox = <<>> /\ DOMAIN inbox = {} /\ \A s \in Slots : sent[s] = NoJob
    BY DEF Init
  <2> QED BY <2>1 DEF Outstanding, Held
<1>2. TypeOK
  BY DEF Init, TypeOK, Times
<1> QED BY <1>1, <1>2 DEF IInv, BatchIsDue, AttemptsAreOlder, Init

\* The scheduler's state stays well typed, and every step keeps the invariant.
THEOREM Invariance == Spec => []IInv
<1>1. Init => IInv
  BY InitInvariant
<1>2. IInv /\ [Next]_vars => IInv'
  BY TypeStep, BatchStep, AttemptsStep DEF IInv
<1> QED BY <1>1, <1>2, PTL DEF Spec

\* Type correctness of every reachable state.
THEOREM TypeCorrect == Spec => []TypeOK
<1>1. IInv => TypeOK
  BY DEF IInv
<1> QED BY <1>1, Invariance, PTL

LEMMA OlderAttemptsDiffer == IInv => StaleAttemptsDiffer
<1> SUFFICES ASSUME IInv, NEW d \in Outstanding, d.gen # gen[d.key], jobs[d.key] # NoJob
             PROVE  jobs[d.key] # d.job
  BY DEF StaleAttemptsDiffer
<1>1. d \in Delivery
  BY OutstandingTypes DEF IInv
<1>2. d.job.due \in Nat
  BY <1>1 DEF Delivery, Job, Times
<1>3. d.job.due < jobs[d.key].due
  BY DEF IInv, AttemptsAreOlder
<1> QED BY <1>2, <1>3

\* However a job is replaced, cancelled, retried or erased while attempts of it
\* are out, the comparison in handle_request never takes an old one for current.
THEOREM StaleAttemptsAreRecognised == Spec => []StaleAttemptsDiffer
  BY Invariance, OlderAttemptsDiffer, PTL

\* A completion removes a job only when it answers an attempt of that very job.
THEOREM CompletionsSpareNewerJobs == Spec => NewerJobSurvives
<1>1. ASSUME IInv, NEW k \in Keys, jobs[k] # NoJob, jobs'[k] = NoJob, HandleComplete
      PROVE  Head(inbox).attempt.gen = gen[k]
  <2> DEFINE attempt == Head(inbox).attempt
  <2>1. attempt \in Outstanding /\ attempt \in Delivery
    BY <1>1, InboxReceive, ReceiveType DEF HandleComplete, IInv
  <2>2. attempt.key = k /\ jobs[k] = attempt.job
    BY <1>1, <2>1 DEF HandleComplete, Current, IInv, TypeOK, Delivery
  <2> HIDE DEF attempt
  <2>3. attempt.gen = gen[k]
    BY <1>1, <2>1, <2>2, OlderAttemptsDiffer DEF StaleAttemptsDiffer
  <2> QED BY <2>3 DEF attempt
<1>2. IInv /\ [Next]_vars =>
        [\A k \in Keys : jobs[k] # NoJob /\ jobs'[k] = NoJob /\ HandleComplete
                           => Head(inbox).attempt.gen = gen[k]]_vars
  BY <1>1
<1> QED BY <1>2, Invariance, PTL DEF Spec, NewerJobSurvives

-----------------------------------------------------------------------------
\* No step of the thread loses a durable job: what the rows hold, the map holds.
THEOREM DurableJobsAreScheduled == Spec => []RowsAreScheduled
<1>1. Init => RowsAreScheduled
  BY DEF Init, RowsAreScheduled
<1>2. TypeOK /\ RowsAreScheduled /\ [Next]_vars => RowsAreScheduled'
  <2> SUFFICES ASSUME TypeOK, RowsAreScheduled, [Next]_vars PROVE RowsAreScheduled'
    OBVIOUS
  <2> USE DEF RowsAreScheduled, TypeOK
  <2>1. ASSUME NEW k \in Keys, FinishOne(k) PROVE RowsAreScheduled'
    BY <2>1 DEF FinishOne, history
  <2>2. CASE HandleSet
    <3> DEFINE key == Head(inbox).key
    <3>1. key \in Keys /\ restored' = restored
      BY <2>2, ReceiveType DEF HandleSet, history
    <3>2. CASE UNCHANGED <<rows, jobs>>
      BY <3>1, <3>2
    <3>3. ASSUME NEW job, rows' = [rows EXCEPT ![key] = job], jobs' = [jobs EXCEPT ![key] = job]
          PROVE  RowsAreScheduled'
      BY <3>1, <3>3
    <3> HIDE DEF key
    <3>4. UNCHANGED <<rows, jobs>>
          \/ \E job : rows' = [rows EXCEPT ![key] = job] /\ jobs' = [jobs EXCEPT ![key] = job]
      BY <2>2 DEF HandleSet, memory, key
    <3> QED BY <3>2, <3>3, <3>4
  <2>3. CASE HandleCancel
    BY <2>3, ReceiveType DEF HandleCancel, memory, history
  <2>4. CASE HandleComplete
    <3> DEFINE key == Head(inbox).attempt.key
    <3>1. key \in Keys
      BY <2>4, ReceiveType DEF HandleComplete, Delivery
    <3> HIDE DEF key
    <3>2. /\ restored' = restored
          /\ \/ UNCHANGED <<rows, jobs>>
             \/ rows' = [rows EXCEPT ![key] = NoJob] /\ jobs' = [jobs EXCEPT ![key] = NoJob]
      BY <2>4 DEF HandleComplete, key
    <3> QED BY <3>1, <3>2
  <2>5. ASSUME NEW o \in Owners, EraseOwner(o) PROVE RowsAreScheduled'
    BY <2>5 DEF EraseOwner, memory, history
  <2>6. CASE Restart
    BY <2>6 DEF Restart
  <2>7. CASE UNCHANGED <<rows, jobs, restored>>
    BY <2>7
  <2>8. CASE BeginFinish \/ BeginDeliver \/ EndDeliver \/ ReceiveTimeout \/ Tick
             \/ (\E k \in Keys : SendOne(k) \/ RequestCancel(k))
             \/ (\E k \in Keys, d \in SetData : RequestSet(k, d))
             \/ (\E s \in Slots, ok \in BOOLEAN : Complete(s, ok)) \/ UNCHANGED vars
    BY <2>7, <2>8 DEF BeginFinish, BeginDeliver, EndDeliver, ReceiveTimeout, Tick, SendOne, QueueIsFull,
       RequestSet, RequestCancel, Complete, memory, history, vars
  <2> QED BY <2>1, <2>2, <2>3, <2>4, <2>5, <2>6, <2>8 DEF Next, Thread, Environment
<1> QED BY <1>1, <1>2, TypeCorrect, PTL DEF Spec

LEMMA SettledStep == TypeOK /\ ServedIsSettled /\ [Next]_vars => ServedIsSettled'
<1> SUFFICES ASSUME TypeOK, ServedIsSettled, [Next]_vars PROVE ServedIsSettled'
  OBVIOUS
<1> USE DEF ServedIsSettled
<1>1. ASSUME NEW k \in Keys, FinishOne(k) PROVE ServedIsSettled'
  <2>1. \A j \in succeeded : j \in Keys
    BY DEF TypeOK
  <2> QED BY <1>1, <2>1 DEF FinishOne, TypeOK, history
<1>2. CASE BeginDeliver
  BY <1>2 DEF BeginDeliver, Due, memory, history
<1>3. ASSUME NEW k \in Keys, SendOne(k) PROVE ServedIsSettled'
  BY <1>3 DEF SendOne, QueueIsFull, history
<1>4. CASE HandleSet
  <2>1. phase' = "loop" /\ \A k \in succeeded : k \in Keys
    BY <1>4, ReceiveType DEF HandleSet, TypeOK
  <2>2. CASE UNCHANGED <<jobs, completed, succeeded>>
    BY <2>1, <2>2
  <2>3. ASSUME NEW key, NEW job, jobs' = [jobs EXCEPT ![key] = job],
               completed' = completed \ {key}, succeeded' = succeeded \ {key}
        PROVE  ServedIsSettled'
    BY <2>1, <2>3 DEF TypeOK
  <2> QED BY <1>4, <2>2, <2>3 DEF HandleSet, memory, history
<1>5. CASE HandleCancel
  <2>1. phase' = "loop" /\ succeeded' = succeeded /\ \A k \in succeeded : k \in Keys
    BY <1>5, ReceiveType DEF HandleCancel, TypeOK, history
  <2>2. CASE UNCHANGED <<jobs, completed>>
    BY <2>1, <2>2
  <2>3. ASSUME NEW key, jobs' = [jobs EXCEPT ![key] = NoJob], completed' = completed \ {key}
        PROVE  ServedIsSettled'
    BY <2>1, <2>3 DEF TypeOK
  <2> QED BY <1>5, <2>2, <2>3 DEF HandleCancel, memory
<1>6. CASE HandleComplete
  <2> DEFINE key == Head(inbox).attempt.key
  <2>1. phase' = "loop" /\ key \in Keys /\ \A k \in succeeded : k \in Keys
    BY <1>6, ReceiveType DEF HandleComplete, Delivery, TypeOK
  <2> HIDE DEF key
  <2>2. \/ UNCHANGED <<jobs, completed, succeeded>>
        \/ /\ succeeded' = succeeded \cup {key}
           /\ \/ jobs' = [jobs EXCEPT ![key] = NoJob] /\ completed' = completed
              \/ jobs' = jobs /\ completed' = completed \cup {key}
    BY <1>6 DEF HandleComplete, key
  <2> QED BY <2>1, <2>2 DEF TypeOK
<1>7. CASE Restart
  BY <1>7 DEF Restart
<1>8. CASE UNCHANGED <<jobs, completed, succeeded, phase, batch>>
  BY <1>8
<1>9. CASE BeginFinish \/ EndDeliver \/ ReceiveTimeout
  BY <1>9 DEF BeginFinish, EndDeliver, ReceiveTimeout, memory, history
<1>10. CASE Tick \/ (\E k \in Keys : RequestCancel(k)) \/ (\E o \in Owners : EraseOwner(o))
            \/ (\E k \in Keys, d \in SetData : RequestSet(k, d))
            \/ (\E s \in Slots, ok \in BOOLEAN : Complete(s, ok)) \/ UNCHANGED vars
  BY <1>8, <1>10 DEF Tick, RequestCancel, EraseOwner, RequestSet, Complete, memory, thread,
     history, vars
<1> QED BY <1>1, <1>2, <1>3, <1>4, <1>5, <1>6, <1>7, <1>9, <1>10 DEF Next, Thread, Environment

\* A timer reported successful is not handed out again by the same process.
THEOREM ServedTimersAreNotSent == Spec => NotSentAfterSuccess
<1>1. Init => ServedIsSettled
  BY DEF Init, ServedIsSettled
<1>2. Spec => []ServedIsSettled
  BY <1>1, SettledStep, TypeCorrect, PTL DEF Spec
<1>3. ASSUME IInv, ServedIsSettled, [Next]_vars,
             NEW s \in Slots, sent[s] = NoJob, sent'[s] # NoJob
      PROVE  sent'[s].key \notin succeeded
  <2>1. PICK k \in Keys : SendOne(k)
    BY <1>3 DEF Next, Thread, Environment, BeginFinish, FinishOne, BeginDeliver, EndDeliver,
       HandleSet, HandleCancel, HandleComplete, Receive, ReceiveTimeout, RequestSet,
       RequestCancel, Complete, EraseOwner, Restart, Tick, vars, IInv, TypeOK
  <2>2. sent'[s].key = k
    BY <1>3, <2>1 DEF SendOne, QueueIsFull, IInv, TypeOK
  <2>3. k \in batch /\ phase = "deliver"
    BY <2>1 DEF SendOne, QueueIsFull
  <2> QED BY <1>3, <2>2, <2>3 DEF ServedIsSettled, IInv, BatchIsDue
<1>4. IInv /\ ServedIsSettled /\ [Next]_vars =>
        [\A s \in Slots : sent[s] = NoJob /\ sent'[s] # NoJob
                            => sent'[s].key \notin succeeded]_vars
  BY <1>3
<1> QED BY <1>2, <1>4, Invariance, PTL DEF Spec, NotSentAfterSuccess

-----------------------------------------------------------------------------
(* One attempt at a time.  Wherever an attempt of a key is, with the host  *)
(* or on its way back in the inbox, it is the only one, and the key is in  *)
(* flight; the batch of a delivery pass leaves keys in flight out.         *)

Taken(s, k) == sent[s] # NoJob /\ sent[s].key = k
Waiting(i, k) == i \in DOMAIN inbox /\ inbox[i].op = "complete" /\ inbox[i].attempt.key = k

SingleFor(k) ==
  /\ \A s, t \in Slots : Taken(s, k) /\ Taken(t, k) => s = t
  /\ \A i, j \in Nat : Waiting(i, k) /\ Waiting(j, k) => i = j
  /\ \A s \in Slots, i \in Nat : ~(Taken(s, k) /\ Waiting(i, k))
  /\ (\E s \in Slots : Taken(s, k)) \/ (\E i \in Nat : Waiting(i, k)) => k \in inFlight

Single ==
  /\ \A k \in Keys : k \notin cancelled => SingleFor(k)
  /\ phase = "deliver" => batch \cap inFlight = {}

LEMMA AppendWaiting ==
  ASSUME TypeOK, NEW r \in Request, inbox' = Append(inbox, r), NEW k \in Keys, NEW i \in Nat,
         Waiting(i, k)'
  PROVE  Waiting(i, k) \/ (r.op = "complete" /\ r.attempt.key = k /\ i = Len(inbox) + 1)
<1>1. /\ DOMAIN inbox = 1..Len(inbox) /\ Len(inbox) \in Nat
      /\ DOMAIN inbox' = 1..(Len(inbox) + 1)
      /\ \A j \in 1..Len(inbox) : inbox'[j] = inbox[j]
      /\ inbox'[Len(inbox) + 1] = r
  <2>1. inbox \in Seq(Request) /\ inbox' \in Seq(Request)
    BY DEF TypeOK
  <2> QED BY <2>1, AppendProperties, LenProperties
<1>2. CASE i \in 1..Len(inbox)
  BY <1>1, <1>2 DEF Waiting
<1>3. CASE i = Len(inbox) + 1
  BY <1>1, <1>3 DEF Waiting
<1> QED BY <1>1, <1>2, <1>3 DEF Waiting

LEMMA ReceiveWaiting ==
  ASSUME TypeOK, NEW op, Receive(op), NEW k \in Keys
  PROVE  /\ \A i \in Nat : Waiting(i, k)' => i \in Nat \ {0} /\ Waiting(i + 1, k)
         /\ op = "complete" /\ Head(inbox).attempt.key = k => Waiting(1, k)
<1>1. inbox # <<>> /\ inbox \in Seq(Request) /\ inbox' = Tail(inbox) /\ Head(inbox).op = op
  BY DEF Receive, TypeOK
<1>2. /\ DOMAIN inbox = 1..Len(inbox) /\ Len(inbox) \in Nat \ {0} /\ Head(inbox) = inbox[1]
      /\ DOMAIN inbox' = 1..(Len(inbox) - 1)
      /\ \A i \in 1..(Len(inbox) - 1) : inbox'[i] = inbox[i + 1]
  BY <1>1, HeadTailProperties, LenProperties, EmptySeq
<1>3. ASSUME NEW i \in Nat, Waiting(i, k)' PROVE i \in Nat \ {0} /\ Waiting(i + 1, k)
  <2>1. i \in 1..(Len(inbox) - 1) /\ i + 1 \in DOMAIN inbox /\ inbox'[i] = inbox[i + 1]
    BY <1>2, <1>3 DEF Waiting
  <2> QED BY <1>3, <2>1 DEF Waiting
<1>4. 1 \in DOMAIN inbox
  BY <1>2
<1> QED BY <1>1, <1>2, <1>3, <1>4 DEF Waiting

\* A key keeps its single attempt when attempts only go, or move up in the inbox.
LEMMA FewerAttempts ==
  ASSUME NEW k \in Keys, SingleFor(k), NEW c \in {0, 1},
         \A s \in Slots : Taken(s, k)' => Taken(s, k),
         \A i \in Nat : Waiting(i, k)' => Waiting(i + c, k),
         k \in inFlight => k \in inFlight'
  PROVE  SingleFor(k)'
<1>1. \A i, j \in Nat : Waiting(i, k)' /\ Waiting(j, k)' => i = j
  <2> SUFFICES ASSUME NEW i \in Nat, NEW j \in Nat, Waiting(i, k)', Waiting(j, k)'
               PROVE  i = j
    OBVIOUS
  <2>1. i + c \in Nat /\ j + c \in Nat /\ Waiting(i + c, k) /\ Waiting(j + c, k)
    OBVIOUS
  <2>2. i + c = j + c
    BY <2>1 DEF SingleFor
  <2> QED BY <2>2
<1>2. \A i \in Nat : i + c \in Nat
  OBVIOUS
<1> QED BY <1>1, <1>2 DEF SingleFor

LEMMA SingleStep == TypeOK /\ BatchIsDue /\ Single /\ [Next]_vars => Single'
<1> SUFFICES ASSUME TypeOK, BatchIsDue, Single, [Next]_vars PROVE Single'
  OBVIOUS
<1> USE ConstantsAssumption
\* Steps that touch no attempt and start no batch.
<1>1. ASSUME UNCHANGED <<sent, inbox, inFlight, cancelled>>,
             phase' = "deliver" => batch' \cap inFlight = {}
      PROVE  Single'
  BY <1>1 DEF Single, SingleFor, Taken, Waiting
<1>2. ASSUME BeginFinish PROVE Single'
  BY <1>1, <1>2 DEF BeginFinish, memory, history
<1>3. ASSUME NEW k \in Keys, FinishOne(k) PROVE Single'
  BY <1>1, <1>3 DEF FinishOne, history
<1>4. ASSUME BeginDeliver PROVE Single'
  BY <1>1, <1>4 DEF BeginDeliver, Due, memory, history
<1>5. ASSUME NEW k \in Keys, SendOne(k) PROVE Single'
  <2>1. CASE UNCHANGED <<sent, inFlight>>
    BY <1>1, <1>5, <2>1 DEF SendOne, QueueIsFull, Single, history
  <2>2. ASSUME NEW s \in Slots \ Held,
               sent' = [sent EXCEPT ![s] = [key |-> k, job |-> jobs[k], gen |-> gen[k]]],
               inFlight' = inFlight \cup {k}
        PROVE  Single'
    <3>1. k \notin inFlight /\ UNCHANGED <<inbox, cancelled>> /\ batch' \cap inFlight' = {}
      BY <1>5, <2>2 DEF SendOne, QueueIsFull, Single, history
    <3>2. sent[s] = NoJob /\ sent'[s].key = k
      BY <2>2 DEF Held, TypeOK
    <3>3. sent'[s] # NoJob
      <4>1. jobs[k] \in Job /\ gen[k] \in Nat
        BY <1>5 DEF SendOne, QueueIsFull, BatchIsDue, TypeOK
      <4>2. [key |-> k, job |-> jobs[k], gen |-> gen[k]] \in Delivery
        BY <4>1 DEF Delivery
      <4> QED BY <2>2, <4>2 DEF TypeOK
    <3>4. /\ Taken(s, k)' /\ \A j \in Keys : ~Taken(s, j)
          /\ \A t \in Slots \ {s}, j \in Keys : Taken(t, j)' <=> Taken(t, j)
          /\ \A j \in Keys \ {k} : ~Taken(s, j)'
          /\ \A i \in Nat, j \in Keys : Waiting(i, j)' <=> Waiting(i, j)
      BY <2>2, <3>1, <3>2, <3>3 DEF Taken, Waiting, TypeOK
    <3>5. ASSUME NEW j \in Keys, j \notin cancelled PROVE SingleFor(j)'
      <4>1. SingleFor(j)
        BY <3>5 DEF Single
      <4>2. CASE j = k
        <5>1. ~(\E t \in Slots : Taken(t, k)) /\ ~(\E i \in Nat : Waiting(i, k))
          BY <3>1, <4>1, <4>2 DEF SingleFor
        <5>2. (\A t \in Slots : Taken(t, k)' => t = s) /\ \A i \in Nat : ~Waiting(i, k)'
          BY <3>4, <5>1
        <5> QED BY <2>2, <4>2, <5>2 DEF SingleFor
      <4>3. CASE j # k
        <5>1. \A t \in Slots : Taken(t, j)' <=> Taken(t, j)
          BY <3>4, <4>3
        <5> QED BY <2>2, <3>4, <4>1, <5>1 DEF SingleFor
      <4> QED BY <4>2, <4>3
    <3> QED BY <3>1, <3>5 DEF Single
  <2> QED BY <1>5, <2>1, <2>2 DEF SendOne, QueueIsFull
<1>6. ASSUME EndDeliver PROVE Single'
  BY <1>1, <1>6 DEF EndDeliver, memory, history
\* Steps after which a key has the attempts it had, or fewer.
<1>7. ASSUME NEW c \in {0, 1}, phase' = "deliver" => batch' \cap inFlight' = {},
             \A k \in Keys : k \notin cancelled' =>
               /\ k \notin cancelled
               /\ \A s \in Slots : Taken(s, k)' => Taken(s, k)
               /\ \A i \in Nat : Waiting(i, k)' => Waiting(i + c, k)
               /\ k \in inFlight => k \in inFlight'
      PROVE  Single'
  BY <1>7, FewerAttempts DEF Single
<1>8. ASSUME HandleSet PROVE Single'
  <2>1. phase' = "loop" /\ UNCHANGED <<sent, inFlight, cancelled>>
    BY <1>8, ReceiveType DEF HandleSet, memory, history
  <2>2. \A k \in Keys, i \in Nat : Waiting(i, k)' => Waiting(i + 1, k)
    BY <1>8, ReceiveWaiting DEF HandleSet
  <2> QED BY <1>7, <2>1, <2>2 DEF Taken
<1>9. ASSUME HandleCancel PROVE Single'
  <2>1. phase' = "loop" /\ sent' = sent
    BY <1>9, ReceiveType DEF HandleCancel
  <2>2. \A k \in Keys, i \in Nat : Waiting(i, k)' => Waiting(i + 1, k)
    BY <1>9, ReceiveWaiting DEF HandleCancel
  <2>3. \A k \in Keys : k \notin cancelled' =>
          k \notin cancelled /\ (k \in inFlight => k \in inFlight')
    BY <1>9 DEF HandleCancel, memory, history
  <2> QED BY <1>7, <2>1, <2>2, <2>3 DEF Taken
<1>10. ASSUME HandleComplete PROVE Single'
  <2> DEFINE key == Head(inbox).attempt.key
  <2>1. phase' = "loop" /\ sent' = sent /\ key \in Keys
    BY <1>10, ReceiveType DEF HandleComplete, Delivery
  <2>2. /\ \A k \in Keys, i \in Nat : Waiting(i, k)' => i # 0 /\ Waiting(i + 1, k)
        /\ Waiting(1, key)
    BY <1>10, <2>1, ReceiveWaiting DEF HandleComplete
  <2> HIDE DEF key
  <2>3. inFlight' = inFlight \ {key} /\ cancelled' = cancelled
    BY <1>10 DEF HandleComplete, ClearInFlight, key
  <2>4. ASSUME NEW k \in Keys, k \notin cancelled' PROVE SingleFor(k)'
    <3>1. SingleFor(k)
      BY <2>3, <2>4 DEF Single
    <3>2. CASE k = key
      <4>1. \A s \in Slots : ~Taken(s, k)'
        BY <2>1, <2>2, <3>1, <3>2 DEF SingleFor, Taken
      <4>2. \A i \in Nat : ~Waiting(i, k)'
        <5> SUFFICES ASSUME NEW i \in Nat, Waiting(i, k)' PROVE FALSE
          OBVIOUS
        <5>1. i # 0 /\ Waiting(i + 1, k) /\ Waiting(1, k)
          BY <2>2, <3>2
        <5>2. i + 1 = 1
          BY <3>1, <5>1 DEF SingleFor
        <5> QED BY <5>1, <5>2
      <4> QED BY <4>1, <4>2 DEF SingleFor
    <3>3. CASE k # key
      BY <2>1, <2>2, <2>3, <3>1, <3>3, FewerAttempts DEF Taken
    <3> QED BY <3>2, <3>3
  <2> QED BY <2>1, <2>4 DEF Single
<1>11. ASSUME ReceiveTimeout PROVE Single'
  BY <1>1, <1>11 DEF ReceiveTimeout, memory, history
<1>12. ASSUME NEW r \in Request, r.op # "complete", inbox' = Append(inbox, r),
              UNCHANGED <<memory, thread, sent, history>>
       PROVE  Single'
  <2>1. \A k \in Keys, i \in Nat : Waiting(i, k)' => Waiting(i + 0, k)
    BY <1>12, AppendWaiting
  <2> QED BY <1>7, <1>12, <2>1 DEF Taken, memory, thread, history, Single
<1>13. ASSUME NEW k \in Keys, NEW d \in SetData, RequestSet(k, d) PROVE Single'
  BY <1>12, <1>13, RequestTypes DEF RequestSet
<1>14. ASSUME NEW k \in Keys, RequestCancel(k) PROVE Single'
  BY <1>12, <1>14, RequestTypes DEF RequestCancel
<1>15. ASSUME NEW s \in Slots, NEW ok \in BOOLEAN, Complete(s, ok) PROVE Single'
  <2> DEFINE r == [op |-> "complete", attempt |-> sent[s], ok |-> ok]
             key == sent[s].key
  <2>1. sent[s] \in Delivery /\ sent[s] # NoJob /\ key \in Keys
    BY <1>15 DEF Complete, TypeOK, Delivery
  <2>2. r \in Request /\ r.op = "complete" /\ r.attempt.key = key
    BY <2>1, RequestTypes
  <2>3. inbox' = Append(inbox, r) /\ UNCHANGED <<inFlight, cancelled, phase, batch>>
    BY <1>15 DEF Complete, memory, thread, history
  <2>4. /\ \A t \in Slots, k \in Keys : Taken(t, k)' => Taken(t, k) /\ t # s
        /\ Taken(s, key)
    BY <1>15, <2>1 DEF Complete, Taken, TypeOK
  <2>5. \A k \in Keys, i \in Nat :
          Waiting(i, k)' => Waiting(i, k) \/ (k = key /\ i = Len(inbox) + 1)
    <3> HIDE DEF r
    <3> QED BY <2>2, <2>3, AppendWaiting
  <2> HIDE DEF r, key
  <2>6. ASSUME NEW k \in Keys, k \notin cancelled' PROVE SingleFor(k)'
    <3>1. SingleFor(k)
      BY <2>3, <2>6 DEF Single
    <3>2. CASE k = key
      <4>1. k \in inFlight /\ (\A i \in Nat : ~Waiting(i, k))
            /\ \A t \in Slots : Taken(t, k) => t = s
        BY <2>4, <3>1, <3>2 DEF SingleFor
      <4>2. (\A t \in Slots : ~Taken(t, k)')
            /\ \A i \in Nat : Waiting(i, k)' => i = Len(inbox) + 1
        BY <2>4, <2>5, <4>1
      <4> QED BY <2>3, <4>1, <4>2 DEF SingleFor
    <3>3. CASE k # key
      <4>1. \A i \in Nat : Waiting(i, k)' => Waiting(i + 0, k)
        BY <2>5, <3>3
      <4> QED BY <2>3, <2>4, <3>1, <4>1, FewerAttempts
    <3> QED BY <3>2, <3>3
  <2> QED BY <2>3, <2>6 DEF Single
<1>16. ASSUME NEW o \in Owners, EraseOwner(o) PROVE Single'
  BY <1>1, <1>16 DEF EraseOwner, memory, thread, history, Single
<1>17. ASSUME Restart PROVE Single'
  BY <1>17 DEF Restart, Single, SingleFor, Taken, Waiting
<1>18. ASSUME Tick PROVE Single'
  BY <1>1, <1>18 DEF Tick, memory, thread, history, Single
<1>19. ASSUME UNCHANGED vars PROVE Single'
  BY <1>1, <1>19 DEF vars, memory, thread, history, Single
<1> QED
  BY <1>2, <1>3, <1>4, <1>5, <1>6, <1>8, <1>9, <1>10, <1>11, <1>13, <1>14, <1>15, <1>16,
     <1>17, <1>18, <1>19 DEF Next, Thread, Environment

\* Two attempts of one timer never overlap, unless it was cancelled meanwhile.
THEOREM OneAttemptAtATime == Spec => []OneAttemptPerKey
<1>1. Init => Single
  BY DEF Init, Single, SingleFor, Taken, Waiting
<1>2. IInv => TypeOK /\ BatchIsDue
  BY DEF IInv
<1>3. Spec => []Single
  BY <1>1, <1>2, SingleStep, Invariance, PTL DEF Spec
<1>4. IInv /\ Single => OneAttemptPerKey
  <2> SUFFICES ASSUME IInv, Single PROVE OneAttemptPerKey
    OBVIOUS
  <2>1. \A s \in Held : sent[s].key \in Keys
    BY DEF Held, IInv, TypeOK, Delivery
  <2>2. ASSUME NEW s \in Held, NEW t \in Held, sent[s].key = sent[t].key,
               sent[s].key \notin cancelled
        PROVE  s = t
    BY <2>1, <2>2 DEF Single, SingleFor, Taken, Held
  <2>3. ASSUME NEW d \in Outstanding, d.key \notin cancelled PROVE d.key \in inFlight
    <3>1. d.key \in Keys
      BY OutstandingTypes DEF IInv, Delivery
    <3>2. CASE \E s \in Held : d = sent[s]
      BY <2>3, <3>1, <3>2 DEF Single, SingleFor, Taken, Held
    <3>3. CASE \E i \in DOMAIN inbox : inbox[i].op = "complete" /\ d = inbox[i].attempt
      <4>1. PICK i \in DOMAIN inbox : inbox[i].op = "complete" /\ d = inbox[i].attempt
        BY <3>3
      <4>2. i \in Nat /\ Waiting(i, d.key)
        BY <4>1, LenProperties DEF Waiting, IInv, TypeOK
      <4> QED BY <2>3, <3>1, <4>2 DEF Single, SingleFor
    <3> QED BY <3>2, <3>3 DEF Outstanding
  <2> QED BY <2>2, <2>3 DEF OneAttemptPerKey
<1> QED BY <1>3, <1>4, Invariance, PTL

\* Both together, as the run checks them.
THEOREM AttemptsStayApart == Spec => []AttemptsAreApart
  BY StaleAttemptsAreRecognised, OneAttemptAtATime, PTL DEF AttemptsAreApart

-----------------------------------------------------------------------------
(* The scheduler implements TimerService while no profile is erased: every *)
(* step of it is a step of the service or leaves the service as it is.     *)

\* What the job map holds is stored; so the map agrees with the rows on every served job.
MapIsStored == \A k \in Keys : jobs[k] # NoJob \/ k \in completed => rows[k] = jobs[k]

BatchIsServed == phase = "finish" => batch \subseteq completed

\* An attempt of a job that was not replaced: the job is the one sent, or was cancelled.
AttemptsAreCurrent ==
  \A d \in Outstanding :
    d.gen = gen[d.key] =>
      jobs[d.key] = d.job \/ (jobs[d.key] = NoJob /\ rows[d.key] = NoJob)

\* A request that is received, or put into the inbox, keeps the attempts that are out;
\* an answer that is received takes one of them away.
LEMMA AppendKeepsOutstanding ==
  ASSUME TypeOK, NEW r \in Request, inbox' = Append(inbox, r),
         \A s \in Slots : sent[s] # NoJob =>
           sent'[s] = sent[s] \/ (r.op = "complete" /\ r.attempt = sent[s])
  PROVE  Outstanding \subseteq Outstanding'
<1>1. /\ DOMAIN inbox = 1..Len(inbox) /\ Len(inbox) \in Nat
      /\ DOMAIN inbox' = 1..(Len(inbox) + 1)
      /\ \A i \in 1..Len(inbox) : inbox'[i] = inbox[i]
      /\ inbox'[Len(inbox) + 1] = r
  <2>1. inbox \in Seq(Request) /\ inbox' \in Seq(Request)
    BY DEF TypeOK
  <2> QED BY <2>1, AppendProperties, LenProperties
<1>2. \A i \in DOMAIN inbox : inbox[i].op = "complete" => inbox[i].attempt \in Outstanding'
  <2> SUFFICES ASSUME NEW i \in DOMAIN inbox, inbox[i].op = "complete"
               PROVE  inbox[i].attempt \in Outstanding'
    OBVIOUS
  <2>1. i \in DOMAIN inbox' /\ inbox'[i] = inbox[i]
    BY <1>1
  <2> QED BY <2>1 DEF Outstanding
<1>3. ASSUME NEW s \in Held PROVE sent[s] \in Outstanding'
  <2>1. CASE sent'[s] = sent[s]
    BY <2>1 DEF Held, Outstanding
  <2>2. CASE r.op = "complete" /\ r.attempt = sent[s]
    <3>1. Len(inbox) + 1 \in DOMAIN inbox'
      BY <1>1
    <3> QED BY <1>1, <2>2, <3>1 DEF Outstanding
  <2> QED BY <2>1, <2>2 DEF Held
<1> QED BY <1>2, <1>3 DEF Outstanding

LEMMA ReceiveKeepsOutstanding ==
  ASSUME TypeOK, NEW op, Receive(op)
  PROVE  \A d \in Outstanding :
           d \in Outstanding' \/ (op = "complete" /\ d = Head(inbox).attempt)
<1>1. inbox # <<>> /\ inbox \in Seq(Request) /\ inbox' = Tail(inbox) /\ Head(inbox).op = op
      /\ sent' = sent
  BY DEF Receive, TypeOK
<1>2. /\ DOMAIN inbox = 1..Len(inbox) /\ Len(inbox) \in Nat \ {0} /\ Head(inbox) = inbox[1]
      /\ DOMAIN inbox' = 1..(Len(inbox) - 1)
      /\ \A i \in 1..(Len(inbox) - 1) : inbox'[i] = inbox[i + 1]
  BY <1>1, HeadTailProperties, LenProperties, EmptySeq
<1>3. ASSUME NEW i \in DOMAIN inbox, inbox[i].op = "complete"
      PROVE  \/ inbox[i].attempt \in Outstanding'
             \/ op = "complete" /\ inbox[i].attempt = Head(inbox).attempt
  <2>1. CASE i = 1
    BY <1>1, <1>2, <1>3, <2>1
  <2>2. CASE i # 1
    <3>1. i - 1 \in DOMAIN inbox' /\ inbox'[i - 1] = inbox[i]
      BY <1>2, <2>2
    <3> QED BY <1>3, <3>1 DEF Outstanding
  <2> QED BY <2>1, <2>2
<1>4. \A s \in Held : sent[s] \in Outstanding'
  BY <1>1 DEF Held, Outstanding
<1> QED BY <1>3, <1>4 DEF Outstanding

LEMMA OtherRequestsKeepOutstanding ==
  ASSUME TypeOK, NEW op, op # "complete", Receive(op)
  PROVE  Outstanding' = Outstanding
<1>1. Outstanding' \subseteq Outstanding
  BY InboxReceive
<1>2. Outstanding \subseteq Outstanding'
  BY ReceiveKeepsOutstanding
<1> QED BY <1>1, <1>2

LEMMA MapStep ==
  ASSUME TypeOK, MapIsStored, BatchIsServed, [Next]_vars, \A o \in Owners : ~EraseOwner(o)
  PROVE  MapIsStored' /\ BatchIsServed'
<1> USE DEF MapIsStored, BatchIsServed
<1>1. ASSUME NEW k \in Keys, FinishOne(k) PROVE MapIsStored' /\ BatchIsServed'
  BY <1>1 DEF FinishOne, TypeOK
<1>2. CASE BeginFinish
  BY <1>2 DEF BeginFinish, memory
<1>3. CASE BeginDeliver \/ EndDeliver \/ ReceiveTimeout
  BY <1>3 DEF BeginDeliver, EndDeliver, ReceiveTimeout, memory
<1>4. ASSUME NEW k \in Keys, SendOne(k) PROVE MapIsStored' /\ BatchIsServed'
  BY <1>4 DEF SendOne, QueueIsFull
<1>5. ASSUME phase' = "loop", NEW key \in Keys, NEW job,
             \/ UNCHANGED <<rows, jobs>> /\ completed' \subseteq completed
             \/ /\ rows' = [rows EXCEPT ![key] = job] /\ jobs' = [jobs EXCEPT ![key] = job]
                /\ completed' \subseteq completed
             \/ /\ UNCHANGED <<rows, jobs>> /\ jobs[key] # NoJob
                /\ completed' = completed \cup {key}
      PROVE  MapIsStored' /\ BatchIsServed'
  BY <1>5 DEF TypeOK
<1>6. CASE HandleSet
  <2> DEFINE key  == Head(inbox).key
             data == Head(inbox).data
             job  == [owner |-> data.owner, due |-> data.due,
                      payload |-> data.payload, created |-> now]
  <2>1. key \in Keys /\ phase' = "loop"
    BY <1>6, ReceiveType DEF HandleSet, Receive
  <2>2. \/ UNCHANGED <<rows, jobs, completed>>
        \/ /\ rows' = [rows EXCEPT ![key] = job] /\ jobs' = [jobs EXCEPT ![key] = job]
           /\ completed' = completed \ {key}
    BY <1>6 DEF HandleSet, memory
  <2> HIDE DEF key, job
  <2> QED BY <1>5, <2>1, <2>2
<1>7. CASE HandleCancel
  <2> DEFINE key == Head(inbox).key
  <2>1. key \in Keys /\ phase' = "loop"
    BY <1>7, ReceiveType DEF HandleCancel, Receive
  <2>2. \/ UNCHANGED <<rows, jobs, completed>>
        \/ /\ rows' = [rows EXCEPT ![key] = NoJob] /\ jobs' = [jobs EXCEPT ![key] = NoJob]
           /\ completed' = completed \ {key}
    BY <1>7 DEF HandleCancel, memory
  <2> HIDE DEF key
  <2> QED BY <1>5, <2>1, <2>2
<1>8. CASE HandleComplete
  <2> DEFINE attempt == Head(inbox).attempt
             key     == attempt.key
  <2>1. attempt \in Delivery /\ phase' = "loop"
    BY <1>8, ReceiveType DEF HandleComplete, Receive
  <2>2. key \in Keys /\ attempt.job # NoJob
    BY <2>1, ConstantsAssumption DEF Delivery
  <2>3. \/ UNCHANGED <<rows, jobs, completed>>
        \/ /\ rows' = [rows EXCEPT ![key] = NoJob] /\ jobs' = [jobs EXCEPT ![key] = NoJob]
           /\ UNCHANGED completed
        \/ /\ UNCHANGED <<rows, jobs>> /\ jobs[key] = attempt.job
           /\ completed' = completed \cup {key}
    BY <1>8 DEF HandleComplete, Current
  <2> HIDE DEF key, attempt
  <2> QED BY <1>5, <2>1, <2>2, <2>3
<1>9. CASE Restart
  BY <1>9 DEF Restart
<1>10. CASE UNCHANGED <<rows, jobs, completed, phase, batch>>
  BY <1>10
<1>11. CASE Tick \/ (\E k \in Keys : RequestCancel(k)) \/ (\E o \in Owners : EraseOwner(o))
             \/ (\E k \in Keys, d \in SetData : RequestSet(k, d))
             \/ (\E s \in Slots, ok \in BOOLEAN : Complete(s, ok)) \/ UNCHANGED vars
  BY <1>10, <1>11 DEF Tick, RequestCancel, RequestSet, Complete, memory, thread, vars
<1> QED BY <1>1, <1>2, <1>3, <1>4, <1>6, <1>7, <1>8, <1>9, <1>11 DEF Next, Thread, Environment

LEMMA CurrentStep ==
  ASSUME TypeOK, BatchIsDue, AttemptsAreOlder, MapIsStored, BatchIsServed, AttemptsAreCurrent,
         [Next]_vars, \A o \in Owners : ~EraseOwner(o)
  PROVE  AttemptsAreCurrent'
<1> SUFFICES ASSUME NEW d \in Outstanding', d.gen = gen'[d.key]
             PROVE  jobs'[d.key] = d.job \/ (jobs'[d.key] = NoJob /\ rows'[d.key] = NoJob)
  BY DEF AttemptsAreCurrent
<1> DEFINE Settled == jobs'[d.key] = d.job \/ (jobs'[d.key] = NoJob /\ rows'[d.key] = NoJob)
\* No attempt is made, and the job of each key stays, goes, or is replaced.
<1>1. ASSUME d \in Outstanding, NEW key \in Keys, NEW job,
             \/ UNCHANGED <<rows, jobs, gen>>
             \/ /\ rows' = [rows EXCEPT ![key] = NoJob] /\ jobs' = [jobs EXCEPT ![key] = NoJob]
                /\ UNCHANGED gen
             \/ /\ rows' = [rows EXCEPT ![key] = job] /\ jobs' = [jobs EXCEPT ![key] = job]
                /\ gen' = [gen EXCEPT ![key] = @ + 1]
      PROVE  Settled
  <2>1. d \in Delivery /\ d.key \in Keys /\ d.gen \in Nat /\ gen[d.key] \in Nat
    BY <1>1, OutstandingTypes DEF Delivery, TypeOK
  <2>2. d.gen <= gen[d.key]
    BY <1>1 DEF AttemptsAreOlder
  <2>3. CASE UNCHANGED <<rows, jobs, gen>>
    BY <1>1, <2>3 DEF AttemptsAreCurrent
  <2>4. CASE /\ rows' = [rows EXCEPT ![key] = NoJob] /\ jobs' = [jobs EXCEPT ![key] = NoJob]
             /\ UNCHANGED gen
    <3>1. CASE d.key = key
      BY <2>1, <2>4, <3>1 DEF TypeOK
    <3>2. CASE d.key # key
      BY <1>1, <2>1, <2>4, <3>2 DEF TypeOK, AttemptsAreCurrent
    <3> QED BY <3>1, <3>2
  <2>5. CASE /\ rows' = [rows EXCEPT ![key] = job] /\ jobs' = [jobs EXCEPT ![key] = job]
             /\ gen' = [gen EXCEPT ![key] = @ + 1]
    <3>1. d.key # key
      BY <2>1, <2>2, <2>5 DEF TypeOK
    <3>2. gen'[d.key] = gen[d.key] /\ jobs'[d.key] = jobs[d.key] /\ rows'[d.key] = rows[d.key]
      BY <2>1, <2>5, <3>1 DEF TypeOK
    <3> QED BY <1>1, <3>2 DEF AttemptsAreCurrent
  <2> QED BY <1>1, <2>3, <2>4, <2>5
<1>2. ASSUME d \in Outstanding, UNCHANGED <<rows, jobs, gen>> PROVE Settled
  BY <1>2 DEF AttemptsAreCurrent
<1>3. ASSUME NEW k \in Keys, FinishOne(k) PROVE Settled
  <2>1. d \in Outstanding
    BY <1>3 DEF FinishOne, Outstanding, Held
  <2> QED BY <1>1, <1>3, <2>1 DEF FinishOne, history
<1>4. ASSUME NEW k \in Keys, SendOne(k) PROVE Settled
  <2>1. CASE d \in Outstanding
    BY <1>2, <1>4, <2>1 DEF SendOne, QueueIsFull, history
  <2>2. CASE d \notin Outstanding
    <3>1. PICK s \in Slots : d = sent'[s] /\ sent'[s] # NoJob /\ sent'[s] # sent[s]
      BY <1>4, <2>2 DEF SendOne, QueueIsFull, Outstanding, Held
    <3>2. d = [key |-> k, job |-> jobs[k], gen |-> gen[k]] /\ jobs' = jobs
      BY <1>4, <3>1 DEF SendOne, QueueIsFull, TypeOK
    <3> QED BY <3>2
  <2> QED BY <2>1, <2>2
<1>5. CASE HandleSet
  <2> DEFINE key  == Head(inbox).key
             data == Head(inbox).data
             job  == [owner |-> data.owner, due |-> data.due,
                      payload |-> data.payload, created |-> now]
  <2>1. key \in Keys /\ d \in Outstanding
    BY <1>5, ReceiveType, InboxReceive DEF HandleSet
  <2>2. \/ UNCHANGED <<rows, jobs, gen>>
        \/ /\ rows' = [rows EXCEPT ![key] = job] /\ jobs' = [jobs EXCEPT ![key] = job]
           /\ gen' = [gen EXCEPT ![key] = @ + 1]
    BY <1>5 DEF HandleSet, memory, history
  <2> HIDE DEF key, job
  <2> QED BY <1>1, <2>1, <2>2
<1>6. CASE HandleCancel
  <2> DEFINE key == Head(inbox).key
  <2>1. key \in Keys /\ d \in Outstanding
    BY <1>6, ReceiveType, InboxReceive DEF HandleCancel
  <2>2. /\ UNCHANGED gen
        /\ \/ UNCHANGED <<rows, jobs>>
           \/ rows' = [rows EXCEPT ![key] = NoJob] /\ jobs' = [jobs EXCEPT ![key] = NoJob]
    BY <1>6 DEF HandleCancel, memory, history
  <2> HIDE DEF key
  <2> QED BY <1>1, <2>1, <2>2
<1>7. CASE HandleComplete
  <2> DEFINE key == Head(inbox).attempt.key
  <2>1. key \in Keys /\ d \in Outstanding
    BY <1>7, ReceiveType, InboxReceive DEF HandleComplete, Delivery
  <2>2. /\ UNCHANGED gen
        /\ \/ UNCHANGED <<rows, jobs>>
           \/ rows' = [rows EXCEPT ![key] = NoJob] /\ jobs' = [jobs EXCEPT ![key] = NoJob]
    BY <1>7 DEF HandleComplete
  <2> HIDE DEF key
  <2> QED BY <1>1, <2>1, <2>2
<1>8. ASSUME NEW k \in Keys, NEW data \in SetData, RequestSet(k, data) PROVE Settled
  <2>1. [op |-> "set", key |-> k, data |-> data] \in Request
    BY RequestTypes
  <2>2. d \in Outstanding
    BY <1>8, <2>1, InboxAppend DEF RequestSet
  <2> QED BY <1>2, <1>8, <2>2 DEF RequestSet, memory, history
<1>9. ASSUME NEW k \in Keys, RequestCancel(k) PROVE Settled
  <2>1. [op |-> "cancel", key |-> k] \in Request
    BY RequestTypes
  <2>2. d \in Outstanding
    BY <1>9, <2>1, InboxAppend DEF RequestCancel
  <2> QED BY <1>2, <1>9, <2>2 DEF RequestCancel, memory, history
<1>10. ASSUME NEW s \in Slots, NEW ok \in BOOLEAN, Complete(s, ok) PROVE Settled
  <2>1. sent[s] \in Delivery /\ sent[s] \in Outstanding
    BY <1>10 DEF Complete, Outstanding, Held, TypeOK
  <2>2. [op |-> "complete", attempt |-> sent[s], ok |-> ok] \in Request
    BY <2>1, RequestTypes
  <2>3. \A t \in Slots : sent'[t] \in {sent[t], NoJob}
    BY <1>10 DEF Complete, TypeOK
  <2>4. d \in Outstanding
    BY <1>10, <2>1, <2>2, <2>3, InboxAppend DEF Complete
  <2> QED BY <1>2, <1>10, <2>4 DEF Complete, memory, history
<1>11. CASE Restart
  <2>1. inbox' = <<>> /\ DOMAIN inbox' = {} /\ \A s \in Slots : sent'[s] = NoJob
    BY <1>11 DEF Restart
  <2> QED BY <2>1 DEF Outstanding, Held
<1>12. CASE BeginFinish \/ BeginDeliver \/ EndDeliver \/ ReceiveTimeout \/ Tick
             \/ UNCHANGED vars
  <2>1. UNCHANGED <<inbox, sent, rows, jobs, gen>>
    BY <1>12 DEF BeginFinish, BeginDeliver, EndDeliver, ReceiveTimeout, Tick, memory, history, vars
  <2> QED BY <1>2, <2>1 DEF Outstanding, Held
<1> QED BY <1>3, <1>4, <1>5, <1>6, <1>7, <1>8, <1>9, <1>10, <1>11, <1>12
        DEF Next, Thread, Environment

\* The service's state, as the scheduler keeps it.
Stage(k) == IF rows[k] = NoJob THEN "none" ELSE IF k \in completed THEN "served" ELSE "pending"
Stages   == [k \in Keys |-> Stage(k)]
Attempts == {<<d.key, d.gen>> : d \in Outstanding}

ServiceStep == [Timer!ServiceNext]_<<Stages, gen, Attempts>>

LEMMA StagesAreMapped ==
  /\ Timer!ServiceInit <=> /\ Stages = [k \in Keys |-> "none"] /\ gen = [k \in Keys |-> 0]
                           /\ Attempts = {}
  /\ [Timer!ServiceNext]_(Timer!serviceVars) <=> ServiceStep
BY DEF Timer!ServiceInit, Timer!serviceVars, ServiceStep, Stages, Stage, Attempts

LEMMA ServiceStepHolds ==
  ASSUME TypeOK, BatchIsDue, AttemptsAreOlder, ServedIsSettled, MapIsStored, BatchIsServed,
         AttemptsAreCurrent, [Next]_vars, \A o \in Owners : ~EraseOwner(o)
  PROVE  ServiceStep
<1>1. ASSUME UNCHANGED <<Stages, gen, Attempts>> PROVE ServiceStep
  BY <1>1 DEF ServiceStep
<1>2. ASSUME UNCHANGED <<rows, completed, gen>>, Outstanding' = Outstanding PROVE ServiceStep
  BY <1>1, <1>2 DEF Stages, Stage, Attempts
<1> DEFINE TimerStep(t) == Timer!Set(t) \/ Timer!Cancel(t) \/ Timer!Attempt(t) \/ Timer!Discard(t)
<1>0. ASSUME NEW t \in Keys, TimerStep(t) PROVE ServiceStep
  BY <1>0 DEF ServiceStep, Timer!ServiceNext
<1> HIDE DEF TimerStep
<1>3. ASSUME NEW k \in Keys, FinishOne(k) PROVE ServiceStep
  <2>1. Outstanding' = Outstanding /\ gen' = gen
    BY <1>3 DEF FinishOne, Outstanding, Held, history
  <2>2. k \in completed /\ rows[k] = jobs[k]
    BY <1>3 DEF FinishOne, BatchIsServed, MapIsStored
  <2>3. CASE jobs[k] = NoJob
    <3>1. Stages' = Stages
      BY <1>3, <2>2, <2>3 DEF FinishOne, Stages, Stage
    <3> QED BY <1>1, <2>1, <3>1 DEF Attempts
  <2>4. CASE UNCHANGED <<rows, completed>>
    BY <1>2, <2>1, <2>4
  <2>5. CASE jobs[k] # NoJob /\ rows' = [rows EXCEPT ![k] = NoJob] /\ completed' = completed \ {k}
    <3>1. Stages[k] = "served"
      BY <2>2, <2>5 DEF Stages, Stage
    <3>2. Stages' = [Stages EXCEPT ![k] = "none"]
      BY <2>5 DEF Stages, Stage, TypeOK
    <3>3. Timer!Discard(k)
      BY <2>1, <3>1, <3>2 DEF Timer!Discard, Timer!Cancel, Stages, Stage, Attempts
    <3> QED BY <1>0, <3>3 DEF TimerStep
  <2> QED BY <1>3, <2>3, <2>4, <2>5 DEF FinishOne
<1>4. ASSUME NEW k \in Keys, SendOne(k) PROVE ServiceStep
  <2>1. UNCHANGED <<rows, completed, gen, inbox>>
    BY <1>4 DEF SendOne, QueueIsFull, history
  <2>2. CASE UNCHANGED sent
    BY <1>2, <2>1, <2>2 DEF Outstanding, Held
  <2>3. CASE \E s \in Slots \ Held :
               sent' = [sent EXCEPT ![s] = [key |-> k, job |-> jobs[k], gen |-> gen[k]]]
    <3> DEFINE new == [key |-> k, job |-> jobs[k], gen |-> gen[k]]
    <3>1. PICK s \in Slots \ Held : sent' = [sent EXCEPT ![s] = new]
      BY <2>3
    <3>2. phase = "deliver" /\ k \in batch
      BY <1>4 DEF SendOne, QueueIsFull
    <3>3. jobs[k] # NoJob /\ k \notin completed
      BY <3>2 DEF BatchIsDue, ServedIsSettled
    <3>4. Stages[k] = "pending"
      BY <3>3 DEF MapIsStored, Stages, Stage
    <3>5. new \in Delivery /\ new # NoJob
      BY <3>3, ConstantsAssumption DEF Delivery, TypeOK
    <3>6. Outstanding' = Outstanding \cup {new}
      BY <2>1, <3>1, <3>5 DEF Outstanding, Held, TypeOK
    <3>7. Attempts' = Attempts \cup {<<k, gen[k]>>}
      <4>1. \A d \in Outstanding' : d \in Outstanding \/ (d.key = k /\ d.gen = gen[k])
        BY <3>6
      <4>2. new \in Outstanding' /\ new.key = k /\ new.gen = gen[k]
        BY <3>6
      <4>3. Outstanding \subseteq Outstanding'
        BY <3>6
      <4> HIDE DEF new
      <4> QED BY <4>1, <4>2, <4>3 DEF Attempts
    <3>8. Timer!Attempt(k)
      BY <2>1, <3>4, <3>7 DEF Timer!Attempt, Stages, Stage, Attempts
    <3> QED BY <1>0, <3>8 DEF TimerStep
  <2> QED BY <1>4, <2>2, <2>3 DEF SendOne, QueueIsFull
<1>5. CASE HandleSet
  <2> DEFINE key  == Head(inbox).key
             data == Head(inbox).data
             job  == [owner |-> data.owner, due |-> data.due,
                      payload |-> data.payload, created |-> now]
  <2>1. key \in Keys /\ data \in SetData /\ Outstanding' = Outstanding
    BY <1>5, ReceiveType, OtherRequestsKeepOutstanding DEF HandleSet
  <2>2. \/ UNCHANGED <<rows, completed, gen>>
        \/ /\ data.payload # Malformed
           /\ rows' = [rows EXCEPT ![key] = job] /\ completed' = completed \ {key}
           /\ gen' = [gen EXCEPT ![key] = @ + 1]
    BY <1>5 DEF HandleSet, Acceptable, memory, history
  <2>3. data.payload # Malformed => job # NoJob
    BY <2>1, ConstantsAssumption DEF SetData, Job, TypeOK
  <2> HIDE DEF key, job, data
  <2>4. CASE data.payload # Malformed /\ rows' = [rows EXCEPT ![key] = job]
             /\ completed' = completed \ {key} /\ gen' = [gen EXCEPT ![key] = @ + 1]
    <3>0. PICK t \in Keys : t = key
      BY <2>1
    <3>1. Stages' = [Stages EXCEPT ![t] = "pending"]
      BY <2>1, <3>0, <2>3, <2>4 DEF Stages, Stage, TypeOK
    <3>2. Timer!Set(t)
      BY <2>1, <3>0, <2>4, <3>1 DEF Timer!Set, Stages, Stage, Attempts
    <3> QED BY <1>0, <3>2 DEF TimerStep
  <2> QED BY <1>2, <2>1, <2>2, <2>4
<1>6. CASE HandleCancel
  <2> DEFINE key == Head(inbox).key
  <2>1. key \in Keys /\ Outstanding' = Outstanding
    BY <1>6, ReceiveType, OtherRequestsKeepOutstanding DEF HandleCancel
  <2>2. /\ gen' = gen
        /\ \/ UNCHANGED <<rows, completed>>
           \/ rows' = [rows EXCEPT ![key] = NoJob] /\ completed' = completed \ {key}
    BY <1>6 DEF HandleCancel, memory, history
  <2> HIDE DEF key
  <2>3. CASE rows' = [rows EXCEPT ![key] = NoJob] /\ completed' = completed \ {key}
    <3>0. PICK t \in Keys : t = key
      BY <2>1
    <3>1. Stages' = [Stages EXCEPT ![t] = "none"]
      BY <2>1, <3>0, <2>3 DEF Stages, Stage, TypeOK
    <3>2. Timer!Cancel(t)
      BY <2>1, <3>0, <2>2, <3>1 DEF Timer!Cancel, Stages, Stage, Attempts
    <3> QED BY <1>0, <3>2 DEF TimerStep
  <2> QED BY <1>2, <2>1, <2>2, <2>3
<1>7. CASE HandleComplete
  <2> DEFINE attempt == Head(inbox).attempt
             ok      == Head(inbox).ok
  <2>1. /\ attempt \in Delivery /\ ok \in BOOLEAN /\ attempt \in Outstanding
        /\ \A d \in Outstanding : d \in Outstanding' \/ d = attempt
        /\ Outstanding' \subseteq Outstanding
    BY <1>7, ReceiveType, InboxReceive, ReceiveKeepsOutstanding DEF HandleComplete
  <2>2. /\ gen' = gen
        /\ \/ /\ ~Current(attempt) \/ ~ok
              /\ UNCHANGED <<rows, completed>>
           \/ /\ Current(attempt) /\ ok
              /\ \/ rows' = [rows EXCEPT ![attempt.key] = NoJob] /\ UNCHANGED completed
                 \/ UNCHANGED rows /\ completed' = completed \cup {attempt.key}
    BY <1>7 DEF HandleComplete
  <2> HIDE DEF attempt, ok
  <2>0. PICK t \in Keys, v \in Nat, okay \in BOOLEAN : t = attempt.key /\ v = attempt.gen /\ okay = ok
    BY <2>1 DEF Delivery
  <2>3. t \in Keys /\ v \in Nat /\ attempt.job # NoJob /\ <<t, v>> \in Attempts
    BY <2>0, <2>1, ConstantsAssumption DEF Delivery, Attempts
  <2>4. Attempts' \in {Attempts, Attempts \ {<<t, v>>}}
    BY <2>0, <2>1 DEF Attempts
  <2>5. \/ ~Current(attempt) \/ ~okay
        \/ v = gen[t] /\ Stages[t] # "none"
    <3> SUFFICES ASSUME Current(attempt) PROVE v = gen[t] /\ Stages[t] # "none"
      OBVIOUS
    <3>1. jobs[t] = attempt.job /\ rows[t] = attempt.job
      BY <2>0, <2>3 DEF Current, MapIsStored
    <3>2. v = gen[t]
      BY <2>0, <2>1, <2>3, <3>1, OlderAttemptsDiffer DEF IInv, StaleAttemptsDiffer
    <3> QED BY <2>3, <3>1, <3>2 DEF Stages, Stage
  <2>6. \/ Current(attempt)
        \/ v # gen[t] \/ Stages[t] = "none"
    BY <2>0, <2>1, <2>3 DEF Current, AttemptsAreCurrent, Stages, Stage
  <2>7. IF okay /\ v = gen[t] /\ Stages[t] # "none"
        THEN \E settled \in {"none", "served"} : Stages' = [Stages EXCEPT ![t] = settled]
        ELSE Stages' = Stages
    <3>1. CASE UNCHANGED <<rows, completed>> /\ (~Current(attempt) \/ ~okay)
      BY <2>6, <3>1 DEF Stages, Stage
    <3>2. CASE Current(attempt) /\ okay /\ rows' = [rows EXCEPT ![t] = NoJob] /\ UNCHANGED completed
      <4>1. Stages' = [Stages EXCEPT ![t] = "none"]
        BY <2>3, <3>2 DEF Stages, Stage, TypeOK
      <4> QED BY <2>5, <3>2, <4>1
    <3>3. CASE Current(attempt) /\ okay /\ UNCHANGED rows /\ completed' = completed \cup {t}
      <4>1. Stages' = [Stages EXCEPT ![t] = "served"]
        BY <2>3, <2>5, <3>3 DEF Stages, Stage, TypeOK
      <4> QED BY <2>5, <3>3, <4>1
    <3> QED BY <2>0, <2>2, <3>1, <3>2, <3>3
  <2>8. Timer!Settle(t, v, okay)
    BY <2>2, <2>3, <2>4, <2>7 DEF Timer!Settle, Stages, Stage, Attempts
  <2>9. \E a \in Attempts, o \in BOOLEAN : Timer!Settle(a[1], a[2], o)
    <3>1. <<t, v>>[1] = t /\ <<t, v>>[2] = v
      OBVIOUS
    <3> QED BY <2>1, <2>8, <3>1, <2>3
  <2> QED BY <2>9 DEF ServiceStep, Timer!ServiceNext, Attempts
<1>8. ASSUME NEW k \in Keys, NEW data \in SetData, RequestSet(k, data) PROVE ServiceStep
  <2>1. [op |-> "set", key |-> k, data |-> data] \in Request
    BY RequestTypes
  <2>2. Outstanding' = Outstanding
    BY <1>8, <2>1, InboxAppend, AppendKeepsOutstanding DEF RequestSet
  <2> QED BY <1>2, <1>8, <2>2 DEF RequestSet, memory, history
<1>9. ASSUME NEW k \in Keys, RequestCancel(k) PROVE ServiceStep
  <2>1. [op |-> "cancel", key |-> k] \in Request
    BY RequestTypes
  <2>2. Outstanding' = Outstanding
    BY <1>9, <2>1, InboxAppend, AppendKeepsOutstanding DEF RequestCancel
  <2> QED BY <1>2, <1>9, <2>2 DEF RequestCancel, memory, history
<1>10. ASSUME NEW s \in Slots, NEW ok \in BOOLEAN, Complete(s, ok) PROVE ServiceStep
  <2>1. sent[s] \in Delivery /\ sent[s] \in Outstanding
    BY <1>10 DEF Complete, Outstanding, Held, TypeOK
  <2>2. [op |-> "complete", attempt |-> sent[s], ok |-> ok] \in Request
    BY <2>1, RequestTypes
  <2>3. \A x \in Slots : sent'[x] \in {sent[x], NoJob} /\ (x # s => sent'[x] = sent[x])
    BY <1>10 DEF Complete, TypeOK
  <2>4. Outstanding' = Outstanding
    BY <1>10, <2>1, <2>2, <2>3, InboxAppend, AppendKeepsOutstanding DEF Complete
  <2> QED BY <1>2, <1>10, <2>4 DEF Complete, memory, history
<1>11. CASE Restart
  <2>1. inbox' = <<>> /\ DOMAIN inbox' = {} /\ \A s \in Slots : sent'[s] = NoJob
    BY <1>11 DEF Restart
  <2>2. Attempts' = {}
    BY <2>1 DEF Attempts, Outstanding, Held
  <2>3. Stages' = [k \in Keys |-> IF Stages[k] = "none" THEN "none" ELSE "pending"]
    BY <1>11 DEF Restart, Stages, Stage
  <2>4. Timer!StartAnew
    BY <1>11, <2>2, <2>3 DEF Timer!StartAnew, Restart, Stages, Stage, Attempts
  <2> QED BY <2>4 DEF ServiceStep, Timer!ServiceNext
<1>12. CASE BeginFinish \/ BeginDeliver \/ EndDeliver \/ ReceiveTimeout \/ Tick
             \/ UNCHANGED vars
  <2>1. UNCHANGED <<inbox, sent, rows, completed, gen>>
    BY <1>12 DEF BeginFinish, BeginDeliver, EndDeliver, ReceiveTimeout, Tick, memory, history, vars
  <2> QED BY <1>2, <2>1 DEF Outstanding, Held
<1> QED BY <1>3, <1>4, <1>5, <1>6, <1>7, <1>8, <1>9, <1>10, <1>11, <1>12
        DEF Next, Thread, Environment

\* However jobs are replaced, cancelled, refused, answered late or lost with the process,
\* the rows and the attempts behave as a durable timer service: as long as no profile
\* is erased, which deletes rows behind the thread's back.
THEOREM TimersArePromised ==
  Spec /\ [][\A o \in Owners : ~EraseOwner(o)]_vars => TimersAreDurable
<1> DEFINE Mapped == MapIsStored /\ BatchIsServed /\ AttemptsAreCurrent
           NoErasure == \A o \in Owners : ~EraseOwner(o)
<1>1. Init => Mapped /\ ServedIsSettled /\ Timer!ServiceInit
  <2> SUFFICES ASSUME Init PROVE Mapped /\ ServedIsSettled /\ Timer!ServiceInit
    OBVIOUS
  <2>1. Outstanding = {}
    <3>1. inbox = <<>> /\ DOMAIN inbox = {} /\ \A s \in Slots : sent[s] = NoJob
      BY DEF Init
    <3> QED BY <3>1 DEF Outstanding, Held
  <2>2. Mapped /\ ServedIsSettled
    BY <2>1 DEF Init, MapIsStored, BatchIsServed, AttemptsAreCurrent, ServedIsSettled
  <2>3. Stages = [k \in Keys |-> "none"] /\ Attempts = {} /\ gen = [k \in Keys |-> 0]
    BY <2>1 DEF Init, Stages, Stage, Attempts
  <2> QED BY <2>2, <2>3, StagesAreMapped
<1>2. IInv /\ Mapped /\ [Next]_vars /\ [NoErasure]_vars => Mapped'
  <2>1. CASE UNCHANGED vars
    BY <2>1 DEF vars, memory, thread, history, MapIsStored, BatchIsServed, AttemptsAreCurrent,
       Outstanding, Held
  <2>2. CASE NoErasure
    BY <2>2, MapStep, CurrentStep DEF IInv
  <2> QED BY <2>1, <2>2
<1>3. IInv /\ ServedIsSettled /\ Mapped /\ [Next]_vars /\ [NoErasure]_vars
        => [Timer!ServiceNext]_(Timer!serviceVars)
  <2>1. CASE UNCHANGED vars
    BY <2>1 DEF vars, memory, thread, history, Timer!serviceVars, Outstanding, Held
  <2>2. CASE NoErasure
    BY <2>2, ServiceStepHolds, StagesAreMapped DEF IInv
  <2> QED BY <2>1, <2>2
<1>4. Spec => []ServedIsSettled
  BY <1>1, SettledStep, TypeCorrect, PTL DEF Spec
<1>5. Spec /\ [][NoErasure]_vars => []Mapped
  BY <1>1, <1>2, Invariance, PTL DEF Spec
<1> HIDE DEF Mapped, NoErasure
<1>6. Spec /\ [][NoErasure]_vars => Timer!ServiceInit /\ [][Timer!ServiceNext]_(Timer!serviceVars)
  BY <1>1, <1>3, <1>4, <1>5, Invariance, PTL DEF Spec
<1> QED BY <1>6 DEF TimersAreDurable, Timer!Service, NoErasure

-----------------------------------------------------------------------------
(* The console.                                                            *)

\* Whom an administrator's entry admits.
Admits(row) ==
  IF row.pinned # NoAccount THEN {<<"account", row.pinned>>}
  ELSE IF row.account # NoAccount THEN {<<"account", row.account>>}
  ELSE {<<"host", h>> : h \in row.host}

\* An entry, and who was admitted by it.
EntryHolds(row, trusted) ==
  /\ {"pinned", "account", "host"} \subseteq DOMAIN row
  /\ row.host = {} \/ \E h : row.host = {h}
  /\ trusted \subseteq Admits(row)

\* Who was admitted since an entry was saved is whom the entry says; one that says nobody yet
\* has admitted nobody.
RolesInv ==
  /\ "admins" \in DOMAIN db /\ {"trusted", "saves", "mishaps"} \subseteq DOMAIN world
  /\ DOMAIN db.admins \subseteq Spellings /\ DOMAIN world.trusted = Spellings
  /\ \A n \in DOMAIN db.admins : EntryHolds(db.admins[n], world.trusted[n])
  /\ \A n \in Spellings \ DOMAIN db.admins : world.trusted[n] = {}

LEMMA RolesInit == ASSUME Console!Init PROVE RolesInv
  BY DEF Console!Init, RolesInv

LEMMA SaveAdminStep == ASSUME RolesInv, Console!SaveAdmin PROVE RolesInv'
<1>1. PICK n \in Spellings, a \in Accounts \cup {NoAccount} :
        /\ db' = [db EXCEPT !.admins = [x \in DOMAIN @ \cup {n} |-> IF x = n THEN Console!Unbound(a) ELSE @[x]]]
        /\ world' = [world EXCEPT !.saves = @ + 1, !.trusted[n] = {}]
  BY DEF Console!SaveAdmin
<1>2. /\ DOMAIN db' = DOMAIN db
      /\ db'.admins = [x \in DOMAIN db.admins \cup {n} |-> IF x = n THEN Console!Unbound(a) ELSE db.admins[x]]
  BY <1>1 DEF RolesInv
<1>3. /\ DOMAIN world' = DOMAIN world /\ world'.trusted = [world.trusted EXCEPT ![n] = {}]
  BY <1>1 DEF RolesInv
<1>4. EntryHolds(Console!Unbound(a), {})
  BY DEF EntryHolds, Console!Unbound
<1>5. \A x \in DOMAIN db.admins \cup {n} :
        db'.admins[x] = IF x = n THEN Console!Unbound(a) ELSE db.admins[x]
  BY <1>2
<1>6. DOMAIN db'.admins = DOMAIN db.admins \cup {n}
  BY <1>2
<1>7. \A x \in Spellings : world'.trusted[x] = IF x = n THEN {} ELSE world.trusted[x]
  BY <1>3 DEF RolesInv
<1>8. DOMAIN world'.trusted = Spellings /\ DOMAIN db'.admins \subseteq Spellings
  BY <1>3, <1>6 DEF RolesInv
<1>9. /\ \A x \in DOMAIN db'.admins : EntryHolds(db'.admins[x], world'.trusted[x])
      /\ \A x \in Spellings \ DOMAIN db'.admins : world'.trusted[x] = {}
  BY <1>4, <1>5, <1>6, <1>7 DEF RolesInv
<1> QED
  BY <1>2, <1>3, <1>8, <1>9 DEF RolesInv

LEMMA DeleteAdminStep == ASSUME RolesInv, Console!DeleteAdmin PROVE RolesInv'
<1>1. PICK n \in DOMAIN db.admins :
        LET gone == IF n \in Cased THEN Cased ELSE {n}
        IN /\ db' = [db EXCEPT !.admins = [x \in DOMAIN @ \ gone |-> @[x]]]
           /\ world' = [world EXCEPT !.trusted = [x \in Spellings |-> IF x \in gone THEN {} ELSE @[x]]]
  BY DEF Console!DeleteAdmin
<1> DEFINE gone == IF n \in Cased THEN Cased ELSE {n}
<1>2. DOMAIN db' = DOMAIN db /\ db'.admins = [x \in DOMAIN db.admins \ gone |-> db.admins[x]]
  BY <1>1 DEF RolesInv
<1>3. /\ DOMAIN world' = DOMAIN world
      /\ world'.trusted = [x \in Spellings |-> IF x \in gone THEN {} ELSE world.trusted[x]]
  BY <1>1 DEF RolesInv
<1> HIDE DEF gone
<1>4. /\ DOMAIN db'.admins = DOMAIN db.admins \ gone
      /\ \A x \in DOMAIN db.admins \ gone : db'.admins[x] = db.admins[x]
  BY <1>2
<1>5. /\ DOMAIN world'.trusted = Spellings
      /\ \A x \in Spellings : world'.trusted[x] = IF x \in gone THEN {} ELSE world.trusted[x]
  BY <1>3
<1>6. /\ \A x \in DOMAIN db'.admins : EntryHolds(db'.admins[x], world'.trusted[x])
      /\ \A x \in Spellings \ DOMAIN db'.admins : world'.trusted[x] = {}
  BY <1>4, <1>5 DEF RolesInv
<1> QED
  BY <1>2, <1>3, <1>4, <1>5, <1>6 DEF RolesInv

LEMMA LeastOf == ASSUME NEW S, S \subseteq Nat, S # {} PROVE \E n \in S : \A m \in S : n <= m
<1>1. IsWellFoundedOn(OpToRel(<, Nat), Nat)
  BY NatLessThanWellFounded
<1>2. PICK n \in S : \A m \in S : ~(<<m, n>> \in OpToRel(<, Nat))
  BY <1>1, WFMin
<1>3. \A m \in S : ~(m < n)
  BY <1>2 DEF OpToRel
<1> QED BY <1>3

\* The first entry of this nick is one of its entries.
LEMMA FirstOfNick ==
  ASSUME NEW S, S \subseteq Spellings, S # {}
  PROVE  Console!Min(S) \in S
  BY LeastOf, ConsoleConstants DEF Console!Min, Console!ConsoleAssumption

LEMMA GrantStep ==
  ASSUME RolesInv, NEW n \in DOMAIN db.admins, NEW identity, identity \in Admits(db.admins[n]),
         db' = db, world' = Console!Granted(n, identity)
  PROVE  RolesInv'
<1>1. /\ DOMAIN world' = DOMAIN world /\ world'.trusted = [world.trusted EXCEPT ![n] = @ \cup {identity}]
  BY DEF RolesInv, Console!Granted
<1>2. \A m \in Spellings : world'.trusted[m] = IF m = n THEN world.trusted[m] \cup {identity} ELSE world.trusted[m]
  BY <1>1 DEF RolesInv
<1>3. EntryHolds(db.admins[n], world.trusted[n] \cup {identity})
  BY DEF RolesInv, EntryHolds
<1>4. \A m \in DOMAIN db.admins : EntryHolds(db.admins[m], world'.trusted[m])
  BY <1>2, <1>3 DEF RolesInv
<1>5. \A m \in Spellings \ DOMAIN db.admins : world'.trusted[m] = {}
  BY <1>2 DEF RolesInv
<1>6. DOMAIN world'.trusted = Spellings
  BY <1>1 DEF RolesInv
<1> QED
  BY <1>1, <1>4, <1>5, <1>6 DEF RolesInv

LEMMA BindStep ==
  ASSUME RolesInv, NEW n \in DOMAIN db.admins, NEW account, NEW host, NEW spelling,
         db.admins[n].pinned = NoAccount, db.admins[n].account = NoAccount, db.admins[n].host = {},
         db' = Console!Bound(n, spelling, account, IF account # NoAccount THEN {} ELSE {host}),
         world' = Console!Granted(n, IF account # NoAccount THEN <<"account", account>> ELSE <<"host", host>>)
  PROVE  RolesInv'
<1> DEFINE hosts == IF account # NoAccount THEN {} ELSE {host}
           identity == IF account # NoAccount THEN <<"account", account>> ELSE <<"host", host>>
           row == [db.admins[n] EXCEPT !.account = account, !.host = hosts]
<1>1. /\ DOMAIN world' = DOMAIN world /\ world'.trusted = [world.trusted EXCEPT ![n] = @ \cup {identity}]
  BY DEF RolesInv, Console!Granted
<1>2. DOMAIN db' = DOMAIN db /\ db'.admins = [db.admins EXCEPT ![n] = row]
  BY DEF RolesInv, Console!Bound
<1>3. /\ {"pinned", "account", "host"} \subseteq DOMAIN row
      /\ row.host = hosts /\ row.account = account /\ row.pinned = NoAccount
  BY DEF RolesInv, EntryHolds
<1>4. world.trusted[n] = {}
  BY DEF RolesInv, EntryHolds, Admits
<1>5. hosts = {} \/ \E h : hosts = {h}
  OBVIOUS
<1>6. identity \in Admits(row)
  <2>1. CASE account # NoAccount
    BY <1>3, <2>1 DEF Admits
  <2>2. CASE account = NoAccount
    BY <1>3, <2>2 DEF Admits
  <2> QED BY <2>1, <2>2
<1> HIDE DEF row, hosts, identity
<1>7. EntryHolds(row, {identity})
  BY <1>3, <1>5, <1>6 DEF EntryHolds
<1>8. /\ DOMAIN db'.admins = DOMAIN db.admins /\ db'.admins[n] = row
      /\ \A m \in DOMAIN db.admins \ {n} : db'.admins[m] = db.admins[m]
  BY <1>2
<1>9. /\ DOMAIN world'.trusted = Spellings /\ world'.trusted[n] = {identity}
      /\ \A m \in Spellings \ {n} : world'.trusted[m] = world.trusted[m]
  BY <1>1, <1>4 DEF RolesInv
<1>10. \A m \in DOMAIN db'.admins : EntryHolds(db'.admins[m], world'.trusted[m])
  BY <1>7, <1>8, <1>9 DEF RolesInv
<1>11. \A m \in Spellings \ DOMAIN db'.admins : world'.trusted[m] = {}
  BY <1>8, <1>9 DEF RolesInv
<1> QED
  BY <1>1, <1>2, <1>8, <1>9, <1>10, <1>11 DEF RolesInv

LEMMA ResolveStep ==
  ASSUME RolesInv, NEW spelling, NEW account, NEW host, Console!ResolveRole(spelling, account, host)
  PROVE  RolesInv'
<1> DEFINE n == Console!Min(DOMAIN db.admins)
           row == db.admins[n]
<1>1. n \in DOMAIN db.admins
  BY FirstOfNick DEF RolesInv, Console!ResolveRole
<1>2. \/ /\ row.pinned # NoAccount \/ row.account # NoAccount
         /\ account = IF row.pinned # NoAccount THEN row.pinned ELSE row.account
         /\ db' = db /\ world' = Console!Granted(n, <<"account", account>>)
      \/ /\ row.pinned = NoAccount /\ row.account = NoAccount /\ row.host = {host}
         /\ db' = db /\ world' = Console!Granted(n, <<"host", host>>)
      \/ /\ row.pinned = NoAccount /\ row.account = NoAccount /\ row.host = {}
         /\ db' = Console!Bound(n, spelling, account, IF account # NoAccount THEN {} ELSE {host})
         /\ world' = Console!Granted(n, IF account # NoAccount THEN <<"account", account>> ELSE <<"host", host>>)
      \/ db' = db /\ world' = Console!Mishap(world)
  BY DEF Console!ResolveRole
<1> HIDE DEF n
<1>3. ASSUME row.pinned # NoAccount \/ row.account # NoAccount,
             account = IF row.pinned # NoAccount THEN row.pinned ELSE row.account,
             db' = db, world' = Console!Granted(n, <<"account", account>>)
      PROVE  RolesInv'
  <2>1. <<"account", account>> \in Admits(row)
    BY <1>3 DEF Admits
  <2> QED BY <1>1, <1>3, <2>1, GrantStep
<1>4. ASSUME row.pinned = NoAccount, row.account = NoAccount, row.host = {host},
             db' = db, world' = Console!Granted(n, <<"host", host>>)
      PROVE  RolesInv'
  <2>1. <<"host", host>> \in Admits(row)
    BY <1>4 DEF Admits
  <2> QED BY <1>1, <1>4, <2>1, GrantStep
<1>5. ASSUME row.pinned = NoAccount, row.account = NoAccount, row.host = {},
             db' = Console!Bound(n, spelling, account, IF account # NoAccount THEN {} ELSE {host}),
             world' = Console!Granted(n, IF account # NoAccount THEN <<"account", account>> ELSE <<"host", host>>)
      PROVE  RolesInv'
  BY <1>1, <1>5, BindStep
<1>6. ASSUME db' = db, world' = Console!Mishap(world) PROVE RolesInv'
  <2>1. DOMAIN world' = DOMAIN world /\ world'.trusted = world.trusted
    BY <1>6 DEF Console!Mishap, RolesInv
  <2> QED BY <1>6, <2>1 DEF RolesInv
<1> QED BY <1>2, <1>3, <1>4, <1>5, <1>6

LEMMA RolesStep == ASSUME RolesInv, Console!Roles PROVE RolesInv'
  BY SaveAdminStep, DeleteAdminStep, ResolveStep DEF Console!Roles

LEMMA SameCardinality == \A S : Console!Cardinality(S) = Cardinality(S)
  BY Zenon DEF Console!Cardinality, Cardinality

LEMMA RolesFollow == RolesInv => Console!TrustIsGivenOnce
<1> SUFFICES ASSUME RolesInv, NEW n \in Spellings PROVE Console!Cardinality(world.trusted[n]) <= 1
  BY DEF Console!TrustIsGivenOnce
<1>1. world.trusted[n] = {} \/ \E x : world.trusted[n] = {x}
  <2>1. CASE n \notin DOMAIN db.admins
    BY <2>1 DEF RolesInv
  <2>2. CASE n \in DOMAIN db.admins
    <3> DEFINE row == db.admins[n]
    <3>1. EntryHolds(row, world.trusted[n])
      BY <2>2 DEF RolesInv
    <3> HIDE DEF row
    <3>2. PICK x : Admits(row) \subseteq {x}
      BY <3>1 DEF EntryHolds, Admits
    <3> QED BY <3>1, <3>2 DEF EntryHolds
  <2> QED BY <2>1, <2>2
<1>2. Cardinality({}) = 0 /\ \A x : Cardinality({x}) = 1
  BY FS_EmptySet, FS_Singleton
<1>3. Cardinality(world.trusted[n]) \in {0, 1}
  BY <1>1, <1>2
<1> QED BY <1>3, SameCardinality

-----------------------------------------------------------------------------
(* Repairs.                                                                *)

ModuleRows == [Rows -> [People -> Nat]]

IsProfile(p) == p = [id |-> p.id, fields |-> p.fields] /\ p.id \in Nat

\* A handler holds what it read, or the subject's share was cleared since.
HandlerHolds(h, held) ==
  h # Console!Nothing =>
    /\ h.step = "write" /\ h.key \in Rows /\ h.for \in People /\ h.row \in [People -> Nat]
    /\ h.row = held[h.key] \/ held[h.key][Subject] = 0
    /\ \A p \in People \ {Subject} : h.row[p] = held[h.key][p]

\* No row has lost anything since the plan was made from it, and none of the plan's held is about
\* to be written as it was before.
PlanStands(c, h, held) ==
  /\ DOMAIN c.plan \subseteq Rows /\ c.expected \in ModuleRows
  /\ \A k \in DOMAIN c.plan :
       /\ c.plan[k] = [c.expected[k] EXCEPT ![Subject] = 0]
       /\ h # Console!Nothing /\ h.key = k => h.row = held[k]
       /\ \A p \in People : c.expected[k][p] <= held[k][p]

\* The snapshot was taken between the preview and now.
SnapshotStands(c, snapshot, id, held) ==
  /\ snapshot.step = "taken" /\ snapshot.profile.id \in Nat
  /\ c.shown.id <= snapshot.profile.id /\ snapshot.profile.id <= id
  /\ c.kind = "reset" =>
       /\ snapshot.rows \in ModuleRows
       /\ \A k \in DOMAIN c.plan, p \in People :
            c.expected[k][p] <= snapshot.rows[k][p] /\ snapshot.rows[k][p] <= held[k][p]

ConsoleHolds(c, h, snapshot, id, held) ==
  c # Console!Nothing =>
    /\ c.step \in {"detail", "planned", "confirm", "apply"} /\ IsProfile(c.shown) /\ c.shown.id <= id
    /\ c.step # "detail" => {"step", "kind", "shown"} \subseteq DOMAIN c
    /\ c.step # "detail" => c.kind \in {"repair", "reset"}
    /\ c.step # "detail" /\ c.kind = "reset" => PlanStands(c, h, held)
    /\ c.step = "planned" => c.kind = "reset"
    /\ c.step = "apply" => SnapshotStands(c, snapshot, id, held)

RepairsInv ==
  /\ {"profile", "rows"} \subseteq DOMAIN db
  /\ {"console", "snapshot", "handler", "deeds", "edits", "did", "mishaps"} \subseteq DOMAIN world
  /\ IsProfile(db.profile) /\ db.rows \in ModuleRows /\ world.deeds \in ModuleRows
  /\ \A k \in Rows, p \in People \ {Subject} : db.rows[k][p] = world.deeds[k][p]
  /\ HandlerHolds(world.handler, db.rows)
  /\ ConsoleHolds(world.console, world.handler, world.snapshot, db.profile.id, db.rows)

LEMMA RepairsInit == ASSUME Console!Init PROVE RepairsInv
<1>1. /\ {"profile", "rows"} \subseteq DOMAIN db
      /\ {"console", "snapshot", "handler", "deeds", "edits", "did", "mishaps"} \subseteq DOMAIN world
      /\ world.handler = Console!Nothing /\ world.console = Console!Nothing
  BY DEF Console!Init
<1>2. IsProfile(db.profile)
  BY DEF Console!Init, IsProfile
<1>3. /\ db.rows = [k \in Rows |-> [p \in People |-> 0]]
      /\ world.deeds = [k \in Rows |-> [p \in People |-> 0]]
  BY DEF Console!Init
<1> QED
  BY <1>1, <1>2, <1>3 DEF RepairsInv, HandlerHolds, ConsoleHolds, ModuleRows

\* A row is written.
LEMMA ChangedRow ==
  ASSUME NEW R, NEW T, NEW F \in [R -> T], NEW r \in R, NEW v \in T
  PROVE  /\ [F EXCEPT ![r] = v] \in [R -> T] /\ [F EXCEPT ![r] = v][r] = v
         /\ \A k \in R \ {r} : [F EXCEPT ![r] = v][k] = F[k]
  OBVIOUS

\* What the profile's owner does meanwhile.
LEMMA OwnerStep ==
  ASSUME RepairsInv, Console!SetField \/ Console!Erased
  PROVE  RepairsInv'
<1>1. /\ DOMAIN db' = DOMAIN db /\ db'.rows = db.rows /\ DOMAIN world' = DOMAIN world
      /\ world'.handler = world.handler /\ world'.console = world.console
      /\ world'.snapshot = world.snapshot /\ world'.deeds = world.deeds
  BY DEF RepairsInv, Console!SetField, Console!Erased
<1>2. IsProfile(db'.profile) /\ db'.profile.id >= db.profile.id
  <2>1. CASE Console!SetField
    <3>1. PICK f \in ProfileFields, t \in Titles : db' = [db EXCEPT !.profile.fields[f] = t]
      BY <2>1 DEF Console!SetField
    <3>2. db'.profile = [db.profile EXCEPT !.fields = [@ EXCEPT ![f] = t]]
      BY <3>1 DEF RepairsInv
    <3> QED BY <3>2 DEF RepairsInv, IsProfile
  <2>2. CASE Console!Erased
    <3>1. PICK fields : db'.profile = [id |-> db.profile.id + 1, fields |-> fields]
      BY <2>2 DEF Console!Erased, RepairsInv
    <3> QED BY <3>1 DEF RepairsInv, IsProfile
  <2> QED BY <2>1, <2>2
<1> DEFINE id == db.profile.id
           later == db'.profile.id
<1>3. id \in Nat /\ later \in Nat /\ id <= later
  BY <1>2 DEF RepairsInv, IsProfile
<1> HIDE DEF id, later
<1>4. ASSUME NEW c, NEW h, NEW s, NEW held, ConsoleHolds(c, h, s, id, held)
      PROVE  ConsoleHolds(c, h, s, later, held)
  BY <1>3, <1>4 DEF ConsoleHolds, SnapshotStands, IsProfile
<1>5. ConsoleHolds(world.console, world.handler, world.snapshot, later, db.rows)
  BY <1>4 DEF RepairsInv, id
<1> QED BY <1>1, <1>2, <1>5 DEF RepairsInv, later

LEMMA HandlerReadsStep == ASSUME RepairsInv, Console!HandlerReads PROVE RepairsInv'
<1>1. PICK k \in Rows, p \in People :
        world' = [world EXCEPT !.did = @ + 1, !.handler = [step |-> "write", key |-> k, for |-> p, row |-> db.rows[k]]]
  BY DEF Console!HandlerReads
<1>2. db' = db /\ world.handler = Console!Nothing
  BY DEF Console!HandlerReads
<1> DEFINE h == [step |-> "write", key |-> k, for |-> p, row |-> db.rows[k]]
<1>3. /\ DOMAIN world' = DOMAIN world /\ world'.handler = h /\ world'.console = world.console
      /\ world'.snapshot = world.snapshot /\ world'.deeds = world.deeds
  BY <1>1 DEF RepairsInv
<1>4. HandlerHolds(h, db.rows)
  BY DEF HandlerHolds, RepairsInv, ModuleRows
<1>5. h.row = db.rows[k] /\ h.key = k
  OBVIOUS
<1> HIDE DEF h
<1>6. ASSUME NEW c, PlanStands(c, world.handler, db.rows) PROVE PlanStands(c, h, db.rows)
  BY <1>5, <1>6 DEF PlanStands
<1>7. ConsoleHolds(world.console, h, world.snapshot, db.profile.id, db.rows)
  BY <1>6 DEF RepairsInv, ConsoleHolds
<1> QED BY <1>2, <1>3, <1>4, <1>7 DEF RepairsInv

LEMMA HandlerWritesStep == ASSUME RepairsInv, Console!HandlerWrites PROVE RepairsInv'
<1> DEFINE h == world.handler
           r == h.key
           row == [h.row EXCEPT ![h.for] = @ + 1]
<1>1. /\ h # Console!Nothing /\ db' = [db EXCEPT !.rows[h.key] = row]
      /\ world' = [world EXCEPT !.handler = Console!Nothing, !.deeds[h.key][h.for] = @ + 1]
  BY DEF Console!HandlerWrites, Console!Nothing
<1>2. /\ r \in Rows /\ h.for \in People /\ h.row \in [People -> Nat]
      /\ h.row = db.rows[r] \/ db.rows[r][Subject] = 0
      /\ \A p \in People \ {Subject} : h.row[p] = db.rows[r][p]
  BY <1>1 DEF RepairsInv, HandlerHolds
<1>3. /\ row \in [People -> Nat] /\ \A p \in People : row[p] >= h.row[p]
      /\ \A p \in People : row[p] = IF p = h.for THEN h.row[p] + 1 ELSE h.row[p]
  BY <1>2
<1>4. /\ DOMAIN db' = DOMAIN db /\ db'.rows = [db.rows EXCEPT ![r] = row] /\ db'.profile = db.profile
  BY <1>1, <1>2 DEF RepairsInv
<1>5. /\ DOMAIN world' = DOMAIN world /\ world'.handler = Console!Nothing /\ world'.console = world.console
      /\ world'.snapshot = world.snapshot
      /\ world'.deeds = [world.deeds EXCEPT ![r] = [world.deeds[r] EXCEPT ![h.for] = world.deeds[r][h.for] + 1]]
  BY <1>1, <1>2 DEF RepairsInv
<1> HIDE DEF row
<1>6. db'.rows \in ModuleRows /\ db'.rows[r] = row
  BY <1>2, <1>3, <1>4, ChangedRow DEF RepairsInv, ModuleRows
<1> DEFINE deed == [world.deeds[r] EXCEPT ![h.for] = world.deeds[r][h.for] + 1]
<1>14. /\ deed \in [People -> Nat]
       /\ \A p \in People : deed[p] = IF p = h.for THEN world.deeds[r][p] + 1 ELSE world.deeds[r][p]
  BY <1>2 DEF RepairsInv, ModuleRows
<1>15. world'.deeds = [world.deeds EXCEPT ![r] = deed]
  BY <1>5
<1> HIDE DEF deed
<1>7. /\ world'.deeds \in ModuleRows
      /\ \A p \in People : world'.deeds[r][p] = IF p = h.for THEN world.deeds[r][p] + 1 ELSE world.deeds[r][p]
  BY <1>2, <1>14, <1>15, ChangedRow DEF RepairsInv, ModuleRows
<1>8. \A k \in Rows, p \in People \ {Subject} : db'.rows[k][p] = world'.deeds[k][p]
  <2>1. ASSUME NEW p \in People \ {Subject} PROVE db'.rows[r][p] = world'.deeds[r][p]
    BY <1>2, <1>3, <1>6, <1>7, <2>1 DEF RepairsInv
  <2>2. \A k \in Rows \ {r} : db'.rows[k] = db.rows[k] /\ world'.deeds[k] = world.deeds[k]
    BY <1>4, <1>15 DEF RepairsInv, ModuleRows
  <2> QED BY <2>1, <2>2 DEF RepairsInv
<1>9. HandlerHolds(world'.handler, db'.rows)
  BY <1>5 DEF HandlerHolds
<1> DEFINE c == world.console
<1>10. ASSUME c # Console!Nothing, c.step # "detail", c.kind = "reset"
       PROVE  /\ PlanStands(c, Console!Nothing, db'.rows)
              /\ \A k \in DOMAIN c.plan, p \in People : db.rows[k][p] <= db'.rows[k][p]
  <2>1. PlanStands(c, h, db.rows)
    BY <1>10 DEF RepairsInv, ConsoleHolds
  <2>2. \A k \in DOMAIN c.plan : k \in Rows /\ (k = r => h.row = db.rows[k])
    BY <1>1, <2>1 DEF PlanStands
  <2>5. \A k \in Rows \ {r} : db'.rows[k] = db.rows[k]
    BY <1>4 DEF RepairsInv, ModuleRows
  <2>3. \A k \in DOMAIN c.plan, p \in People :
          /\ db.rows[k][p] \in Nat /\ db'.rows[k][p] \in Nat /\ c.expected[k][p] \in Nat
          /\ db.rows[k][p] <= db'.rows[k][p]
    <3>1. ASSUME NEW k \in DOMAIN c.plan, NEW p \in People
          PROVE  /\ db.rows[k][p] \in Nat /\ db'.rows[k][p] \in Nat /\ c.expected[k][p] \in Nat
                 /\ db.rows[k][p] <= db'.rows[k][p]
      <4>1. db.rows[k] \in [People -> Nat] /\ db'.rows[k] \in [People -> Nat] /\ c.expected[k] \in [People -> Nat]
        BY <1>6, <2>1, <2>2, <3>1 DEF RepairsInv, ModuleRows, PlanStands
      <4>2. CASE k = r
        <5>1. db'.rows[k][p] = row[p] /\ row[p] >= h.row[p] /\ h.row = db.rows[k]
          BY <1>3, <1>6, <2>2, <3>1, <4>2
        <5> QED BY <4>1, <5>1
      <4>3. CASE k # r
        BY <2>2, <2>5, <3>1, <4>1, <4>3
      <4> QED BY <4>2, <4>3
    <3> QED BY <3>1
  <2>4. \A k \in DOMAIN c.plan, p \in People : c.expected[k][p] <= db'.rows[k][p]
    <3>1. \A k \in DOMAIN c.plan, p \in People : c.expected[k][p] <= db.rows[k][p]
      BY <2>1 DEF PlanStands
    <3> QED BY <2>3, <3>1
  <2> QED BY <2>1, <2>3, <2>4 DEF PlanStands
<1>11. ASSUME c # Console!Nothing, c.step = "apply"
       PROVE  SnapshotStands(c, world.snapshot, db.profile.id, db'.rows)
  <2>1. SnapshotStands(c, world.snapshot, db.profile.id, db.rows)
    BY <1>11 DEF RepairsInv, ConsoleHolds
  <2>2. ASSUME c.kind = "reset", NEW k \in DOMAIN c.plan, NEW p \in People
        PROVE  world.snapshot.rows[k][p] <= db'.rows[k][p]
    <3>1. k \in Rows /\ db.rows[k][p] <= db'.rows[k][p]
      BY <1>10, <1>11, <2>2 DEF PlanStands
    <3>2. world.snapshot.rows[k][p] <= db.rows[k][p] /\ world.snapshot.rows \in ModuleRows
      BY <2>1, <2>2 DEF SnapshotStands
    <3> QED BY <3>1, <3>2, <1>6 DEF RepairsInv, ModuleRows
  <2> QED BY <2>1, <2>2 DEF SnapshotStands
<1>12. ConsoleHolds(c, Console!Nothing, world.snapshot, db.profile.id, db'.rows)
  BY <1>10, <1>11 DEF RepairsInv, ConsoleHolds
<1> QED BY <1>4, <1>5, <1>6, <1>7, <1>8, <1>9, <1>12 DEF RepairsInv

\* What only the console changes keeps the rest.
LEMMA ConsoleChanges ==
  ASSUME RepairsInv, UNCHANGED db, NEW c, NEW s,
         \/ world' = [world EXCEPT !.console = c] /\ s = world.snapshot
         \/ world' = [world EXCEPT !.console = c, !.snapshot = s]
         \/ world' = [world EXCEPT !.console = c, !.snapshot = s, !.mishaps = @ + 1],
         ConsoleHolds(c, world.handler, s, db.profile.id, db.rows)
  PROVE  RepairsInv'
<1>1. /\ DOMAIN world' = DOMAIN world /\ world'.handler = world.handler /\ world'.console = c
      /\ world'.snapshot = s /\ world'.deeds = world.deeds
  BY DEF RepairsInv
<1> QED BY <1>1 DEF RepairsInv

LEMMA DetailHolds ==
  ASSUME NEW shown, IsProfile(shown), NEW id, shown.id <= id, NEW h, NEW s, NEW held
  PROVE  ConsoleHolds([step |-> "detail", shown |-> shown], h, s, id, held)
  BY DEF ConsoleHolds

LEMMA OpenProfileStep == ASSUME RepairsInv, Console!OpenProfile PROVE RepairsInv'
<1> DEFINE c == [step |-> "detail", shown |-> db.profile]
<1>1. world' = [world EXCEPT !.console = c] /\ UNCHANGED db
  BY DEF Console!OpenProfile
<1>2. db.profile.id <= db.profile.id
  BY DEF RepairsInv, IsProfile
<1>3. ConsoleHolds(c, world.handler, world.snapshot, db.profile.id, db.rows)
  BY <1>2, DetailHolds DEF RepairsInv
<1> HIDE DEF c
<1> QED BY <1>1, <1>3, ConsoleChanges

LEMMA PreviewRepairStep == ASSUME RepairsInv, Console!PreviewRepair PROVE RepairsInv'
<1>1. PICK fields :
        world' = [world EXCEPT !.console = [step |-> "confirm", kind |-> "repair", shown |-> @.shown, fields |-> fields]]
  BY DEF Console!PreviewRepair
<1> DEFINE c == [step |-> "confirm", kind |-> "repair", shown |-> world.console.shown, fields |-> fields]
<1>2. world' = [world EXCEPT !.console = c] /\ UNCHANGED db
  BY <1>1 DEF RepairsInv, Console!PreviewRepair
<1>3. world.console # Console!Nothing /\ world.console.step = "detail"
  BY DEF Console!PreviewRepair, Console!Nothing
<1>4. ConsoleHolds(c, world.handler, world.snapshot, db.profile.id, db.rows)
  BY <1>3 DEF ConsoleHolds, RepairsInv
<1> HIDE DEF c
<1> QED BY <1>2, <1>4, ConsoleChanges

LEMMA PlanResetStep == ASSUME RepairsInv, Console!PlanReset PROVE RepairsInv'
<1> DEFINE touched == {k \in Rows : db.rows[k][Subject] > 0}
           plan == [k \in touched |-> [db.rows[k] EXCEPT ![Subject] = 0]]
           c == [step |-> "planned", kind |-> "reset", shown |-> world.console.shown,
                 expected |-> db.rows, plan |-> plan]
<1>1. world' = [world EXCEPT !.console = c] /\ UNCHANGED db
  BY DEF Console!PlanReset, RepairsInv
<1>2. world.console # Console!Nothing /\ world.console.step = "detail"
  BY DEF Console!PlanReset, Console!Nothing
<1>3. \A k \in Rows : db.rows[k] \in [People -> Nat]
  BY DEF RepairsInv, ModuleRows
<1>4. \A k \in touched : world.handler # Console!Nothing /\ world.handler.key = k => world.handler.row = db.rows[k]
  BY <1>3 DEF RepairsInv, HandlerHolds
<1>5. DOMAIN plan = touched /\ \A k \in touched : plan[k] = [db.rows[k] EXCEPT ![Subject] = 0]
  OBVIOUS
<1>6. /\ c.plan = plan /\ c.expected = db.rows /\ c.step = "planned" /\ c.kind = "reset"
      /\ c.shown = world.console.shown /\ {"step", "kind", "shown"} \subseteq DOMAIN c
  OBVIOUS
<1>7. touched \subseteq Rows /\ \A k \in touched, p \in People : db.rows[k][p] <= db.rows[k][p]
  BY <1>3
<1> HIDE DEF touched, plan, c
<1>8. PlanStands(c, world.handler, db.rows)
  BY <1>4, <1>5, <1>6, <1>7 DEF PlanStands, RepairsInv
<1>9. ConsoleHolds(c, world.handler, world.snapshot, db.profile.id, db.rows)
  BY <1>2, <1>6, <1>8 DEF ConsoleHolds, RepairsInv
<1> QED BY <1>1, <1>9, ConsoleChanges

LEMMA PlanArrivesStep == ASSUME RepairsInv, Console!PlanArrives PROVE RepairsInv'
<1> DEFINE c == [world.console EXCEPT !.step = "confirm"]
<1>1. world' = [world EXCEPT !.console = c] /\ UNCHANGED db
  BY DEF Console!PlanArrives, RepairsInv
<1>2. world.console # Console!Nothing /\ world.console.step = "planned"
  BY DEF Console!PlanArrives, Console!Nothing
<1>3. /\ {"step", "kind", "shown"} \subseteq DOMAIN world.console /\ world.console.kind = "reset"
      /\ PlanStands(world.console, world.handler, db.rows)
      /\ IsProfile(world.console.shown) /\ world.console.shown.id <= db.profile.id
  BY <1>2 DEF RepairsInv, ConsoleHolds
<1>4. /\ c.step = "confirm" /\ c.kind = "reset" /\ c.shown = world.console.shown
      /\ c.plan = world.console.plan /\ c.expected = world.console.expected
      /\ {"step", "kind", "shown"} \subseteq DOMAIN c
  BY <1>3
<1> HIDE DEF c
<1>5. PlanStands(c, world.handler, db.rows)
  BY <1>3, <1>4 DEF PlanStands
<1>6. ConsoleHolds(c, world.handler, world.snapshot, db.profile.id, db.rows)
  BY <1>3, <1>4, <1>5 DEF ConsoleHolds
<1> QED BY <1>1, <1>6, ConsoleChanges

LEMMA BackToDetailStep == ASSUME RepairsInv, Console!PlanIsLate \/ Console!Cancel PROVE RepairsInv'
<1> DEFINE c == [step |-> "detail", shown |-> world.console.shown]
<1>1. world' = [world EXCEPT !.console = c] /\ UNCHANGED db
  BY DEF Console!PlanIsLate, Console!Cancel, RepairsInv
<1>2. world.console # Console!Nothing
  BY DEF Console!PlanIsLate, Console!Cancel, Console!Nothing
<1>3. ConsoleHolds(c, world.handler, world.snapshot, db.profile.id, db.rows)
  BY <1>2, DetailHolds DEF RepairsInv, ConsoleHolds
<1> HIDE DEF c
<1> QED BY <1>1, <1>3, ConsoleChanges

LEMMA ConfirmStep == ASSUME RepairsInv, Console!Confirm PROVE RepairsInv'
<1> DEFINE old == world.console
           c == [old EXCEPT !.step = "apply"]
           s == [step |-> "taken", profile |-> db.profile, rows |-> db.rows]
<1>1. old # Console!Nothing /\ old.step = "confirm" /\ UNCHANGED db
  BY DEF Console!Confirm, Console!Nothing
<1>2. \/ world' = [world EXCEPT !.console = c, !.snapshot = s]
      \/ world' = [world EXCEPT !.console = old, !.snapshot = Console!Nothing, !.mishaps = @ + 1]
  <2>1. CASE world' = [world EXCEPT !.console.step = "apply", !.snapshot = s]
    BY <2>1 DEF RepairsInv
  <2>2. CASE world' = [[world EXCEPT !.mishaps = @ + 1] EXCEPT !.snapshot = Console!Nothing]
    BY <2>2 DEF RepairsInv
  <2> QED BY <2>1, <2>2 DEF Console!Confirm, Console!NoSnapshot, Console!Mishap
<1>3. /\ {"step", "kind", "shown"} \subseteq DOMAIN old /\ old.kind \in {"repair", "reset"}
      /\ old.kind = "reset" => PlanStands(old, world.handler, db.rows)
      /\ IsProfile(old.shown) /\ old.shown.id <= db.profile.id
  BY <1>1 DEF RepairsInv, ConsoleHolds
<1>4. /\ c.step = "apply" /\ c.kind = old.kind /\ c.shown = old.shown
      /\ c.plan = old.plan /\ c.expected = old.expected
      /\ {"step", "kind", "shown"} \subseteq DOMAIN c
  BY <1>3
<1>5. s.step = "taken" /\ s.profile = db.profile /\ s.rows = db.rows
  OBVIOUS
<1>6. ConsoleHolds(old, world.handler, Console!Nothing, db.profile.id, db.rows)
  BY <1>1 DEF RepairsInv, ConsoleHolds
<1> HIDE DEF c, s, old
<1>7. c.kind = "reset" => PlanStands(c, world.handler, db.rows)
  BY <1>3, <1>4 DEF PlanStands
<1>8. /\ db.profile.id \in Nat /\ db.rows \in ModuleRows
      /\ \A k \in Rows, p \in People : db.rows[k][p] <= db.rows[k][p]
  BY DEF RepairsInv, IsProfile, ModuleRows
<1>9. SnapshotStands(c, s, db.profile.id, db.rows)
  <2>1. s.profile.id \in Nat /\ c.shown.id <= s.profile.id /\ s.profile.id <= db.profile.id
    BY <1>3, <1>4, <1>5, <1>8
  <2>2. ASSUME c.kind = "reset", NEW k \in DOMAIN c.plan, NEW p \in People
        PROVE  c.expected[k][p] <= s.rows[k][p] /\ s.rows[k][p] <= db.rows[k][p]
    BY <1>5, <1>7, <1>8, <2>2 DEF PlanStands
  <2> QED BY <1>5, <1>8, <2>1, <2>2 DEF SnapshotStands
<1>10. ConsoleHolds(c, world.handler, s, db.profile.id, db.rows)
  BY <1>3, <1>4, <1>7, <1>9 DEF ConsoleHolds
<1> QED BY <1>1, <1>2, <1>6, <1>10, ConsoleChanges

\* An applied repair.
LEMMA ApplyRepairStep == ASSUME RepairsInv, Console!ApplyRepair PROVE RepairsInv'
<1> DEFINE c == world.console
<1>1. c # Console!Nothing /\ c.step = "apply"
  BY DEF Console!ApplyRepair, Console!Nothing
<1>2. IsProfile(c.shown) /\ c.shown.id <= db.profile.id
  BY <1>1 DEF RepairsInv, ConsoleHolds
<1>3. CASE ~Console!UnchangedSince(db.profile, c.shown)
  <2> DEFINE d == [step |-> "detail", shown |-> c.shown]
  <2>1. world' = [world EXCEPT !.console = d] /\ UNCHANGED db
    BY <1>3 DEF Console!ApplyRepair
  <2>2. ConsoleHolds(d, world.handler, world.snapshot, db.profile.id, db.rows)
    BY <1>2, DetailHolds
  <2> HIDE DEF d
  <2> QED BY <2>1, <2>2, ConsoleChanges
<1>4. CASE Console!UnchangedSince(db.profile, c.shown)
  <2> DEFINE shown == [c.shown EXCEPT !.fields = c.fields]
             d == [step |-> "detail", shown |-> shown]
             profile == [db.profile EXCEPT !.fields = c.fields]
  <2>1. db' = [db EXCEPT !.profile = profile] /\ world' = [world EXCEPT !.console = d]
    BY <1>4 DEF Console!ApplyRepair, RepairsInv
  <2>2. IsProfile(shown) /\ shown.id = c.shown.id
    BY <1>2 DEF IsProfile
  <2>3. IsProfile(profile) /\ profile.id = db.profile.id
    BY DEF RepairsInv, IsProfile
  <2>4. ConsoleHolds(d, world.handler, world.snapshot, db.profile.id, db.rows)
    BY <1>2, <2>2, DetailHolds
  <2> HIDE DEF d, shown, profile
  <2>5. DOMAIN db' = DOMAIN db /\ db'.profile = profile /\ db'.rows = db.rows
    BY <2>1 DEF RepairsInv
  <2>6. /\ DOMAIN world' = DOMAIN world /\ world'.handler = world.handler /\ world'.console = d
        /\ world'.snapshot = world.snapshot /\ world'.deeds = world.deeds
    BY <2>1 DEF RepairsInv
  <2> QED BY <2>3, <2>4, <2>5, <2>6 DEF RepairsInv
<1> QED BY <1>3, <1>4

LEMMA ApplyResetStep == ASSUME RepairsInv, Console!ApplyReset PROVE RepairsInv'
<1> DEFINE c == world.console
           d == [step |-> "detail", shown |-> c.shown]
<1>1. c # Console!Nothing /\ c.step = "apply" /\ c.kind = "reset"
  BY DEF Console!ApplyReset, Console!Nothing
<1>2. /\ IsProfile(c.shown) /\ c.shown.id <= db.profile.id
      /\ PlanStands(c, world.handler, db.rows)
  BY <1>1 DEF RepairsInv, ConsoleHolds
<1>3. world' = [world EXCEPT !.console = d]
  BY DEF Console!ApplyReset, RepairsInv
<1>4. \A held : ConsoleHolds(d, world.handler, world.snapshot, db.profile.id, held)
  BY <1>2, DetailHolds
<1> HIDE DEF d
<1>5. CASE ~Console!PlanHolds(db.rows, c)
  <2>1. UNCHANGED db
    BY <1>5 DEF Console!ApplyReset
  <2> QED BY <1>3, <1>4, <2>1, ConsoleChanges
<1>6. CASE Console!PlanHolds(db.rows, c)
  <2> DEFINE after == Console!Over(c.plan, db.rows)
  <2>1. db' = [db EXCEPT !.rows = after]
    BY <1>6 DEF Console!ApplyReset, RepairsInv
  <2>2. DOMAIN c.plan \subseteq Rows /\ DOMAIN db.rows = Rows
    BY <1>2 DEF PlanStands, RepairsInv, ModuleRows
  <2>3. after = [k \in Rows |-> IF k \in DOMAIN c.plan THEN c.plan[k] ELSE db.rows[k]]
    BY <2>2 DEF Console!Over
  <2>4. \A k \in DOMAIN c.plan : c.plan[k] = [db.rows[k] EXCEPT ![Subject] = 0]
    BY <1>2, <1>6, <2>2 DEF PlanStands, Console!PlanHolds
  <2>5. \A k \in Rows : after[k] = db.rows[k] \/ after[k] = [db.rows[k] EXCEPT ![Subject] = 0]
    BY <2>3, <2>4
  <2>6. DOMAIN after = Rows /\ after = [k \in Rows |-> after[k]]
    BY <2>3
  <2> HIDE DEF after
  <2>7. \A k \in Rows : db.rows[k] \in [People -> Nat]
    BY DEF RepairsInv, ModuleRows
  <2>8. \A k \in Rows : after[k] \in [People -> Nat]
    <3>1. 0 \in Nat /\ Subject \in People
      BY ConsoleConstants DEF Console!ConsoleAssumption
    <3>2. ASSUME NEW k \in Rows PROVE after[k] \in [People -> Nat]
      <4>1. [db.rows[k] EXCEPT ![Subject] = 0] \in [People -> Nat]
        BY <2>7, <3>1, <3>2, ChangedRow
      <4> QED BY <2>5, <2>7, <3>2, <4>1
    <3> QED BY <3>2
  <2>9. \A k \in Rows, p \in People \ {Subject} : after[k][p] = db.rows[k][p]
    BY <2>5, <2>7
  <2>10. after \in ModuleRows
    BY <2>6, <2>8 DEF ModuleRows
  <2>11. HandlerHolds(world.handler, after)
    <3>1. \A k \in Rows : after[k] = db.rows[k] \/ after[k][Subject] = 0
      BY <2>5, <2>7, ConsoleConstants DEF Console!ConsoleAssumption
    <3> QED BY <2>5, <2>9, <2>7, <3>1 DEF RepairsInv, HandlerHolds
  <2>12. DOMAIN db' = DOMAIN db /\ db'.rows = after /\ db'.profile = db.profile
    BY <2>1 DEF RepairsInv
  <2>13. /\ DOMAIN world' = DOMAIN world /\ world'.handler = world.handler /\ world'.console = d
         /\ world'.snapshot = world.snapshot /\ world'.deeds = world.deeds
    BY <1>3 DEF RepairsInv
  <2> QED BY <1>4, <2>9, <2>10, <2>11, <2>12, <2>13 DEF RepairsInv
<1> QED BY <1>5, <1>6

LEMMA RepairsStep == ASSUME RepairsInv, Console!Meanwhile \/ Console!Repairs PROVE RepairsInv'
  BY OwnerStep, HandlerReadsStep, HandlerWritesStep, OpenProfileStep, PreviewRepairStep, PlanResetStep,
     PlanArrivesStep, BackToDetailStep, ConfirmStep, ApplyRepairStep, ApplyResetStep
  DEF Console!Meanwhile, Console!Repairs

LEMMA OthersFollow == RepairsInv => Console!OthersKeepTheirs
  BY DEF RepairsInv, Console!OthersKeepTheirs

\* What is overwritten was shown, and is in the snapshot.
LEMMA UndoFollows == ASSUME RepairsInv PROVE Console!RepairsCanBeUndone
<1> DEFINE c == world.console
<1>1. ASSUME Console!ApplyRepair, db' # db
      PROVE  /\ db.profile = c.shown
             /\ world.snapshot.step = "taken" /\ world.snapshot.profile.id = db.profile.id
  <2>1. c # Console!Nothing /\ c.step = "apply" /\ Console!UnchangedSince(db.profile, c.shown)
    BY <1>1 DEF Console!ApplyRepair, Console!Nothing
  <2>2. IsProfile(c.shown) /\ SnapshotStands(c, world.snapshot, db.profile.id, db.rows)
    BY <2>1 DEF RepairsInv, ConsoleHolds
  <2>3. db.profile.id = c.shown.id /\ db.profile.fields = c.shown.fields
    BY <2>1 DEF Console!UnchangedSince
  <2>4. db.profile = c.shown
    BY <2>2, <2>3 DEF RepairsInv, IsProfile
  <2>5. world.snapshot.profile.id = db.profile.id
    BY <2>2, <2>3 DEF SnapshotStands, RepairsInv, IsProfile
  <2> QED BY <2>2, <2>4, <2>5 DEF SnapshotStands
<1>2. ASSUME Console!ApplyReset, db' # db
      PROVE  world.snapshot.step = "taken" /\ \A k \in DOMAIN c.plan : world.snapshot.rows[k] = db.rows[k]
  <2>1. c # Console!Nothing /\ c.step = "apply" /\ c.kind = "reset" /\ Console!PlanHolds(db.rows, c)
    BY <1>2 DEF Console!ApplyReset, Console!Nothing
  <2>2. PlanStands(c, world.handler, db.rows) /\ SnapshotStands(c, world.snapshot, db.profile.id, db.rows)
    BY <2>1 DEF RepairsInv, ConsoleHolds
  <2>3. ASSUME NEW k \in DOMAIN c.plan PROVE world.snapshot.rows[k] = db.rows[k]
    <3>1. k \in Rows /\ db.rows[k] = c.expected[k] /\ world.snapshot.rows \in ModuleRows
      BY <2>1, <2>2 DEF PlanStands, SnapshotStands, Console!PlanHolds
    <3>2. world.snapshot.rows[k] \in [People -> Nat] /\ db.rows[k] \in [People -> Nat]
      BY <3>1 DEF RepairsInv, ModuleRows
    <3>3. \A p \in People : c.expected[k][p] <= world.snapshot.rows[k][p] /\ world.snapshot.rows[k][p] <= db.rows[k][p]
      BY <2>1, <2>2 DEF SnapshotStands
    <3>4. \A p \in People : world.snapshot.rows[k][p] = db.rows[k][p]
      BY <3>1, <3>2, <3>3
    <3> QED BY <3>2, <3>4
  <2> QED BY <2>2, <2>3 DEF SnapshotStands
<1> QED BY <1>1, <1>2 DEF Console!RepairsCanBeUndone

-----------------------------------------------------------------------------
(* Commands and settings: a name means one command.                        *)

IsSpecs(specs) ==
  /\ \E n \in Nat : DOMAIN specs = 1..n
  /\ \A i \in DOMAIN specs : specs[i].name \in Names

LEMMA KeptNames ==
  ASSUME NEW specs, IsSpecs(specs)
  PROVE  /\ \A c \in Registry!Kept(specs) : c.name \in Names /\ c.name \in Nat
         /\ \A c, d \in Registry!Kept(specs) : c.name = d.name => c = d
<1>1. \A c \in Registry!Kept(specs) : \E i \in DOMAIN specs :
        c = specs[i] /\ \A j \in 1..i - 1 : specs[j].name # specs[i].name
  BY DEF Registry!Kept
<1>2. ASSUME NEW c \in Registry!Kept(specs), NEW d \in Registry!Kept(specs), c.name = d.name
      PROVE  c = d
  <2>1. PICK i \in DOMAIN specs : c = specs[i] /\ \A j \in 1..i - 1 : specs[j].name # specs[i].name
    BY <1>1
  <2>2. PICK k \in DOMAIN specs : d = specs[k] /\ \A j \in 1..k - 1 : specs[j].name # specs[k].name
    BY <1>1
  <2>3. i \in Nat /\ k \in Nat /\ i >= 1 /\ k >= 1
    BY DEF IsSpecs
  <2>4. ~(i < k) /\ ~(k < i)
    BY <1>2, <2>1, <2>2, <2>3
  <2> QED BY <2>1, <2>2, <2>3, <2>4
<1> QED BY <1>1, <1>2, RegistryConstants DEF IsSpecs, Registry!RegistryAssumption

\* An alias that is accepted is one command's.
LEMMA AliasIsOnes ==
  ASSUME NEW specs, IsSpecs(specs), NEW held, NEW c \in Registry!Kept(specs), NEW d \in Registry!Kept(specs),
         NEW a \in Registry!Accepted(specs, held, c), a \in Registry!Accepted(specs, held, d)
  PROVE  c = d
<1>1. a \in Registry!Wanted(held, c) /\ a \in Registry!Wanted(held, d)
  BY DEF Registry!Accepted
<1>2. c.name <= d.name /\ d.name <= c.name
  BY <1>1 DEF Registry!Accepted
<1> QED BY <1>2, KeptNames

LEMMA NamesFollow ==
  ASSUME IsSpecs(world.specs), NEW c \in Registry!Kept(world.specs), NEW prefix \in Registry!PrefixesInUse,
         NEW n \in {c.name} \cup Registry!Accepted(world.specs, world.rows, c)
  PROVE  Registry!Resolved(Registry!Lookup(world.specs, world.rows), prefix, n)
           = {[module |-> c.module, name |-> c.name, expanded |-> n # c.name /\ n \in c.shortcuts]}
<1> DEFINE kept == Registry!Kept(world.specs)
           named == UNION {Registry!Accepted(world.specs, world.rows, k) : k \in kept}
           lookup == Registry!Lookup(world.specs, world.rows)
<1>1. lookup = [x \in Registry!Canonical(world.specs) \cup named |->
                  IF x \in named THEN CHOOSE k \in kept : x \in Registry!Accepted(world.specs, world.rows, k)
                  ELSE CHOOSE k \in kept : k.name = x]
  BY DEF Registry!Lookup
<1>2. c \in kept
  OBVIOUS
<1>3. \A x \in named : \E k \in kept : x \in Registry!Accepted(world.specs, world.rows, k)
  OBVIOUS
<1>4. Registry!Accepted(world.specs, world.rows, c) \subseteq named
  OBVIOUS
<1>5. Registry!Canonical(world.specs) \cap named = {}
  <2>1. \A k \in kept : Registry!Accepted(world.specs, world.rows, k) \cap Registry!Canonical(world.specs) = {}
    BY DEF Registry!Accepted
  <2> QED BY <1>3, <2>1
<1>6. c.name \in Registry!Canonical(world.specs)
  BY DEF Registry!Canonical
<1> HIDE DEF lookup, named
<1>7. n \in DOMAIN lookup /\ lookup[n] = c
  <2>1. CASE n = c.name
    <3>1. n \notin named /\ n \in Registry!Canonical(world.specs)
      BY <1>5, <1>6, <2>1
    <3>2. \A k \in kept : k.name = n <=> k = c
      BY <1>2, <2>1, KeptNames
    <3>3. (CHOOSE k \in kept : k.name = n) = c
      BY <1>2, <3>2
    <3> QED BY <1>1, <3>1, <3>3
  <2>2. CASE n \in Registry!Accepted(world.specs, world.rows, c)
    <3>1. n \in named
      BY <1>4, <2>2
    <3>2. \A k \in kept : n \in Registry!Accepted(world.specs, world.rows, k) <=> k = c
      BY <1>2, <2>2, AliasIsOnes
    <3>3. (CHOOSE k \in kept : n \in Registry!Accepted(world.specs, world.rows, k)) = c
      BY <1>2, <3>2
    <3> QED BY <1>1, <3>1, <3>3
  <2> QED BY <2>1, <2>2
<1> QED BY <1>7 DEF Registry!Resolved, lookup

\* A setting has a value its declaration admits.
LEMMA EffectiveIsValid ==
  ASSUME NEW settings, NEW held, NEW m, NEW from \in 1..3, settings[m].default \in settings[m].valid
  PROVE  Registry!Effective(settings, held, m, from) \in settings[m].valid
<1> DEFINE set == {i \in from..3 :
                     /\ Registry!Places[i] \in settings[m].scopes
                     /\ <<"setting", m, Registry!Places[i]>> \in DOMAIN held
                     /\ held[<<"setting", m, Registry!Places[i]>>] \in settings[m].valid}
<1>1. Registry!Effective(settings, held, m, from) =
        IF set = {} THEN settings[m].default
        ELSE held[<<"setting", m, Registry!Places[CHOOSE i \in set : \A j \in set : i <= j]>>]
  BY DEF Registry!Effective
<1>2. set \subseteq {1, 2, 3} /\ \A i \in set : held[<<"setting", m, Registry!Places[i]>>] \in settings[m].valid
  OBVIOUS
<1>5. set \subseteq Nat
  OBVIOUS
<1> HIDE DEF set
<1>3. CASE set = {}
  BY <1>1, <1>3
<1>4. CASE set # {}
  <2>1. \E i \in set : \A j \in set : i <= j
    BY <1>2, <1>4, <1>5, LeastOf
  <2>2. (CHOOSE i \in set : \A j \in set : i <= j) \in set
    BY <2>1
  <2> QED BY <1>1, <1>2, <1>4, <2>2
<1> QED BY <1>3, <1>4

LEMMA UnambiguousFollows ==
  ASSUME IsSpecs(world.specs),
         \A m \in DOMAIN world.settings : world.settings[m].default \in world.settings[m].valid
  PROVE  Registry!NamesAreUnambiguous
  BY NamesFollow, EffectiveIsValid DEF Registry!NamesAreUnambiguous

-----------------------------------------------------------------------------
(* What is saved and what is in force.                                     *)

RowKinds == {"alias", "prefix", "setting"}

\* Two sets of rows hold the same of a kind.
Agree(kind, f, g) == \A k : k[1] = kind =>
  /\ k \in DOMAIN f <=> k \in DOMAIN g
  /\ k \in DOMAIN f => f[k] = g[k]

LEMMA AgreeIsOf == ASSUME NEW kind, NEW f, NEW g, Agree(kind, f, g)
                   PROVE  Registry!Of({kind}, f) = Registry!Of({kind}, g)
<1>1. {k \in DOMAIN f : k[1] \in {kind}} = {k \in DOMAIN g : k[1] \in {kind}}
  BY DEF Agree
<1>2. \A k \in {k \in DOMAIN f : k[1] \in {kind}} : f[k] = g[k]
  BY DEF Agree
<1> QED BY <1>1, <1>2 DEF Registry!Of

LEMMA AgreeIsTransitive == ASSUME NEW kind, NEW f, NEW g, NEW h, Agree(kind, f, g), Agree(kind, g, h)
                           PROVE  Agree(kind, f, h)
  BY DEF Agree

LEMMA ChangedParts ==
  ASSUME NEW f, NEW e
  PROVE  /\ e.set => /\ DOMAIN Registry!Changed(f, e) = DOMAIN f \cup {e.key}
                     /\ \A k \in DOMAIN f \cup {e.key} :
                          Registry!Changed(f, e)[k] = IF k = e.key THEN e.value ELSE f[k]
         /\ ~e.set => /\ DOMAIN Registry!Changed(f, e) = DOMAIN f \ {e.key}
                      /\ \A k \in DOMAIN f \ {e.key} : Registry!Changed(f, e)[k] = f[k]
  BY DEF Registry!Changed, Registry!With, Registry!Without

LEMMA ChangedAgrees == ASSUME NEW kind, NEW f, NEW g, NEW e, Agree(kind, f, g)
                       PROVE  Agree(kind, Registry!Changed(f, e), Registry!Changed(g, e))
<1> DEFINE F == Registry!Changed(f, e)
           G == Registry!Changed(g, e)
<1>1. CASE e.set
  <2>1. DOMAIN F = DOMAIN f \cup {e.key} /\ \A k \in DOMAIN f \cup {e.key} : F[k] = IF k = e.key THEN e.value ELSE f[k]
    BY <1>1, ChangedParts
  <2>2. DOMAIN G = DOMAIN g \cup {e.key} /\ \A k \in DOMAIN g \cup {e.key} : G[k] = IF k = e.key THEN e.value ELSE g[k]
    BY <1>1, ChangedParts
  <2> HIDE DEF F, G
  <2>3. Agree(kind, F, G)
    BY <2>1, <2>2 DEF Agree
  <2> QED BY <2>3 DEF F, G
<1>2. CASE ~e.set
  <2>1. DOMAIN F = DOMAIN f \ {e.key} /\ \A k \in DOMAIN f \ {e.key} : F[k] = f[k]
    BY <1>2, ChangedParts
  <2>2. DOMAIN G = DOMAIN g \ {e.key} /\ \A k \in DOMAIN g \ {e.key} : G[k] = g[k]
    BY <1>2, ChangedParts
  <2> HIDE DEF F, G
  <2>3. Agree(kind, F, G)
    BY <2>1, <2>2 DEF Agree
  <2> QED BY <2>3 DEF F, G
<1> QED BY <1>1, <1>2

LEMMA ChangedTwice == ASSUME NEW kind, NEW f, NEW e
                      PROVE  Agree(kind, Registry!Changed(Registry!Changed(f, e), e), Registry!Changed(f, e))
<1> DEFINE F == Registry!Changed(f, e)
           G == Registry!Changed(F, e)
<1>1. CASE e.set
  <2>1. DOMAIN F = DOMAIN f \cup {e.key} /\ \A k \in DOMAIN f \cup {e.key} : F[k] = IF k = e.key THEN e.value ELSE f[k]
    BY <1>1, ChangedParts
  <2> HIDE DEF F
  <2>2. DOMAIN G = DOMAIN F \cup {e.key} /\ \A k \in DOMAIN F \cup {e.key} : G[k] = IF k = e.key THEN e.value ELSE F[k]
    BY <1>1, ChangedParts
  <2> HIDE DEF G
  <2>3. Agree(kind, G, F)
    BY <2>1, <2>2 DEF Agree
  <2> QED BY <2>3 DEF F, G
<1>2. CASE ~e.set
  <2>1. DOMAIN F = DOMAIN f \ {e.key} /\ \A k \in DOMAIN f \ {e.key} : F[k] = f[k]
    BY <1>2, ChangedParts
  <2> HIDE DEF F
  <2>2. DOMAIN G = DOMAIN F \ {e.key} /\ \A k \in DOMAIN F \ {e.key} : G[k] = F[k]
    BY <1>2, ChangedParts
  <2> HIDE DEF G
  <2>3. Agree(kind, G, F)
    BY <2>1, <2>2 DEF Agree
  <2> QED BY <2>3 DEF F, G
<1> QED BY <1>1, <1>2

\* An edit touches its kind alone.
LEMMA ChangedElsewhere == ASSUME NEW kind, NEW f, NEW e, e.key[1] # kind
                          PROVE  Agree(kind, Registry!Changed(f, e), f)
<1> DEFINE F == Registry!Changed(f, e)
<1>1. CASE e.set
  <2>1. DOMAIN F = DOMAIN f \cup {e.key} /\ \A k \in DOMAIN f \cup {e.key} : F[k] = IF k = e.key THEN e.value ELSE f[k]
    BY <1>1, ChangedParts
  <2> HIDE DEF F
  <2>2. Agree(kind, F, f)
    BY <2>1 DEF Agree
  <2> QED BY <2>2 DEF F
<1>2. CASE ~e.set
  <2>1. DOMAIN F = DOMAIN f \ {e.key} /\ \A k \in DOMAIN f \ {e.key} : F[k] = f[k]
    BY <1>2, ChangedParts
  <2> HIDE DEF F
  <2>2. Agree(kind, F, f)
    BY <2>1 DEF Agree
  <2> QED BY <2>2 DEF F
<1> QED BY <1>1, <1>2

\* What a query reads is what is saved.
LEMMA ReadAgrees ==
  ASSUME NEW kind, NEW rest, NEW got, \A k \in DOMAIN got : k[1] # kind
  PROVE  /\ Agree(kind, Registry!Over(Registry!Of({kind}, rest), got), rest)
         /\ \A other : other # kind => Agree(other, Registry!Over(Registry!Of({kind}, rest), got), got)
         /\ \A k \in DOMAIN Registry!Over(Registry!Of({kind}, rest), got) :
              k[1] = kind \/ k \in DOMAIN got
<1> DEFINE f == Registry!Of({kind}, rest)
<1>1. /\ DOMAIN f = {k \in DOMAIN rest : k[1] = kind}
      /\ \A k \in DOMAIN f : f[k] = rest[k]
  BY DEF Registry!Of
<1> HIDE DEF f
<1> DEFINE g == Registry!Over(f, got)
<1>2. DOMAIN g = DOMAIN f \cup DOMAIN got /\ \A k \in DOMAIN g : g[k] = IF k \in DOMAIN f THEN f[k] ELSE got[k]
  BY DEF Registry!Over
<1> HIDE DEF g
<1>3. /\ Agree(kind, g, rest) /\ \A other : other # kind => Agree(other, g, got)
      /\ \A k \in DOMAIN g : k[1] = kind \/ k \in DOMAIN got
  BY <1>1, <1>2 DEF Agree
<1> QED BY <1>3 DEF f, g

LEMMA InstalledAgrees ==
  ASSUME NEW held, NEW got, NEW kinds, kinds \subseteq RowKinds, NEW kind \in RowKinds
  PROVE  /\ kind \in kinds => Agree(kind, Registry!Installed(held, got, kinds), got)
         /\ kind \notin kinds => Agree(kind, Registry!Installed(held, got, kinds), held)
<1> DEFINE f == Registry!Of(kinds, got)
           h == Registry!Of(RowKinds \ kinds, held)
           g == Registry!Over(f, h)
<1>1. /\ DOMAIN f = {k \in DOMAIN got : k[1] \in kinds}
      /\ \A k \in DOMAIN f : f[k] = got[k]
  BY DEF Registry!Of
<1>2. /\ DOMAIN h = {k \in DOMAIN held : k[1] \in RowKinds \ kinds}
      /\ \A k \in DOMAIN h : h[k] = held[k]
  BY DEF Registry!Of
<1>3. g = Registry!Installed(held, got, kinds)
  BY DEF Registry!Installed, RowKinds
<1> HIDE DEF f, h
<1>4. DOMAIN g = DOMAIN f \cup DOMAIN h /\ \A k \in DOMAIN g : g[k] = IF k \in DOMAIN f THEN f[k] ELSE h[k]
  BY DEF Registry!Over
<1> HIDE DEF g
<1>5. CASE kind \in kinds
  BY <1>1, <1>2, <1>3, <1>4, <1>5 DEF Agree
<1>6. CASE kind \notin kinds
  BY <1>1, <1>2, <1>3, <1>4, <1>6 DEF Agree
<1> QED BY <1>5, <1>6

\* The steps of a publish: the kinds it has read since its last load, and those it has read and
\* not yet installed.
PublishSteps == {"idle", "aliases", "prefixes", "install commands", "settings", "install settings"}
HasRead(step) ==
  CASE step = "prefixes" -> {"alias"}
    [] step \in {"install commands", "settings"} -> {"alias", "prefix"}
    [] step = "install settings" -> RowKinds
    [] OTHER -> {}

\* Rows once the edit under way is applied to them.
WithEdit(console, f) == IF console.step = "apply" THEN Registry!Changed(f, console.edit) ELSE f

\* What was checked when an edit began still holds while no publish has come in between.
EditStands(console) ==
  console.fresh /\ console.edit.set =>
    /\ console.edit.key[1] = "alias" =>
         /\ console.edit.key = <<"alias", console.edit.key[2], console.edit.key[3]>>
         /\ Registry!Usable(console.edit.key[2], console.edit.key[3], console.edit.value)
    /\ console.edit.key[1] = "setting" =>
         /\ console.edit.key = <<"setting", console.edit.key[2], console.edit.key[3]>>
         /\ Registry!Admissible(console.edit.key[2], console.edit.key[3], console.edit.value)
         /\ console.edit.key[3] \in {"channel", "network", "global"}

\* What is in force is what is saved, once the edit under way is in force too, but for what a
\* publish got wrong; and so is what a publish has read, but for what was spoiled since.
RowsStand(console, held, stale, reading, spoiled, got, saved) ==
  \A kind \in RowKinds :
    /\ Agree(kind, WithEdit(console, saved), saved)
    /\ kind \notin stale => Agree(kind, WithEdit(console, held), saved)
    /\ kind \in reading \ spoiled => Agree(kind, WithEdit(console, got), saved)

RegistryInv ==
  /\ {"loaded", "specs", "settings", "rows", "publish", "console", "stale", "loads", "edits", "mishaps"}
       = DOMAIN world
  /\ IsSpecs(world.specs)
  /\ \A m \in DOMAIN world.settings : world.settings[m].default \in world.settings[m].valid
  /\ \E n \in Nat : DOMAIN world.loaded = 1..n
  /\ \A i \in DOMAIN world.loaded :
       /\ world.loaded[i].manifest.name \in Names
       /\ world.loaded[i].manifest.default \in world.loaded[i].manifest.valid
  /\ world.publish.step \in PublishSteps /\ "step" \in DOMAIN world.publish
  /\ world.publish.step # "idle" =>
       /\ {"step", "got", "spoiled"} \subseteq DOMAIN world.publish
       /\ \A k \in DOMAIN world.publish.got : k[1] \in HasRead(world.publish.step)
  /\ world.console.step \in {"idle", "write", "apply"}
  /\ world.console.step # "idle" =>
       {"step", "edit", "fresh"} \subseteq DOMAIN world.console /\ EditStands(world.console)
  /\ RowsStand(world.console, world.rows, world.stale, Registry!Reading, world.publish.spoiled, world.publish.got, db)

LEMMA WithEditAgrees ==
  ASSUME NEW kind, NEW console, NEW f, NEW g, Agree(kind, f, g)
  PROVE  Agree(kind, WithEdit(console, f), WithEdit(console, g))
  BY ChangedAgrees DEF WithEdit

\* What the steps of the two threads do to what is in force and what was read.
LEMMA ReadStands ==
  ASSUME NEW c, NEW held, NEW stale, NEW reading, NEW spoiled, NEW got, NEW saved,
         RowsStand(c, held, stale, reading, spoiled, got, saved),
         NEW kind, \A k \in DOMAIN got : k[1] # kind
  PROVE  RowsStand(c, held, stale, reading \cup {kind}, spoiled,
                   Registry!Over(Registry!Of({kind}, saved), got), saved)
<1> DEFINE more == Registry!Over(Registry!Of({kind}, saved), got)
<1>1. Agree(kind, more, saved) /\ \A other : other # kind => Agree(other, more, got)
  BY ReadAgrees
<1> HIDE DEF more
<1>2. ASSUME NEW k \in RowKinds, k \in (reading \cup {kind}) \ spoiled
      PROVE  Agree(k, WithEdit(c, more), saved)
  <2>1. CASE k = kind
    <3>1. Agree(k, WithEdit(c, more), WithEdit(c, saved))
      BY <1>1, <2>1, WithEditAgrees
    <3>2. Agree(k, WithEdit(c, saved), saved)
      BY DEF RowsStand
    <3> QED BY <3>1, <3>2, AgreeIsTransitive
  <2>2. CASE k # kind
    <3>1. Agree(k, WithEdit(c, more), WithEdit(c, got))
      BY <1>1, <2>2, WithEditAgrees
    <3>2. Agree(k, WithEdit(c, got), saved)
      BY <1>2, <2>2 DEF RowsStand
    <3> QED BY <3>1, <3>2, AgreeIsTransitive
  <2> QED BY <2>1, <2>2
<1>3. RowsStand(c, held, stale, reading \cup {kind}, spoiled, more, saved)
  BY <1>2 DEF RowsStand
<1> QED BY <1>3 DEF more

LEMMA ReadFailsStands ==
  ASSUME NEW c, NEW held, NEW stale, NEW reading, NEW spoiled, NEW got, NEW saved,
         RowsStand(c, held, stale, reading, spoiled, got, saved), NEW kind
  PROVE  RowsStand(c, held, stale, reading \cup {kind}, spoiled \cup {kind}, got, saved)
  BY DEF RowsStand

LEMMA InstallStands ==
  ASSUME NEW c, NEW held, NEW stale, NEW reading, NEW spoiled, NEW got, NEW saved,
         RowsStand(c, held, stale, reading, spoiled, got, saved), reading \subseteq RowKinds,
         NEW d, \A f : WithEdit(d, f) = WithEdit(c, f), NEW spoiled2, NEW got2
  PROVE  RowsStand(d, Registry!Installed(held, got, reading), (stale \ reading) \cup (spoiled \cap reading),
                   {}, spoiled2, got2, saved)
<1> DEFINE now2 == Registry!Installed(held, got, reading)
           stale2 == (stale \ reading) \cup (spoiled \cap reading)
<1>1. \A k \in RowKinds : Agree(k, now2, IF k \in reading THEN got ELSE held)
  BY InstalledAgrees
<1> HIDE DEF now2
<1>2. ASSUME NEW k \in RowKinds, k \notin stale2 PROVE Agree(k, WithEdit(d, now2), saved)
  <2>1. CASE k \in reading
    <3>1. Agree(k, WithEdit(c, now2), WithEdit(c, got))
      BY <1>1, <2>1, WithEditAgrees
    <3>2. Agree(k, WithEdit(c, got), saved)
      BY <1>2, <2>1 DEF RowsStand
    <3> QED BY <3>1, <3>2, AgreeIsTransitive
  <2>2. CASE k \notin reading
    <3>1. Agree(k, WithEdit(c, now2), WithEdit(c, held))
      BY <1>1, <2>2, WithEditAgrees
    <3>2. Agree(k, WithEdit(c, held), saved)
      BY <1>2, <2>2 DEF RowsStand
    <3> QED BY <3>1, <3>2, AgreeIsTransitive
  <2> QED BY <2>1, <2>2
<1>3. \A k \in RowKinds : Agree(k, WithEdit(d, saved), saved)
  BY DEF RowsStand
<1> HIDE DEF stale2
<1>4. RowsStand(d, now2, stale2, {}, spoiled2, got2, saved)
  BY <1>2, <1>3 DEF RowsStand
<1> QED BY <1>4 DEF now2, stale2

\* A console that has nothing written changes nothing of this.
LEMMA EditStands2 ==
  ASSUME NEW c, NEW held, NEW stale, NEW reading, NEW spoiled, NEW got, NEW saved,
         RowsStand(c, held, stale, reading, spoiled, got, saved),
         NEW d, c.step # "apply", d.step # "apply"
  PROVE  RowsStand(d, held, stale, reading, spoiled, got, saved)
  BY DEF RowsStand, WithEdit

LEMMA WriteStands ==
  ASSUME NEW c, NEW held, NEW stale, NEW reading, NEW spoiled, NEW got, NEW saved,
         RowsStand(c, held, stale, reading, spoiled, got, saved), c.step # "apply",
         NEW d, d.step = "apply"
  PROVE  RowsStand(d, held, stale, reading, spoiled, got, Registry!Changed(saved, d.edit))
<1> DEFINE after == Registry!Changed(saved, d.edit)
<1>1. \A f : WithEdit(d, f) = Registry!Changed(f, d.edit) /\ WithEdit(c, f) = f
  BY DEF WithEdit
<1>2. \A k \in RowKinds : Agree(k, Registry!Changed(after, d.edit), after)
  BY ChangedTwice
<1>3. ASSUME NEW k \in RowKinds, NEW f, Agree(k, WithEdit(c, f), saved)
      PROVE  Agree(k, WithEdit(d, f), after)
  <2>1. Agree(k, f, saved)
    BY <1>1, <1>3
  <2> QED BY <1>1, <2>1, ChangedAgrees
<1> HIDE DEF after
<1>4. RowsStand(d, held, stale, reading, spoiled, got, after)
  BY <1>1, <1>2, <1>3 DEF RowsStand
<1> QED BY <1>4 DEF after

LEMMA ApplyStands ==
  ASSUME NEW c, NEW held, NEW stale, NEW reading, NEW spoiled, NEW got, NEW saved,
         RowsStand(c, held, stale, reading, spoiled, got, saved), c.step = "apply",
         NEW d, d.step = "idle", NEW spoiled2, spoiled \subseteq spoiled2,
         {c.edit.key[1]} \cap reading \subseteq spoiled2
  PROVE  RowsStand(d, Registry!Changed(held, c.edit), stale, reading, spoiled2, got, saved)
<1>1. \A f : WithEdit(c, f) = Registry!Changed(f, c.edit) /\ WithEdit(d, f) = f
  BY DEF WithEdit
<1>2. ASSUME NEW k \in RowKinds, k \in reading \ spoiled2 PROVE Agree(k, got, saved)
  <2>1. Agree(k, Registry!Changed(got, c.edit), saved)
    BY <1>1, <1>2 DEF RowsStand
  <2>2. Agree(k, Registry!Changed(got, c.edit), got)
    BY <1>2, ChangedElsewhere
  <2>3. Agree(k, got, Registry!Changed(got, c.edit))
    BY <2>2 DEF Agree
  <2> QED BY <2>1, <2>3, AgreeIsTransitive
<1>3. \A k \in RowKinds : Agree(k, saved, saved)
  BY DEF Agree
<1> QED BY <1>1, <1>2, <1>3 DEF RowsStand

\* What modules may declare.
Declared(m) == m.name \in Names /\ m.default \in m.valid

LEMMA RegistryInit == ASSUME Registry!Init PROVE RegistryInv
<1>1. /\ DOMAIN world = {"loaded", "specs", "settings", "rows", "publish", "console", "stale", "loads", "edits", "mishaps"}
      /\ world.specs = <<>> /\ world.settings = <<>> /\ world.rows = <<>> /\ world.loaded = <<>>
      /\ world.publish = Registry!Idle /\ world.console = Registry!Idle /\ world.stale = {} /\ db = <<>>
  BY DEF Registry!Init
<1>2. Registry!Idle.step = "idle" /\ "step" \in DOMAIN Registry!Idle
  BY DEF Registry!Idle
<1>3. DOMAIN <<>> = 1..0 /\ \A x : x \notin 1..0
  OBVIOUS
<1>4. IsSpecs(world.specs) /\ \E n \in Nat : DOMAIN world.loaded = 1..n
  BY <1>1, <1>3 DEF IsSpecs
<1>5. Registry!Reading = {}
  BY <1>1, <1>2 DEF Registry!Reading
<1>6. \A kind : Agree(kind, <<>>, <<>>)
  BY DEF Agree
<1>7. RowsStand(world.console, world.rows, world.stale, Registry!Reading, world.publish.spoiled, world.publish.got, db)
  BY <1>1, <1>2, <1>5, <1>6 DEF RowsStand, WithEdit
<1> QED BY <1>1, <1>2, <1>3, <1>4, <1>7 DEF RegistryInv, PublishSteps

\* A step that leaves the registries alone leaves what was checked against them.
LEMMA ChecksStand ==
  ASSUME NEW c, EditStands(c), world'.specs = world.specs, world'.rows = world.rows,
         world'.settings = world.settings
  PROVE  EditStands(c)'
  BY DEF EditStands, Registry!Usable, Registry!Admissible

\* The same of the edit under way.
LEMMA EditIsChecked ==
  ASSUME EditStands(world.console), world'.specs = world.specs, world'.rows = world.rows,
         world'.settings = world.settings, world'.console = world.console
  PROVE  EditStands(world.console)'
  BY DEF EditStands, Registry!Usable, Registry!Admissible

LEMMA LoadStep == ASSUME RegistryInv, Registry!Load PROVE RegistryInv'
<1> DEFINE published == [step |-> "aliases", got |-> <<>>, spoiled |-> {}]
<1>1. PICK order \in UNION {{s \in [1..k -> Modules] : \A i, j \in 1..k : i # j => s[i] # s[j]} :
                               k \in 0..Registry!Cardinality(Modules)} :
        \E of \in [Registry!Range(order) -> Manifests] :
        world' = [world EXCEPT !.loads = @ + 1, !.loaded = [i \in 1..Len(order) |-> [module |-> order[i], manifest |-> of[order[i]]]],
                    !.publish = published]
  BY DEF Registry!Load
<1>2. PICK k \in Nat : order \in [1..k -> Modules]
  BY <1>1
<1>3. PICK of \in [Registry!Range(order) -> Manifests] :
        world' = [world EXCEPT !.loads = @ + 1, !.loaded = [i \in 1..Len(order) |-> [module |-> order[i], manifest |-> of[order[i]]]],
                    !.publish = published]
  BY <1>1
<1>4. Len(order) = k /\ DOMAIN order = 1..k
  BY <1>2
<1> DEFINE loaded2 == [i \in 1..k |-> [module |-> order[i], manifest |-> of[order[i]]]]
<1>5. world' = [world EXCEPT !.loads = @ + 1, !.loaded = loaded2, !.publish = published]
  BY <1>3, <1>4
<1>6. \A m \in Manifests : Declared(m)
  BY RegistryConstants DEF Registry!RegistryAssumption, Declared
<1>7. \A i \in 1..k : Declared(loaded2[i].manifest)
  <2>1. \A i \in 1..k : order[i] \in Registry!Range(order)
    BY <1>4 DEF Registry!Range
  <2> QED BY <1>6, <2>1
<1>8. DOMAIN loaded2 = 1..k
  OBVIOUS
<1> HIDE DEF loaded2
<1>9. /\ DOMAIN world' = DOMAIN world /\ world'.loaded = loaded2 /\ world'.publish = published
      /\ world'.specs = world.specs /\ world'.settings = world.settings /\ world'.rows = world.rows
      /\ world'.console = world.console /\ world'.stale = world.stale /\ UNCHANGED db
  BY <1>5 DEF RegistryInv, Registry!Load
<1>10. published.step = "aliases" /\ published.got = <<>> /\ {"step", "got", "spoiled"} \subseteq DOMAIN published
  OBVIOUS
<1>11. DOMAIN <<>> = {}
  OBVIOUS
<1> HIDE DEF published
<1>12. Registry!Reading' = {}
  BY <1>9, <1>10 DEF Registry!Reading
<1>13. RowsStand(world'.console, world'.rows, world'.stale, Registry!Reading', world'.publish.spoiled, world'.publish.got, db')
  BY <1>9, <1>12 DEF RegistryInv, RowsStand
<1>14. world'.console.step # "idle" => EditStands(world.console)'
  BY <1>9, ChecksStand DEF RegistryInv
<1> QED BY <1>7, <1>8, <1>9, <1>10, <1>11, <1>13, <1>14 DEF RegistryInv, Declared, PublishSteps

\* The reads of a publish.
LEMMA ReadStep ==
  ASSUME RegistryInv, NEW step, NEW kind, NEW next, Registry!Read(step, kind, next),
         \/ step = "aliases" /\ kind = "alias" /\ next = "prefixes"
         \/ step = "prefixes" /\ kind = "prefix" /\ next = "install commands"
         \/ step = "settings" /\ kind = "setting" /\ next = "install settings"
  PROVE  RegistryInv'
<1> DEFINE old == world.publish
           more == Registry!Over(Registry!Of({kind}, db), old.got)
<1>1. /\ old.step = step /\ {"step", "got", "spoiled"} \subseteq DOMAIN old
      /\ \A k \in DOMAIN old.got : k[1] \in HasRead(step)
      /\ next \in PublishSteps /\ next # "idle"
  BY DEF Registry!Read, RegistryInv, PublishSteps
<1>2. kind \notin HasRead(step) /\ HasRead(next) = HasRead(step) \cup {kind}
  BY DEF HasRead, RowKinds
<1>3. \A k \in DOMAIN old.got : k[1] # kind
  BY <1>1, <1>2
<1>4. UNCHANGED db
  BY DEF Registry!Read
<1>5. RowsStand(world.console, world.rows, world.stale, Registry!Reading, old.spoiled, old.got, db)
  BY DEF RegistryInv
<1>6. DOMAIN world = {"loaded", "specs", "settings", "rows", "publish", "console", "stale", "loads", "edits", "mishaps"}
  BY DEF RegistryInv
<1> DEFINE one == [old EXCEPT !.step = next, !.got = more]
           two == [old EXCEPT !.step = next, !.spoiled = @ \cup {kind}]
<1>7. world'.publish = one \/ world'.publish = two
  <2>1. \/ world' = [world EXCEPT !.publish.step = next, !.publish.got = more]
        \/ world' = [world EXCEPT !.publish.step = next, !.publish.spoiled = @ \cup {kind}, !.mishaps = @ + 1]
    BY DEF Registry!Read
  <2> HIDE DEF more
  <2>2. CASE world' = [world EXCEPT !.publish.step = next, !.publish.got = more]
    BY <1>6, <2>2
  <2>3. CASE world' = [world EXCEPT !.publish.step = next, !.publish.spoiled = @ \cup {kind}, !.mishaps = @ + 1]
    BY <1>6, <2>3
  <2> QED BY <2>1, <2>2, <2>3
<1>8. /\ DOMAIN world' = DOMAIN world /\ world'.loaded = world.loaded
      /\ world'.specs = world.specs /\ world'.settings = world.settings /\ world'.rows = world.rows
      /\ world'.console = world.console /\ world'.stale = world.stale
  <2>1. \/ world' = [world EXCEPT !.publish.step = next, !.publish.got = more]
        \/ world' = [world EXCEPT !.publish.step = next, !.publish.spoiled = @ \cup {kind}, !.mishaps = @ + 1]
    BY DEF Registry!Read
  <2> HIDE DEF more
  <2>2. CASE world' = [world EXCEPT !.publish.step = next, !.publish.got = more]
    BY <1>6, <2>2
  <2>3. CASE world' = [world EXCEPT !.publish.step = next, !.publish.spoiled = @ \cup {kind}, !.mishaps = @ + 1]
    BY <1>6, <2>3
  <2> QED BY <2>1, <2>2, <2>3
<1> HIDE DEF more
<1>9. /\ DOMAIN one = DOMAIN old /\ one.step = next /\ one.got = more /\ one.spoiled = old.spoiled
      /\ DOMAIN two = DOMAIN old /\ two.step = next /\ two.got = old.got /\ two.spoiled = old.spoiled \cup {kind}
  BY <1>1
<1> HIDE DEF one, two
<1>10. world'.publish.step = next /\ {"step", "got", "spoiled"} \subseteq DOMAIN world'.publish
  BY <1>1, <1>7, <1>9
<1>11. Registry!Reading' \subseteq Registry!Reading \cup {kind}
  BY <1>1, <1>10 DEF Registry!Reading
<1>12. \A k \in DOMAIN world'.publish.got : k[1] \in HasRead(next)
  <2>1. \A k \in DOMAIN more : k[1] = kind \/ k \in DOMAIN old.got
    BY <1>3, ReadAgrees DEF more
  <2> QED BY <1>1, <1>2, <1>7, <1>9, <2>1
<1>13. RowsStand(world.console, world.rows, world.stale, Registry!Reading \cup {kind}, old.spoiled, more, db)
  BY <1>3, <1>5, ReadStands DEF more
<1>14. RowsStand(world.console, world.rows, world.stale, Registry!Reading \cup {kind}, old.spoiled \cup {kind}, old.got, db)
  BY <1>5, ReadFailsStands
<1>15. RowsStand(world.console, world.rows, world.stale, Registry!Reading \cup {kind}, world'.publish.spoiled, world'.publish.got, db)
  BY <1>7, <1>9, <1>13, <1>14
<1>16. RowsStand(world.console, world.rows, world.stale, Registry!Reading', world'.publish.spoiled, world'.publish.got, db)
  BY <1>11, <1>15 DEF RowsStand
<1>17. RowsStand(world'.console, world'.rows, world'.stale, Registry!Reading', world'.publish.spoiled, world'.publish.got, db')
  BY <1>4, <1>8, <1>16
<1>18. world.console.step # "idle" => EditStands(world.console)'
  <2>1. ASSUME world.console.step # "idle" PROVE EditStands(world.console)
    BY <2>1 DEF RegistryInv
  <2> QED BY <1>8, <2>1, EditIsChecked
<1> QED BY <1>1, <1>8, <1>10, <1>12, <1>17, <1>18 DEF RegistryInv

\* Installing what was read.
LEMMA InstallStep ==
  ASSUME RegistryInv, NEW step, NEW kinds, NEW next, NEW w, Registry!Install(step, kinds, next, w),
         \/ step = "install commands" /\ kinds = {"alias", "prefix"} /\ next = [world.publish EXCEPT !.step = "settings"]
         \/ step = "install settings" /\ kinds = {"setting"} /\ next = Registry!Idle,
         DOMAIN w = DOMAIN world, w.loaded = world.loaded, w.stale = world.stale, w.console = world.console,
         IsSpecs(w.specs), \A m \in DOMAIN w.settings : w.settings[m].default \in w.settings[m].valid
  PROVE  RegistryInv'
<1> DEFINE old == world.publish
           c == IF world.console.step = "idle" THEN world.console ELSE [world.console EXCEPT !.fresh = FALSE]
           rows2 == Registry!Installed(world.rows, old.got, kinds)
           stale2 == (world.stale \ kinds) \cup (old.spoiled \cap kinds)
<1>1. /\ old.step = step /\ {"step", "got", "spoiled"} \subseteq DOMAIN old
      /\ \A k \in DOMAIN old.got : k[1] \in HasRead(step)
  BY DEF Registry!Install, RegistryInv
<1>2. Registry!Reading = kinds /\ kinds \subseteq RowKinds
  BY <1>1 DEF Registry!Reading, RowKinds
<1>3. world' = [w EXCEPT !.rows = rows2, !.publish = next, !.stale = stale2, !.console = c] /\ UNCHANGED db
  BY DEF Registry!Install
<1> HIDE DEF rows2, stale2, c
<1>4. /\ DOMAIN world' = DOMAIN world /\ world'.loaded = world.loaded /\ world'.specs = w.specs
      /\ world'.settings = w.settings /\ world'.rows = rows2 /\ world'.publish = next
      /\ world'.stale = stale2 /\ world'.console = c
  BY <1>3 DEF RegistryInv
<1>5. /\ c.step = world.console.step
      /\ c.step # "idle" => ~c.fresh /\ {"step", "edit", "fresh"} \subseteq DOMAIN c /\ c.edit = world.console.edit
  BY DEF c, RegistryInv
<1>6. \A f : WithEdit(c, f) = WithEdit(world.console, f)
  BY <1>5 DEF WithEdit
<1>7. RowsStand(world.console, world.rows, world.stale, kinds, old.spoiled, old.got, db)
  BY <1>2 DEF RegistryInv
<1>8. RowsStand(c, rows2, stale2, {}, next.spoiled, next.got, db)
  BY <1>2, <1>6, <1>7, InstallStands DEF rows2, stale2
<1>9. /\ next.step \in {"settings", "idle"} /\ "step" \in DOMAIN next
      /\ next.step # "idle" => /\ next.got = old.got /\ {"step", "got", "spoiled"} \subseteq DOMAIN next
                               /\ step = "install commands" /\ next.step = "settings"
  <2>1. CASE step = "install commands" /\ next = [world.publish EXCEPT !.step = "settings"]
    BY <1>1, <2>1
  <2>2. CASE next = Registry!Idle
    BY <2>2 DEF Registry!Idle
  <2> QED BY <2>1, <2>2
<1>10. next.step # "idle" => \A k \in DOMAIN next.got : k[1] \in HasRead(next.step)
  BY <1>1, <1>9 DEF HasRead
<1>11. Registry!Reading' = {}
  BY <1>4, <1>9 DEF Registry!Reading
<1>12. world'.console.step # "idle" => EditStands(world.console)'
  BY <1>4, <1>5 DEF EditStands
<1>13. RowsStand(world'.console, world'.rows, world'.stale, Registry!Reading', world'.publish.spoiled, world'.publish.got, db')
  BY <1>3, <1>4, <1>8, <1>11
<1>14. world.console.step \in {"idle", "write", "apply"}
  BY DEF RegistryInv
<1>15. /\ world'.publish.step \in PublishSteps /\ "step" \in DOMAIN world'.publish
       /\ world'.publish.step # "idle" =>
            /\ {"step", "got", "spoiled"} \subseteq DOMAIN world'.publish
            /\ \A k \in DOMAIN world'.publish.got : k[1] \in HasRead(world'.publish.step)
  BY <1>4, <1>9, <1>10 DEF PublishSteps
<1>16. /\ world'.console.step \in {"idle", "write", "apply"}
       /\ world'.console.step # "idle" =>
            {"step", "edit", "fresh"} \subseteq DOMAIN world'.console /\ EditStands(world.console)'
  BY <1>4, <1>5, <1>12, <1>14
<1>17. IsSpecs(world'.specs) /\ \A m \in DOMAIN world'.settings : world'.settings[m].default \in world'.settings[m].valid
  BY <1>4
<1>18. /\ DOMAIN world' = {"loaded", "specs", "settings", "rows", "publish", "console", "stale", "loads", "edits", "mishaps"}
       /\ \E n \in Nat : DOMAIN world'.loaded = 1..n
       /\ \A i \in DOMAIN world'.loaded :
            /\ world'.loaded[i].manifest.name \in Names
            /\ world'.loaded[i].manifest.default \in world'.loaded[i].manifest.valid
  BY <1>4 DEF RegistryInv
<1> QED BY <1>13, <1>15, <1>16, <1>17, <1>18 DEF RegistryInv

LEMMA InstallCommandsStep == ASSUME RegistryInv, Registry!InstallCommands PROVE RegistryInv'
<1> DEFINE specs == [i \in DOMAIN world.loaded |-> Registry!Command(world.loaded[i])]
           next == [world.publish EXCEPT !.step = "settings"]
<1>1. PICK n \in Nat : DOMAIN world.loaded = 1..n
  BY DEF RegistryInv
<1>2. DOMAIN specs = 1..n /\ Len(specs) = n
  BY <1>1
<1>3. \A i \in 1..n : specs[i].name \in Names
  BY <1>1 DEF RegistryInv, Registry!Command
<1> DEFINE T == {Registry!Command(world.loaded[i]) : i \in 1..n} \cup {Registry!HostSpec}
<1>10. specs \in [1..n -> T]
  BY <1>1
<1>11. Registry!HostSpec \in T
  OBVIOUS
<1> HIDE DEF T
<1> HIDE DEF specs
<1> DEFINE all == Append(specs, Registry!HostSpec)
           w == [world EXCEPT !.specs = all]
<1>4. DOMAIN all = 1..n + 1 /\ \A i \in 1..n + 1 : all[i] = IF i = n + 1 THEN Registry!HostSpec ELSE specs[i]
  <2>1. specs \in Seq(T)
    BY <1>10
  <2> QED BY <1>2, <1>11, <2>1
<1>5. Registry!HostSpec.name \in Names
  BY RegistryConstants DEF Registry!HostSpec, Registry!RegistryAssumption
<1>6. IsSpecs(all)
  BY <1>3, <1>4, <1>5 DEF IsSpecs
<1> HIDE DEF all
<1>7. Registry!Install("install commands", {"alias", "prefix"}, next, w)
  BY DEF Registry!InstallCommands, all, specs
<1>8. /\ DOMAIN w = DOMAIN world /\ w.loaded = world.loaded /\ w.stale = world.stale /\ w.console = world.console
      /\ w.specs = all /\ w.settings = world.settings
  BY DEF RegistryInv
<1>9. \A m \in DOMAIN w.settings : w.settings[m].default \in w.settings[m].valid
  BY <1>8 DEF RegistryInv
<1> HIDE DEF w
<1> QED BY <1>6, <1>7, <1>8, <1>9, InstallStep

LEMMA InstallSettingsStep == ASSUME RegistryInv, Registry!InstallSettings PROVE RegistryInv'
<1> DEFINE entry(m) == CHOOSE e \in Registry!Range(world.loaded) : e.module = m
           setting(e) == [scopes |-> e.manifest.scopes, valid |-> e.manifest.valid, default |-> e.manifest.default]
           modules == {e.module : e \in Registry!Range(world.loaded)}
           all == [m \in modules |-> setting(entry(m))]
           w == [world EXCEPT !.settings = all]
<1>1. Registry!Install("install settings", {"setting"}, Registry!Idle, w)
  BY DEF Registry!InstallSettings
<1>2. \A m \in modules : entry(m) \in Registry!Range(world.loaded)
  OBVIOUS
<1>3. \A e \in Registry!Range(world.loaded) : e.manifest.default \in e.manifest.valid
  BY DEF RegistryInv, Registry!Range
<1>4. DOMAIN all = modules /\ \A m \in modules : all[m] = setting(entry(m))
  OBVIOUS
<1> HIDE DEF all, modules, entry
<1>5. \A m \in DOMAIN all : all[m].default \in all[m].valid
  BY <1>2, <1>3, <1>4
<1>6. /\ DOMAIN w = DOMAIN world /\ w.loaded = world.loaded /\ w.stale = world.stale /\ w.console = world.console
      /\ w.specs = world.specs /\ w.settings = all
  BY DEF RegistryInv
<1> HIDE DEF w
<1>7. IsSpecs(w.specs)
  BY <1>6 DEF RegistryInv
<1> QED BY <1>1, <1>5, <1>6, <1>7, InstallStep

\* An edit begins.
LEMMA BeginStep ==
  ASSUME RegistryInv, NEW e, Registry!Begin(e),
         EditStands([step |-> "write", edit |-> e, fresh |-> TRUE])
  PROVE  RegistryInv'
<1> DEFINE c == [step |-> "write", edit |-> e, fresh |-> TRUE]
<1>1. c.step = "write" /\ {"step", "edit", "fresh"} \subseteq DOMAIN c
  OBVIOUS
<1>2. world.console.step = "idle" /\ world' = [world EXCEPT !.edits = @ + 1, !.console = c] /\ UNCHANGED db
  BY DEF Registry!Begin
<1> HIDE DEF c
<1>3. /\ DOMAIN world' = DOMAIN world /\ world'.loaded = world.loaded /\ world'.publish = world.publish
      /\ world'.specs = world.specs /\ world'.settings = world.settings /\ world'.rows = world.rows
      /\ world'.stale = world.stale /\ world'.console = c
  BY <1>2 DEF RegistryInv
<1>4. EditStands(c)
  BY DEF c
<1>5. Registry!Reading' = Registry!Reading
  BY <1>3 DEF Registry!Reading
<1>6. RowsStand(world.console, world.rows, world.stale, Registry!Reading, world.publish.spoiled, world.publish.got, db)
  BY DEF RegistryInv
<1>7. RowsStand(c, world.rows, world.stale, Registry!Reading, world.publish.spoiled, world.publish.got, db)
  BY <1>1, <1>2, <1>6, EditStands2
<1>8. RowsStand(world'.console, world'.rows, world'.stale, Registry!Reading', world'.publish.spoiled, world'.publish.got, db')
  BY <1>2, <1>3, <1>5, <1>7
<1>9. EditStands(world.console)'
  <2>1. EditStands(world'.console)
    BY <1>3, <1>4
  <2> QED BY <1>3, <2>1 DEF EditStands, Registry!Usable, Registry!Admissible
<1> QED BY <1>1, <1>3, <1>8, <1>9 DEF RegistryInv

LEMMA BeginsStep ==
  ASSUME RegistryInv,
         \/ Registry!SaveAliases \/ Registry!RestoreAliases \/ Registry!SavePrefixes
         \/ Registry!SaveSetting \/ Registry!ResetSetting
  PROVE  RegistryInv'
<1>1. CASE Registry!SaveAliases
  <2>1. PICK c \in Registry!Kept(world.specs), aliases \in SUBSET Names :
          /\ Registry!Usable(c.module, c.name, aliases)
          /\ Registry!Begin(Registry!Saving(<<"alias", c.module, c.name>>, aliases))
    BY <1>1 DEF Registry!SaveAliases
  <2> DEFINE e == Registry!Saving(<<"alias", c.module, c.name>>, aliases)
  <2>2. EditStands([step |-> "write", edit |-> e, fresh |-> TRUE])
    BY <2>1 DEF EditStands, Registry!Saving
  <2> QED BY <2>1, <2>2, BeginStep
<1>2. CASE Registry!RestoreAliases
  <2>1. PICK c \in Registry!Kept(world.specs) : Registry!Begin(Registry!Removing(<<"alias", c.module, c.name>>))
    BY <1>2 DEF Registry!RestoreAliases
  <2>2. EditStands([step |-> "write", edit |-> Registry!Removing(<<"alias", c.module, c.name>>), fresh |-> TRUE])
    BY DEF EditStands, Registry!Removing
  <2> QED BY <2>1, <2>2, BeginStep
<1>3. CASE Registry!SavePrefixes
  <2>1. PICK p : Registry!Begin(Registry!Saving(Registry!PrefixKey, p))
    BY <1>3 DEF Registry!SavePrefixes
  <2>2. EditStands([step |-> "write", edit |-> Registry!Saving(Registry!PrefixKey, p), fresh |-> TRUE])
    BY DEF EditStands, Registry!Saving, Registry!PrefixKey
  <2> QED BY <2>1, <2>2, BeginStep
<1>4. CASE Registry!SaveSetting
  <2>1. PICK m \in DOMAIN world.settings, place \in {"channel", "network", "global"}, v \in Values :
          Registry!Admissible(m, place, v) /\ Registry!Begin(Registry!Saving(<<"setting", m, place>>, v))
    BY <1>4 DEF Registry!SaveSetting
  <2>2. EditStands([step |-> "write", edit |-> Registry!Saving(<<"setting", m, place>>, v), fresh |-> TRUE])
    BY <2>1 DEF EditStands, Registry!Saving
  <2> QED BY <2>1, <2>2, BeginStep
<1>5. CASE Registry!ResetSetting
  <2>1. PICK m \in DOMAIN world.settings : \E place \in world.settings[m].scopes :
          Registry!Begin(Registry!Removing(<<"setting", m, place>>))
    BY <1>5 DEF Registry!ResetSetting
  <2>2. PICK place : Registry!Begin(Registry!Removing(<<"setting", m, place>>))
    BY <2>1
  <2>3. EditStands([step |-> "write", edit |-> Registry!Removing(<<"setting", m, place>>), fresh |-> TRUE])
    BY DEF EditStands, Registry!Removing
  <2> QED BY <2>2, <2>3, BeginStep
<1> QED BY <1>1, <1>2, <1>3, <1>4, <1>5

LEMMA WriteStep == ASSUME RegistryInv, Registry!Write PROVE RegistryInv'
<1>1. world.console.step = "write" /\ {"step", "edit", "fresh"} \subseteq DOMAIN world.console /\ EditStands(world.console)
  BY DEF RegistryInv, Registry!Write
<1>2. RowsStand(world.console, world.rows, world.stale, Registry!Reading, world.publish.spoiled, world.publish.got, db)
  BY DEF RegistryInv
<1>3. ASSUME db' = Registry!Changed(db, world.console.edit), world' = [world EXCEPT !.console.step = "apply"]
      PROVE  RegistryInv'
  <2> DEFINE c == [world.console EXCEPT !.step = "apply"]
  <2>1. /\ DOMAIN world' = DOMAIN world /\ world'.loaded = world.loaded /\ world'.publish = world.publish
        /\ world'.specs = world.specs /\ world'.settings = world.settings /\ world'.rows = world.rows
        /\ world'.stale = world.stale /\ world'.console = c
    BY <1>3 DEF RegistryInv
  <2>2. /\ c.step = "apply" /\ c.edit = world.console.edit /\ c.fresh = world.console.fresh
        /\ {"step", "edit", "fresh"} \subseteq DOMAIN c
    BY <1>1
  <2> HIDE DEF c
  <2>3. RowsStand(c, world.rows, world.stale, Registry!Reading, world.publish.spoiled, world.publish.got,
                  Registry!Changed(db, c.edit))
    BY <1>1, <1>2, <2>2, WriteStands
  <2>4. Registry!Reading' = Registry!Reading
    BY <2>1 DEF Registry!Reading
  <2>5. RowsStand(world'.console, world'.rows, world'.stale, Registry!Reading', world'.publish.spoiled, world'.publish.got, db')
    BY <1>3, <2>1, <2>2, <2>3, <2>4
  <2>6. EditStands(world.console)'
    BY <1>1, <2>1, <2>2 DEF EditStands, Registry!Usable, Registry!Admissible
  <2> QED BY <2>1, <2>2, <2>5, <2>6 DEF RegistryInv
<1>4. ASSUME world' = [world EXCEPT !.console = Registry!Idle, !.mishaps = @ + 1], UNCHANGED db
      PROVE  RegistryInv'
  <2>1. /\ DOMAIN world' = DOMAIN world /\ world'.loaded = world.loaded /\ world'.publish = world.publish
        /\ world'.specs = world.specs /\ world'.settings = world.settings /\ world'.rows = world.rows
        /\ world'.stale = world.stale /\ world'.console = Registry!Idle
    BY <1>4 DEF RegistryInv
  <2>2. Registry!Idle.step = "idle"
    BY DEF Registry!Idle
  <2>3. RowsStand(Registry!Idle, world.rows, world.stale, Registry!Reading, world.publish.spoiled, world.publish.got, db)
    BY <1>1, <1>2, <2>2, EditStands2
  <2>4. Registry!Reading' = Registry!Reading
    BY <2>1 DEF Registry!Reading
  <2>5. RowsStand(world'.console, world'.rows, world'.stale, Registry!Reading', world'.publish.spoiled, world'.publish.got, db')
    BY <1>4, <2>1, <2>3, <2>4
  <2> QED BY <2>1, <2>2, <2>5 DEF RegistryInv
<1> QED BY <1>3, <1>4 DEF Registry!Write

LEMMA ApplyStep == ASSUME RegistryInv, Registry!Apply PROVE RegistryInv'
<1> DEFINE c == world.console
           e == world.console.edit
           old == world.publish
           spoiled == {e.key[1]} \cap Registry!Reading
           publish == IF spoiled = {} THEN old ELSE [old EXCEPT !.spoiled = @ \cup spoiled]
<1>1. c.step = "apply" /\ {"step", "edit", "fresh"} \subseteq DOMAIN c
  BY DEF RegistryInv, Registry!Apply
<1>2. RowsStand(c, world.rows, world.stale, Registry!Reading, old.spoiled, old.got, db)
  BY DEF RegistryInv
<1>3. /\ world' = [world EXCEPT !.rows = Registry!Changed(@, e), !.console = Registry!Idle, !.publish = publish]
      /\ UNCHANGED db
  BY DEF Registry!Apply, Registry!Applied
<1>4. old.step = "idle" => Registry!Reading = {}
  BY DEF Registry!Reading
<1>5. /\ "step" \in DOMAIN old /\ old.step \in PublishSteps
      /\ old.step # "idle" => /\ {"step", "got", "spoiled"} \subseteq DOMAIN old
                              /\ \A k \in DOMAIN old.got : k[1] \in HasRead(old.step)
  BY DEF RegistryInv
<1> DEFINE reading == Registry!Reading
<1> HIDE DEF reading
<1>6. /\ DOMAIN publish = DOMAIN old /\ publish.step = old.step /\ publish.got = old.got
      /\ publish.spoiled = IF spoiled = {} THEN old.spoiled ELSE old.spoiled \cup spoiled
  <2>1. CASE spoiled = {}
    BY <2>1
  <2>2. CASE spoiled # {}
    <3>1. {"step", "got", "spoiled"} \subseteq DOMAIN old
      BY <1>4, <1>5, <2>2
    <3> HIDE DEF spoiled, old
    <3> QED BY <2>2, <3>1
  <2> QED BY <2>1, <2>2
<1> HIDE DEF publish
<1>7. /\ DOMAIN world' = DOMAIN world /\ world'.loaded = world.loaded /\ world'.publish = publish
      /\ world'.specs = world.specs /\ world'.settings = world.settings /\ world'.rows = Registry!Changed(world.rows, e)
      /\ world'.stale = world.stale /\ world'.console = Registry!Idle
  BY <1>3 DEF RegistryInv
<1>8. Registry!Idle.step = "idle"
  BY DEF Registry!Idle
<1>9. old.spoiled \subseteq publish.spoiled /\ {e.key[1]} \cap Registry!Reading \subseteq publish.spoiled
  BY <1>6
<1> HIDE DEF spoiled
<1>10. RowsStand(Registry!Idle, Registry!Changed(world.rows, c.edit), world.stale, Registry!Reading, publish.spoiled, old.got, db)
  BY <1>1, <1>2, <1>8, <1>9, ApplyStands
<1>11. Registry!Reading' = Registry!Reading
  BY <1>6, <1>7 DEF Registry!Reading
<1>12. RowsStand(world'.console, world'.rows, world'.stale, Registry!Reading', world'.publish.spoiled, world'.publish.got, db')
  BY <1>3, <1>6, <1>7, <1>10, <1>11
<1>13. /\ "step" \in DOMAIN world'.publish /\ world'.publish.step \in PublishSteps
       /\ world'.publish.step # "idle" =>
            /\ {"step", "got", "spoiled"} \subseteq DOMAIN world'.publish
            /\ \A k \in DOMAIN world'.publish.got : k[1] \in HasRead(world'.publish.step)
  BY <1>5, <1>6, <1>7
<1>14. /\ DOMAIN world' = {"loaded", "specs", "settings", "rows", "publish", "console", "stale", "loads", "edits", "mishaps"}
       /\ \E n \in Nat : DOMAIN world'.loaded = 1..n
       /\ \A i \in DOMAIN world'.loaded :
            /\ world'.loaded[i].manifest.name \in Names
            /\ world'.loaded[i].manifest.default \in world'.loaded[i].manifest.valid
       /\ IsSpecs(world'.specs) /\ \A m \in DOMAIN world'.settings : world'.settings[m].default \in world'.settings[m].valid
  BY <1>7 DEF RegistryInv
<1> HIDE DEF old, e, c
<1> QED BY <1>7, <1>8, <1>12, <1>13, <1>14 DEF RegistryInv

LEMMA RegistryStep == ASSUME RegistryInv, Registry!Next PROVE RegistryInv'
<1>1. CASE Registry!ModuleThread
  <2>1. Registry!ReadAliases => RegistryInv'
    BY ReadStep DEF Registry!ReadAliases
  <2>2. Registry!ReadPrefixes => RegistryInv'
    BY ReadStep DEF Registry!ReadPrefixes
  <2>3. Registry!ReadSettings => RegistryInv'
    BY ReadStep DEF Registry!ReadSettings
  <2> QED BY <1>1, <2>1, <2>2, <2>3, LoadStep, InstallCommandsStep, InstallSettingsStep DEF Registry!ModuleThread
<1>2. CASE Registry!Console
  BY <1>2, BeginsStep, WriteStep, ApplyStep DEF Registry!Console
<1> QED BY <1>1, <1>2 DEF Registry!Next

LEMMA RegistryFollows == RegistryInv => Registry!RegistryIsSound
<1> SUFFICES ASSUME RegistryInv PROVE Registry!ChangesApply /\ Registry!NamesAreUnambiguous
  BY DEF Registry!RegistryIsSound
<1>1. Registry!NamesAreUnambiguous
  BY UnambiguousFollows DEF RegistryInv
<1>2. ASSUME world.console.step = "idle",
             NEW kind \in {"alias", "prefix", "setting"} \ (world.stale \cup Registry!Reading)
      PROVE  Registry!Of({kind}, world.rows) = Registry!Of({kind}, db)
  <2>1. Agree(kind, WithEdit(world.console, world.rows), db)
    BY DEF RegistryInv, RowsStand, RowKinds
  <2>2. WithEdit(world.console, world.rows) = world.rows
    BY <1>2 DEF WithEdit
  <2> QED BY <2>1, <2>2, AgreeIsOf
<1> QED BY <1>1, <1>2 DEF Registry!ChangesApply

\* Of those who want a name, one comes first.
LEMMA FirstToWant ==
  ASSUME NEW specs, IsSpecs(specs), NEW held, NEW o \in Registry!Kept(specs), NEW a,
         a \in Registry!Wanted(held, o), a \notin Registry!Canonical(specs)
  PROVE  \E c \in Registry!Kept(specs) : c.name <= o.name /\ a \in Registry!Accepted(specs, held, c)
<1> DEFINE who == {c.name : c \in {c \in Registry!Kept(specs) : a \in Registry!Wanted(held, c)}}
<1>1. who \subseteq Names /\ o.name \in who
  BY KeptNames
<1>2. \A c \in Registry!Kept(specs) : a \in Registry!Wanted(held, c) => c.name \in who
  OBVIOUS
<1>3. \A n \in who : \E c \in Registry!Kept(specs) : a \in Registry!Wanted(held, c) /\ c.name = n
  OBVIOUS
<1> HIDE DEF who
<1>4. PICK n \in who : \A k \in who : n <= k
  BY <1>1, LeastOf, RegistryConstants DEF Registry!RegistryAssumption
<1>5. PICK c \in Registry!Kept(specs) : a \in Registry!Wanted(held, c) /\ c.name = n
  BY <1>3
<1>6. a \in Registry!Accepted(specs, held, c)
  BY <1>2, <1>4, <1>5 DEF Registry!Accepted
<1> QED BY <1>1, <1>4, <1>5, <1>6

\* Names nobody goes by are given to a command; and what comes of it.
Given(specs, held, now2, key, value) ==
  /\ \A c \in Registry!Kept(specs) :
       Registry!Wanted(now2, c) = IF <<"alias", c.module, c.name>> = key THEN value ELSE Registry!Wanted(held, c)
  /\ value \cap Registry!Canonical(specs) = {}
  /\ \A c \in Registry!Kept(specs) :
       <<"alias", c.module, c.name>> # key => value \cap Registry!Accepted(specs, held, c) = {}
OwnNames(specs, held, now2, key, value) ==
  \A c \in Registry!Kept(specs) :
    IF <<"alias", c.module, c.name>> = key THEN Registry!Accepted(specs, now2, c) = value
    ELSE Registry!Accepted(specs, held, c) \subseteq Registry!Accepted(specs, now2, c)

\* They are all its own, and no other loses one.
LEMMA AliasesHold ==
  ASSUME NEW specs, IsSpecs(specs), NEW held, NEW now2, NEW key, NEW value, Given(specs, held, now2, key, value)
  PROVE  OwnNames(specs, held, now2, key, value)
<1> SUFFICES ASSUME NEW c \in Registry!Kept(specs)
             PROVE  IF <<"alias", c.module, c.name>> = key THEN Registry!Accepted(specs, now2, c) = value
                    ELSE Registry!Accepted(specs, held, c) \subseteq Registry!Accepted(specs, now2, c)
  BY DEF OwnNames
<1> USE DEF Given
<1>1. CASE <<"alias", c.module, c.name>> = key
  <2>1. Registry!Wanted(now2, c) = value
    BY <1>1
  <2>2. ASSUME NEW a \in value, NEW o \in Registry!Kept(specs), a \in Registry!Wanted(now2, o)
        PROVE  c.name <= o.name
    <3>1. CASE <<"alias", o.module, o.name>> = key
      BY <1>1, <3>1, KeptNames
    <3>2. CASE <<"alias", o.module, o.name>> # key
      <4>1. a \in Registry!Wanted(held, o) /\ a \notin Registry!Canonical(specs)
        BY <2>2, <3>2
      <4>2. PICK d \in Registry!Kept(specs) : d.name <= o.name /\ a \in Registry!Accepted(specs, held, d)
        BY <4>1, FirstToWant
      <4>3. <<"alias", d.module, d.name>> = key
        BY <4>2
      <4>4. d.name = c.name
        BY <1>1, <4>3
      <4> QED BY <4>2, <4>4
    <3> QED BY <3>1, <3>2
  <2>3. Registry!Accepted(specs, now2, c) = value
    BY <2>1, <2>2 DEF Registry!Accepted
  <2> QED BY <1>1, <2>3
<1>2. CASE <<"alias", c.module, c.name>> # key
  <2>1. Registry!Wanted(now2, c) = Registry!Wanted(held, c)
    BY <1>2
  <2>2. ASSUME NEW a \in Registry!Accepted(specs, held, c), NEW o \in Registry!Kept(specs), a \in Registry!Wanted(now2, o)
        PROVE  c.name <= o.name
    <3>1. <<"alias", o.module, o.name>> # key
      BY <1>2, <2>2
    <3>2. a \in Registry!Wanted(held, o)
      BY <2>2, <3>1
    <3> QED BY <3>2 DEF Registry!Accepted
  <2>3. Registry!Accepted(specs, held, c) \subseteq Registry!Accepted(specs, now2, c)
    BY <2>1, <2>2 DEF Registry!Accepted
  <2> QED BY <1>2, <2>3
<1> QED BY <1>1, <1>2

\* A value saved where it may be is in force there.
LEMMA SettingHolds ==
  ASSUME NEW settings, NEW held, NEW m, NEW place, NEW v, NEW from \in 1..3, Registry!Places[from] = place,
         place \in settings[m].scopes, v \in settings[m].valid,
         <<"setting", m, place>> \in DOMAIN held, held[<<"setting", m, place>>] = v
  PROVE  Registry!Effective(settings, held, m, from) = v
<1> DEFINE set == {i \in from..3 :
                     /\ Registry!Places[i] \in settings[m].scopes
                     /\ <<"setting", m, Registry!Places[i]>> \in DOMAIN held
                     /\ held[<<"setting", m, Registry!Places[i]>>] \in settings[m].valid}
<1>1. Registry!Effective(settings, held, m, from) =
        IF set = {} THEN settings[m].default
        ELSE held[<<"setting", m, Registry!Places[CHOOSE i \in set : \A j \in set : i <= j]>>]
  BY DEF Registry!Effective
<1>2. from \in set /\ set \subseteq from..3
  OBVIOUS
<1> HIDE DEF set
<1>3. \A i \in set : (\A j \in set : i <= j) <=> i = from
  BY <1>2
<1>4. (CHOOSE i \in set : \A j \in set : i <= j) = from
  BY <1>2, <1>3
<1> QED BY <1>1, <1>2, <1>4

LEMMA ApplyHolds == ASSUME RegistryInv, Registry!Apply PROVE Registry!EditsHold
<1> DEFINE e == world.console.edit
<1>1. world.console.step = "apply"
  BY DEF Registry!Apply
<1>2. EditStands(world.console)
  BY <1>1 DEF RegistryInv
<1>3. /\ world'.rows = Registry!Changed(world.rows, e)
      /\ world'.specs = world.specs /\ world'.settings = world.settings
  BY DEF Registry!Apply, Registry!Applied, RegistryInv
<1>4. ASSUME e.set
      PROVE  /\ DOMAIN world'.rows = DOMAIN world.rows \cup {e.key}
             /\ \A k \in DOMAIN world.rows \cup {e.key} :
                  world'.rows[k] = IF k = e.key THEN e.value ELSE world.rows[k]
  <2> HIDE DEF e
  <2>1. /\ DOMAIN Registry!Changed(world.rows, e) = DOMAIN world.rows \cup {e.key}
        /\ \A k \in DOMAIN world.rows \cup {e.key} :
             Registry!Changed(world.rows, e)[k] = IF k = e.key THEN e.value ELSE world.rows[k]
    BY <1>4, ChangedParts
  <2> QED BY <1>3, <2>1
<1> HIDE DEF e
<1>5. ASSUME world.console.fresh, e.set, e.key[1] = "alias"
      PROVE  \A c \in Registry!Kept(world.specs) :
               IF <<"alias", c.module, c.name>> = e.key THEN Registry!Accepted(world'.specs, world'.rows, c) = e.value
               ELSE Registry!Accepted(world.specs, world.rows, c) \subseteq Registry!Accepted(world'.specs, world'.rows, c)
  <2> DEFINE specs == world.specs
             held == world.rows
             now2 == world'.rows
  <2>1. /\ e.key = <<"alias", e.key[2], e.key[3]>>
        /\ Registry!Usable(e.key[2], e.key[3], e.value)
    BY <1>2, <1>5 DEF EditStands, e
  <2>2. \A c \in Registry!Kept(specs) : ~(c.module = e.key[2] /\ c.name = e.key[3]) =>
          e.value \cap Registry!Accepted(specs, held, c) = {}
    BY <2>1 DEF Registry!Usable
  <2>3. e.value \cap Registry!Canonical(specs) = {}
    BY <2>1 DEF Registry!Usable
  <2>4. \A c \in Registry!Kept(specs) :
          Registry!Wanted(now2, c) = IF <<"alias", c.module, c.name>> = e.key THEN e.value ELSE Registry!Wanted(held, c)
    BY <1>4, <1>5 DEF Registry!Wanted
  <2>5. \A c \in Registry!Kept(specs) :
          <<"alias", c.module, c.name>> # e.key => e.value \cap Registry!Accepted(specs, held, c) = {}
    BY <2>1, <2>2
  <2>6. IsSpecs(specs)
    BY DEF RegistryInv
  <2> HIDE DEF specs, held, now2
  <2>7. Given(specs, held, now2, e.key, e.value)
    BY <2>3, <2>4, <2>5 DEF Given
  <2>8. OwnNames(specs, held, now2, e.key, e.value)
    BY <2>6, <2>7, AliasesHold
  <2> QED BY <1>3, <2>8 DEF OwnNames, specs, held, now2
<1>6. ASSUME world.console.fresh, e.set, e.key[1] = "setting"
      PROVE  Registry!Effective(world'.settings, world'.rows, e.key[2],
                                CHOOSE i \in 1..3 : Registry!Places[i] = e.key[3]) = e.value
  <2>1. /\ e.key = <<"setting", e.key[2], e.key[3]>> /\ e.key[3] \in {"channel", "network", "global"}
        /\ e.key[3] \in world.settings[e.key[2]].scopes /\ e.value \in world.settings[e.key[2]].valid
    BY <1>2, <1>6 DEF EditStands, e, Registry!Admissible
  <2>2. \E i \in 1..3 : Registry!Places[i] = e.key[3]
    BY <2>1 DEF Registry!Places
  <2> DEFINE from == CHOOSE i \in 1..3 : Registry!Places[i] = e.key[3]
  <2>3. from \in 1..3 /\ Registry!Places[from] = e.key[3]
    BY <2>2
  <2> HIDE DEF from
  <2>4. e.key \in DOMAIN world'.rows /\ world'.rows[e.key] = e.value
    BY <1>4, <1>6
  <2>5. Registry!Effective(world.settings, world'.rows, e.key[2], from) = e.value
    BY <2>1, <2>3, <2>4, SettingHolds
  <2> QED BY <1>3, <2>5 DEF from
<1> QED BY <1>5, <1>6 DEF Registry!EditsHold, e

LEMMA EditsFollow == ASSUME RegistryInv, Registry!Next PROVE Registry!EditsHold
<1> SUFFICES ASSUME world.console.step = "apply", world'.console.step = "idle" PROVE Registry!EditsHold
  BY DEF Registry!EditsHold
<1>1. ASSUME world'.console = world.console PROVE FALSE
  BY <1>1
<1>2. CASE Registry!Load
  <2>1. world'.console = world.console
    BY <1>2 DEF Registry!Load, RegistryInv
  <2> QED BY <1>1, <2>1
<1>3. ASSUME NEW step, NEW kind, NEW next, Registry!Read(step, kind, next) PROVE FALSE
  <2>1. world'.console = world.console
    BY <1>3 DEF Registry!Read, RegistryInv
  <2> QED BY <1>1, <2>1
<1>4. CASE Registry!InstallCommands
  <2>1. world'.console = [world.console EXCEPT !.fresh = FALSE]
    BY <1>4 DEF Registry!InstallCommands, Registry!Install, RegistryInv
  <2>2. [world.console EXCEPT !.fresh = FALSE].step = "apply"
    BY DEF RegistryInv
  <2> QED BY <2>1, <2>2
<1>5. CASE Registry!InstallSettings
  <2>1. world'.console = [world.console EXCEPT !.fresh = FALSE]
    BY <1>5 DEF Registry!InstallSettings, Registry!Install, RegistryInv
  <2>2. [world.console EXCEPT !.fresh = FALSE].step = "apply"
    BY DEF RegistryInv
  <2> QED BY <2>1, <2>2
<1>6. ASSUME NEW e, Registry!Begin(e) PROVE FALSE
  BY <1>6 DEF Registry!Begin
<1>7. CASE Registry!ModuleThread
  BY <1>2, <1>3, <1>4, <1>5, <1>7
     DEF Registry!ModuleThread, Registry!ReadAliases, Registry!ReadPrefixes, Registry!ReadSettings
<1>8. CASE Registry!Console
  <2>1. ~Registry!Write
    BY DEF Registry!Write
  <2> QED BY <1>6, <1>8, <2>1, ApplyHolds
       DEF Registry!Console, Registry!SaveAliases, Registry!RestoreAliases, Registry!SavePrefixes,
           Registry!SaveSetting, Registry!ResetSetting
<1> QED BY <1>7, <1>8 DEF Registry!Next

-----------------------------------------------------------------------------
(* Restore points.                                                         *)

FileType == [name : Nat, at : Nat, whole : BOOLEAN, manifest : BOOLEAN]
ObjectType == [name : Nat, at : Nat, manifest : BOOLEAN]

\* A name is one file's, and what has a manifest is whole.
TierHolds(files, bound) ==
  /\ files \subseteq FileType
  /\ \A f \in files : f.name <= bound /\ (f.manifest => f.whole)
  /\ \A f, g \in files : f.name = g.name => f = g

\* A week's or month's file is whole, was left half copied, or is being copied and has no manifest yet.
CopySteps == {"copy weekly", "copy monthly"}
PointHolds(files, t, bound, broken, step, at) ==
  /\ files \subseteq FileType
  /\ \A f \in files : f.name <= bound
  /\ \A f, g \in files : f.name = g.name => f = g
  /\ \A f \in files : \/ f.whole
                        \/ <<t, f.name>> \in broken
                        \/ (~f.manifest /\ t = "weekly" /\ step = "copy weekly" /\ f.name = Backups!WeekOf(at))
                        \/ (~f.manifest /\ t = "monthly" /\ step = "copy monthly" /\ f.name = Backups!MonthOf(at))
PointsHold(files, bound, broken, run) ==
  \A t \in {"weekly", "monthly"} : PointHolds(files[t], t, bound, broken, run.step, run.at)

\* A later name is a later copy; what a run vouched for, and the day recorded, has its copy.
DailyHolds(files, runs, now2, good, day) ==
  /\ \A f \in files : f.name < runs /\ f.at <= now2
  /\ \A f, g \in files : f.name <= g.name => f.at <= g.at
  /\ \A n \in good : n \in Nat /\ n < runs /\ \E f \in files : f.whole /\ f.manifest /\ f.name >= n
  /\ day \in Nat
  /\ day # Backups!Never => /\ day <= Backups!DayOf(now2)
                            /\ \E f \in files : f.whole /\ f.manifest /\ Backups!DayOf(f.at) >= day

ObjectsHold(objects, runs, now2, week) ==
  /\ objects \subseteq ObjectType
  /\ \A o \in objects : o.name < runs /\ o.at <= now2
  /\ \A o, p \in objects : o.name = p.name => o = p
  /\ \A o, p \in objects : o.name <= p.name => o.at <= p.at
  /\ week \in Nat
  /\ week # Backups!Never => /\ week <= Backups!WeekOf(now2)
                             /\ \E o \in objects : o.manifest /\ Backups!WeekOf(o.at) >= week

\* Where a run is: what is there of it, in the daily tier and off the machine.
Vouching == {"weekly", "copy weekly", "monthly", "copy monthly", "prune", "upload", "upload manifest", "prune objects", "record week", "done"}
BeforeUpload == {"snapshot", "verify", "manifest", "weekly", "copy weekly", "monthly", "copy monthly", "prune", "upload"}
RunHolds(run, files, objects, runs, now2, good) ==
  /\ "step" \in DOMAIN run
  /\ run.step # "idle" =>
       /\ DOMAIN run = {"step", "at", "name", "force", "with"}
       /\ run.step \in {"snapshot", "verify", "manifest"} \cup Vouching
       /\ run.at = now2 /\ run.name \in Nat /\ runs = run.name + 1
       /\ run.with.daily \in Nat \ {0} /\ run.with.weekly \in Nat /\ run.with.monthly \in Nat
       /\ run.with.remote => run.with.weekly > 0
       /\ run.step = "snapshot" => \A f \in files : f.name # run.name
       /\ run.step = "verify" => \A f \in files : f.name = run.name => ~f.whole
       /\ run.step = "manifest" => \E f \in files : f.name = run.name /\ f.at = run.at /\ f.whole
       /\ run.step \in Vouching => \E f \in files : f.name = run.name /\ f.at = run.at /\ f.whole /\ f.manifest
       /\ run.step \in BeforeUpload => \A o \in objects : o.name # run.name
       /\ run.step = "upload manifest" => \E o \in objects : o.name = run.name /\ o.at = run.at
       /\ run.step \in {"prune objects", "record week"} =>
            \E o \in objects : o.name = run.name /\ o.at = run.at /\ o.manifest
       /\ run.step \in {"upload", "upload manifest", "prune objects"} => run.with.weekly > 0

SettingsType == [on : BOOLEAN, remote : BOOLEAN, daily : Nat, weekly : Nat, monthly : Nat]
\* A save that is not over has written the fields before the next one.
SettingsHold(settings, save, torn) ==
  /\ settings \in SettingsType
  /\ \/ save = <<>> /\ (torn \/ Backups!Loads(settings))
     \/ \E s \in SettingsType, n \in 1..5 :
          /\ Backups!Acceptable(s) /\ DOMAIN save = n..5
          /\ \A i \in n..5 : save[i] = [field |-> Backups!Fields[i], value |-> s[Backups!Fields[i]]]
          /\ \A i \in 1..n - 1 : settings[Backups!Fields[i]] = s[Backups!Fields[i]]

BackupsInv ==
  /\ DOMAIN world = {"now", "files", "objects", "run", "save", "torn", "good", "broken", "runs", "saves", "cuts"}
  /\ DOMAIN db = {"settings", "day", "week"}
  /\ world.now \in 0..MaxNow /\ world.runs \in Nat
  /\ DOMAIN world.files = {"daily", "weekly", "monthly"}
  /\ TierHolds(world.files["daily"], world.runs)
  /\ PointsHold(world.files, world.now, world.broken, world.run)
  /\ DailyHolds(world.files["daily"], world.runs, world.now, world.good, db.day)
  /\ ObjectsHold(world.objects, world.runs, world.now, db.week)
  /\ RunHolds(world.run, world.files["daily"], world.objects, world.runs, world.now, world.good)
  /\ SettingsHold(db.settings, world.save, world.torn)

LEMMA SameCount == \A S : Backups!Cardinality(S) = Cardinality(S)
  BY Zenon DEF Backups!Cardinality, Cardinality

\* Files, or objects, that their names tell apart.
Named(files, bound) ==
  /\ bound \in Nat /\ \A f \in files : f.name \in Nat /\ f.name <= bound
  /\ \A f, g \in files : f.name = g.name => f = g

LEMMA NamedIsFinite == ASSUME NEW files, NEW bound, Named(files, bound) PROVE IsFiniteSet(files)
<1> DEFINE F == [f \in files |-> f.name]
<1>1. F \in [files -> 0..bound]
  BY DEF Named
<1>2. \A f, g \in files : F[f] = F[g] => f = g
  BY DEF Named
<1> HIDE DEF F
<1>3. F \in Injection(files, 0..bound)
  BY <1>1, <1>2 DEF Injection, IsInjective
<1>4. IsFiniteSet(0..bound)
  BY FS_Interval DEF Named
<1> QED BY <1>3, <1>4, FS_Injection

\* Pruning takes the first by name.
LEMMA PrunedIsFirst ==
  ASSUME NEW files, NEW bound, Named(files, bound), files # {}
  PROVE  \E x \in files : Backups!Pruned(files) = {x} /\ \A f \in files : x.name <= f.name
<1> DEFINE names == {f.name : f \in files}
<1>1. names \subseteq Nat /\ names # {}
  BY DEF Named
<1>2. \E n \in names : \A m \in names : n <= m
  BY <1>1, LeastOf
<1>3. Backups!Min(names) \in names /\ \A m \in names : Backups!Min(names) <= m
  BY <1>2 DEF Backups!Min
<1>4. PICK x \in files : x.name = Backups!Min(names)
  BY <1>3
<1>5. \A f \in files : x.name <= f.name
  BY <1>3, <1>4
<1>6. Backups!Pruned(files) = {f \in files : f.name = Backups!Min(names)}
  BY DEF Backups!Pruned
<1>7. {f \in files : f.name = Backups!Min(names)} = {x}
  BY <1>4 DEF Named
<1> QED BY <1>5, <1>6, <1>7

\* When there are more than are to be kept, it leaves enough, and never takes the last by name.
LEMMA PrunedLeaves ==
  ASSUME NEW files, NEW bound, Named(files, bound), NEW keep \in Nat, Backups!Cardinality(files) > keep
  PROVE  \E x \in files :
           /\ Backups!Pruned(files) = {x} /\ \A f \in files : x.name <= f.name
           /\ Backups!Cardinality(files \ {x}) >= keep
           /\ keep > 0 => \E f \in files : f.name > x.name
<1>1. IsFiniteSet(files)
  BY NamedIsFinite
<1>2. Cardinality(files) \in Nat /\ Cardinality(files) > keep
  BY <1>1, FS_CardinalityType, SameCount
<1>3. files # {}
  BY <1>2, FS_EmptySet
<1>4. PICK x \in files : Backups!Pruned(files) = {x} /\ \A f \in files : x.name <= f.name
  BY <1>3, PrunedIsFirst
<1>5. Cardinality(files \ {x}) = Cardinality(files) - 1 /\ IsFiniteSet(files \ {x})
  BY <1>1, FS_RemoveElement
<1>6. Backups!Cardinality(files \ {x}) >= keep
  BY <1>2, <1>5, SameCount
<1>7. ASSUME keep > 0 PROVE \E f \in files : f.name > x.name
  <2>1. files \ {x} # {}
    BY <1>2, <1>5, <1>7, FS_EmptySet
  <2>2. PICK f \in files : f # x
    BY <2>1
  <2>3. f.name # x.name /\ x.name <= f.name /\ f.name \in Nat /\ x.name \in Nat
    BY <1>4, <2>2 DEF Named
  <2> QED BY <2>3
<1> QED BY <1>4, <1>6, <1>7

LEMMA TierIsNamed == ASSUME NEW files, NEW bound \in Nat, TierHolds(files, bound) PROVE Named(files, bound)
  BY DEF TierHolds, Named, FileType

LEMMA PointsAreNamed ==
  ASSUME NEW files, NEW t, NEW bound \in Nat, NEW broken, NEW step, NEW at, PointHolds(files, t, bound, broken, step, at)
  PROVE  Named(files, bound)
  BY DEF PointHolds, Named, FileType

\* While none is being copied it is the same what the run does, and pruning leaves what it leaves.
LEMMA PointsWait ==
  ASSUME NEW files, NEW more, NEW bound \in Nat, NEW later \in Nat, bound <= later, NEW broken, NEW run, NEW next,
         PointsHold(files, bound, broken, run), run.step \notin CopySteps,
         \A t \in {"weekly", "monthly"} : more[t] \subseteq files[t]
  PROVE  PointsHold(more, later, broken, next)
<1> SUFFICES ASSUME NEW t \in {"weekly", "monthly"}
             PROVE  PointHolds(more[t], t, later, broken, next.step, next.at)
  BY DEF PointsHold
<1>1. PointHolds(files[t], t, bound, broken, run.step, run.at) /\ more[t] \subseteq files[t]
  BY DEF PointsHold
<1>2. run.step # "copy weekly" /\ run.step # "copy monthly"
  BY DEF CopySteps
<1>3. \A f \in more[t] : f.name \in Nat /\ f.name <= bound /\ (f.whole \/ <<t, f.name>> \in broken)
  BY <1>1, <1>2 DEF PointHolds, FileType
<1>4. \A f \in more[t] : f.name <= later
  <2>1. \A n \in Nat : n <= bound => n <= later
    OBVIOUS
  <2> QED BY <1>3, <2>1
<1> QED BY <1>1, <1>3, <1>4 DEF PointHolds

LEMMA TierGrows == ASSUME NEW files, NEW bound \in Nat, NEW more \in Nat, bound <= more, TierHolds(files, bound)
                   PROVE  TierHolds(files, more)
  BY DEF TierHolds, FileType

LEMMA TierAdds ==
  ASSUME NEW files, NEW bound, TierHolds(files, bound), NEW f \in FileType, f.name <= bound,
         f.manifest => f.whole, \A g \in files : g.name # f.name
  PROVE  TierHolds(files \cup {f}, bound)
  BY DEF TierHolds

LEMMA TierDrops ==
  ASSUME NEW files, NEW bound, TierHolds(files, bound), NEW rest, rest \subseteq files
  PROVE  TierHolds(rest, bound)
  BY DEF TierHolds

\* Vouching for a name changes nothing else of the files.
VouchedFor(f, name) == [f EXCEPT !.manifest = @ \/ f.name = name]
Vouch(files, name) == {VouchedFor(f, name) : f \in files}

\* What vouching makes of one file.
SameButVouched(g, f, name) ==
  /\ g.name = f.name /\ g.at = f.at /\ g.whole = f.whole
  /\ g.manifest <=> (f.manifest \/ f.name = name)

LEMMA VouchKeepsOne ==
  ASSUME NEW f \in FileType, NEW name
  PROVE  VouchedFor(f, name) \in FileType /\ SameButVouched(VouchedFor(f, name), f, name)
  BY DEF FileType, VouchedFor, SameButVouched

LEMMA VouchKeeps ==
  ASSUME NEW files, files \subseteq FileType, NEW name
  PROVE  /\ \A f \in files : \E g \in Vouch(files, name) : SameButVouched(g, f, name)
         /\ \A g \in Vouch(files, name) : g \in FileType /\ \E f \in files : SameButVouched(g, f, name)
  BY VouchKeepsOne DEF Vouch

LEMMA TierVouches ==
  ASSUME NEW files, NEW bound, TierHolds(files, bound), NEW name, \A f \in files : f.name = name => f.whole
  PROVE  TierHolds(Vouch(files, name), bound)
<1> DEFINE more == Vouch(files, name)
<1>1. files \subseteq FileType
  BY DEF TierHolds
<1>2. \A g \in more : g \in FileType /\ \E f \in files : SameButVouched(g, f, name)
  BY <1>1, VouchKeeps
<1>3. \A g \in more : \E f \in files : g = VouchedFor(f, name) /\ g.name = f.name
  BY <1>1, VouchKeepsOne DEF Vouch, SameButVouched
<1> HIDE DEF more
<1>4. \A g, h \in more : g.name = h.name => g = h
  BY <1>3 DEF TierHolds
<1>5. \A g \in more : g.name <= bound /\ (g.manifest => g.whole)
  BY <1>2 DEF TierHolds, SameButVouched
<1>6. TierHolds(more, bound)
  BY <1>2, <1>4, <1>5 DEF TierHolds
<1> QED BY <1>6 DEF more

\* Time goes on, and so do the days, weeks and months it makes.
LEMMA DaysGoOn ==
  ASSUME NEW a \in Nat, NEW b \in Nat, a <= b
  PROVE  /\ Backups!DayOf(a) \in Nat /\ Backups!DayOf(a) <= Backups!DayOf(b) /\ Backups!DayOf(a) <= a
         /\ Backups!WeekOf(a) \in Nat /\ Backups!WeekOf(a) <= Backups!WeekOf(b) /\ Backups!WeekOf(a) <= a
         /\ Backups!MonthOf(a) \in Nat /\ Backups!MonthOf(a) <= a
<1>1. \A d \in Nat \ {0} : \A x \in Nat : x \div d \in Nat /\ x \div d <= x
  OBVIOUS
<1>2. \A d \in Nat \ {0} : \A x, y \in Nat : x <= y => x \div d <= y \div d
  OBVIOUS
<1>7. 2 \in Nat \ {0} /\ WeekDays \in Nat \ {0} /\ MonthDays \in Nat \ {0}
  BY BackupsConstants DEF Backups!BackupsAssumption
<1>3. /\ Backups!DayOf(a) = a \div 2 /\ Backups!DayOf(b) = b \div 2
      /\ Backups!WeekOf(a) = Backups!DayOf(a) \div WeekDays /\ Backups!WeekOf(b) = Backups!DayOf(b) \div WeekDays
      /\ Backups!MonthOf(a) = Backups!DayOf(a) \div MonthDays
  BY DEF Backups!DayOf, Backups!WeekOf, Backups!MonthOf
<1>4. Backups!DayOf(a) \in Nat /\ Backups!DayOf(b) \in Nat /\ Backups!DayOf(a) <= Backups!DayOf(b) /\ Backups!DayOf(a) <= a
  BY <1>1, <1>2, <1>3, <1>7
<1>5. Backups!WeekOf(a) \in Nat /\ Backups!WeekOf(a) <= Backups!WeekOf(b) /\ Backups!WeekOf(a) <= Backups!DayOf(a)
  BY <1>1, <1>2, <1>3, <1>4, <1>7
<1>6. Backups!MonthOf(a) \in Nat /\ Backups!MonthOf(a) <= Backups!DayOf(a)
  BY <1>1, <1>3, <1>4, <1>7
<1> QED BY <1>4, <1>5, <1>6

LEMMA DailyWaits ==
  ASSUME NEW files, NEW runs \in Nat, TierHolds(files, runs), NEW now2 \in Nat, NEW later \in Nat, now2 <= later,
         NEW more \in Nat, runs <= more, NEW good, NEW day, DailyHolds(files, runs, now2, good, day)
  PROVE  TierHolds(files, more) /\ DailyHolds(files, more, later, good, day)
<1>1. Backups!DayOf(now2) <= Backups!DayOf(later) /\ Backups!DayOf(now2) \in Nat /\ Backups!DayOf(later) \in Nat
  BY DaysGoOn
<1>2. \A f \in files : f.name \in Nat /\ f.at \in Nat
  BY DEF TierHolds, FileType
<1>3. \A f \in files : f.name < more /\ f.at <= later
  BY <1>2 DEF DailyHolds
<1>4. \A n \in good : n \in Nat /\ n < more
  BY DEF DailyHolds
<1>5. day # Backups!Never => day <= Backups!DayOf(later)
  BY <1>1 DEF DailyHolds
<1>6. DailyHolds(files, more, later, good, day)
  BY <1>3, <1>4, <1>5 DEF DailyHolds
<1> QED BY <1>6, TierGrows

LEMMA DailyAdds ==
  ASSUME NEW files, NEW runs \in Nat, TierHolds(files, runs), NEW now2 \in Nat,
         NEW good, NEW day, DailyHolds(files, runs, now2, good, day),
         NEW f \in FileType, f.name + 1 = runs, f.at = now2, ~f.manifest, \A g \in files : g.name # f.name
  PROVE  TierHolds(files \cup {f}, runs) /\ DailyHolds(files \cup {f}, runs, now2, good, day)
<1> DEFINE more == files \cup {f}
<1>1. f.name \in Nat /\ f.at \in Nat /\ f.name <= runs /\ f.name < runs
  BY DEF FileType
<1>2. \A g \in files : g.name \in Nat /\ g.at \in Nat /\ g.name < f.name /\ g.at <= f.at
  BY DEF TierHolds, DailyHolds, FileType
<1>3. \A g \in more : g \in files \/ g = f
  OBVIOUS
<1>4. files \subseteq more
  OBVIOUS
<1> HIDE DEF more
<1>5. \A g, h \in more : g.name <= h.name => g.at <= h.at
  BY <1>1, <1>2, <1>3 DEF DailyHolds
<1>6. \A g \in more : g.name < runs /\ g.at <= now2
  BY <1>1, <1>3 DEF DailyHolds
<1>7. DailyHolds(more, runs, now2, good, day)
  BY <1>4, <1>5, <1>6 DEF DailyHolds
<1> QED BY <1>1, <1>7, TierAdds DEF more

Dropped(files, name) == {f \in files : f.name # name}

\* What was never whole is missed by nobody.
LEMMA DailyDrops ==
  ASSUME NEW files, NEW runs \in Nat, TierHolds(files, runs), NEW now2 \in Nat,
         NEW good, NEW day, DailyHolds(files, runs, now2, good, day),
         NEW name, \A f \in files : f.name = name => ~f.whole
  PROVE  /\ TierHolds(Dropped(files, name), runs)
         /\ DailyHolds(Dropped(files, name), runs, now2, good, day)
<1> DEFINE rest == Dropped(files, name)
<1>1. rest \subseteq files /\ \A f \in files : f.whole => f \in rest
  BY DEF Dropped
<1> HIDE DEF rest
<1>2. DailyHolds(rest, runs, now2, good, day)
  BY <1>1 DEF DailyHolds
<1> QED BY <1>1, <1>2, TierDrops DEF rest

LEMMA DailyVouches ==
  ASSUME NEW files, NEW runs \in Nat, TierHolds(files, runs), NEW now2 \in Nat,
         NEW good, NEW day, DailyHolds(files, runs, now2, good, day),
         NEW name \in Nat, name < runs, \E f \in files : f.name = name /\ f.whole
  PROVE  /\ TierHolds(Vouch(files, name), runs)
         /\ DailyHolds(Vouch(files, name), runs, now2, good \cup {name}, day)
<1> DEFINE more == Vouch(files, name)
<1>1. \A f \in files : f.name = name => f.whole
  BY DEF TierHolds
<1>2. files \subseteq FileType
  BY DEF TierHolds
<1>3. /\ \A f \in files : \E g \in more : SameButVouched(g, f, name)
      /\ \A g \in more : \E f \in files : SameButVouched(g, f, name)
  BY <1>2, VouchKeeps
<1> HIDE DEF more
<1>4. /\ \A g \in more : g.name < runs /\ g.at <= now2
      /\ \A g, h \in more : g.name <= h.name => g.at <= h.at
  BY <1>3 DEF DailyHolds, SameButVouched
<1>5. \A n \in good \cup {name} : n \in Nat /\ n < runs /\ \E g \in more : g.whole /\ g.manifest /\ g.name >= n
  <2>1. ASSUME NEW n \in good PROVE n \in Nat /\ n < runs /\ \E g \in more : g.whole /\ g.manifest /\ g.name >= n
    BY <1>3, <2>1 DEF DailyHolds, SameButVouched
  <2>2. \E g \in more : g.whole /\ g.manifest /\ g.name = name
    BY <1>1, <1>3 DEF SameButVouched
  <2> QED BY <2>1, <2>2
<1>6. day # Backups!Never => \E g \in more : g.whole /\ g.manifest /\ Backups!DayOf(g.at) >= day
  BY <1>3 DEF DailyHolds, SameButVouched
<1>7. DailyHolds(more, runs, now2, good \cup {name}, day)
  BY <1>4, <1>5, <1>6 DEF DailyHolds
<1> QED BY <1>1, <1>7, TierVouches DEF more

\* With the last run's own copy there, the rest may go.
LEMMA DailyPrunes ==
  ASSUME NEW files, NEW runs \in Nat, TierHolds(files, runs), NEW now2 \in Nat,
         NEW good, NEW day, DailyHolds(files, runs, now2, good, day),
         NEW rest, rest \subseteq files, NEW f \in rest, f.name + 1 = runs, f.at = now2, f.whole, f.manifest
  PROVE  TierHolds(rest, runs) /\ DailyHolds(rest, runs, now2, good, day)
<1>1. f.name \in Nat
  BY DEF TierHolds, FileType
<1>2. \A n \in good : n \in Nat /\ n < runs /\ f.name >= n
  BY <1>1 DEF DailyHolds
<1>3. day # Backups!Never => Backups!DayOf(f.at) >= day
  BY DaysGoOn DEF DailyHolds
<1>4. DailyHolds(rest, runs, now2, good, day)
  BY <1>2, <1>3 DEF DailyHolds
<1> QED BY <1>4, TierDrops

LEMMA DayIsRecorded ==
  ASSUME NEW files, NEW runs, NEW now2 \in Nat, NEW good, NEW day, DailyHolds(files, runs, now2, good, day),
         NEW f \in files, f.at = now2, f.whole, f.manifest
  PROVE  DailyHolds(files, runs, now2, good, Backups!DayOf(now2))
<1>1. Backups!DayOf(now2) \in Nat /\ Backups!DayOf(now2) <= Backups!DayOf(now2)
  BY DaysGoOn
<1>2. \E g \in files : g.whole /\ g.manifest /\ Backups!DayOf(g.at) >= Backups!DayOf(now2)
  BY <1>1
<1> QED BY <1>1, <1>2 DEF DailyHolds

\* The same off the machine.
LEMMA ObjectsWait ==
  ASSUME NEW objects, NEW runs \in Nat, NEW now2 \in Nat, NEW later \in Nat, now2 <= later,
         NEW more \in Nat, runs <= more, NEW week, ObjectsHold(objects, runs, now2, week)
  PROVE  ObjectsHold(objects, more, later, week)
<1>1. Backups!WeekOf(now2) <= Backups!WeekOf(later) /\ Backups!WeekOf(now2) \in Nat /\ Backups!WeekOf(later) \in Nat
  BY DaysGoOn
<1>2. \A o \in objects : o.name \in Nat /\ o.at \in Nat
  BY DEF ObjectsHold, ObjectType
<1>3. \A o \in objects : o.name < more /\ o.at <= later
  BY <1>2 DEF ObjectsHold
<1>4. week # Backups!Never => week <= Backups!WeekOf(later)
  BY <1>1 DEF ObjectsHold
<1> QED BY <1>3, <1>4 DEF ObjectsHold

LEMMA ObjectsAdd ==
  ASSUME NEW objects, NEW runs \in Nat, NEW now2 \in Nat, NEW week, ObjectsHold(objects, runs, now2, week),
         NEW o \in ObjectType, o.name + 1 = runs, o.at = now2, \A p \in objects : p.name # o.name
  PROVE  ObjectsHold(objects \cup {o}, runs, now2, week)
<1> DEFINE more == objects \cup {o}
<1>1. o.name \in Nat /\ o.at \in Nat /\ o.name < runs
  BY DEF ObjectType
<1>2. \A p \in objects : p.name \in Nat /\ p.at \in Nat /\ p.name < o.name /\ p.at <= o.at
  BY DEF ObjectsHold, ObjectType
<1>3. \A p \in more : p \in objects \/ p = o
  OBVIOUS
<1>4. objects \subseteq more
  OBVIOUS
<1> HIDE DEF more
<1>5. /\ \A p, q \in more : p.name <= q.name => p.at <= q.at
      /\ \A p, q \in more : p.name = q.name => p = q
  BY <1>1, <1>2, <1>3 DEF ObjectsHold
<1>6. \A p \in more : p.name < runs /\ p.at <= now2 /\ p \in ObjectType
  BY <1>1, <1>3 DEF ObjectsHold
<1>7. ObjectsHold(more, runs, now2, week)
  BY <1>4, <1>5, <1>6 DEF ObjectsHold
<1> QED BY <1>7 DEF more

\* What vouching makes of one object.
SameObject(p, o, name) ==
  p.name = o.name /\ p.at = o.at /\ (p.manifest <=> (o.manifest \/ o.name = name))

LEMMA VouchKeepsObject ==
  ASSUME NEW o \in ObjectType, NEW name
  PROVE  VouchedFor(o, name) \in ObjectType /\ SameObject(VouchedFor(o, name), o, name)
  BY DEF ObjectType, VouchedFor, SameObject

LEMMA ObjectsVouch ==
  ASSUME NEW objects, NEW runs \in Nat, NEW now2 \in Nat, NEW week, ObjectsHold(objects, runs, now2, week), NEW name
  PROVE  /\ ObjectsHold(Vouch(objects, name), runs, now2, week)
         /\ \A o \in objects : \E p \in Vouch(objects, name) : SameObject(p, o, name)
<1> DEFINE more == Vouch(objects, name)
<1>1. objects \subseteq ObjectType
  BY DEF ObjectsHold
<1>2. /\ \A o \in objects : \E p \in more : SameObject(p, o, name)
      /\ \A p \in more : p \in ObjectType /\ \E o \in objects : SameObject(p, o, name) /\ p = VouchedFor(o, name)
  BY <1>1, VouchKeepsObject DEF Vouch
<1> HIDE DEF more
<1>3. \A p, q \in more : p.name = q.name => p = q
  BY <1>2 DEF ObjectsHold, SameObject
<1>4. /\ \A p \in more : p.name < runs /\ p.at <= now2
      /\ \A p, q \in more : p.name <= q.name => p.at <= q.at
  BY <1>2 DEF ObjectsHold, SameObject
<1>5. week # Backups!Never => \E p \in more : p.manifest /\ Backups!WeekOf(p.at) >= week
  BY <1>2 DEF ObjectsHold, SameObject
<1>6. ObjectsHold(more, runs, now2, week)
  BY <1>2, <1>3, <1>4, <1>5 DEF ObjectsHold
<1> QED BY <1>2, <1>6 DEF more

LEMMA ObjectsPrune ==
  ASSUME NEW objects, NEW runs \in Nat, NEW now2 \in Nat, NEW week, ObjectsHold(objects, runs, now2, week),
         NEW rest, rest \subseteq objects, NEW o \in rest, o.at = now2, o.manifest
  PROVE  ObjectsHold(rest, runs, now2, week)
<1>1. week # Backups!Never => Backups!WeekOf(o.at) >= week
  BY DaysGoOn DEF ObjectsHold
<1> QED BY <1>1 DEF ObjectsHold

LEMMA WeekIsRecorded ==
  ASSUME NEW objects, NEW runs \in Nat, NEW now2 \in Nat, NEW week, ObjectsHold(objects, runs, now2, week),
         NEW o \in objects, o.at = now2, o.manifest
  PROVE  ObjectsHold(objects, runs, now2, Backups!WeekOf(now2))
<1>1. Backups!WeekOf(now2) \in Nat /\ Backups!WeekOf(now2) <= Backups!WeekOf(now2)
  BY DaysGoOn
<1>2. \E p \in objects : p.manifest /\ Backups!WeekOf(p.at) >= Backups!WeekOf(now2)
  BY <1>1
<1> QED BY <1>1, <1>2 DEF ObjectsHold

LEMMA ObjectsNamed ==
  ASSUME NEW objects, NEW runs \in Nat, NEW now2, NEW week, ObjectsHold(objects, runs, now2, week)
  PROVE  Named(objects, runs)
  BY DEF ObjectsHold, ObjectType, Named

LEMMA BackupsInit == ASSUME Backups!Init PROVE BackupsInv
<1> DEFINE settings == [on |-> FALSE, remote |-> FALSE, daily |-> 1, weekly |-> 1, monthly |-> 1]
<1>1. /\ db = [settings |-> settings, day |-> Backups!Never, week |-> Backups!Never]
      /\ world = [now |-> 0, files |-> [t \in {"daily", "weekly", "monthly"} |-> {}], objects |-> {}, run |-> Backups!Idle,
                  save |-> <<>>, torn |-> FALSE, good |-> {}, broken |-> {}, runs |-> 0, saves |-> 0, cuts |-> 0]
  BY DEF Backups!Init, Backups!Tiers
<1>2. settings \in SettingsType /\ Backups!Loads(settings)
  BY DEF SettingsType, Backups!Loads
<1>3. Backups!Never \in Nat /\ Backups!Idle.step = "idle" /\ "step" \in DOMAIN Backups!Idle
  BY BackupsConstants DEF Backups!Never, Backups!Idle, Backups!BackupsAssumption
<1> HIDE DEF settings
<1>4. /\ DOMAIN world = {"now", "files", "objects", "run", "save", "torn", "good", "broken", "runs", "saves", "cuts"}
      /\ DOMAIN db = {"settings", "day", "week"}
      /\ world.now = 0 /\ world.runs = 0 /\ world.files = [t \in {"daily", "weekly", "monthly"} |-> {}]
      /\ world.good = {} /\ world.objects = {} /\ db.day = Backups!Never /\ db.week = Backups!Never /\ world.run = Backups!Idle
      /\ world.broken = {} /\ db.settings = settings /\ world.save = <<>> /\ world.torn = FALSE
  BY <1>1, <1>3
<1>5. TierHolds({}, 0) /\ DailyHolds({}, 0, 0, {}, Backups!Never) /\ ObjectsHold({}, 0, 0, Backups!Never)
  BY <1>3 DEF TierHolds, DailyHolds, ObjectsHold
<1>6. RunHolds(world.run, {}, {}, 0, 0, {})
  BY <1>3, <1>4 DEF RunHolds
<1>7. SettingsHold(db.settings, world.save, world.torn)
  BY <1>2, <1>4 DEF SettingsHold
<1>8. world.files["daily"] = {} /\ world.files["weekly"] = {} /\ world.files["monthly"] = {}
      /\ DOMAIN world.files = {"daily", "weekly", "monthly"}
  BY <1>4
<1>9. world.now \in 0..MaxNow /\ world.runs \in Nat
  BY <1>4, BackupsConstants DEF Backups!BackupsAssumption
<1>10. PointsHold(world.files, world.now, world.broken, world.run)
  BY <1>8 DEF PointsHold, PointHolds
<1> QED BY <1>4, <1>5, <1>6, <1>7, <1>8, <1>9, <1>10 DEF BackupsInv

\* What a step of a run leaves as it is.
WorldFields == {"now", "files", "objects", "run", "save", "torn", "good", "broken", "runs", "saves", "cuts"}
RunFields == {"step", "at", "name", "force", "with"}
SameBut(changed) ==
  /\ DOMAIN world' = WorldFields
  /\ \A x \in WorldFields \ changed : world'[x] = world[x]
Goes(run, next) ==
  /\ DOMAIN world'.run = DOMAIN run /\ world'.run.step = next
  /\ world'.run.at = run.at /\ world'.run.name = run.name /\ world'.run.with = run.with

\* A restore point that is whole is still there.
Stays(files, later) == \A f \in files : f.whole => \E g \in later : g.name = f.name /\ g.at = f.at

LEMMA PointsStay ==
  ASSUME \A t \in {"daily", "weekly", "monthly"} : Stays(world.files[t], world'.files[t])
  PROVE  Backups!PointsStand
  BY DEF Stays, Backups!PointsStand, Backups!Tiers

\* A run under way.
LEMMA RunParts ==
  ASSUME BackupsInv, world.run.step # "idle"
  PROVE  /\ DOMAIN world.run = RunFields /\ world.run.at = world.now /\ world.now \in Nat
         /\ world.run.name \in Nat /\ world.runs = world.run.name + 1 /\ world.runs \in Nat
         /\ world.run.with.daily \in Nat \ {0} /\ world.run.with.weekly \in Nat /\ world.run.with.monthly \in Nat
         /\ world.run.with.remote => world.run.with.weekly > 0
         /\ world.run.step \in {"snapshot", "verify", "manifest"} \cup Vouching
<1>1. RunHolds(world.run, world.files["daily"], world.objects, world.runs, world.now, world.good)
  BY DEF BackupsInv
<1>2. world.now \in Nat /\ world.runs \in Nat
  BY DEF BackupsInv
<1>3. world.run.step \in {"snapshot", "verify", "manifest"} \cup Vouching
  BY <1>1 DEF RunHolds
<1> QED BY <1>1, <1>2, <1>3 DEF RunHolds, RunFields

LEMMA PointsAreLeft ==
  ASSUME BackupsInv, world.run.step \notin CopySteps, world'.now = world.now, world'.broken = world.broken,
         world'.files["weekly"] = world.files["weekly"], world'.files["monthly"] = world.files["monthly"]
  PROVE  PointsHold(world'.files, world'.now, world'.broken, world'.run)
<1>1. world.now \in Nat /\ world.now <= world.now /\ PointsHold(world.files, world.now, world.broken, world.run)
  BY DEF BackupsInv
<1>2. \A t \in {"weekly", "monthly"} : world'.files[t] \subseteq world.files[t]
  OBVIOUS
<1>3. PointsHold(world'.files, world.now, world.broken, world'.run)
  BY <1>1, <1>2, PointsWait
<1> QED BY <1>3

LEMMA StartStep == ASSUME BackupsInv, NEW force, Backups!Start(force) PROVE BackupsInv' /\ Backups!PointsStand
<1> DEFINE run == [step |-> "snapshot", at |-> world.now, name |-> world.runs, force |-> force, with |-> db.settings]
<1>1. /\ Backups!Loads(db.settings) /\ UNCHANGED db
      /\ world' = [world EXCEPT !.runs = @ + 1, !.run = run]
  BY DEF Backups!Start
<1>2. /\ DOMAIN run = RunFields /\ run.step = "snapshot" /\ run.at = world.now /\ run.name = world.runs
      /\ run.with = db.settings
  BY DEF RunFields
<1> HIDE DEF run
<1>3. /\ DOMAIN world' = DOMAIN world /\ world'.runs = world.runs + 1 /\ world'.run = run
      /\ world'.now = world.now /\ world'.files = world.files /\ world'.objects = world.objects
      /\ world'.save = world.save /\ world'.torn = world.torn /\ world'.good = world.good /\ world'.broken = world.broken
  BY <1>1 DEF BackupsInv
<1>4. world.now \in Nat /\ world.runs \in Nat /\ world.runs + 1 \in Nat /\ world.now <= world.now /\ world.runs <= world.runs + 1
  BY DEF BackupsInv
<1>5. /\ TierHolds(world.files["daily"], world.runs + 1)
      /\ DailyHolds(world.files["daily"], world.runs + 1, world.now, world.good, db.day)
  BY <1>4, DailyWaits DEF BackupsInv
<1>6. ObjectsHold(world.objects, world.runs + 1, world.now, db.week)
  BY <1>4, ObjectsWait DEF BackupsInv
<1>7. db.settings \in SettingsType
  BY DEF BackupsInv, SettingsHold
<1>8. /\ \A f \in world.files["daily"] : f.name # world.runs
      /\ \A o \in world.objects : o.name # world.runs
  BY DEF BackupsInv, DailyHolds, ObjectsHold
<1>9. /\ db.settings.daily \in Nat \ {0} /\ db.settings.weekly \in Nat /\ db.settings.monthly \in Nat
      /\ db.settings.remote => db.settings.weekly > 0
  BY <1>1, <1>7 DEF SettingsType, Backups!Loads
<1>10. RunHolds(run, world.files["daily"], world.objects, world.runs + 1, world.now, world.good)
  BY <1>2, <1>4, <1>8, <1>9 DEF RunHolds, RunFields, Vouching
<1>13. PointsHold(world.files, world.now, world.broken, run)
  <2>1. world.run.step \notin CopySteps
    BY DEF Backups!Start, Backups!At, CopySteps
  <2>2. PointsHold(world.files, world.now, world.broken, world.run)
    BY DEF BackupsInv
  <2> QED BY <1>4, <2>1, <2>2, PointsWait
<1>11. BackupsInv'
  BY <1>1, <1>3, <1>4, <1>5, <1>6, <1>10, <1>13 DEF BackupsInv
<1>12. Backups!PointsStand
  BY <1>3, PointsStay DEF Stays
<1> QED BY <1>11, <1>12

LEMMA SnapshotStep == ASSUME BackupsInv, Backups!Snapshot PROVE BackupsInv' /\ Backups!PointsStand
<1> DEFINE run == world.run
           f == [Backups!Copy EXCEPT !.whole = FALSE]
           daily == world.files["daily"]
<1>1. run.step = "snapshot" /\ UNCHANGED db
  BY DEF Backups!Snapshot, Backups!At
<1>2. /\ DOMAIN run = RunFields /\ run.at = world.now /\ world.now \in Nat
      /\ run.name \in Nat /\ world.runs = run.name + 1 /\ world.runs \in Nat
  BY <1>1, RunParts
<1>3. f \in FileType /\ f.name = run.name /\ f.at = run.at /\ ~f.whole /\ ~f.manifest
  BY <1>2 DEF Backups!Copy, FileType
<1>4. world' = [[world EXCEPT !.files["daily"] = @ \cup {f}] EXCEPT !.run.step = "verify"]
  BY DEF Backups!Snapshot, Backups!Written
<1> HIDE DEF f
<1>5. /\ DOMAIN world' = DOMAIN world /\ DOMAIN world'.files = {"daily", "weekly", "monthly"}
      /\ world'.files["daily"] = daily \cup {f}
      /\ world'.files["weekly"] = world.files["weekly"] /\ world'.files["monthly"] = world.files["monthly"]
      /\ world'.now = world.now /\ world'.runs = world.runs /\ world'.objects = world.objects
      /\ world'.save = world.save /\ world'.torn = world.torn /\ world'.good = world.good /\ world'.broken = world.broken
  BY <1>4 DEF BackupsInv
<1>6. Goes(run, "verify")
  BY <1>2, <1>4 DEF BackupsInv, Goes, RunFields
<1>7. RunHolds(run, daily, world.objects, world.runs, world.now, world.good)
  BY DEF BackupsInv
<1>8. /\ TierHolds(daily, world.runs) /\ DailyHolds(daily, world.runs, world.now, world.good, db.day)
  BY DEF BackupsInv
<1>9. \A g \in daily : g.name # f.name
  BY <1>1, <1>3, <1>7 DEF RunHolds
<1> HIDE DEF run, daily
<1>10. TierHolds(daily \cup {f}, world.runs) /\ DailyHolds(daily \cup {f}, world.runs, world.now, world.good, db.day)
  BY <1>2, <1>3, <1>8, <1>9, DailyAdds
<1>11. \A g \in daily \cup {f} : g.name = run.name => ~g.whole
  BY <1>3, <1>9
<1>12. RunHolds(world'.run, daily \cup {f}, world.objects, world.runs, world.now, world.good)
  BY <1>1, <1>2, <1>6, <1>7, <1>11 DEF RunHolds, Goes, RunFields, Vouching, BeforeUpload
<1>15. PointsHold(world'.files, world'.now, world'.broken, world'.run)
  BY <1>1, <1>5, PointsAreLeft DEF CopySteps, run
<1>13. BackupsInv'
  BY <1>1, <1>5, <1>10, <1>12, <1>15 DEF BackupsInv
<1>14. Backups!PointsStand
  BY <1>5, PointsStay DEF Stays, daily
<1> QED BY <1>13, <1>14

LEMMA VerifyStep == ASSUME BackupsInv, Backups!Verify PROVE BackupsInv' /\ Backups!PointsStand
<1> DEFINE run == world.run
           f == Backups!Copy
           daily == world.files["daily"]
           rest == Dropped(daily, run.name)
<1>1. run.step = "verify" /\ UNCHANGED db
  BY DEF Backups!Verify, Backups!At
<1>2. /\ DOMAIN run = RunFields /\ run.at = world.now /\ world.now \in Nat
      /\ run.name \in Nat /\ world.runs = run.name + 1 /\ world.runs \in Nat
  BY <1>1, RunParts
<1>3. f \in FileType /\ f.name = run.name /\ f.at = run.at /\ f.whole /\ ~f.manifest
  BY <1>2 DEF Backups!Copy, FileType
<1>4. \/ world' = [world EXCEPT !.files["daily"] = rest \cup {f}, !.run.step = "manifest"]
      \/ world' = [world EXCEPT !.files["daily"] = rest, !.run = Backups!Idle, !.cuts = @ + 1]
  BY DEF Backups!Verify, Dropped
<1>5. RunHolds(run, daily, world.objects, world.runs, world.now, world.good)
  BY DEF BackupsInv
<1>6. /\ TierHolds(daily, world.runs) /\ DailyHolds(daily, world.runs, world.now, world.good, db.day)
  BY DEF BackupsInv
<1>7. \A g \in daily : g.name = run.name => ~g.whole
  BY <1>1, <1>5 DEF RunHolds
<1>8. TierHolds(rest, world.runs) /\ DailyHolds(rest, world.runs, world.now, world.good, db.day)
  BY <1>2, <1>6, <1>7, DailyDrops
<1>9. /\ \A g \in rest : g.name # run.name
      /\ \A g \in daily : g.whole => g \in rest
  BY <1>7 DEF Dropped
<1> HIDE DEF f, rest
<1>10. CASE world' = [world EXCEPT !.files["daily"] = rest \cup {f}, !.run.step = "manifest"]
  <2>1. /\ DOMAIN world' = DOMAIN world /\ DOMAIN world'.files = {"daily", "weekly", "monthly"}
        /\ world'.files["daily"] = rest \cup {f}
        /\ world'.files["weekly"] = world.files["weekly"] /\ world'.files["monthly"] = world.files["monthly"]
        /\ world'.now = world.now /\ world'.runs = world.runs /\ world'.objects = world.objects
        /\ world'.save = world.save /\ world'.torn = world.torn /\ world'.good = world.good /\ world'.broken = world.broken
    BY <1>10 DEF BackupsInv
  <2>2. Goes(run, "manifest")
    BY <1>2, <1>10 DEF BackupsInv, Goes, RunFields
  <2> HIDE DEF run, daily
  <2>3. TierHolds(rest \cup {f}, world.runs) /\ DailyHolds(rest \cup {f}, world.runs, world.now, world.good, db.day)
    BY <1>2, <1>3, <1>8, <1>9, DailyAdds
  <2>4. RunHolds(world'.run, rest \cup {f}, world.objects, world.runs, world.now, world.good)
    BY <1>1, <1>2, <1>3, <1>5, <2>2 DEF RunHolds, Goes, RunFields, Vouching, BeforeUpload
  <2>7. PointsHold(world'.files, world'.now, world'.broken, world'.run)
    BY <1>1, <2>1, PointsAreLeft DEF CopySteps, run
  <2>5. BackupsInv'
    BY <1>1, <2>1, <2>3, <2>4, <2>7 DEF BackupsInv
  <2>6. Backups!PointsStand
    BY <1>9, <2>1, PointsStay DEF Stays, daily
  <2> QED BY <2>5, <2>6
<1>11. CASE world' = [world EXCEPT !.files["daily"] = rest, !.run = Backups!Idle, !.cuts = @ + 1]
  <2>1. /\ DOMAIN world' = DOMAIN world /\ DOMAIN world'.files = {"daily", "weekly", "monthly"}
        /\ world'.files["daily"] = rest /\ world'.run = Backups!Idle
        /\ world'.files["weekly"] = world.files["weekly"] /\ world'.files["monthly"] = world.files["monthly"]
        /\ world'.now = world.now /\ world'.runs = world.runs /\ world'.objects = world.objects
        /\ world'.save = world.save /\ world'.torn = world.torn /\ world'.good = world.good /\ world'.broken = world.broken
    BY <1>11 DEF BackupsInv
  <2> HIDE DEF run, daily
  <2>2. RunHolds(Backups!Idle, rest, world.objects, world.runs, world.now, world.good)
    BY DEF RunHolds, Backups!Idle
  <2>5. PointsHold(world'.files, world'.now, world'.broken, world'.run)
    BY <1>1, <2>1, PointsAreLeft DEF CopySteps, run
  <2>3. BackupsInv'
    BY <1>1, <1>8, <2>1, <2>2, <2>5 DEF BackupsInv
  <2>4. Backups!PointsStand
    BY <1>9, <2>1, PointsStay DEF Stays, daily
  <2> QED BY <2>3, <2>4
<1> QED BY <1>4, <1>10, <1>11

LEMMA VouchStays == ASSUME NEW files, files \subseteq FileType, NEW name PROVE Stays(files, Vouch(files, name))
  BY VouchKeeps DEF Stays, SameButVouched

LEMMA ManifestStep == ASSUME BackupsInv, Backups!Manifest PROVE BackupsInv' /\ Backups!PointsStand
<1> DEFINE run == world.run
           daily == world.files["daily"]
           more == Vouch(daily, run.name)
           good == world.good \cup {run.name}
<1>1. run.step = "manifest" /\ UNCHANGED db
  BY DEF Backups!Manifest, Backups!ManifestDue, Backups!At
<1>2. /\ DOMAIN run = RunFields /\ run.at = world.now /\ world.now \in Nat
      /\ run.name \in Nat /\ world.runs = run.name + 1 /\ world.runs \in Nat
  BY <1>1, RunParts
<1>3. Backups!Vouched("daily", run.name) = more
  BY DEF Backups!Vouched, Vouch, VouchedFor
<1> HIDE DEF more, good
<1>4. world' = [world EXCEPT !.files["daily"] = more, !.good = good, !.run.step = "weekly"]
  BY <1>1, <1>3 DEF Backups!Manifest, good
<1>5. /\ DOMAIN world' = DOMAIN world /\ DOMAIN world'.files = {"daily", "weekly", "monthly"}
      /\ world'.files["daily"] = more
      /\ world'.files["weekly"] = world.files["weekly"] /\ world'.files["monthly"] = world.files["monthly"]
      /\ world'.now = world.now /\ world'.runs = world.runs /\ world'.objects = world.objects
      /\ world'.save = world.save /\ world'.torn = world.torn /\ world'.good = good /\ world'.broken = world.broken
  BY <1>4 DEF BackupsInv
<1>6. Goes(run, "weekly")
  BY <1>2, <1>4 DEF BackupsInv, Goes, RunFields
<1>7. RunHolds(run, daily, world.objects, world.runs, world.now, world.good)
  BY DEF BackupsInv
<1>8. /\ TierHolds(daily, world.runs) /\ DailyHolds(daily, world.runs, world.now, world.good, db.day)
  BY DEF BackupsInv
<1>9. PICK f \in daily : f.name = run.name /\ f.at = run.at /\ f.whole
  BY <1>1, <1>7 DEF RunHolds
<1>10. daily \subseteq FileType
  BY <1>8 DEF TierHolds
<1> HIDE DEF run, daily
<1>11. TierHolds(more, world.runs) /\ DailyHolds(more, world.runs, world.now, good, db.day)
  BY <1>2, <1>8, <1>9, DailyVouches DEF more, good
<1>12. \E g \in more : g.name = run.name /\ g.at = run.at /\ g.whole /\ g.manifest
  BY <1>9, <1>10, VouchKeeps DEF more, SameButVouched
<1>13. RunHolds(world'.run, more, world.objects, world.runs, world.now, good)
  BY <1>1, <1>2, <1>6, <1>7, <1>12 DEF RunHolds, Goes, RunFields, Vouching, BeforeUpload
<1>17. PointsHold(world'.files, world'.now, world'.broken, world'.run)
  BY <1>1, <1>5, PointsAreLeft DEF CopySteps, run
<1>14. BackupsInv'
  BY <1>1, <1>5, <1>11, <1>13, <1>17 DEF BackupsInv
<1>15. Stays(daily, more)
  BY <1>10, VouchStays DEF more
<1>16. Backups!PointsStand
  BY <1>5, <1>15, PointsStay DEF Stays, daily
<1> QED BY <1>14, <1>16

\* A step of the promotions changes one of the two tiers.
PointSteps == {"weekly", "copy weekly", "monthly", "copy monthly", "prune"}
CopiesOf(t) == IF t = "weekly" THEN "copy weekly" ELSE "copy monthly"

LEMMA PointsChange ==
  ASSUME BackupsInv, NEW t \in {"weekly", "monthly"}, NEW more, NEW to \in PointSteps,
         world.run.step \in PointSteps, world.run.step \in {CopiesOf(t)} \cup {"weekly", "monthly"},
         PointHolds(more, t, world.now, world.broken, to, world.run.at), Stays(world.files[t], more), UNCHANGED db,
         \/ world' = [world EXCEPT !.files[t] = more, !.run.step = to]
         \/ world' = [world EXCEPT !.files[t] = more] /\ to = world.run.step
  PROVE  BackupsInv' /\ Backups!PointsStand
<1> DEFINE run == world.run
           files == world.files[t]
<1>1. run.step \in PointSteps
  OBVIOUS
<1>2. /\ DOMAIN run = RunFields /\ run.at = world.now /\ world.now \in Nat /\ run.name \in Nat
  BY <1>1, RunParts DEF PointSteps
<1>3. world' = [world EXCEPT !.files[t] = more, !.run.step = to] => world'.run = [world.run EXCEPT !.step = to]
  BY DEF BackupsInv
<1>4. world' = [world EXCEPT !.files[t] = more] => world'.run = world.run
  BY DEF BackupsInv
<1>5. Goes(run, to)
  BY <1>2, <1>3, <1>4 DEF Goes, RunFields
<1>6. /\ DOMAIN world' = DOMAIN world /\ world'.files = [world.files EXCEPT ![t] = more]
      /\ world'.now = world.now /\ world'.runs = world.runs /\ world'.objects = world.objects
      /\ world'.save = world.save /\ world'.torn = world.torn /\ world'.good = world.good /\ world'.broken = world.broken
  BY DEF BackupsInv
<1>7. /\ DOMAIN world'.files = {"daily", "weekly", "monthly"}
      /\ \A u \in {"daily", "weekly", "monthly"} : world'.files[u] = IF u = t THEN more ELSE world.files[u]
  BY <1>6 DEF BackupsInv
<1>8. /\ world.now \in 0..MaxNow /\ world.runs \in Nat
      /\ TierHolds(world.files["daily"], world.runs)
      /\ DailyHolds(world.files["daily"], world.runs, world.now, world.good, db.day)
      /\ ObjectsHold(world.objects, world.runs, world.now, db.week)
      /\ RunHolds(run, world.files["daily"], world.objects, world.runs, world.now, world.good)
      /\ SettingsHold(db.settings, world.save, world.torn)
      /\ DOMAIN world = {"now", "files", "objects", "run", "save", "torn", "good", "broken", "runs", "saves", "cuts"}
      /\ DOMAIN db = {"settings", "day", "week"}
      /\ PointsHold(world.files, world.now, world.broken, run)
  BY DEF BackupsInv
<1> HIDE DEF run, files
<1>9. RunHolds(world'.run, world.files["daily"], world.objects, world.runs, world.now, world.good)
  BY <1>1, <1>5, <1>8 DEF RunHolds, Goes, RunFields, Vouching, BeforeUpload, PointSteps
<1>10. world'.run.step = to /\ world'.run.at = run.at
  BY <1>5 DEF Goes
<1>11. PointsHold(world'.files, world.now, world.broken, world'.run)
  <2> SUFFICES ASSUME NEW u \in {"weekly", "monthly"}
               PROVE  PointHolds(world'.files[u], u, world.now, world.broken, to, run.at)
    BY <1>10 DEF PointsHold
  <2>1. CASE u = t
    BY <1>7, <2>1 DEF run
  <2>2. CASE u # t
    <3>1. PointHolds(world.files[u], u, world.now, world.broken, run.step, run.at)
      BY <1>8 DEF PointsHold
    <3>2. u = "weekly" => run.step # "copy weekly"
      BY <2>2 DEF run, CopiesOf
    <3>3. u = "monthly" => run.step # "copy monthly"
      BY <2>2 DEF run, CopiesOf
    <3>4. world'.files[u] = world.files[u]
      BY <1>7, <2>2
    <3> QED BY <3>1, <3>2, <3>3, <3>4 DEF PointHolds
  <2> QED BY <2>1, <2>2
<1>12. world'.files["daily"] = world.files["daily"]
  BY <1>7
<1>13. BackupsInv'
  BY <1>6, <1>7, <1>8, <1>9, <1>11, <1>12 DEF BackupsInv
<1>14. \A u \in {"daily", "weekly", "monthly"} : Stays(world.files[u], world'.files[u])
  BY <1>7 DEF Stays, files
<1> QED BY <1>13, <1>14, PointsStay

LEMMA PromoteStep ==
  ASSUME BackupsInv, NEW t \in {"weekly", "monthly"}, NEW step, NEW name \in Nat, name <= world.now, NEW next,
         <<step, next>> \in {<<"weekly", "monthly">>, <<"monthly", "prune">>},
         Backups!Promote(t, step, name, next)
  PROVE  BackupsInv' /\ Backups!PointsStand
<1> DEFINE run == world.run
           files == world.files[t]
           f == [Backups!Copy EXCEPT !.name = name]
<1>1. run.step = step /\ UNCHANGED db /\ step \in {"weekly", "monthly"} /\ next \in {"monthly", "prune"}
  BY DEF Backups!Promote, Backups!At
<1>2. /\ DOMAIN run = RunFields /\ run.at = world.now /\ world.now \in Nat /\ run.name \in Nat
  BY <1>1, RunParts
<1>3. f \in FileType /\ f.name = name /\ f.at = run.at /\ f.whole /\ ~f.manifest
  BY <1>2 DEF Backups!Copy, FileType
<1>4. Backups!Vouched(t, name) = Vouch(files, name)
  BY DEF Backups!Vouched, Vouch, VouchedFor
<1>5. \/ \E g \in files : g.name = name
      \/ (\A g \in files : g.name # name) /\ Backups!Promoted(t, name) = files \cup {f}
  BY DEF Backups!Promoted
<1>6. (\E g \in files : g.name = name) => Backups!Promoted(t, name) = files
  BY DEF Backups!Promoted
<1>7. PointHolds(files, t, world.now, world.broken, step, run.at)
  BY <1>1 DEF BackupsInv, PointsHold
<1>8. files \subseteq FileType
  BY <1>7 DEF PointHolds
<1>9. run.step \in PointSteps /\ step \in PointSteps /\ next \in PointSteps
  BY <1>1 DEF PointSteps
<1>10. \A g \in files : g.whole \/ <<t, g.name>> \in world.broken
  BY <1>1, <1>7 DEF PointHolds
<1>11. CASE world' = [world EXCEPT !.files[t] = Backups!Promoted(t, name)] /\ Backups!Promoted(t, name) # files
  <2>1. (\A g \in files : g.name # name) /\ Backups!Promoted(t, name) = files \cup {f}
    BY <1>5, <1>6, <1>11
  <2> DEFINE more == files \cup {f}
  <2> HIDE DEF f, files
  <2>2. PointHolds(more, t, world.now, world.broken, step, run.at)
    BY <1>3, <1>7, <1>10, <2>1 DEF PointHolds
  <2>3. Stays(files, more)
    BY DEF Stays
  <2>4. world' = [world EXCEPT !.files[t] = more]
    BY <1>11, <2>1
  <2> HIDE DEF more
  <2> QED BY <1>1, <1>9, <2>2, <2>3, <2>4, PointsChange DEF files
<1>12. CASE world' = [world EXCEPT !.files[t] = Vouch(files, name), !.run.step = next]
  <2> DEFINE more == Vouch(files, name)
  <2> HIDE DEF files
  <2>1. \A g \in more : \E h \in files : g = VouchedFor(h, name) /\ SameButVouched(g, h, name) /\ g \in FileType
    BY <1>8, VouchKeepsOne DEF Vouch
  <2>2. Stays(files, more)
    BY <1>8, VouchStays
  <2> HIDE DEF more
  <2>3. PointHolds(more, t, world.now, world.broken, next, run.at)
    <3>3. \A g, h \in files : g.name = h.name => g = h
      BY <1>7 DEF PointHolds
    <3>4. \A h \in files : h.name <= world.now /\ (h.whole \/ <<t, h.name>> \in world.broken)
      BY <1>7, <1>10 DEF PointHolds
    <3>5. \A g \in more : \E h \in files : g = VouchedFor(h, name) /\ g.name = h.name /\ g.whole = h.whole /\ g \in FileType
      BY <2>1 DEF SameButVouched
    <3>1. \A g, h \in more : g.name = h.name => g = h
      BY <3>3, <3>5
    <3>2. \A g \in more : g \in FileType /\ g.name <= world.now /\ (g.whole \/ <<t, g.name>> \in world.broken)
      BY <3>4, <3>5
    <3> QED BY <3>1, <3>2 DEF PointHolds
  <2> QED BY <1>1, <1>9, <1>12, <2>2, <2>3, PointsChange DEF files, more
<1> QED BY <1>4, <1>11, <1>12 DEF Backups!Promote

\* What a copy that is complete makes of the files.
CopiedFor(f, name) == [f EXCEPT !.whole = @ \/ f.name = name]

LEMMA CopiedOne ==
  ASSUME NEW f \in FileType, NEW name
  PROVE  /\ CopiedFor(f, name) \in FileType
         /\ CopiedFor(f, name).name = f.name /\ CopiedFor(f, name).at = f.at
         /\ CopiedFor(f, name).whole <=> (f.whole \/ f.name = name)
  BY DEF FileType, CopiedFor

LEMMA CopyStep ==
  ASSUME BackupsInv, NEW t \in {"weekly", "monthly"}, NEW name \in Nat, name <= world.now,
         t = "weekly" => name = Backups!WeekOf(world.run.at), t = "monthly" => name = Backups!MonthOf(world.run.at),
         Backups!BeginCopy(t, t, name, CopiesOf(t)) \/ Backups!EndCopy(t, t, name, CopiesOf(t))
  PROVE  BackupsInv' /\ Backups!PointsStand
<1> DEFINE run == world.run
           files == world.files[t]
           f == [[Backups!Copy EXCEPT !.name = name] EXCEPT !.whole = FALSE]
           copying == CopiesOf(t)
<1>1. UNCHANGED db /\ run.step \in {t, copying}
  BY DEF Backups!BeginCopy, Backups!EndCopy, Backups!At
<1>2. copying \in PointSteps /\ t \in PointSteps /\ run.step \in PointSteps /\ run.step \in {copying} \cup {"weekly", "monthly"}
  BY <1>1 DEF PointSteps, CopiesOf
<1>3. /\ DOMAIN run = RunFields /\ run.at = world.now /\ world.now \in Nat /\ run.name \in Nat
  BY <1>2, RunParts DEF PointSteps
<1>4. PointHolds(files, t, world.now, world.broken, run.step, run.at)
  BY DEF BackupsInv, PointsHold
<1>5. CASE Backups!BeginCopy(t, t, name, copying)
  <2>1. run.step = t /\ \A g \in files : g.name # name
    BY <1>5 DEF Backups!BeginCopy, Backups!At
  <2>2. [Backups!Copy EXCEPT !.name = name, !.whole = FALSE] = f
    BY DEF Backups!Copy
  <2>3. f \in FileType /\ f.name = name /\ f.at = run.at /\ ~f.whole /\ ~f.manifest
    BY <1>3 DEF Backups!Copy, FileType
  <2>4. world' = [[world EXCEPT !.files[t] = @ \cup {f}] EXCEPT !.run.step = copying]
    BY <1>5, <2>2 DEF Backups!BeginCopy, Backups!Written
  <2> DEFINE more == files \cup {f}
  <2> HIDE DEF f
  <2>5. world' = [world EXCEPT !.files[t] = more, !.run.step = copying]
    BY <2>4
  <2> HIDE DEF files
  <2>6. \A g \in files : g.whole \/ <<t, g.name>> \in world.broken
    BY <1>4, <2>1 DEF PointHolds
  <2>7. PointHolds(more, t, world.now, world.broken, copying, run.at)
    BY <1>4, <2>1, <2>3, <2>6 DEF PointHolds, CopiesOf
  <2>8. Stays(files, more)
    BY DEF Stays
  <2> HIDE DEF more
  <2> QED BY <1>1, <1>2, <2>5, <2>7, <2>8, PointsChange DEF files
<1>6. CASE Backups!EndCopy(t, t, name, copying)
  <2> DEFINE more == Backups!Copied(t, name)
  <2>1. run.step = copying /\ world' = [world EXCEPT !.files[t] = more, !.run.step = t]
    BY <1>6 DEF Backups!EndCopy, Backups!At
  <2>2. more = {CopiedFor(g, name) : g \in files}
    BY DEF Backups!Copied, CopiedFor
  <2> HIDE DEF more, files
  <2>3. files \subseteq FileType
    BY <1>4 DEF PointHolds
  <2>4. \A g \in more : \E h \in files :
          /\ g = CopiedFor(h, name) /\ g \in FileType /\ g.name = h.name
          /\ g.whole <=> (h.whole \/ h.name = name)
    BY <2>2, <2>3, CopiedOne
  <2>5. \A g \in files : g.whole \/ <<t, g.name>> \in world.broken \/ g.name = name
    BY <1>4 DEF PointHolds
  <2>6. \A g, h \in more : g.name = h.name => g = h
    <3>1. \A g, h \in files : g.name = h.name => g = h
      BY <1>4 DEF PointHolds
    <3> QED BY <2>4, <3>1
  <2>7. \A g \in more : g.name <= world.now /\ (g.whole \/ <<t, g.name>> \in world.broken)
    <3>1. \A h \in files : h.name <= world.now
      BY <1>4 DEF PointHolds
    <3>2. TAKE g \in more
    <3>3. PICK h \in files : g.name = h.name /\ (g.whole <=> (h.whole \/ h.name = name))
      BY <2>4
    <3> QED BY <2>5, <3>1, <3>3
  <2>8. PointHolds(more, t, world.now, world.broken, t, run.at)
    BY <2>4, <2>6, <2>7 DEF PointHolds
  <2>9. Stays(files, more)
    BY <2>2, <2>3, CopiedOne DEF Stays
  <2> QED BY <1>1, <1>2, <2>1, <2>8, <2>9, PointsChange DEF files
<1> QED BY <1>5, <1>6

LEMMA PromotesStep ==
  ASSUME BackupsInv, \/ Backups!PromoteWeekly \/ Backups!PromoteMonthly
                     \/ Backups!CopyWeekly \/ Backups!CopyMonthly
  PROVE  BackupsInv' /\ Backups!PointsStand
<1>1. world.run.step # "idle"
  BY DEF Backups!PromoteWeekly, Backups!PromoteMonthly, Backups!Promote, Backups!At,
         Backups!CopyWeekly, Backups!CopyMonthly, Backups!BeginCopy, Backups!EndCopy
<1>2. world.run.at = world.now /\ world.now \in Nat
  BY <1>1, RunParts
<1>3. /\ Backups!WeekOf(world.run.at) \in Nat /\ Backups!WeekOf(world.run.at) <= world.now
      /\ Backups!MonthOf(world.run.at) \in Nat /\ Backups!MonthOf(world.run.at) <= world.now
  BY <1>2, DaysGoOn
<1>4. CASE Backups!PromoteWeekly
  <2>1. Backups!Promote("weekly", "weekly", Backups!WeekOf(world.run.at), "monthly")
    BY <1>4 DEF Backups!PromoteWeekly
  <2> QED BY <1>3, <2>1, PromoteStep
<1>5. CASE Backups!PromoteMonthly
  <2>1. Backups!Promote("monthly", "monthly", Backups!MonthOf(world.run.at), "prune")
    BY <1>5 DEF Backups!PromoteMonthly
  <2> QED BY <1>3, <2>1, PromoteStep
<1>6. CASE Backups!CopyWeekly
  <2>1. CopiesOf("weekly") = "copy weekly"
    BY DEF CopiesOf
  <2> QED BY <1>3, <1>6, <2>1, CopyStep DEF Backups!CopyWeekly
<1>7. CASE Backups!CopyMonthly
  <2>1. CopiesOf("monthly") = "copy monthly"
    BY DEF CopiesOf
  <2> QED BY <1>3, <1>7, <2>1, CopyStep DEF Backups!CopyMonthly
<1> QED BY <1>4, <1>5, <1>6, <1>7

LEMMA PruneStep == ASSUME BackupsInv, NEW t \in {"daily", "weekly", "monthly"}, Backups!Prune(t)
                   PROVE  BackupsInv' /\ Backups!PointsStand
<1> DEFINE run == world.run
           files == world.files[t]
           keep == world.run.with[t]
<1>1. run.step = "prune" /\ UNCHANGED db /\ Backups!Cardinality(files) > keep
      /\ world' = [world EXCEPT !.files[t] = files \ Backups!Pruned(files)]
  BY DEF Backups!Prune, Backups!At
<1>2. /\ DOMAIN run = RunFields /\ run.at = world.now /\ world.now \in Nat
      /\ run.name \in Nat /\ world.runs = run.name + 1 /\ world.runs \in Nat
      /\ keep \in Nat
      /\ t = "daily" => keep > 0
  BY <1>1, RunParts
<1>4. PICK bound \in Nat : Named(files, bound)
  BY <1>2, TierIsNamed, PointsAreNamed DEF BackupsInv, PointsHold
<1> HIDE DEF keep, files, run
<1>5. PICK x \in files :
        /\ Backups!Pruned(files) = {x} /\ \A f \in files : x.name <= f.name
        /\ Backups!Cardinality(files \ {x}) >= keep
        /\ keep > 0 => \E f \in files : f.name > x.name
  BY <1>1, <1>2, <1>4, PrunedLeaves
<1> DEFINE rest == files \ {x}
<1>6. /\ DOMAIN world' = DOMAIN world /\ world'.files = [world.files EXCEPT ![t] = rest] /\ world'.run = world.run
      /\ world'.now = world.now /\ world'.runs = world.runs /\ world'.objects = world.objects
      /\ world'.save = world.save /\ world'.torn = world.torn /\ world'.good = world.good /\ world'.broken = world.broken
  BY <1>1, <1>5 DEF BackupsInv
<1>7. /\ DOMAIN world'.files = {"daily", "weekly", "monthly"}
      /\ \A u \in {"daily", "weekly", "monthly"} : world'.files[u] = IF u = t THEN rest ELSE world.files[u]
  BY <1>6 DEF BackupsInv
<1>8. rest \subseteq files
  OBVIOUS
<1>9. /\ world.now \in 0..MaxNow
      /\ TierHolds(world.files["daily"], world.runs)
      /\ DailyHolds(world.files["daily"], world.runs, world.now, world.good, db.day)
      /\ RunHolds(run, world.files["daily"], world.objects, world.runs, world.now, world.good)
      /\ ObjectsHold(world.objects, world.runs, world.now, db.week)
      /\ SettingsHold(db.settings, world.save, world.torn)
      /\ DOMAIN world = {"now", "files", "objects", "run", "save", "torn", "good", "broken", "runs", "saves", "cuts"}
      /\ DOMAIN db = {"settings", "day", "week"}
  BY DEF BackupsInv, run
<1>10. PICK own \in world.files["daily"] : own.name = run.name /\ own.at = run.at /\ own.whole /\ own.manifest
  BY <1>1, <1>9 DEF RunHolds, Vouching
<1>11. t = "daily" => own \in rest
  <2>1. \A f \in world.files["daily"] : f.name \in Nat /\ f.name <= own.name
    BY <1>2, <1>9, <1>10 DEF TierHolds, DailyHolds, FileType
  <2>2. ASSUME t = "daily" PROVE own # x
    <3>1. PICK f \in files : f.name > x.name
      BY <1>2, <1>5, <2>2
    <3>2. f.name <= own.name /\ f.name \in Nat /\ own.name \in Nat
      BY <1>10, <2>1, <2>2, <3>1 DEF files
    <3> QED BY <3>1, <3>2
  <2> QED BY <1>10, <2>2 DEF files
<1>12. PointsHold(world'.files, world.now, world.broken, world'.run)
  <2>1. \A u \in {"weekly", "monthly"} : world'.files[u] \subseteq world.files[u]
    BY <1>7, <1>8 DEF files
  <2>2. PointsHold(world.files, world.now, world.broken, world.run) /\ world.now \in Nat /\ world.now <= world.now
    BY DEF BackupsInv
  <2>3. world.run.step \notin CopySteps
    BY <1>1 DEF CopySteps, run
  <2> QED BY <2>1, <2>2, <2>3, PointsWait
<1> DEFINE daily == world'.files["daily"]
<1>13. daily \subseteq world.files["daily"] /\ own \in daily
  BY <1>7, <1>8, <1>10, <1>11 DEF files
<1> HIDE DEF rest, daily
<1>14. TierHolds(daily, world.runs) /\ DailyHolds(daily, world.runs, world.now, world.good, db.day)
  BY <1>2, <1>9, <1>10, <1>13, DailyPrunes
<1>15. RunHolds(run, daily, world.objects, world.runs, world.now, world.good)
  BY <1>1, <1>9, <1>10, <1>13 DEF RunHolds
<1>16. BackupsInv'
  BY <1>1, <1>2, <1>6, <1>7, <1>9, <1>12, <1>14, <1>15 DEF BackupsInv, daily, run
<1>17. ASSUME NEW u \in {"daily", "weekly", "monthly"}, NEW f \in world.files[u]
       PROVE  \/ \E g \in world'.files[u] : g.name = f.name /\ g.at = f.at
              \/ Backups!Cardinality({g \in world'.files[u] : g.name > f.name}) >= world.run.with[u]
  <2>1. CASE u # t \/ f # x
    BY <1>7, <2>1 DEF rest, files
  <2>2. CASE u = t /\ f = x
    <3>1. \A g \in rest : g.name > x.name
      BY <1>4, <1>5 DEF rest, Named
    <3>2. {g \in rest : g.name > x.name} = rest
      BY <3>1
    <3>3. world'.files[u] = rest
      BY <1>7, <2>2
    <3> QED BY <1>5, <2>2, <3>2, <3>3 DEF keep, rest
  <2> QED BY <2>1, <2>2
<1>18. Backups!PointsStand
  BY <1>17 DEF Backups!PointsStand, Backups!Tiers
<1> QED BY <1>16, <1>18

\* Steps that leave the files alone.
FilesAreLeft ==
  /\ DOMAIN world' = DOMAIN world /\ world'.files = world.files
  /\ world'.now = world.now /\ world'.runs = world.runs /\ world'.good = world.good /\ world'.broken = world.broken
  /\ world'.save = world.save /\ world'.torn = world.torn
  /\ DOMAIN db' = DOMAIN db /\ db'.settings = db.settings

LEMMA RunGoesOn ==
  ASSUME BackupsInv, FilesAreLeft, world.run.step \notin CopySteps,
         DailyHolds(world.files["daily"], world.runs, world.now, world.good, db'.day),
         ObjectsHold(world'.objects, world.runs, world.now, db'.week),
         RunHolds(world'.run, world.files["daily"], world'.objects, world.runs, world.now, world.good)
  PROVE  BackupsInv' /\ Backups!PointsStand
<1>3. PointsHold(world'.files, world'.now, world'.broken, world'.run)
  BY PointsAreLeft DEF FilesAreLeft
<1>1. BackupsInv'
  BY <1>3 DEF BackupsInv, FilesAreLeft
<1>2. Backups!PointsStand
  BY PointsStay DEF Stays, FilesAreLeft
<1> QED BY <1>1, <1>2

LEMMA RecordDayStep == ASSUME BackupsInv, Backups!RecordDay PROVE BackupsInv' /\ Backups!PointsStand
<1> DEFINE run == world.run
           daily == world.files["daily"]
<1>1. /\ run.step = "prune" /\ db' = [db EXCEPT !.day = Backups!DayOf(run.at)]
      /\ \/ run.with.remote /\ world' = Backups!Go("upload")
         \/ world' = Backups!Go("done")
  BY DEF Backups!RecordDay, Backups!Recordable, Backups!At
<1>2. /\ DOMAIN run = RunFields /\ run.at = world.now /\ world.now \in Nat
      /\ run.with.remote => run.with.weekly > 0
  BY <1>1, RunParts
<1>3. PICK next \in {"upload", "done"} : world' = [world EXCEPT !.run.step = next] /\ (next = "upload" => run.with.remote)
  BY <1>1 DEF Backups!Go
<1>4. Goes(run, next)
  BY <1>2, <1>3 DEF BackupsInv, Goes, RunFields
<1>5. /\ FilesAreLeft /\ world'.objects = world.objects
      /\ db'.day = Backups!DayOf(world.now) /\ db'.week = db.week
  BY <1>1, <1>2, <1>3 DEF BackupsInv, FilesAreLeft
<1>6. /\ RunHolds(run, daily, world.objects, world.runs, world.now, world.good)
      /\ DailyHolds(daily, world.runs, world.now, world.good, db.day)
      /\ ObjectsHold(world.objects, world.runs, world.now, db.week)
  BY DEF BackupsInv
<1> HIDE DEF run, daily
<1>7. PICK f \in daily : f.name = run.name /\ f.at = run.at /\ f.whole /\ f.manifest
  BY <1>1, <1>6 DEF RunHolds, Vouching
<1>8. DailyHolds(daily, world.runs, world.now, world.good, db'.day)
  BY <1>2, <1>5, <1>6, <1>7, DayIsRecorded
<1> DEFINE objects == world.objects
<1> HIDE DEF objects
<1>9. RunHolds(world'.run, daily, objects, world.runs, world.now, world.good)
  <2>1. RunHolds(run, daily, objects, world.runs, world.now, world.good)
    BY <1>6 DEF objects
  <2>2. CASE next = "upload"
    <3>1. run.with.weekly > 0
      BY <1>2, <1>3, <2>2
    <3> QED BY <1>1, <1>4, <2>1, <2>2, <3>1 DEF RunHolds, Goes, RunFields, Vouching, BeforeUpload
  <2>3. CASE next = "done"
    BY <1>1, <1>4, <2>1, <2>3 DEF RunHolds, Goes, RunFields, Vouching, BeforeUpload
  <2> QED BY <1>3, <2>2, <2>3
<1>10. RunHolds(world'.run, daily, world'.objects, world.runs, world.now, world.good)
  BY <1>5, <1>9 DEF objects
<1> QED BY <1>1, <1>5, <1>6, <1>8, <1>10, RunGoesOn DEF daily, run, CopySteps

LEMMA UploadStep == ASSUME BackupsInv, Backups!Upload PROVE BackupsInv' /\ Backups!PointsStand
<1> DEFINE run == world.run
           daily == world.files["daily"]
           o == [name |-> run.name, at |-> run.at, manifest |-> FALSE]
           more == world.objects \cup {o}
<1>1. /\ run.step = "upload" /\ UNCHANGED db
      /\ world' = [[world EXCEPT !.run.step = "upload manifest"] EXCEPT !.objects = more]
  <2>1. Backups!Go("upload manifest").objects = world.objects
    BY DEF BackupsInv, Backups!Go
  <2> QED BY <2>1 DEF Backups!Upload, Backups!At, Backups!Go
<1>2. /\ DOMAIN run = RunFields /\ run.at = world.now /\ world.now \in Nat
      /\ run.name \in Nat /\ world.runs = run.name + 1 /\ world.runs \in Nat
  BY <1>1, RunParts
<1>3. o \in ObjectType /\ o.name = run.name /\ o.at = run.at
  BY <1>2 DEF ObjectType
<1> HIDE DEF o
<1>4. o \in more /\ more = world.objects \cup {o}
  OBVIOUS
<1> HIDE DEF more
<1>5. Goes(run, "upload manifest")
  BY <1>1, <1>2 DEF BackupsInv, Goes, RunFields
<1>6. FilesAreLeft /\ world'.objects = more /\ db' = db
  BY <1>1 DEF BackupsInv, FilesAreLeft
<1>7. /\ RunHolds(run, daily, world.objects, world.runs, world.now, world.good)
      /\ DailyHolds(daily, world.runs, world.now, world.good, db.day)
      /\ ObjectsHold(world.objects, world.runs, world.now, db.week)
  BY DEF BackupsInv
<1> HIDE DEF run, daily
<1>8. \A p \in world.objects : p.name # o.name
  BY <1>1, <1>3, <1>7 DEF RunHolds, BeforeUpload
<1>9. ObjectsHold(more, world.runs, world.now, db.week)
  BY <1>2, <1>3, <1>4, <1>7, <1>8, ObjectsAdd
<1>10. RunHolds(world'.run, daily, more, world.runs, world.now, world.good)
  BY <1>1, <1>2, <1>3, <1>4, <1>5, <1>7 DEF RunHolds, Goes, RunFields, Vouching, BeforeUpload
<1> QED BY <1>1, <1>6, <1>7, <1>9, <1>10, RunGoesOn DEF daily, run, CopySteps

LEMMA UploadManifestStep == ASSUME BackupsInv, Backups!UploadManifest PROVE BackupsInv' /\ Backups!PointsStand
<1> DEFINE run == world.run
           daily == world.files["daily"]
           more == Vouch(world.objects, run.name)
<1>1. /\ run.step = "upload manifest" /\ UNCHANGED db
      /\ world' = [[world EXCEPT !.run.step = "prune objects"] EXCEPT !.objects = more]
  <2>1. Backups!Go("prune objects").objects = world.objects
    BY DEF BackupsInv, Backups!Go
  <2>2. {[o EXCEPT !.manifest = @ \/ o.name = world.run.name] : o \in world.objects} = more
    BY DEF Vouch, VouchedFor
  <2> QED BY <2>1, <2>2 DEF Backups!UploadManifest, Backups!At, Backups!Go
<1>2. /\ DOMAIN run = RunFields /\ run.at = world.now /\ world.now \in Nat
      /\ run.name \in Nat /\ world.runs = run.name + 1 /\ world.runs \in Nat
  BY <1>1, RunParts
<1> HIDE DEF more
<1>3. Goes(run, "prune objects")
  BY <1>1, <1>2 DEF BackupsInv, Goes, RunFields
<1>4. FilesAreLeft /\ world'.objects = more /\ db' = db
  BY <1>1 DEF BackupsInv, FilesAreLeft
<1>5. /\ RunHolds(run, daily, world.objects, world.runs, world.now, world.good)
      /\ DailyHolds(daily, world.runs, world.now, world.good, db.day)
      /\ ObjectsHold(world.objects, world.runs, world.now, db.week)
  BY DEF BackupsInv
<1> HIDE DEF run, daily
<1>6. PICK o \in world.objects : o.name = run.name /\ o.at = run.at
  BY <1>1, <1>5 DEF RunHolds
<1>7. /\ ObjectsHold(more, world.runs, world.now, db.week)
      /\ \A p \in world.objects : \E q \in more : SameObject(q, p, run.name)
  BY <1>2, <1>5, ObjectsVouch DEF more
<1>8. \E q \in more : q.name = run.name /\ q.at = run.at /\ q.manifest
  BY <1>6, <1>7 DEF SameObject
<1>9. RunHolds(world'.run, daily, more, world.runs, world.now, world.good)
  BY <1>1, <1>2, <1>3, <1>5, <1>8 DEF RunHolds, Goes, RunFields, Vouching, BeforeUpload
<1> QED BY <1>1, <1>4, <1>5, <1>7, <1>9, RunGoesOn DEF daily, run, CopySteps

LEMMA PruneObjectsStep == ASSUME BackupsInv, Backups!PruneObjects PROVE BackupsInv' /\ Backups!PointsStand
<1> DEFINE run == world.run
           daily == world.files["daily"]
           objects == world.objects
           keep == world.run.with.weekly
<1>1. /\ run.step = "prune objects" /\ UNCHANGED db
      /\ \/ Backups!Cardinality(objects) > keep /\ world' = [world EXCEPT !.objects = objects \ Backups!Pruned(objects)]
         \/ world' = [world EXCEPT !.run.step = "record week"]
  BY DEF Backups!PruneObjects, Backups!At, Backups!Go
<1>2. /\ DOMAIN run = RunFields /\ run.at = world.now /\ world.now \in Nat
      /\ run.name \in Nat /\ world.runs = run.name + 1 /\ world.runs \in Nat
      /\ keep \in Nat
  BY <1>1, RunParts
<1>3. /\ RunHolds(run, daily, objects, world.runs, world.now, world.good)
      /\ DailyHolds(daily, world.runs, world.now, world.good, db.day)
      /\ ObjectsHold(objects, world.runs, world.now, db.week)
  BY DEF BackupsInv
<1>4. PICK own \in objects : own.name = run.name /\ own.at = run.at /\ own.manifest
  BY <1>1, <1>3 DEF RunHolds
<1>5. keep > 0
  BY <1>1, <1>3 DEF RunHolds
<1>6. CASE Backups!Cardinality(objects) > keep /\ world' = [world EXCEPT !.objects = objects \ Backups!Pruned(objects)]
  <2> HIDE DEF run, daily, objects, keep
  <2>1. Named(objects, world.runs)
    BY <1>2, <1>3, ObjectsNamed
  <2>2. PICK x \in objects :
          /\ Backups!Pruned(objects) = {x} /\ \A f \in objects : x.name <= f.name
          /\ Backups!Cardinality(objects \ {x}) >= keep
          /\ keep > 0 => \E f \in objects : f.name > x.name
    BY <1>2, <1>6, <2>1, PrunedLeaves
  <2> DEFINE rest == objects \ {x}
  <2>3. own # x
    <3>1. PICK f \in objects : f.name > x.name
      BY <1>5, <2>2
    <3>2. f.name \in Nat /\ f.name <= own.name /\ own.name \in Nat
      BY <1>2, <1>3, <1>4 DEF ObjectsHold, ObjectType
    <3> QED BY <3>1, <3>2
  <2>4. own \in rest /\ rest \subseteq objects
    BY <1>4, <2>3
  <2>5. FilesAreLeft /\ world'.objects = rest /\ db' = db /\ world'.run = world.run
    BY <1>1, <1>6, <2>2 DEF BackupsInv, FilesAreLeft
  <2> HIDE DEF rest
  <2>6. ObjectsHold(rest, world.runs, world.now, db.week)
    BY <1>2, <1>3, <1>4, <2>4, ObjectsPrune
  <2>7. RunHolds(run, daily, rest, world.runs, world.now, world.good)
    BY <1>1, <1>3, <1>4, <2>4 DEF RunHolds, BeforeUpload
  <2> QED BY <1>1, <1>3, <2>5, <2>6, <2>7, RunGoesOn DEF daily, run, CopySteps
<1>7. CASE world' = [world EXCEPT !.run.step = "record week"]
  <2>1. Goes(run, "record week")
    BY <1>2, <1>7 DEF BackupsInv, Goes, RunFields
  <2>2. FilesAreLeft /\ world'.objects = world.objects /\ db' = db
    BY <1>1, <1>7 DEF BackupsInv, FilesAreLeft
  <2> HIDE DEF run, daily
  <2>3. RunHolds(world'.run, daily, objects, world.runs, world.now, world.good)
    BY <1>1, <1>2, <1>3, <1>4, <2>1 DEF RunHolds, Goes, RunFields, Vouching, BeforeUpload
  <2> QED BY <1>1, <1>3, <2>2, <2>3, RunGoesOn DEF daily, run, CopySteps
<1> QED BY <1>1, <1>6, <1>7

LEMMA RecordWeekStep == ASSUME BackupsInv, Backups!RecordWeek PROVE BackupsInv' /\ Backups!PointsStand
<1> DEFINE run == world.run
           daily == world.files["daily"]
<1>1. /\ run.step = "record week" /\ db' = [db EXCEPT !.week = Backups!WeekOf(run.at)]
      /\ world' = [world EXCEPT !.run.step = "done"]
  BY DEF Backups!RecordWeek, Backups!WeekRecordable, Backups!At, Backups!Go
<1>2. /\ DOMAIN run = RunFields /\ run.at = world.now /\ world.now \in Nat /\ world.runs \in Nat
  BY <1>1, RunParts
<1>3. Goes(run, "done")
  BY <1>1, <1>2 DEF BackupsInv, Goes, RunFields
<1>4. /\ FilesAreLeft /\ world'.objects = world.objects
      /\ db'.week = Backups!WeekOf(world.now) /\ db'.day = db.day
  BY <1>1, <1>2 DEF BackupsInv, FilesAreLeft
<1>5. /\ RunHolds(run, daily, world.objects, world.runs, world.now, world.good)
      /\ DailyHolds(daily, world.runs, world.now, world.good, db.day)
      /\ ObjectsHold(world.objects, world.runs, world.now, db.week)
  BY DEF BackupsInv
<1> HIDE DEF run, daily
<1>6. PICK o \in world.objects : o.name = run.name /\ o.at = run.at /\ o.manifest
  BY <1>1, <1>5 DEF RunHolds
<1>7. ObjectsHold(world.objects, world.runs, world.now, db'.week)
  BY <1>2, <1>4, <1>5, <1>6, WeekIsRecorded
<1>8. RunHolds(world'.run, daily, world.objects, world.runs, world.now, world.good)
  BY <1>1, <1>2, <1>3, <1>5 DEF RunHolds, Goes, RunFields, Vouching, BeforeUpload
<1> QED BY <1>1, <1>4, <1>5, <1>7, <1>8, RunGoesOn DEF daily, run, CopySteps

\* A run that is over, or cut short: what it was copying is half copied.
LEMMA DoneStep == ASSUME BackupsInv, Backups!Done PROVE BackupsInv' /\ Backups!PointsStand
<1>1. UNCHANGED db /\ world' = [world EXCEPT !.run = Backups!Idle] /\ world.run.step \notin CopySteps
  BY DEF Backups!Done, Backups!At, CopySteps
<1>2. FilesAreLeft /\ world'.objects = world.objects /\ world'.run = Backups!Idle
  BY <1>1 DEF BackupsInv, FilesAreLeft
<1>3. RunHolds(Backups!Idle, world.files["daily"], world.objects, world.runs, world.now, world.good)
  BY DEF RunHolds, Backups!Idle
<1>4. /\ DailyHolds(world.files["daily"], world.runs, world.now, world.good, db.day)
      /\ ObjectsHold(world.objects, world.runs, world.now, db.week)
  BY DEF BackupsInv
<1> QED BY <1>1, <1>2, <1>3, <1>4, RunGoesOn

LEMMA CutStep == ASSUME BackupsInv, Backups!Cut PROVE BackupsInv' /\ Backups!PointsStand
<1> DEFINE broken == world.broken \cup Backups!HalfCopied
<1>1. UNCHANGED db /\ world' = [world EXCEPT !.run = Backups!Idle, !.cuts = @ + 1, !.broken = broken]
  BY DEF Backups!Cut
<1>2. /\ world.run.step = "copy weekly" => <<"weekly", Backups!WeekOf(world.run.at)>> \in broken
      /\ world.run.step = "copy monthly" => <<"monthly", Backups!MonthOf(world.run.at)>> \in broken
      /\ world.broken \subseteq broken
  BY DEF Backups!HalfCopied, Backups!At
<1> HIDE DEF broken
<1>3. /\ DOMAIN world' = DOMAIN world /\ world'.files = world.files /\ world'.now = world.now
      /\ world'.runs = world.runs /\ world'.good = world.good /\ world'.objects = world.objects
      /\ world'.save = world.save /\ world'.torn = world.torn /\ world'.run = Backups!Idle /\ world'.broken = broken
  BY <1>1 DEF BackupsInv
<1>4. RunHolds(Backups!Idle, world.files["daily"], world.objects, world.runs, world.now, world.good)
  BY DEF RunHolds, Backups!Idle
<1>5. PointsHold(world.files, world.now, broken, Backups!Idle)
  <2> SUFFICES ASSUME NEW t \in {"weekly", "monthly"}
               PROVE  PointHolds(world.files[t], t, world.now, broken, Backups!Idle.step, Backups!Idle.at)
    BY DEF PointsHold
  <2>1. PointHolds(world.files[t], t, world.now, world.broken, world.run.step, world.run.at)
    BY DEF BackupsInv, PointsHold
  <2>2. \A f \in world.files[t] : f.whole \/ <<t, f.name>> \in broken
    BY <1>2, <2>1 DEF PointHolds
  <2> QED BY <2>1, <2>2 DEF PointHolds
<1>6. BackupsInv'
  BY <1>1, <1>3, <1>4, <1>5 DEF BackupsInv
<1>7. Backups!PointsStand
  BY <1>3, PointsStay DEF Stays
<1> QED BY <1>6, <1>7

\* The form.
LEMMA FormStands ==
  ASSUME BackupsInv, DOMAIN world' = DOMAIN world, world'.files = world.files, world'.now = world.now,
         world'.runs = world.runs, world'.good = world.good /\ world'.broken = world.broken, world'.objects = world.objects, world'.run = world.run,
         DOMAIN db' = DOMAIN db, db'.day = db.day, db'.week = db.week,
         SettingsHold(db'.settings, world'.save, world'.torn)
  PROVE  BackupsInv' /\ Backups!PointsStand
<1>1. BackupsInv'
  BY DEF BackupsInv
<1>2. Backups!PointsStand
  BY PointsStay DEF Stays
<1> QED BY <1>1, <1>2

LEMMA SaveFormStep == ASSUME BackupsInv, Backups!Save PROVE BackupsInv' /\ Backups!PointsStand
<1>1. PICK s \in [on : {TRUE}, remote : BOOLEAN, daily : Keeps, weekly : Keeps, monthly : {1}] :
        /\ Backups!Acceptable(s)
        /\ world' = [world EXCEPT !.saves = @ + 1, !.torn = FALSE,
                       !.save = [i \in 1..5 |-> [field |-> Backups!Fields[i], value |-> s[Backups!Fields[i]]]]]
  BY DEF Backups!Save
<1>3. s \in SettingsType
  <2>1. s = [on |-> s.on, remote |-> s.remote, daily |-> s.daily, weekly |-> s.weekly, monthly |-> s.monthly]
    OBVIOUS
  <2>2. s.on \in {TRUE} /\ s.remote \in BOOLEAN /\ s.daily \in Keeps /\ s.weekly \in Keeps /\ s.monthly \in {1}
    OBVIOUS
  <2>3. s.on \in BOOLEAN
    BY <2>2, Zenon
  <2>5. Keeps \subseteq Nat /\ {1} \subseteq Nat
    BY BackupsConstants DEF Backups!BackupsAssumption
  <2>4. s.daily \in Nat /\ s.weekly \in Nat /\ s.monthly \in Nat
    BY <2>2, <2>5
  <2> QED BY <2>1, <2>2, <2>3, <2>4 DEF SettingsType
<1> DEFINE save == [i \in 1..5 |-> [field |-> Backups!Fields[i], value |-> s[Backups!Fields[i]]]]
<1>2. DOMAIN save = 1..5 /\ \A i \in 1..5 : save[i] = [field |-> Backups!Fields[i], value |-> s[Backups!Fields[i]]]
  OBVIOUS
<1> HIDE DEF save
<1>4. /\ DOMAIN world' = DOMAIN world /\ world'.files = world.files /\ world'.now = world.now
      /\ world'.runs = world.runs /\ world'.good = world.good /\ world'.broken = world.broken /\ world'.objects = world.objects /\ world'.run = world.run
      /\ world'.save = save /\ world'.torn = FALSE /\ db' = db
  BY <1>1 DEF BackupsInv, Backups!Save, save
<1>5. db.settings \in SettingsType
  BY DEF BackupsInv, SettingsHold
<1>6. 1 \in 1..5 /\ 1..(1 - 1) = {}
  OBVIOUS
<1>7. SettingsHold(db.settings, save, FALSE)
  BY <1>1, <1>2, <1>3, <1>5, <1>6 DEF SettingsHold
<1> QED BY <1>4, <1>7, FormStands

\* One field after the other, in their order.
LEMMA SaveFieldStep == ASSUME BackupsInv, Backups!SaveField PROVE BackupsInv' /\ Backups!PointsStand
<1> DEFINE save == world.save
           settings == db.settings
<1>1. settings \in SettingsType
  BY DEF BackupsInv, SettingsHold
<1>2. PICK s \in SettingsType, n \in 1..5 :
        /\ Backups!Acceptable(s) /\ DOMAIN save = n..5
        /\ \A i \in n..5 : save[i] = [field |-> Backups!Fields[i], value |-> s[Backups!Fields[i]]]
        /\ \A i \in 1..n - 1 : settings[Backups!Fields[i]] = s[Backups!Fields[i]]
  BY DEF BackupsInv, SettingsHold, Backups!SaveField
<1>3. Backups!Min(DOMAIN save) = n
  <2>1. \A x \in n..5 : (\A y \in n..5 : x <= y) <=> x = n
    OBVIOUS
  <2> QED BY <1>2, <2>1 DEF Backups!Min
<1> DEFINE name == Backups!Fields[n]
           settings2 == [settings EXCEPT ![name] = s[name]]
           save2 == IF n = 5 THEN <<>> ELSE [i \in n + 1..5 |-> save[i]]
<1>4. save[n].field = name /\ save[n].value = s[name]
  <2> HIDE DEF save
  <2>1. n \in n..5
    OBVIOUS
  <2>2. save[n] = [field |-> name, value |-> s[name]]
    BY <1>2, <2>1
  <2> QED BY <2>2
<1>5. /\ db' = [db EXCEPT !.settings[name] = s[name]]
      /\ world' = [world EXCEPT !.save = save2]
  BY <1>3, <1>4 DEF Backups!SaveField
<1>6. DOMAIN db' = DOMAIN db /\ db'.settings = settings2 /\ db'.day = db.day /\ db'.week = db.week
  BY <1>5 DEF BackupsInv
<1>7. n # 5 => DOMAIN save2 = n + 1..5 /\ \A i \in n + 1..5 : save2[i] = save[i]
  OBVIOUS
<1>8. n = 5 => save2 = <<>>
  OBVIOUS
<1> HIDE DEF save2
<1>9. /\ DOMAIN world' = DOMAIN world /\ world'.files = world.files /\ world'.now = world.now
      /\ world'.runs = world.runs /\ world'.good = world.good /\ world'.broken = world.broken /\ world'.objects = world.objects /\ world'.run = world.run
      /\ world'.save = save2 /\ world'.torn = world.torn
  BY <1>5 DEF BackupsInv
<1>10. name \in {"on", "remote", "daily", "weekly", "monthly"}
  BY DEF Backups!Fields
<1>11. settings2 \in SettingsType
  BY <1>1, <1>2, <1>10 DEF SettingsType
<1>12. \A x \in {"on", "remote", "daily", "weekly", "monthly"} :
         settings2[x] = IF x = name THEN s[name] ELSE settings[x]
  BY <1>1 DEF SettingsType
<1>13. \A i \in 1..5 : Backups!Fields[i] \in {"on", "remote", "daily", "weekly", "monthly"}
  BY DEF Backups!Fields
<1>14. \A i \in 1..n : settings2[Backups!Fields[i]] = s[Backups!Fields[i]]
  <2> SUFFICES ASSUME NEW i \in 1..n PROVE settings2[Backups!Fields[i]] = s[Backups!Fields[i]]
    OBVIOUS
  <2> HIDE DEF settings2
  <2>1. CASE Backups!Fields[i] = name
    BY <1>10, <1>12, <2>1
  <2>2. CASE Backups!Fields[i] # name
    <3>1. i \in 1..n - 1
      BY <2>2
    <3>2. i \in 1..5
      OBVIOUS
    <3> QED BY <1>2, <1>12, <1>13, <2>2, <3>1, <3>2
  <2> QED BY <2>1, <2>2
<1> HIDE DEF settings2, save, settings
<1>15. SettingsHold(settings2, save2, world.torn)
  <2>1. CASE n = 5
    <3>1. \A x \in {"on", "remote", "daily", "weekly", "monthly"} : settings2[x] = s[x]
      BY <1>14, <2>1 DEF Backups!Fields
    <3>2. Backups!Loads(settings2)
      <4>1. Backups!Acceptable(settings2)
        BY <1>2, <3>1 DEF Backups!Acceptable
      <4> QED BY <1>11, <4>1 DEF Backups!Loads, Backups!Acceptable, SettingsType
    <3> QED BY <1>8, <1>11, <2>1, <3>2 DEF SettingsHold
  <2>2. CASE n # 5
    <3> DEFINE m == n + 1
    <3>1. m \in 1..5 /\ m - 1 = n
      BY <2>2
    <3>2. DOMAIN save2 = m..5 /\ \A i \in m..5 : save2[i] = save[i]
      BY <1>7, <2>2
    <3>3. \A i \in m..5 : i \in n..5
      OBVIOUS
    <3> HIDE DEF m
    <3>4. /\ \A i \in m..5 : save2[i] = [field |-> Backups!Fields[i], value |-> s[Backups!Fields[i]]]
          /\ \A i \in 1..m - 1 : settings2[Backups!Fields[i]] = s[Backups!Fields[i]]
      BY <1>2, <1>14, <3>1, <3>2, <3>3
    <3> QED BY <1>2, <1>11, <3>1, <3>2, <3>4 DEF SettingsHold
  <2> QED BY <2>1, <2>2
<1> QED BY <1>6, <1>9, <1>15, FormStands

LEMMA SaveCutStep == ASSUME BackupsInv, Backups!SaveIsCut PROVE BackupsInv' /\ Backups!PointsStand
<1>1. /\ world' = [world EXCEPT !.save = <<>>, !.torn = TRUE, !.cuts = @ + 1] /\ UNCHANGED db
  BY DEF Backups!SaveIsCut
<1>2. /\ DOMAIN world' = DOMAIN world /\ world'.files = world.files /\ world'.now = world.now
      /\ world'.runs = world.runs /\ world'.good = world.good /\ world'.broken = world.broken /\ world'.objects = world.objects /\ world'.run = world.run
      /\ world'.save = <<>> /\ world'.torn = TRUE /\ db' = db
  BY <1>1 DEF BackupsInv
<1>3. SettingsHold(db.settings, <<>>, TRUE)
  BY DEF BackupsInv, SettingsHold
<1> QED BY <1>2, <1>3, FormStands

LEMMA TickStep == ASSUME BackupsInv, Backups!Tick PROVE BackupsInv' /\ Backups!PointsStand
<1>1. /\ world.run.step = "idle" /\ world.now < MaxNow /\ world' = [world EXCEPT !.now = @ + 1] /\ UNCHANGED db
  BY DEF Backups!Tick, Backups!At
<1>2. /\ DOMAIN world' = DOMAIN world /\ world'.files = world.files /\ world'.now = world.now + 1
      /\ world'.runs = world.runs /\ world'.good = world.good /\ world'.broken = world.broken /\ world'.objects = world.objects /\ world'.run = world.run
      /\ world'.save = world.save /\ world'.torn = world.torn
  BY <1>1 DEF BackupsInv
<1> DEFINE later == world.now + 1
<1>3. world.now \in Nat /\ later \in Nat /\ world.now <= later /\ later \in 0..MaxNow /\ world.runs \in Nat /\ world.runs <= world.runs
  BY <1>1, BackupsConstants DEF BackupsInv, Backups!BackupsAssumption
<1> HIDE DEF later
<1>4. /\ DailyHolds(world.files["daily"], world.runs, later, world.good, db.day)
      /\ ObjectsHold(world.objects, world.runs, later, db.week)
      /\ PointsHold(world.files, later, world.broken, world.run)
  <2>1. world.run.step \notin CopySteps /\ PointsHold(world.files, world.now, world.broken, world.run)
    BY <1>1 DEF CopySteps, BackupsInv
  <2>2. PointsHold(world.files, later, world.broken, world.run)
    BY <1>3, <2>1, PointsWait
  <2> QED BY <1>3, <2>2, DailyWaits, ObjectsWait DEF BackupsInv
<1>5. RunHolds(world.run, world.files["daily"], world.objects, world.runs, later, world.good)
  BY <1>1 DEF BackupsInv, RunHolds
<1>6. BackupsInv'
  BY <1>1, <1>2, <1>3, <1>4, <1>5 DEF BackupsInv, later
<1>7. Backups!PointsStand
  BY <1>2, PointsStay DEF Stays
<1> QED BY <1>6, <1>7

LEMMA BackupsStep == ASSUME BackupsInv, Backups!Next PROVE BackupsInv' /\ Backups!PointsStand
<1>1. CASE Backups!Run
  <2>1. (Backups!Poll \/ Backups!RunNow) => BackupsInv' /\ Backups!PointsStand
    BY StartStep DEF Backups!Poll, Backups!RunNow
  <2>2. Backups!PruneAny => BackupsInv' /\ Backups!PointsStand
    BY PruneStep DEF Backups!PruneAny, Backups!Tiers
  <2> QED BY <1>1, <2>1, <2>2, SnapshotStep, VerifyStep, ManifestStep, PromotesStep, RecordDayStep, UploadStep,
             UploadManifestStep, PruneObjectsStep, RecordWeekStep, DoneStep, CutStep DEF Backups!Run
<1> QED BY <1>1, SaveFormStep, SaveFieldStep, SaveCutStep, TickStep DEF Backups!Next

LEMMA BackupsFollow == BackupsInv => Backups!BackupsAreKept
<1> SUFFICES ASSUME BackupsInv PROVE Backups!BackupsAreKept
  OBVIOUS
<1>1. Backups!ManifestsVouch
  BY DEF BackupsInv, TierHolds, PointsHold, PointHolds, Backups!ManifestsVouch, Backups!Tiers
<1>2. Backups!LastGoodCopyStays
  BY DEF BackupsInv, DailyHolds, Backups!LastGoodCopyStays
<1>3. Backups!RecordsAreTrue
  BY DEF BackupsInv, DailyHolds, ObjectsHold, Backups!RecordsAreTrue
<1>4. Backups!SettingsLoad
  <2>1. DOMAIN <<>> = {} /\ \A n \in 1..5 : 5 \in n..5
    OBVIOUS
  <2> QED BY <2>1 DEF BackupsInv, SettingsHold, Backups!SettingsLoad
<1> QED BY <1>1, <1>2, <1>3, <1>4 DEF Backups!BackupsAreKept

-----------------------------------------------------------------------------
(* All of it.                                                              *)

\* The two halves of the console leave each other's records alone.
LEMMA RolesLeaveRepairs == ASSUME RepairsInv, Console!Roles PROVE RepairsInv'
<1>1. ASSUME DOMAIN db' = DOMAIN db, db'.profile = db.profile, db'.rows = db.rows, DOMAIN world' = DOMAIN world,
             world'.console = world.console, world'.snapshot = world.snapshot,
             world'.handler = world.handler, world'.deeds = world.deeds
      PROVE  RepairsInv'
  BY <1>1 DEF RepairsInv
<1>2. CASE Console!SaveAdmin
  BY <1>1, <1>2 DEF Console!SaveAdmin, RepairsInv
<1>3. CASE Console!DeleteAdmin
  BY <1>1, <1>3 DEF Console!DeleteAdmin, RepairsInv
<1>4. ASSUME NEW n, NEW identity, world' = Console!Granted(n, identity)
      PROVE  /\ DOMAIN world' = DOMAIN world
             /\ world'.console = world.console /\ world'.snapshot = world.snapshot
             /\ world'.handler = world.handler /\ world'.deeds = world.deeds
  BY <1>4 DEF Console!Granted, RepairsInv
<1>5. world' = Console!Mishap(world) =>
        /\ DOMAIN world' = DOMAIN world
        /\ world'.console = world.console /\ world'.snapshot = world.snapshot
        /\ world'.handler = world.handler /\ world'.deeds = world.deeds
  BY DEF Console!Mishap, RepairsInv
<1>6. ASSUME NEW n, NEW spelling, NEW account, NEW host, db' = Console!Bound(n, spelling, account, host)
      PROVE  DOMAIN db' = DOMAIN db /\ db'.profile = db.profile /\ db'.rows = db.rows
  BY <1>6 DEF Console!Bound, RepairsInv
<1>7. ASSUME NEW spelling, NEW account, NEW host, Console!ResolveRole(spelling, account, host) PROVE RepairsInv'
  <2>1. /\ \/ \E n, identity : world' = Console!Granted(n, identity)
           \/ world' = Console!Mishap(world)
        /\ db' = db \/ \E n, h : db' = Console!Bound(n, spelling, account, h)
    BY <1>7 DEF Console!ResolveRole
  <2> QED BY <1>1, <1>4, <1>5, <1>6, <2>1
<1> QED BY <1>2, <1>3, <1>7 DEF Console!Roles

LEMMA RepairsLeaveRoles ==
  ASSUME RolesInv, RepairsInv, Console!Meanwhile \/ Console!Repairs PROVE RolesInv'
<1>1. ASSUME DOMAIN db' = DOMAIN db, db'.admins = db.admins, DOMAIN world' = DOMAIN world, world'.trusted = world.trusted
      PROVE  RolesInv'
  BY <1>1 DEF RolesInv
<1>2. CASE Console!Meanwhile
  <2>1. CASE Console!SetField \/ Console!Erased
    BY <1>1, <2>1 DEF Console!SetField, Console!Erased, RolesInv
  <2>2. CASE Console!HandlerReads
    BY <1>1, <2>2 DEF Console!HandlerReads, RolesInv
  <2>3. CASE Console!HandlerWrites
    BY <1>1, <2>3 DEF Console!HandlerWrites, RolesInv
  <2> QED BY <1>2, <2>1, <2>2, <2>3 DEF Console!Meanwhile
<1>3. CASE Console!Repairs
  <2>1. CASE Console!OpenProfile \/ Console!PreviewRepair
    BY <1>1, <2>1 DEF Console!OpenProfile, Console!PreviewRepair, RolesInv
  <2>2. CASE Console!PlanReset
    BY <1>1, <2>2 DEF Console!PlanReset, RolesInv
  <2>3. CASE Console!PlanArrives \/ Console!PlanIsLate \/ Console!Cancel
    BY <1>1, <2>3 DEF Console!PlanArrives, Console!PlanIsLate, Console!Cancel, RolesInv
  <2>4. CASE Console!Confirm
    BY <1>1, <2>4 DEF Console!Confirm, Console!NoSnapshot, Console!Mishap, RolesInv
  <2>5. CASE Console!ApplyRepair
    BY <1>1, <2>5 DEF Console!ApplyRepair, RolesInv
  <2>6. CASE Console!ApplyReset
    BY <1>1, <2>6 DEF Console!ApplyReset, RolesInv
  <2> QED BY <1>3, <2>1, <2>2, <2>3, <2>4, <2>5, <2>6 DEF Console!Repairs
<1> QED BY <1>2, <1>3

ConsoleInv ==
  /\ active = "registry" => RegistryInv
  /\ active \in {"roles", "repairs"} => RolesInv /\ RepairsInv
  /\ active = "backups" => BackupsInv

LEMMA ConsoleStarts == ConsoleInit => ConsoleInv
  BY RegistryInit, RolesInit, RepairsInit, BackupsInit DEF ConsoleInit, ConsoleInv

LEMMA RegistryStutters == ASSUME RegistryInv, UNCHANGED <<db, world>> PROVE RegistryInv'
<1>1. Registry!Reading' = Registry!Reading
  BY DEF Registry!Reading
<1>2. EditStands(world.console) => EditStands(world.console)'
  BY EditIsChecked
<1>3. RowsStand(world'.console, world'.rows, world'.stale, Registry!Reading', world'.publish.spoiled, world'.publish.got, db')
  BY <1>1 DEF RegistryInv
<1> QED BY <1>2, <1>3 DEF RegistryInv

LEMMA RecordsStutter ==
  ASSUME UNCHANGED <<db, world>>
  PROVE  (RolesInv => RolesInv') /\ (RepairsInv => RepairsInv') /\ (BackupsInv => BackupsInv')
<1>1. RolesInv => RolesInv'
  BY DEF RolesInv
<1>2. RepairsInv => RepairsInv'
  BY DEF RepairsInv
<1>3. BackupsInv => BackupsInv'
  BY DEF BackupsInv
<1> QED BY <1>1, <1>2, <1>3

LEMMA ConsoleStutters ==
  ASSUME ConsoleInv, active' = active, UNCHANGED <<db, world>>
  PROVE  ConsoleInv'
  BY RegistryStutters, RecordsStutter DEF ConsoleInv

LEMMA ConsoleStep == ConsoleInv /\ [ConsoleNext]_<<active, consoleVars, vars>> => ConsoleInv'
<1> SUFFICES ASSUME ConsoleInv, [ConsoleNext]_<<active, consoleVars, vars>> PROVE ConsoleInv'
  OBVIOUS
<1>1. CASE UNCHANGED consoleVars /\ UNCHANGED active
  BY <1>1, ConsoleStutters DEF consoleVars
<1>2. CASE ConsoleSteps /\ UNCHANGED active
  BY <1>2, RegistryStep, RolesStep, RepairsStep, RolesLeaveRepairs, RepairsLeaveRoles, BackupsStep
  DEF ConsoleSteps, ConsoleInv
<1> QED BY <1>1, <1>2 DEF ConsoleNext

\* Commands, aliases, prefixes and settings (commands.rs, settings.rs): however loads, their reads
\* of the saved rows and the operator's saves meet, memory follows the database, a name means one
\* command, and what was checked when it was saved holds when it is applied.
THEOREM NamesMeanOneThing ==
  Registry!Spec => []Registry!RegistryIsSound /\ [][Registry!EditsHold]_<<db, world>>
<1>1. Registry!Init => RegistryInv
  BY RegistryInit
<1>2. RegistryInv /\ [Registry!Next]_<<db, world>> => RegistryInv'
  BY RegistryStep, RegistryStutters
<1>3. RegistryInv => Registry!RegistryIsSound
  BY RegistryFollows
<1>4. RegistryInv /\ [Registry!Next]_<<db, world>> => [Registry!EditsHold]_<<db, world>>
  BY EditsFollow
<1> QED BY <1>1, <1>2, <1>3, <1>4, PTL DEF Registry!Spec

\* Administrators, repairs and resets (db.rs, tui/mod.rs), in any order beside what people and
\* modules do meanwhile: an entry admits one identity, a reset takes nothing of anyone else's, and
\* what is overwritten was shown and is in the snapshot.
THEOREM RepairsAreCareful ==
  Console!Spec => []Console!ConsoleIsCareful /\ [][Console!RepairsCanBeUndone]_<<db, world>>
<1> DEFINE Inv == RolesInv /\ RepairsInv
<1>1. Console!Init => Inv
  BY RolesInit, RepairsInit
<1>2. Inv /\ [Console!Next]_<<db, world>> => Inv'
  BY RolesStep, RepairsStep, RolesLeaveRepairs, RepairsLeaveRoles, RecordsStutter DEF Console!Next
<1>3. Inv => Console!ConsoleIsCareful
  BY RolesFollow, OthersFollow DEF Console!ConsoleIsCareful
<1>4. Inv => Console!RepairsCanBeUndone
  BY UndoFollows
<1> HIDE DEF Inv
<1> QED BY <1>1, <1>2, <1>3, <1>4, PTL DEF Console!Spec

\* Restore points (backup.rs), with calls that fail and runs cut short at every step: a manifest
\* vouches for a whole file, unless the copying of a week's or month's file was cut and the next run
\* took it for whole; the last good copy stays, the recorded day and week have their copies,
\* and a restore point goes only for as many later ones as are to be kept.
THEOREM RestorePointsStay ==
  Backups!Spec => []Backups!BackupsAreKept /\ [][Backups!PointsStand]_<<db, world>>
<1>1. Backups!Init => BackupsInv
  BY BackupsInit
<1>2. BackupsInv /\ [Backups!Next]_<<db, world>> => BackupsInv'
  BY BackupsStep, RecordsStutter
<1>3. BackupsInv => Backups!BackupsAreKept
  BY BackupsFollow
<1>4. BackupsInv /\ [Backups!Next]_<<db, world>> => [Backups!PointsStand]_<<db, world>>
  BY BackupsStep
<1> QED BY <1>1, <1>2, <1>3, <1>4, PTL DEF Backups!Spec

\* What the console saves takes effect, gives trust once and costs nobody else anything; a name
\* means one command; and what is backed up stays until there is something newer.
THEOREM ConsoleKeepsIts == ConsoleSpec => ConsoleIsSafe
<1> DEFINE Safe == /\ active = "registry" => Registry!RegistryIsSound
                   /\ active \in {"roles", "repairs"} => Console!ConsoleIsCareful
                   /\ active = "backups" => Backups!BackupsAreKept
           Careful == /\ active = "registry" => Registry!EditsHold
                      /\ active = "repairs" => Console!RepairsCanBeUndone
                      /\ active = "backups" => Backups!PointsStand
<1>1. ConsoleInv => Safe
  BY RegistryFollows, RolesFollow, OthersFollow, BackupsFollow DEF ConsoleInv, Console!ConsoleIsCareful
<1>2. ConsoleInv /\ [ConsoleNext]_<<active, consoleVars, vars>> => [Careful]_<<active, db, world>>
  <2> SUFFICES ASSUME ConsoleInv, [ConsoleNext]_<<active, consoleVars, vars>>, ~(UNCHANGED <<active, db, world>>)
               PROVE  Careful
    OBVIOUS
  <2>1. ConsoleSteps /\ UNCHANGED active
    BY DEF ConsoleNext, consoleVars
  <2>2. active = "registry" => Registry!EditsHold
    BY <2>1, EditsFollow DEF ConsoleSteps, ConsoleInv
  <2>3. active = "repairs" => Console!RepairsCanBeUndone
    BY UndoFollows DEF ConsoleInv
  <2>4. active = "backups" => Backups!PointsStand
    BY <2>1, BackupsStep DEF ConsoleSteps, ConsoleInv
  <2> QED BY <2>2, <2>3, <2>4
<1> HIDE DEF Safe, Careful
<1>3. ConsoleSpec => [](ConsoleInv)
  BY ConsoleStarts, ConsoleStep, PTL DEF ConsoleSpec
<1>4. ConsoleSpec => []Safe /\ [][Careful]_<<active, db, world>>
  BY <1>1, <1>2, <1>3, PTL DEF ConsoleSpec
<1> QED BY <1>4 DEF ConsoleIsSafe, Safe, Careful
=============================================================================
