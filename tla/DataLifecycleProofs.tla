-------------------------- MODULE DataLifecycleProofs --------------------------
(***************************************************************************)
(* Proofs about the erasure workflow (module DataLifecycle) for any number *)
(* of modules, persons, requests, events and failures; and, after them,    *)
(* about the exports of what is stored (module Exports).                   *)
(***************************************************************************)
EXTENDS DataLifecycle, WellFoundedInduction, SequenceTheorems, FiniteSetTheorems, TLAPS

-----------------------------------------------------------------------------
(* The oldest job exists, so resume_deletions makes progress.              *)

LEMMA OldestExists ==
  ASSUME NEW todo \in SUBSET Jobs, todo # {}
  PROVE  \E i \in todo : \A k \in todo : i <= k
<1> DEFINE R == OpToRel(<, Nat)
<1>1. Jobs \subseteq Nat
  BY ConstantsAssumption DEF Jobs
<1>2. PICK x \in todo : \A y \in todo : ~(<<y, x>> \in R)
  BY <1>1, NatLessThanWellFounded, WFMin
<1>3. \A y \in todo : ~(y < x)
  BY <1>1, <1>2 DEF OpToRel
<1> QED BY <1>1, <1>3

LEMMA OnwardProperties ==
  ASSUME NEW todo \in SUBSET Jobs
  PROVE  /\ Onward(todo) \in HostState
         /\ \/ Onward(todo) = Idle
            \/ /\ Onward(todo).at = "pick"
               /\ Onward(todo).job \in todo
               /\ Onward(todo).todo = todo \ {Onward(todo).job}
<1>1. Idle \in HostState
  BY ConstantsAssumption DEF Idle, HostState, Record
<1>2. CASE todo = {}
  BY <1>1, <1>2 DEF Onward
<1>3. CASE todo # {}
  <2> DEFINE j == CHOOSE i \in todo : \A k \in todo : i <= k
  <2>1. j \in todo
    BY <1>3, OldestExists
  <2>2. Onward(todo) = [Idle EXCEPT !.at = "pick", !.job = j, !.todo = todo \ {j}]
    BY <1>3 DEF Onward
  <2>3. Jobs \subseteq 0..MaxJobs
    BY ConstantsAssumption DEF Jobs
  <2> HIDE DEF j
  <2> QED BY <1>1, <2>1, <2>2, <2>3 DEF Idle, HostState
<1> QED BY <1>2, <1>3

-----------------------------------------------------------------------------
(* What the module thread is about, and type correctness.                  *)

\* What the thread works off, and what it will resume, was confirmed and is unfinished.
Processing ==
  /\ host.at # "idle" =>
       host.job \in Jobs \ host.todo /\ status[host.job] \in {"pending", "failed"}
  /\ \A j \in host.todo : status[j] \in {"pending", "failed"}

\* The module it asks is one the job still lists.
AskedIsListed == host.at \in {"wait", "apply", "mark"} => host.module \in pending[host.job]

Tables == Processing /\ AskedIsListed

LEMMA FaultType == ASSUME TypeOK, Fault PROVE faults' \in 0..MaxFaults
  BY ConstantsAssumption DEF Fault, TypeOK

LEMMA HostTypes ==
  ASSUME TypeOK
  PROVE  /\ \A at \in {"idle", "pick", "wait", "apply", "mark", "fail"} :
              [host EXCEPT !.at = at] \in HostState
         /\ \A j \in Jobs : [Idle EXCEPT !.at = "pick", !.job = j] \in HostState
<1>1. Jobs \subseteq 0..MaxJobs
  BY ConstantsAssumption DEF Jobs
<1>2. Idle \in HostState
  BY ConstantsAssumption DEF Idle, HostState, Record
<1> QED BY <1>1, <1>2 DEF TypeOK, HostState

\* The journal's columns after some of its rows are redacted or retired.
LEMMA JournalTypes ==
  ASSUME NEW set \in SUBSET Jobs, NEW s \in Statuses, status \in [Jobs -> Statuses],
         NEW column \in [Jobs -> Persons \cup {Nobody}]
  PROVE  /\ Redact(column, set) \in [Jobs -> Persons \cup {Nobody}]
         /\ Retire(set, s) \in [Jobs -> Statuses]
  BY DEF Redact, Retire

LEMMA ScanTypes ==
  ASSUME TypeOK
  PROVE  /\ Lapsed \in SUBSET Jobs /\ Unfinished \in SUBSET Jobs
         /\ \A p \in Persons : Superseded(p) \in SUBSET Jobs
  BY DEF Lapsed, Unfinished, Superseded

LEMMA ExpireTypes ==
  ASSUME TypeOK, ExpireLapsed
  PROVE  /\ status' \in [Jobs -> Statuses]
         /\ subject' \in [Jobs -> Persons \cup {Nobody}]
         /\ requester' \in [Jobs -> Persons \cup {Nobody}]
<1>1. "expired" \in Statuses
  BY DEF Statuses
<1> QED BY <1>1, ScanTypes, JournalTypes DEF ExpireLapsed, TypeOK

LEMMA NoQueueTypes ==
  /\ NoQueues \in [Modules -> [Threads -> Seq(Message)]]
  /\ NoHands \in [Modules -> [Threads -> Hand \cup {Absent}]]
<1>1. <<>> \in Seq(Message)
  BY EmptySeq
<1> QED BY <1>1 DEF NoQueues, NoHands

LEMMA StartTypes ==
  ASSUME TypeOK, NEW modules \in SUBSET Modules, Start(modules)
  PROVE  /\ loaded' \subseteq Modules /\ registry' \subseteq Modules
         /\ status' \in [Jobs -> Statuses]
         /\ subject' \in [Jobs -> Persons \cup {Nobody}]
         /\ requester' \in [Jobs -> Persons \cup {Nobody}]
         /\ host' \in HostState
<1>1. host' \in HostState
  BY ScanTypes, OnwardProperties DEF Start
<1> QED BY <1>1, ExpireTypes DEF Start, TypeOK

LEMMA TypeStep == TypeOK /\ Tables /\ [Next]_vars => TypeOK'
<1> SUFFICES ASSUME TypeOK, Tables, [Next]_vars PROVE TypeOK'
  OBVIOUS
<1> USE ConstantsAssumption
<1>1. ASSUME NEW p \in Persons, NEW m \in Modules, Arrive(p, m) PROVE TypeOK'
  <2>1. arrived' \in 0..MaxEvents
    BY <1>1 DEF Arrive, TypeOK
  <2> QED BY <1>1, <2>1 DEF Arrive, TypeOK, journal, workers, history
<1>2. CASE Dispatch
  <2>1. inbound \in [who: Persons, module: Modules]
    BY <1>2 DEF Dispatch, TypeOK
  <2>2. [kind |-> "event", who |-> inbound.who] \in Message
    BY <2>1 DEF Message
  <2>3. \A m \in Modules :
          Append(queue[m]["new"], [kind |-> "event", who |-> inbound.who]) \in Seq(Message)
    BY <2>2, AppendProperties DEF TypeOK, Threads
  <2>4. queue' \in [Modules -> [Threads -> Seq(Message)]]
    BY <1>2, <2>1, <2>3 DEF Dispatch, TypeOK, Threads
  <2> QED BY <1>2, <2>4 DEF Dispatch, TypeOK, journal, history
<1>3. ASSUME NEW m \in Modules, NEW t \in Threads, HandlerReads(m, t) PROVE TypeOK'
  <2>1. Head(queue[m][t]) \in Message /\ Tail(queue[m][t]) \in Seq(Message)
    BY <1>3, HeadTailProperties DEF HandlerReads, TypeOK
  <2>2. Head(queue[m][t]).who \in Persons
    BY <1>3, <2>1 DEF HandlerReads, Message
  <2>3. [who |-> Head(queue[m][t]).who, seen |-> kv[m]] \in Hand
    BY <2>2 DEF Hand, TypeOK
  <2> QED BY <1>3, <2>1, <2>3 DEF HandlerReads, TypeOK, journal, history
<1>4. ASSUME NEW m \in Modules, NEW t \in Threads, HandlerWrites(m, t) PROVE TypeOK'
  <2>1. busy[m][t] \in Hand
    BY <1>4 DEF HandlerWrites, TypeOK
  <2>2. busy[m][t].seen \cup {[who |-> busy[m][t].who, n |-> facts + 1]} \in Record
    BY <2>1 DEF Hand, Record, Fact, TypeOK
  <2> QED BY <1>4, <2>2 DEF HandlerWrites, TypeOK, journal, history
<1>5. ASSUME NEW m \in Modules, AskModule(m) PROVE TypeOK'
  <2>1. [kind |-> "delete"] \in Message
    BY DEF Message
  <2>2. Append(queue[m]["new"], [kind |-> "delete"]) \in Seq(Message)
    BY <2>1, AppendProperties DEF TypeOK, Threads
  <2>3. host' \in HostState
    BY <1>5 DEF AskModule, TypeOK, HostState
  <2> QED BY <1>5, <2>2, <2>3 DEF AskModule, TypeOK, journal, history
<1>6. ASSUME NEW m \in Modules, Answer(m) PROVE TypeOK'
  <2>1. Tail(queue[m]["new"]) \in Seq(Message)
    BY <1>6, HeadTailProperties DEF Answer, TypeOK, Threads
  <2>2. host' \in HostState /\ faults' \in 0..MaxFaults
    BY <1>6, HostTypes, FaultType DEF Answer, TypeOK
  <2> QED BY <1>6, <2>1, <2>2 DEF Answer, TypeOK, journal, history
<1>7. ASSUME NEW r \in Persons, NEW p \in Persons, NEW j \in Jobs, Initiate(r, p, j) PROVE TypeOK'
  <2>1. "cancelled" \in Statuses /\ "awaiting" \in Statuses
    BY DEF Statuses
  <2>2. /\ Retire(Superseded(p), "cancelled") \in [Jobs -> Statuses]
        /\ Redact(subject, Superseded(p)) \in [Jobs -> Persons \cup {Nobody}]
        /\ Redact(requester, Superseded(p)) \in [Jobs -> Persons \cup {Nobody}]
    BY <2>1, ScanTypes, JournalTypes DEF TypeOK
  <2>3. /\ status' \in [Jobs -> Statuses]
        /\ subject' \in [Jobs -> Persons \cup {Nobody}]
        /\ requester' \in [Jobs -> Persons \cup {Nobody}]
    BY <1>7, <2>1, <2>2 DEF Initiate
  <2>4. registry \cup {m \in Modules : kv[m] # {}} \in SUBSET Modules
    BY DEF TypeOK
  <2>5. /\ pending' \in [Jobs -> SUBSET Modules] /\ scope' \in [Jobs -> SUBSET Modules]
        /\ target' \in [Jobs -> Persons \cup {Nobody}]
    BY <1>7, <2>4 DEF Initiate, TypeOK
  <2> QED BY <1>7, <2>3, <2>5 DEF Initiate, TypeOK, workers
<1>8. ASSUME NEW r \in Persons, NEW j \in Jobs, Confirm(r, j) PROVE TypeOK'
  <2>1. host' \in HostState
    BY <1>8, HostTypes DEF Confirm
  <2> QED BY <1>8, <2>1 DEF Confirm, TypeOK, workers, Statuses
<1>9. ASSUME NEW j \in Jobs, TimePasses(j) PROVE TypeOK'
  BY <1>9 DEF TimePasses, TypeOK, workers, history
<1>10. CASE AnswerTimeout
  <2>1. host.module \in Modules
    BY <1>10 DEF AnswerTimeout, Tables, AskedIsListed, Processing, TypeOK
  <2> DEFINE q == queue[host.module]["new"]
  <2>2. q \in Seq(Message)
    BY <2>1 DEF TypeOK, Threads
  <2>3. Len(q) \in Nat
    BY <2>2, LenProperties
  <2>4. SubSeq(q, 1, Len(q) - 1) \in Seq(Message)
    <3>1. \A i \in 1..(Len(q) - 1) : q[i] \in Message
      BY <2>2, <2>3, ElementOfSeq
    <3> QED BY <2>2, <2>3, <3>1, SubSeqProperties
  <2>5. queue' \in [Modules -> [Threads -> Seq(Message)]]
    BY <1>10, <2>4 DEF AnswerTimeout, TypeOK
  <2>6. host' \in HostState /\ faults' \in 0..MaxFaults
    BY <1>10, HostTypes, FaultType DEF AnswerTimeout
  <2> QED BY <1>10, <2>5, <2>6 DEF AnswerTimeout, TypeOK, journal, history
<1>11. CASE Apply
  <2>1. host.module \in Modules /\ host.job \in Jobs
    BY <1>11 DEF Apply, Tables, AskedIsListed, Processing, TypeOK
  <2>2. host.entries \in Record /\ host.asOf \in Nat
    BY DEF TypeOK, HostState
  <2>3. host.entries \ About(subject[host.job], host.entries) \in Record
    BY <2>2 DEF Record
  <2>4. kv' \in [Modules -> Record]
    BY <1>11, <2>3 DEF Apply, TypeOK
  <2>5. applied' \in [Jobs -> [Modules -> Nat]]
    <3> DEFINE j == host.job
               m == host.module
               n == host.asOf
    <3>1. applied' = applied \/ applied' = [applied EXCEPT ![j][m] = n]
      BY <1>11 DEF Apply
    <3> HIDE DEF j, m, n
    <3>2. j \in Jobs /\ m \in Modules /\ n \in Nat
      BY <2>1, <2>2 DEF j, m, n
    <3>3. applied[j] \in [Modules -> Nat]
      BY <3>2 DEF TypeOK
    <3>4. [applied[j] EXCEPT ![m] = n] \in [Modules -> Nat]
      BY <3>2, <3>3
    <3>5. [applied EXCEPT ![j][m] = n] = [applied EXCEPT ![j] = [applied[j] EXCEPT ![m] = n]]
      OBVIOUS
    <3> QED BY <3>1, <3>2, <3>4, <3>5 DEF TypeOK
  <2>6. host' \in HostState /\ faults' \in 0..MaxFaults
    BY <1>11, HostTypes, FaultType DEF Apply, TypeOK
  <2> QED BY <1>11, <2>4, <2>5, <2>6 DEF Apply, TypeOK, journal, workers
<1>12. CASE Mark
  <2>1. host' \in HostState /\ faults' \in 0..MaxFaults
    BY <1>12, HostTypes, FaultType DEF Mark, TypeOK
  <2>2. pending' \in [Jobs -> SUBSET Modules]
    <3> DEFINE j == host.job
               rest == pending[j] \ {host.module}
    <3>1. j \in Jobs /\ rest \in SUBSET Modules
      BY <1>12 DEF Mark, Tables, Processing, TypeOK
    <3>2. pending' = pending \/ pending' = [pending EXCEPT ![j] = rest]
      BY <1>12 DEF Mark
    <3> HIDE DEF j, rest
    <3> QED BY <3>1, <3>2 DEF TypeOK
  <2> QED BY <1>12, <2>1, <2>2 DEF Mark, TypeOK, workers, history
<1>13. CASE Finish
  <2>1. host.job \in Jobs /\ "completed" \in Statuses
    BY <1>13 DEF Finish, Tables, Processing, Statuses
  <2>2. host' \in HostState /\ faults' \in 0..MaxFaults
    <3>1. host.todo \in SUBSET Jobs
      BY DEF TypeOK, HostState
    <3> QED BY <1>13, <3>1, HostTypes, FaultType, OnwardProperties DEF Finish, TypeOK
  <2>3. /\ status' \in [Jobs -> Statuses]
        /\ subject' \in [Jobs -> Persons \cup {Nobody}]
        /\ requester' \in [Jobs -> Persons \cup {Nobody}]
    <3>1. {host.job} \in SUBSET Jobs
      BY <2>1
    <3>2. /\ Retire({host.job}, "completed") \in [Jobs -> Statuses]
          /\ Redact(subject, {host.job}) \in [Jobs -> Persons \cup {Nobody}]
          /\ Redact(requester, {host.job}) \in [Jobs -> Persons \cup {Nobody}]
      BY <2>1, <3>1, JournalTypes DEF TypeOK
    <3> QED BY <1>13, <3>2 DEF Finish, TypeOK
  <2>4. profiles' \subseteq Persons
    BY <1>13 DEF Finish, TypeOK
  <2> QED BY <1>13, <2>2, <2>3, <2>4 DEF Finish, TypeOK, workers, history
<1>14. CASE MissingModule
  BY <1>14, HostTypes DEF MissingModule, TypeOK, journal, workers, history
<1>15. CASE Fail
  <2>1. host' \in HostState
    <3>1. host.todo \in SUBSET Jobs
      BY DEF TypeOK, HostState
    <3> QED BY <1>15, <3>1, OnwardProperties DEF Fail
  <2> QED BY <1>15, <2>1 DEF Fail, TypeOK, workers, history, Statuses
<1>16. CASE ListPending
  BY <1>16, ExpireTypes DEF ListPending, TypeOK, workers, history
<1>17. ASSUME NEW modules \in SUBSET Modules, Reload(modules) PROVE TypeOK'
  <2>1. <<>> \in Seq(Message)
    BY EmptySeq
  <2>2. /\ queue' \in [Modules -> [Threads -> Seq(Message)]]
        /\ busy' \in [Modules -> [Threads -> Hand \cup {Absent}]]
    <3>1. \A m \in Modules : queue[m]["new"] \in Seq(Message) /\ busy[m]["new"] \in Hand \cup {Absent}
      BY DEF TypeOK, Threads
    <3> QED BY <1>17, <2>1, <3>1 DEF Reload
  <2> QED BY <1>17, <2>2, StartTypes DEF Reload, TypeOK, history
<1>18. ASSUME NEW modules \in SUBSET Modules, Crash(modules) PROVE TypeOK'
  BY <1>18, StartTypes, NoQueueTypes, FaultType DEF Crash, TypeOK, history
<1>19. CASE UNCHANGED vars
  BY <1>19 DEF vars, TypeOK, journal, workers, history
<1> QED BY <1>1, <1>2, <1>3, <1>4, <1>5, <1>6, <1>7, <1>8, <1>9, <1>10, <1>11, <1>12, <1>13,
           <1>14, <1>15, <1>16, <1>17, <1>18, <1>19 DEF Next

-----------------------------------------------------------------------------
(* The journal: who is meant, who confirmed, and what is left to do.       *)

\* A job that can still erase somebody names the person it was made for; a completed one
\* has no module left to ask; one that does not exist lists none.
SubjectsAreKept ==
  \A j \in Jobs :
    /\ status[j] \in {"awaiting", "pending", "failed"} => subject[j] = target[j]
    /\ status[j] = "completed" => pending[j] = {}
    /\ status[j] = "none" => scope[j] = {}

Journal == Tables /\ SubjectsAreKept /\ OldTokensAreDead

\* Expiring touches only requests that were never confirmed.
LEMMA ExpireKeeps ==
  ASSUME TypeOK, ExpireLapsed, NEW j \in Jobs
  PROVE  /\ status'[j] \in {status[j], "expired"}
         /\ status[j] # "awaiting" => status'[j] = status[j] /\ subject'[j] = subject[j]
         /\ status'[j] = "awaiting" => subject'[j] = subject[j]
  BY DEF ExpireLapsed, Retire, Redact, Lapsed, TypeOK

\* Expiring, and what a start resumes, keep the journal as it has to be.
LEMMA ExpireStep ==
  ASSUME TypeOK, Journal, ExpireLapsed, UNCHANGED <<pending, scope, target, confirmed>>,
         host' = host \/ host' = Onward(Unfinished)
  PROVE  Journal'
<1>1. SubjectsAreKept'
  BY ExpireKeeps DEF Journal, SubjectsAreKept
<1>2. OldTokensAreDead'
  BY ExpireKeeps DEF Journal, OldTokensAreDead, ErasureWasConfirmed, OneTokenPerPerson
<1>3. CASE host' = host
  <2>1. host.todo \subseteq Jobs
    BY DEF TypeOK, HostState
  <2>2. \A j \in Jobs : status[j] \in {"pending", "failed"} => status'[j] \in {"pending", "failed"}
    BY ExpireKeeps
  <2> QED BY <1>1, <1>2, <1>3, <2>1, <2>2 DEF Journal, Tables, Processing, AskedIsListed
<1>4. CASE host' = Onward(Unfinished)
  <2>1. \A j \in Unfinished : j \in Jobs /\ status'[j] \in {"pending", "failed"}
    BY ExpireKeeps DEF Unfinished
  <2>2. Processing' /\ AskedIsListed'
    BY <1>4, <2>1, ScanTypes, OnwardProperties DEF Processing, AskedIsListed, Idle
  <2> QED BY <1>1, <1>2, <2>2 DEF Journal, Tables
<1> QED BY <1>3, <1>4

\* A deletion request is the last message of the worker it was put to, and there is none
\* elsewhere: the thread that sends it also dispatches events, and it waits for the answer.
RequestIsLast ==
  /\ host.at = "wait" =>
       LET q == queue[host.module]["new"] IN q # <<>> /\ q[Len(q)].kind = "delete"
  /\ \A m \in Modules, t \in Threads : \A i \in 1..Len(queue[m][t]) :
       queue[m][t][i].kind = "delete" =>
         t = "new" /\ host.at = "wait" /\ host.module = m /\ i = Len(queue[m][t])

\* So a worker that has answered has nothing left to do until its plan is applied.
WorkerIsIdle ==
  host.at \in {"apply", "mark"} =>
    queue[host.module]["new"] = <<>> /\ busy[host.module]["new"] = Absent

Requests == RequestIsLast /\ WorkerIsIdle

LEMMA QueueTypes ==
  ASSUME TypeOK, NEW m \in Modules, NEW t \in Threads
  PROVE  /\ queue[m][t] \in Seq(Message) /\ Len(queue[m][t]) \in Nat
         /\ queue[m][t] # <<>> <=> Len(queue[m][t]) # 0
<1>1. queue[m][t] \in Seq(Message)
  BY DEF TypeOK
<1> QED BY <1>1, LenProperties, EmptySeq

LEMMA AnswerIsAwaited ==
  ASSUME TypeOK, RequestIsLast, NEW m \in Modules, Answer(m)
  PROVE  host.at = "wait" /\ host.module = m /\ Len(queue[m]["new"]) = 1
<1>1. "new" \in Threads
  BY DEF Threads
<1>2. /\ queue[m]["new"] \in Seq(Message) /\ Len(queue[m]["new"]) \in Nat \ {0}
      /\ queue[m]["new"][1].kind = "delete"
  BY <1>1, QueueTypes DEF Answer
<1>3. 1 \in 1..Len(queue[m]["new"])
  BY <1>2
<1> QED BY <1>1, <1>2, <1>3 DEF RequestIsLast

LEMMA RequestStep == TypeOK /\ Tables /\ Requests /\ [Next]_vars => Requests'
<1> SUFFICES ASSUME TypeOK, Tables, Requests, [Next]_vars PROVE Requests'
  OBVIOUS
<1> USE ConstantsAssumption
<1>a. "new" \in Threads
  BY DEF Threads
<1>b. host.at \in {"wait", "apply", "mark"} => host.module \in Modules
  BY DEF Tables, AskedIsListed, Processing, TypeOK
\* Nobody is asked before or after the step.
<1>1. ASSUME queue' = queue, busy' = busy, host.at # "wait", host'.at # "wait",
             host'.at \in {"apply", "mark"} =>
               host.at \in {"apply", "mark"} /\ host'.module = host.module
      PROVE  Requests'
  BY <1>1 DEF Requests, RequestIsLast, WorkerIsIdle
<1>2. CASE UNCHANGED <<queue, busy, host>>
  BY <1>2 DEF Requests, RequestIsLast, WorkerIsIdle
<1>3. CASE \/ \E p \in Persons, m \in Modules : Arrive(p, m)
           \/ \E r, p \in Persons, j \in Jobs : Initiate(r, p, j)
           \/ \E j \in Jobs : TimePasses(j)
           \/ ListPending \/ UNCHANGED vars
  BY <1>2, <1>3 DEF Arrive, Initiate, TimePasses, ListPending, workers, vars
<1>4. CASE Dispatch
  <2>1. inbound \in [who: Persons, module: Modules] /\ host.at = "idle" /\ host' = host
    BY <1>4 DEF Dispatch, TypeOK
  <2>2. CASE queue' = queue
    BY <1>4, <1>1, <2>1, <2>2 DEF Dispatch
  <2>3. CASE queue' # queue
    <3> DEFINE m == inbound.module
               event == [kind |-> "event", who |-> inbound.who]
    <3>1. m \in Modules /\ event \in Message /\ event.kind = "event"
      BY <2>1 DEF Message
    <3>2. queue' = [queue EXCEPT ![m]["new"] = Append(queue[m]["new"], event)]
      BY <1>4, <2>3 DEF Dispatch
    <3> HIDE DEF m, event
    <3>3. \A k \in Modules, t \in Threads : \A i \in 1..Len(queue'[k][t]) :
            queue'[k][t][i].kind # "delete"
      <4> SUFFICES ASSUME NEW k \in Modules, NEW t \in Threads, NEW i \in 1..Len(queue'[k][t])
                   PROVE  queue'[k][t][i].kind # "delete"
        OBVIOUS
      <4>1. queue[k][t] \in Seq(Message) /\ Len(queue[k][t]) \in Nat
        BY QueueTypes
      <4>2. \A l \in 1..Len(queue[k][t]) : queue[k][t][l].kind # "delete"
        BY <2>1 DEF Requests, RequestIsLast
      <4>3. CASE queue'[k][t] = queue[k][t]
        BY <4>2, <4>3
      <4>4. CASE queue'[k][t] = Append(queue[k][t], event)
        BY <3>1, <4>1, <4>2, <4>4, AppendProperties
      <4> QED BY <3>1, <3>2, <4>3, <4>4, <1>a DEF TypeOK
    <3> QED BY <2>1, <3>3 DEF Requests, RequestIsLast, WorkerIsIdle
  <2> QED BY <2>2, <2>3
<1>5. ASSUME NEW m \in Modules, NEW t \in Threads, HandlerReads(m, t) PROVE Requests'
  <2> DEFINE q == queue[m][t]
  <2>1. /\ q \in Seq(Message) /\ Len(q) \in Nat /\ q # <<>> /\ q[1].kind # "delete"
        /\ queue' = [queue EXCEPT ![m][t] = Tail(q)] /\ host' = host
    BY <1>5, QueueTypes DEF HandlerReads
  <2>2. /\ Tail(q) \in Seq(Message) /\ Len(q) # 0 /\ Len(Tail(q)) = Len(q) - 1
        /\ \A i \in 1..Len(Tail(q)) : Tail(q)[i] = q[i + 1]
    BY <2>1, HeadTailProperties, EmptySeq
  <2>3. /\ queue'[m][t] = Tail(q)
        /\ \A k \in Modules, u \in Threads : k # m \/ u # t => queue'[k][u] = queue[k][u]
    BY <2>1 DEF TypeOK
  <2> HIDE DEF q
  <2>4. ASSUME NEW k \in Modules, NEW u \in Threads, NEW i \in 1..Len(queue'[k][u]),
               queue'[k][u][i].kind = "delete"
        PROVE  u = "new" /\ host.at = "wait" /\ host.module = k /\ i = Len(queue'[k][u])
    <3>1. CASE k # m \/ u # t
      BY <2>3, <2>4, <3>1 DEF Requests, RequestIsLast
    <3>2. CASE k = m /\ u = t
      <4>1. i + 1 \in 1..Len(q) /\ q[i + 1].kind = "delete"
        BY <2>1, <2>2, <2>3, <2>4, <3>2
      <4>2. u = "new" /\ host.at = "wait" /\ host.module = k /\ i + 1 = Len(q)
        BY <3>2, <4>1 DEF Requests, RequestIsLast, q
      <4> QED BY <2>1, <2>2, <2>3, <3>2, <4>2
    <3> QED BY <3>1, <3>2
  <2>5. host.at = "wait" =>
          LET p == queue'[host.module]["new"] IN p # <<>> /\ p[Len(p)].kind = "delete"
    <3> SUFFICES ASSUME host.at = "wait"
                 PROVE  LET p == queue'[host.module]["new"]
                        IN p # <<>> /\ p[Len(p)].kind = "delete"
      OBVIOUS
    <3>1. CASE m # host.module \/ t # "new"
      BY <1>a, <1>b, <2>3, <3>1 DEF Requests, RequestIsLast
    <3>2. CASE m = host.module /\ t = "new"
      <4>1. q[Len(q)].kind = "delete"
        BY <3>2 DEF Requests, RequestIsLast, q
      <4>2. Len(q) # 1
        BY <2>1, <4>1
      <4>3. Len(Tail(q)) \in 1..Len(Tail(q)) /\ Len(Tail(q)) + 1 = Len(q)
        BY <2>1, <2>2, <4>2
      <4>4. Tail(q)[Len(Tail(q))] = q[Len(q)]
        BY <2>2, <4>3
      <4>5. Tail(q) # <<>>
        <5>1. Len(<<>>) = 0
          BY EmptySeq
        <5>2. Tail(q) = <<>> => Len(Tail(q)) = 0
          BY <5>1, Zenon
        <5> QED BY <2>1, <2>2, <4>3, <5>2
      <4> QED BY <2>3, <3>2, <4>1, <4>4, <4>5
    <3> QED BY <3>1, <3>2
  <2>6. host.at \in {"apply", "mark"} =>
          queue'[host.module]["new"] = <<>> /\ busy'[host.module]["new"] = Absent
    <3> SUFFICES ASSUME host.at \in {"apply", "mark"}
                 PROVE  queue'[host.module]["new"] = <<>> /\ busy'[host.module]["new"] = Absent
      OBVIOUS
    <3>1. queue[host.module]["new"] = <<>> /\ busy[host.module]["new"] = Absent
      BY DEF Requests, WorkerIsIdle
    <3>2. m # host.module \/ t # "new"
      BY <2>1, <3>1 DEF q
    <3>3. busy'[host.module]["new"] = busy[host.module]["new"]
      BY <1>5, <1>a, <1>b, <3>2 DEF HandlerReads, TypeOK
    <3> QED BY <1>a, <1>b, <2>3, <3>1, <3>2, <3>3
  <2> QED BY <2>1, <2>4, <2>5, <2>6 DEF Requests, RequestIsLast, WorkerIsIdle
<1>6. ASSUME NEW m \in Modules, NEW t \in Threads, HandlerWrites(m, t) PROVE Requests'
  <2>1. queue' = queue /\ host' = host
    BY <1>6 DEF HandlerWrites
  <2>2. \A k \in Modules, u \in Threads : busy[k][u] = Absent => busy'[k][u] = Absent
    BY <1>6 DEF HandlerWrites, TypeOK
  <2> QED BY <1>a, <1>b, <2>1, <2>2 DEF Requests, RequestIsLast, WorkerIsIdle
<1>7. ASSUME NEW m \in Modules, AskModule(m) PROVE Requests'
  <2> DEFINE q == queue[m]["new"]
             ask == [kind |-> "delete"]
  <2>1. /\ q \in Seq(Message) /\ Len(q) \in Nat /\ ask \in Message /\ ask.kind = "delete"
        /\ queue' = [queue EXCEPT ![m]["new"] = Append(q, ask)]
        /\ host.at = "pick" /\ host'.at = "wait" /\ host'.module = m
    BY <1>7, <1>a, QueueTypes DEF AskModule, Message, TypeOK, HostState
  <2>2. /\ queue'[m]["new"] = Append(q, ask)
        /\ \A k \in Modules, u \in Threads : k # m \/ u # "new" => queue'[k][u] = queue[k][u]
    BY <1>a, <2>1 DEF TypeOK
  <2>3. \A k \in Modules, u \in Threads : \A i \in 1..Len(queue[k][u]) :
          queue[k][u][i].kind # "delete"
    BY <2>1 DEF Requests, RequestIsLast
  <2>4. /\ Append(q, ask) \in Seq(Message) /\ Append(q, ask) # <<>>
        /\ Len(Append(q, ask)) = Len(q) + 1 /\ Append(q, ask)[Len(q) + 1] = ask
        /\ \A i \in 1..Len(q) : Append(q, ask)[i] = q[i]
    BY <2>1, AppendProperties
  <2>5. ASSUME NEW i \in 1..Len(queue'[m]["new"]), queue'[m]["new"][i].kind = "delete"
        PROVE  i = Len(queue'[m]["new"])
    <3>1. \A l \in 1..Len(q) : q[l].kind # "delete"
      BY <1>a, <2>3
    <3> QED BY <2>1, <2>2, <2>4, <2>5, <3>1
  <2>6. RequestIsLast'
    BY <2>1, <2>2, <2>3, <2>4, <2>5 DEF RequestIsLast
  <2> QED BY <2>1, <2>6 DEF Requests, WorkerIsIdle
<1>8. ASSUME NEW m \in Modules, Answer(m) PROVE Requests'
  <2> DEFINE q == queue[m]["new"]
  <2>1. host.at = "wait" /\ host.module = m /\ Len(q) = 1
    BY <1>8, AnswerIsAwaited DEF Requests
  <2>2. q \in Seq(Message) /\ q # <<>>
    BY <1>8, <1>a, QueueTypes DEF Answer
  <2>3. Tail(q) = <<>>
    <3> HIDE DEF q
    <3>1. Tail(q) \in Seq(Message) /\ Len(Tail(q)) = 0
      BY <2>1, <2>2, HeadTailProperties
    <3> QED BY <3>1, EmptySeq
  <2>4. /\ queue'[m]["new"] = <<>> /\ busy' = busy /\ busy[m]["new"] = Absent
        /\ \A k \in Modules, u \in Threads : k # m \/ u # "new" => queue'[k][u] = queue[k][u]
    BY <1>8, <1>a, <2>3 DEF Answer, TypeOK
  <2>5. host'.at \in {"apply", "fail"} /\ host'.module = m
    BY <1>8, <2>1 DEF Answer, TypeOK, HostState
  <2>6. \A k \in Modules, u \in Threads : \A i \in 1..Len(queue'[k][u]) :
          queue'[k][u][i].kind # "delete"
    <3>1. Len(<<>>) = 0
      BY EmptySeq
    <3> QED BY <2>1, <2>4, <3>1 DEF Requests, RequestIsLast
  <2> QED BY <2>4, <2>5, <2>6 DEF Requests, RequestIsLast, WorkerIsIdle
<1>9. CASE AnswerTimeout
  <2> DEFINE m == host.module
             q == queue[m]["new"]
  <2>1. m \in Modules /\ host.at = "wait" /\ host'.at = "fail"
    BY <1>9, <1>b DEF AnswerTimeout, TypeOK, HostState
  <2>2. q \in Seq(Message) /\ Len(q) \in Nat /\ Len(q) # 0
    BY <2>1, <1>a, QueueTypes DEF Requests, RequestIsLast
  <2>3. /\ Len(SubSeq(q, 1, Len(q) - 1)) = Len(q) - 1
        /\ \A i \in 1..(Len(q) - 1) : SubSeq(q, 1, Len(q) - 1)[i] = q[i]
    <3>1. \A i \in 1..(Len(q) - 1) : q[i] \in Message
      BY <2>2, ElementOfSeq
    <3> QED BY <2>2, <3>1, SubSeqProperties
  <2>4. /\ queue'[m]["new"] = SubSeq(q, 1, Len(q) - 1)
        /\ \A k \in Modules, u \in Threads : k # m \/ u # "new" => queue'[k][u] = queue[k][u]
    BY <1>9, <1>a, <2>1 DEF AnswerTimeout, TypeOK
  <2>5. \A k \in Modules, u \in Threads : \A i \in 1..Len(queue'[k][u]) :
          queue'[k][u][i].kind # "delete"
    <3> SUFFICES ASSUME NEW k \in Modules, NEW u \in Threads, NEW i \in 1..Len(queue'[k][u])
                 PROVE  queue'[k][u][i].kind # "delete"
      OBVIOUS
    <3>1. CASE k # m \/ u # "new"
      BY <2>4, <3>1 DEF Requests, RequestIsLast
    <3>2. CASE k = m /\ u = "new"
      <4>1. i \in 1..Len(q) /\ i # Len(q) /\ queue'[k][u][i] = q[i]
        BY <2>2, <2>3, <2>4, <3>2
      <4> QED BY <3>2, <4>1, <1>a DEF Requests, RequestIsLast
    <3> QED BY <3>1, <3>2
  <2> QED BY <2>1, <2>5 DEF Requests, RequestIsLast, WorkerIsIdle
<1>10. CASE Apply \/ Mark \/ MissingModule
  BY <1>1, <1>10 DEF Apply, Mark, MissingModule, workers, TypeOK, HostState
<1>11. CASE \/ \E r \in Persons, j \in Jobs : Confirm(r, j)
            \/ Finish \/ Fail
  <2>1. queue' = queue /\ busy' = busy /\ host.at # "wait"
    BY <1>11 DEF Confirm, Finish, Fail, workers
  <2>2. host.todo \in SUBSET Jobs
    BY DEF TypeOK, HostState
  <2>3. host'.at \in {"pick", "idle", "fail"}
    <3>1. Onward(host.todo).at \in {"pick", "idle"}
      BY <2>2, OnwardProperties DEF Idle
    <3>2. [host EXCEPT !.at = "fail"].at = "fail"
      BY DEF TypeOK, HostState
    <3> QED BY <1>11, <3>1, <3>2 DEF Confirm, Finish, Fail, Idle
  <2> QED BY <1>1, <2>1, <2>3
<1>12. ASSUME NEW modules \in SUBSET Modules, Reload(modules) \/ Crash(modules) PROVE Requests'
  <2>1. host'.at \in {"pick", "idle"}
    BY <1>12, ScanTypes, OnwardProperties DEF Reload, Crash, Start, Idle
  <2>2. \A k \in Modules, u \in Threads : \A i \in 1..Len(queue'[k][u]) :
          queue'[k][u][i].kind # "delete"
    <3>1. Len(<<>>) = 0
      BY EmptySeq
    <3>2. CASE Reload(modules)
      <4>1. \A k \in Modules : \A i \in 1..Len(queue[k]["new"]) :
              queue[k]["new"][i].kind # "delete"
        BY <1>a, <3>2 DEF Reload, Requests, RequestIsLast
      <4>2. \A k \in Modules, u \in Threads : queue'[k][u] \in {queue[k]["new"], <<>>}
        BY <3>2 DEF Reload
      <4> QED BY <3>1, <4>1, <4>2
    <3>3. CASE Crash(modules)
      BY <3>1, <3>3 DEF Crash, NoQueues
    <3> QED BY <1>12, <3>2, <3>3
  <2> QED BY <2>1, <2>2 DEF Requests, RequestIsLast, WorkerIsIdle
<1> QED BY <1>3, <1>4, <1>5, <1>6, <1>7, <1>8, <1>9, <1>10, <1>11, <1>12 DEF Next

LEMMA JournalStep == TypeOK /\ Requests /\ Journal /\ [Next]_vars => Journal'
<1> SUFFICES ASSUME TypeOK, Requests, Journal, [Next]_vars PROVE Journal'
  OBVIOUS
<1> USE ConstantsAssumption
<1> DEFINE rows == <<status, subject, pending, scope, target, confirmed>>
\* Steps of the module thread that leave the journal's rows alone.
<1>1. ASSUME UNCHANGED rows,
             \/ host' = host
             \/ /\ host.at # "idle" /\ host'.job = host.job /\ host'.todo = host.todo
                /\ host'.at \in {"wait", "apply", "mark"} => host'.module \in pending[host.job]
      PROVE  Journal'
  BY <1>1 DEF Journal, Tables, Processing, AskedIsListed, SubjectsAreKept, OldTokensAreDead,
     ErasureWasConfirmed, OneTokenPerPerson
<1>2. CASE \/ \E p \in Persons, m \in Modules : Arrive(p, m)
           \/ Dispatch
           \/ \E m \in Modules, t \in Threads : HandlerReads(m, t) \/ HandlerWrites(m, t)
           \/ \E j \in Jobs : TimePasses(j)
           \/ UNCHANGED vars
  BY <1>1, <1>2 DEF Arrive, Dispatch, HandlerReads, HandlerWrites, TimePasses, vars, journal,
     history
<1>3. ASSUME NEW m \in Modules, AskModule(m) PROVE Journal'
  BY <1>1, <1>3 DEF AskModule, journal, history, TypeOK, HostState
<1>4. ASSUME NEW m \in Modules, Answer(m) PROVE Journal'
  <2>1. host.at = "wait" /\ host.module = m
    BY <1>4, AnswerIsAwaited DEF Requests
  <2>2. m \in pending[host.job]
    BY <2>1 DEF Journal, Tables, AskedIsListed
  <2> QED BY <1>1, <1>4, <2>1, <2>2 DEF Answer, journal, history, TypeOK, HostState
<1>5. CASE AnswerTimeout
  BY <1>1, <1>5 DEF AnswerTimeout, journal, history, TypeOK, HostState
<1>6. CASE Apply
  <2>1. host.module \in pending[host.job]
    BY <1>6 DEF Apply, Journal, Tables, AskedIsListed
  <2> QED BY <1>1, <1>6, <2>1 DEF Apply, journal, TypeOK, HostState
<1>7. CASE MissingModule
  BY <1>1, <1>7 DEF MissingModule, journal, history, TypeOK, HostState
<1>8. ASSUME NEW r \in Persons, NEW p \in Persons, NEW j \in Jobs, Initiate(r, p, j) PROVE Journal'
  <2>1. /\ host' = host /\ confirmed' = confirmed /\ host.at = "idle" /\ status[j] = "none"
        /\ status'[j] = "awaiting" /\ subject'[j] = p /\ target'[j] = p
    BY <1>8 DEF Initiate, Retire, Redact, TypeOK
  <2>2. \A i \in Jobs \ {j} :
          /\ pending'[i] = pending[i] /\ scope'[i] = scope[i] /\ target'[i] = target[i]
          /\ status'[i] \in {status[i], "cancelled"}
          /\ status[i] # "awaiting" => status'[i] = status[i]
          /\ status'[i] # "cancelled" => subject'[i] = subject[i]
          /\ status[i] # "awaiting" => subject'[i] = subject[i]
          /\ status'[i] = "awaiting" => subject[i] # p
    BY <1>8 DEF Initiate, Retire, Redact, Superseded, TypeOK
  <2>3. Processing' /\ AskedIsListed'
    <3>1. host.todo \subseteq Jobs
      BY DEF TypeOK, HostState
    <3> QED BY <2>1, <2>2, <3>1 DEF Journal, Tables, Processing, AskedIsListed
  <2>4. SubjectsAreKept'
    <3> SUFFICES ASSUME NEW i \in Jobs
                 PROVE  /\ status'[i] \in {"awaiting", "pending", "failed"} => subject'[i] = target'[i]
                        /\ status'[i] = "completed" => pending'[i] = {}
                        /\ status'[i] = "none" => scope'[i] = {}
      BY DEF SubjectsAreKept
    <3> QED BY <2>1, <2>2 DEF Journal, SubjectsAreKept
  <2>5. OldTokensAreDead'
    BY <2>1, <2>2 DEF Journal, OldTokensAreDead, ErasureWasConfirmed, OneTokenPerPerson
  <2> QED BY <2>3, <2>4, <2>5 DEF Journal, Tables
<1>9. ASSUME NEW r \in Persons, NEW j \in Jobs, Confirm(r, j) PROVE Journal'
  <2>1. /\ status' = [status EXCEPT ![j] = "pending"]
        /\ UNCHANGED <<subject, pending, scope, target>>
        /\ confirmed \subseteq confirmed'
        /\ status[j] \in {"awaiting", "failed"} /\ (status[j] = "awaiting" => j \in confirmed')
        /\ host'.at = "pick" /\ host'.job = j /\ host'.todo = {}
    BY <1>9 DEF Confirm, Confirmable, Idle
  <2> QED BY <2>1 DEF Journal, Tables, Processing, AskedIsListed, SubjectsAreKept,
             OldTokensAreDead, ErasureWasConfirmed, OneTokenPerPerson, TypeOK
<1>10. CASE Mark
  <2>1. /\ UNCHANGED <<status, subject, scope, target, confirmed>>
        /\ host.at = "mark" /\ host'.at \in {"pick", "fail"} /\ host'.job = host.job
        /\ host'.todo = host.todo
    BY <1>10 DEF Mark, history, TypeOK, HostState
  <2>2. \A j \in Jobs : pending'[j] \subseteq pending[j]
    <3> DEFINE i == host.job
               rest == pending[i] \ {host.module}
    <3>1. pending' = pending \/ pending' = [pending EXCEPT ![i] = rest]
      BY <1>10 DEF Mark
    <3>2. rest \subseteq pending[i]
      OBVIOUS
    <3> HIDE DEF i, rest
    <3> QED BY <3>1, <3>2 DEF TypeOK
  <2> QED BY <2>1, <2>2 DEF Journal, Tables, Processing, AskedIsListed, SubjectsAreKept,
             OldTokensAreDead, ErasureWasConfirmed, OneTokenPerPerson
\* The job that is done makes room for the next one.
<1>11. ASSUME NEW j \in Jobs, host.at # "idle", host.job = j, host' = Onward(host.todo),
              UNCHANGED <<pending, scope, target, confirmed>>,
              \A i \in Jobs \ {j} : status'[i] = status[i] /\ subject'[i] = subject[i],
              \/ status'[j] = "failed" /\ subject'[j] = subject[j]
              \/ status'[j] = "completed" /\ pending[j] = {}
       PROVE  Journal'
  <2>1. host.todo \in SUBSET Jobs
    BY DEF TypeOK, HostState
  <2>2. status[j] \in {"pending", "failed"} /\ j \notin host.todo
    BY <1>11 DEF Journal, Tables, Processing
  <2>3. SubjectsAreKept' /\ OldTokensAreDead'
    BY <1>11, <2>2 DEF Journal, SubjectsAreKept, OldTokensAreDead, ErasureWasConfirmed,
       OneTokenPerPerson
  <2>4. \A i \in host.todo : i \in Jobs /\ status'[i] \in {"pending", "failed"}
    BY <1>11, <2>1, <2>2 DEF Journal, Tables, Processing
  <2>5. Processing' /\ AskedIsListed'
    BY <1>11, <2>1, <2>4, OnwardProperties DEF Processing, AskedIsListed, Idle
  <2> QED BY <2>3, <2>5 DEF Journal, Tables
<1>12. CASE Finish
  <2>1. host.job \in Jobs
    BY <1>12 DEF Finish, Journal, Tables, Processing
  <2>2. CASE host' = [host EXCEPT !.at = "fail"] /\ UNCHANGED <<profiles, status, subject, requester>>
    BY <1>1, <1>12, <2>2 DEF Finish, history, TypeOK, HostState
  <2>3. CASE host' = Onward(host.todo) /\ status' = Retire({host.job}, "completed")
             /\ subject' = Redact(subject, {host.job})
    BY <1>11, <1>12, <2>1, <2>3 DEF Finish, Finished, Retire, Redact, history
  <2> QED BY <1>12, <2>2, <2>3 DEF Finish
<1>13. CASE Fail
  <2>1. host.job \in Jobs
    BY <1>13 DEF Fail, Journal, Tables, Processing
  <2> QED BY <1>11, <1>13, <2>1 DEF Fail, history, TypeOK
<1>14. CASE ListPending
  BY <1>14, ExpireStep DEF ListPending, history
<1>15. ASSUME NEW modules \in SUBSET Modules, Reload(modules) \/ Crash(modules) PROVE Journal'
  BY <1>15, ExpireStep DEF Reload, Crash, Start, history
<1> QED BY <1>2, <1>3, <1>4, <1>5, <1>6, <1>7, <1>8, <1>9, <1>10, <1>12, <1>13, <1>14, <1>15
        DEF Next

-----------------------------------------------------------------------------
(* The theorems about every erasure, replaced workers or not.              *)

IInv == TypeOK /\ Requests /\ Journal

LEMMA InitHolds == Init => IInv
<1> SUFFICES ASSUME Init PROVE IInv
  OBVIOUS
<1> USE ConstantsAssumption
<1>1. TypeOK
  <2>1. Idle \in HostState
    BY DEF Idle, HostState, Record
  <2>2. \A m \in Modules : {} \in Record
    BY DEF Record
  <2> QED BY <2>1, <2>2, NoQueueTypes DEF Init, TypeOK, Statuses
<1>2. Requests
  <2>1. Len(<<>>) = 0
    BY EmptySeq
  <2> QED BY <2>1 DEF Init, Requests, RequestIsLast, WorkerIsIdle, NoQueues, Idle
<1>3. Journal
  BY DEF Init, Journal, Tables, Processing, AskedIsListed, SubjectsAreKept, OldTokensAreDead,
     ErasureWasConfirmed, OneTokenPerPerson, Idle
<1> QED BY <1>1, <1>2, <1>3 DEF IInv

LEMMA InvariantStep == IInv /\ [Next]_vars => IInv'
  BY TypeStep, RequestStep, JournalStep DEF IInv, Journal

LEMMA Invariance == Spec => []IInv
  BY InitHolds, InvariantStep, PTL DEF Spec

\* The variables keep their types, whatever is asked, fails and restarts.
THEOREM TypeCorrect == Spec => []TypeOK
<1>1. IInv => TypeOK
  BY DEF IInv
<1> QED BY <1>1, Invariance, PTL

\* Nobody is ever erased by a superseded, lapsed or unconfirmed request (deletion_create,
\* deletion_confirm, deletion_pending).
THEOREM TokensAreDead == Spec => []OldTokensAreDead
<1>1. IInv => OldTokensAreDead
  BY DEF IInv, Journal
<1> QED BY <1>1, Invariance, PTL

\* A profile goes only after every module its confirmed job listed (deletion_finish).
THEOREM ProfilesGoLast == Spec => ProfileGoesLast
<1> DEFINE Last == \A p \in profiles \ profiles' : \E j \in confirmed :
                     /\ target[j] = p /\ status'[j] = "completed"
                     /\ scope[j] \cap pending[j] = {}
<1>1. IInv /\ [Next]_vars => [Last]_vars
  <2> SUFFICES ASSUME IInv, [Next]_vars PROVE Last
    OBVIOUS
  <2>1. CASE profiles' = profiles
    BY <2>1
  <2>2. CASE Finish /\ profiles' # profiles
    <3> DEFINE j == host.job
    <3>1. /\ profiles' = profiles \ {subject[j]} /\ status' = Retire({j}, "completed")
          /\ pending[j] = {} /\ host.at = "pick"
      BY <2>2 DEF Finish, Finished
    <3>2. j \in Jobs /\ status[j] \in {"pending", "failed"}
      BY <3>1 DEF IInv, Journal, Tables, Processing
    <3>3. j \in confirmed /\ subject[j] = target[j]
      BY <3>2 DEF IInv, Journal, OldTokensAreDead, ErasureWasConfirmed, SubjectsAreKept
    <3>4. status'[j] = "completed"
      BY <3>1, <3>2 DEF Retire
    <3> QED BY <3>1, <3>3, <3>4
  <2>3. Finish \/ profiles' = profiles
    BY DEF Next, vars, journal, Arrive, Dispatch, HandlerReads, HandlerWrites, AskModule, Answer,
       Initiate, Confirm, TimePasses, AnswerTimeout, Apply, Mark, MissingModule, Fail, ListPending,
       Reload, Crash
  <2> QED BY <2>1, <2>2, <2>3
<1> QED BY <1>1, Invariance, PTL DEF Spec, ProfileGoesLast

-----------------------------------------------------------------------------
(* What an erasure leaves behind when no replaced worker is still writing. *)

\* There is one worker per module, and no write but its own comes between its read and
\* its write.
Alone ==
  \A m \in Modules :
    /\ queue[m]["old"] = <<>> /\ busy[m]["old"] = Absent
    /\ busy[m]["new"] # Absent => busy[m]["new"].seen = kv[m]

\* What the host read of the rows is still in them, and the rest is newer.
EntriesAreRead ==
  host.at \in {"wait", "apply"} =>
    /\ host.asOf <= facts
    /\ host.entries \subseteq kv[host.module]
    /\ \A f \in kv[host.module] : f \in host.entries \/ f.n > host.asOf

\* Module m is done with job j, whether or not the journal says so yet.
Done(j, m) ==
  \/ m \in scope[j] \ pending[j]
  \/ host.at = "mark" /\ host.job = j /\ host.module = m

GoneSince(j, m) ==
  applied[j][m] <= facts /\ \A f \in About(target[j], kv[m]) : f.n > applied[j][m]

DoneIsGone == \A j \in Jobs, m \in Modules : Done(j, m) => GoneSince(j, m)

Data == Alone /\ EntriesAreRead /\ DoneIsGone

LEMMA DataStep == IInv /\ ~Overlap /\ Data /\ [Next]_vars => Data'
<1> SUFFICES ASSUME IInv, ~Overlap, Data, [Next]_vars PROVE Data'
  OBVIOUS
<1> USE ConstantsAssumption
<1>t. TypeOK
  BY DEF IInv
<1>a. "new" \in Threads /\ "old" \in Threads /\ "new" # "old"
  BY DEF Threads
<1>b. host.at \in {"wait", "apply", "mark"} => host.module \in Modules /\ host.job \in Jobs
  BY DEF IInv, Journal, Tables, AskedIsListed, Processing, TypeOK
\* Steps that leave the rows alone, and the module thread where it is or with nothing read.
<1>1. ASSUME UNCHANGED <<kv, facts, applied>>,
             host' = host \/ host'.at \in {"idle", "pick", "fail"},
             \A j \in Jobs : \/ UNCHANGED <<scope[j], pending[j], target[j]>>
                             \/ scope'[j] = pending'[j] /\ host.at = "idle"
      PROVE  EntriesAreRead' /\ DoneIsGone'
  BY <1>1 DEF Data, EntriesAreRead, DoneIsGone, Done, GoneSince, About
<1>2. ASSUME UNCHANGED <<queue, busy, kv>> PROVE Alone'
  BY <1>2 DEF Data, Alone
<1>3. CASE \/ \E p \in Persons, m \in Modules : Arrive(p, m)
           \/ \E r \in Persons, j \in Jobs : Confirm(r, j)
           \/ \E j \in Jobs : TimePasses(j)
           \/ ListPending \/ MissingModule \/ UNCHANGED vars
  <2>1. UNCHANGED <<queue, busy, kv, facts, applied, scope, pending, target>>
    BY <1>3 DEF Arrive, Confirm, TimePasses, ListPending, MissingModule, workers, history,
       journal, vars
  <2>2. host' = host \/ host'.at \in {"idle", "pick", "fail"}
    BY <1>3, <1>t DEF Arrive, Confirm, TimePasses, ListPending, MissingModule, vars, Idle, TypeOK,
       HostState
  <2> QED BY <1>1, <1>2, <2>1, <2>2 DEF Data
<1>4. CASE Finish \/ Fail
  <2>1. UNCHANGED <<queue, busy, kv, facts, applied, scope, pending, target>>
    BY <1>4 DEF Finish, Fail, workers, history
  <2>2. host'.at \in {"idle", "pick", "fail"}
    <3>1. host.todo \in SUBSET Jobs
      BY <1>t DEF TypeOK, HostState
    <3>2. Onward(host.todo).at \in {"pick", "idle"}
      BY <3>1, OnwardProperties DEF Idle
    <3>3. [host EXCEPT !.at = "fail"].at = "fail"
      BY <1>t DEF TypeOK, HostState
    <3> QED BY <1>4, <3>2, <3>3 DEF Finish, Fail
  <2> QED BY <1>1, <1>2, <2>1, <2>2 DEF Data
<1>5. CASE Dispatch
  <2>1. inbound \in [who: Persons, module: Modules] /\ host' = host
        /\ UNCHANGED <<busy, kv, facts, applied, scope, pending, target>>
    BY <1>5, <1>t DEF Dispatch, TypeOK, history, journal
  <2>2. \A m \in Modules : queue'[m]["old"] = queue[m]["old"]
    BY <1>5, <1>t, <1>a, <2>1 DEF Dispatch, TypeOK
  <2> QED BY <1>1, <2>1, <2>2 DEF Data, Alone
<1>6. ASSUME NEW m \in Modules, NEW t \in Threads, HandlerReads(m, t) PROVE Data'
  <2>1. t = "new"
    BY <1>6 DEF HandlerReads, Data, Alone, Threads
  <2>2. /\ \A k \in Modules : queue'[k]["old"] = queue[k]["old"] /\ busy'[k]["old"] = busy[k]["old"]
        /\ busy'[m]["new"].seen = kv[m]
        /\ \A k \in Modules \ {m} : busy'[k]["new"] = busy[k]["new"]
    BY <1>6, <1>t, <1>a, <2>1 DEF HandlerReads, TypeOK
  <2>3. UNCHANGED <<host, kv, facts, applied, scope, pending, target>>
    BY <1>6 DEF HandlerReads, history, journal
  <2> QED BY <1>1, <2>2, <2>3 DEF Data, Alone
<1>7. ASSUME NEW m \in Modules, NEW t \in Threads, HandlerWrites(m, t) PROVE Data'
  <2> DEFINE f == [who |-> busy[m]["new"].who, n |-> facts + 1]
  <2>1. t = "new" /\ busy[m]["new"].seen = kv[m]
    BY <1>7 DEF HandlerWrites, Data, Alone, Threads
  <2>2. kv'[m] = kv[m] \cup {f} /\ \A k \in Modules \ {m} : kv'[k] = kv[k]
    BY <1>7, <1>t, <2>1 DEF HandlerWrites, TypeOK
  <2>3. facts \in Nat /\ facts' = facts + 1 /\ f.n = facts + 1
    BY <1>7, <1>t DEF HandlerWrites, TypeOK
  <2>4. UNCHANGED <<host, queue, applied, scope, pending, target>>
    BY <1>7 DEF HandlerWrites, history, journal
  <2>5. host.asOf \in Nat /\ applied \in [Jobs -> [Modules -> Nat]]
    BY <1>t DEF TypeOK, HostState
  <2>6. Alone'
    <3>1. /\ busy'[m]["new"] = Absent
          /\ \A k \in Modules : busy'[k]["old"] = Absent
          /\ \A k \in Modules \ {m} : busy'[k]["new"] = busy[k]["new"]
      BY <1>7, <1>t, <1>a, <2>1 DEF HandlerWrites, TypeOK, Data, Alone
    <3> QED BY <2>2, <2>4, <3>1 DEF Data, Alone
  <2> HIDE DEF f
  <2>7. EntriesAreRead'
    <3>1. \A k \in Modules : kv[k] \subseteq kv'[k] /\ \A g \in kv'[k] : g \in kv[k] \/ g = f
      BY <2>2
    <3> QED BY <1>b, <2>3, <2>4, <2>5, <3>1 DEF Data, EntriesAreRead
  <2>8. DoneIsGone'
    <3> SUFFICES ASSUME NEW j \in Jobs, NEW k \in Modules, Done(j, k)'
                 PROVE  GoneSince(j, k)'
      BY DEF DoneIsGone
    <3>1. GoneSince(j, k)
      BY <2>4 DEF Data, DoneIsGone, Done
    <3>2. applied[j][k] \in Nat
      BY <2>5
    <3>3. \A g \in kv'[k] : g \in kv[k] \/ g = f
      BY <2>2
    <3> QED BY <2>3, <2>4, <3>1, <3>2, <3>3 DEF GoneSince, About
  <2> QED BY <2>6, <2>7, <2>8 DEF Data
<1>8. ASSUME NEW m \in Modules, AskModule(m) PROVE Data'
  <2>1. UNCHANGED <<busy, kv, facts, applied, scope, pending, target>>
    BY <1>8 DEF AskModule, history, journal
  <2>2. /\ host'.at = "wait" /\ host'.module = m /\ host'.entries = kv[m] /\ host'.asOf = facts
        /\ facts \in Nat
    BY <1>8, <1>t DEF AskModule, TypeOK, HostState
  <2>3. \A k \in Modules : queue'[k]["old"] = queue[k]["old"]
    BY <1>8, <1>t, <1>a DEF AskModule, TypeOK
  <2>4. Alone' /\ EntriesAreRead'
    BY <2>1, <2>2, <2>3 DEF Data, Alone, EntriesAreRead
  <2>5. DoneIsGone'
    BY <2>1, <2>2 DEF Data, DoneIsGone, Done, GoneSince, About
  <2> QED BY <2>4, <2>5 DEF Data
<1>9. ASSUME NEW m \in Modules, Answer(m) PROVE Data'
  <2>1. UNCHANGED <<busy, kv, facts, applied, scope, pending, target>>
    BY <1>9 DEF Answer, history, journal
  <2>2. \A k \in Modules : queue'[k]["old"] = queue[k]["old"]
    BY <1>9, <1>t, <1>a DEF Answer, TypeOK
  <2>3. host.at = "wait"
    BY <1>9, AnswerIsAwaited DEF IInv, Requests
  <2>4. host'.at \in {"apply", "fail"} /\ host'.module = host.module
        /\ host'.entries = host.entries /\ host'.asOf = host.asOf
    BY <1>9, <1>t DEF Answer, TypeOK, HostState
  <2>5. Alone' /\ EntriesAreRead'
    BY <2>1, <2>2, <2>3, <2>4 DEF Data, Alone, EntriesAreRead
  <2>6. DoneIsGone'
    BY <2>1, <2>4 DEF Data, DoneIsGone, Done, GoneSince, About
  <2> QED BY <2>5, <2>6 DEF Data
<1>10. CASE AnswerTimeout
  <2>1. UNCHANGED <<busy, kv, facts, applied, scope, pending, target>>
    BY <1>10 DEF AnswerTimeout, history, journal
  <2>2. \A k \in Modules : queue'[k]["old"] = queue[k]["old"]
    BY <1>10, <1>t, <1>a, <1>b DEF AnswerTimeout, TypeOK
  <2>3. host'.at = "fail"
    BY <1>10, <1>t DEF AnswerTimeout, TypeOK, HostState
  <2> QED BY <1>1, <2>1, <2>2, <2>3 DEF Data, Alone
<1>11. CASE Apply
  <2> DEFINE j == host.job
             m == host.module
             n == host.asOf
  <2>1. /\ j \in Jobs /\ m \in Modules /\ n \in Nat /\ host.at = "apply" /\ subject[j] = target[j]
        /\ facts \in Nat
    BY <1>11, <1>b, <1>t DEF Apply, IInv, Journal, Tables, Processing, SubjectsAreKept, TypeOK,
       HostState
  <2>2. UNCHANGED <<queue, busy, facts, scope, pending, target>>
    BY <1>11 DEF Apply, workers, journal
  <2>3. \A k \in Modules \ {m} : kv'[k] = kv[k]
    BY <1>11, <1>t DEF Apply, TypeOK
  <2>4. kv'[m] \subseteq kv[m]
    <3>1. host.entries \subseteq kv[m]
      BY <2>1 DEF Data, EntriesAreRead
    <3> QED BY <1>11, <1>t, <2>1, <3>1 DEF Apply, TypeOK
  <2>5. Alone'
    <3>1. busy[m]["new"] = Absent
      BY <2>1 DEF IInv, Requests, WorkerIsIdle
    <3> QED BY <2>2, <2>3, <3>1 DEF Data, Alone
  <2>6. CASE host' = [host EXCEPT !.at = "fail"] /\ UNCHANGED <<kv, applied>>
    <3>1. host'.at = "fail"
      BY <1>t, <2>6 DEF TypeOK, HostState
    <3> QED BY <1>1, <2>2, <2>5, <2>6, <3>1 DEF Data
  <2>7. CASE /\ kv' = IF About(subject[j], host.entries) # {} /\ kv[m] # {}
                      THEN [kv EXCEPT ![m] = host.entries \ About(subject[j], host.entries)]
                      ELSE kv
             /\ applied' = [applied EXCEPT ![j][m] = n]
             /\ host' = [host EXCEPT !.at = "mark"]
    <3>1. host'.at = "mark" /\ host'.job = j /\ host'.module = m
      BY <1>t, <2>7 DEF TypeOK, HostState
    <3>2. /\ applied'[j][m] = n
          /\ \A i \in Jobs, k \in Modules : i # j \/ k # m => applied'[i][k] = applied[i][k]
      <4> applied \in [Jobs -> [Modules -> Nat]]
        BY <1>t DEF TypeOK
      <4> HIDE DEF j, m, n
      <4> QED BY <2>1, <2>7
    <3>3. \A f \in About(target[j], kv'[m]) : f.n > n
      <4>1. CASE About(subject[j], host.entries) # {} /\ kv[m] # {}
        BY <1>t, <2>1, <2>7, <4>1 DEF About, TypeOK
      <4>2. CASE About(subject[j], host.entries) = {}
        <5>1. kv'[m] = kv[m] /\ \A f \in kv[m] : f \in host.entries \/ f.n > n
          BY <2>1, <2>7, <4>2 DEF Data, EntriesAreRead
        <5> QED BY <2>1, <4>2, <5>1 DEF About
      <4>3. CASE kv[m] = {}
        BY <2>7, <4>3 DEF About
      <4> QED BY <4>1, <4>2, <4>3
    <3>4. n <= facts
      BY <2>1 DEF Data, EntriesAreRead
    <3> HIDE DEF j, m, n
    <3>5. DoneIsGone'
      <4> SUFFICES ASSUME NEW i \in Jobs, NEW k \in Modules, Done(i, k)'
                   PROVE  GoneSince(i, k)'
        BY DEF DoneIsGone
      <4>1. CASE i = j /\ k = m
        BY <2>2, <3>2, <3>3, <3>4, <4>1 DEF GoneSince
      <4>2. CASE i # j \/ k # m
        <5>1. GoneSince(i, k)
          BY <2>1, <2>2, <3>1, <4>2 DEF Data, DoneIsGone, Done
        <5>2. kv'[k] \subseteq kv[k]
          BY <2>3, <2>4
        <5> QED BY <2>2, <3>2, <4>2, <5>1, <5>2 DEF GoneSince, About
      <4> QED BY <4>1, <4>2
    <3> QED BY <2>5, <3>1, <3>5 DEF Data, EntriesAreRead
  <2> QED BY <1>11, <2>6, <2>7 DEF Apply
<1>12. CASE Mark
  <2> DEFINE j == host.job
             m == host.module
             rest == pending[j] \ {m}
  <2>1. UNCHANGED <<queue, busy, kv, facts, applied, scope, target>>
    BY <1>12 DEF Mark, workers, history
  <2>2. host.at = "mark" /\ host'.at \in {"pick", "fail"}
    BY <1>12, <1>t DEF Mark, TypeOK, HostState
  <2>3. \A i \in Jobs : pending'[i] = pending[i] \/ (i = j /\ pending'[i] = pending[i] \ {m})
    <3>1. pending' = pending \/ pending' = [pending EXCEPT ![j] = rest]
      BY <1>12 DEF Mark
    <3>2. rest = pending[j] \ {m}
      OBVIOUS
    <3> HIDE DEF j, m, rest
    <3> QED BY <1>t, <3>1, <3>2 DEF TypeOK
  <2>4. DoneIsGone'
    <3> SUFFICES ASSUME NEW i \in Jobs, NEW k \in Modules, Done(i, k)'
                 PROVE  GoneSince(i, k)'
      BY DEF DoneIsGone
    <3>1. Done(i, k)
      BY <2>1, <2>2, <2>3 DEF Done
    <3> QED BY <2>1, <3>1 DEF Data, DoneIsGone, GoneSince, About
  <2> QED BY <1>2, <2>1, <2>2, <2>4 DEF Data, EntriesAreRead
<1>13. ASSUME NEW r \in Persons, NEW p \in Persons, NEW i \in Jobs, Initiate(r, p, i) PROVE Data'
  <2>1. UNCHANGED <<queue, busy, kv, facts, applied, host>> /\ host.at = "idle"
    BY <1>13 DEF Initiate, workers
  <2>2. \A j \in Jobs : \/ UNCHANGED <<scope[j], pending[j], target[j]>>
                        \/ scope'[j] = pending'[j]
    BY <1>13, <1>t DEF Initiate, TypeOK
  <2> QED BY <1>1, <1>2, <2>1, <2>2 DEF Data
<1>14. ASSUME NEW modules \in SUBSET Modules, Reload(modules) \/ Crash(modules) PROVE Data'
  <2>1. UNCHANGED <<kv, facts, applied, scope, pending, target>>
    BY <1>14 DEF Reload, Crash, history
  <2>2. host'.at \in {"idle", "pick"}
    BY <1>14, <1>t, ScanTypes, OnwardProperties DEF Reload, Crash, Start, Idle
  <2>3. Alone'
    BY <1>14 DEF Reload, Crash, Alone, NoQueues, NoHands, Threads
  <2> QED BY <1>1, <2>1, <2>2, <2>3 DEF Data
<1> QED BY <1>3, <1>4, <1>5, <1>6, <1>7, <1>8, <1>9, <1>10, <1>11, <1>12, <1>13, <1>14 DEF Next

\* What a listed module knew of the person when its plan was asked for is gone once the
\* workflow completes (process_deletion, kv_apply_module), however often it was resumed.
THEOREM ErasedDataIsGone ==
  ASSUME ~Overlap
  PROVE  Spec => []OldDataIsGone
<1>1. Init => Data
  BY DEF Init, Data, Alone, EntriesAreRead, DoneIsGone, Done, NoQueues, NoHands, Idle, Threads
<1>2. IInv /\ Data /\ [Next]_vars => Data'
  BY DataStep
<1>3. IInv /\ Data => OldDataIsGone
  BY DEF IInv, Journal, SubjectsAreKept, Data, DoneIsGone, Done, GoneSince, OldDataIsGone, TypeOK
<1> QED BY <1>1, <1>2, <1>3, Invariance, PTL DEF Spec

-----------------------------------------------------------------------------
(* Exports, for any number of persons, modules, files, facts and failures. *)

CONSTANTS People, Lifecycles, Host, Gap, Age, FilesKept, MaxNow, MaxFacts, MaxRequests, MaxMishaps
VARIABLES db, world

Exports == INSTANCE Exports

Known == [who : People, of : Exports!Stores, n : Nat, told : BOOLEAN]
File  == [about : People, own : BOOLEAN, asked : Nat, at : Nat, offline : BOOLEAN,
          whole : BOOLEAN, whose : SUBSET People, missing : SUBSET Known]
Question == [about : People \cup {Nobody}, own : BOOLEAN, asked : Nat, todo : SUBSET Lifecycles,
             got : SUBSET Known, before : SUBSET Known]

Worlds == [now : Nat \ {0}, loaded : SUBSET Lifecycles, host : Question,
           cooled : [People -> Nat], start : Nat, facts : Nat, requests : Nat, mishaps : Nat]

ExportsTypeOK ==
  /\ db \in [stores : [Exports!Stores -> SUBSET Known], registry : SUBSET Lifecycles,
             files : Seq(File)]
  /\ world \in Worlds

StoresAreOwn(stores) == \A s \in Exports!Stores : \A f \in stores[s] : f.of = s

\* A file, and a person's own request, as things stand in world w.
IsOwnOf(x, w) == x.asked >= 1 /\ (x.asked <= w.cooled[x.about] \/ w.start >= x.asked)
TrueFile(x, w) ==
  /\ x.whose \subseteq {x.about}
  /\ x.whole => \A f \in x.missing : f.told => x.offline /\ f.of # Host
  /\ x.at <= w.now /\ x.asked <= w.now /\ (x.own => IsOwnOf(x, w))

\* Of an earlier file and a later one, or the question a later one will answer.
Apart(x, y, w) == x.own /\ y.own /\ x.about = y.about => y.asked - x.asked >= Gap \/ w.start >= x.asked
InOrder(x, y, w) == x.at <= y.at /\ y.at - x.at <= Age /\ Apart(x, y, w)

Sound(files, w) ==
  /\ Len(files) <= FilesKept
  /\ \A i \in 1..Len(files) : TrueFile(files[i], w)
  /\ \A i, j \in 1..Len(files) : i < j => InOrder(files[i], files[j], w)

\* What was stored when the question was asked, and its makers tell, is told by now, or still
\* stored with a module that has yet to answer.
Asking(h, d, w) ==
  /\ h.about \in People /\ h.asked <= w.now /\ (h.own => IsOwnOf(h, w))
  /\ \A f \in h.got \cup h.before : f.who = h.about
  /\ \A f \in h.before : f.told => f \in h.got \/ \E m \in h.todo : f \in d.stores[m]
  /\ \A i \in 1..Len(d.files) : Apart(d.files[i], h, w)

ExportsInv ==
  /\ ExportsTypeOK /\ Sound(db.files, world) /\ StoresAreOwn(db.stores)
  /\ world.host # Exports!Idle => Asking(world.host, db, world)

LEMMA WorldFields ==
  ASSUME NEW v \in Worlds
  PROVE  /\ v = [now |-> v.now, loaded |-> v.loaded, host |-> v.host, cooled |-> v.cooled,
                 start |-> v.start, facts |-> v.facts, requests |-> v.requests,
                 mishaps |-> v.mishaps]
         /\ v.now \in Nat /\ v.now >= 1 /\ v.loaded \in SUBSET Lifecycles /\ v.host \in Question
         /\ v.cooled \in [People -> Nat] /\ v.start \in Nat /\ v.facts \in Nat
         /\ v.requests \in Nat /\ v.mishaps \in Nat
  BY DEF Worlds

LEMMA WorldUpdates ==
  ASSUME NEW v \in Worlds, NEW q \in Question
  PROVE  /\ [v EXCEPT !.requests = @ + 1, !.host = q] \in Worlds
         /\ [v EXCEPT !.host = q, !.mishaps = @ + 1] \in Worlds
         /\ [v EXCEPT !.requests = @ + 1] \in Worlds
<1>1. [v EXCEPT !.host = q] \in Worlds /\ [v EXCEPT !.requests = v.requests + 1] \in Worlds
  BY DEF Worlds
<1>2. /\ [[v EXCEPT !.requests = v.requests + 1] EXCEPT !.host = q] \in Worlds
      /\ [[v EXCEPT !.host = q] EXCEPT !.mishaps = v.mishaps + 1] \in Worlds
  <2> DEFINE a == [v EXCEPT !.requests = v.requests + 1]
             b == [v EXCEPT !.host = q]
  <2>1. a \in Worlds /\ b \in Worlds /\ v.mishaps \in Nat
    BY <1>1, WorldFields
  <2> HIDE DEF a, b
  <2>2. [a EXCEPT !.host = q] \in Worlds
    BY <2>1 DEF Worlds
  <2>3. \A n \in Nat : [b EXCEPT !.mishaps = n] \in Worlds
    BY <2>1 DEF Worlds
  <2>4. [b EXCEPT !.mishaps = v.mishaps + 1] \in Worlds
    BY <2>1, <2>3
  <2> QED BY <2>2, <2>4 DEF a, b
<1>3. [v EXCEPT !.requests = @ + 1, !.host = q] = [[v EXCEPT !.requests = v.requests + 1] EXCEPT !.host = q]
  BY DEF Worlds
<1>4. [v EXCEPT !.host = q, !.mishaps = @ + 1] = [[v EXCEPT !.host = q] EXCEPT !.mishaps = v.mishaps + 1]
  BY DEF Worlds
<1> QED BY <1>1, <1>2, <1>3, <1>4

LEMMA SuffixIsSound ==
  ASSUME NEW files \in Seq(File), NEW w, Sound(files, w), NEW n \in 0..Len(files), FilesKept \in Nat
  PROVE  LET rest == SubSeq(files, n + 1, Len(files))
         IN /\ rest \in Seq(File) /\ Len(rest) = Len(files) - n
            /\ \A i \in 1..Len(rest) : i + n \in 1..Len(files) /\ rest[i] = files[i + n]
            /\ Sound(rest, w)
<1> DEFINE rest == SubSeq(files, n + 1, Len(files))
<1>1. /\ rest \in Seq(File) /\ Len(rest) = Len(files) - n
      /\ \A i \in 1..Len(rest) : rest[i] = files[i + n]
  <2>1. Len(files) \in Nat /\ \A i \in n + 1..Len(files) : files[i] \in File
    OBVIOUS
  <2>2. n + 1 \in Int /\ Len(files) \in Int
    BY <2>1
  <2> HIDE DEF rest
  <2>3. /\ rest \in Seq(File)
        /\ Len(rest) = IF n + 1 <= Len(files) THEN Len(files) - (n + 1) + 1 ELSE 0
        /\ \A i \in 1..Len(files) - (n + 1) + 1 : rest[i] = files[n + 1 + i - 1]
    BY <2>1, <2>2, SubSeqProperties DEF rest
  <2>4. Len(rest) = Len(files) - n /\ Len(files) - (n + 1) + 1 = Len(files) - n
    BY <2>1, <2>3
  <2>5. \A i \in 1..Len(rest) : rest[i] = files[i + n]
    <3> TAKE i \in 1..Len(rest)
    <3>1. n + 1 + i - 1 = i + n
      BY <2>1, <2>4
    <3> QED BY <2>3, <2>4, <3>1
  <2> QED BY <2>3, <2>4, <2>5
<1> HIDE DEF rest
<1>2. Len(files) \in Nat /\ \A i \in 1..Len(rest) : i + n \in 1..Len(files)
  BY <1>1
<1>3. Sound(rest, w)
  <2>1. Len(rest) <= FilesKept
    BY <1>1, <1>2 DEF Sound
  <2>2. \A i \in 1..Len(rest) : TrueFile(rest[i], w)
    BY <1>1, <1>2 DEF Sound
  <2>3. \A i, j \in 1..Len(rest) : i < j => InOrder(rest[i], rest[j], w)
    <3> SUFFICES ASSUME NEW i \in 1..Len(rest), NEW j \in 1..Len(rest), i < j
                 PROVE  InOrder(files[i + n], files[j + n], w)
      BY <1>1
    <3>1. i + n < j + n
      BY <1>1, <1>2
    <3> QED BY <1>2, <3>1 DEF Sound
  <2> QED BY <2>1, <2>2, <2>3 DEF Sound
<1> QED BY <1>1, <1>2, <1>3 DEF rest

LEMMA SameCardinality == \A S : Exports!Cardinality(S) = Cardinality(S)
  BY Zenon DEF Exports!Cardinality, Cardinality

\* prune_exports takes every file that is too old, being the first ones, and leaves room.
LEMMA SurplusIsEnough ==
  ASSUME Exports!ExportsAssumption, ExportsTypeOK, Sound(db.files, world)
  PROVE  LET n == Exports!Surplus(db.files)
         IN /\ n \in 0..Len(db.files) /\ Len(db.files) - n < FilesKept
            /\ \A i \in n + 1..Len(db.files) : world.now - db.files[i].at <= Age
<1> DEFINE files == db.files
           old == {i \in DOMAIN files : world.now - files[i].at > Age}
           a == Cardinality(old)
           b == Len(files) - (FilesKept - 1)
           n == Exports!Surplus(files)
<1>1. /\ files \in Seq(File) /\ world.now \in Nat /\ FilesKept \in Nat \ {0} /\ Age \in Nat
      /\ Len(files) \in Nat /\ DOMAIN files = 1..Len(files)
      /\ \A i \in 1..Len(files) : files[i].at \in Nat
  <2>1. FilesKept \in Nat \ {0} /\ Age \in Nat
    BY DEF Exports!ExportsAssumption
  <2>2. files \in Seq(File) /\ world.now \in Nat
    BY DEF ExportsTypeOK, Worlds
  <2> HIDE DEF files
  <2>3. Len(files) \in Nat /\ DOMAIN files = 1..Len(files) /\ \A i \in 1..Len(files) : files[i] \in File
    BY <2>2
  <2> QED BY <2>1, <2>2, <2>3 DEF File
<1> HIDE DEF files
<1>2. IsFiniteSet(1..Len(files)) /\ Cardinality(1..Len(files)) = Len(files)
  <2>1. 1 \in Int /\ Len(files) \in Int
    BY <1>1
  <2>2. Cardinality(1..Len(files)) = IF 1 > Len(files) THEN 0 ELSE Len(files) - 1 + 1
    BY <2>1, FS_Interval
  <2> QED BY <1>1, <2>1, <2>2, FS_Interval
<1>3. old \in SUBSET (1..Len(files)) /\ IsFiniteSet(old) /\ a <= Len(files) /\ a \in Nat
  <2>1. old \in SUBSET (1..Len(files))
    BY <1>1
  <2> HIDE DEF old
  <2>2. IsFiniteSet(old) /\ Cardinality(old) <= Len(files)
    BY <1>2, <2>1, FS_Subset
  <2> QED BY <2>1, <2>2, FS_CardinalityType
<1>4. \A i \in old : i <= a
  <2> SUFFICES ASSUME NEW i \in old PROVE i <= a
    OBVIOUS
  <2>1. 1..i \in SUBSET old
    <3> SUFFICES ASSUME NEW k \in 1..i PROVE k \in old
      OBVIOUS
    <3>1. k \in 1..Len(files) /\ i \in 1..Len(files)
      BY <1>1
    <3>2. files[k].at <= files[i].at
      <4>1. CASE k = i
        BY <1>1, <3>1, <4>1
      <4>2. CASE k < i
        BY <3>1, <4>2 DEF Sound, InOrder, files
      <4> QED BY <3>1, <4>1, <4>2
    <3>3. world.now - files[k].at >= world.now - files[i].at
      BY <1>1, <3>1, <3>2
    <3> QED BY <1>1, <3>1, <3>3
  <2>2. i \in Nat /\ i >= 1
    BY <1>3
  <2> HIDE DEF old
  <2>3. Cardinality(1..i) <= a
    BY <1>3, <2>1, FS_Subset
  <2>4. Cardinality(1..i) = i
    BY <2>2, FS_Interval
  <2> QED BY <2>3, <2>4
<1>5. n \in {a, b} /\ n >= a /\ n >= b
  <2>1. n = Exports!Max({a, b})
    BY SameCardinality DEF Exports!Surplus
  <2>2. b \in Int
    BY <1>1
  <2> HIDE DEF a, b, n
  <2>3. \E x \in {a, b} : \A y \in {a, b} : x >= y
    BY <1>3, <2>2
  <2> QED BY <2>1, <2>3 DEF Exports!Max
<1>6. b \in Int /\ b <= Len(files)
  BY <1>1
<1>7. \A i \in n + 1..Len(files) : world.now - files[i].at <= Age
  <2> SUFFICES ASSUME NEW i \in n + 1..Len(files) PROVE world.now - files[i].at <= Age
    OBVIOUS
  <2> HIDE DEF n, b, a
  <2>1. n \in Int /\ n >= a /\ n >= 0
    BY <1>3, <1>5, <1>6
  <2>2. i \in 1..Len(files) /\ ~(i <= a)
    BY <1>1, <1>3, <2>1
  <2>3. i \notin old
    BY <1>4, <2>2
  <2> QED BY <1>1, <2>2, <2>3
<1>8. n \in 0..Len(files) /\ Len(files) - n < FilesKept
  <2> HIDE DEF a, n
  <2>1. n \in Int /\ n >= 0 /\ n <= Len(files)
    BY <1>1, <1>3, <1>5, <1>6
  <2>2. n >= Len(files) - (FilesKept - 1)
    BY <1>5
  <2> QED BY <1>1, <2>1, <2>2
<1> QED BY <1>7, <1>8 DEF files

\* write_private_json, ended after any of its steps.
LEMMA WriteEffect ==
  ASSUME ExportsTypeOK, NEW STATE file, file \in File, file.whole = TRUE, NEW STATE w,
         Exports!Write(file, w),
         Exports!Surplus(db.files) \in 0..Len(db.files)
  PROVE  /\ world' \in {w, [w EXCEPT !.mishaps = @ + 1]}
         /\ \E i \in 0..Len(db.files) :
              LET rest == SubSeq(db.files, i + 1, Len(db.files))
              IN db' = [db EXCEPT !.files = rest]
                 \/ \E g \in {file, [file EXCEPT !.whole = FALSE]} :
                      i = Exports!Surplus(db.files) /\ db' = [db EXCEPT !.files = Append(rest, g)]
<1> DEFINE n == Exports!Surplus(db.files)
           gone(i) == SubSeq(db.files, i + 1, Len(db.files))
           made(k) == [db EXCEPT !.files = Append(gone(n), [file EXCEPT !.whole = k = 2])]
           first == [i \in 1..n |-> [db EXCEPT !.files = gone(i)]]
           last == [k \in 1..2 |-> made(k)]
           states == first \o last
<1>1. n \in Nat /\ Len(first) = n /\ DOMAIN first = 1..n /\ Len(db.files) \in Nat
  BY DEF ExportsTypeOK, Worlds
<1>2. Len(states) = n + 2 /\ (\A i \in 1..n : states[i] = [db EXCEPT !.files = gone(i)])
      /\ states[n + 1] = made(1) /\ states[n + 2] = made(2)
  <2> DEFINE S == {first[i] : i \in 1..n} \cup {made(k) : k \in 1..2}
  <2>4. Len(last) = 2 /\ last[1] = made(1) /\ last[2] = made(2) /\ last \in [1..2 -> S]
    OBVIOUS
  <2>7. first \in [1..n -> S]
    <3> HIDE DEF made
    <3> QED BY <1>1
  <2>1. first \in Seq(S) /\ last \in Seq(S)
    <3> HIDE DEF last, S, first, n, made
    <3>1. \A k \in Nat : [1..k -> S] \subseteq Seq(S)
      BY SeqDef
    <3>2. 2 \in Nat
      OBVIOUS
    <3> QED BY <1>1, <2>4, <2>7, <3>1, <3>2
  <2>2. \A i \in 1..n : first[i] = [db EXCEPT !.files = gone(i)]
    OBVIOUS
  <2> HIDE DEF S, first, last, gone, n, made
  <2>3. Len(states) = Len(first) + Len(last)
        /\ \A i \in 1..Len(first) + Len(last) :
             states[i] = IF i <= Len(first) THEN first[i] ELSE last[i - Len(first)]
    BY <2>1, ConcatProperties
  <2> HIDE DEF states
  <2>5. Len(states) = n + 2 /\ states[n + 1] = made(1) /\ states[n + 2] = made(2)
    BY <1>1, <2>3, <2>4
  <2>6. \A i \in 1..n : states[i] = first[i]
    BY <1>1, <2>3, <2>4
  <2> QED BY <2>2, <2>5, <2>6
<1>3. PICK i \in 0..Len(states) :
        /\ db' = IF i = 0 THEN db ELSE states[i]
        /\ IF i = Len(states) THEN world' = w
           ELSE world.mishaps < MaxMishaps /\ world' = [w EXCEPT !.mishaps = @ + 1]
  BY DEF Exports!Write, Exports!Perform
<1> HIDE DEF states, first
<1>4. world' \in {w, [w EXCEPT !.mishaps = @ + 1]}
  BY <1>3
<1> HIDE DEF n, gone
<1>5. \E k \in 0..Len(db.files) : \/ db' = [db EXCEPT !.files = gone(k)]
                                  \/ \E g \in {file, [file EXCEPT !.whole = FALSE]} :
                                       k = n /\ db' = [db EXCEPT !.files = Append(gone(k), g)]
  <2>1. n \in 0..Len(db.files)
    BY DEF n
  <2> HIDE DEF last, made
  <2>2. CASE i = 0
    <3>1. db.files \in Seq(File) /\ db = [db EXCEPT !.files = db.files]
      BY DEF ExportsTypeOK, Worlds
    <3>2. gone(0) = db.files
      BY <3>1 DEF gone
    <3> QED BY <1>1, <1>3, <2>2, <3>1, <3>2
  <2>3. CASE i \in 1..n
    <3>1. i # 0 /\ i \in 0..Len(db.files)
      BY <1>1, <2>1, <2>3
    <3>2. db' = [db EXCEPT !.files = gone(i)]
      BY <1>2, <1>3, <2>3, <3>1
    <3> QED BY <3>1, <3>2
  <2>4. CASE i \in {n + 1, n + 2}
    <3>1. i # 0 /\ (db' = made(1) \/ db' = made(2))
      BY <1>1, <1>2, <1>3, <2>4
    <3>2. (1 = 2) = FALSE /\ (2 = 2) = TRUE
      OBVIOUS
    <3>3. [file EXCEPT !.whole = TRUE] = file
      BY DEF File
    <3>4. \E g \in {file, [file EXCEPT !.whole = FALSE]} : db' = [db EXCEPT !.files = Append(gone(n), g)]
      <4> DEFINE with(g) == [db EXCEPT !.files = Append(gone(n), g)]
      <4>1. made(1) = with([file EXCEPT !.whole = FALSE])
        BY ONLY <3>2 DEF made
      <4>2. made(2) = with(file)
        BY ONLY <3>2, <3>3 DEF made
      <4> HIDE DEF with
      <4>3. \E g \in {file, [file EXCEPT !.whole = FALSE]} : db' = with(g)
        BY <3>1, <4>1, <4>2
      <4> QED BY <4>3 DEF with
    <3> QED BY <2>1, <3>4
  <2>5. i = 0 \/ i \in 1..n \/ i \in {n + 1, n + 2}
    BY <1>1, <1>2
  <2> QED BY ONLY <2>2, <2>3, <2>4, <2>5
<1> QED BY <1>4, <1>5 DEF n, gone

\* A file that is true, and apart from those before it, keeps them sound.
LEMMA WriteKeeps ==
  ASSUME Exports!ExportsAssumption, ExportsTypeOK, Sound(db.files, world), StoresAreOwn(db.stores),
         NEW STATE file, file \in File, TrueFile(file, world), file.at = world.now, file.whole = TRUE,
         \A i \in 1..Len(db.files) : Apart(db.files[i], file, world),
         NEW STATE w, Exports!Write(file, w),
         w.now = world.now, w.start = world.start, w.cooled = world.cooled,
         w.host # Exports!Idle => Asking(w.host, db, world) /\ ~file.own,
         w \in Worlds
  PROVE  ExportsInv'
<1> DEFINE old == db.files
           n == Exports!Surplus(old)
<1>1. /\ n \in 0..Len(old) /\ Len(old) - n < FilesKept
      /\ \A i \in n + 1..Len(old) : world.now - old[i].at <= Age
  BY SurplusIsEnough
<1>2. /\ old \in Seq(File) /\ Len(old) \in Nat /\ FilesKept \in Nat /\ Age \in Nat /\ world.now \in Nat
      /\ \A i \in 1..Len(old) : old[i] \in File
  BY DEF ExportsTypeOK, Worlds, Exports!ExportsAssumption
<1>w. world' \in {w, [w EXCEPT !.mishaps = @ + 1]}
  BY <1>1, WriteEffect
<1>3. /\ world' \in Worlds
      /\ world'.now = world.now /\ world'.start = world.start /\ world'.cooled = world.cooled
      /\ world'.host = w.host
  BY <1>w DEF Worlds
<1>4. PICK i \in 0..Len(old) :
        LET rest == SubSeq(old, i + 1, Len(old))
        IN db' = [db EXCEPT !.files = rest]
           \/ \E g \in {file, [file EXCEPT !.whole = FALSE]} :
                i = n /\ db' = [db EXCEPT !.files = Append(rest, g)]
  BY <1>1, WriteEffect
<1>6. PICK g \in {file, [file EXCEPT !.whole = FALSE]} :
        LET rest == SubSeq(old, i + 1, Len(old))
        IN db' = [db EXCEPT !.files = rest]
           \/ (i = n /\ db' = [db EXCEPT !.files = Append(rest, g)])
  <2> HIDE DEF n, old
  <2> QED BY <1>4
<1>g. /\ g \in File /\ TrueFile(g, world) /\ g.at = world.now /\ g.own = file.own
      /\ \A k \in 1..Len(db.files) : Apart(db.files[k], g, world)
  <2>1. CASE g = file
    BY <2>1
  <2>2. CASE g = [file EXCEPT !.whole = FALSE]
    <3>1. /\ g \in File /\ g.whole = FALSE /\ g.about = file.about /\ g.own = file.own
          /\ g.asked = file.asked /\ g.at = file.at /\ g.whose = file.whose
      BY <2>2 DEF File
    <3> QED BY <3>1 DEF TrueFile, IsOwnOf, Apart
  <2> QED BY <2>1, <2>2
<1> DEFINE rest == SubSeq(old, i + 1, Len(old))
<1>5. /\ rest \in Seq(File) /\ Len(rest) = Len(old) - i
      /\ \A k \in 1..Len(rest) : k + i \in 1..Len(old) /\ rest[k] = old[k + i]
      /\ Sound(rest, world)
  BY <1>2, SuffixIsSound
<1>7. /\ db'.files \in Seq(File) /\ Sound(db'.files, world) /\ db' = [db EXCEPT !.files = db'.files]
      /\ \A k \in 1..Len(db'.files) :
           db'.files[k] = g \/ \E l \in 1..Len(old) : db'.files[k] = old[l]
  <2> HIDE DEF rest, old, n
  <2>1. CASE db' = [db EXCEPT !.files = rest]
    <3>1. db'.files = rest /\ db' = [db EXCEPT !.files = db'.files]
      BY <2>1 DEF ExportsTypeOK, Worlds
    <3> QED BY <1>5, <3>1
  <2>2. CASE i = n /\ db' = [db EXCEPT !.files = Append(rest, g)]
    <3> DEFINE new == Append(rest, g)
    <3>1. /\ new \in Seq(File) /\ Len(new) = Len(rest) + 1 /\ new[Len(rest) + 1] = g
          /\ \A k \in 1..Len(rest) : new[k] = rest[k]
      BY <1>5, <1>g, AppendProperties
    <3>2. db'.files = new /\ db' = [db EXCEPT !.files = db'.files]
      BY <2>2 DEF ExportsTypeOK, Worlds
    <3> HIDE DEF new
    <3>3. Len(rest) \in Nat /\ Len(rest) + 1 <= FilesKept
      BY <1>1, <1>2, <1>5, <2>2
    <3>9. \A k \in 1..Len(new) : k \in 1..Len(rest) \/ k = Len(rest) + 1
      BY <3>1, <3>3
    <3>4. \A k \in 1..Len(new) : TrueFile(new[k], world)
      <4> SUFFICES ASSUME NEW k \in 1..Len(new) PROVE TrueFile(new[k], world)
        OBVIOUS
      <4>1. k \in 1..Len(rest) \/ k = Len(rest) + 1
        BY <3>9
      <4> QED BY <1>5, <1>g, <3>1, <4>1 DEF Sound
    <3>5. \A k \in 1..Len(rest) : InOrder(rest[k], g, world)
      <4> SUFFICES ASSUME NEW k \in 1..Len(rest) PROVE InOrder(rest[k], g, world)
        OBVIOUS
      <4>1. k + i \in n + 1..Len(old) /\ k + i \in 1..Len(old) /\ rest[k] = old[k + i]
        BY <1>2, <1>5, <2>2, <3>3
      <4>2. world.now - old[k + i].at <= Age /\ old[k + i].at <= world.now
        BY <1>1, <4>1 DEF Sound, TrueFile, old
      <4> QED BY <1>g, <4>1, <4>2 DEF InOrder, old
    <3>6. \A k, l \in 1..Len(new) : k < l => InOrder(new[k], new[l], world)
      <4> SUFFICES ASSUME NEW k \in 1..Len(new), NEW l \in 1..Len(new), k < l
                   PROVE  InOrder(new[k], new[l], world)
        OBVIOUS
      <4>1. k \in 1..Len(rest)
        BY <3>1, <3>3
      <4>2. CASE l \in 1..Len(rest)
        BY <1>5, <3>1, <4>1, <4>2 DEF Sound
      <4>3. CASE l = Len(rest) + 1
        BY <3>1, <3>5, <4>1, <4>3
      <4>4. l \in 1..Len(rest) \/ l = Len(rest) + 1
        BY <3>9
      <4> QED BY <4>2, <4>3, <4>4
    <3>7. Sound(new, world)
      BY <3>1, <3>3, <3>4, <3>6 DEF Sound
    <3>8. \A k \in 1..Len(new) : new[k] = g \/ \E l \in 1..Len(old) : new[k] = old[l]
      <4> SUFFICES ASSUME NEW k \in 1..Len(new), k # Len(rest) + 1
                   PROVE  \E l \in 1..Len(old) : new[k] = old[l]
        BY <3>1
      <4>1. k \in 1..Len(rest)
        BY <3>9
      <4>2. k + i \in 1..Len(old) /\ new[k] = old[k + i]
        BY <1>5, <3>1, <4>1
      <4> QED BY <4>2
    <3> QED BY <3>1, <3>2, <3>7, <3>8
  <2> QED BY <1>6, <2>1, <2>2 DEF rest, old, n
<1>8. ExportsTypeOK'
  BY <1>3, <1>7 DEF ExportsTypeOK, Worlds
<1>9. Sound(db.files, world)'
  BY <1>3, <1>7 DEF Sound, TrueFile, InOrder, Apart, IsOwnOf
<1>10. ASSUME Asking(w.host, db, world), ~file.own PROVE Asking(world.host, db, world)'
  <2>1. db'.stores = db.stores
    BY <1>7 DEF ExportsTypeOK, Worlds
  <2>2. \A k \in 1..Len(db'.files) : Apart(db'.files[k], w.host, world)
    BY <1>7, <1>10, <1>g DEF Asking, Apart
  <2> QED BY <1>3, <1>10, <2>1, <2>2 DEF Asking, Apart, IsOwnOf
<1>11. StoresAreOwn(db.stores)'
  BY <1>7 DEF ExportsTypeOK, StoresAreOwn, Exports!Stores
<1> QED BY <1>3, <1>8, <1>9, <1>10, <1>11 DEF ExportsInv

LEMMA IdleIsNobodys == Exports!Idle \in Question /\ Exports!Idle.about = Nobody
  BY DEF Exports!Idle, Question

LEMMA ExportsInitHolds == Exports!ExportsAssumption /\ Exports!Init => ExportsInv
<1> SUFFICES ASSUME Exports!ExportsAssumption, Exports!Init PROVE ExportsInv
  OBVIOUS
<1>1. FilesKept \in Nat /\ db.files = << >> /\ world.host = Exports!Idle
  BY DEF Exports!ExportsAssumption, Exports!Init
<1>2. ExportsTypeOK
  <2>1. db = [stores |-> [s \in Exports!Stores |-> {}], registry |-> Lifecycles, files |-> << >>]
    BY DEF Exports!Init
  <2>2. << >> \in Seq(File) /\ [s \in Exports!Stores |-> {}] \in [Exports!Stores -> SUBSET Known]
    OBVIOUS
  <2>3. [p \in People |-> 0] \in [People -> Nat]
    OBVIOUS
  <2> QED BY <2>1, <2>2, <2>3, IdleIsNobodys DEF ExportsTypeOK, Worlds, Exports!Init
<1>3. Sound(db.files, world) /\ StoresAreOwn(db.stores)
  BY <1>1 DEF Sound, StoresAreOwn, Exports!Init
<1> QED BY <1>1, <1>2, <1>3 DEF ExportsInv

\* What stays sound when the clock goes on or the bot is started.
LEMMA SoundLater ==
  ASSUME NEW files \in Seq(File), NEW w, NEW v, Sound(files, w),
         w.now \in Nat, v.now \in Nat, w.now <= v.now, v.start \in Nat, w.start \in Nat,
         w.cooled \in [People -> Nat], v.cooled \in [People -> Nat],
         \/ /\ v.start = w.start
            /\ \A p \in People : w.cooled[p] <= v.cooled[p] \/ w.now <= v.cooled[p]
         \/ v.start = w.now
  PROVE  Sound(files, v)
<1>1. \A i \in 1..Len(files) : files[i] \in File
  OBVIOUS
<1>2. \A i \in 1..Len(files) : TrueFile(files[i], v)
  <2> SUFFICES ASSUME NEW i \in 1..Len(files) PROVE TrueFile(files[i], v)
    OBVIOUS
  <2>1. TrueFile(files[i], w) /\ files[i] \in File
    BY <1>1 DEF Sound
  <2>2. files[i].about \in People /\ files[i].asked \in Nat /\ files[i].at \in Nat
    BY <2>1 DEF File
  <2>3. w.cooled[files[i].about] \in Nat /\ v.cooled[files[i].about] \in Nat
    BY <2>2
  <2>4. files[i].asked <= w.now /\ files[i].at <= w.now /\ (files[i].own => IsOwnOf(files[i], w))
    BY <2>1 DEF TrueFile
  <2>5. files[i].asked <= v.now /\ files[i].at <= v.now
    BY <2>2, <2>4
  <2>6. ASSUME files[i].own PROVE IsOwnOf(files[i], v)
    <3>1. files[i].asked >= 1 /\ (files[i].asked <= w.cooled[files[i].about] \/ w.start >= files[i].asked)
      BY <2>4, <2>6 DEF IsOwnOf
    <3>2. CASE v.start = w.now
      BY <2>4, <3>1, <3>2 DEF IsOwnOf
    <3>3. CASE v.start = w.start /\ (w.cooled[files[i].about] <= v.cooled[files[i].about]
                                    \/ w.now <= v.cooled[files[i].about])
      BY <2>2, <2>3, <2>4, <3>1, <3>3 DEF IsOwnOf
    <3> QED BY <2>2, <3>2, <3>3
  <2> QED BY <2>1, <2>5, <2>6 DEF TrueFile
<1>3. \A i, j \in 1..Len(files) : i < j => InOrder(files[i], files[j], v)
  <2> SUFFICES ASSUME NEW i \in 1..Len(files), NEW j \in 1..Len(files), i < j
               PROVE  InOrder(files[i], files[j], v)
    OBVIOUS
  <2>1. InOrder(files[i], files[j], w) /\ TrueFile(files[i], w) /\ files[i].asked \in Nat
    BY <1>1 DEF Sound, File
  <2>2. v.start >= w.start \/ v.start >= files[i].asked
    BY <2>1 DEF TrueFile
  <2> QED BY <2>1, <2>2 DEF InOrder, Apart
<1> QED BY <1>2, <1>3 DEF Sound

LEMMA LaterIsSound ==
  ASSUME ExportsTypeOK, ExportsTypeOK', Sound(db.files, world), db'.files = db.files,
         world.now <= world'.now,
         \/ /\ world'.start = world.start
            /\ \A p \in People : world.cooled[p] <= world'.cooled[p] \/ world.now <= world'.cooled[p]
         \/ world'.start = world.now
  PROVE  Sound(db.files, world)'
<1> SUFFICES Sound(db.files, world')
  BY DEF Sound, TrueFile, IsOwnOf, InOrder, Apart
<1> DEFINE v == world'
           u == world
<1>1. /\ u.now \in Nat /\ v.now \in Nat /\ u.now <= v.now /\ v.start \in Nat /\ u.start \in Nat
      /\ u.cooled \in [People -> Nat] /\ v.cooled \in [People -> Nat]
  BY DEF ExportsTypeOK, Worlds
<1>2. db.files \in Seq(File) /\ Sound(db.files, u)
  BY DEF ExportsTypeOK, Worlds
<1>3. \/ v.start = u.start /\ \A p \in People : u.cooled[p] <= v.cooled[p] \/ u.now <= v.cooled[p]
      \/ v.start = u.now
  OBVIOUS
<1> HIDE DEF u, v
<1>4. Sound(db.files, v)
  BY <1>1, <1>2, <1>3, SoundLater
<1> QED BY <1>4 DEF v

LEMMA CollectKeeps ==
  ASSUME Exports!ExportsAssumption, ExportsInv, NEW p \in People, NEW own \in BOOLEAN, NEW STATE w,
         Exports!Collect(p, own, w),
         IF own THEN ~Exports!CoolingDown(p) /\ w = [world EXCEPT !.cooled[p] = world.now]
         ELSE w = world
  PROVE  ExportsInv'
<1>1. /\ ExportsTypeOK /\ Sound(db.files, world) /\ world.host = Exports!Idle /\ UNCHANGED db
      /\ Gap \in Nat \ {0}
  BY DEF ExportsInv, Exports!Collect, Exports!ExportsAssumption
<1>13. StoresAreOwn(db.stores)'
  BY DEF ExportsInv, Exports!Collect, StoresAreOwn
<1> DEFINE asked == IF own THEN world.now ELSE 0
           h == [about |-> p, own |-> own, asked |-> asked, todo |-> world.loaded,
                 got |-> Exports!Told(p, db.stores[Host]),
                 before |-> Exports!AllAbout(p, db.registry \cup {Host})]
<1>2. world' = [w EXCEPT !.requests = @ + 1]
      \/ (Exports!NoneMissing /\ world' = [w EXCEPT !.requests = @ + 1, !.host = h])
  BY DEF Exports!Collect
<1>3. /\ w \in Worlds
      /\ w.now = world.now /\ w.start = world.start /\ w.host = world.host
      /\ w.loaded = world.loaded
  BY <1>1 DEF ExportsTypeOK, Worlds
<1>4. \A q \in People : w.cooled[q] = IF own /\ q = p THEN world.now ELSE world.cooled[q]
  BY <1>1 DEF ExportsTypeOK, Worlds
<1>5. \A s \in Exports!Stores : /\ Exports!About(p, db.stores[s]) = {f \in db.stores[s] : f.who = p}
                                /\ Exports!About(p, db.stores[s]) \in SUBSET Known
                                /\ Exports!Told(p, db.stores[s])
                                     = {f \in db.stores[s] : f.who = p /\ f.told}
                                /\ Exports!Told(p, db.stores[s]) \in SUBSET Known
  BY <1>1 DEF ExportsTypeOK, Worlds, Exports!About, Exports!Told
<1>6. db.registry \in SUBSET Lifecycles /\ Host \in Exports!Stores /\ Lifecycles \subseteq Exports!Stores
  BY <1>1 DEF ExportsTypeOK, Worlds, Exports!Stores
<1>7. h \in Question
  <2>1. asked \in Nat /\ world.loaded \in SUBSET Lifecycles
    BY <1>1 DEF ExportsTypeOK, Worlds
  <2>2. Exports!AllAbout(p, db.registry \cup {Host}) \in SUBSET Known
    BY <1>5, <1>6 DEF Exports!AllAbout
  <2> HIDE DEF asked
  <2> QED BY <1>5, <1>6, <2>1, <2>2 DEF Question
<1> HIDE DEF h
<1>8. /\ world'.now = world.now /\ world'.start = world.start /\ world'.cooled = w.cooled
      /\ world' \in Worlds
      /\ world'.host = Exports!Idle \/ (Exports!NoneMissing /\ world'.host = h)
  <2>1. world' = [w EXCEPT !.requests = @ + 1] \/ world' = [w EXCEPT !.requests = @ + 1, !.host = h]
    BY <1>2
  <2>2. world' \in Worlds
    <3>1. CASE world' = [w EXCEPT !.requests = @ + 1]
      BY <1>3, <1>7, <3>1, WorldUpdates
    <3>2. CASE world' = [w EXCEPT !.requests = @ + 1, !.host = h]
      BY <1>3, <1>7, <3>2, WorldUpdates
    <3> QED BY <2>1, <3>1, <3>2
  <2>3. world'.now = w.now /\ world'.start = w.start /\ world'.cooled = w.cooled
    BY <1>3, <2>1 DEF Worlds
  <2>4. world'.host = w.host \/ (world'.host = h /\ Exports!NoneMissing)
    <3>1. CASE world' = [w EXCEPT !.requests = @ + 1]
      <4>1. world'.host = w.host
        BY <1>3, <3>1 DEF Worlds
      <4> QED BY <4>1
    <3>2. CASE Exports!NoneMissing /\ world' = [w EXCEPT !.requests = @ + 1, !.host = h]
      <4>1. world'.host = h
        BY <1>3, <3>2 DEF Worlds
      <4> QED BY <3>2, <4>1
    <3> QED BY <1>2, <3>1, <3>2
  <2> QED BY <1>1, <1>3, <2>2, <2>3, <2>4
<1>9. ExportsTypeOK'
  BY <1>1, <1>8 DEF ExportsTypeOK, Worlds
<1>10. \A i \in 1..Len(db.files) : TrueFile(db.files[i], world) /\ db.files[i] \in File
  BY <1>1 DEF Sound, ExportsTypeOK, Worlds
<1>11. Sound(db.files, world)'
  <2>1. \A q \in People : world.cooled[q] <= world'.cooled[q] \/ world.now <= world'.cooled[q]
    <3>1. /\ world'.cooled = w.cooled /\ world.now \in Nat
          /\ \A q \in People : world.cooled[q] \in Nat
      BY <1>1, <1>8 DEF ExportsTypeOK, Worlds
    <3> QED BY <1>4, <3>1
  <2>2. world.now <= world'.now
    BY <1>1, <1>8 DEF ExportsTypeOK, Worlds
  <2> QED BY <1>1, <1>8, <1>9, <2>1, <2>2, LaterIsSound
<1>12. ASSUME Exports!NoneMissing, world'.host = h PROVE Asking(world.host, db, world)'
  <2>1. /\ h.about = p /\ h.own = own /\ h.asked = asked /\ h.todo = world.loaded
        /\ h.got = Exports!Told(p, db.stores[Host])
        /\ h.before = Exports!AllAbout(p, db.registry \cup {Host})
    BY DEF h
  <2>2. h.asked <= world'.now /\ (h.own => h.asked >= 1 /\ h.asked <= world'.cooled[h.about])
    BY <1>1, <1>4, <1>8, <2>1 DEF ExportsTypeOK, Worlds
  <2>3. \A f \in h.got \cup h.before : f.who = h.about
    BY <1>5, <1>6, <2>1 DEF Exports!AllAbout
  <2>4. \A f \in h.before : f.told => f \in h.got \/ \E m \in h.todo : f \in db.stores[m]
    <3> SUFFICES ASSUME NEW f \in h.before, f.told, f \notin h.got
                 PROVE  \E m \in world.loaded : f \in db.stores[m]
      BY <2>1
    <3>1. PICK m \in db.registry \cup {Host} : f \in Exports!About(p, db.stores[m])
      BY <2>1 DEF Exports!AllAbout
    <3>2. m \in world.loaded
      <4>1. f \in db.stores[m] /\ f.who = p
        BY <1>5, <1>6, <3>1
      <4>2. m # Host
        BY <1>5, <1>6, <2>1, <4>1
      <4> QED BY <1>12, <3>1, <4>2 DEF Exports!NoneMissing
    <3> QED BY <1>5, <1>6, <3>1, <3>2
  <2>5. \A i \in 1..Len(db.files) : Apart(db.files[i], h, world')
    <3> SUFFICES ASSUME NEW i \in 1..Len(db.files), db.files[i].own, h.own, db.files[i].about = p,
                        ~(world'.start >= db.files[i].asked)
                 PROVE  h.asked - db.files[i].asked >= Gap
      BY <2>1 DEF Apart
    <3>1. /\ db.files[i].asked \in Nat /\ db.files[i].asked >= 1
          /\ db.files[i].asked <= world.cooled[p]
      BY <1>8, <1>10 DEF TrueFile, IsOwnOf, File
    <3>2. world.cooled[p] \in Nat /\ world.now \in Nat /\ own /\ h.asked = world.now
      BY <1>1, <2>1 DEF ExportsTypeOK, Worlds
    <3>3. world.cooled[p] = 0 \/ ~(world.now - world.cooled[p] < Gap)
      BY <3>2 DEF Exports!CoolingDown
    <3> QED BY <1>1, <3>1, <3>2, <3>3
  <2> QED BY <1>1, <1>12, <2>1, <2>2, <2>3, <2>4, <2>5 DEF Asking, Apart, IsOwnOf
<1> QED BY <1>8, <1>9, <1>11, <1>12, <1>13 DEF ExportsInv

LEMMA ExportsStep ==
  ASSUME Exports!ExportsAssumption
  PROVE  ExportsInv /\ [Exports!Next]_(Exports!handlerVars) => ExportsInv'
<1> SUFFICES ASSUME ExportsInv, [Exports!Next]_(Exports!handlerVars) PROVE ExportsInv'
  OBVIOUS
<1>c. /\ Host \notin Lifecycles /\ Nobody \notin People /\ Gap \in Nat \ {0} /\ FilesKept \in Nat
  BY DEF Exports!ExportsAssumption
<1>t. /\ ExportsTypeOK /\ Sound(db.files, world) /\ StoresAreOwn(db.stores)
      /\ world.host # Exports!Idle => Asking(world.host, db, world)
  BY DEF ExportsInv
<1>d. /\ db = [stores |-> db.stores, registry |-> db.registry, files |-> db.files]
      /\ db.stores \in [Exports!Stores -> SUBSET Known] /\ db.registry \in SUBSET Lifecycles
      /\ db.files \in Seq(File) /\ Len(db.files) \in Nat
      /\ \A i \in 1..Len(db.files) : db.files[i] \in File
  BY <1>t DEF ExportsTypeOK, Worlds
<1>e. /\ world \in Worlds /\ Exports!Idle \in Question
      /\ world.now \in Nat /\ world.now >= 1 /\ world.loaded \in SUBSET Lifecycles
      /\ world.host \in Question /\ world.cooled \in [People -> Nat] /\ world.start \in Nat
      /\ world.facts \in Nat /\ world.requests \in Nat /\ world.mishaps \in Nat
  <2>1. world \in Worlds
    BY <1>t DEF ExportsTypeOK
  <2> QED BY <2>1, WorldFields, IdleIsNobodys
<1>f. db \in [stores : [Exports!Stores -> SUBSET Known], registry : SUBSET Lifecycles,
              files : Seq(File)]
  BY <1>t DEF ExportsTypeOK
<1>s. Lifecycles \subseteq Exports!Stores /\ Host \in Exports!Stores
  BY DEF Exports!Stores
<1>1. ASSUME NEW m \in Lifecycles, Exports!Ask(m) PROVE ExportsInv'
  <2> DEFINE h == world.host
  <2>1. h # Exports!Idle /\ m \in h.todo /\ UNCHANGED db
    BY <1>1 DEF Exports!Ask, Exports!Idle
  <2>2. CASE world' = [world EXCEPT !.host = Exports!Idle, !.mishaps = @ + 1]
    <3>1. ExportsTypeOK' /\ world'.host = Exports!Idle
      <4>1. world' \in Worlds /\ world'.host = Exports!Idle
        <5>1. world' \in Worlds
          BY <1>e, <2>2, WorldUpdates
        <5> QED BY <1>e, <2>2, <5>1 DEF Worlds
      <4> QED BY <1>f, <2>1, <4>1 DEF ExportsTypeOK
    <3>2. Sound(db.files, world)'
      BY <1>t, <2>1, <2>2 DEF ExportsTypeOK, Worlds, Sound, TrueFile, IsOwnOf, InOrder, Apart
    <3> QED BY <1>t, <2>1, <3>1, <3>2 DEF ExportsInv, StoresAreOwn
  <2>3. CASE world' = [world EXCEPT !.host.todo = @ \ {m},
                         !.host.got = @ \cup Exports!Told(h.about, db.stores[m])]
    <3> DEFINE g == Exports!Told(h.about, db.stores[m])
    <3>1. g = {f \in db.stores[m] : f.who = h.about /\ f.told} /\ g \in SUBSET Known
      BY <1>d, <1>s DEF Exports!Told, Exports!About
    <3> HIDE DEF g
    <3>2. h \in Question
      BY <1>t DEF ExportsTypeOK, Worlds
    <3>3. /\ world'.host = [h EXCEPT !.todo = @ \ {m}, !.got = @ \cup g]
          /\ world'.now = world.now /\ world'.start = world.start /\ world'.cooled = world.cooled
          /\ world' = [world EXCEPT !.host = world'.host]
      BY <1>t, <2>3 DEF ExportsTypeOK, Worlds, Question, g
    <3>4. world'.host \in Question
      BY <3>1, <3>2, <3>3 DEF Question
    <3>5. ExportsTypeOK'
      BY <1>t, <2>1, <3>3, <3>4 DEF ExportsTypeOK, Worlds
    <3>6. Sound(db.files, world)'
      BY <1>t, <2>1, <3>3 DEF Sound, TrueFile, IsOwnOf, InOrder, Apart
    <3>7. Asking(world.host, db, world)'
      <4>1. Asking(h, db, world)
        BY <1>t, <2>1
      <4>2. /\ world'.host.about = h.about /\ world'.host.own = h.own /\ world'.host.asked = h.asked
            /\ world'.host.before = h.before /\ world'.host.got = h.got \cup g
            /\ world'.host.todo = h.todo \ {m}
        BY <3>2, <3>3 DEF Question
      <4>3. \A f \in world'.host.got \cup world'.host.before : f.who = world'.host.about
        BY <3>1, <4>1, <4>2 DEF Asking
      <4>4. \A f \in world'.host.before :
              f.told => f \in world'.host.got \/ \E k \in world'.host.todo : f \in db.stores[k]
        <5> SUFFICES ASSUME NEW f \in h.before, f.told, f \notin world'.host.got
                     PROVE  \E k \in world'.host.todo : f \in db.stores[k]
          BY <4>2
        <5>1. PICK k \in h.todo : f \in db.stores[k]
          BY <4>1, <4>2 DEF Asking
        <5>2. k # m
          BY <3>1, <4>1, <4>2, <5>1 DEF Asking
        <5> QED BY <4>2, <5>1, <5>2
      <4> QED BY <2>1, <3>3, <4>1, <4>2, <4>3, <4>4 DEF Asking, Apart, IsOwnOf
    <3> QED BY <1>t, <2>1, <3>5, <3>6, <3>7 DEF ExportsInv, StoresAreOwn
  <2> QED BY <1>1, <2>2, <2>3 DEF Exports!Ask
<1>2. ASSUME NEW m \in Lifecycles, NEW p \in People, Exports!Handle(m, p) PROVE ExportsInv'
  <2>1. PICK s \in {m, Host}, told \in BOOLEAN :
          db' = [db EXCEPT !.stores[s] =
                   @ \cup {[who |-> p, of |-> s, n |-> world.facts + 1, told |-> told]}]
    BY <1>2 DEF Exports!Handle
  <2>2. world' = [world EXCEPT !.facts = @ + 1]
    BY <1>2 DEF Exports!Handle
  <2> DEFINE fact == [who |-> p, of |-> s, n |-> world.facts + 1, told |-> told]
  <2>3. fact \in Known /\ fact.of = s
    BY <1>e, <1>s DEF Known
  <2> HIDE DEF fact
  <2>4. s \in Exports!Stores
    BY <1>s
  <2>5. /\ db'.files = db.files /\ db'.registry = db.registry
        /\ db'.stores = [db.stores EXCEPT ![s] = @ \cup {fact}]
        /\ db' = [stores |-> db'.stores, registry |-> db.registry, files |-> db.files]
    BY <1>d, <2>1 DEF fact
  <2>6. /\ db'.stores \in [Exports!Stores -> SUBSET Known]
        /\ \A k \in Exports!Stores : db.stores[k] \subseteq db'.stores[k]
    BY <1>d, <2>3, <2>4, <2>5
  <2>11. StoresAreOwn(db.stores)'
    <3> SUFFICES StoresAreOwn(db'.stores)
      BY DEF StoresAreOwn, Exports!Stores
    <3> QED BY <1>d, <1>t, <2>3, <2>4, <2>5 DEF StoresAreOwn
  <2>7. ExportsTypeOK'
    <3>1. world' \in Worlds
      BY <1>e, <2>2 DEF Worlds
    <3> QED BY <1>d, <2>5, <2>6, <3>1 DEF ExportsTypeOK
  <2>8. /\ world'.host = world.host /\ world'.now = world.now /\ world'.start = world.start
        /\ world'.cooled = world.cooled
    BY <1>t, <2>2 DEF ExportsTypeOK, Worlds
  <2>9. Sound(db.files, world)'
    BY <1>t, <2>5, <2>8 DEF Sound, TrueFile, IsOwnOf, InOrder, Apart
  <2>10. ASSUME Asking(world.host, db, world) PROVE Asking(world.host, db, world)'
    <3>1. world.host.todo \subseteq Exports!Stores
      BY <1>s, <1>t DEF ExportsTypeOK, Worlds, Question
    <3>2. \A f \in world.host.before :
            f.told => f \in world.host.got \/ \E k \in world.host.todo : f \in db'.stores[k]
      BY <2>6, <2>10, <3>1 DEF Asking
    <3> QED BY <2>5, <2>8, <2>10, <3>2 DEF Asking, Apart, IsOwnOf
  <2> QED BY <1>t, <2>7, <2>8, <2>9, <2>10, <2>11 DEF ExportsInv
<1>3. ASSUME NEW p \in People, Exports!RequestOwn(p) PROVE ExportsInv'
  BY <1>3, CollectKeeps DEF Exports!RequestOwn
<1>4. ASSUME NEW p \in People, Exports!RequestOf(p) PROVE ExportsInv'
  BY <1>4, CollectKeeps DEF Exports!RequestOf
<1>5. ASSUME NEW p \in People, Exports!ExportOffline(p) PROVE ExportsInv'
  <2> DEFINE told == Exports!Told(p, db.stores[Host])
             before == Exports!AllAbout(p, db.registry \cup {Host})
             file == [about |-> p, own |-> FALSE, asked |-> 0, at |-> world.now,
                      offline |-> TRUE, whole |-> TRUE, whose |-> {f.who : f \in told},
                      missing |-> before \ told]
             w == [world EXCEPT !.requests = @ + 1]
  <2>1. Exports!Write(file, w)
    BY <1>5 DEF Exports!ExportOffline
  <2>2. told = {f \in db.stores[Host] : f.who = p /\ f.told} /\ told \in SUBSET Known
    BY <1>d, <1>s DEF Exports!About, Exports!Told
  <2>7. before \in SUBSET Known /\ \A f \in before \ told : f.told => f.of # Host
    <3> SUFFICES ASSUME NEW f \in before
                 PROVE  f \in Known /\ (f \notin told /\ f.told => f.of # Host)
      OBVIOUS
    <3>1. PICK s \in db.registry \cup {Host} : f \in Exports!About(p, db.stores[s])
      BY DEF Exports!AllAbout
    <3>2. s \in Exports!Stores /\ f \in db.stores[s] /\ f.who = p /\ f.of = s
      BY <1>d, <1>s, <1>t, <3>1 DEF Exports!About, StoresAreOwn
    <3>3. f \in Known
      BY <1>d, <3>2
    <3> QED BY <2>2, <3>2, <3>3
  <2> HIDE DEF told, before
  <2>3. {f.who : f \in told} \in SUBSET People /\ {f.who : f \in told} \subseteq {p}
    BY <2>2
  <2>4. /\ file \in File /\ TrueFile(file, world) /\ file.at = world.now /\ ~file.own
        /\ file.whole = TRUE
    <3>1. /\ file.about = p /\ file.own = FALSE /\ file.asked = 0 /\ file.at = world.now
          /\ file.offline = TRUE /\ file.whole = TRUE /\ file.whose = {f.who : f \in told}
          /\ file.missing = before \ told
      OBVIOUS
    <3>2. file \in File
      <4>1. before \ told \in SUBSET Known
        BY <2>7
      <4> QED BY <1>e, <2>3, <4>1 DEF File
    <3> HIDE DEF file
    <3>3. TrueFile(file, world)
      BY <1>e, <2>3, <2>7, <3>1 DEF TrueFile
    <3> QED BY <3>1, <3>2, <3>3
  <2>5. /\ w.now = world.now /\ w.start = world.start /\ w.cooled = world.cooled
        /\ w.host = world.host
        /\ w \in Worlds
    BY <1>e DEF Worlds
  <2> HIDE DEF file, w
  <2>6. \A i \in 1..Len(db.files) : Apart(db.files[i], file, world)
    BY <2>4 DEF Apart
  <2> QED BY <1>t, <2>1, <2>4, <2>5, <2>6, WriteKeeps
<1>6. ASSUME NEW p \in People, Exports!Erase(p) PROVE ExportsInv'
  <2>1. /\ world' = world /\ world.host = Exports!Idle
        /\ db' = [db EXCEPT !.stores = [s \in Exports!Stores |-> @[s] \ Exports!About(p, @[s])]]
    BY <1>6 DEF Exports!Erase
  <2>2. [s \in Exports!Stores |-> db.stores[s] \ Exports!About(p, db.stores[s])]
          \in [Exports!Stores -> SUBSET Known]
    BY <1>d
  <2>3. db'.files = db.files /\ ExportsTypeOK'
    BY <1>t, <2>1, <2>2 DEF ExportsTypeOK, Worlds
  <2>4. StoresAreOwn(db.stores)'
    <3> SUFFICES StoresAreOwn(db'.stores)
      BY DEF StoresAreOwn, Exports!Stores
    <3>1. db'.stores = [s \in Exports!Stores |-> db.stores[s] \ Exports!About(p, db.stores[s])]
      BY <1>d, <2>1
    <3> QED BY <1>t, <3>1 DEF StoresAreOwn
  <2> QED BY <1>t, <2>1, <2>3, <2>4 DEF ExportsInv, Sound, TrueFile, IsOwnOf, InOrder, Apart
<1>7. ASSUME Exports!Finish PROVE ExportsInv'
  <2> DEFINE h == world.host
             file == [about |-> h.about, own |-> h.own, asked |-> h.asked, at |-> world.now,
                      offline |-> FALSE, whole |-> TRUE,
                      whose |-> {f.who : f \in h.got}, missing |-> h.before \ h.got]
             w == [world EXCEPT !.host = Exports!Idle]
  <2>1. h # Exports!Idle /\ h.todo = {} /\ Exports!Write(file, w)
    BY <1>7 DEF Exports!Finish
  <2>2. Asking(h, db, world) /\ h \in Question
    BY <1>t, <2>1 DEF ExportsTypeOK, Worlds
  <2>3. /\ \A f \in h.before \ h.got : ~f.told
        /\ {f.who : f \in h.got} \subseteq {h.about}
        /\ h.before \in SUBSET Known
    BY <2>1, <2>2 DEF Asking, Question
  <2>4. /\ h.about \in People /\ h.own \in BOOLEAN /\ h.asked \in Nat /\ world.now \in Nat
        /\ h.asked <= world.now /\ (h.own => IsOwnOf(h, world))
    BY <1>t, <2>2 DEF Asking, Question, ExportsTypeOK, Worlds
  <2>5. /\ file.about = h.about /\ file.own = h.own /\ file.asked = h.asked /\ file.at = world.now
        /\ file.whose = {f.who : f \in h.got} /\ file.missing = h.before \ h.got
        /\ file.whole = TRUE
    OBVIOUS
  <2>6. file \in File
    BY <2>3, <2>4 DEF File
  <2>7. /\ w.now = world.now /\ w.start = world.start /\ w.cooled = world.cooled
        /\ w.host = Exports!Idle
        /\ w \in Worlds
    BY <1>t, IdleIsNobodys DEF ExportsTypeOK, Worlds
  <2> HIDE DEF file, w
  <2>8. TrueFile(file, world)
    BY <2>3, <2>4, <2>5 DEF TrueFile, IsOwnOf
  <2>9. \A i \in 1..Len(db.files) : Apart(db.files[i], file, world)
    BY <2>2, <2>5 DEF Asking, Apart
  <2> QED BY <1>t, <2>1, <2>5, <2>6, <2>7, <2>8, <2>9, WriteKeeps
<1>8. ASSUME NEW modules \in SUBSET Lifecycles, NEW restart \in BOOLEAN,
             Exports!Reload(modules, restart)
      PROVE  ExportsInv'
  <2> DEFINE none == [p \in People |-> 0]
  <2>1. /\ world' = [world EXCEPT !.loaded = modules, !.host = Exports!Idle, !.mishaps = @ + 1,
                       !.start = IF restart THEN world.now ELSE @,
                       !.cooled = IF restart THEN none ELSE @]
        /\ db' = [db EXCEPT !.registry = @ \cup modules]
    BY <1>8 DEF Exports!Reload
  <2>2. none \in [People -> Nat]
    OBVIOUS
  <2> HIDE DEF none
  <2>3. /\ ExportsTypeOK' /\ db'.files = db.files /\ world'.host = Exports!Idle
        /\ world'.now = world.now
        /\ \/ world'.start = world.start /\ world'.cooled = world.cooled
           \/ world'.start = world.now
    <3> DEFINE cooled == IF restart THEN none ELSE world.cooled
               start == IF restart THEN world.now ELSE world.start
    <3>a. cooled \in [People -> Nat] /\ start \in Nat
      BY <1>e, <2>2
    <3>b. world' = [now |-> world.now, loaded |-> modules, host |-> Exports!Idle,
                    cooled |-> cooled, start |-> start, facts |-> world.facts,
                    requests |-> world.requests, mishaps |-> world.mishaps + 1]
      BY <1>e, <2>1 DEF Worlds
    <3> HIDE DEF cooled, start
    <3>1. /\ world' \in Worlds /\ world'.host = Exports!Idle /\ world'.now = world.now
          /\ world'.start = start /\ world'.cooled = cooled
      BY <1>e, <3>a, <3>b DEF Worlds
    <3>2. /\ db'.files = db.files
          /\ db' \in [stores : [Exports!Stores -> SUBSET Known], registry : SUBSET Lifecycles,
                      files : Seq(File)]
      BY <1>f, <2>1
    <3> QED BY <3>1, <3>2 DEF ExportsTypeOK, cooled, start
  <2>4. Sound(db.files, world)'
    BY <1>c, <1>t, <2>3, LaterIsSound DEF ExportsTypeOK, Worlds
  <2>5. StoresAreOwn(db.stores)'
    <3>1. db'.stores = db.stores
      BY <1>d, <2>1
    <3> QED BY <1>t, <3>1 DEF StoresAreOwn, Exports!Stores
  <2> QED BY <2>3, <2>4, <2>5 DEF ExportsInv
<1>9. ASSUME Exports!TimePasses PROVE ExportsInv'
  <2>1. world' = [world EXCEPT !.now = @ + 1] /\ UNCHANGED db
    BY <1>9 DEF Exports!TimePasses
  <2>2. /\ ExportsTypeOK' /\ world'.now = world.now + 1 /\ world'.start = world.start
        /\ world'.cooled = world.cooled /\ world'.host = world.host /\ world.now \in Nat
    <3>1. /\ world' \in Worlds /\ world'.now = world.now + 1 /\ world'.start = world.start
          /\ world'.cooled = world.cooled /\ world'.host = world.host
      BY <1>e, <2>1 DEF Worlds
    <3> QED BY <1>e, <1>f, <2>1, <3>1 DEF ExportsTypeOK
  <2>3. Sound(db.files, world)'
    <3>1. \A p \in People : world.cooled[p] <= world'.cooled[p]
      BY <1>e, <2>2
    <3> QED BY <1>t, <2>1, <2>2, <3>1, LaterIsSound
  <2>4. ASSUME Asking(world.host, db, world) PROVE Asking(world.host, db, world)'
    <3>1. world.host.asked \in Nat
      BY <1>t DEF ExportsTypeOK, Worlds, Question
    <3> QED BY <2>1, <2>2, <2>4, <3>1 DEF Asking, Apart, IsOwnOf
  <2>5. StoresAreOwn(db.stores)'
    BY <1>t, <2>1 DEF StoresAreOwn
  <2> QED BY <1>t, <2>2, <2>3, <2>4, <2>5 DEF ExportsInv
<1>10. ASSUME UNCHANGED Exports!handlerVars PROVE ExportsInv'
  <2>1. db' = db /\ world' = world
    BY <1>10 DEF Exports!handlerVars
  <2> QED BY <1>t, <2>1 DEF ExportsInv, ExportsTypeOK, Worlds, Sound, TrueFile, IsOwnOf, InOrder, Apart, Asking,
                                    StoresAreOwn
<1> QED BY <1>1, <1>2, <1>3, <1>4, <1>5, <1>6, <1>7, <1>8, <1>9, <1>10 DEF Exports!Next

\* "Exports fail rather than silently omit a known module" (SPEC.md), seven days and a hundred
\* files (PLAN.md), a minute between a person's own: every file that was written to its end
\* tells all that its makers tell and that was stored when it was asked for, however many
\* workers go on storing meanwhile; one made beside the bot misses the modules' facts, and no
\* more (collect_full_export, export_profile, prune_exports, handle_mydata).  What a module
\* leaves out of its export on purpose is missing.
THEOREM ExportsStayTrue ==
  ASSUME Exports!ExportsAssumption
  PROVE  Exports!Spec => []Exports!ExportsAreTrue
<1>1. Exports!Init => ExportsInv
  BY ExportsInitHolds
<1>2. ExportsInv /\ [Exports!Next]_(Exports!handlerVars) => ExportsInv'
  BY ExportsStep
<1>3. ExportsInv => Exports!ExportsAreTrue
  <2> SUFFICES ASSUME ExportsInv PROVE Exports!ExportsAreTrue
    OBVIOUS
  <2>1. Sound(db.files, world) /\ DOMAIN db.files = 1..Len(db.files)
    BY DEF ExportsInv, ExportsTypeOK, Worlds
  <2>2. Exports!FilesTellAll
    BY <2>1 DEF Exports!FilesTellAll, Sound, TrueFile
  <2>3. Exports!FilesArePruned
    BY <2>1 DEF Exports!FilesArePruned, Sound, InOrder
  <2>4. Exports!OwnAreApart
    BY <2>1 DEF Exports!OwnAreApart, Sound, InOrder, Apart
  <2> QED BY <2>2, <2>3, <2>4 DEF Exports!ExportsAreTrue
<1> QED BY <1>1, <1>2, <1>3, PTL DEF Exports!Spec

=============================================================================
