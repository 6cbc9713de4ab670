-------------------------- MODULE ModuleHostProofs --------------------------
(***************************************************************************)
(* Theorems about the module host: whatever is loaded, reloaded, full or   *)
(* failing, a delivery of the scheduler is in one place until it is        *)
(* answered, and nothing accepted stands behind a worker's Shutdown.       *)
(***************************************************************************)
EXTENDS ModuleHost, TLAPS

Indices == Modules \X Generations

(* The deliveries of a queue, of a worker, and all of one id.  A worker is *)
(* where its queue and its call are.                                       *)
InQueue(q, id)    == \E i \in DOMAIN q : Delivers(q[i], id)
OnceIn(q, id)     == \A i, j \in DOMAIN q : Delivers(q[i], id) /\ Delivers(q[j], id) => i = j
InWorker(r, id)   == InQueue(r.q, id) \/ Delivers(r.doing, id)
OnceWithin(r, id) == OnceIn(r.q, id) /\ ~(InQueue(r.q, id) /\ Delivers(r.doing, id))

(* With q the module thread's queue, f the workers and a its answer, a     *)
(* delivery is in one place if it is open and nowhere if not.              *)
HeldBy(q, f, a, id) ==
    /\ OnceIn(q, id)
    /\ \A w \in Indices : OnceWithin(f[w], id)
    /\ \A w \in Indices : ~(InQueue(q, id) /\ InWorker(f[w], id))
    /\ \A v, w \in Indices : InWorker(f[v], id) /\ InWorker(f[w], id) => v = w
    /\ (InQueue(q, id) \/ \E w \in Indices : InWorker(f[w], id)) <=> a = "open"

Held == \A id \in Items : HeldBy(hostq, inst, answered[id], id)

(* Items not taken yet have no answer.                                     *)
NotYet == \A id \in Items : id > budget.items => answered[id] = "none"

(* What a worker that is not running holds, or one that is yet to start.   *)
IdleIsEmpty == \A w \in Indices : inst[w].phase = "idle" => inst[w].doing = NoMessage

ToStart(m, g) == g > host.gen \/ (g = host.gen /\ host.pc = "loading" /\ m \in host.left)

Fresh == \A m \in Modules, g \in Generations : ToStart(m, g) => inst[<<m, g>>] = NotStarted

(* The list of workers is of the generation loaded last.                   *)
ListIsCurrent ==
    /\ host.pc \in {"sending", "waiting"} => host.msg.kind = "admin"
    /\ \A m \in Modules :
          /\ host.loaded[m] \in {0, host.gen}
          /\ IF host.pc = "loading" THEN workers[m] < host.gen ELSE workers[m] \in {0, host.gen}

(* Who was told to stop is not in the list, and gets captures only.        *)
HasShutdown(q)    == \E i \in DOMAIN q : q[i] = Shutdown
ShutdownIsLast(q) == \A i, j \in DOMAIN q : q[i] = Shutdown /\ i < j => q[j].kind = "capture"

Retired ==
    \A m \in Modules, g \in Generations :
        /\ HasShutdown(inst[<<m, g>>].q) => g < host.gen /\ workers[m] # g
        /\ ShutdownIsLast(inst[<<m, g>>].q)

(* With TypeOK, the inductive invariant.                                   *)
Promised == Held /\ NotYet /\ IdleIsEmpty /\ Fresh /\ ListIsCurrent /\ Retired

-----------------------------------------------------------------------------
(* What the operators return.                                              *)

LEMMA Bounds ==
    /\ MaxItems \in Nat /\ MaxTroubles \in Nat /\ HostQueue \in Nat \ {0} /\ WorkerQueue \in Nat \ {0}
    /\ MaxGens \in Nat /\ 1 \in Generations
    /\ \A g \in Generations : g \in Nat /\ g > 0 /\ g \in 0 .. MaxGens
    /\ \A g \in 0 .. MaxGens : g # 0 => g \in Generations
    /\ \A g \in Generations : g < MaxGens => g + 1 \in Generations
BY QueueAssumption DEF MaxGens, Generations

LEMMA MessageType ==
    ASSUME NEW kind \in Kinds, NEW id \in 0 .. MaxItems, NEW target \in Modules \cup {NoModule},
           NEW source \in 0 .. MaxGens
    PROVE  Message(kind, id, target, source) \in Messages
BY DEF Message, Messages

LEMMA PlainMessages ==
    /\ Reload \in Messages /\ Shutdown \in Messages /\ NoMessage \in Messages
    /\ NoMessage = Shutdown /\ Reload # Shutdown
    /\ Reload.kind = "reload" /\ Shutdown.kind = "shutdown"
<1>1. /\ {"reload", "shutdown"} \subseteq Kinds /\ 0 \in 0 .. MaxItems /\ 0 \in 0 .. MaxGens
      /\ NoModule \in Modules \cup {NoModule}
  BY Bounds DEF Kinds
<1>2. Reload \in Messages /\ Shutdown \in Messages /\ NoMessage \in Messages
  BY <1>1, MessageType DEF Reload, Shutdown, NoMessage
<1>3. Reload.kind = "reload" /\ Shutdown.kind = "shutdown" /\ NoMessage = Shutdown
  BY DEF Reload, Shutdown, NoMessage, Message
<1> QED
  BY <1>2, <1>3

LEMMA NobodyIsNoIndex ==
    Nobody \notin Indices
BY QueueAssumption DEF Nobody, Indices

LEMMA RecordTypes ==
    /\ NotStarted \in WorkerRecords /\ Gone \in WorkerRecords
    /\ \A v \in Versions : Started(v) \in WorkerRecords
    /\ NotStarted.q = <<>> /\ Gone.q = <<>> /\ \A v : Started(v).q = <<>>
    /\ NotStarted.doing = NoMessage /\ Gone.doing = NoMessage /\ \A v : Started(v).doing = NoMessage
    /\ NotStarted.state = "none" /\ NotStarted.phase = "idle"
    /\ Gone.state = "stopped" /\ \A v : Started(v).state = "running"
<1>1. <<>> \in Queues(WorkerQueue) /\ "idle" \in Phases /\ Absent \in Versions \cup {Absent}
  BY Bounds DEF Queues, Phases
<1>2. NotStarted \in WorkerRecords
  BY <1>1, PlainMessages DEF NotStarted, WorkerRecords
<1>3. Gone \in WorkerRecords /\ \A v \in Versions : Started(v) \in WorkerRecords
  BY <1>2 DEF Gone, Started, WorkerRecords
<1> QED
  BY <1>2, <1>3 DEF NotStarted, Gone, Started

LEMMA QueueTypes ==
    ASSUME NEW size \in Nat, NEW q \in Queues(size)
    PROVE  /\ q \in Seq(Messages)
           /\ q # <<>> => Head(q) \in Messages /\ Tail(q) \in Queues(size)
           /\ \A msg \in Messages : Len(q) < size => Append(q, msg) \in Queues(size)
BY DEF Queues

LEMMA PutType ==
    ASSUME NEW r \in WorkerRecords, NEW msg \in Messages, Len(r.q) < WorkerQueue
    PROVE  /\ Put(r, msg) \in WorkerRecords
           /\ Put(r, msg).q = Append(r.q, msg) /\ Put(r, msg).doing = r.doing
           /\ Put(r, msg).state = r.state /\ Put(r, msg).phase = r.phase
           /\ Put(r, msg).asked = r.asked
<1>1. r.q \in Queues(WorkerQueue) /\ WorkerQueue \in Nat
  BY Bounds DEF WorkerRecords
<1>2. Append(r.q, msg) \in Queues(WorkerQueue)
  BY <1>1, QueueTypes
<1> QED
  BY <1>2 DEF Put, WorkerRecords

LEMMA RecordParts ==
    ASSUME NEW r \in WorkerRecords
    PROVE  /\ r.q \in Queues(WorkerQueue) /\ r.q \in Seq(Messages) /\ r.doing \in Messages
           /\ r.phase \in Phases /\ r.asked \in Indices \cup {Nobody}
BY DEF WorkerRecords, Queues, Indices

-----------------------------------------------------------------------------
(* Queues and workers as holders of deliveries.                            *)

LEMMA AppendedQueue ==
    ASSUME NEW q \in Seq(Messages), NEW msg \in Messages, NEW id
    PROVE  /\ InQueue(Append(q, msg), id) <=> InQueue(q, id) \/ Delivers(msg, id)
           /\ OnceIn(q, id) /\ ~(InQueue(q, id) /\ Delivers(msg, id)) => OnceIn(Append(q, msg), id)
           /\ HasShutdown(Append(q, msg)) => HasShutdown(q) \/ msg = Shutdown
           /\ ShutdownIsLast(q) /\ (HasShutdown(q) => msg.kind = "capture")
                => ShutdownIsLast(Append(q, msg))
<1> DEFINE a == Append(q, msg)
<1>1. /\ Len(q) \in Nat /\ DOMAIN q = 1 .. Len(q) /\ DOMAIN a = 1 .. Len(q) + 1
      /\ a[Len(q) + 1] = msg /\ \A i \in 1 .. Len(q) : a[i] = q[i]
  OBVIOUS
<1>2. \A i \in DOMAIN a : (i \in DOMAIN q /\ a[i] = q[i]) \/ (i = Len(q) + 1 /\ a[i] = msg)
  BY <1>1
<1>3. \A i \in DOMAIN q : i \in DOMAIN a /\ a[i] = q[i] /\ i # Len(q) + 1
  BY <1>1
<1>4. Len(q) + 1 \in DOMAIN a
  BY <1>1
<1> HIDE DEF a
<1>5. InQueue(a, id) <=> InQueue(q, id) \/ Delivers(msg, id)
  BY <1>1, <1>2, <1>3, <1>4 DEF InQueue
<1>6. OnceIn(q, id) /\ ~(InQueue(q, id) /\ Delivers(msg, id)) => OnceIn(a, id)
  BY <1>2 DEF InQueue, OnceIn
<1>7. HasShutdown(a) => HasShutdown(q) \/ msg = Shutdown
  BY <1>2 DEF HasShutdown
<1>8. ASSUME ShutdownIsLast(q), HasShutdown(q) => msg.kind = "capture",
             NEW i \in DOMAIN a, NEW j \in DOMAIN a, a[i] = Shutdown, i < j
      PROVE  a[j].kind = "capture"
  <2>1. i \in DOMAIN q /\ a[i] = q[i]
    BY <1>1, <1>2, <1>8
  <2>2. CASE j \in DOMAIN q
    BY <1>3, <1>8, <2>1, <2>2 DEF ShutdownIsLast
  <2>3. CASE j = Len(q) + 1
    BY <1>1, <1>8, <2>1, <2>3 DEF HasShutdown
  <2> QED
    BY <1>2, <2>2, <2>3
<1>9. ShutdownIsLast(q) /\ (HasShutdown(q) => msg.kind = "capture") => ShutdownIsLast(a)
  BY <1>8 DEF ShutdownIsLast
<1> QED
  BY <1>5, <1>6, <1>7, <1>9 DEF a

LEMMA TakenFromQueue ==
    ASSUME NEW q \in Seq(Messages), q # <<>>, NEW id
    PROVE  /\ InQueue(q, id) <=> InQueue(Tail(q), id) \/ Delivers(Head(q), id)
           /\ OnceIn(q, id) => OnceIn(Tail(q), id) /\ ~(InQueue(Tail(q), id) /\ Delivers(Head(q), id))
           /\ HasShutdown(Tail(q)) => HasShutdown(q)
           /\ ShutdownIsLast(q) => ShutdownIsLast(Tail(q))
           /\ ShutdownIsLast(q) /\ Head(q) = Shutdown => ~InQueue(q, id)
<1> DEFINE t == Tail(q)
<1>1. /\ Len(q) \in Nat /\ Len(q) > 0 /\ DOMAIN q = 1 .. Len(q) /\ DOMAIN t = 1 .. Len(q) - 1
      /\ Head(q) = q[1] /\ \A i \in 1 .. Len(q) - 1 : t[i] = q[i + 1]
  OBVIOUS
<1>2. \A i \in DOMAIN t : i \in Nat /\ i + 1 \in DOMAIN q /\ i + 1 # 1 /\ t[i] = q[i + 1]
  BY <1>1
<1>3. \A i \in DOMAIN q : i \in Nat /\ (i = 1 \/ (i - 1 \in DOMAIN t /\ t[i - 1] = q[i] /\ 1 < i))
  BY <1>1
<1>4. 1 \in DOMAIN q /\ Head(q) = q[1]
  BY <1>1
<1> HIDE DEF t
<1>5. InQueue(q, id) <=> InQueue(t, id) \/ Delivers(Head(q), id)
  BY <1>2, <1>3, <1>4 DEF InQueue
<1>6. OnceIn(q, id) => ~(InQueue(t, id) /\ Delivers(Head(q), id))
  BY <1>2, <1>4 DEF InQueue, OnceIn
<1>7. OnceIn(q, id) => OnceIn(t, id)
  BY <1>2 DEF OnceIn
<1>8. HasShutdown(t) => HasShutdown(q)
  BY <1>2 DEF HasShutdown
<1>9. ShutdownIsLast(q) => ShutdownIsLast(t)
  <2> SUFFICES ASSUME ShutdownIsLast(q), NEW i \in DOMAIN t, NEW j \in DOMAIN t, t[i] = Shutdown, i < j
               PROVE  t[j].kind = "capture"
    BY DEF ShutdownIsLast
  <2> QED
    BY <1>2 DEF ShutdownIsLast
<1>10. ShutdownIsLast(q) /\ Head(q) = Shutdown => ~InQueue(q, id)
  <2> SUFFICES ASSUME ShutdownIsLast(q), q[1] = Shutdown, NEW i \in DOMAIN q, Delivers(q[i], id)
               PROVE  FALSE
    BY <1>4 DEF InQueue
  <2>1. q[i].kind = "scheduled" /\ Shutdown.kind = "shutdown"
    BY DEF Delivers, Shutdown, Message
  <2>2. i # 1 /\ 1 < i
    BY <1>3, <2>1
  <2> QED
    BY <1>4, <2>1, <2>2 DEF ShutdownIsLast
<1> QED
  BY <1>5, <1>6, <1>7, <1>8, <1>9, <1>10 DEF t

LEMMA EmptyQueue ==
    ASSUME NEW id
    PROVE  ~InQueue(<<>>, id) /\ OnceIn(<<>>, id) /\ ~HasShutdown(<<>>) /\ ShutdownIsLast(<<>>)
BY DEF InQueue, OnceIn, HasShutdown, ShutdownIsLast

(* A worker that is changed without taking, getting or answering any.      *)
Alike(r, s) ==
    \A id \in Items : /\ InWorker(s, id) <=> InWorker(r, id)
                      /\ OnceWithin(r, id) => OnceWithin(s, id)

LEMMA SameQueueAndCall ==
    ASSUME NEW r, NEW s, s.q = r.q, s.doing = r.doing
    PROVE  Alike(r, s)
BY DEF Alike, InWorker, OnceWithin

LEMMA PutOther ==
    ASSUME NEW r \in WorkerRecords, NEW msg \in Messages, Len(r.q) < WorkerQueue,
           msg.kind # "scheduled"
    PROVE  Alike(r, Put(r, msg))
<1> SUFFICES ASSUME NEW id \in Items
             PROVE  /\ InWorker(Put(r, msg), id) <=> InWorker(r, id)
                    /\ OnceWithin(r, id) => OnceWithin(Put(r, msg), id)
  BY DEF Alike
<1>1. r.q \in Seq(Messages) /\ Put(r, msg).q = Append(r.q, msg) /\ Put(r, msg).doing = r.doing
  BY PutType, RecordParts
<1>2. ~Delivers(msg, id)
  BY DEF Delivers
<1> QED
  BY <1>1, <1>2, AppendedQueue DEF InWorker, OnceWithin

LEMMA EmptyWorker ==
    ASSUME NEW r, r.q = <<>>, r.doing = NoMessage, NEW id
    PROVE  ~InWorker(r, id) /\ OnceWithin(r, id)
BY EmptyQueue DEF InWorker, OnceWithin, Delivers, NoMessage, Message

-----------------------------------------------------------------------------
(* Every value stays in its set.                                           *)

Taken(r)    == [r EXCEPT !.q = Tail(@), !.doing = Head(r.q), !.phase = "call"]
Asking(r, a) == [r EXCEPT !.phase = "asking", !.asked = a]
Waiting(r)  == [r EXCEPT !.phase = "waiting"]
Called(r)   == [r EXCEPT !.phase = "called", !.asked = Nobody]

LEMMA WorkerMoves ==
    ASSUME NEW r \in WorkerRecords
    PROVE  /\ r.q # <<>> => /\ Taken(r) \in WorkerRecords /\ Taken(r).q = Tail(r.q)
                            /\ Taken(r).doing = Head(r.q) /\ Taken(r).phase = "call"
           /\ \A a \in Indices : /\ Asking(r, a) \in WorkerRecords /\ Asking(r, a).q = r.q
                                 /\ Asking(r, a).doing = r.doing /\ Asking(r, a).phase = "asking"
           /\ Waiting(r) \in WorkerRecords /\ Waiting(r).q = r.q /\ Waiting(r).doing = r.doing
           /\ Waiting(r).phase = "waiting"
           /\ Called(r) \in WorkerRecords /\ Called(r).q = r.q /\ Called(r).doing = r.doing
           /\ Called(r).phase = "called"
           /\ Done(r) \in WorkerRecords /\ Done(r).q = r.q /\ Done(r).doing = NoMessage
<1>1. Phases = {"idle", "call", "asking", "waiting", "called"} /\ NoMessage \in Messages
  BY PlainMessages DEF Phases
<1>2. ASSUME r.q # <<>>
      PROVE  Head(r.q) \in Messages /\ Tail(r.q) \in Queues(WorkerQueue)
  BY <1>2, RecordParts, QueueTypes, Bounds
<1>3. r.q # <<>> => /\ Taken(r) \in WorkerRecords /\ Taken(r).q = Tail(r.q)
                    /\ Taken(r).doing = Head(r.q) /\ Taken(r).phase = "call"
  BY <1>1, <1>2 DEF Taken, WorkerRecords
<1>4. \A a \in Indices : /\ Asking(r, a) \in WorkerRecords /\ Asking(r, a).q = r.q
                         /\ Asking(r, a).doing = r.doing /\ Asking(r, a).phase = "asking"
  BY <1>1 DEF Asking, WorkerRecords, Indices
<1>5. /\ Waiting(r) \in WorkerRecords /\ Waiting(r).q = r.q /\ Waiting(r).doing = r.doing
      /\ Waiting(r).phase = "waiting"
  BY <1>1 DEF Waiting, WorkerRecords
<1>6. /\ Called(r) \in WorkerRecords /\ Called(r).q = r.q /\ Called(r).doing = r.doing
      /\ Called(r).phase = "called"
  BY <1>1 DEF Called, WorkerRecords
<1>7. Done(r) \in WorkerRecords /\ Done(r).q = r.q /\ Done(r).doing = NoMessage
  BY <1>1 DEF Done, WorkerRecords
<1> QED
  BY <1>3, <1>4, <1>5, <1>6, <1>7

LEMMA HostParts ==
    ASSUME TypeOK
    PROVE  /\ host.pc \in {"recv", "loading", "sending", "waiting"} /\ host.gen \in Generations
           /\ host.left \subseteq Modules /\ host.loaded \in [Modules -> 0 .. MaxGens]
           /\ host.msg \in Messages
           /\ hostq \in Queues(HostQueue) /\ hostq \in Seq(Messages)
           /\ workers \in [Modules -> 0 .. MaxGens] /\ senders \in [Modules -> 0 .. MaxGens]
           /\ inst \in [Indices -> WorkerRecords]
           /\ budget.items \in 0 .. MaxItems /\ budget.troubles \in 0 .. MaxTroubles
BY DEF TypeOK, Queues, Indices

LEMMA InitType ==
    ASSUME Init
    PROVE  TypeOK
<1>1. /\ 1 \in Versions /\ 1 \in Generations /\ 0 \in 0 .. MaxGens /\ 0 \in 0 .. MaxItems
      /\ 0 \in 0 .. MaxTroubles
  BY Bounds DEF Versions
<1>2. NoneLoaded \in [Modules -> 0 .. MaxGens] /\ InDirectory \subseteq Modules
  BY <1>1 DEF NoneLoaded, InDirectory
<1>3. <<>> \in Queues(HostQueue)
  BY Bounds DEF Queues
<1>4. host \in [pc : {"recv", "loading", "sending", "waiting"}, gen : Generations,
                left : SUBSET Modules, loaded : [Modules -> 0 .. MaxGens], msg : Messages]
  BY <1>1, <1>2, PlainMessages DEF Init, Loading
<1>5. inst \in [Modules \X Generations -> WorkerRecords]
  BY RecordTypes DEF Init
<1>6. answered \in [Items -> {"none", "open", "done", "failed"}]
  BY DEF Init
<1>7. budget \in [items : 0 .. MaxItems, troubles : 0 .. MaxTroubles, missed : BOOLEAN]
  BY <1>1 DEF Init
<1>8. file \in [Modules -> Versions \cup {Absent, Torn}]
  BY <1>1 DEF Init
<1> QED
  BY <1>2, <1>3, <1>4, <1>5, <1>6, <1>7, <1>8 DEF Init, TypeOK

LEMMA BudgetType ==
    ASSUME TypeOK
    PROVE  /\ MayArrive /\ Item => budget' \in [items : 0 .. MaxItems, troubles : 0 .. MaxTroubles, missed : BOOLEAN]
           /\ MayArrive => budget.items + 1 \in Items /\ budget.items + 1 \in 0 .. MaxItems
           /\ Trouble => budget' \in [items : 0 .. MaxItems, troubles : 0 .. MaxTroubles, missed : BOOLEAN]
           /\ MayTrouble => budget.troubles + 2 \in Versions
<1>1. /\ budget.items \in Nat /\ budget.items <= MaxItems /\ MaxItems \in Nat /\ budget.troubles \in Nat
      /\ budget.troubles <= MaxTroubles /\ MaxTroubles \in Nat
      /\ budget \in [items : 0 .. MaxItems, troubles : 0 .. MaxTroubles, missed : BOOLEAN]
  BY Bounds DEF TypeOK
<1>2. MayArrive => budget.items + 1 \in Items /\ budget.items + 1 \in 0 .. MaxItems
  BY <1>1 DEF MayArrive, Items
<1>3. MayTrouble => budget.troubles + 2 \in Versions /\ budget.troubles + 1 \in 0 .. MaxTroubles
  BY <1>1 DEF MayTrouble, Versions
<1> QED
  BY <1>1, <1>2, <1>3 DEF Item, Trouble

LEMMA ArrivesType ==
    ASSUME TypeOK, MayArrive, NEW t \in Traffic
    PROVE  Arrives(t[1], t[2]) \in Messages
<1>1. t[1] \in Kinds /\ t[2] \in Modules \cup {NoModule}
  BY QueueAssumption DEF Kinds
<1>2. budget.items + 1 \in 0 .. MaxItems /\ 0 \in 0 .. MaxGens
  BY BudgetType, Bounds
<1> QED
  BY <1>1, <1>2, MessageType DEF Arrives

LEMMA EnvironmentType ==
    ASSUME TypeOK, Environment \/ Watcher
    PROVE  TypeOK'
<1>1. ASSUME NEW m \in Edited, BeginWrite(m) \/ EndWrite(m) \/ RemoveFile(m)
      PROVE  TypeOK'
  <2>1. m \in Modules
    BY QueueAssumption
  <2>2. PICK content \in Versions \cup {Absent, Torn} : Change(m, content) /\ Trouble
    BY <1>1, BudgetType DEF BeginWrite, EndWrite, RemoveFile, Trouble
  <2> QED
    BY <2>1, <2>2, BudgetType DEF TypeOK, Change
<1>2. Reload \in Messages /\ HostQueue \in Nat /\ hostq \in Queues(HostQueue)
  BY PlainMessages, Bounds, HostParts
<1>3. CASE WatcherSettles \/ WatcherSends
  <2>1. hostq' \in Queues(HostQueue)
    BY <1>2, <1>3, QueueTypes DEF WatcherSettles, WatcherSends, Room
  <2> QED
    BY <1>3, <2>1 DEF TypeOK, WatcherSettles, WatcherSends
<1>4. CASE ForwardReload
  <2>1. hostq' \in Queues(HostQueue)
    BY <1>2, <1>4, QueueTypes DEF ForwardReload, Room
  <2> QED
    BY <1>4, <2>1, BudgetType DEF TypeOK, ForwardReload, HostQueueOnly
<1>5. ASSUME NEW t \in Traffic,
             ForwardEvent(t[1], t[2]) \/ ForwardDelivery(t[1], t[2]) \/ OperatorAsks(t[1], t[2])
      PROVE  TypeOK'
  <2>1. MayArrive /\ Item /\ HostQueueOnly
    BY <1>5 DEF ForwardEvent, ForwardDelivery, OperatorAsks
  <2>2. Arrives(t[1], t[2]) \in Messages
    BY <2>1, ArrivesType
  <2>3. ForwardDelivery(t[1], t[2]) => Arrives(t[1], t[2]) = Arrives("scheduled", t[2])
    BY DEF ForwardDelivery
  <2>4. \/ hostq' = hostq
        \/ Room(hostq, HostQueue) /\ hostq' = Append(hostq, Arrives(t[1], t[2]))
    <3>1. CASE ForwardEvent(t[1], t[2])
      BY <3>1 DEF ForwardEvent
    <3>2. CASE ForwardDelivery(t[1], t[2])
      BY <2>3, <3>2 DEF ForwardDelivery
    <3>3. CASE OperatorAsks(t[1], t[2])
      <4>1. t[1] = "admin"
        BY <3>3 DEF OperatorAsks
      <4> QED
        BY <3>3, <4>1 DEF OperatorAsks
    <3> QED
      BY <1>5, <3>1, <3>2, <3>3
  <2>6. hostq' \in Queues(HostQueue)
    BY <1>2, <2>2, <2>4, QueueTypes DEF Room
  <2>5. answered' \in [Items -> {"none", "open", "done", "failed"}]
    BY <1>5 DEF ForwardEvent, ForwardDelivery, OperatorAsks, TypeOK
  <2> QED
    BY <2>1, <2>5, <2>6, BudgetType DEF TypeOK, HostQueueOnly
<1> QED
  BY <1>1, <1>3, <1>4, <1>5 DEF Environment, Watcher

LEMMA AcceptedHasRoom ==
    ASSUME NEW m, NEW g, Accepts(m, g)
    PROVE  inst[<<m, g>>].state = "running" /\ Len(inst[<<m, g>>].q) < WorkerQueue
BY DEF Accepts, Running, Room

LEMMA Dispatched ==
    ASSUME TypeOK, NEW msg \in Messages, NEW ruled \in BOOLEAN
    PROVE  /\ Dispatch(msg, ruled) \in [Indices -> WorkerRecords]
           /\ \A w \in Indices :
                 \/ Dispatch(msg, ruled)[w] = inst[w]
                 \/ /\ Dispatch(msg, ruled)[w] = Put(inst[w], msg) /\ workers[w[1]] = w[2]
                    /\ Len(inst[w].q) < WorkerQueue /\ inst[w].state = "running"
<1>1. inst \in [Indices -> WorkerRecords] /\ DOMAIN inst = Indices
  BY HostParts
<1>2. \A w \in Indices :
        \/ Dispatch(msg, ruled)[w] = inst[w]
        \/ /\ Dispatch(msg, ruled)[w] = Put(inst[w], msg) /\ workers[w[1]] = w[2]
           /\ Accepts(w[1], w[2])
  BY <1>1 DEF Dispatch
<1>3. \A w \in Indices : w = <<w[1], w[2]>>
  BY DEF Indices
<1>4. \A w \in Indices : Accepts(w[1], w[2]) => inst[w].state = "running" /\ Len(inst[w].q) < WorkerQueue
  BY <1>3, AcceptedHasRoom
<1>5. \A w \in Indices : Len(inst[w].q) < WorkerQueue => Put(inst[w], msg) \in WorkerRecords
  BY <1>1, PutType
<1>6. \A w \in Indices : Dispatch(msg, ruled)[w] \in WorkerRecords
  BY <1>1, <1>2, <1>4, <1>5
<1>7. Dispatch(msg, ruled) = [w \in Indices |-> Dispatch(msg, ruled)[w]]
  BY <1>1 DEF Dispatch
<1> QED
  BY <1>2, <1>4, <1>6, <1>7

LEMMA ToldToStop ==
    ASSUME TypeOK
    PROVE  /\ SendShutdown \in [Indices -> WorkerRecords]
           /\ \A w \in Indices :
                 \/ SendShutdown[w] = inst[w]
                 \/ /\ SendShutdown[w] = Put(inst[w], Shutdown) /\ workers[w[1]] = w[2]
                    /\ Len(inst[w].q) < WorkerQueue /\ inst[w].state = "running"
<1>1. inst \in [Indices -> WorkerRecords] /\ DOMAIN inst = Indices /\ Shutdown \in Messages
  BY HostParts, PlainMessages
<1>2. \A w \in Indices :
        \/ SendShutdown[w] = inst[w]
        \/ SendShutdown[w] = Put(inst[w], Shutdown) /\ workers[w[1]] = w[2] /\ Accepts(w[1], w[2])
  BY <1>1 DEF SendShutdown
<1>3. \A w \in Indices : w = <<w[1], w[2]>>
  BY DEF Indices
<1>4. \A w \in Indices : Accepts(w[1], w[2]) => inst[w].state = "running" /\ Len(inst[w].q) < WorkerQueue
  BY <1>3, AcceptedHasRoom
<1>5. \A w \in Indices : Len(inst[w].q) < WorkerQueue => Put(inst[w], Shutdown) \in WorkerRecords
  BY <1>1, PutType
<1>6. \A w \in Indices : SendShutdown[w] \in WorkerRecords
  BY <1>1, <1>2, <1>4, <1>5
<1>7. SendShutdown = [w \in Indices |-> SendShutdown[w]]
  BY <1>1 DEF SendShutdown
<1> QED
  BY <1>2, <1>4, <1>6, <1>7

LEMMA QueueIsTaken ==
    ASSUME TypeOK, hostq # <<>>
    PROVE  Tail(hostq) \in Queues(HostQueue) /\ Head(hostq) \in Messages
BY HostParts, QueueTypes, Bounds

HostRecords == [pc : {"recv", "loading", "sending", "waiting"}, gen : Generations,
                left : SUBSET Modules, loaded : [Modules -> 0 .. MaxGens], msg : Messages]

LEMMA HostReturnsType ==
    ASSUME TypeOK
    PROVE  /\ HostReturns \in HostRecords /\ [HostReturns EXCEPT !.loaded = NoneLoaded] \in HostRecords
           /\ HostReturns.pc = "recv" /\ HostReturns.msg = NoMessage /\ HostReturns.gen = host.gen
           /\ HostReturns.loaded = host.loaded
<1>1. host \in HostRecords /\ NoMessage \in Messages /\ NoneLoaded \in [Modules -> 0 .. MaxGens]
  BY PlainMessages, Bounds DEF TypeOK, HostRecords, NoneLoaded
<1> QED
  BY <1>1 DEF HostReturns, HostRecords

LEMMA HostStepsType ==
    ASSUME TypeOK, HostSteps \/ \E m \in Modules : HostMisses(m)
    PROVE  TypeOK'
<1>1. /\ host \in HostRecords /\ inst \in [Indices -> WorkerRecords] /\ Indices = Modules \X Generations
      /\ hostq \in Queues(HostQueue)
  BY HostParts DEF TypeOK, HostRecords, Indices
<1>2. ASSUME NEW ruled \in BOOLEAN, HostEvent(ruled)
      PROVE  TypeOK'
  <2>1. hostq' \in Queues(HostQueue) /\ inst' \in [Indices -> WorkerRecords]
    BY <1>2, QueueIsTaken, Dispatched DEF HostEvent
  <2> QED
    BY <1>1, <1>2, <2>1 DEF TypeOK, HostEvent
<1>3. ASSUME NEW ignored \in BOOLEAN, HostDelivery(ignored)
      PROVE  TypeOK'
  <2> DEFINE msg == Head(hostq)  m == msg.target  g == workers[m]
  <2>1. hostq' \in Queues(HostQueue) /\ msg \in Messages
    BY <1>3, QueueIsTaken DEF HostDelivery
  <2>2. CASE ~ignored /\ m \in Loaded /\ Accepts(m, g)
    <3>1. inst' = [inst EXCEPT ![<<m, g>>] = Put(@, msg)] /\ UNCHANGED answered
      BY <1>3, <2>2 DEF HostDelivery
    <3>2. <<m, g>> \in Indices
      BY <1>3, <2>2, HostParts, Bounds DEF Loaded, Indices
    <3>3. Put(inst[<<m, g>>], msg) \in WorkerRecords
      BY <1>1, <2>1, <2>2, <3>2, AcceptedHasRoom, PutType
    <3>4. inst' \in [Indices -> WorkerRecords]
      BY <1>1, <3>1, <3>2, <3>3
    <3> QED
      BY <1>1, <1>3, <2>1, <3>1, <3>4 DEF TypeOK, HostDelivery
  <2>3. CASE ~(~ignored /\ m \in Loaded /\ Accepts(m, g))
    <3>1. answered' = [answered EXCEPT ![msg.id] = "failed"] /\ UNCHANGED inst
      BY <1>3, <2>3 DEF HostDelivery
    <3> QED
      BY <1>1, <1>3, <2>1, <3>1 DEF TypeOK, HostDelivery
  <2> QED
    BY <2>2, <2>3
<1>4. CASE HostCommand
  <2>1. hostq' \in Queues(HostQueue) /\ Head(hostq) \in Messages
    BY <1>4, QueueIsTaken DEF HostCommand
  <2>2. host' \in HostRecords
    BY <1>1, <1>4, <2>1 DEF HostCommand, HostRecords
  <2> QED
    BY <1>4, <2>1, <2>2 DEF TypeOK, HostCommand, HostRecords
<1>5. CASE HostSends
  <2> DEFINE w == <<host.msg.target, workers[host.msg.target]>>
  <2>1. host' \in HostRecords /\ host.msg \in Messages
    BY <1>1, <1>5 DEF HostSends, HostRecords
  <2>2. Accepts(host.msg.target, workers[host.msg.target]) /\ inst' = [inst EXCEPT ![w] = Put(@, host.msg)]
    BY <1>5 DEF HostSends
  <2>3. w \in Indices => Put(inst[w], host.msg) \in WorkerRecords
    BY <1>1, <2>1, <2>2, AcceptedHasRoom, PutType
  <2>4. inst' \in [Indices -> WorkerRecords]
    BY <1>1, <2>2, <2>3
  <2> QED
    BY <1>1, <1>5, <2>1, <2>4 DEF TypeOK, HostSends, HostRecords
<1>6. CASE HostGivesUp
  BY <1>6, HostReturnsType DEF TypeOK, HostGivesUp, HostRecords
<1>7. CASE HostReloads
  <2>1. hostq' \in Queues(HostQueue)
    BY <1>7, QueueIsTaken DEF HostReloads
  <2>2. host.gen + 1 \in Generations /\ NoneLoaded \in [Modules -> 0 .. MaxGens] /\ InDirectory \subseteq Modules
    BY <1>1, <1>7, Bounds DEF HostReloads, HostRecords, NoneLoaded, InDirectory
  <2>3. host' \in HostRecords
    BY <1>7, <2>2, PlainMessages DEF HostReloads, Loading, HostRecords
  <2> QED
    BY <1>7, <2>1, <2>3 DEF TypeOK, HostReloads, HostRecords
<1>8. CASE HostPublishes
  <2>1. inst' \in [Indices -> WorkerRecords]
    BY <1>8, ToldToStop DEF HostPublishes
  <2>2. host' \in HostRecords /\ workers' \in [Modules -> 0 .. MaxGens] /\ published' \subseteq Modules
    BY <1>1, <1>8, HostReturnsType DEF HostPublishes, HostRecords
  <2> QED
    BY <1>1, <1>8, <2>1, <2>2 DEF TypeOK, HostPublishes, HostRecords
<1>9. ASSUME NEW m \in Modules, HostLoads(m) \/ HostSkips(m) \/ HostMisses(m)
      PROVE  TypeOK'
  <2>1. host.gen \in Generations /\ host.gen \in 0 .. MaxGens /\ <<m, host.gen>> \in Indices
    BY <1>1, Bounds DEF HostRecords, Indices
  <2>2. /\ [host.loaded EXCEPT ![m] = host.gen] \in [Modules -> 0 .. MaxGens]
        /\ host.left \ {m} \subseteq Modules
    BY <1>1, <2>1 DEF HostRecords
  <2>3. host' \in HostRecords /\ inst' \in [Indices -> WorkerRecords] /\ senders' \in [Modules -> 0 .. MaxGens]
    <3>1. CASE HostLoads(m)
      <4>1. Started(file[m]) \in WorkerRecords
        BY <3>1, RecordTypes DEF HostLoads
      <4>2. host' \in HostRecords
        BY <1>1, <2>1, <2>2, <3>1 DEF HostLoads, HostRecords
      <4>3. inst' \in [Indices -> WorkerRecords]
        BY <1>1, <2>1, <3>1, <4>1 DEF HostLoads
      <4>4. senders' \in [Modules -> 0 .. MaxGens]
        BY <2>1, <3>1, HostParts DEF HostLoads
      <4> QED
        BY <4>2, <4>3, <4>4
    <3>2. CASE HostSkips(m)
      <4>1. host' \in HostRecords
        BY <1>1, <2>2, <3>2 DEF HostSkips, HostRecords
      <4> QED
        BY <1>1, <3>2, <4>1, HostParts DEF HostSkips
    <3>3. CASE HostMisses(m)
      <4>1. host' \in HostRecords
        BY <1>1, <2>2, <3>3 DEF HostMisses, HostRecords
      <4>2. Gone \in WorkerRecords
        BY RecordTypes
      <4>3. inst' \in [Indices -> WorkerRecords]
        BY <1>1, <2>1, <3>3, <4>2 DEF HostMisses
      <4> QED
        BY <3>3, <4>1, <4>3, HostParts DEF HostMisses
    <3> QED
      BY <1>9, <3>1, <3>2, <3>3
  <2>5. budget' \in [items : 0 .. MaxItems, troubles : 0 .. MaxTroubles, missed : BOOLEAN]
    <3>1. CASE HostMisses(m)
      <4>1. /\ budget \in [items : 0 .. MaxItems, troubles : 0 .. MaxTroubles, missed : BOOLEAN]
            /\ budget.troubles < MaxTroubles /\ MaxTroubles \in Nat
        BY <3>1, Bounds DEF HostMisses, MayTrouble, TypeOK
      <4>2. budget.troubles + 1 \in 0 .. MaxTroubles
        BY <4>1
      <4> QED
        BY <3>1, <4>1, <4>2 DEF HostMisses
    <3>2. CASE HostLoads(m) \/ HostSkips(m)
      BY <3>2 DEF HostLoads, HostSkips, TypeOK
    <3> QED
      BY <1>9, <3>1, <3>2
  <2> QED
    BY <1>1, <1>9, <2>3, <2>5 DEF TypeOK, HostLoads, HostSkips, HostMisses, HostRecords
<1> QED
  BY <1>2, <1>3, <1>4, <1>5, <1>6, <1>7, <1>8, <1>9 DEF HostSteps

(* What a step of a worker does to the records of all workers.             *)
LEMMA TakesChanges ==
    ASSUME TypeOK, NEW m \in Modules, NEW g \in Generations, WorkerTakes(m, g)
    PROVE  /\ <<m, g>> \in Indices /\ inst[<<m, g>>].q # <<>> /\ inst' \in [Indices -> WorkerRecords]
           /\ inst[<<m, g>>].phase = "idle" /\ inst[<<m, g>>].state = "running"
           /\ \A v \in Indices : v # <<m, g>> => inst'[v] = inst[v]
           /\ Head(inst[<<m, g>>].q) = Shutdown => inst'[<<m, g>>] = Gone
           /\ Head(inst[<<m, g>>].q) # Shutdown => inst'[<<m, g>>] = Taken(inst[<<m, g>>])
<1> DEFINE w == <<m, g>>
<1>1. w \in Indices /\ inst \in [Indices -> WorkerRecords] /\ inst[w] \in WorkerRecords
  BY HostParts DEF Indices
<1>2. inst[w].q # <<>> /\ inst[w].phase = "idle" /\ inst[w].state = "running"
  BY DEF WorkerTakes, Running
<1>3. [inst[w] EXCEPT !.q = Tail(inst[w].q), !.doing = Head(inst[w].q), !.phase = "call"] = Taken(inst[w])
  BY DEF Taken
<1>4. inst' = [inst EXCEPT ![w] = IF Head(inst[w].q) = Shutdown THEN Gone ELSE Taken(inst[w])]
  BY <1>3 DEF WorkerTakes
<1>5. Taken(inst[w]) \in WorkerRecords /\ Gone \in WorkerRecords
  BY <1>1, <1>2, WorkerMoves, RecordTypes
<1> QED
  BY <1>1, <1>2, <1>4, <1>5

LEMMA DisconnectsChanges ==
    ASSUME TypeOK, NEW m \in Modules, NEW g \in Generations, WorkerDisconnects(m, g)
    PROVE  /\ <<m, g>> \in Indices /\ inst[<<m, g>>].q = <<>> /\ inst[<<m, g>>].phase = "idle"
           /\ inst[<<m, g>>].state = "running"
           /\ inst' = [inst EXCEPT ![<<m, g>>] = Gone] /\ inst' \in [Indices -> WorkerRecords]
<1>1. <<m, g>> \in Indices /\ inst \in [Indices -> WorkerRecords] /\ Gone \in WorkerRecords
  BY HostParts, RecordTypes DEF Indices
<1> QED
  BY <1>1 DEF WorkerDisconnects, Running

LEMMA LooksUpChanges ==
    ASSUME TypeOK, NEW g \in Generations, NEW t \in Modules, CallerLooksUp(g, t)
    PROVE  /\ <<Caller, g>> \in Indices /\ inst[<<Caller, g>>].phase = "call"
           /\ inst' \in [Indices -> WorkerRecords]
           /\ \E a \in Indices : inst' = [inst EXCEPT ![<<Caller, g>>] = Asking(inst[<<Caller, g>>], a)]
<1> DEFINE w == <<Caller, g>>  a == <<t, senders[t]>>
<1>1. w \in Indices /\ inst \in [Indices -> WorkerRecords] /\ inst[w] \in WorkerRecords
  BY HostParts, QueueAssumption DEF Indices
<1>2. senders[t] \in 0 .. MaxGens /\ senders[t] # 0
  BY HostParts DEF CallerLooksUp
<1>3. a \in Indices
  BY <1>2, Bounds DEF Indices
<1>4. [inst[w] EXCEPT !.phase = "asking", !.asked = a] = Asking(inst[w], a)
  BY DEF Asking
<1>5. inst' = [inst EXCEPT ![w] = Asking(inst[w], a)] /\ inst[w].phase = "call"
  BY <1>4 DEF CallerLooksUp
<1>6. Asking(inst[w], a) \in WorkerRecords
  BY <1>1, <1>3, WorkerMoves
<1> QED
  BY <1>1, <1>3, <1>5, <1>6

LEMMA AsksChanges ==
    ASSUME TypeOK, NEW g \in Generations, CallerAsks(g)
    PROVE  /\ <<Caller, g>> \in Indices /\ inst[<<Caller, g>>].phase = "asking"
           /\ inst' \in [Indices -> WorkerRecords]
           /\ \/ inst' = [inst EXCEPT ![<<Caller, g>>] = Called(inst[<<Caller, g>>])]
              \/ \E t, msg : /\ Accepts(t[1], t[2]) /\ t = inst[<<Caller, g>>].asked
                             /\ msg \in Messages /\ msg.kind = "capture"
                             /\ inst' = [[inst EXCEPT ![<<Caller, g>>] = Waiting(inst[<<Caller, g>>])]
                                            EXCEPT ![t] = Put(@, msg)]
<1> DEFINE w == <<Caller, g>>  t == inst[w].asked
           msg == Message("capture", inst[w].doing.id, t[1], g)
<1>1. w \in Indices /\ inst \in [Indices -> WorkerRecords] /\ inst[w] \in WorkerRecords
  BY HostParts, QueueAssumption DEF Indices
<1>2. msg \in Messages /\ msg.kind = "capture"
  <2>1. inst[w].doing.id \in 0 .. MaxItems /\ g \in 0 .. MaxGens /\ t[1] \in Modules \cup {NoModule}
    BY <1>1, RecordParts, Bounds DEF Messages, Indices, Nobody
  <2>2. "capture" \in Kinds
    BY DEF Kinds
  <2> QED
    BY <2>1, <2>2, MessageType DEF Message
<1>3. [inst[w] EXCEPT !.phase = "called", !.asked = Nobody] = Called(inst[w])
  BY DEF Called
<1>4. [inst[w] EXCEPT !.phase = "waiting"] = Waiting(inst[w])
  BY DEF Waiting
<1>5. inst[w].phase = "asking"
  BY DEF CallerAsks
<1>6. Called(inst[w]) \in WorkerRecords /\ Waiting(inst[w]) \in WorkerRecords
      /\ Waiting(inst[w]).q = inst[w].q
  BY <1>1, WorkerMoves
<1>7. CASE ~Accepts(t[1], t[2])
  <2>1. inst' = [inst EXCEPT ![w] = Called(inst[w])]
    BY <1>3, <1>7 DEF CallerAsks
  <2> QED
    BY <1>1, <1>5, <1>6, <2>1
<1>8. CASE Accepts(t[1], t[2])
  <2> DEFINE f == [inst EXCEPT ![w] = Waiting(inst[w])]
  <2>1. inst' = [f EXCEPT ![t] = Put(@, msg)]
    BY <1>4, <1>8 DEF CallerAsks
  <2>2. f \in [Indices -> WorkerRecords] /\ \A v \in Indices : f[v].q = inst[v].q
    BY <1>1, <1>6
  <2>4. t \in Indices \cup {Nobody} /\ Nobody \notin Indices
    BY <1>1, RecordParts, NobodyIsNoIndex
  <2>5. t = <<t[1], t[2]>>
    BY <2>4 DEF Indices, Nobody
  <2>6. Len(inst[t].q) < WorkerQueue
    BY <1>8, <2>5, AcceptedHasRoom
  <2> HIDE DEF f, msg
  <2>7. t \in Indices => Put(f[t], msg) \in WorkerRecords
    BY <1>2, <2>2, <2>6, PutType
  <2>8. inst' \in [Indices -> WorkerRecords]
    BY <2>1, <2>2, <2>7
  <2>9. inst' = [[inst EXCEPT ![w] = Waiting(inst[w])] EXCEPT ![t] = Put(@, msg)]
    BY <2>1 DEF f
  <2> QED
    BY <1>1, <1>2, <1>5, <1>8, <2>8, <2>9
<1> QED
  BY <1>7, <1>8

LEMMA GivesUpChanges ==
    ASSUME TypeOK, NEW g \in Generations, CallerGivesUp(g)
    PROVE  /\ <<Caller, g>> \in Indices /\ inst[<<Caller, g>>].phase = "waiting"
           /\ inst' = [inst EXCEPT ![<<Caller, g>>] = Called(inst[<<Caller, g>>])]
           /\ inst' \in [Indices -> WorkerRecords]
<1> DEFINE w == <<Caller, g>>
<1>1. w \in Indices /\ inst \in [Indices -> WorkerRecords] /\ inst[w] \in WorkerRecords
  BY HostParts, QueueAssumption DEF Indices
<1>2. inst' = [inst EXCEPT ![w] = Called(inst[w])] /\ inst[w].phase = "waiting"
  BY <1>1 DEF CallerGivesUp, Called
<1>3. Called(inst[w]) \in WorkerRecords
  BY <1>1, WorkerMoves
<1> QED
  BY <1>1, <1>2, <1>3

LEMMA FinishesChanges ==
    ASSUME TypeOK, NEW m \in Modules, NEW g \in Generations, NEW ok \in BOOLEAN, WorkerFinishes(m, g, ok)
    PROVE  /\ <<m, g>> \in Indices /\ inst' \in [Indices -> WorkerRecords]
           /\ inst[<<m, g>>].phase \in {"call", "called"}
           /\ inst'[<<m, g>>] \in {Done(inst[<<m, g>>]), Called(Done(inst[<<m, g>>]))}
           /\ \A v \in Indices : v # <<m, g>> =>
                 inst'[v] = inst[v] \/ (inst[v].phase = "waiting" /\ inst'[v] = Called(inst[v]))
<1> DEFINE w == <<m, g>>  end == [inst EXCEPT ![w] = Done(inst[w])]
           s == <<Caller, inst[w].doing.source>>
<1>1. w \in Indices /\ inst \in [Indices -> WorkerRecords] /\ inst[w] \in WorkerRecords
  BY HostParts DEF Indices
<1>2. Done(inst[w]) \in WorkerRecords
  BY <1>1, WorkerMoves
<1>3. end \in [Indices -> WorkerRecords] /\ end[w] = Done(inst[w])
      /\ \A v \in Indices : v # w => end[v] = inst[v]
  BY <1>1, <1>2
<1>4. inst[w].phase \in {"call", "called"}
  BY DEF WorkerFinishes
<1>5. CASE ~StillWaits(inst[w].doing)
  <2>1. inst' = end
    BY <1>5 DEF WorkerFinishes
  <2> QED
    BY <1>1, <1>3, <1>4, <2>1
<1>6. CASE StillWaits(inst[w].doing)
  <2>1. inst' = [end EXCEPT ![s] = [@ EXCEPT !.phase = "called", !.asked = Nobody]]
    BY <1>6 DEF WorkerFinishes
  <2>2. inst[s].phase = "waiting"
    BY <1>6 DEF StillWaits
  <2> HIDE DEF end, s
  <2>3. inst' = [end EXCEPT ![s] = Called(@)]
    BY <2>1 DEF Called
  <2>4. \A v \in Indices : end[v] \in WorkerRecords /\ Called(end[v]) \in WorkerRecords
    BY <1>3, WorkerMoves
  <2>5. /\ inst' \in [Indices -> WorkerRecords]
        /\ \A v \in Indices : inst'[v] = end[v] \/ (v = s /\ inst'[v] = Called(end[v]))
    BY <1>3, <2>3, <2>4
  <2> QED
    BY <1>1, <1>3, <1>4, <2>2, <2>5
<1> QED
  BY <1>5, <1>6

LEMMA NextType ==
    ASSUME TypeOK, [Next]_vars
    PROVE  TypeOK'
<1>1. CASE UNCHANGED vars
  BY <1>1 DEF TypeOK, vars
<1>2. ASSUME NEW m \in Modules, NEW g \in Generations, WorkerTakes(m, g) \/ WorkerDisconnects(m, g)
      PROVE  TypeOK'
  <2>1. inst' \in [Indices -> WorkerRecords]
    BY <1>2, TakesChanges, DisconnectsChanges
  <2> QED
    BY <1>2, <2>1 DEF WorkerTakes, WorkerDisconnects, WorkerOnly, TypeOK, Indices
<1>3. ASSUME NEW g \in Generations, NEW t \in Modules, CallerLooksUp(g, t) \/ CallerAsks(g) \/ CallerGivesUp(g)
      PROVE  TypeOK'
  <2>1. inst' \in [Indices -> WorkerRecords]
    BY <1>3, LooksUpChanges, AsksChanges, GivesUpChanges
  <2> QED
    BY <1>3, <2>1 DEF CallerLooksUp, CallerAsks, CallerGivesUp, WorkerOnly, TypeOK, Indices
<1>4. ASSUME NEW m \in Modules, NEW g \in Generations, NEW ok \in BOOLEAN, WorkerFinishes(m, g, ok)
      PROVE  TypeOK'
  <2>1. inst' \in [Indices -> WorkerRecords]
    BY <1>4, FinishesChanges
  <2>2. host' \in HostRecords
    BY <1>4, HostReturnsType DEF WorkerFinishes, TypeOK, HostRecords
  <2>3. answered' \in [Items -> {"none", "open", "done", "failed"}]
    BY <1>4 DEF WorkerFinishes, TypeOK
  <2> QED
    BY <1>4, <2>1, <2>2, <2>3 DEF WorkerFinishes, WorkerOnly, TypeOK, Indices, HostRecords
<1>5. Caller \in Modules
  BY QueueAssumption
<1> QED
  BY <1>1, <1>2, <1>3, <1>4, <1>5, EnvironmentType, HostStepsType DEF Next, Workers, WorkerSteps

(* Every value stays in its set, whatever arrives and however it is run.   *)
THEOREM TypeCorrect == Spec => []TypeOK
<1>1. Init => TypeOK
  BY InitType
<1>2. TypeOK /\ [Next]_vars => TypeOK'
  BY NextType
<1> QED
  BY <1>1, <1>2, PTL DEF Spec

-----------------------------------------------------------------------------
(* A delivery in one place: in the same one, in none, or in another.       *)

LEMMA HeldStill ==
    ASSUME NEW q, NEW p, NEW f, NEW h, NEW a, NEW id \in Items, HeldBy(q, f, a, id),
           OnceIn(p, id), InQueue(p, id) <=> InQueue(q, id),
           \A w \in Indices : InWorker(h[w], id) <=> InWorker(f[w], id),
           \A w \in Indices : OnceWithin(h[w], id)
    PROVE  HeldBy(p, h, a, id)
BY Zenon DEF HeldBy

LEMMA HeldNowhere ==
    ASSUME NEW q, NEW f, NEW a, NEW id, a # "open", ~InQueue(q, id),
           \A w \in Indices : ~InWorker(f[w], id)
    PROVE  HeldBy(q, f, a, id)
<1>1. OnceIn(q, id)
  BY DEF InQueue, OnceIn
<1>2. ASSUME NEW w \in Indices
      PROVE  OnceWithin(f[w], id)
  <2>1. ~InWorker(f[w], id)
    OBVIOUS
  <2> QED
    BY <2>1 DEF InWorker, InQueue, OnceWithin, OnceIn
<1> QED
  BY <1>1, <1>2 DEF HeldBy

LEMMA HeldInQueue ==
    ASSUME NEW q, NEW p, NEW f, NEW a, NEW id, HeldBy(q, f, a, id), a # "open",
           InQueue(p, id), OnceIn(p, id)
    PROVE  HeldBy(p, f, "open", id)
BY DEF HeldBy

LEMMA HeldByWorker ==
    ASSUME NEW q, NEW p, NEW f, NEW h, NEW id, NEW u \in Indices, HeldBy(q, f, "open", id),
           InQueue(q, id), ~InQueue(p, id), InWorker(h[u], id), OnceWithin(h[u], id),
           \A w \in Indices : w # u => h[w] = f[w]
    PROVE  HeldBy(p, h, "open", id)
<1>1. OnceIn(p, id)
  BY DEF InQueue, OnceIn
<1>2. \A w \in Indices : OnceWithin(h[w], id)
  BY Zenon DEF HeldBy
<1>3. \A w \in Indices : w # u => ~InWorker(h[w], id)
  BY Zenon DEF HeldBy
<1> QED
  BY <1>1, <1>2, <1>3 DEF HeldBy

-----------------------------------------------------------------------------
(* Steps that take and answer no delivery.                                 *)

(* The worker's record may become s without touching what is promised.     *)
Keeps(r, s) ==
    /\ Alike(r, s)
    /\ (r.phase = "idle" => r.doing = NoMessage) => (s.phase = "idle" => s.doing = NoMessage)
    /\ r = NotStarted => s = NotStarted
    /\ HasShutdown(s.q) => HasShutdown(r.q)
    /\ ShutdownIsLast(r.q) => ShutdownIsLast(s.q)

LEMMA KeepsSame == ASSUME NEW r PROVE Keeps(r, r)
BY SameQueueAndCall DEF Keeps

LEMMA KeepsInCall ==
    ASSUME NEW r, NEW s, s.q = r.q, s.doing = r.doing, s.phase # "idle", r.phase # "idle"
    PROVE  Keeps(r, s)
<1>1. NotStarted.phase = "idle"
  BY DEF NotStarted
<1> QED
  BY <1>1, SameQueueAndCall DEF Keeps

LEMMA KeepsPut ==
    ASSUME NEW r \in WorkerRecords, NEW msg \in Messages, Len(r.q) < WorkerQueue,
           r.state = "running", msg.kind # "scheduled", msg # Shutdown,
           HasShutdown(r.q) => msg.kind = "capture"
    PROVE  Keeps(r, Put(r, msg))
<1>1. r.q \in Seq(Messages) /\ Put(r, msg).q = Append(r.q, msg) /\ Put(r, msg).doing = r.doing
      /\ Put(r, msg).phase = r.phase
  BY PutType, RecordParts
<1>2. HasShutdown(Put(r, msg).q) => HasShutdown(r.q)
  BY <1>1, AppendedQueue
<1>3. ShutdownIsLast(r.q) => ShutdownIsLast(Put(r, msg).q)
  BY <1>1, AppendedQueue
<1>4. r # NotStarted
  BY RecordTypes
<1> QED
  BY <1>1, <1>2, <1>3, <1>4, PutOther DEF Keeps

(* A worker that ends, or one that starts, holds nothing.                  *)
LEMMA KeepsNothing ==
    ASSUME NEW r, NEW s, s.q = <<>>, s.doing = NoMessage, r # NotStarted,
           \A id \in Items : ~InWorker(r, id)
    PROVE  Keeps(r, s)
<1>1. Alike(r, s)
  BY EmptyWorker DEF Alike
<1> QED
  BY <1>1, EmptyQueue DEF Keeps

LEMMA KeepsTaken ==
    ASSUME NEW r \in WorkerRecords, r.q # <<>>, r.doing = NoMessage, r.state = "running"
    PROVE  Keeps(r, Taken(r))
<1>1. /\ r.q \in Seq(Messages) /\ Taken(r).q = Tail(r.q) /\ Taken(r).doing = Head(r.q)
      /\ Taken(r).phase = "call"
  BY RecordParts, WorkerMoves
<1>2. r # NotStarted
  BY RecordTypes
<1>3. ASSUME NEW id \in Items
      PROVE  /\ InWorker(Taken(r), id) <=> InWorker(r, id)
             /\ OnceWithin(r, id) => OnceWithin(Taken(r), id)
  <2>1. ~Delivers(r.doing, id)
    BY DEF Delivers, NoMessage, Message
  <2> QED
    BY <1>1, <2>1, TakenFromQueue DEF InWorker, OnceWithin
<1>4. Alike(r, Taken(r))
  BY <1>3 DEF Alike
<1>5. HasShutdown(Taken(r).q) => HasShutdown(r.q)
  BY <1>1, TakenFromQueue
<1>6. ShutdownIsLast(r.q) => ShutdownIsLast(Taken(r).q)
  BY <1>1, TakenFromQueue
<1> QED
  BY <1>1, <1>2, <1>4, <1>5, <1>6 DEF Keeps

QueueKeeps(q, p) ==
    \A id \in Items : /\ InQueue(p, id) <=> InQueue(q, id)
                      /\ OnceIn(q, id) => OnceIn(p, id)

LEMMA PutInHostQueue ==
    ASSUME NEW q \in Seq(Messages), NEW msg \in Messages, msg.kind # "scheduled"
    PROVE  QueueKeeps(q, Append(q, msg))
<1> SUFFICES ASSUME NEW id \in Items
             PROVE  /\ InQueue(Append(q, msg), id) <=> InQueue(q, id)
                    /\ OnceIn(q, id) => OnceIn(Append(q, msg), id)
  BY DEF QueueKeeps
<1>1. ~Delivers(msg, id)
  BY DEF Delivers
<1> QED
  BY <1>1, AppendedQueue

LEMMA TakenFromHostQueue ==
    ASSUME NEW q \in Seq(Messages), q # <<>>, Head(q).kind # "scheduled"
    PROVE  QueueKeeps(q, Tail(q))
<1> SUFFICES ASSUME NEW id \in Items
             PROVE  /\ InQueue(Tail(q), id) <=> InQueue(q, id)
                    /\ OnceIn(q, id) => OnceIn(Tail(q), id)
  BY DEF QueueKeeps
<1>1. ~Delivers(Head(q), id)
  BY DEF Delivers
<1> QED
  BY <1>1, TakenFromQueue

LEMMA HeldKept ==
    ASSUME Held, \A w \in Indices : Alike(inst[w], inst'[w]), QueueKeeps(hostq, hostq'),
           answered' = answered
    PROVE  Held'
<1> SUFFICES ASSUME NEW id \in Items
             PROVE  HeldBy(hostq', inst', answered'[id], id)
  BY DEF Held
<1>1. HeldBy(hostq, inst, answered[id], id)
  BY DEF Held
<1>2. OnceIn(hostq', id) /\ (InQueue(hostq', id) <=> InQueue(hostq, id))
  BY <1>1 DEF HeldBy, QueueKeeps
<1>3. \A w \in Indices : InWorker(inst'[w], id) <=> InWorker(inst[w], id)
  BY DEF Alike
<1>4. \A w \in Indices : OnceWithin(inst'[w], id)
  BY <1>1 DEF Alike, HeldBy
<1>5. HeldBy(hostq', inst', answered[id], id)
  BY <1>1, <1>2, <1>3, <1>4, HeldStill
<1> QED
  BY <1>5

LEMMA WorkersKept ==
    ASSUME IdleIsEmpty, Fresh, Retired, \A w \in Indices : Keeps(inst[w], inst'[w]),
           workers' = workers, host'.gen = host.gen,
           \A m \in Modules, g \in Generations : ToStart(m, g)' => ToStart(m, g)
    PROVE  IdleIsEmpty' /\ Fresh' /\ Retired'
<1>1. IdleIsEmpty'
  BY DEF IdleIsEmpty, Keeps
<1>2. \A m \in Modules, g \in Generations : <<m, g>> \in Indices
  BY DEF Indices
<1>3. Fresh'
  BY <1>2 DEF Fresh, Keeps
<1>4. Retired'
  BY <1>2 DEF Retired, Keeps
<1> QED
  BY <1>1, <1>3, <1>4

LEMMA QuietStep ==
    ASSUME TypeOK, Promised, \A w \in Indices : Keeps(inst[w], inst'[w]), QueueKeeps(hostq, hostq'),
           answered' = answered, budget'.items \in {budget.items, budget.items + 1},
           workers' = workers, host' = host
    PROVE  Promised'
<1>1. \A m \in Modules, g \in Generations : ToStart(m, g)' => ToStart(m, g)
  BY DEF ToStart
<1>2. Held'
  BY HeldKept DEF Promised, Keeps
<1>3. IdleIsEmpty' /\ Fresh' /\ Retired'
  BY <1>1, WorkersKept DEF Promised
<1>4. NotYet'
  <2>1. \A id \in Items : id > budget'.items => id > budget.items
    BY HostParts, Bounds DEF Items
  <2> QED
    BY <2>1 DEF NotYet, Promised
<1>5. ListIsCurrent'
  BY DEF ListIsCurrent, Promised
<1> QED
  BY <1>2, <1>3, <1>4, <1>5 DEF Promised

LEMMA SameWorkers ==
    ASSUME inst' = inst
    PROVE  \A w \in Indices : Keeps(inst[w], inst'[w])
BY KeepsSame

LEMMA SameQueue == ASSUME NEW q PROVE QueueKeeps(q, q)
BY DEF QueueKeeps

LEMMA SpentItems ==
    ASSUME TypeOK
    PROVE  /\ Item => budget'.items = budget.items + 1
           /\ Trouble => budget'.items = budget.items
BY DEF TypeOK, Item, Trouble

LEMMA ForwardDeliveryKeeps ==
    ASSUME TypeOK, Promised, NEW kind, NEW m \in Modules, ForwardDelivery(kind, m)
    PROVE  Promised'
<1> DEFINE id == budget.items + 1  msg == Arrives("scheduled", m)
<1>1. MayArrive /\ Item /\ HostQueueOnly /\ budget'.items = id
  BY SpentItems DEF ForwardDelivery
<1>2. id \in Items /\ budget.items \in Nat /\ id > budget.items
  BY <1>1, BudgetType, HostParts, Bounds
<1>3. answered[id] = "none" /\ HeldBy(hostq, inst, answered[id], id)
  BY <1>2 DEF Promised, NotYet, Held
<1>4. msg \in Messages /\ msg.kind = "scheduled" /\ msg.id = id
  <2>1. "scheduled" \in Kinds /\ id \in 0 .. MaxItems /\ 0 \in 0 .. MaxGens
    BY <1>1, BudgetType, Bounds DEF Kinds
  <2> QED
    BY <2>1, MessageType DEF Arrives, Message
<1>5. hostq \in Seq(Messages) /\ answered \in [Items -> {"none", "open", "done", "failed"}]
  BY HostParts DEF TypeOK
<1>6. Held'
  <2> SUFFICES ASSUME NEW i \in Items
               PROVE  HeldBy(hostq', inst', answered'[i], i)
    BY DEF Held
  <2>1. HeldBy(hostq, inst, answered[i], i)
    BY DEF Promised, Held
  <2>2. inst' = inst
    BY <1>1 DEF HostQueueOnly
  <2>3. CASE Room(hostq, HostQueue)
    <3>1. hostq' = Append(hostq, msg) /\ answered' = [answered EXCEPT ![id] = "open"]
      BY <2>3 DEF ForwardDelivery
    <3>2. CASE i = id
      <4>1. InQueue(hostq', id) /\ OnceIn(hostq', id)
        <5>1. ~InQueue(hostq, id) /\ OnceIn(hostq, id)
          BY <1>3 DEF HeldBy
        <5>2. Delivers(msg, id)
          BY <1>4 DEF Delivers
        <5> HIDE DEF msg, id
        <5> QED
          BY <1>4, <1>5, <3>1, <5>1, <5>2, AppendedQueue
      <4>2. answered'[id] = "open" /\ answered[id] # "open"
        BY <1>2, <1>3, <1>5, <3>1
      <4>3. HeldBy(hostq', inst, "open", id)
        BY <1>3, <4>1, <4>2, HeldInQueue
      <4> QED
        BY <2>2, <3>2, <4>2, <4>3
    <3>3. CASE i # id
      <4>1. ~Delivers(msg, i)
        BY <1>4, <3>3 DEF Delivers
      <4>2. OnceIn(hostq, i)
        BY <2>1 DEF HeldBy
      <4> HIDE DEF msg, id
      <4>3. OnceIn(hostq', i) /\ (InQueue(hostq', i) <=> InQueue(hostq, i))
        BY <1>4, <1>5, <3>1, <4>1, <4>2, AppendedQueue
      <4>4. answered'[i] = answered[i]
        BY <1>5, <3>1, <3>3
      <4>5. \A w \in Indices : OnceWithin(inst[w], i)
        BY <2>1 DEF HeldBy
      <4>6. HeldBy(hostq', inst, answered[i], i)
        BY <2>1, <4>3, <4>5, HeldStill
      <4> QED
        BY <2>2, <4>4, <4>6
    <3> QED
      BY <3>2, <3>3
  <2>4. CASE ~Room(hostq, HostQueue)
    <3>1. hostq' = hostq /\ answered' = [answered EXCEPT ![id] = "failed"]
      BY <2>4 DEF ForwardDelivery
    <3>2. answered'[i] = answered[i] \/ (i = id /\ answered'[i] = "failed")
      BY <1>5, <3>1
    <3> HIDE DEF id
    <3>3. CASE i = id /\ answered'[i] = "failed"
      BY <1>3, <2>2, <3>1, <3>3 DEF HeldBy
    <3> QED
      BY <2>1, <2>2, <3>1, <3>2, <3>3
  <2> QED
    BY <2>3, <2>4
<1>7. NotYet'
  <2> SUFFICES ASSUME NEW i \in Items, i > id
               PROVE  answered'[i] = "none"
    BY <1>1 DEF NotYet
  <2>1. i > budget.items /\ i # id
    BY <1>2 DEF Items
  <2>2. answered'[i] = answered[i]
    BY <1>5, <2>1 DEF ForwardDelivery
  <2> QED
    BY <2>1, <2>2 DEF Promised, NotYet
<1>8. /\ inst' = inst /\ workers' = workers /\ host' = host
  BY <1>1 DEF HostQueueOnly
<1>9. IdleIsEmpty' /\ Fresh' /\ Retired'
  BY <1>8, SameWorkers, WorkersKept DEF Promised, ToStart
<1>10. ListIsCurrent'
  BY <1>8 DEF ListIsCurrent, Promised
<1> QED
  BY <1>6, <1>7, <1>9, <1>10 DEF Promised

LEMMA EnvironmentKeeps ==
    ASSUME TypeOK, Promised, Environment \/ Watcher
    PROVE  Promised'
<1>1. hostq \in Seq(Messages) /\ Reload \in Messages /\ Reload.kind # "scheduled"
  BY HostParts, PlainMessages
<1>2. ASSUME NEW m \in Edited, BeginWrite(m) \/ EndWrite(m) \/ RemoveFile(m)
      PROVE  Promised'
  <2>1. Trouble /\ UNCHANGED <<hostq, host, workers, inst, answered>>
    BY <1>2 DEF BeginWrite, EndWrite, RemoveFile, Change
  <2> QED
    BY <2>1, QuietStep, SameWorkers, SameQueue, SpentItems
<1>3. CASE WatcherSettles \/ WatcherSends \/ ForwardReload
  <2>1. UNCHANGED <<host, workers, inst, answered>> /\ budget'.items = budget.items
    BY <1>3, SpentItems DEF WatcherSettles, WatcherSends, ForwardReload, HostQueueOnly
  <2>2. QueueKeeps(hostq, hostq')
    BY <1>1, <1>3, SameQueue, PutInHostQueue DEF WatcherSettles, WatcherSends, ForwardReload
  <2> QED
    BY <2>1, <2>2, QuietStep, SameWorkers
<1>4. ASSUME NEW t \in Traffic, ForwardEvent(t[1], t[2]) \/ OperatorAsks(t[1], t[2])
      PROVE  Promised'
  <2>1. MayArrive /\ Item /\ UNCHANGED <<host, workers, inst, answered>>
    BY <1>4 DEF ForwardEvent, OperatorAsks, HostQueueOnly
  <2>2. Arrives(t[1], t[2]) \in Messages /\ Arrives(t[1], t[2]).kind = t[1]
    BY <2>1, ArrivesType DEF Arrives, Message
  <2>3. t[1] # "scheduled"
    BY <1>4 DEF ForwardEvent, OperatorAsks
  <2>4. hostq' = hostq \/ hostq' = Append(hostq, Arrives(t[1], t[2]))
    <3>1. CASE ForwardEvent(t[1], t[2])
      BY <3>1 DEF ForwardEvent
    <3>2. CASE OperatorAsks(t[1], t[2])
      <4>1. t[1] = "admin"
        BY <3>2 DEF OperatorAsks
      <4> QED
        BY <3>2, <4>1 DEF OperatorAsks
    <3> QED
      BY <1>4, <3>1, <3>2
  <2>5. QueueKeeps(hostq, hostq')
    BY <1>1, <2>2, <2>3, <2>4, SameQueue, PutInHostQueue
  <2> QED
    BY <2>1, <2>5, QuietStep, SameWorkers, SpentItems
<1>5. ASSUME NEW t \in Traffic, ForwardDelivery(t[1], t[2])
      PROVE  Promised'
  <2>1. t[2] \in Modules
    BY <1>5, QueueAssumption DEF ForwardDelivery
  <2> QED
    BY <1>5, <2>1, ForwardDeliveryKeeps
<1> QED
  BY <1>2, <1>3, <1>4, <1>5 DEF Environment, Watcher

(* Who the module thread still lists was not told to stop.                 *)
LEMMA ListedIsNotRetired ==
    ASSUME TypeOK, Promised, NEW w \in Indices, workers[w[1]] = w[2]
    PROVE  ~HasShutdown(inst[w].q)
<1>1. w[1] \in Modules /\ w[2] \in Generations /\ w = <<w[1], w[2]>>
  BY DEF Indices
<1>2. HasShutdown(inst[<<w[1], w[2]>>].q) => workers[w[1]] # w[2]
  BY <1>1 DEF Promised, Retired
<1> QED
  BY <1>1, <1>2

LEMMA HostTakesQuietly ==
    ASSUME TypeOK, Promised,
           HostCommand \/ HostSends \/ HostGivesUp \/ \E ruled \in BOOLEAN : HostEvent(ruled)
    PROVE  Promised'
<1>1. hostq \in Seq(Messages) /\ inst \in [Indices -> WorkerRecords] /\ host \in HostRecords
  BY HostParts DEF TypeOK, HostRecords
<1>2. ASSUME NEW ruled \in BOOLEAN, HostEvent(ruled)
      PROVE  Promised'
  <2> DEFINE msg == Head(hostq)
  <2>1. hostq # <<>> /\ IsEvent(msg) /\ hostq' = Tail(hostq) /\ inst' = Dispatch(msg, ruled)
        /\ UNCHANGED <<host, workers, answered, budget>>
    BY <1>2 DEF HostEvent
  <2>2. msg \in Messages /\ msg.kind # "scheduled" /\ msg # Shutdown
    BY <2>1, QueueIsTaken, PlainMessages DEF IsEvent
  <2>3. QueueKeeps(hostq, hostq')
    BY <1>1, <2>1, <2>2, TakenFromHostQueue
  <2>4. ASSUME NEW w \in Indices
        PROVE  Keeps(inst[w], inst'[w])
    <3>1. CASE inst'[w] = inst[w]
      BY <3>1, KeepsSame
    <3>2. CASE /\ inst'[w] = Put(inst[w], msg) /\ workers[w[1]] = w[2]
               /\ Len(inst[w].q) < WorkerQueue /\ inst[w].state = "running"
      <4>1. ~HasShutdown(inst[w].q)
        BY <3>2, ListedIsNotRetired
      <4> HIDE DEF msg
      <4> QED
        BY <1>1, <2>2, <3>2, <4>1, KeepsPut
    <3> QED
      BY <2>1, <2>2, <3>1, <3>2, Dispatched
  <2> QED
    BY <2>1, <2>3, <2>4, QuietStep
<1>3. CASE HostCommand
  <2>1. hostq # <<>> /\ hostq' = Tail(hostq) /\ Head(hostq).kind = "admin" /\ Head(hostq) \in Messages
        /\ UNCHANGED <<workers, inst, answered, budget>>
    BY <1>3, QueueIsTaken DEF HostCommand
  <2>2. Held'
    BY <1>1, <2>1, TakenFromHostQueue, SameWorkers, HeldKept DEF Promised, Keeps
  <2>3. host' = host \/ (host' = [host EXCEPT !.pc = "sending", !.msg = Head(hostq)] /\ host.pc = "recv")
    BY <1>3 DEF HostCommand
  <2>4. host'.gen = host.gen /\ host'.left = host.left /\ host'.loaded = host.loaded
        /\ (host'.pc = "loading" <=> host.pc = "loading")
        /\ (host'.pc \in {"sending", "waiting"} => host'.msg.kind = "admin" \/ host' = host)
    BY <1>1, <2>1, <2>3 DEF HostRecords
  <2>5. IdleIsEmpty' /\ Fresh' /\ Retired'
    BY <2>1, <2>4, SameWorkers, WorkersKept DEF Promised, ToStart
  <2>6. ListIsCurrent' /\ NotYet'
    BY <2>1, <2>4 DEF Promised, ListIsCurrent, NotYet
  <2> QED
    BY <2>2, <2>5, <2>6 DEF Promised
<1>4. CASE HostGivesUp
  <2>1. host' = HostReturns /\ host.pc = "waiting" /\ UNCHANGED <<hostq, workers, inst, answered, budget>>
    BY <1>4 DEF HostGivesUp
  <2>2. host'.gen = host.gen /\ host'.loaded = host.loaded /\ host'.pc = "recv"
    BY <2>1, HostReturnsType
  <2>3. IdleIsEmpty' /\ Fresh' /\ Retired'
    BY <2>1, <2>2, SameWorkers, WorkersKept DEF Promised, ToStart
  <2>4. ListIsCurrent' /\ NotYet' /\ Held'
    BY <2>1, <2>2 DEF Promised, ListIsCurrent, NotYet, Held
  <2> QED
    BY <2>3, <2>4 DEF Promised
<1>5. CASE HostSends
  <2> DEFINE w == <<host.msg.target, workers[host.msg.target]>>
  <2>1. /\ host.pc = "sending" /\ Accepts(w[1], w[2]) /\ inst' = [inst EXCEPT ![w] = Put(@, host.msg)]
        /\ host' = [host EXCEPT !.pc = "waiting"] /\ UNCHANGED <<hostq, workers, answered, budget>>
    BY <1>5 DEF HostSends
  <2>2. host.msg \in Messages /\ host.msg.kind = "admin" /\ host.msg # Shutdown
    BY <1>1, <2>1, PlainMessages DEF Promised, ListIsCurrent, HostRecords
  <2>3. ASSUME NEW v \in Indices
        PROVE  Keeps(inst[v], inst'[v])
    <3>1. CASE v # w
      BY <1>1, <2>1, <3>1, KeepsSame
    <3>2. CASE v = w
      <4>1. inst'[v] = Put(inst[v], host.msg) /\ workers[v[1]] = v[2] /\ inst[v].state = "running"
            /\ Len(inst[v].q) < WorkerQueue /\ inst[v] \in WorkerRecords
        BY <1>1, <2>1, <3>2, AcceptedHasRoom
      <4>2. ~HasShutdown(inst[v].q)
        BY <4>1, ListedIsNotRetired
      <4> QED
        BY <2>2, <4>1, <4>2, KeepsPut
    <3> QED
      BY <3>1, <3>2
  <2>4. /\ host'.gen = host.gen /\ host'.left = host.left /\ host'.loaded = host.loaded
        /\ host'.pc = "waiting" /\ host'.msg = host.msg
    BY <1>1, <2>1 DEF HostRecords
  <2> HIDE DEF w
  <2>5. IdleIsEmpty' /\ Fresh' /\ Retired'
    BY <2>1, <2>3, <2>4, WorkersKept DEF Promised, ToStart
  <2>6. ListIsCurrent' /\ NotYet'
    BY <2>1, <2>2, <2>4 DEF Promised, ListIsCurrent, NotYet
  <2>7. Held'
    BY <2>1, <2>3, SameQueue, HeldKept DEF Promised, Keeps
  <2> QED
    BY <2>5, <2>6, <2>7 DEF Promised
<1> QED
  BY <1>2, <1>3, <1>4, <1>5

LEMMA HostDeliveryKeeps ==
    ASSUME TypeOK, Promised, NEW ignored \in BOOLEAN, HostDelivery(ignored)
    PROVE  Promised'
<1> DEFINE msg == Head(hostq)  u == <<msg.target, workers[msg.target]>>
<1>1. /\ hostq # <<>> /\ msg.kind = "scheduled" /\ hostq' = Tail(hostq) /\ msg \in Messages
      /\ UNCHANGED <<host, workers, budget>>
  BY QueueIsTaken DEF HostDelivery
<1>2. hostq \in Seq(Messages) /\ inst \in [Indices -> WorkerRecords]
      /\ answered \in [Items -> {"none", "open", "done", "failed"}]
  BY HostParts DEF TypeOK
<1>3. \A i \in Items : HeldBy(hostq, inst, answered[i], i)
  BY DEF Promised, Held
<1>4. \A i : Delivers(msg, i) <=> i = msg.id
  BY <1>1 DEF Delivers
<1>5. ListIsCurrent'
  BY <1>1 DEF Promised, ListIsCurrent
<1>6. ASSUME NEW i \in Items
      PROVE  /\ OnceIn(hostq', i) /\ (InQueue(hostq, i) <=> InQueue(hostq', i) \/ i = msg.id)
             /\ ~(InQueue(hostq', i) /\ i = msg.id)
  <2>1. OnceIn(hostq, i)
    BY <1>3 DEF HeldBy
  <2> HIDE DEF msg
  <2>2. msg = Head(hostq)
    BY DEF msg
  <2> QED
    BY <1>1, <1>2, <1>4, <2>1, <2>2, TakenFromQueue
<1>7. ASSUME msg.id \in Items
      PROVE  answered[msg.id] = "open"
  BY <1>3, <1>6, <1>7 DEF HeldBy
<1>8. CASE inst' = [inst EXCEPT ![u] = Put(@, msg)] /\ u \in Indices /\ Accepts(u[1], u[2]) /\ UNCHANGED answered
  <2>1. /\ inst[u] \in WorkerRecords /\ Len(inst[u].q) < WorkerQueue /\ inst[u].state = "running"
        /\ workers[u[1]] = u[2] /\ u = <<u[1], u[2]>>
    BY <1>2, <1>8, AcceptedHasRoom
  <2>2. ~HasShutdown(inst[u].q)
    BY <1>8, <2>1, ListedIsNotRetired
  <2>3. inst'[u] = Put(inst[u], msg) /\ \A v \in Indices : v # u => inst'[v] = inst[v]
    BY <1>2, <1>8
  <2> HIDE DEF msg, u
  <2>4. /\ inst'[u].q = Append(inst[u].q, msg) /\ inst'[u].doing = inst[u].doing
        /\ inst'[u].phase = inst[u].phase /\ inst[u].q \in Seq(Messages)
    BY <1>1, <2>1, <2>3, PutType, RecordParts
  <2>5. ASSUME NEW i \in Items
        PROVE  HeldBy(hostq', inst', answered'[i], i)
    <3>1. CASE i = msg.id
      <4>1. InQueue(hostq, i) /\ ~InQueue(hostq', i) /\ answered[i] = "open"
        BY <1>6, <1>7, <3>1
      <4>2. ~InWorker(inst[u], i) /\ OnceWithin(inst[u], i)
        BY <1>3, <1>8, <4>1 DEF HeldBy
      <4>3. InWorker(inst'[u], i) /\ OnceWithin(inst'[u], i)
        BY <1>1, <1>4, <2>4, <3>1, <4>2, AppendedQueue DEF InWorker, OnceWithin
      <4>4. HeldBy(hostq, inst, "open", i)
        BY <1>3, <4>1
      <4>5. HeldBy(hostq', inst', "open", i)
        BY <1>8, <2>3, <4>1, <4>3, <4>4, HeldByWorker
      <4> QED
        BY <1>8, <4>1, <4>5
    <3>2. CASE i # msg.id
      <4>1. OnceIn(hostq', i) /\ (InQueue(hostq', i) <=> InQueue(hostq, i)) /\ ~Delivers(msg, i)
        BY <1>4, <1>6, <3>2
      <4>2. OnceWithin(inst[u], i)
        BY <1>3, <1>8 DEF HeldBy
      <4>3. (InWorker(inst'[u], i) <=> InWorker(inst[u], i)) /\ OnceWithin(inst'[u], i)
        BY <1>1, <2>4, <4>1, <4>2, AppendedQueue DEF InWorker, OnceWithin
      <4>4. \A w \in Indices : InWorker(inst'[w], i) <=> InWorker(inst[w], i)
        BY <2>3, <4>3
      <4>5. \A w \in Indices : OnceWithin(inst'[w], i)
        BY <1>3, <2>3, <4>3 DEF HeldBy
      <4>6. HeldBy(hostq', inst', answered[i], i)
        BY <1>3, <4>1, <4>4, <4>5, HeldStill
      <4> QED
        BY <1>8, <4>6
    <3> QED
      BY <3>1, <3>2
  <2>6. Held' /\ NotYet'
    BY <1>1, <1>8, <2>5 DEF Held, NotYet, Promised
  <2>7. IdleIsEmpty'
    BY <2>3, <2>4 DEF IdleIsEmpty, Promised
  <2>8. inst[u] # NotStarted
    BY <2>1, RecordTypes
  <2>9. \A m \in Modules, g \in Generations : <<m, g>> \in Indices
    BY DEF Indices
  <2>10. Fresh'
    BY <1>1, <2>3, <2>8, <2>9 DEF Fresh, ToStart, Promised
  <2>11. ~HasShutdown(inst'[u].q) /\ ShutdownIsLast(inst'[u].q)
    <3>1. ShutdownIsLast(inst[u].q)
      BY <2>2 DEF ShutdownIsLast, HasShutdown
    <3>2. msg # Shutdown
      BY <1>1 DEF Shutdown, Message
    <3> QED
      BY <1>1, <2>2, <2>4, <3>1, <3>2, AppendedQueue
  <2>12. Retired'
    BY <1>1, <2>3, <2>9, <2>11 DEF Retired, Promised
  <2> QED
    BY <1>5, <2>6, <2>7, <2>10, <2>12 DEF Promised
<1>9. CASE answered' = [answered EXCEPT ![msg.id] = "failed"] /\ UNCHANGED inst
  <2> HIDE DEF msg, u
  <2>1. ASSUME NEW i \in Items
        PROVE  HeldBy(hostq', inst', answered'[i], i)
    <3>1. CASE i = msg.id
      <4>1. answered'[i] = "failed" /\ ~InQueue(hostq', i) /\ InQueue(hostq, i)
        BY <1>2, <1>6, <1>9, <3>1
      <4>2. \A w \in Indices : ~InWorker(inst'[w], i)
        BY <1>3, <1>9, <4>1 DEF HeldBy
      <4> QED
        BY <4>1, <4>2, HeldNowhere
    <3>2. CASE i # msg.id
      <4>1. answered'[i] = answered[i] /\ OnceIn(hostq', i) /\ (InQueue(hostq', i) <=> InQueue(hostq, i))
        BY <1>2, <1>6, <1>9, <3>2
      <4>2. \A w \in Indices : OnceWithin(inst[w], i)
        BY <1>3 DEF HeldBy
      <4>3. HeldBy(hostq', inst, answered[i], i)
        BY <1>3, <4>1, <4>2, HeldStill
      <4> QED
        BY <1>9, <4>1, <4>3
    <3> QED
      BY <3>1, <3>2
  <2>2. NotYet'
    <3>1. ASSUME NEW i \in Items, i > budget.items
          PROVE  answered'[i] = "none"
      <4>1. answered[i] = "none"
        BY <3>1 DEF Promised, NotYet
      <4>2. i # msg.id
        BY <1>7, <4>1
      <4> QED
        BY <1>2, <1>9, <4>1, <4>2
    <3> QED
      BY <1>1, <3>1 DEF NotYet
  <2>3. IdleIsEmpty' /\ Fresh' /\ Retired'
    BY <1>1, <1>9, SameWorkers, WorkersKept DEF Promised, ToStart
  <2> QED
    BY <1>5, <2>1, <2>2, <2>3 DEF Promised, Held
<1>10. (~ignored /\ msg.target \in Loaded) => u \in Indices
  BY HostParts, Bounds DEF Loaded, Indices
<1> QED
  BY <1>8, <1>9, <1>10 DEF HostDelivery

LEMMA HostReloadsKeeps ==
    ASSUME TypeOK, Promised, HostReloads
    PROVE  Promised'
<1>1. /\ hostq # <<>> /\ Head(hostq) = Reload /\ hostq' = Tail(hostq)
      /\ host' = Loading(host.gen + 1, InDirectory) /\ UNCHANGED <<workers, inst, answered, budget>>
      /\ host.pc = "recv"
  BY DEF HostReloads
<1>2. hostq \in Seq(Messages) /\ workers \in [Modules -> 0 .. MaxGens] /\ host.gen \in Nat /\ host.gen > 0
  BY HostParts, Bounds
<1>3. /\ host'.gen = host.gen + 1 /\ host'.pc = "loading" /\ host'.loaded = NoneLoaded
      /\ \A m \in Modules : NoneLoaded[m] = 0
  BY <1>1 DEF Loading, NoneLoaded
<1>4. Head(hostq).kind # "scheduled"
  BY <1>1, PlainMessages
<1>5. Held'
  BY <1>1, <1>2, <1>4, TakenFromHostQueue, SameWorkers, HeldKept DEF Promised, Keeps
<1>6. NotYet' /\ IdleIsEmpty'
  BY <1>1 DEF Promised, NotYet, IdleIsEmpty
<1>7. ASSUME NEW m \in Modules, NEW g \in Generations
      PROVE  /\ ToStart(m, g)' => ToStart(m, g)
             /\ g < host.gen => g < host'.gen
  <2>1. g \in Nat
    BY Bounds
  <2>2. g > host.gen + 1 \/ g = host.gen + 1 => g > host.gen
    BY <1>2, <2>1
  <2>3. g < host.gen => g < host.gen + 1
    BY <1>2, <2>1
  <2> QED
    BY <1>3, <2>2, <2>3 DEF ToStart
<1>8. Fresh' /\ Retired'
  BY <1>1, <1>7 DEF Promised, Fresh, Retired
<1>9. ASSUME NEW m \in Modules
      PROVE  workers[m] < host.gen + 1
  <2>1. workers[m] \in {0, host.gen}
    BY <1>1 DEF Promised, ListIsCurrent
  <2> QED
    BY <1>2, <2>1
<1>10. ListIsCurrent'
  BY <1>1, <1>3, <1>9 DEF ListIsCurrent
<1> QED
  BY <1>5, <1>6, <1>8, <1>10 DEF Promised

LEMMA HostLoadingKeeps ==
    ASSUME TypeOK, Promised, NEW m \in Modules, HostLoads(m) \/ HostSkips(m) \/ HostMisses(m)
    PROVE  Promised'
<1> DEFINE u == <<m, host.gen>>
<1>1. /\ host.pc = "loading" /\ m \in host.left /\ host.gen \in Generations /\ u \in Indices
      /\ inst \in [Indices -> WorkerRecords] /\ host \in HostRecords
  BY HostParts DEF HostLoads, HostSkips, HostMisses, NextToLoad, Indices, TypeOK, HostRecords
<1>2. /\ UNCHANGED <<hostq, workers, answered>> /\ budget'.items = budget.items
  BY DEF HostLoads, HostSkips, HostMisses, TypeOK
<1>3. inst[u] = NotStarted
  BY <1>1 DEF Promised, Fresh, ToStart
<1>4. /\ host'.gen = host.gen /\ host'.pc = "loading" /\ host'.left = host.left \ {m}
      /\ \A n \in Modules : host'.loaded[n] \in {host.loaded[n], host.gen}
      /\ host'.msg = host.msg
  <2>1. CASE HostLoads(m)
    BY <1>1, <2>1 DEF HostLoads, HostRecords
  <2>2. CASE HostSkips(m) \/ HostMisses(m)
    BY <1>1, <2>2 DEF HostSkips, HostMisses, HostRecords
  <2> QED
    BY <2>1, <2>2
<1>5. PICK r : /\ r.q = <<>> /\ r.doing = NoMessage
               /\ \A v \in Indices : v # u => inst'[v] = inst[v]
               /\ inst'[u] = r
  <2>1. CASE HostLoads(m)
    BY <1>1, <2>1, RecordTypes DEF HostLoads
  <2>2. CASE HostSkips(m)
    BY <1>1, <1>3, <2>2, RecordTypes DEF HostSkips
  <2>3. CASE HostMisses(m)
    BY <1>1, <2>3, RecordTypes DEF HostMisses
  <2> QED
    BY <2>1, <2>2, <2>3
<1> HIDE DEF u
<1>6. NotStarted.q = <<>> /\ NotStarted.doing = NoMessage
  BY RecordTypes
<1>7. Alike(inst[u], inst'[u])
  BY <1>3, <1>5, <1>6, EmptyWorker DEF Alike
<1>8. \A w \in Indices : Alike(inst[w], inst'[w])
  BY <1>5, <1>7, SameQueueAndCall
<1>9. Held'
  BY <1>2, <1>8, SameQueue, HeldKept DEF Promised
<1>10. NotYet' /\ IdleIsEmpty'
  BY <1>2, <1>5 DEF Promised, NotYet, IdleIsEmpty
<1>11. \A n \in Modules, g \in Generations : <<n, g>> \in Indices
  BY DEF Indices
<1>12. ASSUME NEW n \in Modules, NEW g \in Generations, ToStart(n, g)'
       PROVE  inst'[<<n, g>>] = NotStarted
  <2>1. ToStart(n, g) /\ <<n, g>> # u
    BY <1>1, <1>4, <1>12, Bounds DEF ToStart, u
  <2> QED
    BY <1>5, <1>11, <2>1 DEF Promised, Fresh
<1>13. Fresh'
  BY <1>12 DEF Fresh
<1>14. Retired'
  <2>1. ~HasShutdown(inst'[u].q) /\ ShutdownIsLast(inst'[u].q)
    BY <1>5, EmptyQueue
  <2> QED
    BY <1>2, <1>4, <1>5, <1>11, <2>1 DEF Promised, Retired
<1>15. ListIsCurrent'
  BY <1>1, <1>2, <1>4 DEF Promised, ListIsCurrent
<1> QED
  BY <1>9, <1>10, <1>13, <1>14, <1>15 DEF Promised

LEMMA HostPublishesKeeps ==
    ASSUME TypeOK, Promised, HostPublishes
    PROVE  Promised'
<1>1. /\ host.pc = "loading" /\ host.left = {} /\ inst' = SendShutdown /\ workers' = host.loaded
      /\ host' = [HostReturns EXCEPT !.loaded = NoneLoaded] /\ UNCHANGED <<hostq, answered, budget>>
  BY DEF HostPublishes
<1>2. /\ inst \in [Indices -> WorkerRecords] /\ host.gen \in Nat /\ host.gen > 0 /\ Shutdown \in Messages
      /\ Shutdown.kind = "shutdown" /\ workers \in [Modules -> 0 .. MaxGens]
  BY HostParts, Bounds, PlainMessages
<1>3. /\ host'.gen = host.gen /\ host'.pc = "recv" /\ \A m \in Modules : host'.loaded[m] = 0
  <2>1. HostReturns \in HostRecords /\ HostReturns.pc = "recv" /\ HostReturns.gen = host.gen
    BY HostReturnsType
  <2> QED
    BY <1>1, <2>1 DEF HostRecords, NoneLoaded
<1>4. \A w \in Indices :
        \/ inst'[w] = inst[w]
        \/ /\ inst'[w] = Put(inst[w], Shutdown) /\ workers[w[1]] = w[2]
           /\ Len(inst[w].q) < WorkerQueue /\ inst[w].state = "running"
  BY <1>1, ToldToStop
<1>5. ASSUME NEW w \in Indices
      PROVE  Alike(inst[w], inst'[w]) /\ inst'[w].doing = inst[w].doing /\ inst'[w].phase = inst[w].phase
  BY <1>2, <1>4, SameQueueAndCall, PutOther, PutType
<1>6. Held'
  BY <1>1, <1>5, SameQueue, HeldKept DEF Promised
<1>7. NotYet' /\ IdleIsEmpty'
  BY <1>1, <1>5 DEF Promised, NotYet, IdleIsEmpty
<1>8. NotStarted.state = "none"
  BY RecordTypes
<1>9. \A m \in Modules, g \in Generations : <<m, g>> \in Indices
  BY DEF Indices
<1>10. Fresh'
  BY <1>3, <1>4, <1>8, <1>9 DEF Promised, Fresh, ToStart
<1>11. \A m \in Modules : workers[m] < host.gen /\ host.loaded[m] \in {0, host.gen}
  BY <1>1 DEF Promised, ListIsCurrent
<1>12. ASSUME NEW m \in Modules, NEW g \in Generations
       PROVE  /\ HasShutdown(inst'[<<m, g>>].q) => g < host.gen /\ host.loaded[m] # g
              /\ ShutdownIsLast(inst'[<<m, g>>].q)
  <2> DEFINE w == <<m, g>>
  <2>1. g \in Nat /\ g > 0 /\ w \in Indices /\ inst[w] \in WorkerRecords /\ inst[w].q \in Seq(Messages)
    BY <1>2, <1>9, Bounds, RecordParts
  <2>2. g < host.gen => host.loaded[m] # g
    BY <1>2, <1>11, <2>1
  <2>3. CASE inst'[w] = inst[w]
    BY <2>2, <2>3 DEF Promised, Retired
  <2>4. CASE inst'[w] = Put(inst[w], Shutdown) /\ workers[m] = g /\ Len(inst[w].q) < WorkerQueue
    <3>1. ~HasShutdown(inst[w].q) /\ g < host.gen
      BY <1>11, <2>1, <2>4, ListedIsNotRetired
    <3> HIDE DEF w
    <3>2. Put(inst[w], Shutdown).q = Append(inst[w].q, Shutdown)
      BY <1>2, <2>1, <2>4, PutType
    <3>3. ShutdownIsLast(inst[w].q)
      BY DEF Promised, Retired, w
    <3>4. ShutdownIsLast(inst'[w].q)
      <4>1. ShutdownIsLast(Append(inst[w].q, Shutdown))
        BY <1>2, <2>1, <3>1, <3>3, AppendedQueue
      <4> QED
        BY <2>4, <3>2, <4>1
    <3> QED
      BY <2>2, <3>1, <3>4 DEF w
  <2> QED
    BY <1>4, <2>1, <2>3, <2>4
<1>13. Retired'
  BY <1>1, <1>3, <1>12 DEF Retired
<1>14. ListIsCurrent'
  BY <1>1, <1>3, <1>11 DEF ListIsCurrent
<1> QED
  BY <1>6, <1>7, <1>10, <1>13, <1>14 DEF Promised

LEMMA WorkerMovesKeep ==
    ASSUME TypeOK, Promised, NEW m \in Modules, NEW g \in Generations, NEW t \in Modules,
           \/ WorkerTakes(m, g) \/ WorkerDisconnects(m, g)
           \/ CallerLooksUp(g, t) \/ CallerAsks(g) \/ CallerGivesUp(g)
    PROVE  Promised'
<1>1. UNCHANGED <<hostq, host, workers, answered, budget>>
  BY DEF WorkerTakes, WorkerDisconnects, CallerLooksUp, CallerAsks, CallerGivesUp, WorkerOnly
<1>2. inst \in [Indices -> WorkerRecords]
  BY HostParts
<1>3. IdleIsEmpty /\ Retired
  BY DEF Promised
<1>4. ASSUME WorkerTakes(m, g), NEW w \in Indices
      PROVE  Keeps(inst[w], inst'[w])
  <2> DEFINE u == <<m, g>>
  <2>1. /\ inst[u].q # <<>> /\ inst[u].doing = NoMessage /\ inst[u].state = "running" /\ u \in Indices
        /\ inst[u] \in WorkerRecords /\ inst[u].q \in Seq(Messages)
    BY <1>2, <1>3, <1>4, TakesChanges, RecordParts DEF IdleIsEmpty
  <2>2. CASE Head(inst[u].q) = Shutdown /\ w = u
    <3>1. inst'[u] = Gone /\ ShutdownIsLast(inst[u].q)
      BY <1>3, <1>4, <2>2, TakesChanges DEF Retired
    <3>2. \A id \in Items : ~InQueue(inst[u].q, id)
      BY <2>1, <2>2, <3>1, TakenFromQueue
    <3>3. \A id \in Items : ~InWorker(inst[u], id)
      BY <2>1, <3>2 DEF InWorker, Delivers, NoMessage, Message
    <3>4. Gone.q = <<>> /\ Gone.doing = NoMessage /\ inst[u] # NotStarted
      BY <2>1, RecordTypes
    <3> QED
      BY <2>2, <3>1, <3>3, <3>4, KeepsNothing
  <2>3. CASE Head(inst[u].q) # Shutdown /\ w = u
    BY <1>4, <2>1, <2>3, TakesChanges, KeepsTaken
  <2>4. CASE w # u
    BY <1>4, <2>4, TakesChanges, KeepsSame
  <2> QED
    BY <2>2, <2>3, <2>4
<1>5. ASSUME WorkerDisconnects(m, g), NEW w \in Indices
      PROVE  Keeps(inst[w], inst'[w])
  <2> DEFINE u == <<m, g>>
  <2>1. /\ inst[u].q = <<>> /\ inst[u].doing = NoMessage /\ inst[u].state = "running" /\ u \in Indices
        /\ inst' = [inst EXCEPT ![u] = Gone]
    BY <1>3, <1>5, DisconnectsChanges DEF IdleIsEmpty
  <2>2. Gone.q = <<>> /\ Gone.doing = NoMessage /\ inst[u] # NotStarted
    BY <2>1, RecordTypes
  <2>3. \A id \in Items : ~InWorker(inst[u], id)
    BY <2>1, EmptyWorker
  <2>4. Keeps(inst[u], Gone)
    BY <2>2, <2>3, KeepsNothing
  <2> QED
    BY <1>2, <2>1, <2>4, KeepsSame
<1>6. ASSUME NEW r \in WorkerRecords, r.phase # "idle"
      PROVE  /\ \A a \in Indices : Keeps(r, Asking(r, a))
             /\ Keeps(r, Called(r)) /\ Keeps(r, Waiting(r))
  BY <1>6, WorkerMoves, KeepsInCall
<1>7. ASSUME CallerLooksUp(g, t), NEW w \in Indices
      PROVE  Keeps(inst[w], inst'[w])
  <2> DEFINE u == <<Caller, g>>
  <2>1. u \in Indices /\ inst[u].phase = "call"
    BY <1>7, LooksUpChanges
  <2>2. PICK a \in Indices : inst' = [inst EXCEPT ![u] = Asking(inst[u], a)]
    BY <1>7, LooksUpChanges
  <2>3. inst[u] \in WorkerRecords /\ Keeps(inst[u], Asking(inst[u], a))
    BY <1>2, <1>6, <2>1
  <2> QED
    BY <1>2, <2>1, <2>2, <2>3, KeepsSame
<1>8. ASSUME CallerGivesUp(g), NEW w \in Indices
      PROVE  Keeps(inst[w], inst'[w])
  <2> DEFINE u == <<Caller, g>>
  <2>1. u \in Indices /\ inst[u].phase = "waiting" /\ inst' = [inst EXCEPT ![u] = Called(inst[u])]
    BY <1>8, GivesUpChanges
  <2>2. Keeps(inst[u], Called(inst[u]))
    BY <1>2, <1>6, <2>1
  <2> QED
    BY <1>2, <2>1, <2>2, KeepsSame
<1>9. ASSUME CallerAsks(g), NEW w \in Indices
      PROVE  Keeps(inst[w], inst'[w])
  <2> DEFINE u == <<Caller, g>>
  <2>1. u \in Indices /\ inst[u].phase = "asking"
    BY <1>9, AsksChanges
  <2>2. Keeps(inst[u], Called(inst[u])) /\ Keeps(inst[u], Waiting(inst[u]))
    BY <1>2, <1>6, <2>1
  <2>3. CASE inst' = [inst EXCEPT ![u] = Called(inst[u])]
    BY <1>2, <2>1, <2>2, <2>3, KeepsSame
  <2>4. CASE \E x, msg : /\ Accepts(x[1], x[2]) /\ x = inst[u].asked
                         /\ msg \in Messages /\ msg.kind = "capture"
                         /\ inst' = [[inst EXCEPT ![u] = Waiting(inst[u])] EXCEPT ![x] = Put(@, msg)]
    <3>1. PICK x, msg : /\ Accepts(x[1], x[2]) /\ x = inst[u].asked
                        /\ msg \in Messages /\ msg.kind = "capture"
                        /\ inst' = [[inst EXCEPT ![u] = Waiting(inst[u])] EXCEPT ![x] = Put(@, msg)]
      BY <2>4
    <3> DEFINE f == [inst EXCEPT ![u] = Waiting(inst[u])]
    <3>2. Keeps(inst[w], f[w]) /\ f[w] \in WorkerRecords /\ f[w].q = inst[w].q /\ f[w].state = inst[w].state
      <4>1. Waiting(inst[u]) \in WorkerRecords /\ Waiting(inst[u]).q = inst[u].q
            /\ Waiting(inst[u]).state = inst[u].state
        <5>1. inst[u] \in WorkerRecords
          BY <1>2, <2>1
        <5> QED
          BY <5>1, WorkerMoves DEF Waiting, WorkerRecords
      <4> QED
        BY <1>2, <2>1, <2>2, <4>1, KeepsSame
    <3>3. DOMAIN f = Indices /\ inst' = [f EXCEPT ![x] = Put(@, msg)]
      BY <1>2, <3>1
    <3> HIDE DEF f
    <3>4. CASE w # x
      BY <3>2, <3>3, <3>4
    <3>5. CASE w = x
      <4>1. x = <<x[1], x[2]>>
        BY <3>5 DEF Indices
      <4>2. f[w].state = "running" /\ Len(f[w].q) < WorkerQueue
        BY <3>1, <3>2, <3>5, <4>1, AcceptedHasRoom
      <4>3. msg # Shutdown /\ msg.kind # "scheduled"
        BY <3>1 DEF Shutdown, Message
      <4>4. Keeps(f[w], Put(f[w], msg))
        BY <3>1, <3>2, <4>2, <4>3, KeepsPut
      <4>5. inst'[w] = Put(f[w], msg)
        BY <3>3, <3>5
      <4>6. f[w] # NotStarted /\ inst[w] # NotStarted
        BY <3>2, <4>2, RecordTypes
      <4> QED
        BY <3>2, <4>4, <4>5, <4>6 DEF Keeps, Alike
    <3> QED
      BY <3>4, <3>5
  <2> QED
    BY <1>9, <2>3, <2>4, AsksChanges
<1>10. \A w \in Indices : Keeps(inst[w], inst'[w])
  BY <1>4, <1>5, <1>7, <1>8, <1>9
<1> QED
  BY <1>1, <1>10, QuietStep, SameQueue

LEMMA WorkerFinishesKeeps ==
    ASSUME TypeOK, Promised, NEW m \in Modules, NEW g \in Generations, NEW ok \in BOOLEAN,
           WorkerFinishes(m, g, ok)
    PROVE  Promised'
<1> DEFINE u == <<m, g>>  msg == inst[u].doing
<1>1. /\ u \in Indices /\ inst \in [Indices -> WorkerRecords] /\ inst[u] \in WorkerRecords
      /\ inst[u].phase \in {"call", "called"}
      /\ answered \in [Items -> {"none", "open", "done", "failed"}]
  BY HostParts, FinishesChanges DEF TypeOK
<1>2. /\ UNCHANGED <<hostq, workers, budget>>
      /\ msg.kind # "scheduled" => answered' = answered
      /\ msg.kind = "scheduled" => answered' = [answered EXCEPT ![msg.id] = IF ok THEN "done" ELSE "failed"]
      /\ host' = host \/ (host' = HostReturns /\ host.pc = "waiting")
  BY DEF WorkerFinishes, WorkerOnly
<1>3. inst'[u].q = inst[u].q /\ inst'[u].doing = NoMessage
  <2>1. Done(inst[u]) \in WorkerRecords /\ Done(inst[u]).q = inst[u].q /\ Done(inst[u]).doing = NoMessage
    BY <1>1, WorkerMoves
  <2>2. Called(Done(inst[u])).q = inst[u].q /\ Called(Done(inst[u])).doing = NoMessage
    BY <2>1, WorkerMoves
  <2> QED
    BY <2>1, <2>2, FinishesChanges
<1>4. ASSUME NEW v \in Indices, v # u
      PROVE  Keeps(inst[v], inst'[v])
  <2>1. CASE inst[v].phase = "waiting" /\ inst'[v] = Called(inst[v])
    <3>1. Called(inst[v]).q = inst[v].q /\ Called(inst[v]).doing = inst[v].doing
          /\ Called(inst[v]).phase = "called"
      BY <1>1, WorkerMoves
    <3> QED
      BY <2>1, <3>1, KeepsInCall
  <2> QED
    BY <1>4, <2>1, FinishesChanges, KeepsSame
<1> HIDE DEF u
<1>5. \A i : Delivers(NoMessage, i) = FALSE
  BY DEF Delivers, NoMessage, Message
<1>6. ASSUME NEW i \in Items
      PROVE  HeldBy(hostq', inst', answered'[i], i)
  <2>1. HeldBy(hostq, inst, answered[i], i)
    BY DEF Promised, Held
  <2>2. CASE Delivers(msg, i)
    <3>1. msg.kind = "scheduled" /\ msg.id = i /\ InWorker(inst[u], i) /\ ~InQueue(inst[u].q, i)
      BY <1>1, <2>1, <2>2 DEF Delivers, InWorker, HeldBy, OnceWithin
    <3>2. answered'[i] \in {"done", "failed"}
      BY <1>1, <1>2, <3>1
    <3>3. ~InWorker(inst'[u], i)
      BY <1>3, <1>5, <3>1 DEF InWorker
    <3>4. \A w \in Indices : w # u => ~InWorker(inst'[w], i)
      BY <1>1, <1>4, <2>1, <3>1 DEF HeldBy, Keeps, Alike
    <3>5. ~InQueue(hostq', i)
      BY <1>1, <1>2, <2>1, <3>1 DEF HeldBy
    <3> HIDE DEF msg
    <3> QED
      BY <3>2, <3>3, <3>4, <3>5, HeldNowhere
  <2>3. CASE ~Delivers(msg, i)
    <3>1. answered'[i] = answered[i]
      BY <1>1, <1>2, <2>3 DEF Delivers
    <3>2. /\ InWorker(inst'[u], i) <=> InWorker(inst[u], i)
          /\ OnceWithin(inst[u], i) => OnceWithin(inst'[u], i)
      BY <1>3, <1>5, <2>3 DEF InWorker, OnceWithin
    <3>3. \A w \in Indices : InWorker(inst'[w], i) <=> InWorker(inst[w], i)
      BY <1>4, <3>2 DEF Keeps, Alike
    <3>4. \A w \in Indices : OnceWithin(inst'[w], i)
      BY <1>4, <2>1, <3>2 DEF Keeps, Alike, HeldBy
    <3>5. OnceIn(hostq, i) /\ hostq' = hostq
      BY <1>2, <2>1 DEF HeldBy
    <3>6. HeldBy(hostq', inst', answered[i], i)
      BY <2>1, <3>3, <3>4, <3>5, HeldStill
    <3> QED
      BY <3>1, <3>6
  <2> QED
    BY <2>2, <2>3
<1>7. NotYet'
  <2> SUFFICES ASSUME NEW i \in Items, i > budget.items
               PROVE  answered'[i] = "none"
    BY <1>2 DEF NotYet
  <2>1. answered[i] = "none" /\ HeldBy(hostq, inst, answered[i], i)
    BY DEF Promised, NotYet, Held
  <2>2. ~Delivers(msg, i)
    BY <1>1, <2>1 DEF HeldBy, InWorker
  <2> QED
    BY <1>1, <1>2, <2>1, <2>2 DEF Delivers
<1>8. IdleIsEmpty'
  BY <1>3, <1>4 DEF Promised, IdleIsEmpty, Keeps
<1>9. /\ host'.gen = host.gen /\ host'.loaded = host.loaded
      /\ (host'.pc = "loading" => host' = host) /\ (host.pc = "loading" => host' = host)
      /\ (host'.pc \in {"sending", "waiting"} => host' = host)
  BY <1>2, HostReturnsType
<1>10. \A n \in Modules, k \in Generations : <<n, k>> \in Indices
  BY DEF Indices
<1>11. inst[u] # NotStarted
  BY <1>1, RecordTypes
<1>12. Fresh'
  <2>1. \A n \in Modules, k \in Generations : ToStart(n, k)' => ToStart(n, k)
    BY <1>9 DEF ToStart
  <2> QED
    BY <1>4, <1>10, <1>11, <2>1 DEF Promised, Fresh, Keeps
<1>13. Retired'
  <2> SUFFICES ASSUME NEW n \in Modules, NEW k \in Generations
               PROVE  /\ HasShutdown(inst'[<<n, k>>].q) => k < host.gen /\ workers[n] # k
                      /\ ShutdownIsLast(inst'[<<n, k>>].q)
    BY <1>2, <1>9 DEF Retired
  <2>1. /\ HasShutdown(inst[<<n, k>>].q) => k < host.gen /\ workers[n] # k
        /\ ShutdownIsLast(inst[<<n, k>>].q)
    BY DEF Promised, Retired
  <2>2. CASE <<n, k>> = u
    BY <1>3, <2>1, <2>2
  <2>3. CASE <<n, k>> # u
    BY <1>4, <1>10, <2>1, <2>3 DEF Keeps
  <2> QED
    BY <2>2, <2>3
<1>14. ListIsCurrent'
  <2>1. CASE host' = host
    BY <1>2, <2>1 DEF Promised, ListIsCurrent
  <2>2. CASE host' = HostReturns /\ host.pc = "waiting"
    <3>1. host'.pc = "recv"
      BY <2>2, HostReturnsType
    <3> QED
      BY <1>2, <1>9, <2>2, <3>1 DEF Promised, ListIsCurrent
  <2> QED
    BY <1>2, <2>1, <2>2
<1> QED
  BY <1>6, <1>7, <1>8, <1>12, <1>13, <1>14 DEF Promised, Held

LEMMA NextKeeps ==
    ASSUME TypeOK, Promised, [Next]_vars
    PROVE  Promised'
<1>1. CASE UNCHANGED vars
  BY <1>1 DEF vars, Promised, Held, NotYet, IdleIsEmpty, Fresh, ToStart, ListIsCurrent, Retired
<1>2. CASE HostSteps \/ \E m \in Modules : HostMisses(m)
  BY <1>2, HostTakesQuietly, HostDeliveryKeeps, HostReloadsKeeps, HostLoadingKeeps, HostPublishesKeeps
     DEF HostSteps
<1>3. CASE Workers \/ \E g \in Generations, t \in Modules : CallerLooksUp(g, t)
  <2>1. Caller \in Modules
    BY QueueAssumption
  <2> QED
    BY <1>3, <2>1, WorkerMovesKeep, WorkerFinishesKeeps DEF Workers, WorkerSteps
<1> QED
  BY <1>1, <1>2, <1>3, EnvironmentKeeps DEF Next

LEMMA InitPromised ==
    ASSUME Init
    PROVE  Promised
<1>1. /\ hostq = <<>> /\ inst = [w \in Indices |-> NotStarted] /\ answered = [i \in Items |-> "none"]
      /\ workers = NoneLoaded /\ host = Loading(1, InDirectory)
  BY DEF Init, Indices
<1>2. NotStarted.q = <<>> /\ NotStarted.doing = NoMessage
  BY RecordTypes
<1>3. Held
  BY <1>1, <1>2, EmptyQueue, EmptyWorker, HeldNowhere DEF Held
<1>4. NotYet /\ IdleIsEmpty
  BY <1>1, <1>2 DEF NotYet, IdleIsEmpty
<1>5. \A m \in Modules, g \in Generations : inst[<<m, g>>] = NotStarted
  BY <1>1 DEF Indices
<1>6. Fresh
  BY <1>5 DEF Fresh
<1>7. Retired
  BY <1>2, <1>5, EmptyQueue DEF Retired
<1>8. ListIsCurrent
  BY <1>1 DEF ListIsCurrent, Loading, NoneLoaded
<1> QED
  BY <1>3, <1>4, <1>6, <1>7, <1>8 DEF Promised

-----------------------------------------------------------------------------
(* What the invariant says of places.                                      *)

LEMMA HeldIsHeldOnce ==
    ASSUME TypeOK, Held
    PROVE  HeldOnce
<1> SUFFICES ASSUME NEW id \in Items
             PROVE  LET held == {p \in Places : Delivers(MessageAt(p), id)}
                    IN  IF answered[id] = "open" THEN \E p \in Places : held = {p} ELSE held = {}
  BY DEF HeldOnce
<1> DEFINE held == {p \in Places : Delivers(MessageAt(p), id)}
<1>1. /\ OnceIn(hostq, id)
      /\ \A w \in Indices : OnceWithin(inst[w], id)
      /\ \A w \in Indices : ~(InQueue(hostq, id) /\ InWorker(inst[w], id))
      /\ \A v, w \in Indices : InWorker(inst[v], id) /\ InWorker(inst[w], id) => v = w
      /\ (InQueue(hostq, id) \/ \E w \in Indices : InWorker(inst[w], id)) <=> answered[id] = "open"
  BY DEF Held, HeldBy
<1>2. DOMAIN inst = Indices /\ Nobody \notin Indices
  BY HostParts, NobodyIsNoIndex
<1>3. ASSUME NEW w \in Indices
      PROVE  DOMAIN inst[w].q = 1 .. Len(inst[w].q) /\ Len(inst[w].q) \in Nat
  <2>1. inst[w].q \in Seq(Messages)
    BY HostParts, RecordParts
  <2> QED
    BY <2>1
<1>4. \A i \in DOMAIN hostq : <<Nobody, i>> \in Places /\ MessageAt(<<Nobody, i>>) = hostq[i]
  BY DEF Places, MessageAt
<1>5. ASSUME NEW w \in Indices
      PROVE  /\ <<w, 0>> \in Places /\ MessageAt(<<w, 0>>) = inst[w].doing
             /\ \A i \in DOMAIN inst[w].q : <<w, i>> \in Places /\ MessageAt(<<w, i>>) = inst[w].q[i]
  <2>1. 0 \in 0 .. Len(inst[w].q) /\ \A i \in DOMAIN inst[w].q : i \in 0 .. Len(inst[w].q) /\ i # 0
    BY <1>3
  <2>2. \A i \in 0 .. Len(inst[w].q) : <<w, i>> \in Places
    BY <1>2 DEF Places
  <2> QED
    BY <1>2, <2>1, <2>2 DEF MessageAt
<1>6. ASSUME NEW p \in Places
      PROVE  \/ \E i \in DOMAIN hostq : p = <<Nobody, i>>
             \/ \E w \in Indices : p = <<w, 0>> \/ \E i \in DOMAIN inst[w].q : p = <<w, i>>
  <2>1. CASE p \in {Nobody} \X DOMAIN hostq
    BY <2>1
  <2>2. ASSUME NEW w \in Indices, p \in {w} \X (0 .. Len(inst[w].q))
        PROVE  p = <<w, 0>> \/ \E i \in DOMAIN inst[w].q : p = <<w, i>>
    BY <1>3, <2>2
  <2> QED
    BY <1>2, <2>1, <2>2 DEF Places
<1>7. ASSUME NEW p \in Places, NEW x \in Places, p \in held, x \in held
      PROVE  p = x
  <2>1. Delivers(MessageAt(p), id) /\ Delivers(MessageAt(x), id)
    BY <1>7
  <2>2. ASSUME NEW i \in DOMAIN hostq, p = <<Nobody, i>>
        PROVE  p = x
    <3>1. InQueue(hostq, id) /\ Delivers(hostq[i], id)
      BY <1>4, <2>1, <2>2 DEF InQueue
    <3>2. ASSUME NEW w \in Indices, x = <<w, 0>> \/ \E j \in DOMAIN inst[w].q : x = <<w, j>>
          PROVE  FALSE
      <4>1. InWorker(inst[w], id)
        BY <1>5, <2>1, <3>2 DEF InWorker, InQueue
      <4> QED
        BY <1>1, <3>1, <4>1
    <3>3. PICK j \in DOMAIN hostq : x = <<Nobody, j>>
      BY <1>6, <3>2
    <3> QED
      BY <1>1, <1>4, <2>1, <2>2, <3>1, <3>3 DEF OnceIn
  <2>3. ASSUME NEW w \in Indices, p = <<w, 0>> \/ \E i \in DOMAIN inst[w].q : p = <<w, i>>
        PROVE  p = x
    <3>1. InWorker(inst[w], id)
      BY <1>5, <2>1, <2>3 DEF InWorker, InQueue
    <3>2. ASSUME NEW j \in DOMAIN hostq, x = <<Nobody, j>>
          PROVE  FALSE
      BY <1>1, <1>4, <2>1, <3>1, <3>2 DEF InQueue
    <3>3. PICK v \in Indices : x = <<v, 0>> \/ \E j \in DOMAIN inst[v].q : x = <<v, j>>
      BY <1>6, <3>2
    <3>4. InWorker(inst[v], id)
      BY <1>5, <2>1, <3>3 DEF InWorker, InQueue
    <3>5. v = w
      BY <1>1, <3>1, <3>4
    <3>6. OnceIn(inst[w].q, id) /\ ~(InQueue(inst[w].q, id) /\ Delivers(inst[w].doing, id))
      BY <1>1 DEF OnceWithin
    <3>7. ASSUME NEW i \in DOMAIN inst[w].q, p = <<w, i>> \/ x = <<w, i>>
          PROVE  Delivers(inst[w].q[i], id) /\ InQueue(inst[w].q, id)
      BY <1>5, <2>1, <3>7 DEF InQueue
    <3>8. p = <<w, 0>> \/ x = <<w, 0>> => Delivers(inst[w].doing, id)
      BY <1>5, <2>1
    <3>9. CASE \E i, j \in DOMAIN inst[w].q : p = <<w, i>> /\ x = <<w, j>>
      BY <3>6, <3>7, <3>9 DEF OnceIn
    <3>10. CASE p = <<w, 0>> /\ x = <<w, 0>>
      BY <3>10
    <3> QED
      BY <2>3, <3>3, <3>5, <3>6, <3>7, <3>8, <3>9, <3>10
  <2> QED
    BY <1>6, <2>2, <2>3
<1>8. ASSUME answered[id] = "open"
      PROVE  \E p \in Places : held = {p}
  <2>1. \E p \in Places : Delivers(MessageAt(p), id)
    <3>1. CASE InQueue(hostq, id)
      BY <1>4, <3>1 DEF InQueue
    <3>2. ASSUME NEW w \in Indices, InWorker(inst[w], id)
          PROVE  \E p \in Places : Delivers(MessageAt(p), id)
      BY <1>5, <3>2 DEF InWorker, InQueue
    <3> QED
      BY <1>1, <1>8, <3>1, <3>2
  <2> QED
    BY <1>7, <2>1
<1>9. ASSUME answered[id] # "open"
      PROVE  held = {}
  <2> SUFFICES ASSUME NEW p \in Places, Delivers(MessageAt(p), id)
               PROVE  FALSE
    OBVIOUS
  <2>1. ~InQueue(hostq, id) /\ \A w \in Indices : ~InWorker(inst[w], id)
    BY <1>1, <1>9
  <2>2. ASSUME NEW i \in DOMAIN hostq, p = <<Nobody, i>>
        PROVE  FALSE
    BY <1>4, <2>1, <2>2 DEF InQueue
  <2>3. ASSUME NEW w \in Indices, p = <<w, 0>> \/ \E i \in DOMAIN inst[w].q : p = <<w, i>>
        PROVE  FALSE
    <3>1. InWorker(inst[w], id)
      BY <1>5, <2>3 DEF InWorker, InQueue
    <3> QED
      BY <2>1, <3>1
  <2> QED
    BY <1>6, <2>2, <2>3
<1> QED
  BY <1>8, <1>9

(* Whatever is loaded, reloaded, full or failing, a delivery is in one     *)
(* place until it is answered and nowhere after, and nothing that was      *)
(* accepted stands behind a worker's Shutdown.                             *)
THEOREM DeliveriesStayHeld == Spec => []DeliveriesAreHeld
<1>1. Init => TypeOK /\ Promised
  BY InitType, InitPromised
<1>2. (TypeOK /\ Promised) /\ [Next]_vars => (TypeOK /\ Promised)'
  BY NextType, NextKeeps
<1>3. TypeOK /\ Promised => DeliveriesAreHeld
  <2> SUFFICES ASSUME TypeOK, Promised
               PROVE  DeliveriesAreHeld
    OBVIOUS
  <2>1. HeldOnce
    BY HeldIsHeldOnce DEF Promised
  <2>2. DOMAIN inst = Indices /\ \A w \in Indices : w = <<w[1], w[2]>> /\ w[1] \in Modules /\ w[2] \in Generations
    BY HostParts DEF Indices
  <2>3. \A w \in Indices : ShutdownIsLast(inst[w].q)
    BY <2>2 DEF Promised, Retired
  <2>4. ShutdownComesLast
    BY <2>2, <2>3 DEF ShutdownComesLast, ShutdownIsLast
  <2> QED
    BY <2>1, <2>4 DEF DeliveriesAreHeld
<1> QED
  BY <1>1, <1>2, <1>3, PTL DEF Spec
=============================================================================
