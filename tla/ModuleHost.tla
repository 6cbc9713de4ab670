----------------------------- MODULE ModuleHost -----------------------------
(***************************************************************************)
(* The module host of crates/jeeves/src/modules: the forwarder task and    *)
(* the directory watcher feed one bounded queue; the module thread drains  *)
(* it, hands events, timers and operator commands to one worker thread per *)
(* loaded WASM module, and loads the directory again on request.  A worker *)
(* holding the `run_commands` capability may run another module's command  *)
(* and wait for what it says.                                              *)
(*                                                                         *)
(* A guest call is opaque: it starts, may run another module's command     *)
(* once, and ends in success or failure before its execution deadline.     *)
(* Deadlines are choices a waiting thread may take at any moment.          *)
(***************************************************************************)
EXTENDS Naturals, Sequences

CONSTANTS
    Modules,        \* names of the WASM files that may be in the directory
    NoModule,       \* the target of text that is no known command
    Caller,         \* the module holding `run_commands` (ai)
    Disabled,       \* modules whose `enabled` setting is false
    JoinEvents,     \* modules holding the `join_events` capability
    HostQueue,      \* size of the module thread's queue (512 in the code)
    WorkerQueue,    \* size of a worker's queue (64 in the code)
    Edited,         \* bound: modules whose files change
    Traffic,        \* bound: kinds and targets of the items that arrive
    MaxItems,       \* bound: events, timers and operator commands arriving
    MaxTroubles,    \* bound: file changes, reloads by command and missed
                    \* startup handshakes, together
    MaxArrivals     \* bound: items and troubles together

ASSUME QueueAssumption ==
    /\ HostQueue \in Nat \ {0} /\ WorkerQueue \in Nat \ {0}
    /\ Caller \in Modules /\ NoModule \notin Modules
    /\ Disabled \subseteq Modules /\ JoinEvents \subseteq Modules /\ Edited \subseteq Modules
    /\ Traffic \subseteq {"message", "private", "join", "scheduled", "admin"}
                         \X (Modules \cup {NoModule})
    /\ \A t \in Traffic : IF t[1] \in {"scheduled", "admin"} THEN t[2] \in Modules
                          ELSE t[1] = "join" => t[2] = NoModule
    /\ MaxItems \in Nat /\ MaxTroubles \in Nat /\ MaxArrivals \in Nat

VARIABLES
    file,       \* what the directory holds for each module: Absent, Torn or a version
    changed,    \* the watcher has unread change notices
    watcher,    \* "quiet", or "sending" its debounced reload
    hostq,      \* the module thread's queue
    host,       \* what the module thread is doing
    workers,    \* the module thread's worker list: module -> generation, 0 when not loaded
    senders,    \* the shared map `run_command` reads: module -> generation
    published,  \* modules whose commands the registry resolves
    inst,       \* the worker threads, by module and generation
    answered,   \* the answer given to the scheduler for each delivery
    budget      \* what the environment may still do

vars == <<file, changed, watcher, hostq, host, workers, senders, published, inst,
          answered, budget>>

Items       == 1 .. MaxItems
MaxGens     == 1 + MaxTroubles      \* bound, never met: each reload has a trouble of its own
Generations == 1 .. MaxGens
Absent      == 0
Torn        == MaxTroubles + 2      \* a file some copy has only begun to write
Versions    == 1 .. MaxTroubles + 1

-----------------------------------------------------------------------------
(* Messages.  `target` is the module a command, a timer or an operator's   *)
(* request is for; `source` is the generation of the caller of a capture.  *)

Kinds == {"message", "private", "join", "scheduled", "admin", "reload",
          "capture", "shutdown"}

Message(kind, id, target, source) ==
    [kind |-> kind, id |-> id, target |-> target, source |-> source]

Reload   == Message("reload", 0, NoModule, 0)
Shutdown == Message("shutdown", 0, NoModule, 0)

Messages == [kind : Kinds, id : 0 .. MaxItems, target : Modules \cup {NoModule},
             source : 0 .. MaxGens]

IsEvent(msg) == msg.kind \in {"message", "private", "join"}
NoMessage    == Message("shutdown", 0, NoModule, 0)

Room(q, size) == Len(q) < size

\* A worker thread: its queue, the message it runs and how far that call is;
\* `asked` is the worker whose queue a run_command took from `senders`.
Nobody == <<NoModule, 0>>
NotStarted == [state |-> "none", q |-> <<>>, doing |-> NoMessage, phase |-> "idle",
               asked |-> Nobody, version |-> Absent]
Started(v) == [NotStarted EXCEPT !.state = "running", !.version = v]
Gone       == [NotStarted EXCEPT !.state = "stopped"]

Running(m, g) == inst[<<m, g>>].state = "running"

\* Mutant: the queue has no bound.
AcceptsAlways(m, g) == Running(m, g)

\* try_send: the queue is full, or the receiver is gone.
Accepts(m, g) == Running(m, g) /\ Room(inst[<<m, g>>].q, WorkerQueue)
Put(worker, msg) == [worker EXCEPT !.q = Append(@, msg)]

\* Someone still holds the sending half of the queue of worker <<m, g>>.
HasSender(m, g) ==
    \/ workers[m] = g
    \/ senders[m] = g
    \/ host.pc = "loading" /\ host.loaded[m] = g
    \/ \E c \in Generations : inst[<<Caller, c>>].asked = <<m, g>>

-----------------------------------------------------------------------------
NoneLoaded == [m \in Modules |-> 0]

\* load_all reads the names in the directory once, then loads them one by one.
Loading(gen, names) ==
    [pc |-> "loading", gen |-> gen, left |-> names, loaded |-> NoneLoaded, msg |-> NoMessage]

InDirectory == {m \in Modules : file[m] # Absent}

Init ==
    /\ file \in [Modules -> {1, Torn}] /\ \A m \in Modules \ Edited : file[m] = 1
    /\ changed = FALSE
    /\ watcher = "quiet"
    /\ hostq = <<>>
    /\ host = Loading(1, InDirectory)
    /\ workers = NoneLoaded
    /\ senders = NoneLoaded
    /\ published = {}
    /\ inst = [w \in Modules \X Generations |-> NotStarted]
    /\ answered = [i \in Items |-> "none"]
    /\ budget = [items |-> 0, troubles |-> 0, missed |-> FALSE]

Calm       == budget.items + budget.troubles < MaxArrivals
MayArrive  == Calm /\ budget.items < MaxItems
MayTrouble == Calm /\ budget.troubles < MaxTroubles
Item       == budget' = [budget EXCEPT !.items = @ + 1]
Trouble    == MayTrouble /\ budget' = [budget EXCEPT !.troubles = @ + 1]

-----------------------------------------------------------------------------
(* The directory and its watcher.                                          *)

Change(m, content) ==
    /\ file' = [file EXCEPT ![m] = content]
    /\ changed' = TRUE
    /\ UNCHANGED <<watcher, hostq, host, workers, senders, published, inst, answered>>

\* A copy creates or truncates the file before it is whole.
BeginWrite(m) == file[m] # Torn /\ Trouble /\ Change(m, Torn)
EndWrite(m)   == file[m] = Torn /\ Trouble /\ Change(m, budget.troubles + 2)
RemoveFile(m) == file[m] # Absent /\ Trouble /\ Change(m, Absent)

\* The burst of notices has ended: one reload for all of them.
WatcherSettles ==
    /\ watcher = "quiet" /\ changed
    /\ changed' = FALSE
    /\ watcher' = "sending"
    /\ UNCHANGED <<file, hostq, host, workers, senders, published, inst, answered, budget>>

\* Mutant: the watcher gives up on a full queue, as the forwarder does.
WatcherTries ==
    /\ watcher = "sending"
    /\ hostq' = IF Room(hostq, HostQueue) THEN Append(hostq, Reload) ELSE hostq
    /\ watcher' = "quiet"
    /\ UNCHANGED <<file, changed, host, workers, senders, published, inst, answered, budget>>

\* The watcher's send blocks while the queue is full.
WatcherSends ==
    /\ watcher = "sending"
    /\ Room(hostq, HostQueue)
    /\ hostq' = Append(hostq, Reload)
    /\ watcher' = "quiet"
    /\ UNCHANGED <<file, changed, host, workers, senders, published, inst, answered, budget>>

-----------------------------------------------------------------------------
(* The forwarder: it takes an event, a control signal or a delivery from   *)
(* whichever channel has one and never waits.                              *)

Arrives(kind, target) == Message(kind, budget.items + 1, target, 0)

HostQueueOnly == UNCHANGED <<file, changed, watcher, host, workers, senders, published, inst>>

\* A full queue drops the event.
ForwardEvent(kind, target) ==
    /\ MayArrive /\ kind \in {"message", "private", "join"}
    /\ hostq' = IF Room(hostq, HostQueue) THEN Append(hostq, Arrives(kind, target)) ELSE hostq
    /\ Item
    /\ HostQueueOnly /\ UNCHANGED answered

\* Mutant: a delivery that finds the queue full is dropped like an event.
ForwardDeliveryLossy(kind, m) ==
    /\ MayArrive /\ kind = "scheduled"
    /\ hostq' = IF Room(hostq, HostQueue) THEN Append(hostq, Arrives("scheduled", m)) ELSE hostq
    /\ answered' = [answered EXCEPT ![budget.items + 1] = "open"]
    /\ Item
    /\ HostQueueOnly

\* A full queue answers the delivery at once (reject_scheduled_error).
ForwardDelivery(kind, m) ==
    /\ MayArrive /\ kind = "scheduled"
    /\ IF Room(hostq, HostQueue)
         THEN /\ hostq' = Append(hostq, Arrives("scheduled", m))
              /\ answered' = [answered EXCEPT ![budget.items + 1] = "open"]
         ELSE /\ answered' = [answered EXCEPT ![budget.items + 1] = "failed"]
              /\ UNCHANGED hostq
    /\ Item
    /\ HostQueueOnly

\* A full queue loses the reload asked for by command.
ForwardReload ==
    /\ hostq' = IF Room(hostq, HostQueue) THEN Append(hostq, Reload) ELSE hostq
    /\ Trouble
    /\ HostQueueOnly /\ UNCHANGED answered

\* An operator's command waits for room in the queue.
OperatorAsks(kind, m) ==
    /\ MayArrive /\ kind = "admin"
    /\ Room(hostq, HostQueue)
    /\ hostq' = Append(hostq, Arrives("admin", m))
    /\ Item
    /\ HostQueueOnly /\ UNCHANGED answered

-----------------------------------------------------------------------------
(* The module thread.                                                      *)

Loaded == {m \in Modules : workers[m] # 0}

\* dispatch: who hears an event, and whose queue has room for it.  A local
\* rule may drop a command before its owner gets it.
Hears(m, msg, ruled) ==
    LET targeted == msg.target = m
    IN  /\ m \in Loaded
        /\ msg.kind = "join" => m \in JoinEvents
        /\ (msg.kind = "private" /\ msg.target \in published) => targeted
        /\ m \in Disabled => targeted
        /\ targeted => ~ruled

Dispatch(msg, ruled) ==
    [w \in DOMAIN inst |->
        IF /\ workers[w[1]] = w[2] /\ Hears(w[1], msg, ruled)
           /\ Accepts(w[1], w[2])
          THEN Put(inst[w], msg)
          ELSE inst[w]]

HostEvent(ruled) ==
    /\ host.pc = "recv" /\ hostq # <<>> /\ IsEvent(Head(hostq))
    /\ ruled => Head(hostq).kind = "message" /\ Head(hostq).target \in published
    /\ inst' = Dispatch(Head(hostq), ruled)
    /\ hostq' = Tail(hostq)
    /\ UNCHANGED <<file, changed, watcher, host, workers, senders, published, answered, budget>>

\* dispatch_scheduled: an ignored owner, a module that is not loaded and a
\* full worker queue all answer the delivery with a failure.
HostDelivery(ignored) ==
    LET msg == Head(hostq)
        m   == msg.target
        g   == workers[m]
    IN  /\ host.pc = "recv" /\ hostq # <<>> /\ msg.kind = "scheduled"
        /\ hostq' = Tail(hostq)
        /\ IF ~ignored /\ m \in Loaded /\ Accepts(m, g)
             THEN inst' = [inst EXCEPT ![<<m, g>>] = Put(@, msg)] /\ UNCHANGED answered
             ELSE answered' = [answered EXCEPT ![msg.id] = "failed"] /\ UNCHANGED inst
        /\ UNCHANGED <<file, changed, watcher, host, workers, senders, published, budget>>

\* An operator's command for a module that is not loaded is refused; for a
\* loaded one the thread first waits for room in the worker's queue...
HostCommand ==
    /\ host.pc = "recv" /\ hostq # <<>> /\ Head(hostq).kind = "admin"
    /\ hostq' = Tail(hostq)
    /\ host' = IF Head(hostq).target \in Loaded
                 THEN [host EXCEPT !.pc = "sending", !.msg = Head(hostq)] ELSE host
    /\ UNCHANGED <<file, changed, watcher, workers, senders, published, inst, answered, budget>>

HostReturns == [host EXCEPT !.pc = "recv", !.msg = NoMessage]

HostSends ==
    LET m == host.msg.target
    IN  /\ host.pc = "sending"
        /\ Accepts(m, workers[m])
        /\ inst' = [inst EXCEPT ![<<m, workers[m]>>] = Put(@, host.msg)]
        /\ host' = [host EXCEPT !.pc = "waiting"]
        /\ UNCHANGED <<file, changed, watcher, hostq, workers, senders, published, answered, budget>>

\* ...and then for the reply, which it gives up after twenty seconds.
HostGivesUp ==
    /\ host.pc = "waiting"
    /\ host' = HostReturns
    /\ UNCHANGED <<file, changed, watcher, hostq, workers, senders, published, inst, answered, budget>>

\* A reload: the new workers are started while the old ones still run.
HostReloads ==
    /\ host.pc = "recv" /\ hostq # <<>> /\ Head(hostq) = Reload
    /\ host.gen < MaxGens
    /\ hostq' = Tail(hostq)
    /\ host' = Loading(host.gen + 1, InDirectory)
    /\ UNCHANGED <<file, changed, watcher, workers, senders, published, inst, answered, budget>>

\* The names are sorted: which order does not matter, that it is one does.
NextToLoad(m) == host.pc = "loading" /\ host.left # {} /\ m = CHOOSE n \in host.left : TRUE

\* Mutant: the shared map keeps the first sender it was given.
HostLoadsKeepingSender(m) ==
    /\ NextToLoad(m)
    /\ file[m] \in Versions
    /\ inst' = [inst EXCEPT ![<<m, host.gen>>] = Started(file[m])]
    /\ senders' = [senders EXCEPT ![m] = IF @ = 0 THEN host.gen ELSE @]
    /\ host' = [host EXCEPT !.left = @ \ {m}, !.loaded[m] = host.gen]
    /\ UNCHANGED <<file, changed, watcher, hostq, workers, published, answered, budget>>

\* spawn_worker: a whole file starts a worker and enters it in `senders`.
HostLoads(m) ==
    /\ NextToLoad(m)
    /\ file[m] \in Versions
    /\ inst' = [inst EXCEPT ![<<m, host.gen>>] = Started(file[m])]
    /\ senders' = [senders EXCEPT ![m] = host.gen]
    /\ host' = [host EXCEPT !.left = @ \ {m}, !.loaded[m] = host.gen]
    /\ UNCHANGED <<file, changed, watcher, hostq, workers, published, answered, budget>>

\* A file that cannot be read or instantiated is left out.
HostSkips(m) ==
    /\ NextToLoad(m)
    /\ file[m] \notin Versions
    /\ host' = [host EXCEPT !.left = @ \ {m}]
    /\ UNCHANGED <<file, changed, watcher, hostq, workers, senders, published, inst, answered, budget>>

\* So is one whose worker is not ready within 25 seconds: its thread finds
\* the queue disconnected as soon as it is.
HostMisses(m) ==
    /\ NextToLoad(m)
    /\ file[m] \in Versions
    /\ inst' = [inst EXCEPT ![<<m, host.gen>>] = Gone]
    /\ host' = [host EXCEPT !.left = @ \ {m}]
    /\ MayTrouble /\ budget' = [budget EXCEPT !.troubles = @ + 1, !.missed = TRUE]
    /\ UNCHANGED <<file, changed, watcher, hostq, workers, senders, published, answered>>

\* All loaded: the old workers are told to stop if their queue has room, and
\* the new list and its commands are published.
SendShutdown ==
    [w \in DOMAIN inst |->
        IF workers[w[1]] = w[2] /\ Accepts(w[1], w[2]) THEN Put(inst[w], Shutdown) ELSE inst[w]]

\* Mutant: a module that failed to load keeps the worker it had.
HostPublishesKeeping ==
    /\ host.pc = "loading" /\ host.left = {}
    /\ inst' = SendShutdown
    /\ workers' = [m \in Modules |-> IF host.loaded[m] = 0 THEN workers[m] ELSE host.loaded[m]]
    /\ published' = {m \in Modules : host.loaded[m] # 0}
    /\ host' = [HostReturns EXCEPT !.loaded = NoneLoaded]
    /\ UNCHANGED <<file, changed, watcher, hostq, senders, answered, budget>>

HostPublishes ==
    /\ host.pc = "loading" /\ host.left = {}
    /\ inst' = SendShutdown
    /\ workers' = host.loaded
    /\ published' = {m \in Modules : host.loaded[m] # 0}
    /\ host' = [HostReturns EXCEPT !.loaded = NoneLoaded]
    /\ UNCHANGED <<file, changed, watcher, hostq, senders, answered, budget>>

HostSteps ==
    \/ HostCommand \/ HostSends \/ HostGivesUp \/ HostReloads \/ HostPublishes
    \/ \E ruled \in BOOLEAN : HostEvent(ruled)
    \/ \E ignored \in BOOLEAN : HostDelivery(ignored)
    \/ \E m \in Modules : HostLoads(m) \/ HostSkips(m)

-----------------------------------------------------------------------------
(* A worker thread.                                                        *)

WorkerOnly == UNCHANGED <<file, changed, watcher, hostq, workers, senders, published, budget>>

WorkerTakes(m, g) ==
    LET w == inst[<<m, g>>]
    IN  /\ Running(m, g) /\ w.phase = "idle" /\ w.q # <<>>
        /\ inst' = [inst EXCEPT ![<<m, g>>] =
                       IF Head(w.q) = Shutdown THEN Gone
                       ELSE [w EXCEPT !.q = Tail(w.q), !.doing = Head(w.q), !.phase = "call"]]
        /\ WorkerOnly /\ UNCHANGED <<host, answered>>

\* Every sender is gone and the queue is empty: recv fails and the loop ends.
WorkerDisconnects(m, g) ==
    /\ Running(m, g) /\ inst[<<m, g>>].phase = "idle" /\ inst[<<m, g>>].q = <<>>
    /\ ~HasSender(m, g)
    /\ inst' = [inst EXCEPT ![<<m, g>>] = Gone]
    /\ WorkerOnly /\ UNCHANGED <<host, answered>>

\* run_command: only the caller's own hooks use it, for another module's
\* command that the registry knows and whose queue `senders` names.
CallerLooksUp(g, t) ==
    LET w == inst[<<Caller, g>>]
    IN  /\ w.phase = "call" /\ w.doing.kind # "capture"
        /\ t # Caller /\ t \in published /\ senders[t] # 0
        /\ inst' = [inst EXCEPT ![<<Caller, g>>] =
                       [w EXCEPT !.phase = "asking", !.asked = <<t, senders[t]>>]]
        /\ WorkerOnly /\ UNCHANGED <<host, answered>>

\* The queue it took may be full, or closed since: "unavailable".
CallerAsks(g) ==
    LET w   == inst[<<Caller, g>>]
        t   == w.asked
        msg == Message("capture", w.doing.id, t[1], g)
    IN  /\ w.phase = "asking"
        /\ inst' = IF Accepts(t[1], t[2])
                     THEN LET asking == [inst EXCEPT ![<<Caller, g>>].phase = "waiting"]
                          IN  [asking EXCEPT ![t] = Put(@, msg)]
                     ELSE [inst EXCEPT ![<<Caller, g>>] =
                              [w EXCEPT !.phase = "called", !.asked = Nobody]]
        /\ WorkerOnly /\ UNCHANGED <<host, answered>>

\* Fifteen seconds passed, or the asked worker dropped the request.
CallerGivesUp(g) ==
    /\ inst[<<Caller, g>>].phase = "waiting"
    /\ inst' = [inst EXCEPT ![<<Caller, g>>] = [@ EXCEPT !.phase = "called", !.asked = Nobody]]
    /\ WorkerOnly /\ UNCHANGED <<host, answered>>

\* The call returns, or traps: a timer is answered, a waiting caller gets its
\* lines, a waiting module thread its reply.
Done(w) == [w EXCEPT !.doing = NoMessage, !.phase = "idle", !.asked = Nobody]

StillWaits(msg) ==
    LET c == inst[<<Caller, msg.source>>]
    IN  msg.kind = "capture" /\ c.phase = "waiting" /\ c.doing.id = msg.id

\* Mutant: a hook that fails leaves its timer unanswered.
WorkerFinishesOnSuccess(m, g, ok) ==
    LET w   == inst[<<m, g>>]
        msg == w.doing
        end == [inst EXCEPT ![<<m, g>>] = Done(w)]
    IN  /\ w.phase \in {"call", "called"}
        /\ inst' = IF StillWaits(msg)
                     THEN [end EXCEPT ![<<Caller, msg.source>>] =
                              [@ EXCEPT !.phase = "called", !.asked = Nobody]]
                     ELSE end
        /\ answered' = IF msg.kind = "scheduled" /\ ok
                         THEN [answered EXCEPT ![msg.id] = "done"] ELSE answered
        /\ host' = IF msg.kind = "admin" /\ host.pc = "waiting" /\ host.msg.id = msg.id
                     THEN HostReturns ELSE host
        /\ WorkerOnly

WorkerFinishes(m, g, ok) ==
    LET w   == inst[<<m, g>>]
        msg == w.doing
        end == [inst EXCEPT ![<<m, g>>] = Done(w)]
    IN  /\ w.phase \in {"call", "called"}
        /\ inst' = IF StillWaits(msg)
                     THEN [end EXCEPT ![<<Caller, msg.source>>] =
                              [@ EXCEPT !.phase = "called", !.asked = Nobody]]
                     ELSE end
        /\ answered' = IF msg.kind = "scheduled"
                         THEN [answered EXCEPT ![msg.id] = IF ok THEN "done" ELSE "failed"]
                         ELSE answered
        /\ host' = IF msg.kind = "admin" /\ host.pc = "waiting" /\ host.msg.id = msg.id
                     THEN HostReturns ELSE host
        /\ WorkerOnly

WorkerSteps(m, g) ==
    \/ WorkerTakes(m, g) \/ WorkerDisconnects(m, g)
    \/ \E ok \in BOOLEAN : WorkerFinishes(m, g, ok)
    \/ m = Caller /\ (CallerAsks(g) \/ CallerGivesUp(g))

-----------------------------------------------------------------------------
Watcher == WatcherSettles \/ WatcherSends
Workers == \E m \in Modules, g \in Generations : WorkerSteps(m, g)

Environment ==
    \/ \E t \in Traffic :
          ForwardEvent(t[1], t[2]) \/ ForwardDelivery(t[1], t[2]) \/ OperatorAsks(t[1], t[2])
    \/ \E m \in Edited : BeginWrite(m) \/ EndWrite(m) \/ RemoveFile(m)
    \/ ForwardReload

Next ==
    \/ Environment
    \/ Watcher
    \/ HostSteps
    \/ \E m \in Modules : HostMisses(m)
    \/ Workers
    \/ \E g \in Generations, t \in Modules : CallerLooksUp(g, t)

Spec == Init /\ [][Next]_vars

\* The watcher, the module thread and the workers keep running, and each wait
\* has a deadline.  Nothing promises that a torn file is finished or that a
\* call uses run_command.  The workers need no fairness among themselves.
FairSpec == Spec /\ WF_vars(Watcher) /\ WF_vars(HostSteps) /\ WF_vars(Workers)

-----------------------------------------------------------------------------
(* Properties.                                                             *)

Phases == {"idle", "call", "asking", "waiting", "called"}

Queues(size) == {q \in Seq(Messages) : Len(q) <= size}

WorkerRecords == [state : {"none", "running", "stopped"}, q : Queues(WorkerQueue), doing : Messages,
                  phase : Phases, asked : (Modules \X Generations) \cup {Nobody},
                  version : Versions \cup {Absent}]

TypeOK ==
    /\ file \in [Modules -> Versions \cup {Absent, Torn}]
    /\ changed \in BOOLEAN /\ watcher \in {"quiet", "sending"}
    /\ hostq \in Queues(HostQueue)
    /\ host \in [pc : {"recv", "loading", "sending", "waiting"}, gen : Generations,
                 left : SUBSET Modules, loaded : [Modules -> 0 .. MaxGens], msg : Messages]
    /\ workers \in [Modules -> 0 .. MaxGens] /\ senders \in [Modules -> 0 .. MaxGens]
    /\ published \subseteq Modules
    /\ inst \in [Modules \X Generations -> WorkerRecords]
    /\ answered \in [Items -> {"none", "open", "done", "failed"}]
    /\ budget \in [items : 0 .. MaxItems, troubles : 0 .. MaxTroubles, missed : BOOLEAN]

\* Where a message may be: in the module thread's queue, in a worker's, or in its call.
Places == ({Nobody} \X DOMAIN hostq) \cup UNION {{w} \X (0 .. Len(inst[w].q)) : w \in DOMAIN inst}

MessageAt(p) ==
    IF p[1] = Nobody THEN hostq[p[2]]
    ELSE IF p[2] = 0 THEN inst[p[1]].doing ELSE inst[p[1]].q[p[2]]

Delivers(msg, id) == msg.kind = "scheduled" /\ msg.id = id

(* A delivery the scheduler handed over is in exactly one place until it   *)
(* is answered, and nowhere once it is: no full queue, reload or failed    *)
(* call loses a completion or leaves a second copy to be run.              *)
HeldOnce ==
    \A id \in Items :
        LET held == {p \in Places : Delivers(MessageAt(p), id)}
        IN  IF answered[id] = "open" THEN \E p \in Places : held = {p} ELSE held = {}

(* Nothing that was accepted stands behind the Shutdown of a worker, where *)
(* it would never run; only a run_command that took the old queue before   *)
(* the reload may, and it gives up.                                        *)
ShutdownComesLast ==
    \A w \in DOMAIN inst : \A i, j \in DOMAIN inst[w].q :
        (inst[w].q[i] = Shutdown /\ i < j) => inst[w].q[j].kind = "capture"

(* No full queue, reload or failed call loses a delivery's answer, or lets *)
(* it run twice; and nothing accepted stands behind a worker's Shutdown.   *)
DeliveriesAreHeld == HeldOnce /\ ShutdownComesLast

(* Every delivery is answered, whatever is loaded, full or failing, so the *)
(* scheduler gets its slot back.                                           *)
EveryDeliveryAnswered ==
    \A id \in Items : answered[id] = "open" ~> answered[id] # "open"

(* A worker replaced by a newer one drains its queue and stops, also when  *)
(* its queue was too full to take the Shutdown.                            *)
OldWorkers     == {w \in DOMAIN inst : Running(w[1], w[2]) /\ w[2] < workers[w[1]]}
OldWorkersStop == OldWorkers # {} ~> OldWorkers = {}

(* Nothing a queue holds is left behind: timers get their answer and replaced *)
(* workers their end.                                                         *)
QueuesAreDrained == EveryDeliveryAnswered /\ OldWorkersStop

LoadedVersion(m) == IF workers[m] = 0 THEN Absent ELSE inst[<<m, workers[m]>>].version

(* Once the directory is left alone, the workers run what it holds, even   *)
(* when a file changed while it was being loaded or the queue was full.    *)
DirectoryIsLoaded ==
    <>[](budget.missed \/ \A m \in Modules : LoadedVersion(m) = IF file[m] = Torn THEN Absent ELSE file[m])

(* "A slow plugin does not stop unrelated modules": while one module's     *)
(* hook runs, no timer for another module, whose worker has nothing to do, *)
(* is held back because the module thread waits for the first.             *)
HeldBack(m, slow) ==
    /\ host.pc \in {"sending", "waiting"} /\ host.msg.target = slow
    /\ inst[<<slow, workers[slow]>>].phase # "idle"
    /\ inst[<<m, workers[m]>>].phase = "idle" /\ inst[<<m, workers[m]>>].q = <<>>
    /\ hostq # <<>> /\ Head(hostq).kind = "scheduled" /\ Head(hostq).target = m

UnrelatedModulesRun ==
    \A m, slow \in Loaded : m # slow => ~HeldBack(m, slow)

=============================================================================
