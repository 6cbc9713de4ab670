------------------------------- MODULE MCHost -------------------------------
(* The module thread and its workers, for TLC: a behaviour is one of loading,  *)
(* dispatch and the answering of timers, or one of the erasures the same       *)
(* thread carries out, for which all of that is abstract.                      *)
EXTENDS ModuleHost

CONSTANTS ai, hunt, Persons, Admins, NoPerson, Absentee, MaxErasures, MaxEvents, MaxFaults, QueueCap

VARIABLES active, profiles, status, subject, requester, pending, registry, kv, late, loaded,
          queue, busy, inbound, thread, arrived, facts, target, scope, applied, confirmed, faults

\* A command for the caller, a timer and an operator's request for hunt.
MainTraffic == {<<"message", ai>>, <<"scheduled", hunt>>, <<"admin", hunt>>}

\* Everything else: talk, a private command, a join, a request for the caller.
OtherTraffic == {<<"message", NoModule>>, <<"message", hunt>>, <<"private", hunt>>, <<"join", NoModule>>,
                 <<"scheduled", hunt>>, <<"admin", ai>>}

Data == INSTANCE DataLifecycle
  WITH Nobody <- NoPerson, Absent <- Absentee, Overlap <- TRUE, MaxJobs <- MaxErasures, host <- thread

dataVars == <<profiles, status, subject, requester, pending, registry, kv, late, loaded, queue, busy,
              inbound, thread, arrived, facts, target, scope, applied, confirmed, faults>>

\* Whichever is idle stays in an initial state of its own.
Both ==
  /\ Init /\ Data!Init
  /\ \/ active = "erasure" /\ InDirectory = Modules /\ \A m \in Modules : file[m] # Torn
     \/ active = "host" /\ loaded = Modules

OneSteps ==
  \/ active = "host" /\ Next /\ UNCHANGED dataVars
  \/ active = "erasure" /\ Data!Next /\ UNCHANGED vars

\* The fairness of either (see there).
HostSpec ==
  /\ Both /\ [][OneSteps /\ UNCHANGED active]_<<active, vars, dataVars>>
  /\ WF_vars(active = "host" /\ Watcher)
  /\ WF_vars(active = "host" /\ HostSteps)
  /\ WF_vars(active = "host" /\ Workers)
  /\ WF_dataVars(active = "erasure" /\ Data!HostStep)
  /\ WF_dataVars(active = "erasure" /\ Data!Dispatch)
  /\ \A m \in Modules, t \in Data!Threads : WF_dataVars(active = "erasure" /\ Data!WorkerStep(m, t))
  /\ SF_dataVars(active = "erasure" /\ Data!Reload(Modules))

\* Once the directory is left alone, the workers run what it holds.
FilesAreLoaded == active = "host" => DirectoryIsLoaded

\* A confirmed erasure is carried out, whatever delays it.
ConfirmedIsCompleted == Data!ConfirmedIsCompleted

\* For what a busy module holds back: the host alone.
BusySpec ==
  /\ Init /\ Data!Init /\ loaded = Modules /\ active = "host"
  /\ [][Next /\ UNCHANGED <<active, dataVars>>]_<<active, vars, dataVars>>
=============================================================================
