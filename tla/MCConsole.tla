----------------------------- MODULE MCConsole -----------------------------
(* The scheduler, for which the module host is abstract, and what the console *)
(* changes beside a running bot, for TLC.  They share no state here, so a     *)
(* behaviour is one of one of them.                                           *)
EXTENDS Scheduler

CONSTANTS
  \* of Registry, whose modules are the scheduler's
  Host, Names, HostName, Manifests, Values, Prefixes, Bang, MaxLoads, MaxChanges,
  \* of Console; Rows are the keys of a module's rows
  Spellings, Cased, Accounts, NoAccount, Hosts, ProfileFields, Titles, People, Subject, Rows,
  MaxSaves, MaxEdits, MaxDeeds,
  \* of Backups
  WeekDays, MonthDays, RemoteFrom, Keeps, MaxNow, MaxRuns, MaxForms, MaxCuts,
  \* of both of the console's
  MaxMishaps

VARIABLES active, db, world

consoleVars == <<db, world>>

Registry == INSTANCE Registry WITH MaxEdits <- MaxChanges
Console  == INSTANCE Console WITH Keys <- Rows, Fields <- ProfileFields
Backups  == INSTANCE Backups WITH MaxSaves <- MaxForms

ASSUME RegistryConstants == Registry!RegistryAssumption
ASSUME ConsoleConstants == Console!ConsoleAssumption
ASSUME BackupsConstants == Backups!BackupsAssumption

\* The host's command, 2, is between the two a module may declare.
TwoManifests ==
  {[name |-> 1, aliases |-> {3}, shortcuts |-> {3}, scopes |-> {"channel", "network"}, valid |-> {"low"}, default |-> "low"],
   [name |-> 3, aliases |-> {1}, shortcuts |-> {}, scopes |-> {"network"}, valid |-> {"high"}, default |-> "high"]}

ConsoleInit ==
  /\ Init
  /\ \/ active = "scheduler" /\ db = <<>> /\ world = <<>>
     \/ active = "registry" /\ Registry!Init
     \/ active \in {"roles", "repairs"} /\ Console!Init
     \/ active = "backups" /\ Backups!Init

ConsoleSteps ==
  \/ active = "registry" /\ Registry!Next
  \* the two halves of the console share nothing
  \/ active = "roles" /\ Console!Roles
  \/ active = "repairs" /\ (Console!Meanwhile \/ Console!Repairs)
  \/ active = "backups" /\ Backups!Next

ConsoleNext ==
  /\ UNCHANGED active
  /\ \/ active = "scheduler" /\ Next /\ UNCHANGED consoleVars
     \/ ConsoleSteps /\ UNCHANGED vars

\* The scheduler's fairness (see there).
ConsoleSpec ==
  /\ ConsoleInit /\ [][ConsoleNext]_<<active, consoleVars, vars>>
  /\ WF_vars(active = "scheduler" /\ Thread)
  /\ WF_vars(active = "scheduler" /\ Tick)
  /\ \A s \in Slots : WF_vars(active = "scheduler" /\ \E ok \in BOOLEAN : Complete(s, ok))
  /\ \A k \in Keys : SF_vars(active = "scheduler" /\ SucceedFor(k))

\* What the console changes takes effect where it was checked, gives trust once, and can be undone;
\* what is backed up stays until there is something newer.
ConsoleIsSafe ==
  /\ [](/\ active = "registry" => Registry!RegistryIsSound
        /\ active \in {"roles", "repairs"} => Console!ConsoleIsCareful
        /\ active = "backups" => Backups!BackupsAreKept)
  /\ [][/\ active = "registry" => Registry!EditsHold
        /\ active = "repairs" => Console!RepairsCanBeUndone
        /\ active = "backups" => Backups!PointsStand]_<<active, db, world>>
=============================================================================
