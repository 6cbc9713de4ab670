------------------------------- MODULE Exports -------------------------------
(***************************************************************************)
(* What is stored about a person, written to a file (modules/mod.rs,       *)
(* data_lifecycle.rs): "!mydata export" by the person, "!data <nick>       *)
(* export" by a super-admin, and --export-profile beside the bot.  The     *)
(* module thread asks one worker after another, and the workers meanwhile  *)
(* handle what was queued for them; the host's own rows come first.        *)
(***************************************************************************)
EXTENDS Handlers, FiniteSetsExt

CONSTANTS
  People, Lifecycles,   \* profiles, and modules with lifecycle hooks
  Host, Nobody,
  Gap,                  \* the minute between a person's own exports
  Age, FilesKept,       \* MAX_EXPORT_AGE, MAX_EXPORT_FILES
  MaxNow, MaxFacts, MaxRequests   \* bounds

ExportsAssumption ==
  /\ Host \notin Lifecycles /\ Nobody \notin People
  /\ {Gap, Age, FilesKept} \subseteq Nat \ {0} /\ {MaxNow, MaxFacts, MaxRequests} \subseteq Nat

(* db: the host's rows and each module's as sets of facts, each about a person and such as   *)
(* exports tell or leave out; the registry of lifecycle modules; the files, the oldest first:*)
(* whether one is whole, and was made offline, whose facts it holds, which it misses of those*)
(* stored when it was asked for.  world: the running modules, the export in progress, the    *)
(* export_cooldowns (0 for none) and when the bot was started.                               *)

Stores == Lifecycles \cup {Host}
About(p, facts) == {f \in facts : f.who = p}
AllAbout(p, stores) == UNION {About(p, db.stores[s]) : s \in stores}

Idle == [about |-> Nobody, own |-> FALSE, asked |-> 0, todo |-> {}, got |-> {}, before |-> {}]

Init ==
  /\ db = [stores |-> [s \in Stores |-> {}], registry |-> Lifecycles, files |-> <<>>]
  /\ world = [now |-> 1, loaded |-> Lifecycles, host |-> Idle, cooled |-> [p \in People |-> 0],
              start |-> 1, facts |-> 0, requests |-> 0, mishaps |-> 0]

-----------------------------------------------------------------------------
\* A module's handler stores something about a person, in its rows or the host's.
Handle(m, p) ==
  /\ world.facts < MaxFacts /\ m \in db.registry
  /\ \E s \in {m, Host} :
       \E told \in BOOLEAN :
         LET fact == [who |-> p, of |-> s, n |-> world.facts + 1, told |-> told]
         IN db' = [db EXCEPT !.stores[s] = @ \cup {fact}]
  /\ world' = [world EXCEPT !.facts = @ + 1]

CoolingDown(p) == world.cooled[p] # 0 /\ world.now - world.cooled[p] < Gap

\* A mutant: modules that are not running are passed over.
NoneIsMissing == TRUE

\* collect_module_exports: every registered module must be running.
NoneMissing == db.registry \subseteq world.loaded

\* A mutant: the module answers with all it was given.
ToldAll(p, entries) == entries

\* data_export, and collect_profile for the host: of the rows it was given, it tells those
\* about the person, but for what its code leaves out.
Told(p, entries) == {f \in About(p, entries) : f.told}

\* collect_full_export begins: the host's rows, unless a module is missing.
Collect(p, own, w) ==
  /\ world.requests < MaxRequests /\ world.host = Idle
  /\ world' = IF ~NoneMissing THEN [w EXCEPT !.requests = @ + 1]
              ELSE [w EXCEPT !.requests = @ + 1, !.host =
                     [about |-> p, own |-> own, asked |-> IF own THEN world.now ELSE 0,
                      todo |-> world.loaded, got |-> Told(p, db.stores[Host]),
                      before |-> AllAbout(p, db.registry \cup {Host})]]
  /\ UNCHANGED db

\* handle_mydata: the cooldown starts with the request, whatever becomes of it.
RequestOwn(p) == ~CoolingDown(p) /\ Collect(p, TRUE, [world EXCEPT !.cooled[p] = world.now])

\* handle_admin_data: a super-admin need not wait.
RequestOf(p) == Collect(p, FALSE, world)

\* A mutant: a module that does not answer is passed over.
AskPatiently(m) ==
  /\ m \in world.host.todo
  /\ \/ world' = [world EXCEPT !.host.todo = @ \ {m},
                     !.host.got = @ \cup Told(world.host.about, db.stores[m])]
     \/ /\ world.mishaps < MaxMishaps
        /\ world' = [world EXCEPT !.host.todo = @ \ {m}, !.mishaps = @ + 1]
  /\ UNCHANGED db

\* collect_module_exports: the rows go with the question, so the answer is about them, however
\* long the worker takes.  After a timeout, or when a hook fails, there is no file.
Ask(m) ==
  LET h == world.host
  IN /\ m \in h.todo
     /\ \/ world' = [world EXCEPT !.host.todo = @ \ {m},
                        !.host.got = @ \cup Told(h.about, db.stores[m])]
        \/ world.mishaps < MaxMishaps /\ world' = [world EXCEPT !.host = Idle, !.mishaps = @ + 1]
     /\ UNCHANGED db

\* A mutant: the new file is not counted.
SurplusBesidesNew(files) ==
  LET expired == Cardinality({i \in DOMAIN files : world.now - files[i].at > Age})
  IN Max({expired, Len(files) - FilesKept})

\* prune_exports: how many of the oldest files go.
Surplus(files) ==
  LET expired == Cardinality({i \in DOMAIN files : world.now - files[i].at > Age})
  IN Max({expired, Len(files) - (FilesKept - 1)})

\* write_private_json: one old file after another, then the new one, under its final name
\* from the start, so that a crash leaves it torn; after an error it is removed again.
Write(file, w) ==
  LET gone(i) == SubSeq(db.files, i + 1, Len(db.files))
      n == Surplus(db.files)
  IN Perform([i \in 1..n |-> [db EXCEPT !.files = gone(i)]]
               \o [k \in 1..2 |-> [db EXCEPT !.files = Append(gone(n), [file EXCEPT !.whole = k = 2])]], w)

\* send_data_export, once all have answered.
Finish ==
  LET h == world.host
  IN /\ h # Idle /\ h.todo = {}
     /\ Write([about |-> h.about, own |-> h.own, asked |-> h.asked, at |-> world.now,
               offline |-> FALSE, whole |-> TRUE,
               whose |-> {f.who : f \in h.got}, missing |-> h.before \ h.got],
              [world EXCEPT !.host = Idle])

\* export_profile: what the host keeps, by another process; no module is asked.
ExportOffline(p) ==
  LET told == Told(p, db.stores[Host])
  IN /\ world.requests < MaxRequests
     /\ Write([about |-> p, own |-> FALSE, asked |-> 0, at |-> world.now,
               offline |-> TRUE, whole |-> TRUE, whose |-> {f.who : f \in told},
               missing |-> AllAbout(p, db.registry \cup {Host}) \ told],
              [world EXCEPT !.requests = @ + 1])

\* What DataLifecycle takes many steps for, by the same thread.
Erase(p) ==
  /\ world.host = Idle /\ NoneMissing /\ AllAbout(p, Stores) # {}
  /\ db' = [db EXCEPT !.stores = [s \in Stores |-> @[s] \ About(p, @[s])]]
  /\ UNCHANGED world

\* Modules come and go; a start of the bot forgets who exported, and what was under way.
Reload(modules, restart) ==
  /\ modules # world.loaded \/ restart
  /\ world.mishaps < MaxMishaps /\ (world.host = Idle \/ restart)
  /\ world' = [world EXCEPT !.loaded = modules, !.host = Idle, !.mishaps = @ + 1,
                 !.start = IF restart THEN world.now ELSE @,
                 !.cooled = IF restart THEN [p \in People |-> 0] ELSE @]
  /\ db' = [db EXCEPT !.registry = @ \cup modules]

TimePasses ==
  /\ world.now < MaxNow
  /\ world' = [world EXCEPT !.now = @ + 1] /\ UNCHANGED db

Next ==
  \/ \E m \in Lifecycles : Ask(m) \/ \E p \in People : Handle(m, p)
  \/ \E p \in People : RequestOwn(p) \/ RequestOf(p) \/ ExportOffline(p) \/ Erase(p)
  \/ Finish
  \/ \E modules \in SUBSET Lifecycles, restart \in BOOLEAN : Reload(modules, restart)
  \/ TimePasses

Spec == Init /\ [][Next]_handlerVars

-----------------------------------------------------------------------------
\* "Exports fail rather than silently omit a known module" (SPEC.md): a file that was written
\* to its end misses nothing that its makers tell and that was stored when it was asked for,
\* while the workers go on storing; one made offline misses the modules' facts alone.  And no
\* file, whole or torn, holds anything about someone else.  What a module erases but leaves
\* out of its export (SPEC.md:134 says that both take the same) is missing from every file.
FilesTellAll ==
  \A i \in DOMAIN db.files :
    LET file == db.files[i]
    IN /\ file.whose \subseteq {file.about}
       /\ file.whole => \A f \in file.missing : f.told => file.offline /\ f.of # Host

\* "Seven-day/100-file retention" (PLAN.md): with each file that is written the older ones
\* go, also those an interrupted pruning left.
FilesArePruned ==
  /\ Len(db.files) <= FilesKept
  /\ \A i, j \in DOMAIN db.files : i < j => db.files[j].at - db.files[i].at <= Age

\* A person's own exports are a minute apart, those that failed too, unless the bot was
\* started between them.
OwnAreApart ==
  \A i, j \in DOMAIN db.files :
    LET one == db.files[i]
        other == db.files[j]
    IN i < j /\ one.own /\ other.own /\ one.about = other.about
         => other.asked - one.asked >= Gap \/ world.start >= one.asked

ExportsAreTrue == FilesTellAll /\ FilesArePruned /\ OwnAreApart
=============================================================================
