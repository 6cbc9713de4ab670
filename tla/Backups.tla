------------------------------- MODULE Backups -------------------------------
(* Local restore points in three tiers and their encrypted weekly copies       *)
(* off the machine (src/crates/jeeves/src/backup.rs), and the settings the      *)
(* console saves for them (tui/mod.rs).  One worker thread polls every minute   *)
(* and takes orders; a call of a run may fail, or the process end, before each  *)
(* of its steps.                                                                *)
EXTENDS Naturals, FiniteSets, FiniteSetsExt

CONSTANTS
  WeekDays, MonthDays,  \* how long a week and a month are
  RemoteFrom,           \* the day of the week from which the week's copy is due
  Keeps,                \* retention counts an operator may enter
  MaxNow, MaxRuns, MaxSaves, MaxCuts  \* bounds: half days; runs; saved forms; runs and saves cut short

BackupsAssumption ==
  /\ WeekDays \in Nat \ {0} /\ MonthDays \in Nat \ {0} /\ RemoteFrom \in 0..WeekDays - 1
  /\ Keeps \subseteq Nat /\ MaxNow \in Nat

VARIABLES db, world

Tiers == {"daily", "weekly", "monthly"}
Idle == [step |-> "idle"]
Never == MaxNow + 1

\* A day has a half before the hour of the backup and one after it.
DayOf(t) == t \div 2
WeekOf(t) == DayOf(t) \div WeekDays
MonthOf(t) == DayOf(t) \div MonthDays

\* db: the saved settings, and the day and week the worker recorded.  world: the clock, the files of
\* each tier by the name they sort by, those half copied when a run was cut (broken), the objects off
\* the machine, the run and the console's save.
\* A file is [name, at, whole, manifest], at being when its contents were the database's.
Init ==
  /\ db = [settings |-> [on |-> FALSE, remote |-> FALSE, daily |-> 1, weekly |-> 1, monthly |-> 1], day |-> Never, week |-> Never]
  /\ world = [now |-> 0, files |-> [t \in Tiers |-> {}], objects |-> {}, run |-> Idle, save |-> <<>>, torn |-> FALSE,
              good |-> {}, broken |-> {}, runs |-> 0, saves |-> 0, cuts |-> 0]

Go(step) == [world EXCEPT !.run.step = step]
At(step) == world.run.step = step

-----------------------------------------------------------------------------
\* BackupConfig::load refuses what it cannot run with.
Loads(s) == s.daily > 0 /\ (s.remote => s.weekly > 0)

\* local_due, weekly_due.
LocalDue == world.now % 2 = 1 /\ db.day # DayOf(world.now)
WeeklyDue(t) == DayOf(t) % WeekDays >= RemoteFrom /\ db.week # WeekOf(t)

\* worker: a minute has passed, or the operator wants one now.  Settings that do not load are
\* reported, and nothing is done.
Start(force) ==
  /\ At("idle") /\ world.runs < MaxRuns /\ Loads(db.settings)
  /\ force \/ (db.settings.on /\ LocalDue)
  /\ world' = [world EXCEPT !.runs = @ + 1,
                 !.run = [step |-> "snapshot", at |-> world.now, name |-> world.runs, force |-> force, with |-> db.settings]]
  /\ UNCHANGED db
Poll == Start(FALSE)
RunNow == Start(TRUE)

\* run_backup: the snapshot is written, then checked; one that fails the check is removed.
Written(t, f) == [world EXCEPT !.files[t] = @ \cup {f}]
Copy == [name |-> world.run.name, at |-> world.run.at, whole |-> TRUE, manifest |-> FALSE]
Snapshot ==
  /\ At("snapshot")
  /\ world' = [Written("daily", [Copy EXCEPT !.whole = FALSE]) EXCEPT !.run.step = "verify"]
  /\ UNCHANGED db
Verify ==
  /\ At("verify")
  /\ LET rest == {f \in world.files.daily : f.name # world.run.name}
     IN \/ world' = [world EXCEPT !.files.daily = rest \cup {Copy}, !.run.step = "manifest"]
        \/ /\ world.cuts < MaxCuts
           /\ world' = [world EXCEPT !.files.daily = rest, !.run = Idle, !.cuts = @ + 1]
  /\ UNCHANGED db

Vouched(t, name) == {[f EXCEPT !.manifest = @ \/ f.name = name] : f \in world.files[t]}
\* A mutant: the first manifest is written with the snapshot, before it was checked.
EarlyManifest == At("verify") \/ At("manifest")
ManifestDue == At("manifest")
Manifest ==
  /\ ManifestDue
  /\ world' = [world EXCEPT !.files.daily = Vouched("daily", world.run.name), !.good = @ \cup {world.run.name},
                            !.run.step = IF @ = "manifest" THEN "weekly" ELSE @]
  /\ UNCHANGED db

\* A mutant: a restore point gets the newest copy whenever there is one.
PromotedAgain(t, name) == {f \in world.files[t] : f.name # name} \cup {[Copy EXCEPT !.name = name]}
\* promote_if_missing: the first copy of a week or month is linked under its name.
Promoted(t, name) ==
  IF \E f \in world.files[t] : f.name = name THEN world.files[t] ELSE world.files[t] \cup {[Copy EXCEPT !.name = name]}
\* A file that is there, also one that a cut left half copied, gets a manifest if it has none.
Promote(t, step, name, next) ==
  /\ At(step)
  /\ LET files == Promoted(t, name) IN
     \/ files # world.files[t] /\ world' = [world EXCEPT !.files[t] = files]
     \/ files = world.files[t] /\ world' = [world EXCEPT !.files[t] = Vouched(t, name), !.run.step = next]
  /\ UNCHANGED db
PromoteWeekly == Promote("weekly", "weekly", WeekOf(world.run.at), "monthly")
PromoteMonthly == Promote("monthly", "monthly", MonthOf(world.run.at), "prune")

\* Where a file cannot be linked it is copied, under its final name.
BeginCopy(t, step, name, copying) ==
  /\ At(step) /\ \A f \in world.files[t] : f.name # name
  /\ world' = [Written(t, [Copy EXCEPT !.name = name, !.whole = FALSE]) EXCEPT !.run.step = copying]
  /\ UNCHANGED db
Copied(t, name) == {[f EXCEPT !.whole = @ \/ f.name = name] : f \in world.files[t]}
EndCopy(t, step, name, copying) ==
  /\ At(copying)
  /\ world' = [world EXCEPT !.files[t] = Copied(t, name), !.run.step = step]
  /\ UNCHANGED db
CopyWeekly ==
  \/ BeginCopy("weekly", "weekly", WeekOf(world.run.at), "copy weekly")
  \/ EndCopy("weekly", "weekly", WeekOf(world.run.at), "copy weekly")
CopyMonthly ==
  \/ BeginCopy("monthly", "monthly", MonthOf(world.run.at), "copy monthly")
  \/ EndCopy("monthly", "monthly", MonthOf(world.run.at), "copy monthly")

\* A mutant: the newest go first.
PrunedNewest(files) == {f \in files : f.name = Max({g.name : g \in files})}
\* prune: the oldest go first, one by one, each after its manifest.
Pruned(files) == {f \in files : f.name = Min({g.name : g \in files})}
Prune(t) ==
  /\ At("prune") /\ Cardinality(world.files[t]) > world.run.with[t]
  /\ world' = [world EXCEPT !.files[t] = @ \ Pruned(@)]
  /\ UNCHANGED db
PruneAny == \E t \in Tiers : Prune(t)

\* A mutant: the day is recorded as soon as the run starts.
RecordableEarly == At("snapshot") /\ db.day # DayOf(world.run.at)
Recordable == At("prune") /\ \A t \in Tiers : Cardinality(world.files[t]) <= world.run.with[t]
RecordDay ==
  /\ Recordable
  /\ db' = [db EXCEPT !.day = DayOf(world.run.at)]
  /\ world' = IF ~At("prune") THEN world
              ELSE IF world.run.with.remote /\ (world.run.force \/ WeeklyDue(world.run.at)) THEN Go("upload") ELSE Go("done")

-----------------------------------------------------------------------------
\* upload_remote: a copy of this run's snapshot, without credentials and encrypted, then its
\* manifest, then the retention count; its name is the time of the run.
Upload ==
  /\ At("upload")
  /\ world' = [Go("upload manifest") EXCEPT !.objects = @ \cup {[name |-> world.run.name, at |-> world.run.at, manifest |-> FALSE]}]
  /\ UNCHANGED db
UploadManifest ==
  /\ At("upload manifest")
  /\ world' = [Go("prune objects") EXCEPT !.objects = {[o EXCEPT !.manifest = @ \/ o.name = world.run.name] : o \in @}]
  /\ UNCHANGED db
PruneObjects ==
  /\ At("prune objects")
  /\ IF Cardinality(world.objects) > world.run.with.weekly
     THEN world' = [world EXCEPT !.objects = @ \ Pruned(@)]
     ELSE world' = Go("record week")
  /\ UNCHANGED db

\* A mutant: the week is recorded even if the upload failed.
RecordsWeek == At("record week") \/ At("upload manifest")
WeekRecordable == At("record week")
RecordWeek ==
  /\ WeekRecordable
  /\ db' = [db EXCEPT !.week = WeekOf(world.run.at)]
  /\ world' = Go("done")

Done == At("done") /\ world' = [world EXCEPT !.run = Idle] /\ UNCHANGED db

\* A failed call ends the run (of the upload alone, once the day is recorded), and so does a crash;
\* what was written stays, also half a copy.
HalfCopied ==
  {c \in {<<"weekly", WeekOf(world.run.at)>>} : At("copy weekly")}
    \cup {c \in {<<"monthly", MonthOf(world.run.at)>>} : At("copy monthly")}
Cut ==
  /\ ~At("idle") /\ world.cuts < MaxCuts
  /\ world' = [world EXCEPT !.run = Idle, !.cuts = @ + 1, !.broken = @ \cup HalfCopied]
  /\ UNCHANGED db

-----------------------------------------------------------------------------
\* A mutant: each field is checked by itself.
AcceptableFields(s) == s.daily > 0
\* save_backups checks the form, then saves it field by field, in this order.
Acceptable(s) == s.daily > 0 /\ ~(s.remote /\ s.weekly = 0)
Fields == <<"on", "remote", "daily", "weekly", "monthly">>

Save ==
  /\ At("idle") /\ world.save = <<>> /\ world.saves < MaxSaves
  /\ \E s \in [on : {TRUE}, remote : BOOLEAN, daily : Keeps, weekly : Keeps, monthly : {1}] :
       /\ Acceptable(s)
       /\ world' = [world EXCEPT !.saves = @ + 1, !.torn = FALSE, !.save = [i \in 1..5 |-> [field |-> Fields[i], value |-> s[Fields[i]]]]]
  /\ UNCHANGED db
SaveField ==
  /\ At("idle") /\ world.save # <<>>
  /\ LET next == Min(DOMAIN world.save)
         e == world.save[next]
     IN /\ db' = [db EXCEPT !.settings[e.field] = e.value]
        /\ world' = [world EXCEPT !.save = IF next = 5 THEN <<>> ELSE [i \in next + 1..5 |-> @[i]]]
SaveIsCut ==
  /\ At("idle") /\ world.save # <<>> /\ world.cuts < MaxCuts
  /\ world' = [world EXCEPT !.save = <<>>, !.torn = TRUE, !.cuts = @ + 1]
  /\ UNCHANGED db

\* A run reads the clock and the settings once, at its start: what happens to them meanwhile may as
\* well happen before or after it.
Tick == At("idle") /\ world.now < MaxNow /\ world' = [world EXCEPT !.now = @ + 1] /\ UNCHANGED db

Run == Poll \/ RunNow \/ Snapshot \/ Verify \/ Manifest \/ PromoteWeekly \/ PromoteMonthly
       \/ CopyWeekly \/ CopyMonthly \/ PruneAny \/ RecordDay
       \/ Upload \/ UploadManifest \/ PruneObjects \/ RecordWeek \/ Done \/ Cut
Next == Run \/ Save \/ SaveField \/ SaveIsCut \/ Tick
Spec == Init /\ [][Next]_<<db, world>>

-----------------------------------------------------------------------------
\* "Every snapshot is opened, migrated, checked ... and accompanied by a SHA-256 manifest"
\* (README.md:234): what has a manifest is whole.  One kind is not: a weekly or monthly file whose
\* copying was cut gets its manifest from the next run, which takes whatever has the name for it.
ManifestsVouch ==
  \A t \in Tiers : \A f \in world.files[t] :
    f.manifest => f.whole \/ (t # "daily" /\ <<t, f.name>> \in world.broken)

\* Once a run has made a restore point, one as new is kept, whatever later runs leave half done.
LastGoodCopyStays == \A n \in world.good : \E f \in world.files.daily : f.whole /\ f.manifest /\ f.name >= n

\* A day recorded as backed up, and a week as copied off the machine, is no reason to wait unless
\* there is such a copy, or a newer one.
RecordsAreTrue ==
  /\ db.day # Never => \E f \in world.files.daily : f.manifest /\ f.whole /\ DayOf(f.at) >= db.day
  /\ db.week # Never => \E o \in world.objects : o.manifest /\ WeekOf(o.at) >= db.week

\* The form saves no settings the worker cannot load, unless its save was cut short.
SettingsLoad == world.save = <<>> /\ ~world.torn => Loads(db.settings)

BackupsAreKept == ManifestsVouch /\ LastGoodCopyStays /\ RecordsAreTrue /\ SettingsLoad

\* "The defaults retain 3 daily, 4 weekly, and 3 monthly local restore points" (README.md:233):
\* a restore point is not replaced by a later copy, and goes only for as many later ones as are
\* to be kept (what a cut run left counts among them).
PointsStand ==
  \A t \in Tiers : \A f \in world.files[t] : f.whole =>
    \/ \E g \in world'.files[t] : g.name = f.name /\ g.at = f.at
    \/ Cardinality({g \in world'.files[t] : g.name > f.name}) >= world.run.with[t]
=============================================================================
