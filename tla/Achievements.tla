---------------------------- MODULE Achievements -----------------------------
(***************************************************************************)
(* Achievements on one network: the host's store of what people earned     *)
(* (db.rs), kept in step with the catalogues of the modules that are       *)
(* loaded, the announcements, and the weekly digest with which             *)
(* modules-src/achievements tells a channel.                               *)
(***************************************************************************)
EXTENDS Handlers

CONSTANTS
  People, Catalogued,    \* the modules with a catalogue
  Events,                \* deduplication ids
  Thresholds,            \* of the one achievement of a module, by catalogue version
  FirstRank, EveryRank,  \* of the one prestige achievement of a module
  Modest,                \* achievements for the first of the collector's own
  MaxAwards, MaxNow, MaxChanges   \* bounds

AchievementsAssumption ==
  /\ {FirstRank, EveryRank, Modest, MaxAwards, MaxNow, MaxChanges} \subseteq Nat \ {0}
  /\ Thresholds \in Seq(Nat \ {0})

(* db: values by person and module, the unlocked with their times, ranks, who holds the  *)
(* collector's achievements ("modest", and "whole" for all the required of the loaded    *)
(* catalogues), the ids counted, who opted out, who cannot be backfilled, who is public, *)
(* the version each module was backfilled for, and the digest's job with its plan.       *)
(* rows: what a module itself has counted.  world.loaded: the versions of the loaded     *)
(* modules; world.published: those the store is told; world.waiting: what is to be       *)
(* announced, and world.sleeping: who has a thread that will.  world.since: what a       *)
(* person earned since they opted out or were erased.                                    *)

Zero == [p \in People |-> [m \in Catalogued |-> 0]]
None == [m \in Catalogued |-> 0]

First == [m \in Catalogued |-> 1]

\* The modules have been loaded for the first time.
Init == \E job \in {"none", "set"} :
  /\ db = [value |-> Zero, rows |-> Zero, unlocks |-> {}, rank |-> Zero, meta |-> {}, counted |-> {},
           out |-> {}, blocked |-> {}, public |-> {}, version |-> First,
           jobs |-> [id \in {"digest"} |-> job], since |-> 1]
  /\ world = [now |-> 1, loaded |-> First, published |-> First, settled |-> TRUE, queue |-> {},
              mishaps |-> 0, awards |-> 0, changes |-> 0, since |-> Zero, seen |-> [m \in Catalogued |-> {1}],
              waiting |-> [p \in People |-> {}], sleeping |-> {}, done |-> {}, credited |-> {},
              reported |-> {}, missed |-> {}]

Holds(d, p, m) == \E u \in d.unlocks : u.who = p /\ u.module = m
Loaded(catalogs) == {m \in Catalogued : catalogs[m] # 0}

-----------------------------------------------------------------------------
(* One transaction of the store.                                             *)

Rank(value) == IF value < FirstRank THEN 0 ELSE 1 + (value - FirstRank) \div EveryRank

\* reconcile_module_achievements: what was reached by the catalogue of m is unlocked.
Reconciled(d, p, m, version, at) ==
  LET value == d.value[p][m]
      new == IF value >= Thresholds[version] /\ ~Holds(d, p, m)
             THEN {[who |-> p, module |-> m, at |-> at]} ELSE {}
  IN [d EXCEPT !.unlocks = @ \cup new, !.rank[p][m] = IF Rank(value) > @ THEN Rank(value) ELSE @]

\* A mutant: what was complete stays so.
CollectedForGood(d, p, catalogs) ==
  LET held == {m \in Loaded(catalogs) : Holds(d, p, m)}
      modest == IF Cardinality(held) >= Modest THEN {<<p, "modest">>} ELSE {}
      whole == IF held = Loaded(catalogs) /\ held # {} THEN {<<p, "whole">>} ELSE {}
  IN [d EXCEPT !.meta = @ \cup modest \cup whole]

\* apply_meta_achievements: every achievement here is required.
Collected(d, p, catalogs) ==
  LET held == {m \in Loaded(catalogs) : Holds(d, p, m)}
      modest == IF Cardinality(held) >= Modest THEN {<<p, "modest">>} ELSE {}
      complete == held = Loaded(catalogs) /\ held # {}
  IN [d EXCEPT !.meta = IF complete THEN @ \cup modest \cup {<<p, "whole">>}
                        ELSE (@ \cup modest) \ {<<p, "whole">>}]

\* A mutant: an event is counted each time.
RepeatsCounted(d, p, m, event) == FALSE

\* The insert into achievement_dedup.
Repeats(d, p, m, event) == <<p, m, event>> \in d.counted

\* achievement_award
Awarded(d, p, m, event, at, catalogs) ==
  IF p \in d.out \/ Repeats(d, p, m, event) THEN d
  ELSE LET counted == [d EXCEPT !.value[p][m] = @ + 1,
                         !.counted = IF event = "none" THEN @ ELSE @ \cup {<<p, m, event>>}]
       IN Collected(Reconciled(counted, p, m, catalogs[m], at), p, catalogs)

\* A mutant: only what is missing keeps a person out.
BackfillableAgain(d, p) == p \notin d.out

\* Who opted out once is not given back what a module remembers.
Backfillable(d, p) == p \notin d.out \cup d.blocked

\* achievement_backfill_apply, for the totals of achievement_backfill.
Backfilled(d, m, version) ==
  LET raised == [d EXCEPT !.version[m] = version,
        !.value = [p \in People |-> IF Backfillable(d, p) /\ d.rows[p][m] > @[p][m]
                                    THEN [@[p] EXCEPT ![m] = d.rows[p][m]] ELSE @[p]]]
      earned(p) == Reconciled(raised, p, m, version, world.now)
      people == {p \in People : Backfillable(d, p) /\ d.rows[p][m] > 0}
  IN [raised EXCEPT !.unlocks = UNION ({@} \cup {earned(p).unlocks : p \in people}),
        !.rank = [p \in People |-> IF p \in people THEN earned(p).rank[p] ELSE @[p]]]

-----------------------------------------------------------------------------
(* Modules come and go.                                                      *)

\* run_achievement_backfills, once for a version of the catalogue; a failure is only logged.
Load(m, version) ==
  /\ world.loaded[m] # version /\ world.settled
  /\ world.changes < MaxChanges
  /\ Perform(IF version > db.version[m] THEN <<Backfilled(db, m, version)>> ELSE <<>>,
       [world EXCEPT !.loaded[m] = version, !.settled = FALSE, !.changes = @ + 1, !.seen[m] = @ \cup {version}])

Unload(m) ==
  /\ world.loaded[m] # 0 /\ world.settled /\ world.changes < MaxChanges
  /\ world' = [world EXCEPT !.loaded[m] = 0, !.settled = FALSE, !.changes = @ + 1]
  /\ UNCHANGED db

\* achievement_catalog_reconcile: everyone, for all the catalogues.
AllReconciled(d, catalogs) ==
  LET for(p, m) == Reconciled(d, p, m, catalogs[m], world.now)
      each == [d EXCEPT
        !.unlocks = UNION ({@} \cup {for(p, m).unlocks : p \in People, m \in Loaded(catalogs)}),
        !.rank = [p \in People |-> [m \in Catalogued |->
                    IF m \in Loaded(catalogs) THEN for(p, m).rank[p][m] ELSE @[p][m]]]]
  IN [each EXCEPT !.meta = UNION {{e \in Collected(each, p, catalogs).meta : e[1] = p} : p \in People}]

\* publish_achievements
Publish ==
  /\ ~world.settled
  /\ Perform(<<AllReconciled(db, world.loaded)>>,
       [world EXCEPT !.published = world.loaded, !.settled = TRUE])

-----------------------------------------------------------------------------
(* People earn, opt out, and ask.                                            *)

News(d, p) ==
  {u.module : u \in {v \in d.unlocks \ db.unlocks : v.who = p}} \cup {e[2] : e \in {f \in d.meta \ db.meta : f[1] = p}}

\* A mutant: whether it is the first is asked when it is in already.
SleepingAsBefore(p) == world.sleeping

\* queue_achievement_announcement: the first of a batch starts the thread that tells it.
Sleeping(p) == world.sleeping \cup (IF world.waiting[p] = {} THEN {p} ELSE {})

\* award_stats, after a module counted something in a row of its own; an event that comes
\* again is not counted there.  late: the clock was read before others' transactions.
Earn(p, m, event, late) ==
  LET repeats == <<p, m, event>> \in world.done
      at == IF late THEN world.now - 1 ELSE world.now
      row == IF repeats THEN db ELSE [db EXCEPT !.rows[p][m] = @ + 1]
      awarded == Awarded(row, p, m, event, at, world.published)
      news == News(awarded, p)
      counts == <<p, m, event>> \notin world.credited /\ p \notin db.out
      events == IF event = "none" THEN {} ELSE {<<p, m, event>>}
  IN /\ world.published[m] # 0
     /\ world.awards < MaxAwards
     /\ late => world.now > 1 /\ world.mishaps < MaxMishaps
     /\ Perform(<<row, awarded>>,
          [world EXCEPT !.awards = @ + 1, !.since[p][m] = IF counts THEN @ + 1 ELSE @,
             !.done = @ \cup events, !.credited = IF counts THEN @ \cup events ELSE @,
             !.mishaps = IF late THEN @ + 1 ELSE @,
             !.waiting[p] = @ \cup news, !.sleeping = IF news = {} THEN @ ELSE Sleeping(p)])

\* Three seconds later.
Announce(p) ==
  /\ p \in world.sleeping
  /\ world' = [world EXCEPT !.sleeping = @ \ {p}, !.waiting[p] = {}] /\ UNCHANGED db

Restart ==
  /\ world.sleeping # {}
  /\ world' = [world EXCEPT !.sleeping = {}, !.waiting = [p \in People |-> {}]] /\ UNCHANGED db

\* delete_achievement_rows
Wiped(d, p) ==
  [d EXCEPT !.value[p] = None, !.rank[p] = None, !.unlocks = {u \in @ : u.who # p},
     !.meta = {e \in @ : e[1] # p}, !.counted = {e \in @ : e[1] # p}]

\* achievement_opt_out
OptOut(p) ==
  /\ p \notin db.out /\ world.changes < MaxChanges
  /\ db' = [Wiped(db, p) EXCEPT !.out = @ \cup {p}, !.blocked = @ \cup {p}, !.public = @ \ {p}]
  /\ world' = [world EXCEPT !.changes = @ + 1, !.since[p] = None, !.credited = {e \in @ : e[1] # p}]

OptIn(p) == p \in db.out /\ db' = [db EXCEPT !.out = @ \ {p}] /\ UNCHANGED world

\* A mutant: who opted out may be shown.
MayShowAnyone(p) == TRUE

MayShow(p) == p \notin db.out

\* achievement_public
Show(p) ==
  /\ MayShow(p) /\ p \notin db.public /\ world.changes < MaxChanges
  /\ db' = [db EXCEPT !.public = @ \cup {p}] /\ world' = [world EXCEPT !.changes = @ + 1]

\* deletion_finish, with the modules' rows.
Erase(p) ==
  /\ db.rows[p] # None /\ world.changes < MaxChanges
  /\ db' = [Wiped(db, p) EXCEPT !.rows[p] = None, !.out = @ \ {p}, !.blocked = @ \ {p}, !.public = @ \ {p}]
  /\ world' = [world EXCEPT !.changes = @ + 1, !.since[p] = None, !.done = {e \in @ : e[1] # p},
                 !.credited = {e \in @ : e[1] # p}]

\* achievements_get: reading one's achievements takes back what is not complete any more.
Get(p) ==
  LET read == Collected(db, p, world.published)
  IN db' = [db EXCEPT !.meta = IF <<p, "whole">> \in read.meta THEN @ ELSE @ \ {<<p, "whole">>}]
     /\ UNCHANGED world

-----------------------------------------------------------------------------
(* The digest.                                                               *)

\* board, of what was unlocked since then.
Board(since) ==
  {u \in db.unlocks : u.at >= since /\ world.published[u.module] # 0 /\ u.who \notin db.out}

\* A mutant: the next digest is of what comes after this moment.
PlanFromNext(d) == [SetTimer(d, "digest") EXCEPT !.since = world.now + 1]

\* schedule_digest
Planned(d) == [SetTimer(d, "digest") EXCEPT !.since = world.now]

\* on_event; what a module counted that is not loaded is never told.
PostDigest ==
  PerformTimer("digest", <<Planned(db)>>,
    [world EXCEPT !.reported = @ \cup Board(db.since),
       !.missed = @ \cup ({u \in db.unlocks : u.at >= db.since} \ Board(db.since))])

\* digest_command: what was unlocked before is not for the next digest.
DigestOn ==
  /\ world.changes < MaxChanges
  /\ db' = Planned(db)
  /\ world' = [world EXCEPT !.changes = @ + 1, !.missed = db.unlocks]

DigestOff ==
  /\ IsPending(db, "digest") /\ db' = CancelTimer(db, "digest") /\ UNCHANGED world

TimePasses ==
  /\ world.now < MaxNow /\ IsDriven("digest")
  /\ world' = [world EXCEPT !.now = @ + 1] /\ UNCHANGED db

Next ==
  \/ \E m \in Catalogued : Unload(m) \/ \E v \in DOMAIN Thresholds : Load(m, v)
  \/ Publish \/ Restart \/ Send("digest") \/ PostDigest \/ DigestOn \/ DigestOff \/ TimePasses
  \/ \E p \in People :
       \/ Announce(p) \/ OptOut(p) \/ OptIn(p) \/ Show(p) \/ Erase(p) \/ Get(p)
       \/ \E m \in Catalogued, event \in Events \cup {"none"}, late \in BOOLEAN : Earn(p, m, event, late)

Spec == Init /\ [][Next]_handlerVars

-----------------------------------------------------------------------------
\* What a person has is what they earned since they opted out or were erased, each event
\* once, however often it came.  A handler cut short may leave a module ahead of the store,
\* for a backfill to make good; who has ever opted out gets nothing from it.
ValuesAreEarned ==
  \A p \in People, m \in Catalogued :
    /\ db.rank[p][m] <= Rank(db.value[p][m])
    /\ p \in db.blocked => db.value[p][m] <= world.since[p][m]
    /\ world.mishaps = 0 => db.value[p][m] = world.since[p][m]

\* The unlocked are those whose values reached what some catalogue asked; all of them when
\* the store has been told of the catalogues; and then whoever has all of what is loaded,
\* and nobody else, has the whole collection.
UnlocksAreDeserved ==
  /\ \A u \in db.unlocks : \E v \in world.seen[u.module] : db.value[u.who][u.module] >= Thresholds[v]
  /\ world.settled /\ world.mishaps = 0 => \A p \in People :
       LET due == {m \in Loaded(world.published) : db.value[p][m] >= Thresholds[world.published[m]]}
           held == {m \in Loaded(world.published) : Holds(db, p, m)}
       IN /\ due \subseteq held
          /\ \A m \in Loaded(world.published) : db.rank[p][m] = Rank(db.value[p][m])
          /\ <<p, "whole">> \in db.meta <=> held # {} /\ held = Loaded(world.published)

\* The store has nothing on who opted out, and does not show them.
OptedOutIsGone ==
  \A p \in db.out :
    /\ db.value[p] = None /\ db.rank[p] = None /\ p \notin db.public
    /\ p \notin {u.who : u \in db.unlocks} \cup {e[1] : e \in db.meta \cup db.counted}

\* What waits to be announced has a thread that will.
NewsHaveThreads == \A p \in People : world.waiting[p] # {} <=> p \in world.sleeping

\* What was unlocked is in the digest that was or in the one that comes.
NoUnlockIsSkipped ==
  IsPending(db, "digest") /\ world.mishaps = 0 =>
    \A u \in db.unlocks : u.at >= db.since \/ u \in world.reported \cup world.missed

StandingIsTrue ==
  ValuesAreEarned /\ UnlocksAreDeserved /\ OptedOutIsGone /\ NewsHaveThreads /\ NoUnlockIsSkipped
==============================================================================
