----------------------------- MODULE PirateDays ------------------------------
(***************************************************************************)
(* What each day brings to the pirate game (modules-src/pirate): wages and *)
(* the rollover that counts them, captains retired after a long absence,   *)
(* and the Navy: its patrol, which sights a captain and blockades the isle *)
(* a day later, alerts beside the patrol, and the sorties that fight or    *)
(* harass its fleet.  Loyal hands, buildings and what a hold can afford    *)
(* are left out or chance.                                                 *)
(***************************************************************************)
EXTENDS Handlers, Integers, FiniteSetsExt

CONSTANTS
  Captains, Nobody, Crew,
  Day, SortieTakes, Regroup, LongAway,   \* LongAway: 0 retires nobody
  Intervals, Strengths,                  \* of the patrol and its fleets
  MaxNow, MaxOrders, MaxSorties

DaysAssumption ==
  /\ Nobody \notin Captains
  /\ {Crew, LongAway, MaxNow, MaxOrders, MaxSorties} \subseteq Nat
  /\ {Day, SortieTakes, Regroup} \cup Intervals \cup Strengths \subseteq Nat \ {0}

(* db: captain, sorties, pending, ensured, last and season are the row; jobs the timers with    *)
(* due and aim, the captain a hit is meant for; books is only here, for the properties: wages  *)
(* charged that no payday was had for yet, and hands lost.  world.aim: the aim of a queued hit.*)

DailyJob == 0
NavyJob == -1
HitJob == -2
AlertJob == -3
Jobs == AlertJob..MaxSorties

NewCaptain == [here |-> TRUE, parked |-> FALSE, parkedAt |-> 0, active |-> 1, paid |-> FALSE, unpaid |-> 0, tier |-> 3,
               purser |-> FALSE, crew |-> Crew, until |-> 0, strength |-> 0, ready |-> 0]
NewBooks == [prepaid |-> 0, lost |-> 0]

Init ==
  /\ db = [captain |-> [p \in Captains |-> NewCaptain], sorties |-> {}, pending |-> Nobody, ensured |-> FALSE,
           last |-> 0, season |-> 0, next |-> 1, jobs |-> [id \in Jobs |-> "none"], due |-> [id \in Jobs |-> 0],
           aim |-> [id \in Jobs |-> Nobody], books |-> [p \in Captains |-> NewBooks]]
  /\ world = [queue |-> {}, aim |-> [id \in Jobs |-> Nobody], now |-> 1, open |-> TRUE, orders |-> 0, mishaps |-> 0]

Here(d) == {p \in Captains : d.captain[p].here}
IsBlockaded(d, p) == world.now < d.captain[p].until

(* A handler keeps the row in memory while its calls to the host commit: log is what db becomes *)
(* call by call, the last entry is what is stored now.                                         *)
Loaded == [log |-> <<db>>, row |-> db]
Stored(h) == h.log[Len(h.log)]
Call(h, stored, row) == [log |-> Append(h.log, stored), row |-> row]
Save(h) == [h EXCEPT !.log = Append(@, h.row)]
Writes(h) == Tail(h.log)

Book(d, id, due) == [SetTimer(d, id) EXCEPT !.due[id] = due]
Unbook(d, id) == [CancelTimer(d, id) EXCEPT !.due[id] = 0]
NextRollover == (world.now \div Day + 1) * Day
BookDaily(h) == LET set(d) == Book(d, DailyJob, NextRollover) IN Call(h, set(Stored(h)), set(h.row))
BookNavy(h, interval) == LET set(d) == Book(d, NavyJob, world.now + interval) IN Call(h, set(Stored(h)), set(h.row))

\* backfill_strength: a fleet that left has no ships.
Backfilled(d) ==
  [d EXCEPT !.captain = [p \in Captains |->
     IF ~@[p].parked /\ ~IsBlockaded(d, p) THEN [@[p] EXCEPT !.strength = 0] ELSE @[p]]]

\* ensure_jobs: the daily timer and the patrol's, once.
Ensured(h, interval) ==
  LET daily == IF IsPending(h.row, DailyJob) THEN h ELSE BookDaily(h)
      navy == IF IsPending(h.row, NavyJob) THEN daily ELSE BookNavy(daily, interval)
  IN IF h.row.ensured THEN h ELSE [navy EXCEPT !.row.ensured = TRUE]

\* What every order of a captain is preceded by.
Ordering(p, interval) ==
  LET seen == [Loaded EXCEPT !.row = [Backfilled(db) EXCEPT !.captain[p].active = world.now]]
  IN Ensured(IF Backfilled(db) = db THEN seen ELSE Save(seen), interval)

Follow(p, F(_), w) ==
  world.open /\ p \in Here(db) /\ \E i \in Intervals : Perform(Writes(F(Ordering(p, i))), w)
Order(p, F(_)) == world.orders + world.mishaps < MaxOrders /\ Follow(p, F, [world EXCEPT !.orders = @ + 1])
-----------------------------------------------------------------------------
\* A mutant: paying twice a day is charged twice.
PaidWagesTwice(d, p) ==
  [d EXCEPT !.captain[p].paid = TRUE, !.captain[p].tier = 3, !.captain[p].unpaid = 0, !.books[p].prepaid = @ + 1]

\* pay_wages, unless it was done today
PaidWages(d, p) ==
  IF d.captain[p].paid THEN d
  ELSE [d EXCEPT !.captain[p].paid = TRUE, !.captain[p].tier = 3, !.captain[p].unpaid = 0, !.books[p].prepaid = @ + 1]

Pay(p) ==
  LET pays(h) == Save([h EXCEPT !.row = PaidWages(@, p)])
  IN ~db.captain[p].parked /\ Order(p, pays)

\* !pay auto and !pay off
Purser(p, on) ==
  LET hires(h) == Save([h EXCEPT !.row.captain[p].purser = on])
  IN ~db.captain[p].parked /\ db.captain[p].purser # on /\ Order(p, hires)

\* assault: by luck, but half again the fleet's strength always wins, two thirds or less never.
Assaults(d, p, crew) ==
  LET strength == d.captain[p].strength
      won == [d EXCEPT !.captain[p].until = world.now, !.captain[p].strength = 0, !.captain[p].ready = 0]
      beaten(lost) == [d EXCEPT !.captain[p].crew = @ - lost, !.books[p].lost = @ + lost,
                                !.captain[p].ready = world.now + Regroup]
  IN (IF 3 * crew > 2 * strength THEN {won} ELSE {})
     \cup (IF 2 * crew < 3 * strength THEN {beaten(lost) : lost \in 1..crew} ELSE {})

Assault(p, crew) ==
  LET c == db.captain[p]
  IN /\ ~c.parked /\ IsBlockaded(db, p) /\ c.strength > 0 /\ c.ready <= world.now /\ crew <= c.crew
     /\ \E d \in Assaults(db, p, crew) :
          LET fights(h) == Save([h EXCEPT !.row.captain[p] = [d.captain[p] EXCEPT !.active = world.now], !.row.books = d.books])
          IN Order(p, fights)

\* handle_sail, against the fleet before another isle: the timer is set before the crew leaves.
Harass(p, t, crew) ==
  LET id == db.next
      due == world.now + SortieTakes
      leaves(d) == [d EXCEPT !.captain[p].crew = @ - crew, !.next = @ + 1,
                      !.sorties = @ \cup {[id |-> id, owner |-> p, target |-> t, crew |-> crew, due |-> due]}]
      timed(d) == Book(d, id, due)
      sails(h) == Save(Call(h, timed(Stored(h)), timed(leaves(h.row))))
  IN /\ ~db.captain[p].parked /\ p # t /\ t \in Here(db) /\ ~db.captain[t].parked /\ id <= MaxSorties
     /\ IsBlockaded(db, t) /\ db.captain[t].strength > 0 /\ crew <= db.captain[p].crew
     /\ ~\E s \in db.sorties : s.owner = p
     /\ Order(p, sails)

\* A mutant: the sortie may sink the last ship.
HarassedAway(d, s) ==
  LET home == [d EXCEPT !.captain[s.owner].crew = @ + s.crew, !.sorties = @ \ {s}]
  IN IF ~d.captain[s.target].parked /\ IsBlockaded(d, s.target) /\ d.captain[s.target].strength > 0
     THEN [home EXCEPT !.captain[s.target].strength = Max({@ - s.crew, 0})] ELSE home

\* resolve_harassment: the last ship stays for the captain's own sortie.
Harassed(d, s) ==
  LET home == [d EXCEPT !.captain[s.owner].crew = @ + s.crew, !.sorties = @ \ {s}]
  IN IF ~d.captain[s.target].parked /\ IsBlockaded(d, s.target) /\ d.captain[s.target].strength > 0
     THEN [home EXCEPT !.captain[s.target].strength = Max({@ - s.crew, 1})] ELSE home

\* handle_harassment: one of a captain who parked waits.
SortieReturns(id) ==
  \/ \E s \in db.sorties :
       /\ s.id = id
       /\ PerformTimer(id, <<IF db.captain[s.owner].parked THEN Book(db, id, world.now + 1) ELSE Harassed(db, s)>>, world)
  \/ (\A s \in db.sorties : s.id # id) /\ PerformTimer(id, <<>>, world)
-----------------------------------------------------------------------------
\* A mutant: nobody books the patrol again.
PausedWithThePatrol(h, p, interval) ==
  LET timers == {s.id : s \in {s \in h.row.sorties : s.owner = p}} \cup (IF h.row.pending = p THEN {HitJob} ELSE {})
      cancels(d) == FoldSet(LAMBDA id, e : Unbook(e, id), d, timers)
      parks(d) == [d EXCEPT !.captain[p].parked = TRUE, !.captain[p].parkedAt = world.now,
                            !.pending = IF @ = p THEN Nobody ELSE @]
      parked == Call(h, cancels(Stored(h)), parks(cancels(h.row)))
  IN parked

\* pause_player: timers are cancelled; when the patrol had sighted this captain it sails again.
Paused(h, p, interval) ==
  LET timers == {s.id : s \in {s \in h.row.sorties : s.owner = p}} \cup (IF h.row.pending = p THEN {HitJob} ELSE {})
      cancels(d) == FoldSet(LAMBDA id, e : Unbook(e, id), d, timers)
      parks(d) == [d EXCEPT !.captain[p].parked = TRUE, !.captain[p].parkedAt = world.now,
                            !.pending = IF @ = p THEN Nobody ELSE @]
      parked == Call(h, cancels(Stored(h)), parks(cancels(h.row)))
  IN IF h.row.pending = p THEN BookNavy(parked, interval) ELSE parked

Park(p) ==
  \E i \in Intervals :
    LET parks(h) == Save(Paused(h, p, i)) IN ~db.captain[p].parked /\ Order(p, parks)

\* shift_timer
Shifted(due, at) == IF due > at THEN due + world.now - at ELSE due

\* resume_player
Resumed(h, p) ==
  LET at == h.row.captain[p].parkedAt
      mine == {s \in h.row.sorties : s.owner = p}
      row == [h.row EXCEPT
        !.sorties = (@ \ mine) \cup {[s EXCEPT !.due = Shifted(@, at)] : s \in mine},
        !.captain[p] = [@ EXCEPT !.until = Shifted(@, at), !.ready = Shifted(@, at), !.parked = FALSE, !.parkedAt = 0,
                                 !.active = world.now]]
      timed(d) == FoldSet(LAMBDA s, e : Book(e, s.id, Max({Shifted(s.due, at), world.now + 1})), d, mine)
  IN Call(h, timed(Stored(h)), timed(row))

Unpark(p) == LET back(h) == Save(Resumed(h, p)) IN db.captain[p].parked /\ Follow(p, back, world)
-----------------------------------------------------------------------------
\* retirement_candidates
LongGone(d) ==
  {p \in Here(d) : LongAway > 0 /\ ~d.captain[p].parked /\ world.now - d.captain[p].active >= LongAway}

\* A mutant: payday comes for the parked too.
PaydayParked(c, affords) ==
  LET served == c.paid \/ (c.purser /\ affords)
  IN IF served THEN [c EXCEPT !.paid = FALSE, !.tier = 3, !.unpaid = 0]
     ELSE [c EXCEPT !.unpaid = @ + 1, !.tier = Max({@ - 1, 0}), !.crew = IF c.tier <= 1 THEN Max({@ - 1, 0}) ELSE @]

\* daily_rollover, of one captain, who may have a purser with enough in the hold.
Payday(c, affords) ==
  LET served == c.paid \/ (c.purser /\ affords)
  IN IF c.parked THEN [c EXCEPT !.paid = FALSE]
     ELSE IF served THEN [c EXCEPT !.paid = FALSE, !.tier = 3, !.unpaid = 0]
     ELSE [c EXCEPT !.unpaid = @ + 1, !.tier = Max({@ - 1, 0}), !.crew = IF c.tier <= 1 THEN Max({@ - 1, 0}) ELSE @]

\* A mutant: the purser pays what was paid by hand.
PurserPaysAgain(d, p, affords) == ~d.captain[p].parked /\ d.captain[p].purser /\ affords

\* purser_pays
PurserPays(d, p, affords) == ~d.captain[p].parked /\ d.captain[p].purser /\ ~d.captain[p].paid /\ affords

PaydayFor(d, solvent) ==
  LET pays(p) == PurserPays(d, p, p \in solvent)
      day(p) == Payday(d.captain[p], p \in solvent)
  IN [d EXCEPT !.last = world.now, !.captain = [p \in Captains |-> IF p \in Here(d) THEN day(p) ELSE @[p]],
        !.books = [p \in Captains |->
          [prepaid |-> @[p].prepaid + (IF pays(p) THEN 1 ELSE 0) - (IF d.captain[p].paid \/ pays(p) THEN 1 ELSE 0),
           lost |-> @[p].lost + (IF p \in Here(d) THEN d.captain[p].crew - day(p).crew ELSE 0)]]]

\* handle_daily: the next one is booked before this one is saved.
Daily ==
  \E i \in Intervals, solvent \in SUBSET {p \in Captains : db.captain[p].purser} :
    LET retired == FoldSet(LAMBDA p, h : Paused(h, p, i), Loaded, LongGone(db))
    IN PerformTimer(DailyJob,
         IF ~world.open \/ (db.last > 0 /\ db.last = world.now) THEN Writes(BookDaily(Loaded))
         ELSE Writes(Save(BookDaily([retired EXCEPT !.row = PaydayFor(@, solvent)]))), world)

\* handle_navy_announce, of some captain at sea, for pick_target draws lots.
Announce ==
  \E i \in Intervals :
    LET atSea == {p \in Here(db) : ~db.captain[p].parked}
        sighted(p) == [db EXCEPT !.pending = p]
        sent(p) == [Book(sighted(p), HitJob, world.now + Day) EXCEPT !.aim[HitJob] = p]
    IN IF world.open /\ atSea # {} THEN \E p \in atSea : PerformTimer(NavyJob, <<sighted(p), sent(p)>>, world)
       ELSE PerformTimer(NavyJob, Writes(BookNavy(Loaded, i)), world)

\* A mutant: fleets join a blockade.
BlockadesOn(d, t) ==
  IF t \notin Here(d) \/ d.captain[t].parked THEN {d}
  ELSE {[d EXCEPT !.captain[t].strength = s, !.captain[t].until = Max({@, world.now}) + Day] : s \in Strengths}

\* apply_blockade
Blockades(d, t) ==
  IF t \notin Here(d) \/ d.captain[t].parked \/ IsBlockaded(d, t) THEN {d}
  ELSE {[d EXCEPT !.captain[t].strength = s, !.captain[t].until = world.now + Day] : s \in Strengths}

\* A mutant: the patrol is not booked again when nobody is at sea.
PatrolBookedIfOpen(h, interval) == IF world.open THEN BookNavy(h, interval) ELSE h

\* handle_navy_hit: the patrol's, which is booked again first.
PatrolBooked(h, interval) == BookNavy(h, interval)

Hit ==
  \E i \in Intervals :
    LET booked == PatrolBooked(Loaded, i)
        cleared == [booked.row EXCEPT !.pending = Nobody]
    IN \E d \in IF world.open THEN Blockades(cleared, world.aim[HitJob]) ELSE {cleared} :
         PerformTimer(HitJob, Writes(IF d = booked.row THEN booked ELSE Save([booked EXCEPT !.row = d])),
           [world EXCEPT !.aim[HitJob] = Nobody])

\* handle_navy_hit: an alert's.
AlertHits ==
  \E d \in IF world.open THEN Blockades(db, world.aim[AlertJob]) ELSE {db} :
    PerformTimer(AlertJob, IF d = db THEN <<>> ELSE <<d>>, [world EXCEPT !.aim[AlertJob] = Nobody])

\* A raid the Navy hears of.
Alert(t) ==
  /\ world.open /\ world.orders + world.mishaps < MaxOrders /\ ~IsPending(db, AlertJob)
  /\ Perform(<<[Book(db, AlertJob, world.now + 1) EXCEPT !.aim[AlertJob] = t]>>, [world EXCEPT !.orders = @ + 1])
-----------------------------------------------------------------------------
\* A mutant: wages paid are forgotten, days unpaid are not.
NewSeasonInArrears(d) ==
  [d EXCEPT !.sorties = {}, !.pending = Nobody, !.season = @ + 1,
     !.captain = [p \in Captains |-> IF ~@[p].here THEN @[p] ELSE
        [NewCaptain EXCEPT !.active = d.captain[p].active, !.purser = d.captain[p].purser, !.parked = d.captain[p].parked,
                           !.unpaid = d.captain[p].unpaid, !.parkedAt = IF d.captain[p].parked THEN world.now ELSE 0]],
     !.books = [p \in Captains |-> NewBooks]]

\* end_season, settle_voyages
NewSeason(d) ==
  [d EXCEPT !.sorties = {}, !.pending = Nobody, !.season = @ + 1,
     !.captain = [p \in Captains |-> IF ~@[p].here THEN @[p] ELSE
        [NewCaptain EXCEPT !.active = d.captain[p].active, !.purser = d.captain[p].purser, !.parked = d.captain[p].parked,
                           !.parkedAt = IF d.captain[p].parked THEN world.now ELSE 0]],
     !.books = [p \in Captains |-> NewBooks]]

SeasonTurns ==
  /\ world.open /\ world.orders + world.mishaps < MaxOrders
  /\ Perform(<<NewSeason(db)>>, [world EXCEPT !.orders = @ + 1])

\* remove_captains, and the host's timers for that person.
Erase(p) ==
  LET mine == {s \in db.sorties : s.owner = p}
      against == {s \in db.sorties : s.target = p /\ s.owner # p}
      home == FoldSet(LAMBDA s, d : [d EXCEPT !.captain[s.owner].crew = @ + s.crew], db, against)
      gone == [home EXCEPT !.sorties = @ \ (mine \cup against), !.pending = IF @ = p THEN Nobody ELSE @,
                 !.captain[p] = [NewCaptain EXCEPT !.here = FALSE], !.books[p] = NewBooks]
  IN /\ p \in Here(db)
     /\ db' = FoldSet(LAMBDA s, d : Unbook(d, s.id), gone, mine)
     /\ UNCHANGED world

\* Time passes; that a timer is late counts as an order, and so does a handler cut short.
Tick ==
  LET waits == world.queue # {} \/ \E id \in Jobs : db.jobs[id] = "set" /\ db.due[id] <= world.now
  IN /\ world.now < MaxNow /\ (waits => world.orders + world.mishaps < MaxOrders)
     /\ world' = [world EXCEPT !.now = @ + 1, !.orders = IF waits THEN @ + 1 ELSE @]
     /\ UNCHANGED db

OpenOrClose ==
  /\ \/ ~world.open /\ world' = [world EXCEPT !.open = TRUE]
     \/ world.open /\ world.orders + world.mishaps < MaxOrders /\ world' = [world EXCEPT !.open = FALSE, !.orders = @ + 1]
  /\ UNCHANGED db

\* A timer is sent when it is due, with its payload.
Delivered(id) ==
  /\ db.due[id] <= world.now
  /\ db.jobs[id] = "set" /\ id \notin world.queue
  /\ db' = [db EXCEPT !.jobs[id] = "sent", !.due[id] = 0]
  /\ world' = [world EXCEPT !.queue = @ \cup {id}, !.aim[id] = db.aim[id]]

Next ==
  \/ Tick \/ OpenOrClose \/ SeasonTurns \/ Daily \/ Announce \/ Hit \/ AlertHits
  \/ \E id \in Jobs : Delivered(id)
  \/ \E id \in 1..MaxSorties : SortieReturns(id)
  \/ \E p \in Captains :
       \/ Pay(p) \/ Park(p) \/ Unpark(p) \/ Alert(p) \/ Erase(p) \/ \E on \in BOOLEAN : Purser(p, on)
       \/ \E crew \in 1..Crew : Assault(p, crew) \/ \E t \in Captains : Harass(p, t, crew)

Spec == Init /\ [][Next]_handlerVars
-----------------------------------------------------------------------------
\* As long as no handler was cut short, paydays and the patrol go on for good: the daily timer is
\* set, and so is the patrol's next sighting or its hit; and who was sighted will be hit, or
\* parked in time.
PatrolGoesOn ==
  world.mishaps = 0 /\ db.ensured =>
    /\ IsDriven(DailyJob)
    /\ IsDriven(NavyJob) \/ IsDriven(HitJob)
    /\ db.pending # Nobody => IF HitJob \in world.queue /\ ~IsPending(db, HitJob) THEN world.aim[HitJob] = db.pending
                              ELSE IsPending(db, HitJob) /\ db.aim[HitJob] = db.pending

\* A fleet that blockades has a ship left to fight, and stays one day at most that its captain is
\* not parked, however often fleets are sent, harassed, or the captain parks.
BlockadesPass ==
  \A p \in Here(db) :
    LET c == db.captain[p]
    IN /\ ~c.parked /\ IsBlockaded(db, p) => c.strength > 0
       /\ c.until <= (IF c.parked THEN c.parkedAt ELSE world.now) + Day

\* Every wage charged is for one payday, or the day of a season that ended or of parking; the
\* crew's loyalty is what the unpaid days left of it.
WagesArePaidOnce ==
  \A p \in Here(db) : /\ db.books[p].prepaid = IF db.captain[p].paid THEN 1 ELSE 0
                      /\ db.captain[p].tier = Max({3 - db.captain[p].unpaid, 0})

\* Hands at home, on sorties, lost and deserted are those of the season's begin.
HandsAreAccounted ==
  \A p \in Here(db) :
    Crew = db.captain[p].crew + db.books[p].lost + MapThenSumSet(LAMBDA s : s.crew, {s \in db.sorties : s.owner = p})

DaysAreFair == PatrolGoesOn /\ BlockadesPass /\ WagesArePaidOnce /\ HandsAreAccounted

\* Of a ship that is parked nobody deserts, no day counts as unpaid, and no fleet comes.
ParkedDaysDoNotCount ==
  \A p \in Here(db) :
    LET c == db.captain[p] IN
    c.parked /\ db'.captain[p].parked /\ db'.season = db.season
    => db'.captain[p] = [c EXCEPT !.paid = @ /\ db'.captain[p].paid, !.crew = db'.captain[p].crew, !.active = db'.captain[p].active]
       /\ db'.captain[p].crew >= c.crew
=============================================================================
