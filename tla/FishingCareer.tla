--------------------------- MODULE FishingCareer ----------------------------
(***************************************************************************)
(* What lasts beyond a cast (modules-src/fishing).                         *)
(*                                                                         *)
(* An angler's rod and limbs: hours in the workshop strengthen the rod     *)
(* once they are over, and big fish wear it; dynamite takes hands and      *)
(* danger mode limbs, which grow back by themselves or are bought back.    *)
(* Nothing runs when a deadline passes: the next command settles what is   *)
(* due, and not every command saves what it settled.                       *)
(*                                                                         *)
(* The quarters of the game (seasons.rs): the first command after a        *)
(* quarter crowns the champions of every quarter that has passed, clears   *)
(* the counters, saves the anglers' rows one by one and then the shared    *)
(* row, and pays.  The two share no state: a behaviour is of one of them.  *)
(***************************************************************************)
EXTENDS Handlers

CONSTANTS
  Limbs, Hours,            \* hours a fix may take
  WearEvery,               \* ROD_DECAY_EVERY
  RodMaxima,               \* rod_max_strength may be set to these
  Regrow, Recovery, Confirm,   \* dynamite_hand_regrow_seconds, danger_recovery_seconds, danger_confirm_seconds
  HealCost, Purse,         \* limb_heal_xp_cost, the XP the angler has
  MaxNow, MaxFixes, MaxCatches, MaxBlasts,  \* bounds
  Anglers,
  MaxQuarter, MaxDeeds     \* bounds: quarters, catches and casts worth a title

GearAssumption ==
  /\ Hours \cup RodMaxima \subseteq Nat \ {0} /\ RodMaxima # {}
  /\ {WearEvery, Regrow, Recovery, Confirm, HealCost, Purse, MaxNow, MaxFixes, MaxCatches, MaxBlasts} \subseteq Nat

(* db: the angler's row; no limb and no hand is due at 0.  world: the clock, the setting,  *)
(* and what was committed, worn and paid.                                                  *)

None == 0
Whole == [limb \in Limbs |-> None]

GearInit ==
  /\ db = [rod |-> [strength |-> 0, hours |-> 0, until |-> None, wear |-> 0],
           hands |-> [lost |-> 0, ban |-> None, regrow |-> None],
           danger |-> [on |-> FALSE, asked |-> None, limbs |-> Whole], xp |-> Purse, out |-> FALSE]
  /\ \E most \in RodMaxima :
       world = [now |-> 1, rodMax |-> most, rodLeast |-> most, committed |-> 0, worn |-> 0,
                fixes |-> 0, catches |-> 0, blasts |-> 0, mishaps |-> 0]

Least(a, b) == IF a < b THEN a ELSE b

\* A mutant: the hours stay pending.
SettledAgain(rod) ==
  IF rod.until # None /\ world.now >= rod.until
  THEN [rod EXCEPT !.until = None, !.strength = Least(@ + rod.hours, world.rodMax)]
  ELSE [rod EXCEPT !.strength = Least(@, world.rodMax)]

\* settle_rod
Settled(rod) ==
  IF rod.until # None /\ world.now >= rod.until
  THEN [rod EXCEPT !.until = None, !.hours = 0, !.strength = Least(@ + rod.hours, world.rodMax)]
  ELSE [rod EXCEPT !.strength = Least(@, world.rodMax)]

InWorkshop(rod) == rod.until # None /\ world.now < rod.until

\* settle_dynamite_hands
Regrown(hands) ==
  IF hands.regrow # None /\ world.now >= hands.regrow THEN [lost |-> 0, ban |-> None, regrow |-> None]
  ELSE hands
\* A mutant: all of them together, with the first.
RecoveredTogether(danger) ==
  IF \E limb \in Limbs : danger.limbs[limb] # None /\ world.now >= danger.limbs[limb]
  THEN [danger EXCEPT !.limbs = Whole] ELSE danger

\* settle_recovery: each limb by its own deadline.
Recovered(danger) ==
  [danger EXCEPT !.limbs = [limb \in Limbs |-> IF world.now >= @[limb] THEN None ELSE @[limb]]]

Missing(danger) == {limb \in Limbs : danger.limbs[limb] # None}
\* active_dynamite_ban, active_ban
HandsBan(hands) == Regrown(hands).ban # None
LimbsBan(danger) == Missing(Recovered(danger)) = Limbs

Save(d) == Perform(<<d>>, world)

\* cmd_fix: what is due is settled and saved first.
Fix(hours) ==
  LET settled == [db EXCEPT !.rod = Settled(@)]
      fixing == [settled EXCEPT !.rod.hours = hours, !.rod.until = world.now + hours]
  IN /\ world.fixes < MaxFixes
     /\ ~InWorkshop(settled.rod) /\ settled.rod.strength < world.rodMax
     /\ Perform(<<settled, fixing>>, [world EXCEPT !.fixes = @ + 1, !.committed = @ + hours])

\* cmd_rod
LookAtRod == Save([db EXCEPT !.rod = Settled(@)])

\* cmd_cast_inner: the workshop, the hands (unless a friend casts) and the limbs are checked; only
\* a refusal for the limbs saves what was settled.
Cast(byFriend) ==
  LET settled == [db EXCEPT !.rod = Settled(@), !.hands = IF byFriend THEN @ ELSE Regrown(@),
                            !.danger = Recovered(@)]
  IN /\ ~db.out /\ ~InWorkshop(settled.rod)
     /\ IF byFriend THEN HandsBan(db.hands) ELSE ~HandsBan(db.hands)
     /\ Save(IF LimbsBan(db.danger) THEN settled ELSE [settled EXCEPT !.out = TRUE])

\* apply_rod_wear
Worn(rod) ==
  IF rod.strength = 0 THEN rod
  ELSE IF rod.wear + 1 < WearEvery THEN [rod EXCEPT !.wear = @ + 1]
  ELSE [rod EXCEPT !.strength = @ - 1, !.wear = 0]

\* A mutant: also with all of them gone.
HurtEvenSo(danger) ==
  {Recovered(danger)} \cup {[Recovered(danger) EXCEPT !.limbs[limb] = world.now + Recovery] : limb \in Limbs}

\* resolve_catch: the lake may fire back; a limb that is already lost is not lost again.
Hurt(danger) ==
  LET d == Recovered(danger)
  IN IF ~d.on THEN {danger} ELSE IF Missing(d) = Limbs THEN {d}
     ELSE {d} \cup {[d EXCEPT !.limbs[limb] = world.now + Recovery] : limb \in Limbs \ Missing(d)}

\* cmd_reel: a catch of a big fish; the line left or lost otherwise.
Reel ==
  /\ db.out /\ world.catches < MaxCatches
  /\ \E danger \in Hurt(db.danger) :
       LET rod == Worn(Settled(db.rod))
       IN Perform(<<[db EXCEPT !.rod = rod, !.danger = danger, !.out = FALSE]>>,
            [world EXCEPT !.catches = @ + 1, !.worn = @ + Settled(db.rod).strength - rod.strength])

\* cmd_danger: the question, unless it is open; cmd_answer, cmd_safety.
Asked(danger) == danger.asked # None /\ world.now < danger.asked
Enlist ==
  LET d == Recovered(db.danger)
      asked == IF Asked(d) \/ d.on THEN d ELSE [d EXCEPT !.asked = world.now + Confirm]
  IN Save([db EXCEPT !.danger = asked])
Answer(yes) ==
  Save([db EXCEPT !.danger.asked = None, !.danger.on = @ \/ (yes /\ Asked(db.danger))])
Safety == Save([db EXCEPT !.danger.asked = None, !.danger.on = FALSE])
\* cmd_limbs, cmd_hands
LookAtLimbs == Save([db EXCEPT !.danger = Recovered(@)])
LookAtHands == Save([db EXCEPT !.hands = Regrown(@)])

\* A mutant: the second hand does not move the date.
BlownOld(hands) ==
  IF hands.lost = 0 THEN [hands EXCEPT !.lost = 1, !.regrow = world.now + Regrow]
  ELSE [hands EXCEPT !.lost = 2, !.ban = world.now + Regrow]

\* cmd_dynamite: the first hand, or the second with a ban.
Blown(hands) ==
  IF hands.lost = 0 THEN [hands EXCEPT !.lost = 1, !.regrow = world.now + Regrow]
  ELSE [lost |-> 2, ban |-> world.now + Regrow, regrow |-> world.now + Regrow]

\* It is refused in danger mode and to who has no hands or no limbs.
Dynamite ==
  LET hands == Regrown(db.hands)
      settled == [db EXCEPT !.hands = hands, !.danger = Recovered(@)]
  IN /\ world.blasts < MaxBlasts /\ ~db.danger.on /\ ~HandsBan(db.hands) /\ ~LimbsBan(db.danger)
     /\ Perform(<<[settled EXCEPT !.hands = Blown(hands), !.out = @ /\ Blown(hands).lost < 2]>>,
                [world EXCEPT !.blasts = @ + 1])

\* cmd_heal: all that is missing, hands and limbs, at a price each.
Heal ==
  LET settled == [db EXCEPT !.hands = Regrown(@), !.danger = Recovered(@)]
      cost == HealCost * (settled.hands.lost + Cardinality(Missing(settled.danger)))
  IN IF cost = 0 \/ db.xp < cost THEN Save(settled)
     ELSE Save([settled EXCEPT !.xp = @ - cost, !.danger.limbs = Whole,
                               !.hands = [lost |-> 0, ban |-> None, regrow |-> None]])

Later == world.now < MaxNow /\ world' = [world EXCEPT !.now = @ + 1] /\ UNCHANGED db
SetRodMax(most) == world' = [world EXCEPT !.rodMax = most, !.rodLeast = Least(@, most)] /\ UNCHANGED db

GearNext ==
  \/ (\E hours \in Hours : Fix(hours)) \/ LookAtRod \/ (\E friend \in BOOLEAN : Cast(friend)) \/ Reel
  \/ Enlist \/ (\E yes \in BOOLEAN : Answer(yes)) \/ Safety \/ LookAtLimbs \/ LookAtHands
  \/ Dynamite \/ Heal \/ Later \/ \E most \in RodMaxima : SetRodMax(most)

GearSpec == GearInit /\ [][GearNext]_handlerVars

\* "so committed time is never lost and never double-counted": the strength there is and is to
\* come is what was committed less what was worn off, as long as no limit was in the way.
RodAddsUp ==
  LET strength == db.rod.strength + db.rod.hours
  IN /\ strength + world.worn <= world.committed
     /\ world.committed <= world.rodLeast => strength + world.worn = world.committed
     /\ db.rod.hours = 0 <=> db.rod.until = None

\* Whoever is kept from fishing is let back by a date: hands and a ban come back together, and
\* limbs one by one, each no later than a recovery from now.
InjuriesHeal ==
  /\ db.hands.ban # None => db.hands.lost = 2 /\ db.hands.ban = db.hands.regrow
  /\ db.hands.lost = 0 <=> db.hands.regrow = None
  /\ \A limb \in Limbs : db.danger.limbs[limb] <= world.now + Recovery
  /\ Cardinality(Missing(db.danger)) <= world.catches

\* A limb or a hand comes back by its date or for a price, never otherwise.
NothingHealsEarly ==
  /\ \A limb \in Limbs : db'.danger.limbs[limb] # db.danger.limbs[limb] =>
       \/ db.danger.limbs[limb] <= world.now
       \/ db'.danger.limbs = Whole /\ db'.xp = db.xp - HealCost * Cardinality(
            {l \in Limbs : db.danger.limbs[l] > world.now}) - HealCost * Regrown(db.hands).lost
  /\ db'.hands.lost < db.hands.lost => db.hands.regrow <= world.now \/ db'.xp < db.xp

GearIsSound == RodAddsUp /\ InjuriesHeal

-----------------------------------------------------------------------------
(* The quarters.                                                           *)

SeasonsAssumption == Anglers # {} /\ {MaxQuarter, MaxDeeds} \subseteq Nat

Titles == {"traveler", "caster", "collector"}
\* The last quarter before VOID_EXPANSION_START; and what each title is for.
VoidQuarter == 1
Deed == [traveler |-> "levels", caster |-> "far", collector |-> "rare"]
NoStats == [levels |-> 0, far |-> 0, rare |-> 0, xp |-> 0]
NoChampion == "nobody"
NoChampions == [t \in Titles |-> NoChampion]

(* db: stats, the counters in the anglers' rows; boundary, the quarter that is open in the   *)
(* shared row, 0 before the first command; champions, of the last quarter; paid, the brass   *)
(* of the host.  world: the quarter it is and what each really did in each.                  *)

SeasonsInit == \E stats \in {NoStats, [NoStats EXCEPT !.far = 1, !.xp = 1]} :
  /\ db = [stats |-> [p \in Anglers |-> stats], boundary |-> 0, champions |-> NoChampions, paid |-> {}]
  /\ world = [quarter |-> 1, did |-> [q \in 1..MaxQuarter |-> [p \in Anglers |-> IF q = 1 THEN stats ELSE NoStats]],
              deeds |-> 0, mishaps |-> 0]

\* A mutant: the counters are not asked for.
BestOfAll(stats, t) == Anglers

\* compute_champions: who did most for a title, seasonal XP deciding ties; nobody who did nothing.
Best(stats, t) ==
  {p \in Anglers : /\ stats[p][Deed[t]] > 0
                   /\ \A q \in Anglers : \/ stats[q][Deed[t]] < stats[p][Deed[t]]
                                         \/ stats[q][Deed[t]] = stats[p][Deed[t]] /\ stats[q].xp <= stats[p].xp}

\* A mutant: the counters go on.
CrownedKeeping(d) ==
  {[d EXCEPT !.boundary = @ + 1, !.champions = c] :
     c \in {c \in [Titles -> Anglers \cup {NoChampion}] :
              \A t \in Titles : IF Best(d.stats, t) = {} THEN c[t] = NoChampion ELSE c[t] \in Best(d.stats, t)}}

\* run_season_reset: the champions of the open quarter, the counters from nothing, the next quarter.
Crowned(d) ==
  {[d EXCEPT !.boundary = @ + 1, !.champions = c, !.stats = [p \in Anglers |-> NoStats]] :
     c \in {c \in [Titles -> Anglers \cup {NoChampion}] :
              \A t \in Titles : IF Best(d.stats, t) = {} THEN c[t] = NoChampion ELSE c[t] \in Best(d.stats, t)}}

\* maybe_seasonal_reset: the first sight of a network opens the quarter, or, with anglers of old,
\* the last before VOID_EXPANSION_START; then each that has passed is crowned.  The runs lead
\* from one crowning to the next.
Resets(d) ==
  LET known == \E p \in Anglers : d.stats[p] # NoStats
      opened == IF d.boundary # 0 THEN d
                ELSE [d EXCEPT !.boundary = IF known THEN VoidQuarter ELSE world.quarter]
      runs[n \in 0..MaxQuarter] ==
        IF n = 0 THEN {<<opened>>}
        ELSE UNION {{Append(r, e) : e \in Crowned(r[Len(r)])} : r \in runs[n - 1]}
  IN runs[world.quarter - opened.boundary]

\* save_state: the rows in some order, then the shared row.
Orders == {o \in [1..Cardinality(Anglers) -> Anglers] : \A p \in Anglers : \E i \in DOMAIN o : o[i] = p}
Saved(d, e, order) ==
  [i \in DOMAIN order |-> [d EXCEPT !.stats = [p \in Anglers |->
     IF \E j \in 1..i : order[j] = p THEN e.stats[p] ELSE @[p]]]] \o <<e>>

\* announce_season: the prize of each title of a crowning, once for the season and the title.
Prizes(season, champions) ==
  {<<season, t, champions[t]>> : t \in {t \in Titles : champions[t] # NoChampion}}
\* A mutant: only the last of the quarters that have passed.
PaidLast(run, d) ==
  IF Len(run) = 1 THEN <<>>
  ELSE <<[d EXCEPT !.paid = @ \cup Prizes(run[Len(run) - 1].boundary, run[Len(run)].champions)]>>

\* on_message: after the save, each crowning in turn.
Paid(run, d) ==
  LET upTo(n) == UNION {Prizes(run[i].boundary, run[i + 1].champions) : i \in 1..n}
  IN [n \in 1..Len(run) - 1 |-> [d EXCEPT !.paid = @ \cup upTo(n)]]

\* The command itself: season_stats_mut and what was done for a title.
Did(stats, deed) == [stats EXCEPT ![deed] = @ + 1, !.xp = @ + 1]

After(d, states) == IF states = <<>> THEN d ELSE states[Len(states)]

\* Any fishing command, with a deed or without.
Fish(p, deed) ==
  /\ world.deeds < MaxDeeds
  /\ \E run \in Resets(db), order \in Orders :
       LET reset == run[Len(run)]
           saved == IF reset = db THEN <<>> ELSE Saved(db, reset, order)
           paid == Paid(run, After(db, saved))
           crowned == After(After(db, saved), paid)
           fished == [crowned EXCEPT !.stats[p] = Did(@, deed)]
       IN Perform(saved \o paid \o <<fished>>,
                  [world EXCEPT !.did[world.quarter][p] = Did(@, deed), !.deeds = @ + 1])

\* data_delete: the counters and the names of the champion who leaves.
Erase(p) ==
  /\ db' = [db EXCEPT !.stats[p] = NoStats,
              !.champions = [t \in Titles |-> IF @[t] = p THEN NoChampion ELSE @[t]]]
  /\ world' = [world EXCEPT !.did = [q \in 1..MaxQuarter |-> [@[q] EXCEPT ![p] = NoStats]]]

NewQuarter ==
  world.quarter < MaxQuarter /\ world' = [world EXCEPT !.quarter = @ + 1] /\ UNCHANGED db

SeasonsNext ==
  \/ NewQuarter
  \/ \E p \in Anglers : Erase(p) \/ \E deed \in {"levels", "far", "rare"} : Fish(p, deed)

SeasonsSpec == SeasonsInit /\ [][SeasonsNext]_handlerVars

\* "once": no title of a season is paid to two, nor for a season that is not over, whatever is
\* cut short between the rows, the shared row and the payments.
TitlesArePaidOnce ==
  \A e, f \in db.paid : /\ e[1] = f[1] /\ e[2] = f[2] => e = f
                        /\ e[1] < db.boundary

\* Uncut, and as far as nobody left, those who are paid did most for their title in that season,
\* and every season that is over is paid, however many had passed when the next command came.
TheBestAreCrowned ==
  world.mishaps = 0 =>
    /\ \A e \in db.paid : LET did == world.did[e[1]] IN did[e[3]] # NoStats =>
         did[e[3]][Deed[e[2]]] > 0 /\ \A q \in Anglers : did[q][Deed[e[2]]] <= did[e[3]][Deed[e[2]]]
    /\ \A q \in 1..db.boundary - 1, t \in Titles :
         (\E p \in Anglers : world.did[q][p][Deed[t]] > 0) => \E e \in db.paid : e[1] = q /\ e[2] = t

\* The counters are those of the open quarter.
CountersAreSeasonal ==
  world.mishaps = 0 /\ db.boundary = world.quarter => db.stats = world.did[world.quarter]

SeasonsAreFair == TitlesArePaidOnce /\ TheBestAreCrowned /\ CountersAreSeasonal
=============================================================================
