------------------------------ MODULE Fishing -------------------------------
(***************************************************************************)
(* Lines cast and reeled in (modules-src/fishing).  An angler has one row, *)
(* everything shared (the lines that are out, the chum) is one more: a     *)
(* save writes the angler's row first, then the shared one, and whatever   *)
(* the host is to pay or count comes after both.  What bites is chance;    *)
(* weights and rarities only set the XP of a catch.                        *)
(***************************************************************************)
EXTENDS Handlers, FiniteSetsExt

CONSTANTS
  Anglers,
  Curve,                 \* XP each level takes, from level 0 on: a sequence, increasing
  CatchXp, JunkXp,       \* what a catch may give, what junk gives
  Baits, LureCost, ChumCost,
  ChumLasts, ChumRests,  \* chum_active_seconds, chum_cooldown_seconds
  MinWait, VampireHour,
  QuestLevels,           \* WORMHOLE_REWARD_LEVELS
  Stashes,               \* XP of the retired universes an old save may hold
  MaxNow, MaxCasts, MaxExtras   \* bounds: time, casts of an angler, lures, chums and dynamite

FishingAssumption ==
  /\ Curve \in Seq(Nat \ {0}) /\ CatchXp \cup Baits \cup Stashes \subseteq Nat
  /\ {JunkXp, LureCost, ChumCost, ChumLasts, ChumRests, MinWait, QuestLevels, MaxNow, MaxCasts, MaxExtras} \subseteq Nat
  /\ MinWait < VampireHour

(* db: angler, the rows, where spent is only here, for the properties; line, chum and     *)
(* stash, the shared row; paid and awarded, the brass and the achievements of the host.   *)

NoLine == [at |-> 0, bait |-> 0, deep |-> FALSE]
NoChum == [until |-> 0, rests |-> 0]
NewAngler == [level |-> 0, xp |-> 0, earned |-> 0, spent |-> 0, fish |-> 0, casts |-> 0,
              lure |-> FALSE, blessed |-> FALSE, quest |-> FALSE]

Init == \E stash \in [Anglers -> Stashes] :
  /\ db = [angler |-> [p \in Anglers |-> NewAngler], line |-> [p \in Anglers |-> NoLine],
           chum |-> NoChum, stash |-> stash, paid |-> {}, awarded |-> [p \in Anglers |-> 0]]
  /\ world = [now |-> 1, stash |-> stash, extras |-> 0, mishaps |-> 0]

\* xp_for_level, over several levels: what climbing from one to another takes.
Climb(from, to) == MapThenSumSet(LAMBDA l : Curve[l + 1], from..to - 1)

\* check_level_up: raw XP folded into levels.
Levelled(row) ==
  LET level == CHOOSE l \in row.level..Len(Curve) - 1 :
                 Climb(row.level, l) <= row.xp /\ row.xp < Climb(row.level, l + 1)
  IN [row EXCEPT !.level = level, !.xp = @ - Climb(row.level, level)]

\* A mutant: what is left of the level counts twice.
GrantOfWholeLevels(row, count) == Climb(row.level, row.level + count)

\* xp_for_next_levels
Grant(row, count) ==
  (IF Curve[row.level + 1] > row.xp THEN Curve[row.level + 1] - row.xp ELSE 0)
  + Climb(row.level + 1, row.level + count)

Earn(row, xp) == [row EXCEPT !.xp = @ + xp, !.earned = @ + xp]
Spend(row, xp) == [row EXCEPT !.xp = @ - xp, !.spent = @ + xp]

\* A mutant: the stash is read and left.
LoadedAgain(d) ==
  [d EXCEPT !.angler = [p \in Anglers |->
     Levelled([@[p] EXCEPT !.level = 0, !.xp = @ + Climb(0, d.angler[p].level) + d.stash[p]])]]

\* load_state: universes of old saves are folded into the row.
Loaded(d) ==
  [d EXCEPT !.stash = [p \in Anglers |-> 0],
     !.angler = [p \in Anglers |-> IF d.stash[p] = 0 THEN @[p] ELSE
       Levelled([@[p] EXCEPT !.level = 0, !.xp = @ + Climb(0, d.angler[p].level) + d.stash[p]])]]

\* save_state: the rows of anglers that changed, then the shared row if it did.
Saved(d, e) == <<[d EXCEPT !.angler = e.angler], e>>

After(d, states) == IF states = <<>> THEN d ELSE states[Len(states)]

\* One command and then another, from what the first left.
Then(d, runs, Next2(_)) == UNION {{s \o t : t \in Next2(After(d, s))} : s \in runs}

\* cmd_cast_inner: bait is paid, the line is out; inside a wormhole neither place nor bait matters.
Cast(d, p, bait) ==
  LET l == Loaded(d)
      row == l.angler[p]
      deep == row.quest
      out == [at |-> world.now, bait |-> IF deep THEN 0 ELSE bait, deep |-> deep]
      cast == [Spend(row, out.bait) EXCEPT !.casts = @ + 1]
  IN IF l.line[p] # NoLine \/ row.casts = MaxCasts \/ (~deep /\ bait > row.xp) THEN {<<>>}
     ELSE {Saved(d, [l EXCEPT !.angler[p] = cast, !.line[p] = out])}

\* The row after a catch, or none: what it may have become.
Landed(row, xp, forced) ==
  Levelled([Earn(row, xp) EXCEPT !.fish = @ + 1, !.lure = FALSE, !.blessed = @ /\ ~forced])

\* A mutant: counted before it is saved.
CaughtCountingFirst(d, l, p, row) ==
  LET counted == [d EXCEPT !.awarded[p] = @ + 1, !.paid = @ \cup {<<p, d.line[p].at>>}]
  IN <<counted>> \o Saved(counted, [counted EXCEPT !.angler[p] = row, !.line[p] = NoLine, !.stash = l.stash])

\* cmd_reel, at last: the rows, the brass of that cast, then the achievements.
Caught(d, l, p, row) ==
  LET saved == Saved(d, [l EXCEPT !.angler[p] = row, !.line[p] = NoLine])
      paid == [saved[2] EXCEPT !.paid = @ \cup {<<p, d.line[p].at>>}]
  IN saved \o <<paid, [paid EXCEPT !.awarded[p] = @ + 1]>>

\* A mutant: the quest stays after it is won.
ReelInWormholeAgain(d, l, p) ==
  LET row == l.angler[p]
  IN {Saved(d, [l EXCEPT !.angler[p] = r]) :
        r \in {Earn(row, JunkXp), [Levelled(Earn(row, Grant(row, QuestLevels))) EXCEPT !.quest = FALSE]}}

\* resolve_wormhole_reel: the quest's item, or something else and a little XP.
ReelInWormhole(d, l, p) ==
  LET row == l.angler[p]
      missed == Earn(row, JunkXp)
      won == [Levelled(Earn(row, Grant(row, QuestLevels))) EXCEPT !.quest = FALSE]
  IN IF ~row.quest THEN {<<>>}
     ELSE {Saved(d, [l EXCEPT !.angler[p] = r, !.line[p] = NoLine]) : r \in {missed, won}}

\* cmd_reel: junk or an artifact, a fish that escapes, a line that breaks, a wormhole or a catch.  A
\* blessing finds a rare fish, and no junk, unless the water has none; hour 666 is always a catch.
Bites(d, l, p) ==
  LET row == l.angler[p]
      vampire == world.now - l.line[p].at = VampireHour
      junk == Saved(d, [l EXCEPT !.line[p] = NoLine, !.angler[p] = Earn(row, JunkXp)])
      wormhole == Saved(d, [l EXCEPT !.line[p] = NoLine, !.angler[p].quest = TRUE])
  IN {Caught(d, l, p, Landed(row, xp, forced)) :
        xp \in CatchXp, forced \in {FALSE} \cup {row.blessed /\ ~vampire}}
     \cup (IF vampire \/ row.blessed THEN {} ELSE {junk})
     \cup (IF vampire \/ row.quest THEN {} ELSE {wormhole})

\* cmd_reel: a line reeled in too early comes in empty, and one may after too long or of itself.  An
\* event may make the wait count double.
Reel(d, p) ==
  LET l == Loaded(d)
      line == l.line[p]
      waited == world.now - line.at
      empty == Saved(d, [l EXCEPT !.line[p] = NoLine])
  IN IF line = NoLine THEN {<<>>}
     ELSE IF line.deep THEN ReelInWormhole(d, l, p)
     ELSE (IF waited = VampireHour THEN {} ELSE {empty})
          \cup (IF 2 * waited < MinWait THEN {} ELSE Bites(d, l, p))

\* cmd_lure
Lure(d, p) ==
  LET l == Loaded(d)
      row == l.angler[p]
  IN IF row.lure \/ row.xp < LureCost THEN {<<>>}
     ELSE {Saved(d, [l EXCEPT !.angler[p] = [Spend(row, LureCost) EXCEPT !.lure = TRUE]])}

\* cmd_chum: one chum for the network, then a rest.
Chum(d, p) ==
  LET l == Loaded(d)
      row == l.angler[p]
  IN IF world.now < l.chum.until \/ world.now < l.chum.rests \/ row.xp < ChumCost THEN {<<>>}
     ELSE {Saved(d, [l EXCEPT !.angler[p] = Spend(row, ChumCost),
             !.chum = [until |-> world.now + ChumLasts, rests |-> world.now + ChumRests]])}

\* recast_extras, cmd_recast: the lure and the chum asked for, the line in, a line out; a line
\* that is not out long enough is left alone.
Recast(d, p, lure, chum) ==
  LET Lured(e) == IF lure THEN Lure(e, p) ELSE {<<>>}
      Chummed(e) == IF chum THEN Chum(e, p) ELSE {<<>>}
      Extras(e) == Then(e, Lured(e), Chummed)
      Out(e) == IF e.line[p] # NoLine THEN {<<>>} ELSE Cast(e, p, 0)
      ReeledAfter(e) == Then(e, Extras(e), LAMBDA f : Reel(f, p))
      early == ~d.line[p].deep /\ world.now - d.line[p].at < MinWait
  IN IF d.line[p] = NoLine THEN Then(d, Extras(d), Out)
     ELSE IF early THEN {<<>>} ELSE Then(d, ReeledAfter(d), Out)

\* cmd_dynamite: nothing, a haul with two levels, a hand, or both hands and the line.
Dynamite(d, p) ==
  LET l == Loaded(d)
      row == l.angler[p]
      haul == [Levelled(Earn(row, Grant(row, 2) + JunkXp)) EXCEPT !.fish = @ + 1]
      saved == Saved(d, [l EXCEPT !.angler[p] = haul])
  IN {Saved(d, l), Saved(d, [l EXCEPT !.line[p] = NoLine]),
      saved \o <<[saved[2] EXCEPT !.awarded[p] = @ + 1]>>}

\* cmd_bless
Bless(d, p) == LET l == Loaded(d) IN {Saved(d, [l EXCEPT !.angler[p].blessed = TRUE])}

Handle(runs) == \E states \in runs : states # <<>> /\ Perform(states, world)
HandleExtra(runs) ==
  /\ world.extras < MaxExtras
  /\ \E states \in runs : states # <<>> /\ Perform(states, [world EXCEPT !.extras = @ + 1])

Command(p) ==
  \/ \E bait \in {0} \cup Baits : Handle(Cast(db, p, bait))
  \/ Handle(Reel(db, p))
  \/ HandleExtra(Lure(db, p) \cup Chum(db, p) \cup Dynamite(db, p) \cup Bless(db, p))
  \/ \E lure, chum \in BOOLEAN : HandleExtra(Recast(db, p, lure, chum))

\* data_delete: the row, the line and what is stashed, all at once.
Erase(p) ==
  /\ db.angler[p].casts = MaxCasts
  /\ db' = [db EXCEPT !.angler[p] = NewAngler, !.line[p] = NoLine, !.stash[p] = 0,
              !.paid = {e \in @ : e[1] # p}, !.awarded[p] = 0]
  /\ world' = [world EXCEPT !.stash[p] = 0]

Hour == world.now < MaxNow /\ world' = [world EXCEPT !.now = @ + 1] /\ UNCHANGED db

Next == Hour \/ \E p \in Anglers : Command(p) \/ Erase(p)

Spec == Init /\ [][Next]_handlerVars

\* lifetime_xp: what an angler has is what was earned less what was spent, and the old universes
\* once.  Cut between the rows, a load may fold them in again.
XpAddsUp ==
  \A p \in Anglers :
    LET row == db.angler[p]
        lifetime == Climb(0, row.level) + row.xp + row.spent
        merged == world.stash[p] - db.stash[p]
    IN IF world.mishaps = 0 THEN lifetime = row.earned + merged
       ELSE lifetime \in {row.earned + n * world.stash[p] : n \in 0..world.mishaps + 1}

\* Whatever is cut short, the host counts no fish and pays for no cast that the row does not
\* have; uncut, it counts them all and no line that is out has been paid for.
CastsArePaidOnce ==
  \A p \in Anglers :
    LET paid == {e \in db.paid : e[1] = p}
        out == IF db.line[p] = NoLine THEN 0 ELSE 1
    IN /\ db.awarded[p] <= db.angler[p].fish
       /\ Cardinality(paid) <= db.angler[p].fish
       /\ world.mishaps = 0 => /\ db.awarded[p] = db.angler[p].fish
                               /\ Cardinality(paid) + out <= db.angler[p].casts

\* A line in a wormhole has its quest, unless a save was cut between the rows: then the angler
\* can neither reel it in nor cast another.
NobodyIsStuck == world.mishaps = 0 => \A p \in Anglers : db.line[p].deep => db.angler[p].quest

\* "exactly this many levels' worth of XP at the angler's current position"
GrantsLiftExactly ==
  \A level \in 0..2, count \in 1..2 : \A xp \in 0..Curve[level + 1] - 1 :
    LET row == [NewAngler EXCEPT !.level = level, !.xp = xp]
        lifted == Levelled(Earn(row, Grant(row, count)))
    IN lifted.level = level + count /\ lifted.xp = 0

FishingIsFair == XpAddsUp /\ CastsArePaidOnce /\ NobodyIsStuck /\ (Init => GrantsLiftExactly)
=============================================================================
