----------------------------- MODULE PirateSeas ------------------------------
(***************************************************************************)
(* Crews and gold of the pirate game (modules-src/pirate): voyages, raids, *)
(* prisoners and their ransoms, player blockades, ships that are parked,   *)
(* the end of the season and erasure.  The whole game is one row, which a  *)
(* save replaces; timers are set and cancelled before it.  What happens at *)
(* sea is chance: power and buildings only set the odds.  A shield and the *)
(* mercy after a raid only forbid raids, and are left out.                 *)
(***************************************************************************)
EXTENDS Handlers, Integers, FiniteSetsExt

CONSTANTS
  Captains, Regulars, Loyals, Gold,     \* what a captain starts a season with
  Rewards, Recruits, Salvage,           \* what a voyage may bring, and a raid repelled
  VoyageLasts, BlockadeLasts, StragglersTake, SeasonLasts,
  MaxNow, MaxVoyages, MaxOrders         \* bounds: time, voyages, blockades and parkings

SeasAssumption ==
  /\ {Regulars, Loyals, Gold, Salvage, MaxNow, MaxVoyages, MaxOrders} \subseteq Nat
  /\ {VoyageLasts, BlockadeLasts, StragglersTake, SeasonLasts} \subseteq Nat \ {0}
  /\ Rewards \cup Recruits \subseteq Nat

(* db: captain, voyages, prisoners, ransoms, next (the next voyage's id) and season (when it   *)
(* began) are the row; jobs the timers, of a voyage by its id, of a blockade by its target and *)
(* of the season by 0; books is only here, for the properties: what each captain's crew and    *)
(* all gold should come to.                                                                    *)

SeasonJob == 0
NoBlockade == [by |-> SeasonJob, regular |-> 0, loyal |-> 0, from |-> 0, until |-> 0, held |-> 0]
NoStragglers == [count |-> 0, due |-> 0]
NewCaptain == [here |-> TRUE, regular |-> Regulars, loyal |-> Loyals, gold |-> Gold, parked |-> FALSE,
               parkedAt |-> 0, blockade |-> NoBlockade, stragglers |-> NoStragglers]
NewBooks == [crew |-> [p \in Captains |-> Regulars], gold |-> Cardinality(Captains) * Gold]

Init ==
  /\ db = [captain |-> [p \in Captains |-> NewCaptain], voyages |-> {}, prisoners |-> {}, ransoms |-> {},
           next |-> 1, season |-> 0, books |-> NewBooks,
           jobs |-> [id \in Captains \cup 0..MaxVoyages |-> IF id = SeasonJob THEN "set" ELSE "none"]]
  /\ world = [queue |-> {}, now |-> 0, open |-> TRUE, orders |-> 0, mishaps |-> 0]

Here(d) == {p \in Captains : d.captain[p].here}
IsParked(d, p) == d.captain[p].parked
IsBlockaded(d, t) == d.captain[t].blockade # NoBlockade /\ world.now < d.captain[t].blockade.until
Home(d, p) == d.captain[p].regular + d.captain[p].loyal

\* A crew leaves, regular hands first, and one comes back.
Sent(d, p, crew) ==
  LET regular == Min({crew, d.captain[p].regular}) IN [regular |-> regular, loyal |-> crew - regular]
Leave(d, p, sent) ==
  [d EXCEPT !.captain[p].regular = @ - sent.regular, !.captain[p].loyal = @ - sent.loyal]
Return(d, p, sent, lost) ==
  [d EXCEPT !.captain[p].regular = @ + sent.regular - lost, !.captain[p].loyal = @ + sent.loyal,
            !.books.crew[p] = @ - lost]

Resolve(d, v, loot, recruits) ==
  [d EXCEPT !.voyages = (@ \ {v}) \cup {[v EXCEPT !.resolved = TRUE, !.loot = loot, !.recruits = recruits]}]

\* intercept_rewards: half of what comes home to a blockaded isle may be held, as of when the
\* voyage was to return.
Intercepts(d, v, loot) ==
  LET b == d.captain[v.owner].blockade
  IN IF b # NoBlockade /\ b.from <= v.due /\ v.due < b.until THEN {0, loot \div 2} ELSE {0}

Bring(d, v, loot, held, recruits) ==
  Resolve([d EXCEPT !.captain[v.owner].blockade.held = @ + held], v, loot - held, recruits)

\* resolve_npc_at: some of the regular hands may be lost.
Explored(d, v) ==
  {Bring([Return(d, v.owner, v, lost) EXCEPT !.books.gold = @ + gold], v, gold, held, recruits) :
     <<gold, held, recruits, lost>> \in
       {x \in Rewards \X (0..Max(Rewards)) \X Recruits \X (0..v.regular) : x[2] \in Intercepts(d, v, x[1])}}

\* A mutant: captured hands come home too.
RaidedCountingTwice(d, v) ==
  {[Return(Resolve(d, v, 0, 0), v.owner, v, 0) EXCEPT
      !.prisoners = @ \cup {[id |-> v.id, holder |-> v.target, origin |-> v.owner, count |-> lost]},
      !.books.crew[v.owner] = @ - lost] : lost \in 1..v.regular}

\* resolve_raid, apply_raid: the raid wins some of the target's gold; or it loses regular hands,
\* who are the target's prisoners.
Raided(d, v) ==
  LET loots == {d.captain[v.target].gold \div 2, d.captain[v.target].gold}
      won == {Bring([Return(d, v.owner, v, lost) EXCEPT !.captain[v.target].gold = @ - loot], v, loot, held, 0) :
                <<loot, held, lost>> \in
                  {x \in loots \X (0..Max(loots)) \X (0..v.regular) : x[2] \in Intercepts(d, v, x[1])}}
      beaten == {[Resolve(Return(d, v.owner, v, lost), v, 0, 0) EXCEPT
                    !.captain[v.target].gold = @ + Salvage, !.books.gold = @ + Salvage,
                    !.prisoners = IF lost = 0 THEN @ ELSE
                      @ \cup {[id |-> v.id, holder |-> v.target, origin |-> v.owner, count |-> lost]}] :
                   lost \in IF v.regular = 0 THEN {0} ELSE 1..v.regular}
  IN won \cup beaten

CalledOff(d, v) == [Return(d, v.owner, v, 0) EXCEPT !.voyages = @ \ {v}]

\* resolve_voyage: a raid on a ship that is parked by now is called off.
Outcomes(d, v) ==
  IF v.kind = "raid" /\ IsParked(d, v.target) THEN {CalledOff(d, v)}
  ELSE IF v.kind = "raid" THEN Raided(d, v) ELSE Explored(d, v)

AtSea(d) == {v \in d.voyages : ~v.resolved}
Earliest(vs) == CHOOSE v \in vs : \A u \in vs : v.id <= u.id

\* resolve_overdue: voyages whose timers were lost, each saved before the next.
Overdue(d) == {v \in AtSea(d) : v.due <= world.now /\ ~IsParked(d, v.owner)}
OverdueRuns(d) ==
  LET runs[n \in 0..Cardinality(Overdue(d))] ==
        IF n = 0 THEN {<<>>}
        ELSE UNION {LET last == IF r = <<>> THEN d ELSE r[Len(r)]
                    IN {Append(r, e) : e \in Outcomes(last, Earliest(Overdue(last)))} : r \in runs[n - 1]}
  IN runs[Cardinality(Overdue(d))]

After(d, states) == IF states = <<>> THEN d ELSE states[Len(states)]

\* A mutant: the blockade stays.
SettleAgain(d, t, broken) ==
  LET b == d.captain[t].blockade
  IN Return([d EXCEPT !.captain[IF broken THEN t ELSE b.by].gold = @ + b.held], b.by, b, 0)

\* settle: what is held goes to the isle when it broke the blockade, else to the blockader, whose
\* crew comes home.
Settle(d, t, broken) ==
  LET b == d.captain[t].blockade
  IN Return([d EXCEPT !.captain[t].blockade = NoBlockade,
                      !.captain[IF broken THEN t ELSE b.by].gold = @ + b.held], b.by, b, 0)

SettleAll(d, targets, broken) == FoldSet(LAMBDA t, e : Settle(e, t, broken), d, targets)

\* settle_expired, and return_stragglers of ships that are not parked.
Expired(d) == {t \in Here(d) : d.captain[t].blockade # NoBlockade /\ d.captain[t].blockade.until <= world.now}
Arrived(d) ==
  [d EXCEPT !.captain = [p \in Captains |->
     IF @[p].stragglers.due <= world.now /\ ~@[p].parked
     THEN [@[p] EXCEPT !.regular = @ + d.captain[p].stragglers.count, !.stragglers = NoStragglers] ELSE @[p]]]

\* What every order is preceded by.
CatchUp(d) ==
  {r \o (LET e == After(d, r) IN
         IF Arrived(SettleAll(e, Expired(e), FALSE)) = e THEN <<>> ELSE <<Arrived(SettleAll(e, Expired(e), FALSE))>>) :
     r \in OverdueRuns(d)}

\* A mutant: the parked may order too.
MayOrderParked(p) == world.open /\ p \in Here(db)

MayOrder(p) == world.open /\ p \in Here(db) /\ ~IsParked(db, p)
Ordered == [world EXCEPT !.orders = @ + 1]
-----------------------------------------------------------------------------
\* do_launch, validate_launch, launch: one voyage each and two raids on an isle; the timer first.
Launch(d, p, kind, t, crew) ==
  LET sent == Sent(d, p, crew)
      voyage == [id |-> d.next, owner |-> p, kind |-> kind, target |-> t, regular |-> sent.regular,
                 loyal |-> sent.loyal, due |-> world.now + VoyageLasts, resolved |-> FALSE, loot |-> 0, recruits |-> 0]
  IN IF \/ d.next > MaxVoyages \/ Home(d, p) < crew \/ \E v \in AtSea(d) : v.owner = p
        \/ kind = "raid" /\ \/ t = p \/ t \notin Here(d) \/ IsParked(d, t)
                            \/ Cardinality({v \in AtSea(d) : v.kind = "raid" /\ v.target = t}) >= 2
     THEN <<>>
     ELSE <<SetTimer(d, d.next),
            SetTimer([Leave(d, p, sent) EXCEPT !.voyages = @ \cup {voyage}, !.next = @ + 1], d.next)>>

\* A voyage is ordered in private, a raid in the channel.
Sail(p, crew) == MayOrder(p) /\ Perform(Launch(db, p, "npc", p, crew), world)
Raid(p, t, crew) ==
  MayOrder(p) /\ \E r \in CatchUp(db) : Perform(r \o Launch(After(db, r), p, "raid", t, crew), world)

\* handle_voyage_timer: the voyage of a parked ship waits; one that was resolved is left.
VoyageReturns(id) ==
  \/ \E v \in AtSea(db) :
       /\ v.id = id /\ world.open
       /\ IF IsParked(db, v.owner) THEN PerformTimer(id, <<SetTimer(db, id)>>, world)
          ELSE \E d \in Outcomes(db, v) : PerformTimer(id, <<d>>, world)
  \/ ~world.open /\ PerformTimer(id, <<>>, world)
  \/ (\A v \in AtSea(db) : v.id # id) /\ PerformTimer(id, <<>>, world)

\* A mutant: what was collected is left to be collected again.
CollectedAgain(d, p) ==
  LET done == {v \in d.voyages : v.owner = p /\ v.resolved}
  IN [d EXCEPT !.captain[p].gold = @ + MapThenSumSet(LAMBDA v : v.loot, done)]

\* collect_pending
Collected(d, p) ==
  LET done == {v \in d.voyages : v.owner = p /\ v.resolved}
      recruits == MapThenSumSet(LAMBDA v : v.recruits, done)
  IN [d EXCEPT !.captain[p].gold = @ + MapThenSumSet(LAMBDA v : v.loot, done),
               !.captain[p].regular = @ + recruits, !.books.crew[p] = @ + recruits,
               !.voyages = @ \ done]

Collect(p) == MayOrder(p) /\ \E r \in CatchUp(db) : Perform(r \o <<Collected(After(db, r), p)>>, world)
-----------------------------------------------------------------------------
\* initiate: one blockade of an isle, and one by a captain.
Blockaded(d, p, t, crew) ==
  LET sent == Sent(d, p, crew)
      blockade == [by |-> p, regular |-> sent.regular, loyal |-> sent.loyal, from |-> world.now,
                   until |-> world.now + BlockadeLasts, held |-> 0]
  IN IF \/ t = p \/ t \notin Here(d) \/ IsParked(d, t) \/ IsBlockaded(d, t) \/ Home(d, p) < crew
        \/ \E u \in Here(d) : IsBlockaded(d, u) /\ d.captain[u].blockade.by = p
     THEN <<>>
     ELSE <<SetTimer(d, t), SetTimer([Leave(d, p, sent) EXCEPT !.captain[t].blockade = blockade], t)>>

Blockade(p, t, crew) ==
  /\ MayOrder(p) /\ world.orders < MaxOrders
  /\ \E r \in CatchUp(db) : Perform(r \o Blockaded(After(db, r), p, t, crew), Ordered)

\* A mutant: the loyal hands straggle too.
ScatterAll(d, by, b) ==
  {[Leave(d, by, b) EXCEPT !.captain[by].stragglers = [count |-> b.regular + b.loyal, due |-> world.now + StragglersTake]]}

\* scatter: of a broken blockade's regular hands some are lost and the others straggle home.
Scatter(d, by, b) ==
  {[d EXCEPT !.captain[by].regular = @ - b.regular, !.books.crew[by] = @ - lost,
             !.captain[by].stragglers = IF lost = b.regular THEN @ ELSE
               [count |-> @.count + b.regular - lost, due |-> world.now + StragglersTake]] : lost \in 0..b.regular}

\* break_attempt: more hands than the blockade has break it; else a tenth of the regular ones is lost.
Sortied(d, p, crew) ==
  LET b == d.captain[p].blockade
      regular == Min({crew, d.captain[p].regular})
      lost == (regular + 9) \div 10
  IN IF ~IsBlockaded(d, p) \/ Home(d, p) < crew THEN {<<>>}
     ELSE IF crew > b.regular + b.loyal
     THEN {<<CancelTimer(d, p), CancelTimer(e, p)>> : e \in Scatter(Settle(d, p, TRUE), b.by, b)}
     ELSE {<<[d EXCEPT !.captain[p].regular = @ - lost, !.books.crew[p] = @ - lost]>>}

Sortie(p, crew) ==
  /\ MayOrder(p)
  /\ \E r \in CatchUp(db) : \E s \in Sortied(After(db, r), p, crew) : Perform(r \o s, world)

\* handle_expiry, of the blockade of t
BlockadeEnds(t) ==
  \E r \in IF world.open THEN OverdueRuns(db) ELSE {<<>>} :
    LET d == After(db, r)
    IN PerformTimer(t, IF t \in Expired(d) THEN Append(r, Settle(d, t, FALSE)) ELSE r, world)
-----------------------------------------------------------------------------
\* offer_ransom: a captain names a price for the first group held.
Offered(d, p) ==
  LET held == {x \in d.prisoners : x.holder = p}
      group == CHOOSE x \in held : \A y \in held : x.id <= y.id
  IN IF held = {} \/ (\E r \in d.ransoms : r.prisoner = group.id) THEN <<>>
     ELSE <<[d EXCEPT !.ransoms = @ \cup {[prisoner |-> group.id, holder |-> p, target |-> group.origin]}]>>

\* A mutant: the group stays with its holder.
FreedOnPaper(d, p) ==
  IF d.captain[p].gold = 0 THEN {d}
  ELSE {[d EXCEPT !.captain[p].gold = @ - 1, !.captain[r.holder].gold = @ + 1, !.captain[p].regular = @ + 1,
          !.ransoms = @ \ {r}] : r \in {r \in d.ransoms : r.target = p}}

\* pay_ransom, at the price of 1: gold one way, the group the other.  An offer whose group is gone
\* is withdrawn.
Freed(d, p) ==
  {LET groups == {x \in d.prisoners : x.id = r.prisoner}
       freed == MapThenSumSet(LAMBDA x : x.count, groups)
   IN IF groups = {} THEN [d EXCEPT !.ransoms = @ \ {r}]
      ELSE IF d.captain[p].gold = 0 THEN d
      ELSE [d EXCEPT !.captain[p].gold = @ - 1, !.captain[r.holder].gold = @ + 1,
                     !.captain[p].regular = @ + freed, !.books.crew[p] = @ + freed,
                     !.prisoners = @ \ groups, !.ransoms = @ \ {r}] : r \in {r \in d.ransoms : r.target = p}}

\* abandon_ransom
Abandoned(d, p) == {[d EXCEPT !.ransoms = @ \ {r}] : r \in {r \in d.ransoms : r.target = p}}

\* release_prisoners: the groups are gone; marooned, or each hand joins the holder or slips home.
Released(d, p) ==
  LET held == {x \in d.prisoners : x.holder = p}
      gone == [d EXCEPT !.prisoners = @ \ held, !.ransoms = {r \in @ : r.holder # p}]
      moves == {m \in [held -> 0..Max({0} \cup {x.count : x \in held})] : \A x \in held : m[x] <= x.count}
      join(e, x, n) == [e EXCEPT !.captain[p].regular = @ + n, !.books.crew[p] = @ + n,
        !.captain[x.origin].regular = @ + x.count - n, !.books.crew[x.origin] = @ + x.count - n]
  IN {gone} \cup {FoldSet(LAMBDA x, e : join(e, x, m[x]), gone, held) : m \in moves}

Bargain(p) ==
  /\ MayOrder(p)
  /\ \/ Offered(db, p) # <<>> /\ Perform(Offered(db, p), world)
     \/ \E d \in Freed(db, p) \cup Abandoned(db, p) : Perform(<<d>>, world)
     \/ (\E x \in db.prisoners : x.holder = p) /\ (\E d \in Released(db, p) : Perform(<<d>>, world))
-----------------------------------------------------------------------------
\* A mutant: raids on their way are left to land.
PausedAlone(d, p) ==
  LET timers == {v.id : v \in {v \in AtSea(d) : v.owner = p \/ (v.kind = "raid" /\ v.target = p)}}
      cancelled == FoldSet(LAMBDA id, e : CancelTimer(e, id), d, timers)
  IN <<cancelled, [cancelled EXCEPT !.captain[p].parked = TRUE, !.captain[p].parkedAt = world.now]>>

\* pause_player: timers of the captain's voyages and of raids on their way are cancelled, then the
\* raids are called off.
Paused(d, p) ==
  LET raids == {v \in AtSea(d) : v.kind = "raid" /\ v.target = p}
      timers == {v.id : v \in {v \in AtSea(d) : v.owner = p} \cup raids}
      cancelled == FoldSet(LAMBDA id, e : CancelTimer(e, id), d, timers)
      parked == [cancelled EXCEPT !.captain[p].parked = TRUE, !.captain[p].parkedAt = world.now]
  IN <<cancelled, FoldSet(LAMBDA v, e : CalledOff(e, v), parked, raids)>>

\* A captain whose crew blockades somebody stays.
Park(p) ==
  /\ MayOrder(p) /\ world.orders < MaxOrders
  /\ \E r \in CatchUp(db) :
       LET d == After(db, r)
           busy == \E t \in Here(d) : IsBlockaded(d, t) /\ d.captain[t].blockade.by = p
       IN Perform(IF busy THEN r ELSE r \o Paused(d, p), Ordered)

\* resume_player: what was to come later than the parking comes that much later; timers first.
Resumed(d, p) ==
  LET at == d.captain[p].parkedAt
      shifted(due) == IF due > at THEN due + world.now - at ELSE due
      mine == {v \in AtSea(d) : v.owner = p}
      row == [d EXCEPT !.voyages = (@ \ mine) \cup {[v EXCEPT !.due = shifted(@)] : v \in mine},
                       !.captain[p].parked = FALSE, !.captain[p].parkedAt = 0,
                       !.captain[p].stragglers.due = shifted(@)]
      timed(e) == FoldSet(LAMBDA v, f : SetTimer(f, v.id), e, mine)
  IN <<timed(d), timed(row)>>

Unpark(p) ==
  /\ world.open /\ p \in Here(db) /\ IsParked(db, p)
  /\ \E r \in CatchUp(db) : Perform(r \o Resumed(After(db, r), p), world)
-----------------------------------------------------------------------------
\* A mutant: blockades go on into the next season.
NewSeasonUnderBlockade(d) ==
  [d EXCEPT !.voyages = {}, !.prisoners = {}, !.ransoms = {}, !.season = world.now,
     !.captain = [p \in Captains |-> IF ~@[p].here THEN @[p] ELSE
        [NewCaptain EXCEPT !.parked = d.captain[p].parked, !.blockade = d.captain[p].blockade]],
     !.books = [crew |-> [p \in Captains |-> Regulars], gold |-> Cardinality(Here(d)) * Gold]]

\* end_season, settle_voyages: everything is settled and everyone starts again; the parked stay so.
NewSeason(d) ==
  [d EXCEPT !.voyages = {}, !.prisoners = {}, !.ransoms = {}, !.season = world.now,
     !.captain = [p \in Captains |-> IF ~@[p].here THEN @[p] ELSE
        [NewCaptain EXCEPT !.parked = d.captain[p].parked, !.parkedAt = IF d.captain[p].parked THEN world.now ELSE 0]],
     !.books = [crew |-> [p \in Captains |-> Regulars], gold |-> Cardinality(Here(d)) * Gold]]

\* handle_season_end: one that comes too early, or while the game is closed, is set anew; what is
\* closed starts its season from here.
SeasonEnds ==
  PerformTimer(SeasonJob,
    IF ~world.open THEN <<[db EXCEPT !.season = world.now], SetTimer([db EXCEPT !.season = world.now], SeasonJob)>>
    ELSE IF world.now < db.season + SeasonLasts THEN <<SetTimer(db, SeasonJob)>>
    ELSE <<SetTimer(db, SeasonJob), SetTimer(NewSeason(db), SeasonJob)>>, world)

\* A mutant: raids on the isle go down with it.
RemovedWithRaiders(d, p) ==
  LET mine == {t \in Here(d) : d.captain[t].blockade # NoBlockade /\ (t = p \/ d.captain[t].blockade.by = p)}
      settled == FoldSet(LAMBDA t, e : Settle(e, t, t # p), d, mine)
      gone == {v \in settled.voyages : v.owner = p \/ v.target = p}
  IN [settled EXCEPT !.voyages = @ \ gone,
        !.captain[p] = [NewCaptain EXCEPT !.here = FALSE, !.gold = 0],
        !.books.gold = @ - settled.captain[p].gold - MapThenSumSet(LAMBDA v : v.loot, gone),
        !.prisoners = {x \in @ : p \notin {x.holder, x.origin}}, !.ransoms = {r \in @ : p \notin {r.holder, r.target}}]

\* remove_captains: blockades are settled, voyages against the captain who leaves sail home.
Removed(d, p) ==
  LET mine == {t \in Here(d) : d.captain[t].blockade # NoBlockade /\ (t = p \/ d.captain[t].blockade.by = p)}
      settled == FoldSet(LAMBDA t, e : Settle(e, t, t # p), d, mine)
      gone == {v \in settled.voyages : v.owner = p \/ v.target = p}
      home == FoldSet(LAMBDA v, e : Return(e, v.owner, v, 0), settled, {v \in gone : v.owner # p /\ ~v.resolved})
  IN [home EXCEPT !.voyages = @ \ gone,
        !.captain[p] = [NewCaptain EXCEPT !.here = FALSE, !.gold = 0],
        !.books.gold = @ - settled.captain[p].gold - MapThenSumSet(LAMBDA v : v.loot, gone),
        !.prisoners = {x \in @ : p \notin {x.holder, x.origin}}, !.ransoms = {r \in @ : p \notin {r.holder, r.target}}]

\* data_delete, and the timers the host keeps for that person: those of voyages and blockades.
Erase(p) ==
  /\ p \in Here(db)
  /\ db' = FoldSet(LAMBDA id, e : CancelTimer(e, id), Removed(db, p), {p} \cup {v.id : v \in {v \in db.voyages : v.owner = p}})
  /\ UNCHANGED world

Tick == world.now < MaxNow /\ world' = [world EXCEPT !.now = @ + 1] /\ UNCHANGED db

\* The last channel of the game is closed to it, or one is open again.
OpenOrClose ==
  /\ \/ ~world.open /\ world' = [world EXCEPT !.open = TRUE]
     \/ world.open /\ world.mishaps < MaxMishaps /\ world' = [world EXCEPT !.open = FALSE, !.mishaps = @ + 1]
  /\ UNCHANGED db

\* A timer is sent when it is due.
Due(id) ==
  CASE id \in Captains -> db.captain[id].blockade.until <= world.now
    [] id = SeasonJob -> db.season + SeasonLasts <= world.now
    [] OTHER -> \A v \in AtSea(db) : v.id = id => v.due <= world.now

Next ==
  \/ Tick \/ OpenOrClose \/ SeasonEnds
  \/ \E id \in DOMAIN db.jobs : Due(id) /\ Send(id)
  \/ \E id \in 1..MaxVoyages : VoyageReturns(id)
  \/ \E p \in Captains :
       \/ Collect(p) \/ Bargain(p) \/ Park(p) \/ Unpark(p) \/ BlockadeEnds(p) \/ Erase(p)
       \/ \E crew \in 1..Regulars + Loyals :
            \/ Sail(p, crew) \/ Sortie(p, crew)
            \/ \E t \in Captains : Raid(p, t, crew) \/ Blockade(p, t, crew)

Spec == Init /\ [][Next]_handlerVars
-----------------------------------------------------------------------------
\* No hand is lost twice or found: those at home, at sea, before another isle and straggling are
\* those a captain began the season with, less the lost, with the recruited and the freed.  The
\* loyal are never lost.
CrewsAreAccounted ==
  \A p \in Here(db) :
    LET out == {v \in AtSea(db) : v.owner = p}
        before == {t \in Here(db) : db.captain[t].blockade.by = p}
    IN /\ db.books.crew[p] = db.captain[p].regular + db.captain[p].stragglers.count
            + MapThenSumSet(LAMBDA v : v.regular, out) + MapThenSumSet(LAMBDA t : db.captain[t].blockade.regular, before)
       /\ Loyals = db.captain[p].loyal + MapThenSumSet(LAMBDA v : v.loyal, out)
            + MapThenSumSet(LAMBDA t : db.captain[t].blockade.loyal, before)

\* Gold is on the isles, in the holds that wait to be collected, or held by a blockade; what is
\* held is paid out once.
GoldIsAccounted ==
  db.books.gold = MapThenSumSet(LAMBDA p : db.captain[p].gold + db.captain[p].blockade.held, Captains)
                  + MapThenSumSet(LAMBDA v : v.loot, db.voyages)

\* One offer a group, and every offer is for a group somebody holds.
RansomsHaveGroups ==
  \A r \in db.ransoms : /\ \E x \in db.prisoners : x.id = r.prisoner /\ x.holder = r.holder /\ x.origin = r.target
                        /\ \A q \in db.ransoms : q.prisoner = r.prisoner => q = r

\* As long as nothing was cut short or closed, a voyage has a timer that brings it home, unless
\* its captain is parked, and a blockade one that ends it, parked or not.
ReturnsAreDriven ==
  world.mishaps = 0 =>
    /\ \A v \in AtSea(db) : IsParked(db, v.owner) \/ IsDriven(v.id)
    /\ \A t \in Here(db) : db.captain[t].blockade # NoBlockade => IsDriven(t)

SeasAreFair == CrewsAreAccounted /\ GoldIsAccounted /\ RansomsHaveGroups /\ ReturnsAreDriven

\* Nobody takes anything from a ship that is parked, before the season ends: neither a raid that
\* was under way nor a timer that was queued.
ParkedAreLeftAlone ==
  \A p \in Captains :
    IsParked(db, p) /\ db'.captain[p].here /\ db'.season = db.season
    => /\ db'.captain[p].gold >= db.captain[p].gold /\ db'.captain[p].regular >= db.captain[p].regular
       /\ db'.captain[p].loyal >= db.captain[p].loyal
=============================================================================
