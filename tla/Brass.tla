------------------------------- MODULE Brass --------------------------------
(***************************************************************************)
(* The brass economy of one network: the ledger the database keeps         *)
(* (db.rs: economy_change), and the gacha module that sells and hatches    *)
(* eggs, recycles junk, runs the coin and the slots, carries gifts and     *)
(* plays heists.                                                           *)
(*                                                                         *)
(* The module has one worker, which serves one message or timer at a time, *)
(* but every call it makes to the host is a database request of its own: a *)
(* call may be cut short between any two of them (a crash, a time limit),  *)
(* and the erasure of a person runs in between.  Reads are part of the     *)
(* request that follows them.  A timer whose call failed is delivered      *)
(* again, a message is not.                                                *)
(*                                                                         *)
(* A transaction is <<n, kind>>: n stands for the random token of its      *)
(* event id.  Wording, the room check, statistics for achievements and the *)
(* lists shown (shelf, history, odds) are left out; the clock is the day.  *)
(***************************************************************************)
EXTENDS Integers, Sequences, FiniteSets

CONSTANTS
  People,        \* profiles
  Cosmetics,     \* badges and flourishes
  None,          \* no pending action, no erasure
  EggCost,       \* EGG_COST
  Refund,        \* DUPLICATE_REFUND
  Bundle,        \* TRASH_BUNDLE
  JunkValue,     \* TRASH_VALUE
  Bets,          \* stakes people choose, up to max_bet
  Multipliers,   \* what a flip or a spin may pay, in stakes
  Gain,          \* what other modules award at a time
  LossLimit,     \* daily_loss_limit
  GiftLimit,     \* daily_gift_limit
  MaxCrew,       \* MAX_CREW
  LedgerKept,    \* ECONOMY_LEDGER_KEPT
  Courses,       \* bound: what happens together in one behaviour: sets of Happenings
  EggDraws,      \* bound: random tokens drawn until the last for an egg
  BetDraws,      \* bound: ... until the last for a game, gift or heist
  MaxGains,      \* bound: awards by other modules
  MaxCuts,       \* bound: calls cut short
  MaxErasures,   \* bound: people erased
  MaxDay,        \* bound: days
  MaxLoss        \* bound: losses and winnings of a day, beyond which they are alike

Happenings ==
  {"buy", "pull", "hatch", "recycle", "wager", "give", "heist", "cut", "erasure", "midnight"}
Item == "item"          \* an egg that holds a common item

(* The records.  A hatch is recorded for an egg on the shelf and a trade for a bundle   *)
(* of items; nobody is on a crew twice.                                                 *)
MaxDraws == EggDraws + BetDraws
Pendings ==
  [kind : {"buy", "hatch", "trade"}, n : 1..MaxDraws, what : Cosmetics \cup {Item}]
Tells(s, kind) == s.pending # None /\ s.pending.kind = kind
Shelves ==
  {s \in [eggs : Nat, junk : Nat, pending : Pendings \cup {None}] :
     (Tells(s, "hatch") => s.eggs > 0) /\ (Tells(s, "trade") => s.junk >= Bundle)}
Wagerings == [day : 0..MaxDay, lost : Int, given : Nat]
Crews ==
  {c \in Seq([who : People, stake : Bets, n : 1..MaxDraws]) :
     Len(c) <= MaxCrew /\ \A i, j \in DOMAIN c : c[i].who = c[j].who => i = j}
Heists ==
  {j \in [active : BOOLEAN, crew : Crews, beat : 0..2, seq : Nat, cooling : BOOLEAN] :
     j.active \/ j.crew = <<>>}
Plans == [who : People, gone : BOOLEAN, job : Heists, named : BOOLEAN]

\* The last line: a charge is not forgotten before its owner is rich enough to pay again,
\* as every later entry is worth one at least (EGG_COST is 50, 200 entries are kept).
ASSUME BrassAssumption ==
  /\ {EggCost, Refund, Bundle, JunkValue, Gain, MaxCrew, LedgerKept} \subseteq Nat \ {0}
  /\ Bets \subseteq Nat \ {0} /\ Multipliers \subseteq Nat
  /\ {LossLimit, GiftLimit, EggDraws, BetDraws, MaxGains, MaxCuts, MaxErasures, MaxDay, MaxLoss} \subseteq Nat
  /\ Courses \subseteq SUBSET Happenings
  /\ None \notin People \cup Pendings \cup Plans /\ Item \notin Cosmetics
  /\ EggCost <= LedgerKept

VARIABLES
  alive,      \* profiles that exist
  balance,    \* economy:balance
  ledger,     \* economy:ledger: all transactions; the table keeps the latest
  shelf,      \* collection: eggs, common items, the pending action
  owned,      \* cosmetics_owned: <<cosmetic, token of the hatch>>
  wagers,     \* wager: the day, what was lost on it, what was given away
  heist,      \* heist: of the game room
  timer,      \* the sequence number in the scheduled job, 0 if there is none
  call,       \* what the worker is doing
  plan,       \* an erasure the module has answered
  course,     \* what may happen in this behaviour
  day, draws, gains, cuts, erasures,   \* the day and the bounds
  laid, found,    \* eggs ever bought and items ever hatched (history)
  settled,        \* tokens of stakes and gifts that were settled (history)
  lost,           \* tokens of those lost with a call or an erasure (history)
  stranded        \* a heist was left without its timer (history)

money == <<balance, ledger>>
goods == <<shelf, owned, laid, found>>
job == <<heist, timer, stranded>>
stakes == <<settled, lost>>
world == <<course, alive, plan, day, erasures, gains>>
vars == <<money, goods, job, stakes, world, wagers, call, draws, cuts>>

Idle == [at |-> "idle"]
Shelf(eggs, junk) == [eggs |-> eggs, junk |-> junk, pending |-> None]   \* nothing recorded
EmptyShelf == Shelf(0, 0)
NoHeist == [active |-> FALSE, crew |-> <<>>, beat |-> 0, seq |-> 0, cooling |-> FALSE]
NoWagers == [day |-> 0, lost |-> 0, given |-> 0]

-----------------------------------------------------------------------------
(* The ledger.                                                             *)

\* A mutant: the whole ledger is kept in memory only until the next entry.
KnownLast(p, e) == ledger[p] # <<>> /\ ledger[p][Len(ledger[p])] = e

\* The table holds a transaction until LedgerKept newer ones pushed it out.
Known(p, e) ==
  \E i \in DOMAIN ledger[p] : i > Len(ledger[p]) - LedgerKept /\ ledger[p][i] = e

\* A mutant: the balance is not compared with the amount.
ChangeUnchecked(p, amount, e) ==
  /\ p \in alive
  /\ IF Known(p, e) THEN UNCHANGED money
     ELSE /\ balance' = [balance EXCEPT ![p] = @ + amount]
          /\ ledger' = [ledger EXCEPT ![p] = Append(@, e)]

\* economy_change: a known transaction is answered, not repeated.
Change(p, amount, e) ==
  /\ p \in alive
  /\ IF Known(p, e) THEN UNCHANGED money
     ELSE /\ balance[p] + amount >= 0
          /\ balance' = [balance EXCEPT ![p] = @ + amount]
          /\ ledger' = [ledger EXCEPT ![p] = Append(@, e)]

Short(p, amount, e) == p \in alive /\ ~Known(p, e) /\ balance[p] < amount

\* Today's wagers of a person: an older record counts as empty.
Today(p) == IF wagers[p].day = day THEN wagers[p] ELSE [NoWagers EXCEPT !.day = day]

\* The day's net loss, capped by the bound (i64 in the code).
Within(x) == IF x > MaxLoss THEN MaxLoss ELSE IF x < -MaxLoss THEN -MaxLoss ELSE x

\* Odds and hauls of a crew, in thousandths of the stake.
Lesser(a, b) == IF a < b THEN a ELSE b
Escape(size) == Lesser(400 + 80 * (IF size = 0 THEN 0 ELSE size - 1), 850)
Value(size) == Lesser(850 + 25 * (IF size = 0 THEN 0 ELSE size - 1), 970)
Haul(stake, size) == (stake * Value(size)) \div Escape(size)

-----------------------------------------------------------------------------
Init ==
  /\ course \in Courses
  /\ alive = People
  /\ balance = [p \in People |-> 0] /\ ledger = [p \in People |-> <<>>]
  /\ shelf = [p \in People |-> EmptyShelf] /\ owned = [p \in People |-> {}]
  /\ wagers = [p \in People |-> NoWagers]
  /\ heist = NoHeist /\ timer = 0 /\ stranded = FALSE
  /\ call = Idle /\ plan = None
  /\ day = 0 /\ draws = 0 /\ gains = 0 /\ cuts = 0 /\ erasures = 0
  /\ laid = [p \in People |-> 0] /\ found = [p \in People |-> 0]
  /\ settled = {} /\ lost = {}

\* Whether a message of p starts now, and the token it draws.
Starts(p, game) == call = Idle /\ p \in alive /\ game \in course
Draw(bound) == draws < bound /\ draws' = draws + 1

\* The call ends.  The job a timer call was delivered for is completed, unless the
\* call booked another in its place.
Done == call' = Idle /\ timer' = (IF timer = call.tick THEN 0 ELSE timer)

Save(p, s) == shelf' = [shelf EXCEPT ![p] = s]

(* Eggs.  A command first records what it is about to do, and the record is *)
(* taken up by the person's next command if the call does not get to the    *)
(* end; every command starts with that.                                     *)

Begin(p, at, s) ==
  call' = [at |-> at, who |-> p, shelf |-> s, pull |-> FALSE, tick |-> 0]

Settled(p) == shelf[p].pending = None

BuyEgg(p, pull) ==
  /\ Starts(p, IF pull THEN "pull" ELSE "buy") /\ Settled(p) /\ Draw(EggDraws)
  /\ pull => draws' < EggDraws
  /\ LET s == [shelf[p] EXCEPT !.pending = [kind |-> "buy", n |-> draws', what |-> Item]]
     IN /\ Save(p, s)
        /\ call' = [at |-> "charge", who |-> p, shelf |-> s, pull |-> pull, tick |-> 0]
  /\ UNCHANGED <<money, owned, laid, found, job, stakes, world, wagers, cuts>>

HatchEgg(p) ==
  /\ Starts(p, "hatch") /\ Settled(p)
  /\ shelf[p].eggs > 0 /\ draws < EggDraws
  /\ Begin(p, "roll", shelf[p])
  /\ UNCHANGED <<money, goods, job, stakes, world, wagers, draws, cuts>>

Recycle(p) ==
  /\ Starts(p, "recycle") /\ Settled(p) /\ Draw(EggDraws)
  /\ shelf[p].junk >= Bundle
  /\ LET s == [shelf[p] EXCEPT !.pending = [kind |-> "trade", n |-> draws', what |-> Item]]
     IN Save(p, s) /\ Begin(p, "trade", s)
  /\ UNCHANGED <<money, owned, laid, found, job, stakes, world, wagers, cuts>>

\* complete_pending: the interrupted action is carried out under its old token.
Recover(p) ==
  /\ call = Idle /\ p \in alive
  /\ ~Settled(p)
  /\ Begin(p, CASE shelf[p].pending.kind = "buy"   -> "charge"
                [] shelf[p].pending.kind = "hatch" -> "grant"
                [] shelf[p].pending.kind = "trade" -> "trade", shelf[p])
  /\ UNCHANGED <<money, goods, job, stakes, world, wagers, draws, cuts>>

Event(kind) == <<call.shelf.pending.n, kind>>
Goto(at) == call' = [call EXCEPT !.at = at]

Charge ==
  /\ call.at = "charge"
  /\ \/ Change(call.who, -EggCost, Event("buy")) /\ Goto("lay")
     \/ Short(call.who, EggCost, Event("buy")) /\ Goto("give up") /\ UNCHANGED money
  /\ UNCHANGED <<goods, job, stakes, world, wagers, draws, cuts>>

\* The egg is added.  !egg pull goes on to hatch it.
Lay ==
  /\ call.at = "lay"
  /\ LET s == Shelf(call.shelf.eggs + 1, call.shelf.junk)
     IN /\ Save(call.who, s)
        /\ IF call.pull
           THEN call' = [call EXCEPT !.at = "roll", !.shelf = s] /\ UNCHANGED timer
           ELSE Done
  /\ laid' = [laid EXCEPT ![call.who] = @ + 1]
  /\ UNCHANGED <<money, owned, found, heist, stranded, stakes, world, wagers, draws, cuts>>

GiveUp ==
  /\ call.at = "give up"
  /\ Save(call.who, Shelf(call.shelf.eggs, call.shelf.junk))
  /\ Done
  /\ UNCHANGED <<money, owned, laid, found, heist, stranded, stakes, world, wagers, draws, cuts>>

Roll(what) ==
  /\ call.at = "roll" /\ Draw(EggDraws)
  /\ LET s == [call.shelf EXCEPT !.pending = [kind |-> "hatch", n |-> draws', what |-> what]]
     IN Save(call.who, s) /\ call' = [call EXCEPT !.at = "grant", !.shelf = s]
  /\ UNCHANGED <<money, owned, laid, found, job, stakes, world, wagers, cuts>>

\* A mutant: a repeated grant is taken for a duplicate.
GrantedToAnyone(p, c, n) == \E g \in owned[p] : g[1] = c

\* The cosmetic is the person's already, and not from this very hatch.
Duplicate(p, c, n) == \E g \in owned[p] : g[1] = c /\ g[2] # n

Grant ==
  /\ call.at = "grant"
  /\ LET p == call.who
         c == call.shelf.pending.what
         n == call.shelf.pending.n
     IN IF c # Item /\ Duplicate(p, c, n)
        THEN Goto("refund") /\ UNCHANGED owned
        ELSE /\ Goto("keep")
             /\ owned' = IF c = Item THEN owned ELSE [owned EXCEPT ![p] = @ \cup {<<c, n>>}]
  /\ UNCHANGED <<money, shelf, laid, found, job, stakes, world, wagers, draws, cuts>>

RefundEgg ==
  /\ call.at = "refund"
  /\ Change(call.who, Refund, Event("refund"))
  /\ Goto("keep")
  /\ UNCHANGED <<goods, job, stakes, world, wagers, draws, cuts>>

\* The hatched egg leaves the shelf, an item joins it.
Keep ==
  /\ call.at = "keep"
  /\ LET one == IF call.shelf.pending.what = Item THEN 1 ELSE 0
     IN /\ Save(call.who, Shelf(call.shelf.eggs - 1, call.shelf.junk + one))
        /\ found' = [found EXCEPT ![call.who] = @ + one]
  /\ Done
  /\ UNCHANGED <<money, owned, laid, heist, stranded, stakes, world, wagers, draws, cuts>>

Trade ==
  /\ call.at = "trade"
  /\ Change(call.who, JunkValue, Event("trade"))
  /\ Goto("compact")
  /\ UNCHANGED <<goods, job, stakes, world, wagers, draws, cuts>>

Compact ==
  /\ call.at = "compact"
  /\ Save(call.who, Shelf(call.shelf.eggs, call.shelf.junk - Bundle))
  /\ Done
  /\ UNCHANGED <<money, owned, laid, found, heist, stranded, stakes, world, wagers, draws, cuts>>

(* Games and gifts.                                                        *)

\* place_stake: within the daily cap, the stake leaves the person's brass.
Stake(p, n) ==
  /\ Today(p).lost + n <= LossLimit
  /\ Draw(BetDraws) /\ Change(p, -n, <<draws', "stake">>)

\* !brass flip and !brass slots.
Wager(p, n) ==
  /\ Starts(p, "wager") /\ Settled(p)
  /\ Stake(p, n)
  /\ call' = [at |-> "settle", who |-> p, n |-> draws', stake |-> n,
              wagers |-> Today(p), tick |-> 0]
  /\ UNCHANGED <<goods, job, stakes, world, wagers, cuts>>

Settle(m) ==
  /\ call.at = "settle"
  /\ IF m = 0 THEN call.who \in alive /\ UNCHANGED money
     ELSE Change(call.who, m * call.stake, <<call.n, "win">>)
  /\ call' = [call EXCEPT !.at = "tally",
                          !.wagers.lost = Within(@ + call.stake - m * call.stake)]
  /\ settled' = settled \cup {call.n}
  /\ UNCHANGED <<goods, job, lost, world, wagers, draws, cuts>>

\* The day's record is saved, of a game or of a gift.
Tally ==
  /\ call.at = "tally"
  /\ wagers' = [wagers EXCEPT ![call.who] = call.wagers]
  /\ Done
  /\ UNCHANGED <<money, goods, heist, stranded, stakes, world, draws, cuts>>

Give(p, to, n) ==
  /\ Starts(p, "give") /\ Settled(p) /\ to \in alive \ {p}
  /\ n <= GiftLimit - Today(p).given
  /\ Draw(BetDraws) /\ Change(p, -n, <<draws', "gift">>)
  /\ call' = [at |-> "gift", who |-> p, n |-> draws', to |-> to, stake |-> n,
              wagers |-> Today(p), tick |-> 0]
  /\ UNCHANGED <<goods, job, stakes, world, wagers, cuts>>

HandOver ==
  /\ call.at = "gift"
  /\ Change(call.to, call.stake, <<call.n, "to">>)
  /\ call' = [call EXCEPT !.at = "tally", !.wagers.given = @ + call.stake]
  /\ settled' = settled \cup {call.n}
  /\ UNCHANGED <<goods, job, lost, world, wagers, draws, cuts>>

(* Heists.                                                                 *)

Member(p, n, token) == [who |-> p, stake |-> n, n |-> token]

\* !heist plans a job, !heist join adds a member to the one being planned.
Heist(p, n) ==
  /\ Starts(p, "heist") /\ Settled(p)
  /\ IF heist.active
     THEN /\ heist.beat = 0
          /\ \A i \in DOMAIN heist.crew : heist.crew[i].who # p
          /\ Len(heist.crew) < MaxCrew
     ELSE ~heist.cooling
  /\ Stake(p, n)
  /\ call' = [at |-> "crew", who |-> p, n |-> draws', stake |-> n, job |-> heist, tick |-> 0]
  /\ UNCHANGED <<goods, job, stakes, world, wagers, cuts>>

\* A mutant: whoever stakes plans a job of their own.
JoinedAlone(j, m) == [NoHeist EXCEPT !.active = TRUE, !.crew = <<m>>, !.seq = j.seq + 1]

\* The heist after m is in: a new job is given a timer, with a new number.
Joined(j, m) ==
  IF j.active THEN [j EXCEPT !.crew = Append(@, m)]
  ELSE [NoHeist EXCEPT !.active = TRUE, !.crew = <<m>>, !.seq = j.seq + 1]

JoinCrew ==
  /\ call.at = "crew"
  /\ heist' = Joined(call.job, Member(call.who, call.stake, call.n))
  /\ IF call.job.active THEN Done
     ELSE call' = [at |-> "book", seq |-> heist'.seq, tick |-> call.tick] /\ UNCHANGED timer
  /\ UNCHANGED <<money, goods, stranded, stakes, world, wagers, draws, cuts>>

\* A mutant: the next beat is booked under the number of this one.
NextBeatUnnumbered(j) == [j EXCEPT !.beat = @ + 1]

\* The timer is delivered.  Its call is over at once if the job is not the one it
\* was booked for; the story goes on in two beats, then the crew's fates are rolled.
NextBeat(j) == [j EXCEPT !.beat = @ + 1, !.seq = @ + 1]

TimerIsStale ==
  /\ call = Idle /\ timer # 0
  /\ ~heist.active \/ heist.seq # timer
  /\ timer' = 0
  /\ UNCHANGED <<money, goods, heist, stranded, stakes, world, wagers, call, draws, cuts>>

Beat ==
  /\ call = Idle /\ timer # 0
  /\ heist.active /\ heist.seq = timer /\ heist.beat < 2
  /\ heist' = NextBeat(heist)
  /\ call' = [at |-> "book", seq |-> heist'.seq, tick |-> timer]
  /\ UNCHANGED <<money, goods, timer, stranded, stakes, world, wagers, draws, cuts>>

\* schedule_set replaces the job with a new one.
Book ==
  /\ call.at = "book"
  /\ timer' = IF call.seq = call.tick THEN 0 ELSE call.seq
  /\ call' = Idle
  /\ UNCHANGED <<money, goods, heist, stranded, stakes, world, wagers, draws, cuts>>

Outcome(won) ==
  /\ call = Idle /\ timer # 0
  /\ heist.active /\ heist.seq = timer /\ heist.beat = 2
  /\ won \subseteq DOMAIN heist.crew
  /\ call' = [at |-> IF heist.crew = <<>> THEN "close" ELSE "pay", i |-> 1,
              job |-> heist, won |-> won, tick |-> timer]
  /\ UNCHANGED <<money, goods, job, stakes, world, wagers, draws, cuts>>

Payout(c) ==
  IF c.i \in c.won THEN Haul(c.job.crew[c.i].stake, Len(c.job.crew)) ELSE 0

PayMember ==
  /\ call.at = "pay"
  /\ LET m == call.job.crew[call.i]
     IN /\ IF Payout(call) = 0 THEN UNCHANGED money
           ELSE Change(m.who, Payout(call), <<m.n, "win">>)
        /\ settled' = settled \cup {m.n}
  /\ Goto("score")
  /\ UNCHANGED <<goods, job, lost, world, wagers, draws, cuts>>

ScoreMember ==
  /\ call.at = "score"
  /\ LET m == call.job.crew[call.i]
     IN wagers' = [wagers EXCEPT ![m.who] =
                     [Today(m.who) EXCEPT !.lost = Within(@ + m.stake - Payout(call))]]
  /\ call' = IF call.i = Len(call.job.crew) THEN [call EXCEPT !.at = "close"]
             ELSE [call EXCEPT !.at = "pay", !.i = @ + 1]
  /\ UNCHANGED <<money, goods, job, stakes, world, draws, cuts>>

CloseHeist ==
  /\ call.at = "close"
  /\ \E cooling \in BOOLEAN :
       heist' = [NoHeist EXCEPT !.seq = call.job.seq + 1, !.cooling = cooling]
  /\ Done
  /\ UNCHANGED <<money, goods, stranded, stakes, world, wagers, draws, cuts>>

CoolDown ==
  /\ heist.cooling
  /\ heist' = [heist EXCEPT !.cooling = FALSE]
  /\ UNCHANGED <<money, goods, timer, stranded, stakes, world, wagers, call, draws, cuts>>

(* The surroundings.                                                       *)

\* Another module awards brass for a game of its own.
Earn(p) ==
  /\ gains < MaxGains /\ gains' = gains + 1
  /\ Change(p, Gain, <<gains', "earned">>)
  /\ UNCHANGED <<goods, job, stakes, course, alive, plan, day, erasures, wagers, call, draws, cuts>>

NewDay ==
  /\ "midnight" \in course /\ day < MaxDay /\ day' = day + 1
  /\ UNCHANGED <<money, goods, job, stakes, course, alive, plan, erasures, gains, wagers, call, draws, cuts>>

\* The brass an unfinished call has taken and not passed on.
InHand == IF call.at \in {"settle", "gift", "crew"} THEN {call.n} ELSE {}

Drop ==
  /\ call' = Idle
  /\ lost' = lost \cup InHand
  /\ stranded' = (stranded \/ call.at = "book")

Cut ==
  /\ call # Idle
  /\ "cut" \in course /\ cuts < MaxCuts /\ cuts' = cuts + 1
  /\ Drop
  /\ UNCHANGED <<money, goods, heist, timer, settled, world, wagers, draws>>

\* A transaction of somebody without a profile fails, and the call with it.
Payee ==
  CASE call.at \in {"charge", "refund", "trade", "settle"} -> {call.who}
    [] call.at = "gift" -> {call.to}
    [] call.at = "pay" /\ Payout(call) > 0 -> {call.job.crew[call.i].who}
    [] OTHER -> {}

Refused ==
  /\ Payee \ alive # {}
  /\ Drop
  /\ UNCHANGED <<money, goods, heist, timer, settled, world, wagers, draws, cuts>>

\* The crew of the heist without p, who is on it once if at all.
CrewWithout(p) ==
  IF \E i \in DOMAIN heist.crew : heist.crew[i].who = p
  THEN LET i == CHOOSE i \in DOMAIN heist.crew : heist.crew[i].who = p
       IN SubSeq(heist.crew, 1, i - 1) \o SubSeq(heist.crew, i + 1, Len(heist.crew))
  ELSE heist.crew

\* data_delete: the module's answer takes the person off the crew.
PlanErasure(p) ==
  /\ call = Idle /\ plan = None /\ p \in alive
  /\ "erasure" \in course /\ erasures < MaxErasures /\ erasures' = erasures + 1
  /\ plan' = [who |-> p, gone |-> FALSE,
              job |-> [heist EXCEPT !.crew = CrewWithout(p)],
              named |-> \E i \in DOMAIN heist.crew : heist.crew[i].who = p]
  /\ UNCHANGED <<money, goods, job, stakes, course, alive, day, gains, wagers, call, draws, cuts>>

Tokens(crew) == {crew[i].n : i \in DOMAIN crew}

\* The answer is applied: the person's records go, and the heist is put back to what
\* it was when the module answered.
ApplyErasure ==
  /\ plan # None /\ ~plan.gone
  /\ plan' = [plan EXCEPT !.gone = TRUE]
  /\ LET p == plan.who
     IN /\ balance' = [balance EXCEPT ![p] = 0]
        /\ ledger' = [ledger EXCEPT ![p] = <<>>]
        /\ shelf' = [shelf EXCEPT ![p] = EmptyShelf]
        /\ wagers' = [wagers EXCEPT ![p] = NoWagers]
        /\ laid' = [laid EXCEPT ![p] = 0] /\ found' = [found EXCEPT ![p] = 0]
  /\ IF plan.named
     THEN /\ heist' = plan.job
          /\ lost' = lost \cup (Tokens(heist.crew) \ Tokens(plan.job.crew))
          /\ stranded' = (stranded \/ heist.seq # plan.job.seq)
     ELSE UNCHANGED <<heist, lost, stranded>>
  /\ UNCHANGED <<owned, timer, settled, course, alive, day, erasures, gains, call, draws, cuts>>

\* The profile goes last, with its cosmetics.
FinishErasure ==
  /\ plan # None /\ plan.gone
  /\ alive' = alive \ {plan.who}
  /\ owned' = [owned EXCEPT ![plan.who] = {}]
  /\ plan' = None
  /\ UNCHANGED <<money, shelf, laid, found, job, stakes, course, day, erasures, gains, wagers,
                 call, draws, cuts>>

-----------------------------------------------------------------------------
Command(p) ==
  \/ \E pull \in BOOLEAN : BuyEgg(p, pull)
  \/ HatchEgg(p) \/ Recycle(p) \/ Recover(p)
  \/ \E n \in Bets : Wager(p, n) \/ Heist(p, n)
  \/ \E to \in People, n \in Bets : Give(p, to, n)

Work ==
  \/ Charge \/ Lay \/ GiveUp \/ Grant \/ RefundEgg \/ Keep \/ Trade \/ Compact
  \/ \E what \in Cosmetics \cup {Item} : Roll(what)
  \/ \E m \in Multipliers : Settle(m)
  \/ Tally \/ HandOver \/ JoinCrew \/ Book
  \/ PayMember \/ ScoreMember \/ CloseHeist \/ Refused

Tick ==
  \/ TimerIsStale \/ Beat
  \/ \E won \in SUBSET (1..MaxCrew) : Outcome(won)

Next ==
  \/ \E p \in People : Command(p) \/ Earn(p) \/ PlanErasure(p)
  \/ Work \/ Tick \/ Cut \/ CoolDown \/ NewDay
  \/ ApplyErasure \/ FinishErasure

\* The worker goes on with its call and the scheduler delivers a due timer while the
\* worker is idle; a crew is caught some time if its fates are rolled for ever.
Fairness ==
  /\ WF_vars(Work)
  /\ SF_vars(TimerIsStale \/ Beat)
  /\ SF_vars(Outcome({}))

Spec == Init /\ [][Next]_vars /\ Fairness

-----------------------------------------------------------------------------
(* Properties.                                                             *)

\* The tokens of the transactions of a kind.
Ids(book, kind) == {book[i][1] : i \in {i \in DOMAIN book : book[i][2] = kind}}
OfKind(p, kind) == Ids(ledger[p], kind)
Pending(p, kind) == Tells(shelf[p], kind)
One(condition) == IF condition THEN 1 ELSE 0

\* People an erasure has not reached.
Present == {p \in alive : plan = None \/ plan.who # p}

\* Balances, eggs and items are never negative, and the records are well formed.
Eggs == {"charge", "lay", "give up", "roll", "grant", "refund", "keep", "trade", "compact"}
Fits(at, s) ==   \* the step of a call, and what the shelf it holds has recorded
  /\ at \in {"charge", "lay", "give up"} => Tells(s, "buy")
  /\ at = "roll" => s.pending = None /\ s.eggs > 0
  /\ at \in {"grant", "refund", "keep"} => Tells(s, "hatch")
  /\ at \in {"trade", "compact"} => Tells(s, "trade")
EggCalls ==
  {c \in [at : Eggs, who : People, shelf : Shelves, pull : BOOLEAN, tick : Nat] :
     Fits(c.at, c.shelf)}
BetCalls ==
  [at : {"settle", "tally"}, who : People, n : 1..MaxDraws, stake : Bets, wagers : Wagerings,
   tick : Nat]
GiftCalls ==
  [at : {"gift", "tally"}, who : People, n : 1..MaxDraws, to : People, stake : Bets,
   wagers : Wagerings, tick : Nat]
CrewCalls ==
  {c \in [at : {"crew"}, who : People, n : 1..MaxDraws, stake : Bets, job : Heists, tick : Nat] :
     c.job.active => /\ \A i \in DOMAIN c.job.crew : c.job.crew[i].who # c.who
                     /\ Len(c.job.crew) < MaxCrew}
BookCalls == [at : {"book"}, seq : Nat, tick : Nat]
FateCalls ==
  {c \in [at : {"pay", "score", "close"}, i : Nat, job : Heists, won : SUBSET (1..MaxCrew),
          tick : Nat] :
     c.at # "close" => c.i \in DOMAIN c.job.crew}

TypeOK ==
  /\ alive \subseteq People
  /\ balance \in [People -> Nat]
  /\ ledger \in [People -> Seq((1..(MaxDraws + MaxGains)) \X
        {"buy", "refund", "trade", "stake", "win", "gift", "to", "earned"})]
  /\ shelf \in [People -> Shelves] /\ owned \in [People -> SUBSET (Cosmetics \X (1..MaxDraws))]
  /\ laid \in [People -> Nat] /\ found \in [People -> Nat]
  /\ wagers \in [People -> Wagerings]
  /\ heist \in Heists /\ timer \in Nat /\ stranded \in BOOLEAN
  /\ call \in {Idle} \cup EggCalls \cup BetCalls \cup GiftCalls \cup CrewCalls \cup BookCalls
                 \cup FateCalls
  /\ plan \in Plans \cup {None}
  /\ day \in 0..MaxDay /\ draws \in 0..MaxDraws /\ gains \in 0..MaxGains
  /\ settled \cup lost \subseteq 1..MaxDraws

\* "Every step is idempotent under event_id, so a pending hatch can be replayed after
\* an interruption" (finish_hatch), and so are purchases and recycling: whenever calls
\* are cut, no transaction is repeated that the ledger remembers, every egg was charged
\* to its owner, every egg hatched yielded one item, one cosmetic or one refund, and
\* every bundle of junk was paid for.
GoodsAreAccounted ==
  \A p \in Present :
    /\ \A i, j \in DOMAIN ledger[p] : i < j /\ ledger[p][i] = ledger[p][j] => j - i > LedgerKept
    /\ Cardinality(OfKind(p, "buy")) =
         laid[p] + One(Pending(p, "buy") /\ shelf[p].pending.n \in OfKind(p, "buy"))
    /\ laid[p] + One(/\ Pending(p, "hatch")
                     /\ \/ shelf[p].pending.n \in OfKind(p, "refund")
                        \/ \E g \in owned[p] : g[2] = shelf[p].pending.n) =
         shelf[p].eggs + found[p] + Cardinality(owned[p]) + Cardinality(OfKind(p, "refund"))
    /\ found[p] + One(Pending(p, "trade") /\ shelf[p].pending.n \in OfKind(p, "trade")) * Bundle =
         shelf[p].junk + Cardinality(OfKind(p, "trade")) * Bundle

\* Brass taken as a stake or a gift is in the hands of the call that took it, on the
\* crew of the heist, or settled; it is lost only with a call that is cut or refused or
\* with an erasure that puts the heist back.
StakesAreAccounted ==
  \A p \in Present :
    OfKind(p, "stake") \cup OfKind(p, "gift")
      \subseteq InHand \cup Tokens(heist.crew) \cup settled \cup lost

\* "Then the job plays out over a couple of scheduled story beats" (heist.rs): a heist
\* comes to its end, unless it was once left without its timer, even if outcomes fail.
HeistsEnd == heist.active ~> (~heist.active \/ stranded)

=============================================================================
