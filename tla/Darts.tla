------------------------------- MODULE Darts --------------------------------
(***************************************************************************)
(* Darts in one room (modules-src/darts): everyone who throws is in the    *)
(* match, counts down from the same score, rests after a turn and has so   *)
(* many darts a day.  Who reaches zero wins, and the match starts over.    *)
(* Where a dart lands is chance: skill and form only change the odds.      *)
(***************************************************************************)
EXTENDS Handlers

CONSTANTS
  Throwers,
  StartingScore,   \* starting_score
  DailyCap,        \* daily_dart_cap
  Numbers,         \* the numbers of the board that darts land on, of 1..20
  Rulebooks,       \* the rules a room may have: double_out, bust_resets_turn, free_play
  MaxDay, MaxWins, MaxThrows   \* bounds

DartsAssumption ==
  /\ Numbers \subseteq 1..20
  /\ Rulebooks \subseteq [doubleOut : BOOLEAN, resets : BOOLEAN, free : BOOLEAN]
  /\ {StartingScore, DailyCap, MaxDay, MaxWins, MaxThrows} \subseteq Nat \ {0}

(* db: match, each player's place in it; stats, what is kept of each in normal play;     *)
(* paid and awarded, the brass and the achievements of the host.  world: the day, the    *)
(* room's rules, and what each really threw that day.                                    *)

MaxTurn == 3
NotIn == [left |-> 0, turn |-> 0, start |-> 0, resting |-> FALSE]
Fresh == [NotIn EXCEPT !.left = StartingScore]
NoStats == [wins |-> 0, busts |-> 0, almost |-> 0, today |-> 0, day |-> 0]
Empty == [p \in Throwers |-> NotIn]

Init == \E rules \in Rulebooks :
  /\ db = [match |-> Empty, stats |-> [p \in Throwers |-> NoStats], paid |-> {},
           awarded |-> [p \in Throwers |-> [wins |-> 0, busts |-> 0, almost |-> 0]]]
  /\ world = [day |-> 1, rules |-> rules,
              thrown |-> [p \in Throwers |-> 0], throws |-> 0, mishaps |-> 0]

\* The board: a ring and a number; the bulls are the single and the double 25.
BoardOf(numbers) == ({1, 2, 3} \X numbers) \cup {<<1, 25>>, <<2, 25>>, <<0, 0>>}
Points(dart) == dart[1] * dart[2]

\* apply_dart
Apply(left, dart, doubleOut) ==
  CASE dart = <<0, 0>> -> "miss"
    [] Points(dart) > left \/ (doubleOut /\ left - Points(dart) = 1) -> "bust"
    [] Points(dart) = left -> IF doubleOut /\ dart[1] # 2 THEN "bust" ELSE "win"
    [] OTHER -> "normal"

\* A mutant: any dart of that value finishes.
CheckoutByValue(left, doubleOut) ==
  LET finishing == {dart \in BoardOf(1..20) : left > 0 /\ Points(dart) = left}
  IN IF finishing = {} THEN <<0, 0>> ELSE CHOOSE d \in finishing : \A e \in finishing : d[1] <= e[1]

\* checkout_dart: what an aimed throw takes to finish, <<0, 0>> for nothing.
Checkout(left, doubleOut) ==
  LET finishing == {dart \in BoardOf(1..20) : left > 0 /\ Points(dart) = left /\ (doubleOut => dart[1] = 2)}
  IN IF finishing = {} THEN <<0, 0>> ELSE CHOOSE d \in finishing : \A e \in finishing : d[1] <= e[1]

\* The places a player can be in after one more dart, and how it went.
Thrown(v) ==
  IF v.went \in {"bust", "win"} THEN {v}
  ELSE {LET went == Apply(v.place.left, dart, world.rules.doubleOut)
        IN [place |-> [v.place EXCEPT !.turn = @ + 1,
                         !.left = IF went \in {"normal", "win"} THEN @ - Points(dart) ELSE @],
            today |-> v.today + 1, went |-> went] : dart \in BoardOf(Numbers)}

\* play_volley: up to n darts, and the end of the turn.
Volley(place, today, n) ==
  LET opened == IF place.turn = 0 THEN [place EXCEPT !.start = place.left] ELSE place
      after[k \in 0..n] == IF k = 0 THEN {[place |-> opened, today |-> today, went |-> "normal"]}
                           ELSE UNION {Thrown(v) : v \in after[k - 1]}
      turnOver(v) == v.went # "win" /\ (v.went = "bust" \/ v.place.turn >= MaxTurn
                                        \/ (~world.rules.free /\ v.today >= DailyCap))
      ended(v) == [v.place EXCEPT
                     !.left = IF v.went = "bust" /\ world.rules.resets THEN v.place.start ELSE @,
                     !.turn = IF turnOver(v) THEN 0 ELSE @,
                     !.start = IF turnOver(v) THEN 0 ELSE @,
                     !.resting = turnOver(v) /\ ~world.rules.free]
  IN {[v EXCEPT !.place = ended(v)] : v \in after[n]}

\* A mutant: every throw begins a new day.
DailyAnew(p) == [db.stats[p] EXCEPT !.day = world.day, !.today = 0]

\* throw: a new day counts from nothing.
Daily(p) ==
  IF db.stats[p].day = world.day THEN db.stats[p]
  ELSE [db.stats[p] EXCEPT !.day = world.day, !.today = 0]

\* throw: where the player stands before the dart.
Place(p) ==
  LET at == IF db.match[p] = NotIn THEN Fresh ELSE db.match[p]
      legal == IF world.rules.doubleOut /\ at.left = 1 THEN [at EXCEPT !.left = 2] ELSE at
      newDay == ~world.rules.free /\ db.stats[p].day # world.day
  IN IF newDay THEN [legal EXCEPT !.turn = 0, !.start = 0] ELSE legal

Almost(p) == {q \in Throwers \ {p} : db.match[q] # NotIn /\ db.match[q].left <= 60}

\* A mutant: the win is paid before it is written.
WonPayingFirst(d, p, stats) ==
  LET paid == [d EXCEPT !.paid = @ \cup {<<p, stats.wins + 1>>}]
  IN <<paid, [paid EXCEPT !.stats[p] = [stats EXCEPT !.wins = @ + 1], !.match = Empty,
                          !.awarded[p].wins = @ + 1]>>

\* throw, when the match is won: statistics first, then the match, then the rewards.
Won(d, p, stats) ==
  LET won == [stats EXCEPT !.wins = @ + 1]
      counted == [d EXCEPT !.stats = [q \in Throwers |->
                    IF q \in Almost(p) THEN [@[q] EXCEPT !.almost = @ + 1] ELSE @[q]]]
      saved == [counted EXCEPT !.stats[p] = won]
      cleared == [saved EXCEPT !.match = Empty]
      paid == [cleared EXCEPT !.paid = @ \cup {<<p, won.wins>>}]
      awarded == [paid EXCEPT !.awarded[p].wins = @ + 1]
      all == [awarded EXCEPT !.awarded = [q \in Throwers |->
                IF q \in Almost(p) THEN [@[q] EXCEPT !.almost = @ + 1] ELSE @[q]]]
  IN <<counted, saved, cleared, paid, awarded, all>>

\* throw, otherwise: the match, the statistics, and the award of a bust.
Counted(d, p, place, stats, bust) ==
  LET counted == IF bust THEN [stats EXCEPT !.busts = @ + 1] ELSE stats
      match == [d EXCEPT !.match[p] = place]
      saved == [match EXCEPT !.stats[p] = counted]
  IN <<match, saved>> \o (IF bust THEN <<[saved EXCEPT !.awarded[p].busts = @ + 1]>> ELSE <<>>)

\* In free play nothing but the match is kept here: its figures are the room's own.
Throw(p, requested) ==
  LET free == world.rules.free
      stats == Daily(p)
      day == IF free THEN <<>> ELSE <<[db EXCEPT !.stats[p] = stats]>>
      dayDb == IF free THEN db ELSE day[1]
      place == Place(p)
      left == IF free \/ MaxTurn - place.turn <= DailyCap - stats.today
              THEN MaxTurn - place.turn ELSE DailyCap - stats.today
      n == IF requested <= left THEN requested ELSE left
  IN /\ db.stats[p].wins < MaxWins /\ world.throws < MaxThrows
     /\ free \/ (stats.today < DailyCap /\ ~place.resting)
     /\ \E v \in Volley(place, stats.today, n) :
          LET kept == IF free THEN stats ELSE [stats EXCEPT !.today = v.today]
              states == IF v.went # "win" THEN
                          IF free THEN <<[db EXCEPT !.match[p] = v.place]>>
                          ELSE Counted(dayDb, p, v.place, kept, v.went = "bust")
                        ELSE IF free THEN <<[db EXCEPT !.match = Empty]>>
                        ELSE Won(dayDb, p, kept)
          IN Perform(day \o states,
               [world EXCEPT !.throws = @ + 1,
                 !.thrown[p] = IF free THEN @ ELSE @ + v.today - stats.today])

\* The rest is over.
Rested(p) ==
  /\ db.match[p].resting
  /\ db' = [db EXCEPT !.match[p].resting = FALSE] /\ UNCHANGED world

Reset == db' = [db EXCEPT !.match = Empty] /\ UNCHANGED world

SetRules(rules) == world' = [world EXCEPT !.rules = rules] /\ UNCHANGED db

NewDay ==
  /\ world.day < MaxDay
  /\ world' = [world EXCEPT !.day = @ + 1, !.thrown = [p \in Throwers |-> 0]] /\ UNCHANGED db

\* data_delete: the place in the match and the figures go; who comes back is a new person.
Erase(p) ==
  /\ db.stats[p].wins = MaxWins
  /\ db' = [db EXCEPT !.match[p] = NotIn, !.stats[p] = NoStats,
              !.awarded[p] = [wins |-> 0, busts |-> 0, almost |-> 0],
              !.paid = {e \in @ : e[1] # p}]
  /\ world' = [world EXCEPT !.thrown[p] = 0]

Next ==
  \/ \E p \in Throwers : (\E n \in 1..MaxTurn : Throw(p, n)) \/ Rested(p) \/ Erase(p)
  \/ Reset \/ NewDay \/ \E rules \in Rulebooks : SetRules(rules)

Spec == Init /\ [][Next]_handlerVars

\* A saved match has nobody at zero or below, and no turn that should have ended.
PlacesAreOpen ==
  \A p \in Throwers : db.match[p] # NotIn =>
    /\ db.match[p].left >= 1 /\ db.match[p].turn < MaxTurn
    /\ db.match[p].turn = 0 <=> db.match[p].start = 0

\* Every win is paid once, and the host's achievements are the module's figures, unless a
\* handler was cut short: then they are never ahead.
WinsArePaid ==
  \A p \in Throwers :
    LET s == db.stats[p]
        host == db.awarded[p]
        paid == {e \in db.paid : e[1] = p}
    IN /\ paid \subseteq {p} \X (1..s.wins)
       /\ host.wins <= s.wins /\ host.busts <= s.busts /\ host.almost <= s.almost
       /\ world.mishaps = 0 =>
            /\ Cardinality(paid) = s.wins
            /\ host = [wins |-> s.wins, busts |-> s.busts, almost |-> s.almost]

\* "daily_dart_cap": nobody throws more darts in a day than that.
CapIsKept == world.mishaps = 0 => \A p \in Throwers : world.thrown[p] <= DailyCap

\* "The dart that does it": an aimed finish wins, and there is one when any dart wins.
CheckoutsWin ==
  \A left \in 0..60, doubleOut \in BOOLEAN :
    LET wins == {dart \in BoardOf(1..20) : Apply(left, dart, doubleOut) = "win"}
        dart == Checkout(left, doubleOut)
    IN IF dart = <<0, 0>> THEN wins = {} ELSE dart \in wins

DartsIsFair == PlacesAreOpen /\ WinsArePaid /\ CapIsKept /\ (Init => CheckoutsWin)
=============================================================================
