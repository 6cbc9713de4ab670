---------------------------- MODULE ChannelOrders ----------------------------
(***************************************************************************)
(* What an administrator orders for a channel and a durable timer carries  *)
(* out: timed bans (modules-src/operator), a mask banned until its timer   *)
(* lifts the ban; and weather warnings (modules-src/weather), a timer that *)
(* looks up the warnings where the channel's members live, says what is    *)
(* new and what was lifted, and books itself again.                        *)
(***************************************************************************)
EXTENDS Handlers

CONSTANTS Masks,
          Refused,  \* too broad, or the nick in it is the bot's or that of who asks; a mask
                    \* with wildcards for the nick is taken whomever it hits
          MaxBans   \* bound

TimedBansAssumption == Refused \subseteq Masks /\ MaxBans \in Nat

(* db: the timers, one a mask, the bans in force at the server, and those of them that   *)
(* somebody ordered to be lifted without the order getting there.                        *)

BansInit ==
  /\ db = [jobs |-> [m \in Masks |-> "none"], bans |-> {}, left |-> {}]
  /\ world = [queue |-> {}, asked |-> 0, mishaps |-> 0]

Obeyed(d, adding, mask) ==
  LET now == [d EXCEPT !.bans = IF adding THEN @ \cup {mask} ELSE @ \ {mask}]
  IN [now EXCEPT !.left = @ \ {mask}]

Unheard(d, adding, mask) == IF adding THEN d ELSE [d EXCEPT !.left = @ \cup (d.bans \cap {mask})]

\* operator_action: the host says Ok also when it drops the line, for a network it does
\* not know, that is offline, or whose queues are full.
Mode(d, adding, mask) == {Obeyed(d, adding, mask), Unheard(d, adding, mask)}

\* A mutant: the ban is set before its timer.
BanAtOnce(d, mask) == {<<e, SetTimer(e, mask)>> : e \in Mode(d, TRUE, mask)}

\* ban: the timer first, so that no ban is without one.
Ban(d, mask) == {<<SetTimer(d, mask), e>> : e \in Mode(SetTimer(d, mask), TRUE, mask)}

\* A mutant: the timer goes before the ban.
UnbanCancelling(d, mask) ==
  {<<CancelTimer(d, mask), e>> : e \in Mode(CancelTimer(d, mask), FALSE, mask)}

\* unban: the timer goes last.
Unban(d, mask) == {<<e, CancelTimer(e, mask)>> : e \in Mode(d, FALSE, mask)}

AskBan(mask) ==
  /\ mask \notin Refused /\ world.asked < MaxBans
  /\ \E states \in Ban(db, mask) : Perform(states, [world EXCEPT !.asked = @ + 1])

AskUnban(mask) == \E states \in Unban(db, mask) : Perform(states, world)

\* on_event: the timer's mask is unbanned, whatever was asked since it was sent.
Expire(mask) == \E e \in Mode(db, FALSE, mask) : PerformTimer(mask, <<e>>, world)

BansNext == \E mask \in Masks : AskBan(mask) \/ AskUnban(mask) \/ Send(mask) \/ Expire(mask)

\* A ban in force has a timer that will try to lift it, however its command or an earlier
\* timer was cut short, unless a line that was to lift it was dropped: then its handler
\* ended well all the same, and nothing tries again.
BansAreDriven == \A mask \in db.bans : IsDriven(mask) \/ mask \in db.left

\* It is lifted some time, unless such a line was dropped.
BanIsOver(mask) == mask \notin db.bans \/ mask \in db.left

-----------------------------------------------------------------------------
CONSTANTS
  Cells,          \* where members live
  Warnings, Area, \* the cells of each warning
  Severe,         \* warnings above the stricter alert_level
  Tracked,        \* MAX_TRACKED
  MaxTurns        \* bound: what weather, members and settings do

WeatherAlertsAssumption ==
  /\ Area \in [Warnings -> SUBSET Cells] /\ Severe \subseteq Warnings
  /\ {Tracked, MaxTurns} \subseteq Nat

(* db: the tick's job, and the posted warnings with the cells that reported them last,   *)
(* none for a warning that is not posted.  world: warnings in force and long expired,    *)
(* the cells of members who did not opt out, the settings, whether alerts were asked     *)
(* for, and what the channel was told and not told back, with the mistakes in it.        *)

Tick == "tick"

AlertsInit ==
  /\ db = [jobs |-> [j \in {Tick} |-> "none"], posted |-> [w \in Warnings |-> {}]]
  /\ world = [queue |-> {}, inForce |-> {}, old |-> {}, watched |-> Cells, strict |-> FALSE,
              quiet |-> FALSE, asked |-> FALSE, told |-> {}, repeated |-> FALSE,
              liftedInForce |-> FALSE, turns |-> 0, mishaps |-> 0]

Relevant(w) == ~world.strict \/ w \in Severe

\* Current: each warning with the cells whose lookup showed it; a lookup that failed in
\* part shows some of it.
Seen(dark, shown) ==
  [w \in Warnings |-> {c \in world.watched \cap Area[w] :
     w \in world.inForce /\ Relevant(w) /\ (c \notin dark \/ <<w, c>> \in shown)}]

\* A mutant: a cell that could not be looked up counts as clear.
LiftedUnseen(seen, dark) ==
  {w \in Warnings : /\ db.posted[w] # {} /\ seen[w] = {} /\ Relevant(w)
                    /\ db.posted[w] \cap world.watched # {}}

\* plan: lift
Lifted(seen, dark) ==
  {w \in Warnings : /\ db.posted[w] # {} /\ seen[w] = {} /\ Relevant(w)
                    /\ db.posted[w] \cap world.watched # {}
                    /\ db.posted[w] \cap dark = {}}

\* plan: forget, without a word
Forgotten(seen, dark) ==
  {w \in Warnings : /\ db.posted[w] # {} /\ seen[w] = {}
                    /\ \/ ~Relevant(w) \/ db.posted[w] \cap world.watched = {}
                       \/ w \in world.old /\ db.posted[w] \cap dark # {}}

\* tick: the posted warnings afterwards, and the one that expires first goes when they are
\* too many.
Posted(seen, dark) ==
  LET gone == Lifted(seen, dark) \cup Forgotten(seen, dark)
      all == [w \in Warnings |-> IF w \in gone THEN {} ELSE IF seen[w] # {} THEN seen[w]
                                 ELSE db.posted[w]]
      kept == {w \in Warnings : all[w] # {}}
  IN IF Cardinality(kept) <= Tracked THEN {all} ELSE {[all EXCEPT ![w] = {}] : w \in kept}

\* tick: book the next, look, speak, and save.
Steps(posted) ==
  LET booked == SetTimer(db, Tick)
  IN <<booked>> \o IF world.quiet THEN <<>> ELSE <<booked, [booked EXCEPT !.posted = posted]>>

TickNow(dark, shown) ==
  LET seen == Seen(dark, shown)
      announced == {w \in Warnings : seen[w] # {} /\ db.posted[w] = {}}
      lifted == Lifted(seen, dark)
  IN \E posted \in Posted(seen, dark) :
       PerformTimer(Tick, Steps(posted),
         IF world.quiet THEN world
         ELSE [world EXCEPT
                 !.told = (@ \cup announced) \ (lifted \cup Forgotten(seen, dark)
                            \cup {w \in Warnings : posted[w] = {}}),
                 !.repeated = @ \/ announced \cap world.told # {} \/ lifted \ world.told # {},
                 !.liftedInForce = @ \/ \E w \in lifted \cap world.inForce :
                                        db.posted[w] \cap world.watched # {}])

\* command: on, off.  A tick that is already on its way books the next all the same.
TurnOn ==
  /\ ~world.asked /\ world.turns < MaxTurns
  /\ db' = SetTimer(db, Tick)
  /\ world' = [world EXCEPT !.asked = TRUE, !.turns = @ + 1]

TurnOff ==
  LET off == CancelTimer(db, Tick)
  IN /\ world.asked /\ world.turns < MaxTurns
     /\ Perform(<<off, [off EXCEPT !.posted = [w \in Warnings |-> {}]]>>,
                [world EXCEPT !.asked = FALSE, !.told = {}, !.turns = @ + 1])

Turn(w) == world.turns < MaxTurns /\ world' = [w EXCEPT !.turns = @ + 1] /\ UNCHANGED db

AlertsNext ==
  \/ \E dark \in SUBSET Cells : \E shown \in SUBSET {<<w, c>> \in Warnings \X dark : TRUE} :
       TickNow(dark, shown)
  \/ Send(Tick) \/ TurnOn \/ TurnOff
  \/ \E w \in Warnings : \/ w \notin world.inForce \cup world.old
                            /\ Turn([world EXCEPT !.inForce = @ \cup {w}])
                         \/ w \in world.inForce /\ Turn([world EXCEPT !.inForce = @ \ {w}, !.old = @ \cup {w}])
  \/ \E watched \in SUBSET Cells : watched # world.watched /\ Turn([world EXCEPT !.watched = watched])
  \/ Turn([world EXCEPT !.strict = ~@]) \/ Turn([world EXCEPT !.quiet = ~@])

\* Alerts that were asked for stay booked, whatever call of a tick fails; a warning is said
\* once until it is lifted, and never lifted while it is in force where it was last seen.  (It
\* may still be in force in a cell that could not be looked up for a while.)
AlertsAreTrue ==
  /\ world.asked => IsDriven(Tick)
  /\ world.mishaps = 0 => ~world.repeated
  /\ ~world.liftedInForce
=============================================================================
