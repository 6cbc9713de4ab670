------------------------------- MODULE Lookups -------------------------------
(***************************************************************************)
(* What the bot looks up outside.  The host's lookups keep answers for all *)
(* workers and limit their requests (link_title.rs, wikipedia.rs,          *)
(* wikiquote.rs, youtube.rs, weather.rs, meteoalarm.rs, money.rs,          *)
(* weatherlink.rs, animal/mod.rs, gif.rs); commands ask for one, a person  *)
(* some time apart; and some of it is said without being asked for: the    *)
(* titles of videos and pages, translations, and a morning forecast.       *)
(* What a provider answers is arbitrary.                                   *)
(***************************************************************************)
EXTENDS Handlers, SequencesExt

CONSTANTS People, MaxNow, MaxAsked  \* bounds

CONSTANTS
  Workers, Keys,  \* what may be looked up
  NoFlight,       \* no request
  Ttl,            \* CACHE_TTL and its like: how long an answer is kept
  CacheCap,       \* CACHE_CAP and its like
  Rate, Minute,   \* the requests a minute
  Apart,          \* MIN_REQUEST_INTERVAL
  Patience        \* timeout_global

ProvidersAssumption ==
  /\ {MaxNow, MaxAsked, Minute, Apart} \subseteq Nat /\ {Ttl, CacheCap, Rate, Patience} \subseteq Nat \ {0}

(* An answer is whole, or a part of it could not be had, or says there is nothing, or    *)
(* the request failed.  A provider: the answers kept, how room is made for another, and  *)
(* when its requests are counted.                                                        *)

Provider(keeps, room, counts) == [keeps |-> keeps, room |-> room, counts |-> counts]

PageTitles == Provider({"whole", "nothing"}, "tidied", "requests")
Articles   == Provider({"whole", "part", "nothing"}, "oldest", "never")
Quotations == Provider({"whole", "nothing"}, "oldest", "never")
Videos     == Provider({"whole"}, "trimmed", "never")
Weather    == Provider({"whole", "part"}, "tidied", "never")
Rates      == Provider({"whole"}, "replaced", "never")
Prices     == Provider({"whole"}, "grown", "requests")
Coins      == Provider({"whole", "nothing"}, "cleared", "requests")
Station    == Provider({"whole"}, "replaced", "never")
Pictures   == Provider({"whole", "nothing"}, "grown", "questions")
Gifs       == Provider({}, "grown", "questions")

Providers == [titles |-> PageTitles, articles |-> Articles, quotations |-> Quotations, videos |-> Videos,
              weather |-> Weather, rates |-> Rates, prices |-> Prices, coins |-> Coins,
              station |-> Station, pictures |-> Pictures, gifs |-> Gifs]

\* What is limited together: prices and the names of coins come from one service.
Services == {{"prices", "coins"}} \cup {{of} : of \in DOMAIN Providers \ {"prices", "coins"}}

(* db: the answers each provider has kept, and since when; the times of counted          *)
(* requests; what each worker waits for, with what was kept of it; and what each was     *)
(* told last, with the age of the oldest of it and whether some of it had been kept.     *)

Untold == [what |-> "untold", age |-> 0, kept |-> FALSE]

ProvidersInit == \E service \in Services :
  /\ db = [cache |-> [of \in service |-> {}], requests |-> <<>>,
           flight |-> [w \in Workers |-> NoFlight], told |-> [w \in Workers |-> Untold]]
  /\ world = [service |-> service, now |-> 1, asked |-> 0]

\* A mutant: an answer is kept a moment too long.
FreshLonger(entries, ttl) == {e \in entries : world.now - e.at <= ttl}

Fresh(entries, ttl) == {e \in entries : world.now - e.at < ttl}

\* A mutant: one request more is let through.
AdmittedOneMore == Len(SelectSeq(db.requests, LAMBDA at : world.now - at < Minute)) <= Rate

\* rate_allowed, admit_request, admit_coingecko: few requests in the last minute, and for
\* pictures that move none just now.
Admitted ==
  /\ Len(SelectSeq(db.requests, LAMBDA at : world.now - at < Minute)) < Rate
  /\ world.service = {"gifs"} /\ db.requests # <<>> => world.now - Last(db.requests) >= Apart

Told(d, w, what, entries) ==
  [d EXCEPT !.told[w] =
     [what |-> what, age |-> Max({0} \cup {world.now - e.at : e \in entries}), kept |-> entries # {}]]

\* A mutant: the cache is only tidied up.
RoomByTidying(cache, room) == {Fresh(cache, Ttl)}

\* Room for what is new: of what is stale, or else of everything; of one of the oldest; of
\* everything; or none is needed.
RoomMade(cache, room) ==
  IF room = "replaced" THEN {{}}
  ELSE IF room \in {"grown", "trimmed"} \/ Cardinality(cache) < CacheCap THEN {cache}
  ELSE IF room = "oldest" THEN {cache \ {e} : e \in {f \in cache : \A g \in cache : f.at <= g.at}}
  ELSE IF room = "tidied" /\ Cardinality(Fresh(cache, Ttl)) < CacheCap THEN {Fresh(cache, Ttl)}
  ELSE {{}}

\* Or the oldest go when the new is in.
Trimmed(cache, room) ==
  IF room # "trimmed" \/ Cardinality(cache) <= CacheCap THEN {cache}
  ELSE {kept \in SUBSET cache : /\ Cardinality(kept) = CacheCap
                                /\ \A e \in kept, f \in cache \ kept : f.at <= e.at}

Stored(cache, new, room) ==
  UNION {Trimmed({e \in left : \A n \in new : e.key # n.key} \cup new, room) : left \in RoomMade(cache, room)}

\* Several videos are asked for at once; and all rates.
Questions(of) == IF of = "videos" THEN SUBSET Keys \ {{}}
                 ELSE IF of = "rates" THEN {{CHOOSE key \in Keys : TRUE}}
                 ELSE {{key} : key \in Keys}

\* A question: what is stale is forgotten first where room is made of the oldest; then it is
\* refused, answered from what is kept (but not with no pictures), or sent, for what is not
\* kept, to the provider.
Ask(w, of, keys) ==
  LET asked == Providers[of]
      kept == {e \in Fresh(db.cache[of], Ttl) : e.key \in keys /\ (of = "pictures" => e.what = "whole")}
      missing == keys \ {e.key : e \in kept}
      counts == asked.counts = "questions" \/ (asked.counts = "requests" /\ missing # {})
      purged == IF asked.room \in {"oldest", "trimmed"} THEN [db EXCEPT !.cache[of] = Fresh(@, Ttl)] ELSE db
      counted == IF counts THEN [purged EXCEPT !.requests = Append(@, world.now)] ELSE purged
  IN /\ db.flight[w] = NoFlight /\ world.asked < MaxAsked
     /\ world' = [world EXCEPT !.asked = @ + 1]
     /\ db' = IF counts /\ ~Admitted THEN Told(purged, w, "refused", {})
              ELSE IF missing = {} THEN Told(counted, w, (CHOOSE e \in kept : TRUE).what, kept)
              ELSE [counted EXCEPT !.flight[w] =
                      [of |-> of, missing |-> missing, kept |-> kept, since |-> world.now]]

\* A mutant: a failure is kept like any answer.
KeptAnyway(of, what) == Providers[of].keeps # {}

Kept(of, what) == what \in Providers[of].keeps

\* The provider's answer; two workers may have asked for the same.  Of several videos some
\* may be gone, and none are told of when the request failed.
Arrive(w, what, found) ==
  LET flight == db.flight[w]
      landed == [db EXCEPT !.flight[w] = NoFlight]
      new == {[key |-> key, what |-> what, at |-> world.now] : key \in found}
      told(d) == IF what = "failed" THEN Told(d, w, what, {}) ELSE Told(d, w, what, flight.kept)
  IN /\ flight # NoFlight /\ found \subseteq flight.missing
     /\ (flight.of = "videos" /\ what = "whole") \/ found = flight.missing
     /\ IF Kept(flight.of, what)
        THEN \E cache \in Stored(db.cache[flight.of], new, Providers[flight.of].room) :
               db' = told([landed EXCEPT !.cache[flight.of] = cache])
        ELSE db' = told(landed)
     /\ UNCHANGED world

Later == world.now < MaxNow /\ world' = [world EXCEPT !.now = @ + 1] /\ UNCHANGED db

\* A request is answered or given up in time.
Meanwhile == Later /\ \A w \in Workers : db.flight[w] # NoFlight => world.now - db.flight[w].since < Patience

ProvidersNext == Meanwhile
  \/ \E w \in Workers :
       \/ \E of \in world.service : \E keys \in Questions(of) : Ask(w, of, keys)
       \/ \E what \in {"whole", "part", "nothing", "failed"}, found \in SUBSET Keys : Arrive(w, what, found)

\* Whatever several workers ask at once: nobody is told what is older than it may be, a
\* failure is told to who met it, a full cache stays within its limit, and no minute has too
\* many requests.
AnswersAreFresh ==
  /\ \A w \in Workers :
       LET answer == db.told[w]
       IN /\ answer.age < Ttl + IF world.service = {"videos"} THEN Patience ELSE 0
          /\ answer.what = "failed" => ~answer.kept
  /\ \A of \in world.service : Providers[of].room # "grown" => Cardinality(db.cache[of]) <= CacheCap
  /\ \A i \in DOMAIN db.requests :
       /\ i > Rate => db.requests[i] - db.requests[i - Rate] >= Minute
       /\ world.service = {"gifs"} /\ i > 1 => db.requests[i] - db.requests[i - 1] >= Apart

-----------------------------------------------------------------------------
(* The weather's warnings of a place, in America from one service, elsewhere from a      *)
(* country's feed, some of which name cells that the place's has to be looked up for.    *)

CONSTANTS FeedTtl, CellTtl

WarningsAssumption == FeedTtl \in Nat \ {0} /\ CellTtl \in Nat

(* db: the warnings kept for places, the feed, and the cells of places, each with when   *)
(* it was kept and, for warnings, when the feed they are of was; what each worker waits  *)
(* for; and what each was told last.                                                     *)

WarningsInit == \E american \in SUBSET Keys :
  /\ db = [cache |-> {}, feed |-> {}, cells |-> {}, flight |-> [w \in Workers |-> NoFlight],
           told |-> [w \in Workers |-> Untold]]
  /\ world = [american |-> american, now |-> 0, asked |-> 0]

Warnings(key, what, made) == [key |-> key, what |-> what, at |-> world.now, made |-> made]

Heard(d, w, e, kept) ==
  [d EXCEPT !.flight[w] = NoFlight, !.told[w] = [what |-> e.what, age |-> world.now - e.made, kept |-> kept]]

\* alerts: whatever they are they are kept, a part of them too.
Settled(d, w, key, what, made) ==
  LET warnings == Warnings(key, what, made)
  IN {Heard([d EXCEPT !.cache = cache], w, warnings, FALSE) : cache \in Stored(d.cache, {warnings}, "tidied")}

Wait(d, w, key, for, made) ==
  [d EXCEPT !.flight[w] = [key |-> key, for |-> for, made |-> made, since |-> world.now]]

\* By the country's warnings: the cell of the place is needed if one of them names cells.
ByFeed(d, w, key, made) ==
  Settled(d, w, key, "whole", made)
    \cup IF \E e \in Fresh(d.cells, CellTtl) : e.key = key THEN {} ELSE {Wait(d, w, key, "cell", made)}

\* A mutant: the feed is kept as long as what was read from it.
FeedByAnswers == Fresh(db.feed, Ttl)

Feed == Fresh(db.feed, FeedTtl)

AskWarnings(w, key) ==
  LET kept == {e \in Fresh(db.cache, Ttl) : e.key = key}
  IN /\ db.flight[w] = NoFlight /\ world.asked < MaxAsked
     /\ world' = [world EXCEPT !.asked = @ + 1]
     /\ \/ \E e \in kept : db' = Heard(db, w, e, TRUE)
        \/ kept = {} /\ key \in world.american /\ db' = Wait(db, w, key, "warnings", world.now)
        \/ kept = {} /\ key \notin world.american /\ Feed = {} /\ db' = Wait(db, w, key, "feed", world.now)
        \/ kept = {} /\ key \notin world.american /\ \E f \in Feed : db' \in ByFeed(db, w, key, f.at)

\* What is waited for comes, or fails and the warnings are a part only.
ArriveWarnings(w, comes) ==
  LET flight == db.flight[w]
      key == flight.key
      what == IF comes THEN "whole" ELSE "part"
      entry == [key |-> key, at |-> world.now]
  IN /\ flight # NoFlight /\ UNCHANGED world
     /\ \/ flight.for = "warnings" /\ db' \in Settled(db, w, key, what, world.now)
        \/ flight.for = "feed" /\ comes /\ db' \in ByFeed([db EXCEPT !.feed = {entry}], w, key, world.now)
        \/ flight.for = "feed" /\ ~comes /\ db' \in Settled(db, w, key, what, world.now)
        \/ flight.for = "cell" /\ comes /\ \E cells \in Stored(db.cells, {entry}, "cleared") :
                                             db' \in Settled([db EXCEPT !.cells = cells], w, key, what, flight.made)
        \/ flight.for = "cell" /\ ~comes /\ db' \in Settled(db, w, key, what, flight.made)

WarningsNext == Meanwhile
  \/ \E w \in Workers : \/ \E key \in Keys : AskWarnings(w, key)
                        \/ \E comes \in BOOLEAN : ArriveWarnings(w, comes)

\* Nobody is told warnings that are older than they, their feed and a request may be together,
\* and what is kept stays within its limits.
WarningsAreFresh ==
  /\ \A w \in Workers : db.told[w].age < Ttl + FeedTtl + Patience - 1
  /\ Cardinality(db.cache) <= CacheCap /\ Cardinality(db.cells) <= CacheCap

-----------------------------------------------------------------------------
(* Commands that look something up.                                          *)

CONSTANT Window   \* cooldown_seconds

CommandsAssumption == Window \in Nat

(* Where a command keeps when a person used it last, whether it speaks of that once or   *)
(* each time, whether it has an answer of its own when the provider fails, and whether   *)
(* it awards the first of a kind once more.                                              *)

Command(kept, warns, falls, kinds) == [kept |-> kept, warns |-> warns, falls |-> falls, kinds |-> kinds]

Search    == Command("row", "once", FALSE, FALSE)
Gif       == Command("row", "once", FALSE, FALSE)
Youtube   == Command("row", "once", FALSE, FALSE)
Wiki      == Command("row", "once", FALSE, FALSE)
Define    == Command("row", "once", FALSE, FALSE)
Translate == Command("row", "once", FALSE, FALSE)
Animal    == Command("memory", "each", FALSE, TRUE)
Tarot     == Command("memory", "once", TRUE, FALSE)

Commands == [search |-> Search, gif |-> Gif, yt |-> Youtube, wiki |-> Wiki, define |-> Define,
             translate |-> Translate, animal |-> Animal, tarot |-> Tarot]

Used == Commands[world.command]

(* db: each person's last use, 0 for none, and whether they were told to wait; the times  *)
(* they were looked something up at, since that was last forgotten; the times they were  *)
(* told to wait since the last; what they were shown, and the awards for it; and the     *)
(* kinds of animals they were awarded.                                                   *)

CommandsInit == \E command \in DOMAIN Commands :
  /\ db = [last |-> [p \in People |-> 0], warned |-> [p \in People |-> FALSE],
           lookups |-> [p \in People |-> <<>>], warnings |-> [p \in People |-> 0],
           shown |-> [p \in People |-> 0], awards |-> [p \in People |-> 0],
           kinds |-> [p \in People |-> {}]]
  /\ world = [command |-> command, now |-> 1, asked |-> 0, mishaps |-> 0]

\* A mutant: the cooldown is a moment too short.
CoolingShorter(p) == db.last[p] # 0 /\ world.now - db.last[p] < Window - 1

\* cooldown_check, cooldown_remaining
Cooling(p) == db.last[p] # 0 /\ world.now - db.last[p] < Window

\* A mutant: the person is told before it is written that they were.
ToldFirst(p) ==
  LET told == [db EXCEPT !.warnings[p] = @ + 1]
  IN <<told, [told EXCEPT !.warned[p] = TRUE]>>

\* Wait: written first that it was said, where it is said once.
TellToWait(p) ==
  LET warned == [db EXCEPT !.warned[p] = TRUE]
      told(d) == [d EXCEPT !.warnings[p] = @ + 1]
  IN IF Used.warns = "each" THEN <<told(db)>>
     ELSE IF db.warned[p] THEN <<>> ELSE <<warned, told(warned)>>

\* A mutant: the cooldown starts with the answer.
StartedLate(p, found, kind) ==
  LET asked == [db EXCEPT !.lookups[p] = Append(@, world.now)]
      shown == [asked EXCEPT !.shown[p] = @ + 1, !.last[p] = world.now, !.warned[p] = FALSE,
                             !.warnings[p] = 0]
  IN IF ~found THEN <<asked>> ELSE <<asked, shown, [shown EXCEPT !.awards[p] = @ + 1]>>

\* The cooldown starts, the host looks it up, it is shown and, last, awarded.
LookUp(p, found, kind) ==
  LET started == [db EXCEPT !.last[p] = world.now, !.warned[p] = FALSE, !.warnings[p] = 0]
      asked == [started EXCEPT !.lookups[p] = Append(@, world.now)]
      shown == [asked EXCEPT !.shown[p] = @ + 1]
      awarded == [shown EXCEPT !.awards[p] = @ + 1]
      collected == [awarded EXCEPT !.kinds[p] = @ \cup {kind}]
  IN <<started, asked>> \o (IF found \/ Used.falls THEN <<shown, awarded>> ELSE <<>>)
       \o (IF found /\ Used.kinds THEN <<collected>> ELSE <<>>)

\* on_message
Use(p, found, kind) ==
  /\ world.asked < MaxAsked
  /\ Perform(IF Cooling(p) THEN TellToWait(p) ELSE LookUp(p, found, kind),
             [world EXCEPT !.asked = @ + 1])

Forget(people) ==
  /\ db' = [db EXCEPT !.last = [p \in People |-> IF p \in people THEN 0 ELSE @[p]],
              !.warned = [p \in People |-> p \notin people /\ @[p]],
              !.lookups = [p \in People |-> IF p \in people THEN <<>> ELSE @[p]],
              !.warnings = [p \in People |-> IF p \in people THEN 0 ELSE @[p]]]
  /\ UNCHANGED world

\* data_delete, or a reload where they are in memory.
ForgetUse ==
  \/ Used.kept = "row" /\ \E p \in People : db.last[p] # 0 /\ Forget({p})
  \/ Used.kept = "memory" /\ Forget(People)

CommandsNext == Later \/ ForgetUse
  \/ \E p \in People, found \in BOOLEAN, kind \in Keys : Use(p, found, kind)

\* However a handler is cut short, what a person has looked up is a cooldown apart unless it
\* was forgotten, they are told once where it is said once, and only what they were shown is
\* awarded.
CommandsAreFair == \A p \in People :
  /\ \A i \in DOMAIN db.lookups[p] : i > 1 => db.lookups[p][i] - db.lookups[p][i - 1] >= Window
  /\ Used.warns = "once" => db.warnings[p] <= 1
  /\ db.awards[p] <= db.shown[p] /\ Cardinality(db.kinds[p]) <= db.awards[p]

-----------------------------------------------------------------------------
(* Titles of what was posted in a channel, where they are wanted.            *)

CONSTANTS
  PerLine,   \* max_links_per_message, max_per_message
  Remembered \* seen_cache_size, MAX_REMEMBERED

TitlesAssumption == PerLine \in Nat /\ Remembered \in Nat \ {0}

(* db: what was seen, in order (a row for videos, memory for pages); what was told of;   *)
(* and how much was seen in all, a memory that was cleared counting as full.             *)

TitlesInit == \E of \in {"videos", "pages"} :
  /\ db = [seen |-> <<>>, told |-> <<>>, count |-> 0]
  /\ world = [of |-> of, now |-> 1, asked |-> 0, mishaps |-> 0]

\* A mutant: it is forgotten a moment too early.
RecentLess(e) == world.now - e.at < Window - 1

Recent(e) == IF world.of = "videos" /\ Window # 0 THEN world.now - e.at <= Window ELSE world.now - e.at < Window

Has(seen, id) == \E i \in DOMAIN seen : seen[i].id = id

See(d, id) == [d EXCEPT !.seen = Append(@, [id |-> id, at |-> world.now]), !.count = @ + 1]

Tell(d, id, n) == [d EXCEPT !.told = Append(@, [id |-> id, at |-> world.now, n |-> n])]

\* A mutant: the newest goes when there are too many.
OldestKept(seen) == IF Len(seen) > Remembered THEN SubSeq(seen, 1, Remembered) ELSE seen

Newest(seen) == IF Len(seen) > Remembered THEN SubSeq(seen, Len(seen) - Remembered + 1, Len(seen)) ELSE seen

\* Videos: all are looked up, count as seen whatever comes of it, and are told in one line.
Announce(ids, found) ==
  LET kept == SelectSeq(db.seen, Recent)
      new == SelectSeq(ids, LAMBDA id : ~Has(kept, id))
      all == FoldLeft(See, [db EXCEPT !.seen = kept], new)
      seen == [all EXCEPT !.seen = Newest(@)]
      shown == SelectSeq([i \in DOMAIN new |-> i], LAMBDA i : new[i] \in found)
  IN IF new = <<>> THEN <<>>
     ELSE <<seen>> \o
          IF shown = <<>> THEN <<>>
          ELSE <<FoldLeft(LAMBDA d, i : Tell(d, new[i], db.count + i), seen, shown)>>

\* Pages: one after the other; a full memory is tidied up or cleared.
Cleared(d) ==
  LET fresh == SelectSeq(d.seen, Recent)
  IN IF Len(d.seen) < Remembered THEN d
     ELSE IF Len(fresh) < Remembered THEN [d EXCEPT !.seen = fresh]
     ELSE [d EXCEPT !.seen = <<>>, !.count = @ + Remembered]

Title(states, id, found) ==
  LET d == IF states = <<>> THEN db ELSE Last(states)
      cleared == Cleared(d)
      seen == See([cleared EXCEPT !.seen = SelectSeq(@, LAMBDA e : e.id # id)], id)
  IN IF Has(SelectSeq(d.seen, Recent), id) THEN states
     ELSE states \o <<seen>> \o IF id \in found THEN <<Tell(seen, id, seen.count)>> ELSE <<>>

TitleAll(ids, found) == FoldLeft(LAMBDA states, id : Title(states, id, found), <<>>, ids)

\* on_message: the first links of a line, each once.
Posted(ids, found) ==
  /\ world.asked < MaxAsked
  /\ Perform(IF world.of = "videos" THEN Announce(ids, found) ELSE TitleAll(ids, found),
             [world EXCEPT !.asked = @ + 1])

ForgetTitles ==
  /\ world.of = "pages" /\ db.seen # <<>>
  /\ db' = [db EXCEPT !.seen = <<>>, !.count = @ + Remembered] /\ UNCHANGED world

Lines == UNION {{ids \in [1..n -> Keys] : IsInjective(ids)} : n \in 1..PerLine}

TitlesNext == Later \/ ForgetTitles
  \/ \E ids \in Lines : \E found \in SUBSET Range(ids) : Posted(ids, found)

\* What was told once is not told again within the window, whatever is cut short, unless as
\* much else as is remembered came between.
TitlesAreToldOnce == \A i, j \in DOMAIN db.told :
  i < j /\ db.told[i].id = db.told[j].id =>
    \/ db.told[j].at - db.told[i].at >= Window
    \/ db.told[j].n - db.told[i].n > Remembered

-----------------------------------------------------------------------------
(* Translations of what was said in another language, where they are wanted. *)

CONSTANTS
  HourlyLimit,  \* auto_hourly_limit
  Budget,       \* auto_daily_chars
  Lengths,      \* of lines
  Hours         \* bound: of a day

TranslationsAssumption ==
  {HourlyLimit, Budget} \subseteq Nat /\ Lengths \subseteq Nat /\ Hours \in Nat \ {0}

(* db: the counters, with their hour and day, and who opted out; who was told that their *)
(* lines are left alone; the hour and speaker of each translation in the channel, and    *)
(* the day and length of each sent to the provider.  world.now: the hour.                *)

TranslationsInit ==
  /\ db = [hourly |-> [at |-> 0, n |-> 0], chars |-> [at |-> 0, n |-> 0], out |-> {},
           promised |-> {}, posted |-> <<>>, sent |-> <<>>]
  /\ world = [now |-> 1, asked |-> 0, mishaps |-> 0]

Today == world.now \div Hours

\* read_counter
Read(counter, period) == IF counter.at = period THEN counter.n ELSE 0

Count(n, period) == [at |-> period, n |-> n]

\* A mutant: only what was translated is charged.
ChargedAfter(p, length, answer) ==
  LET sent == [db EXCEPT !.sent = Append(@, [day |-> Today, length |-> length])]
      charged == [sent EXCEPT !.chars = Count(Read(db.chars, Today) + length, Today)]
  IN <<sent, charged>>

\* auto_translate: charged, sent, counted, said.
Translation(p, length, answer) ==
  LET charged == [db EXCEPT !.chars = Count(Read(@, Today) + length, Today)]
      sent == [charged EXCEPT !.sent = Append(@, [day |-> Today, length |-> length])]
      counted == [sent EXCEPT !.hourly = Count(Read(@, world.now) + 1, world.now)]
      posted == [counted EXCEPT !.posted =
                   Append(@, [hour |-> world.now, broken |-> p \in db.promised])]
  IN <<charged, sent>> \o IF answer = "other" THEN <<counted, posted>> ELSE <<>>

Afford(length) ==
  Read(db.hourly, world.now) < HourlyLimit /\ Read(db.chars, Today) + length <= Budget

\* The answer may be that it is the same language after all, or fail.
SayForeign(p, length, answer) ==
  /\ world.asked < MaxAsked /\ p \notin db.out /\ Afford(length)
  /\ Perform(Translation(p, length, answer), [world EXCEPT !.asked = @ + 1])

\* handle_auto
Choose(p, included) ==
  LET chosen == [db EXCEPT !.out = IF included THEN @ \ {p} ELSE @ \cup {p}, !.promised = @ \ {p}]
  IN Perform(IF included THEN <<chosen>>
             ELSE <<chosen, [chosen EXCEPT !.promised = @ \cup {p}]>>, world)

\* data_delete takes the choice with it; what the channel spent stays.
EraseChoice(p) ==
  /\ p \in db.out
  /\ db' = [db EXCEPT !.out = @ \ {p}, !.promised = @ \ {p}] /\ UNCHANGED world

TranslationsNext == Later
  \/ \E p \in People :
       \/ \E length \in Lengths, answer \in {"same", "other"} : SayForeign(p, length, answer)
       \/ \E included \in BOOLEAN : Choose(p, included)
       \/ EraseChoice(p)

SentOn(day) == FoldSeq(LAMBDA s, sum : IF s.day = day THEN sum + s.length ELSE sum, 0, db.sent)

\* However handlers are cut short, a day's translations stay within the budget and an hour's
\* within their number, and who was told to be left alone is.
TranslationsAreLimited ==
  /\ \A day \in 0..Today : SentOn(day) <= Budget
  /\ \A hour \in 1..world.now :
       Cardinality({i \in DOMAIN db.posted : db.posted[i].hour = hour}) <= HourlyLimit
  /\ \A i \in DOMAIN db.posted : ~db.posted[i].broken

-----------------------------------------------------------------------------
(* Morning forecasts by private message.                                     *)

CONSTANTS Nicks, Nobody

(* db: a timer a person, and its plan, the nick it was asked with and who asked; who     *)
(* waits for a forecast, and the forecasts sent.  world: what the timers on their way    *)
(* say; who a nick stands for; nicks that changed hands; and who has a location.         *)

NoPlan == [nick |-> Nobody, by |-> Nobody]

ForecastsAssumption == Nobody \notin People \cup Nicks

ForecastsInit ==
  /\ db = [jobs |-> [p \in People |-> "none"], plan |-> [p \in People |-> NoPlan], told |-> {},
           waiting |-> {}]
  /\ \E holder \in [Nicks -> People] :
       world = [queue |-> {}, sent |-> [p \in People |-> NoPlan], holder |-> holder, passed |-> {},
                placed |-> People, asked |-> 0, mishaps |-> 0]

\* schedule_daily
Book(d, p, plan) == [SetTimer(d, p) EXCEPT !.plan[p] = plan]

\* next_delivery: when it is that time there next, which cannot always be told.
NextDelivery == BOOLEAN

\* handle_daily
AskDaily(p, nick) ==
  /\ world.asked < MaxAsked /\ world.holder[nick] = p /\ p \in world.placed
  /\ Perform(<<[Book(db, p, [nick |-> nick, by |-> p]) EXCEPT !.waiting = @ \cup {p}]>>,
             [world EXCEPT !.asked = @ + 1])

StopDaily(p) ==
  /\ IsPending(db, p)
  /\ Perform(<<[CancelTimer(db, p) EXCEPT !.waiting = @ \ {p}]>>, world)

Morning(p) ==
  /\ db.jobs[p] = "set" /\ p \notin world.queue
  /\ db' = [db EXCEPT !.jobs[p] = "sent"]
  /\ world' = [world EXCEPT !.queue = @ \cup {p}, !.sent[p] = db.plan[p]]

\* A mutant: the next morning is booked after a forecast only.
BookedIfTold(who, plan, weather, known) ==
  LET told == [db EXCEPT !.told = @ \cup {[to |-> who, plan |-> plan]}]
  IN IF weather THEN <<told>> \o (IF known THEN <<Book(told, who, plan)>> ELSE <<>>) ELSE <<>>

\* The forecast, if there is one, and the next morning, if it can be told when that is.
Forecast(who, plan, weather, known) ==
  LET told == IF weather THEN [db EXCEPT !.told = @ \cup {[to |-> who, plan |-> plan]}] ELSE db
  IN (IF weather THEN <<told>> ELSE <<>>) \o (IF known THEN <<Book(told, who, plan)>> ELSE <<>>)

\* on_event: for whoever the nick stands for now, and under their name.
Deliver(p, weather, known) ==
  LET plan == world.sent[p]
      who == world.holder[plan.nick]
      states == IF who \in world.placed THEN Forecast(who, plan, weather, known) ELSE <<>>
      over == [(IF states = <<>> THEN db ELSE Last(states)) EXCEPT !.waiting = @ \ {p}]
  IN PerformTimer(p, IF who = p /\ p \in world.placed /\ known THEN states ELSE Append(states, over),
                  world)

\* A nick is given up and taken by somebody else; a location is removed or set.
PassOn(nick, p) ==
  /\ world.asked < MaxAsked /\ world.holder[nick] # p
  /\ world' = [world EXCEPT !.asked = @ + 1, !.holder[nick] = p, !.passed = @ \cup {nick}]
  /\ UNCHANGED db

Move(p) ==
  /\ world.asked < MaxAsked
  /\ world' = [world EXCEPT !.asked = @ + 1,
                 !.placed = IF p \in @ THEN @ \ {p} ELSE @ \cup {p}]
  /\ UNCHANGED db

ForecastsNext == \E p \in People :
  \/ \E nick \in Nicks : AskDaily(p, nick) \/ PassOn(nick, p)
  \/ StopDaily(p) \/ Morning(p) \/ Move(p)
  \/ \E weather \in BOOLEAN, known \in NextDelivery : Deliver(p, weather, known)

\* Who waits for a forecast has its timer, whatever fails on a morning, until they cancel it,
\* have no location then, gave their nick away or the next morning cannot be told; and a
\* forecast goes to who asked for it, or to who took over the nick it was asked with.
ForecastsAreDriven ==
  /\ \A p \in db.waiting : IsDriven(p)
  /\ \A f \in db.told : f.to = f.plan.by \/ f.plan.nick \in world.passed
=============================================================================
