------------------------------- MODULE History -------------------------------
(***************************************************************************)
(* When somebody was last seen, quotes, and corrections of what one said   *)
(* (modules-src/history), for a room with a quote book and another room.   *)
(* What was said lately is lent by the host's buffer; the worker keeps the *)
(* corrected lines, which are lost with it.                                *)
(***************************************************************************)
EXTENDS Handlers, SequencesExt, FiniteSetsExt

CONSTANTS
  People,
  Texts,         \* what may be said; a correction makes one of another
  Cooldown,      \* SED_COOLDOWN_SECONDS
  Reach,         \* SED_MAX_AGE_SECONDS
  SedLines,      \* SED_HISTORY_LINES
  Owners,        \* MAX_CORRECTION_OWNERS
  Lookback,      \* QUOTE_LOOKBACK_SECONDS
  QuoteLines,    \* QUOTE_LOOKBACK_LINES
  QuoteRoom,     \* MAX_QUOTES_PER_CHANNEL
  Grace,         \* the minute by which one was seen elsewhere later
  RoomLines, RoomAge,   \* what the host's buffer holds
  MaxNow, MaxLines, MaxQueue   \* bounds

HistoryAssumption ==
  /\ {Cooldown, Reach, Lookback, Grace, RoomAge, MaxNow, MaxLines, MaxQueue} \subseteq Nat
  /\ {SedLines, Owners, QuoteLines, QuoteRoom, RoomLines} \subseteq Nat \ {0}

(* db: what each was last heard saying in each room, and where last; the book; the row of *)
(* the last correction and the lines an older version kept; cooldowns, negative once       *)
(* warned; awards; mem and cleared are the worker's memory.  world: the host's buffer, the *)
(* messages that wait, what was said, and when it was handled, the quotes ever given a     *)
(* number, the attempts to correct and the warnings since, the people who were erased.     *)

Places == {"room", "elsewhere"}
NoRecord == [what |-> "nothing"]
NoPlace == [place |-> "nowhere"]

\* The commands, as lines that are neither corrected nor quoted.
Command == "command"
Blank == "blank"   \* control characters only

\* MaxMishaps bounds what befalls the module besides, too.
Untroubled == world.mishaps + world.changes < MaxMishaps

OldQuote(p) == [id |-> 1, author |-> p, by |-> p, what |-> Blank, at |-> 0]
Start == Cooldown + 1

\* An older version kept what people said.
Init ==
  LET p == CHOOSE p \in People : TRUE IN
  /\ db = [seen |-> [c \in Places |-> [q \in People |-> NoRecord]], latest |-> [q \in People |-> NoPlace],
           book |-> [next |-> 2, quotes |-> <<OldQuote(p)>>],
           last |-> [q \in People |-> NoRecord], legacy |-> People,
           cooling |-> [q \in People |-> 0], awards |-> [q \in People |-> 0],
           mem |-> <<>>, cleared |-> {}]
  /\ world = [now |-> Start, room |-> <<>>, queue |-> <<>>, said |-> {}, heard |-> {},
              given |-> {OldQuote(p)}, tries |-> [q \in People |-> <<>>],
              warned |-> [q \in People |-> 0], erased |-> {},
              lines |-> 0, changes |-> 0, mishaps |-> 0]

-----------------------------------------------------------------------------
(* What the host lends.                                                      *)

\* A message; in the room the buffer takes it before the worker does.
Say(p, place, what, request) ==
  LET line == [by |-> p, what |-> what, at |-> world.now, no |-> world.lines + 1]
      kept == SelectSeq(world.room, LAMBDA l : l.at >= world.now - RoomAge)
      room == IF Len(kept) >= RoomLines THEN Tail(kept) ELSE kept
  IN /\ world.lines < MaxLines /\ p \notin world.erased /\ Len(world.queue) < MaxQueue
     /\ world' = [world EXCEPT !.lines = @ + 1,
          !.room = IF place = "room" THEN Append(room, line) ELSE @,
          !.said = IF place = "room" THEN @ \cup {line} ELSE @,
          !.queue = Append(@, [by |-> p, place |-> place, what |-> what, request |-> request])]
     /\ UNCHANGED db

\* recent_lines: the newest that the person said here, without commands, the oldest first.
RecentLines(p, age, limit) ==
  LET lines == SelectSeq(world.room, LAMBDA l : l.by = p /\ l.what # Command /\ l.at >= world.now - age)
  IN SubSeq(lines, Max({1, Len(lines) - limit + 1}), Len(lines))

-----------------------------------------------------------------------------
(* Corrections.                                                              *)

\* A mutant: a corrected line stays beside its correction.
UncorrectedStill(lines, corrections) == SelectSeq(lines, LAMBDA l : l.what # Blank)

\* merge_sed_candidates: lines whose time is that of a corrected one are left out.
Uncorrected(lines, corrections) ==
  SelectSeq(lines, LAMBDA l :
    l.what # Blank /\ \A i \in DOMAIN corrections : corrections[i].origin # l.at)

\* sed_candidates: the corrected lines first, then what was said, the newest first.
Candidates(p) ==
  LET known == IF p \in DOMAIN db.mem THEN db.mem[p] ELSE <<>>
      fresh == SelectSeq(known, LAMBDA c : world.now - c.at <= Reach)
      plain == Reverse(Uncorrected(RecentLines(p, Reach, 2 * SedLines), fresh))
      all == fresh \o [i \in DOMAIN plain |-> [by |-> plain[i].by, what |-> plain[i].what, at |-> plain[i].at,
                                               no |-> plain[i].no, origin |-> plain[i].at]]
  IN SubSeq(all, 1, Min({Len(all), SedLines}))

\* A mutant: a correction of a corrected line is kept beside the first.
RememberedBeside(mem, p, c) ==
  [q \in DOMAIN mem \cup {p} |->
     IF q # p THEN mem[q] ELSE IF p \in DOMAIN mem THEN <<c>> \o mem[p] ELSE <<c>>]

\* remember_correction: another owner takes the place of the stalest.
Corrected(mem, p, c) ==
  LET time(q) == IF mem[q] = <<>> THEN 0 ELSE mem[q][1].at
      stalest == CHOOSE q \in DOMAIN mem : \A o \in DOMAIN mem : time(q) <= time(o)
      full == p \notin DOMAIN mem /\ Cardinality(DOMAIN mem) >= Owners
      kept == IF full THEN DOMAIN mem \ {stalest} ELSE DOMAIN mem
      others == IF p \in DOMAIN mem
                THEN SelectSeq(mem[p], LAMBDA e : e.origin # c.origin /\ c.at - e.at <= Reach)
                ELSE <<>>
      lines == <<c>> \o others
  IN [q \in kept \cup {p} |-> IF q = p THEN SubSeq(lines, 1, Min({Len(lines), SedLines})) ELSE mem[q]]

\* Somewhat like cooldown_check, without its look at a clock that was set back.
Since(p) == world.now - (IF db.cooling[p] < 0 THEN 0 - db.cooling[p] ELSE db.cooling[p])
Cools(p) == db.cooling[p] # 0 /\ Since(p) < Cooldown

\* A mutant: an attempt counts when something was corrected.
AttemptedIfMatched(d, p, matched) == IF matched THEN [d EXCEPT !.cooling[p] = world.now] ELSE d

Attempted(d, p, matched) == [d EXCEPT !.cooling[p] = world.now]

\* handle_correction: what it writes, and the world after it; fits: the result is another
\* line, and not too long.
Correction(p, from, to, fits) ==
  LET lines == Candidates(p)
      same == {i \in DOMAIN lines : lines[i].what = from}
      matched == same # {} /\ fits
      tried == Attempted(db, p, matched)
      meant == [tried EXCEPT !.mem = Corrected(@, p, [lines[Min(same)] EXCEPT !.what = to, !.at = world.now])]
      saved == [meant EXCEPT !.last[p] = [what |-> to, at |-> world.now]]
      again == [world EXCEPT !.tries[p] = Append(@, world.now), !.warned[p] = 0]
  IN CASE lines = <<>> \/ (Cools(p) /\ db.cooling[p] < 0) -> [states |-> <<>>, then |-> world]
       [] lines # <<>> /\ Cools(p) /\ db.cooling[p] > 0 ->
            [states |-> <<[db EXCEPT !.cooling[p] = 0 - @]>>, then |-> [world EXCEPT !.warned[p] = @ + 1]]
       [] lines # <<>> /\ ~Cools(p) ->
            [states |-> IF ~matched THEN <<tried>>
                        ELSE <<tried, meant, saved, [saved EXCEPT !.awards[p] = @ + 1]>>,
             then |-> again]

-----------------------------------------------------------------------------
(* Quotes.                                                                   *)

\* A mutant: whoever said it last.
SaidByAnyone(p, wanted) ==
  LET lines == SelectSeq(world.room, LAMBDA l : l.what \in wanted)
  IN IF lines = <<>> THEN {} ELSE {Last(lines)}

\* find_said: the newest line with the words wanted, or any; of one second, the first.
Said(p, wanted) ==
  LET lines == SelectSeq(RecentLines(p, Lookback, QuoteLines),
                         LAMBDA l : l.what # Blank /\ l.what \in wanted)
  IN IF lines = <<>> THEN {} ELSE {lines[Min({i \in DOMAIN lines : lines[i].at = Last(lines).at})]}

\* A mutant: numbers go on from the largest in the book.
NextByLargest(book) == Max({0} \cup {book.quotes[i].id : i \in DOMAIN book.quotes}) + 1

NextNumber(book) == Max({1, book.next})

\* handle_quote: the end of add
Added(p, author, what) ==
  LET book == db.book
      quote == [id |-> NextNumber(book), author |-> author, by |-> p, what |-> what, at |-> world.now]
      saved == [db EXCEPT !.book = [next |-> quote.id + 1, quotes |-> Append(book.quotes, quote)]]
  IN IF Len(book.quotes) >= QuoteRoom THEN [states |-> <<>>, then |-> world]
     ELSE [states |-> <<saved, [saved EXCEPT !.awards[p] = @ + 1]>>,
           then |-> world]

\* handle_quote: of one's own words, or of what somebody said.
OwnQuote(p, what) == IF what = Blank THEN [states |-> <<>>, then |-> world] ELSE Added(p, p, what)
QuoteOf(p, target, wanted) ==
  LET lines == IF target \in world.erased THEN {} ELSE Said(target, wanted)
  IN IF lines = {} THEN [states |-> <<>>, then |-> world]
     ELSE Added(p, target, (CHOOSE l \in lines : TRUE).what)

MayDelete(quote, p, admin) == admin \/ quote.by = p \/ quote.author = p

\* handle_quote: del
Deletion(p, id, admin) ==
  LET book == db.book
      at == {i \in DOMAIN book.quotes : book.quotes[i].id = id}
      left == [book EXCEPT !.quotes = RemoveAt(@, Min(at))]
  IN IF at = {} \/ ~MayDelete(book.quotes[Min(at)], p, admin) THEN [states |-> <<>>, then |-> world]
     ELSE [states |-> <<[db EXCEPT !.book = left]>>, then |-> world]

-----------------------------------------------------------------------------
(* Sightings.                                                                *)

\* A mutant: a person was elsewhere later whatever room it was.
ElsewhereAnyway(place, p) == db.latest[p] # NoPlace

\* handle_seen: a later sighting in another room is mentioned, never named.
Elsewhere(place, p) ==
  LET latest == db.latest[p]
      here == db.seen[place][p]
  IN /\ latest # NoPlace /\ latest.place # place
     /\ here = NoRecord \/ latest.at > here.at + Grace

\* The answer to when p was seen is an award's worth if there is one from here.
Sighting(p, place, target) ==
  IF target \in world.erased \/ db.seen[place][target] = NoRecord THEN [states |-> <<>>, then |-> world]
  ELSE [states |-> <<[db EXCEPT !.awards[p] = @ + 1]>>, then |-> world]

\* save_seen, save_latest
SeenSaved(d, p, place, what) ==
  LET seen == [d EXCEPT !.seen[place][p] = [what |-> what, at |-> world.now]]
  IN <<seen, [seen EXCEPT !.latest[p] = [place |-> place, at |-> world.now]]>>

\* clear_legacy_recent, once for each speaker
LegacyCleared(d, p) ==
  LET recent == [d EXCEPT !.legacy = @ \ {p}]
      last == [recent EXCEPT !.last[p] = NoRecord]
  IN IF p \in d.cleared THEN <<>> ELSE <<recent, last, [last EXCEPT !.cleared = @ \cup {p}]>>

-----------------------------------------------------------------------------
(* on_message.                                                               *)

\* What the request of a message leads to.
Outcome(message, fits) ==
  LET request == message.request
      p == message.by
  IN CASE request.op = "correct" -> Correction(p, request.from, request.to, fits)
       [] request.op = "own" -> OwnQuote(p, request.what)
       [] request.op = "quote" -> QuoteOf(p, request.of, request.wanted)
       [] request.op = "delete" -> Deletion(p, request.id, request.admin)
       [] request.op = "seen" -> Sighting(p, message.place, request.of)
       [] OTHER -> [states |-> <<>>, then |-> world]

\* The handler writes these states in order, or is cut short; w: the world once it has begun.
Finish(states, w, heard) ==
  \E i \in 0..Len(states) :
    LET d == IF i = 0 THEN db ELSE states[i]
        cut == i < Len(states)
    IN /\ cut => Untroubled
       /\ db' = d
       /\ world' = [(IF i = 0 THEN world ELSE w) EXCEPT
                      !.queue = Tail(@), !.heard = @ \cup {heard}, !.given = @ \cup Range(d.book.quotes),
                      !.mishaps = IF cut THEN @ + 1 ELSE @]

\* The record of the message follows.
Recorded(d, message) ==
  LET seen == SeenSaved(d, message.by, message.place, message.what)
  IN IF message.request.op = "correct" THEN seen ELSE seen \o LegacyCleared(Last(seen), message.by)

Handle(fits) ==
  /\ world.queue # <<>>
  /\ LET message == Head(world.queue)
         heard == [by |-> message.by, place |-> message.place, what |-> message.what, at |-> world.now]
     IN /\ message.request.op = "correct" \/ fits
        /\ \E outcome \in {Outcome(message, fits)} :
             Finish(outcome.states \o Recorded(Last(<<db>> \o outcome.states), message), outcome.then, heard)

-----------------------------------------------------------------------------
\* A mutant: one's own quotes of others stay.
KeptOfOthers(quotes, p) == SelectSeq(quotes, LAMBDA q : q.author # p)

KeptQuotes(quotes, p) == SelectSeq(quotes, LAMBDA q : q.author # p /\ q.by # p)

\* data_delete and the host's own, after what its owner sent before has been handled (the worker
\* is asked behind it); whoever returns has another profile.  The corrected lines
\* stay in the worker's memory under the profile that is gone.
Erase(p) ==
  /\ Untroubled /\ p \notin world.erased
  /\ \A i \in DOMAIN world.queue : world.queue[i].by # p
  /\ db' = [db EXCEPT !.seen = [c \in Places |-> [@[c] EXCEPT ![p] = NoRecord]], !.latest[p] = NoPlace,
              !.book.quotes = KeptQuotes(@, p), !.last[p] = NoRecord, !.legacy = @ \ {p},
              !.cooling[p] = 0, !.awards[p] = 0]
  /\ world' = [world EXCEPT !.changes = @ + 1, !.erased = @ \cup {p},
                 !.room = SelectSeq(@, LAMBDA l : l.by # p)]

\* The module is loaded anew, or the bot starts again.
Reload(bot) ==
  /\ Untroubled
  /\ db' = [db EXCEPT !.mem = <<>>, !.cleared = {}]
  /\ world' = [world EXCEPT !.changes = @ + 1, !.room = IF bot THEN <<>> ELSE @,
                            !.queue = IF bot THEN <<>> ELSE @]

TimePasses ==
  /\ world.now < MaxNow
  /\ world' = [world EXCEPT !.now = @ + 1] /\ UNCHANGED db

OneText == CHOOSE x \in Texts : TRUE

Always ==
  \/ \E fits \in BOOLEAN : Handle(fits)
  \/ \E p \in People : Erase(p)
  \/ \E bot \in BOOLEAN : Reload(bot)
  \/ TimePasses

Talk(p, places, texts) == \E place \in places, what \in texts : Say(p, place, what, [op |-> "talk"])

\* Corrections, quotes and sightings meet in what was said only.
Corrections ==
  \/ Always
  \/ \E p \in People :
       \/ Talk(p, {"room"}, Texts)
       \/ \E x, y \in Texts : x # y /\ Say(p, "room", Command, [op |-> "correct", from |-> x, to |-> y])

QuoteRequests(p) ==
  {[op |-> "own", what |-> OneText]}
  \cup {[op |-> "quote", of |-> q, wanted |-> w] : q \in People \ {p}, w \in {Texts, Texts \ {OneText}}}
  \cup {[op |-> "delete", id |-> 2, admin |-> a] : a \in BOOLEAN}

Quoting ==
  \/ Always
  \/ \E p \in People :
       \/ Talk(p, {"room"}, {OneText})
       \/ \E request \in QuoteRequests(p) : Say(p, "room", Command, request)

Sightings ==
  \/ Always
  \/ \E p \in People :
       \/ Talk(p, Places, {OneText})
       \/ \E place \in Places, q \in People \ {p} : Say(p, place, Command, [op |-> "seen", of |-> q])

Next == Corrections \/ Quoting \/ Sightings

Spec == Init /\ [][Next]_handlerVars

-----------------------------------------------------------------------------
Quotes == Range(db.book.quotes)

\* A quote is what its author gave as their own words, or what they said here shortly before.
QuotesAreGenuine ==
  \A q \in Quotes :
    \/ q.by = q.author
    \/ \E l \in world.said : /\ l.by = q.author /\ l.what = q.what /\ l.what # Command
                             /\ l.at <= q.at /\ q.at - l.at <= Lookback

\* A number stands for one quote, also when that is gone.
NumbersAreKept ==
  /\ \A q, r \in world.given \cup Quotes : q.id = r.id => q = r
  /\ Cardinality(Quotes) = Len(db.book.quotes)

\* What is told of when somebody was seen was so, and is the latest unless a handler was cut
\* short: in this room what they said, of another only that it was later.
SightingsAreTrue ==
  \A place \in Places, p \in People \ world.erased :
    LET here == db.seen[place][p]
        at(where) == {h.at : h \in {h \in world.heard : h.by = p /\ (h.place = place) = where}}
        later == \E t \in at(FALSE) : here = NoRecord \/ t > here.at + Grace
    IN /\ here # NoRecord => [by |-> p, place |-> place, what |-> here.what, at |-> here.at] \in world.heard
       /\ Elsewhere(place, p) => later
       /\ world.mishaps = 0 => /\ (here = NoRecord) = (at(TRUE) = {})
                               /\ here # NoRecord => here.at = Max(at(TRUE))
                               /\ later => Elsewhere(place, p)

\* Only one's own lines can be corrected, each once or as it was corrected before; attempts are a
\* cooldown apart, and one is warned once.
CorrectionsAreOwn ==
  \A p \in People :
    LET lines == Candidates(p)
    IN /\ \A i \in DOMAIN lines : /\ lines[i].by = p
                                  /\ \A j \in DOMAIN lines : i # j => lines[i].no # lines[j].no
       /\ \A i \in 1..(Len(world.tries[p]) - 1) : world.tries[p][i + 1] - world.tries[p][i] >= Cooldown
       /\ world.warned[p] <= 1

\* Nothing the module stored about an erased person is left.
ErasedAreForgotten ==
  \A p \in world.erased :
    /\ \A c \in Places : db.seen[c][p] = NoRecord
    /\ db.latest[p] = NoPlace /\ db.last[p] = NoRecord /\ p \notin db.legacy
    /\ db.cooling[p] = 0 /\ db.awards[p] = 0
    /\ \A q \in Quotes : q.author # p /\ q.by # p

HistoryIsTrue ==
  /\ QuotesAreGenuine /\ NumbersAreKept /\ SightingsAreTrue /\ CorrectionsAreOwn /\ ErasedAreForgotten
==============================================================================
