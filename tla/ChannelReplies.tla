--------------------------- MODULE ChannelReplies ---------------------------
(***************************************************************************)
(* What the bot says to a line that was not said to it, in one channel.    *)
(* The triggers (modules-src/triggers): phrases that are answered when     *)
(* somebody says them, edited by administrators, with a cooldown for each  *)
(* trigger and one for the channel.  The birthday greetings                *)
(* (modules-src/birthdays): the first line a person says on their birthday *)
(* is answered with a greeting and some brass, once a year; the worker     *)
(* remembers for a day what it read of a profile.  The oddities            *)
(* (modules-src/oddities): once a hidden time has passed, some line of the *)
(* network unlocks an achievement that its speaker does not hold.  Karma   *)
(* (modules-src/karma): who is praised or blamed in a line.                *)
(***************************************************************************)
EXTENDS Handlers, Integers, SequencesExt, FiniteSetsExt

CONSTANTS
  Speakers, Anyone,
  Phrases,
  PhraseCap,       \* MAX_PHRASES_PER_TRIGGER
  ResponseCap,     \* MAX_RESPONSES_PER_TRIGGER
  TriggerCap,      \* MAX_TRIGGERS_PER_CHANNEL
  Cooldowns,       \* the cooldowns an administrator sets
  ChannelGap,      \* channel_cooldown_seconds
  Presets,         \* the phrases of the presets
  MaxEdits, MaxNow \* bounds

TriggersAssumption ==
  /\ Anyone \notin Speakers /\ Cooldowns \subseteq Nat /\ Presets \subseteq SUBSET Phrases
  /\ {PhraseCap, ResponseCap, TriggerCap, ChannelGap, MaxEdits, MaxNow} \subseteq Nat

(* db: the channel's triggers, in order, and when any of them was answered last.         *)
(* world.answered: each answer, its time, and whose trigger it was.                      *)

Default == CHOOSE c \in Cooldowns : \A d \in Cooldowns : c >= d

TriggersInit ==
  /\ db = [book |-> <<>>, lastAny |-> 0]
  /\ world = [now |-> 1, enabled |-> FALSE, edits |-> 0, answered |-> <<>>, mishaps |-> 0]

Position(book, phrases) ==
  LET found == {i \in DOMAIN book : book[i].phrases \cap phrases # {}}
  IN IF found = {} THEN 0 ELSE CHOOSE i \in found : \A j \in found : i <= j

New(phrases, nick) ==
  [phrases |-> phrases, responses |-> 1, nick |-> nick, cooldown |-> Default, last |-> 0]

\* A mutant: the last response goes, and the trigger stays.
DeleteOne(book, phrases, whole) ==
  LET i == Position(book, phrases)
  IN IF i = 0 THEN {} ELSE IF whole THEN {RemoveAt(book, i)}
     ELSE {[book EXCEPT ![i].responses = @ - 1]}

\* add: to the first trigger with one of the phrases, which takes the others while it has
\* room, or as a new one.
Add(book, phrases) ==
  LET i == Position(book, phrases)
      room == PhraseCap - Cardinality(book[i].phrases)
      others == phrases \ book[i].phrases
  IN IF i = 0 THEN IF Len(book) < TriggerCap THEN {Append(book, New(phrases, Anyone))} ELSE {}
     ELSE IF book[i].responses >= ResponseCap THEN {}
     ELSE {[book EXCEPT ![i].responses = @ + 1, ![i].phrases = @ \cup more] :
             more \in {m \in SUBSET others : Cardinality(m) =
                         IF Cardinality(others) <= room THEN Cardinality(others) ELSE room}}

\* delete: the trigger, or one response, and the trigger with its last one.
Delete(book, phrases, whole) ==
  LET i == Position(book, phrases)
  IN IF i = 0 THEN {}
     ELSE IF whole \/ book[i].responses = 1 THEN {RemoveAt(book, i)}
     ELSE {[book EXCEPT ![i].responses = @ - 1]}

SetNick(book, phrases, nick) ==
  LET i == Position(book, phrases) IN IF i = 0 THEN {} ELSE {[book EXCEPT ![i].nick = nick]}

SetCooldown(book, phrases, cooldown) ==
  LET i == Position(book, phrases) IN IF i = 0 THEN {} ELSE {[book EXCEPT ![i].cooldown = cooldown]}

\* preset: it replaces what answers to its phrases.
Preset(book, phrases, nick) ==
  LET others == SelectSeq(book, LAMBDA t : t.phrases \cap phrases = {})
  IN IF Len(others) >= TriggerCap THEN {} ELSE {Append(others, New(phrases, nick))}

\* handle_command, for an administrator.
Edit(books) ==
  /\ world.edits < MaxEdits
  /\ \E book \in books :
       Perform(<<[db EXCEPT !.book = book]>>, [world EXCEPT !.edits = @ + 1])

\* A mutant: only the trigger itself rests.
RestedAlone(i) == world.now - db.book[i].last >= db.book[i].cooldown

Rested(i) ==
  /\ world.now - db.book[i].last >= db.book[i].cooldown
  /\ world.now - db.lastAny >= ChannelGap

\* respond: the first trigger the line matches, if it is rested.
Respond(who, said) ==
  LET matching == {i \in DOMAIN db.book : /\ db.book[i].nick \in {Anyone, who}
                                          /\ db.book[i].phrases \cap said # {}}
      first == CHOOSE i \in matching : \A j \in matching : i <= j
  IN /\ world.enabled /\ matching # {} /\ Rested(first)
     /\ Perform(<<[db EXCEPT !.book[first].last = world.now, !.lastAny = world.now]>>,
          [world EXCEPT !.answered = Append(@,
             [at |-> world.now, to |-> who, nick |-> db.book[first].nick])])

Toggle == world' = [world EXCEPT !.enabled = ~@] /\ UNCHANGED db

TimePasses ==
  /\ world.now < MaxNow
  /\ world' = [world EXCEPT !.now = @ + 1] /\ UNCHANGED db

TriggersNext ==
  \/ \E phrases \in SUBSET Phrases \ {{}} :
       \/ Cardinality(phrases) <= PhraseCap /\ Edit(Add(db.book, phrases))
       \/ \E whole \in BOOLEAN : Edit(Delete(db.book, phrases, whole))
       \/ \E nick \in Speakers \cup {Anyone} : Edit(SetNick(db.book, phrases, nick))
       \/ \E cooldown \in Cooldowns : Edit(SetCooldown(db.book, phrases, cooldown))
  \/ \E phrases \in Presets, nick \in Speakers \cup {Anyone} : Edit(Preset(db.book, phrases, nick))
  \/ \E who \in Speakers, said \in SUBSET Phrases : Respond(who, said)
  \/ Toggle \/ TimePasses

\* Answers in the channel are its gap apart, whatever is edited between them, and each is
\* to whom its trigger answers.
AnswersAreApart ==
  world.mishaps = 0 =>
    \A i \in DOMAIN world.answered :
      /\ world.answered[i].nick \in {Anyone, world.answered[i].to}
      /\ i > 1 => world.answered[i].at - world.answered[i - 1].at >= ChannelGap

\* No sequence of edits leaves a trigger that cannot answer or is beyond its limits.
BookIsSound ==
  /\ Len(db.book) <= TriggerCap
  /\ \A i \in DOMAIN db.book :
       /\ db.book[i].responses \in 1..ResponseCap
       /\ db.book[i].phrases # {} /\ Cardinality(db.book[i].phrases) <= PhraseCap

TriggersAreSound == AnswersAreApart /\ BookIsSound

-----------------------------------------------------------------------------
(* Birthday greetings.                                                       *)

CONSTANTS
  People,
  DaysOfYear,          \* bound: the days of a year
  MaxDay, MaxChanges   \* bounds

BirthdaysAssumption == {DaysOfYear, MaxDay, MaxChanges} \subseteq Nat \ {0}

(* db: the year each person was greeted in, the brass and awards by person and year, the *)
(* greetings sent, and what the worker remembers.  world: the UTC day, and the profiles: *)
(* the birthday, 0 for none, and whether it is a day later there.                        *)

Unread == [day |-> 0, birthday |-> 0, ahead |-> 0, done |-> 0]

BirthdaysInit == \E birthdays \in [People -> 0..DaysOfYear] :
  /\ db = [greeted |-> [p \in People |-> 0], brass |-> {}, awards |-> {}, sent |-> <<>>,
           known |-> [p \in People |-> Unread]]
  /\ world = [day |-> DaysOfYear, changes |-> 0, mishaps |-> 0,
              profiles |-> [p \in People |-> [birthday |-> birthdays[p], ahead |-> 0]]]

YearOf(day) == day \div DaysOfYear
DayOf(day) == (day % DaysOfYear) + 1

\* on_message: what is remembered of today, or read now.
Known(p) ==
  IF db.known[p].day = world.day THEN db.known[p]
  ELSE [day |-> world.day, birthday |-> world.profiles[p].birthday,
        ahead |-> world.profiles[p].ahead, done |-> 0]

Said(d, p, year, brass) == [d EXCEPT !.sent = Append(@, [who |-> p, year |-> year, brass |-> brass])]

\* A mutant: the greeting goes out before its record.
GreetRecordingLast(p, year, brass) ==
  LET paid == IF brass THEN [db EXCEPT !.brass = @ \cup {<<p, year>>}] ELSE db
      sent == Said(paid, p, year, brass)
  IN <<paid, sent, [sent EXCEPT !.greeted[p] = year, !.awards = @ \cup {<<p, year>>}]>>

\* greet: brass, the record, then the greeting and the award.
Greet(p, year, brass) ==
  LET paid == IF brass THEN [db EXCEPT !.brass = @ \cup {<<p, year>>}] ELSE db
      recorded == [paid EXCEPT !.greeted[p] = year]
      sent == Said(recorded, p, year, brass)
  IN <<paid, recorded, sent, [sent EXCEPT !.awards = @ \cup {<<p, year>>}]>>

Speak(p, brass) ==
  LET known == Known(p)
      local == world.day + known.ahead
      year == YearOf(local)
      due == known.birthday # 0 /\ known.done # year /\ known.birthday = DayOf(local)
      greets == due /\ db.greeted[p] # year
      remember(d) == [d EXCEPT !.known[p] = [known EXCEPT !.done = IF due THEN year ELSE @]]
      states == IF greets THEN Greet(p, year, brass) ELSE <<>>
      last == IF greets THEN states[Len(states)] ELSE db
  IN /\ due \/ db.known[p].day # world.day
     /\ Perform(states \o <<remember(last)>>, world)

Reload == db' = [db EXCEPT !.known = [p \in People |-> Unread]] /\ UNCHANGED world

\* data_delete, with what the host keeps of the person.
Erase(p) ==
  /\ db.known[p] # Unread
  /\ db' = [db EXCEPT !.greeted[p] = 0, !.known[p] = Unread,
              !.brass = {e \in @ : e[1] # p}, !.awards = {e \in @ : e[1] # p},
              !.sent = SelectSeq(@, LAMBDA g : g.who # p)]
  /\ UNCHANGED world

\* A person edits the profile.
Change(p, birthday, ahead) ==
  /\ world.changes < MaxChanges
  /\ world.profiles[p] # [birthday |-> birthday, ahead |-> ahead]
  /\ world' = [world EXCEPT !.changes = @ + 1,
                 !.profiles[p] = [birthday |-> birthday, ahead |-> ahead]]
  /\ UNCHANGED db

NextDay == world.day < MaxDay /\ world' = [world EXCEPT !.day = @ + 1] /\ UNCHANGED db

BirthdaysNext ==
  \/ \E p \in People :
       \/ \E brass \in BOOLEAN : Speak(p, brass)
       \/ Erase(p)
       \/ \E birthday \in 0..DaysOfYear, ahead \in {0, 1} : Change(p, birthday, ahead)
  \/ Reload \/ NextDay

\* Nobody is greeted twice for one year, by a worker that forgot or after a greeting that was
\* cut short, and a greeting that speaks of brass has given it.  (A person who moves both the
\* birthday and the time zone over New Year may be greeted again.)
GreetedOnce ==
  /\ world.changes = 0 =>
       \A i, j \in DOMAIN db.sent :
         i # j => <<db.sent[i].who, db.sent[i].year>> # <<db.sent[j].who, db.sent[j].year>>
  /\ \A i \in DOMAIN db.sent :
       db.sent[i].brass => <<db.sent[i].who, db.sent[i].year>> \in db.brass
  /\ db.awards \subseteq {<<db.sent[i].who, db.sent[i].year>> : i \in DOMAIN db.sent}

-----------------------------------------------------------------------------
(* Oddities, in one network.                                                 *)

CONSTANTS
  Oddities,
  Hour, MinGap,        \* HOUR, MIN_GAP
  MaxGapMeans,         \* MAX_GAP_MEANS
  Means,               \* a week over per_week, for the values an administrator sets
  MaxFound             \* bound

OdditiesAssumption ==
  Means \subseteq Nat /\ {Hour, MinGap, MaxGapMeans, MaxFound} \subseteq Nat \ {0}

(* db: when the next one is due, 0 for never drawn; how often that was drawn; who opted  *)
(* out of achievements; and what was unlocked when, by whom, and whether they kept it.   *)

OdditiesInit ==
  /\ db = [due |-> 0, draws |-> 0, modest |-> {}, found |-> <<>>]
  /\ world = [now |-> 1, changes |-> 0, mishaps |-> 0]

\* A mutant: only the exponential draw.
GapsUnfloored(mean) ==
  0..MaxGapMeans * (IF mean - MinGap > Hour THEN mean - MinGap ELSE Hour)

\* gap: the floor, and a draw that is cut off.
Gaps(mean) ==
  MinGap..MinGap + MaxGapMeans * (IF mean - MinGap > Hour THEN mean - MinGap ELSE Hour)

Held(p) == {db.found[i].what : i \in {j \in DOMAIN db.found : db.found[j].by = p /\ db.found[j].kept}}

NextDue(d, due) == [d EXCEPT !.due = due, !.draws = @ + 1]

\* A mutant: whoever was chosen, the drop is spent.
ClaimSpent(p, what, due) ==
  IF p \in db.modest THEN <<NextDue(db, due)>>
  ELSE LET awarded == [db EXCEPT !.found =
             Append(@, [at |-> world.now, by |-> p, what |-> what, kept |-> TRUE])]
       IN <<awarded, NextDue(awarded, due)>>

\* The award, and the next time once it unlocked something: one who opted out gets nothing.
Claim(p, what, due) ==
  IF p \in db.modest THEN <<>>
  ELSE LET awarded == [db EXCEPT !.found =
             Append(@, [at |-> world.now, by |-> p, what |-> what, kept |-> TRUE])]
       IN <<awarded, NextDue(awarded, due)>>

\* on_message: the first line starts the clock; a line after the due time may be the one.
OddLine(p) ==
  \E mean \in Means : \E gap \in Gaps(mean) :
    \/ db.due = 0 /\ Perform(<<NextDue(db, world.now + gap)>>, world)
    \/ /\ db.due # 0 /\ world.now >= db.due /\ Len(db.found) < MaxFound
       /\ \E what \in Oddities \ Held(p) : Perform(Claim(p, what, world.now + gap), world)

\* Opting out, and erasure, delete what the host keeps of the person.
Wipe(p, modest) ==
  /\ world.changes < MaxChanges
  /\ db' = [db EXCEPT !.modest = modest,
              !.found = [i \in DOMAIN @ |-> [@[i] EXCEPT !.kept = @ /\ db.found[i].by # p]]]
  /\ world' = [world EXCEPT !.changes = @ + 1]

OptIn(p) == p \in db.modest /\ db' = [db EXCEPT !.modest = @ \ {p}] /\ UNCHANGED world

OdditiesNext ==
  \/ \E p \in People :
       \/ OddLine(p) \/ OptIn(p)
       \/ \E modest \in {db.modest, db.modest \cup {p}} : Wipe(p, modest)
  \/ TimePasses

\* However much is said, oddities are the floor apart, but for those whose handler was cut
\* short before it drew the next; a drop is spent only on an unlock; and nobody who kept one
\* gets it again.
OdditiesAreRare ==
  /\ Cardinality({i \in DOMAIN db.found : i > 1 /\ db.found[i].at - db.found[i - 1].at < MinGap})
       <= world.mishaps
  /\ db.draws <= Len(db.found) + 1
  /\ \A i, j \in DOMAIN db.found :
       i # j /\ db.found[i].kept /\ db.found[j].kept
         => <<db.found[i].by, db.found[i].what>> # <<db.found[j].by, db.found[j].what>>
-----------------------------------------------------------------------------
(* Karma: "bob++" and "bob--", with reasons, a tally of what each voter gave, and a  *)
(* cooldown for each pair.                                                            *)

CONSTANTS
  Window,         \* cooldown_seconds
  PairsKept,      \* MAX_COOLDOWN_ENTRIES
  ReasonsKept,    \* MAX_REASONS
  EntriesKept,    \* MAX_LEDGER_ENTRIES
  MaxVotes        \* bound

KarmaAssumption == Window \in Nat /\ {PairsKept, ReasonsKept, EntriesKept, MaxVotes} \subseteq Nat \ {0}

(* db: the people with an entry, their scores and the reasons given; the tallies of the  *)
(* positive votes; the pairs that cool down, with their last vote.  The achievements of  *)
(* the host are left out.  world.log: the votes let through; world.gone: the erased,     *)
(* until they are met again; world.evicted: a cooldown had to make room.                 *)

Pairs == {pair \in People \X People : pair[1] # pair[2]}

KarmaInit ==
  /\ db = [entries |-> {}, score |-> [p \in People |-> 0], reasons |-> [p \in People |-> <<>>],
           given |-> [pair \in Pairs |-> 0], votes |-> [pair \in Pairs |-> 0]]
  /\ world = [now |-> 1, log |-> <<>>, cast |-> 0, gone |-> {}, evicted |-> FALSE, mishaps |-> 0]

Cooling(votes) == {pair \in Pairs : votes[pair] # 0}

\* A mutant: who waits is let through at the last moment.
CoolingDownShortly(pair) == db.votes[pair] # 0 /\ world.now - db.votes[pair] < Window - 1

CoolingDown(pair) == db.votes[pair] # 0 /\ world.now - db.votes[pair] < Window

\* apply_karma: expired pairs go, and the oldest when there is no room for one more.
Cooled(pair) ==
  LET kept == {q \in Cooling(db.votes) : world.now - db.votes[q] < Window}
      oldest == CHOOSE q \in kept : \A r \in kept : db.votes[q] <= db.votes[r]
      full == pair \notin kept /\ Cardinality(kept) >= PairsKept
      stay == IF full THEN kept \ {oldest} ELSE kept
  IN [evicted |-> full,
      votes |-> [q \in Pairs |-> IF q = pair THEN world.now
                                 ELSE IF q \in stay THEN db.votes[q] ELSE 0]]

\* apply_karma: the entry, the reason, and the voter's tally, in one row.
Counted(d, pair, up, reason) ==
  LET target == pair[2]
      reasons == IF reason THEN Append(d.reasons[target], pair[1]) ELSE d.reasons[target]
      excess == IF Len(reasons) > ReasonsKept THEN Len(reasons) - ReasonsKept ELSE 0
  IN [d EXCEPT !.entries = @ \cup {target}, !.score[target] = IF up THEN @ + 1 ELSE @ - 1,
        !.reasons[target] = SubSeq(reasons, excess + 1, Len(reasons)),
        !.given[pair] = IF up THEN @ + 1 ELSE @]

\* apply_karma: nobody votes for themselves; the cooldown is written first, then the vote.
Vote(pair, up, reason) ==
  LET cooled == [db EXCEPT !.votes = Cooled(pair).votes]
      counted == Counted(cooled, pair, up, reason)
  IN /\ world.cast < MaxVotes
     /\ pair[2] \in db.entries \/ Cardinality(db.entries) < EntriesKept
     /\ ~CoolingDown(pair)
     /\ Perform(<<cooled, counted>>,
          [world EXCEPT !.cast = @ + 1, !.log = Append(@, [pair |-> pair, up |-> up, at |-> world.now]),
             !.evicted = @ \/ Cooled(pair).evicted, !.gone = @ \ {pair[1], pair[2]}])

\* A mutant: what the subject said of others stays.
KarmaErasedOnlyReceived(d, p) ==
  [d EXCEPT !.entries = @ \ {p}, !.score[p] = 0, !.reasons[p] = <<>>,
     !.given = [pair \in Pairs |-> IF p \in {pair[1], pair[2]} THEN 0 ELSE @[pair]],
     !.votes = [pair \in Pairs |-> IF p \in {pair[1], pair[2]} THEN 0 ELSE @[pair]]]

\* remove_subject_from_ledger, remove_subject_from_cooldowns.
KarmaErased(d, p) ==
  LET about(pair) == p \in {pair[1], pair[2]}
  IN [d EXCEPT !.entries = @ \ {p}, !.score[p] = 0,
        !.reasons = [q \in People |-> IF q = p THEN <<>> ELSE SelectSeq(@[q], LAMBDA v : v # p)],
        !.given = [pair \in Pairs |-> IF about(pair) THEN 0 ELSE @[pair]],
        !.votes = [pair \in Pairs |-> IF about(pair) THEN 0 ELSE @[pair]]]

\* data_delete: a ledger without entries goes, and the tallies in it.
KarmaErase(p) ==
  LET left == KarmaErased(db, p)
      row == IF left.entries = {} THEN [left EXCEPT !.given = [pair \in Pairs |-> 0]] ELSE left
  IN /\ p \in db.entries \cup {pair[1] : pair \in Cooling(db.votes)}
     /\ db' = row
     /\ world' = [world EXCEPT !.gone = @ \cup {p},
                    !.log = SelectSeq(@, LAMBDA v : p \notin {v.pair[1], v.pair[2]})]

\* A mutant: the cooldowns of votes about the person are not told.
KarmaUntoldAsVoter(p) ==
  /\ p \notin db.entries /\ \A q \in People : p \notin Range(db.reasons[q])
  /\ \A pair \in Pairs : pair[1] = p => db.given[pair] = 0 /\ db.votes[pair] = 0

\* data_export has nothing to tell: no entry, no reason and no tally the person gave, and no
\* cooldown the person is in.
KarmaUntold(p) ==
  /\ p \notin db.entries /\ \A q \in People : p \notin Range(db.reasons[q])
  /\ \A pair \in Pairs : /\ pair[1] = p => db.given[pair] = 0
                         /\ p \in {pair[1], pair[2]} => db.votes[pair] = 0

KarmaNext ==
  \/ \E pair \in Pairs, up, reason \in BOOLEAN : Vote(pair, up, reason)
  \/ \E p \in People : KarmaErase(p)
  \/ TimePasses

\* Two votes of one pair that counted are a cooldown apart, unless the cooldown of the
\* first was dropped for room, or a vote was cut short.
VotesAreApart ==
  ~world.evicted /\ world.mishaps = 0 =>
    \A i, j \in DOMAIN world.log :
      i < j /\ world.log[i].pair = world.log[j].pair
        => world.log[j].at - world.log[i].at >= Window

\* A tally is of votes that counted; its target has an entry, so that dropping an empty
\* ledger loses nobody's tallies.
TalliesAreTrue ==
  \A pair \in Pairs :
    LET ups == Quantify(DOMAIN world.log, LAMBDA i : world.log[i].pair = pair /\ world.log[i].up)
    IN /\ db.given[pair] > 0 => pair[2] \in db.entries
       /\ world.mishaps = 0 => db.given[pair] = ups
       /\ db.given[pair] <= ups

\* Nothing in the channel is about a person who was erased.
NoTraceIsLeft ==
    \A p \in world.gone :
      /\ p \notin db.entries /\ db.score[p] = 0 /\ db.reasons[p] = <<>>
      /\ \A q \in People : \A i \in DOMAIN db.reasons[q] : db.reasons[q][i] # p
      /\ \A pair \in Pairs : p \in {pair[1], pair[2]} => db.given[pair] = 0 /\ db.votes[pair] = 0

\* Who is told that nothing is stored about them has nothing an erasure would remove, a tally
\* of what others gave them neither.
NothingIsKeptUntold == \A p \in People : KarmaUntold(p) => KarmaErased(db, p) = db

KarmaIsFair == VotesAreApart /\ TalliesAreTrue /\ NoTraceIsLeft /\ NothingIsKeptUntold
=============================================================================
