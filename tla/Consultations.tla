---------------------------- MODULE Consultations ----------------------------
(***************************************************************************)
(* Questions to a language model (modules-src/ai, ai.rs), in one channel   *)
(* and by private message.  A question is let through by a cooldown and,   *)
(* in private, a daily allowance; it takes what was said lately along; the *)
(* model may ask to look one thing up before it answers.  What was said in *)
(* the channel is lent by the host's buffer, the rest is remembered by the *)
(* worker and lost with it.                                                *)
(***************************************************************************)
EXTENDS Handlers, SequencesExt, FiniteSetsExt

CONSTANTS
  People,
  Cooldown, DailyLimit, ContextLimit, MaxAge,   \* settings
  Day,            \* ticks of a day
  WebLines,       \* WEB_CONTEXT_LINES
  HostLines,      \* MAX_CONTEXT_LINES, what the host lets through
  Conversations,  \* MAX_REMEMBERED_CONVERSATIONS
  TldrLines,      \* MIN_TLDR_LINES
  RoomLines,      \* MAX_LINES_PER_CHANNEL
  MaxNow, MaxLines   \* bounds

ConsultationsAssumption ==
  \* as the settings are declared: in seconds and minutes there
  /\ Cooldown \in 0..3600 /\ DailyLimit \in 0..1000 /\ ContextLimit \in 0..30 /\ MaxAge \in 1..1440
  /\ ContextLimit <= HostLines
  /\ {WebLines, TldrLines, MaxNow, MaxLines} \subseteq Nat
  /\ {Day, HostLines, Conversations, RoomLines} \subseteq Nat \ {0}

(* db: each person's cooldown, negative once they were warned, and the private questions *)
(* of their last day; the people in transcripts of an older version; the awards; mem and *)
(* cleared are the worker's memory.  world: the host's buffer of the channel, the        *)
(* question that waits, the one that is being answered, the questions that went to the   *)
(* model, the warnings since a cooldown began, the answers given, and the lines that     *)
(* were there when a person was erased.                                                  *)

Room == "room"
Places == {Room} \cup People
Private(place) == place # Room

NoDay == [day |-> 0, count |-> 0]
Unasked == [by |-> Room]
NoJob == [by |-> Room]

\* Lines of the bot's own are kept under the asker's profile.
Line(p, what) == [by |-> p, what |-> what, at |-> world.now, no |-> world.lines + 1]

\* MaxMishaps bounds what befalls the module besides, too.
Untroubled == world.mishaps + world.changes < MaxMishaps

\* Everybody has just asked, or nobody has, and no cooldown began at 0.
Start == Cooldown + 1

Init == \E asked \in {0, Start} :
  /\ db = [cooling |-> [p \in People |-> asked], allowance |-> [p \in People |-> NoDay],
           legacy |-> [c \in Places |-> IF c = Room THEN People ELSE {}],
           awards |-> [p \in People |-> 0], mem |-> <<>>, cleared |-> {}]
  /\ world = [now |-> Start, room |-> <<>>, inbox |-> Unasked, job |-> NoJob, asked |-> <<>>,
              warned |-> [p \in People |-> 0], answered |-> [p \in People |-> 0],
              erased |-> {}, gone |-> [p \in People |-> 0],
              lines |-> 0, changes |-> 0, mishaps |-> 0]

-----------------------------------------------------------------------------
(* What was said lately.                                                     *)

\* RecentLines::record
Recorded(room, line) ==
  LET kept == SelectSeq(room, LAMBDA l : l.at >= line.at - MaxAge)
  IN Append(IF Len(kept) >= RoomLines THEN Tail(kept) ELSE kept, line)

LastOf(lines, n) == SubSeq(lines, Len(lines) - n + 1, Len(lines))
Newest(lines, n) == IF Len(lines) > n THEN LastOf(lines, n) ELSE lines

\* A mutant: what is remembered does not age.
FreshForever(lines) == lines

\* prune_context and remembered: what is not too old.
Fresh(lines) == SelectSeq(lines, LAMBDA l : l.at >= world.now - MaxAge)

\* sort_by_key, which is stable
InTime(lines) ==
  FoldLeft(LAMBDA sorted, t : sorted \o SelectSeq(lines, LAMBDA l : l.at = t), <<>>,
           [t \in 1..world.now |-> t])

\* channel_lines: without the line that is being answered.
ChannelLines(q) ==
  LET lines == Newest(Fresh(world.room), ContextLimit + 1)
      same == {i \in DOMAIN lines : lines[i].by = q.by /\ lines[i].what = q.what}
  IN IF same = {} THEN lines ELSE RemoveAt(lines, Max(same))

Remembered(place) == IF place \in DOMAIN db.mem THEN Fresh(db.mem[place]) ELSE <<>>

Context(q) ==
  LET said == IF Private(q.place) THEN Remembered(q.place)
              ELSE InTime(ChannelLines(q) \o Remembered(q.place))
  IN IF ContextLimit = 0 THEN <<>> ELSE Newest(said, ContextLimit)

\* A mutant: only the lines of a conversation are bounded, not their number.
RememberedUnbounded(mem, place, line) ==
  [c \in DOMAIN mem \cup {place} |->
     IF c # place THEN mem[c]
     ELSE Newest(Append(IF c \in DOMAIN mem THEN mem[c] ELSE <<>>, line), Max({ContextLimit, 1}))]

\* remember: a new conversation takes the place of the stalest.
WithLine(mem, place, line) ==
  LET last(c) == IF mem[c] = <<>> THEN 0 ELSE mem[c][Len(mem[c])].at
      full == place \notin DOMAIN mem /\ Cardinality(DOMAIN mem) >= Conversations
      stalest == CHOOSE c \in DOMAIN mem : \A e \in DOMAIN mem : last(c) <= last(e)
      kept == IF full THEN DOMAIN mem \ {stalest} ELSE DOMAIN mem
      lines == IF place \in DOMAIN mem THEN mem[place] ELSE <<>>
  IN [c \in kept \cup {place} |->
        IF c = place THEN Newest(Append(lines, line), Max({ContextLimit, 1})) ELSE mem[c]]

\* tldr_lines: since the asker was last there, or all when that is little.
Missed(lines, p) ==
  LET own == {i \in DOMAIN lines : lines[i].by = p}
      since == IF own = {} THEN 0 ELSE Max(own)
  IN IF Len(lines) - since >= TldrLines THEN SubSeq(lines, since + 1, Len(lines)) ELSE lines

\* valid_context
Accepted(lines) == Len(lines) <= HostLines /\ \A i \in DOMAIN lines : lines[i].what # "blank"

-----------------------------------------------------------------------------
(* A question.                                                               *)

\* Something said in the channel; blank: of control characters only.
Talk(p, what) ==
  /\ world.lines < MaxLines
  /\ world' = [world EXCEPT !.lines = @ + 1, !.room = Recorded(@, Line(p, what))]
  /\ UNCHANGED db

AskSomething(p, place, what) ==
  /\ world.inbox = Unasked /\ world.lines < MaxLines
  /\ world' = [world EXCEPT !.lines = @ + 1,
       !.room = IF Private(place) THEN @ ELSE Recorded(@, Line(p, what)),
       !.inbox = [by |-> p, place |-> place, what |-> what, no |-> world.lines + 1]]
  /\ UNCHANGED db

\* The handler writes these states in order and the world becomes w, or it is cut short.
Proceed(states, w) ==
  \E i \in 0..Len(states) :
    /\ db' = IF i = 0 THEN db ELSE states[i]
    /\ IF i = Len(states) THEN world' = w
       ELSE /\ Untroubled
            /\ world' = [w EXCEPT !.mishaps = @ + 1, !.job = NoJob, !.asked = world.asked,
                                  !.warned = world.warned]

\* clear_legacy_context
Cleared(place) ==
  IF place \in db.cleared THEN db
  ELSE [db EXCEPT !.legacy[place] = {}, !.cleared = @ \cup {place}]

\* on_message up to the cooldown: a private line is remembered, whatever becomes of it.
Noted(q) ==
  LET pruned == [Cleared(q.place) EXCEPT !.mem = [c \in DOMAIN @ |->
                   IF c = q.place /\ ContextLimit > 0 THEN Fresh(@[c]) ELSE @[c]]]
      line == [by |-> q.by, what |-> q.what, at |-> world.now, no |-> q.no]
  IN IF Private(q.place) /\ ContextLimit > 0
     THEN [pruned EXCEPT !.mem = WithLine(@, q.place, line)] ELSE pruned

\* cooldown_check
Magnitude(x) == IF x < 0 THEN 0 - x ELSE x
Cools(p) == LET left == Cooldown - (world.now - Magnitude(db.cooling[p]))
            IN left > 0 /\ left <= Cooldown

\* A mutant: the count starts anew with each cooldown.
UsedLately(p) == IF db.allowance[p].day = world.now THEN db.allowance[p].count ELSE 0

UsedToday(p) == IF db.allowance[p].day = world.now \div Day THEN db.allowance[p].count ELSE 0

\* A mutant: a question to the model is counted once it was answered.
AdmittedUncounted(d, q) == <<[d EXCEPT !.cooling[q.by] = world.now]>>

\* take_pm_allowance, cooldown_start
Admitted(d, q) ==
  LET counted == [d EXCEPT !.allowance[q.by] = [day |-> world.now \div Day, count |-> UsedToday(q.by) + 1]]
      taken == IF Private(q.place) /\ DailyLimit > 0 THEN counted ELSE d
  IN <<taken, [taken EXCEPT !.cooling[q.by] = world.now]>>

\* A mutant: the warning is not recorded.
WarnedAgain(d, p) == d

WarnedOnce(d, p) == [d EXCEPT !.cooling[p] = 0 - @]

\* on_message; extra: the lines a web search adds, tools: whether lookups are offered.
Handle(extra) ==
  LET q == world.inbox
      p == q.by
      noted == Noted(q)
      before == Context(q)
      transcript == IF ContextLimit = 0 THEN <<>> ELSE before
      missed == Missed(transcript, p)
      tldr == q.what = "tldr"
      sent == IF tldr THEN missed
              ELSE Newest(transcript, IF ContextLimit > extra THEN ContextLimit - extra ELSE 0)
      taken == [world EXCEPT !.inbox = Unasked]
      first == <<Cleared(q.place), noted>>
      cooling == Cools(p)
      refused == Private(q.place) /\ (tldr \/ (DailyLimit > 0 /\ UsedToday(p) >= DailyLimit))
  IN /\ q # Unasked /\ world.job = NoJob
     /\ \/ /\ cooling /\ db.cooling[p] < 0
           /\ Proceed(first, taken)
        \/ /\ cooling /\ db.cooling[p] > 0
           /\ Proceed(Append(first, WarnedOnce(noted, p)), [taken EXCEPT !.warned[p] = @ + 1])
        \/ /\ ~cooling /\ refused
           /\ Proceed(first, taken)
        \/ /\ ~cooling /\ ~refused
           /\ LET asks == ~tldr \/ missed # <<>>
                  job == [by |-> p, place |-> q.place, tldr |-> tldr, at |-> world.now,
                          stage |-> 1, sent |-> sent, extra |-> IF tldr THEN 0 ELSE extra]
                  note == [by |-> p, private |-> Private(q.place), at |-> world.now]
              IN Proceed(first \o Admitted(noted, q),
                   [taken EXCEPT !.warned[p] = 0,
                      !.job = IF asks THEN job ELSE NoJob,
                      !.asked = IF asks THEN Append(@, note) ELSE @])

-----------------------------------------------------------------------------
(* The answer.                                                               *)

Reaches(job) == job.stage = 2 \/ (Accepted(job.sent) /\ Len(job.sent) + job.extra <= HostLines)

\* The model asks for a lookup; long: its output is more than a line of context may have.
Lookup(long) ==
  LET job == world.job
  IN /\ job # NoJob /\ ~job.tldr /\ job.stage = 1 /\ Reaches(job)
     /\ \/ ~long /\ Accepted(job.sent) /\ Len(job.sent) + job.extra < HostLines
           /\ world' = [world EXCEPT !.job.stage = 2]
        \/ (long \/ Len(job.sent) + job.extra >= HostLines)
           /\ world' = [world EXCEPT !.job = NoJob]
     /\ UNCHANGED db

\* A mutant: answers are remembered as the bot's, under nobody's profile.
AnswerLineOfBot(job) == [by |-> Room, what |-> "answer", at |-> job.at, no |-> world.lines]

AnswerLine(job) == [by |-> job.by, what |-> "answer", at |-> job.at, no |-> world.lines]

\* The answer is said, remembered, and awarded.
Answer ==
  LET job == world.job
      kept == IF job.tldr \/ ContextLimit = 0 THEN db
              ELSE [db EXCEPT !.mem = WithLine(@, job.place, AnswerLine(job))]
  IN /\ job # NoJob /\ Reaches(job)
     /\ Proceed(<<kept, [kept EXCEPT !.awards[job.by] = @ + 1]>>,
          [world EXCEPT !.job = NoJob, !.answered[job.by] = @ + 1])

\* The provider, or the host's check of the question, fails; the asker is told so.
Fail ==
  /\ world.job # NoJob
  /\ world' = [world EXCEPT !.job = NoJob] /\ UNCHANGED db

-----------------------------------------------------------------------------
\* A mutant: only the own conversation is forgotten.
ForgottenAlone(mem, p) == Restrict(mem, DOMAIN mem \ {p})

\* forget
Forgotten(mem, p) ==
  LET left == [c \in DOMAIN mem |-> SelectSeq(mem[c], LAMBDA l : l.by # p)]
  IN Restrict(left, {c \in DOMAIN mem : left[c] # <<>>})

\* data_delete and the host's own.  The worker is asked when it has handled what waited; what
\* reaches it later under the erased profile is a matter of module DataLifecycle.
Erase(p) ==
  /\ world.job = NoJob /\ world.inbox.by # p /\ Untroubled
  /\ db' = [db EXCEPT !.cooling[p] = 0, !.allowance[p] = NoDay, !.awards[p] = 0,
              !.legacy = [c \in Places |-> @[c] \ {p}], !.mem = Forgotten(@, p)]
  /\ world' = [world EXCEPT !.changes = @ + 1, !.erased = @ \cup {p}, !.gone[p] = world.lines,
                 !.room = SelectSeq(@, LAMBDA l : l.by # p), !.warned[p] = 0, !.answered[p] = 0,
                 !.asked = SelectSeq(@, LAMBDA a : a.by # p)]

\* The module is loaded anew, or the bot starts again and its buffer and queue are empty too.
Reload(bot) ==
  /\ world.job = NoJob /\ Untroubled
  /\ db' = [db EXCEPT !.mem = <<>>, !.cleared = {}]
  /\ world' = [world EXCEPT !.changes = @ + 1, !.room = IF bot THEN <<>> ELSE @,
                            !.inbox = IF bot THEN Unasked ELSE @]

TimePasses ==
  /\ world.now < MaxNow
  /\ world' = [world EXCEPT !.now = @ + 1] /\ UNCHANGED db

Next ==
  \/ \E p \in People :
       \/ \E what \in {"talk", "blank"} : Talk(p, what)
       \/ \E place \in {Room, p}, what \in {"question", "tldr"} : AskSomething(p, place, what)
       \/ Erase(p)
  \/ \E extra \in {0, 1, WebLines} : Handle(extra)
  \/ \E long \in BOOLEAN : Lookup(long)
  \/ Answer \/ Fail
  \/ \E bot \in BOOLEAN : Reload(bot)
  \/ TimePasses

Spec == Init /\ [][Next]_handlerVars

-----------------------------------------------------------------------------
\* One person's questions to the model are a cooldown apart, and the private ones of a day
\* within the allowance, whatever is cut short; one is warned once.
QuestionsAreRationed ==
  /\ \A i, j \in DOMAIN world.asked :
       i < j /\ world.asked[i].by = world.asked[j].by => world.asked[j].at - world.asked[i].at >= Cooldown
  /\ DailyLimit > 0 => \A p \in People, day \in 0..MaxNow :
       Cardinality({i \in DOMAIN world.asked : /\ world.asked[i].by = p /\ world.asked[i].private
                                               /\ world.asked[i].at \div Day = day}) <= DailyLimit
  /\ \A p \in People : world.warned[p] <= 1

\* What is sent to the provider was said lately, is not of before its speaker was erased, fits
\* the bound, and in private is of that conversation only.
SentIsFresh ==
  world.job # NoJob =>
    LET job == world.job
    IN /\ Len(job.sent) <= ContextLimit
       /\ \A i \in DOMAIN job.sent :
            /\ job.sent[i].at >= job.at - MaxAge
            /\ job.sent[i].by \in People => job.sent[i].no > world.gone[job.sent[i].by]
            /\ Private(job.place) => job.sent[i].by = job.by

\* Nothing said before a person was erased is kept, and what is kept is bounded.
MemoryIsBounded ==
  /\ Cardinality(DOMAIN db.mem) <= Conversations
  /\ \A c \in DOMAIN db.mem : Len(db.mem[c]) <= Max({ContextLimit, 1})
  /\ \A p \in world.erased :
       /\ \A c \in Places : p \notin db.legacy[c]
       /\ \A c \in DOMAIN db.mem : \A i \in DOMAIN db.mem[c] :
            db.mem[c][i].by = p => db.mem[c][i].no > world.gone[p]
       /\ p \in DOMAIN db.mem => \A i \in DOMAIN db.mem[p] : db.mem[p][i].no > world.gone[p]

\* An award is for an answer.
AwardsAreForAnswers ==
  \A p \in People : /\ db.awards[p] <= world.answered[p]
                    /\ world.mishaps = 0 => db.awards[p] = world.answered[p]

ConsultationsAreFair ==
  QuestionsAreRationed /\ SentIsFresh /\ MemoryIsBounded /\ AwardsAreForAnswers
==============================================================================
