------------------------------- MODULE Tallies -------------------------------
(***************************************************************************)
(* Who talks in one channel (modules-src/stats).  Lines are counted in the *)
(* worker's memory and saved a batch at a time; saved counts earn          *)
(* achievements, a page for the website, and a digest once a week.  People *)
(* may ask not to be counted.                                              *)
(***************************************************************************)
EXTENDS Handlers, SequencesExt, FiniteSetsExt

CONSTANTS
  People,
  WeekDays,          \* days of a week
  StreakDays,        \* days of talk that earn a streak
  DaysKept,          \* PERSON_DAYS
  BatchLines,        \* FLUSH_AFTER_LINES
  FirstDay, MaxDay, MaxLines, MaxChanges   \* bounds

TalliesAssumption ==
  {WeekDays, StreakDays, DaysKept, BatchLines, FirstDay, MaxDay, MaxLines, MaxChanges} \subseteq Nat \ {0}

(* db: the saved rows of people, the channel's row, who is not counted, the people on    *)
(* the public page, what was awarded, the digests posted, and the jobs, the digest's     *)
(* with the day it is due.  db.mem is the worker's memory: the rows of a batch, the      *)
(* progress to award, and what it knows of the page and the digest; the cached set of    *)
(* the uncounted follows its rows and is left out, as are hours and kinds of lines.      *)
(* world.said: the lines a person was counted for by day, since they were last           *)
(* forgotten; world.ever: since they were erased.                                        *)

Days == FirstDay..MaxDay
WeekOf(day) == day \div WeekDays
NoWeek == [week |-> 0, lines |-> 0]
NoRow == [lines |-> 0, last |-> 0, streak |-> 0, days |-> <<>>, this |-> NoWeek, before |-> NoWeek]
NoProgress == [lines |-> 0, streaks |-> {}]
NoMemory == [rows |-> <<>>, progress |-> [p \in People |-> NoProgress], lines |-> 0, channel |-> 0,
             touched |-> FALSE, published |-> FALSE, booked |-> FALSE]

\* Settings are those of one feature at a time.
Init == \E on \in {{"digest"}, {"page"}} :
  /\ db = [rows |-> [p \in People |-> NoRow], channel |-> [lines |-> 0, digest |-> 0],
           private |-> {}, page |-> {}, awards |-> [p \in People |-> NoProgress], digests |-> <<>>,
           jobs |-> [id \in {"flush", "digest"} |-> "none"], due |-> 0, mem |-> NoMemory]
  /\ world = [day |-> FirstDay, on |-> on, queue |-> {}, mishaps |-> 0,
              lines |-> 0, changes |-> 0, said |-> [p \in People |-> [d \in Days |-> 0]],
              ever |-> [p \in People |-> 0]]

-----------------------------------------------------------------------------
(* A line is counted.                                                        *)

\* A mutant: a second line of a day counts for the streak.
StreakByLine(row, day) == IF row.last \in {day - 1, day} THEN row.streak + 1 ELSE 1

\* record: the days talked in a row.
Streak(row, day) ==
  IF row.last = day THEN row.streak ELSE IF row.last = day - 1 THEN row.streak + 1 ELSE 1

\* A mutant: the week before may be any week.
WeekBeforeAny(row, week) == row.this

\* record: a new week moves the last one aside, if it was the week before.
WeekBefore(row, week) == IF row.this.week = week - 1 THEN row.this ELSE NoWeek

\* record, bump_day
Recorded(row, day) ==
  LET week == WeekOf(day)
      new == row.this.week # week
      known == {d \in DOMAIN row.days : d > day - DaysKept}
  IN [lines |-> row.lines + 1, last |-> day, streak |-> Streak(row, day),
      days |-> [d \in known \cup {day} |-> IF d \notin DOMAIN row.days THEN 1
                                           ELSE IF d = day THEN row.days[d] + 1 ELSE row.days[d]],
      this |-> IF new THEN [week |-> week, lines |-> 1] ELSE [row.this EXCEPT !.lines = @ + 1],
      before |-> IF new THEN WeekBefore(row, week) ELSE row.before]

\* count_line: a person's row is read when they are first met in a batch.
RowOf(p) == IF p \in DOMAIN db.mem.rows THEN db.mem.rows[p] ELSE db.rows[p]

Counted(p) ==
  LET day == world.day
      row == Recorded(RowOf(p), day)
      streak == RowOf(p).last # day /\ row.streak % StreakDays = 0
  IN [db EXCEPT !.mem.rows = [q \in DOMAIN @ \cup {p} |-> IF q = p THEN row ELSE @[q]],
        !.mem.progress[p] = [lines |-> @.lines + 1,
                             streaks |-> IF streak THEN @.streaks \cup {day} ELSE @.streaks],
        !.mem.lines = @ + 1, !.mem.channel = @ + 1, !.mem.touched = TRUE]

\* next_digest_at
NextMonday(day) == (WeekOf(day) + 1) * WeekDays

\* schedule_digest
DigestBooked(d) == [SetTimer(d, "digest") EXCEPT !.due = NextMonday(world.day)]

\* ensure_digest: a booking is trusted for an hour; stale: that hour is over.
Ensured(d, stale) ==
  IF "digest" \in world.on /\ (stale \/ ~d.mem.booked)
  THEN [DigestBooked(d) EXCEPT !.mem.booked = TRUE] ELSE d

-----------------------------------------------------------------------------
(* A batch is saved.                                                         *)

\* people_in, public_snapshot
PageOf(d) == {p \in People : d.rows[p] # NoRow} \ d.private

\* maybe_publish: rebuilt at most every ten minutes; late: those are over.
Published(d, late) ==
  IF ~late /\ d.mem.published THEN d
  ELSE [d EXCEPT !.mem.published = TRUE, !.page = IF "page" \in world.on THEN PageOf(d) ELSE {}]

Awarded(d, progress) ==
  [d EXCEPT !.awards = [p \in People |-> [lines |-> @[p].lines + progress[p].lines,
                                          streaks |-> @[p].streaks \cup progress[p].streaks]]]

\* A mutant: awards go out before the rows are saved.
FlushAwardsFirst(d, late) ==
  LET taken == [d EXCEPT !.mem.rows = <<>>, !.mem.progress = NoMemory.progress,
                  !.mem.lines = 0, !.mem.channel = 0, !.mem.touched = FALSE]
      awarded == Awarded(taken, d.mem.progress)
      people == [awarded EXCEPT !.rows = d.mem.rows @@ @]
      saved == [people EXCEPT !.channel.lines = @ + d.mem.channel]
  IN <<taken, awarded, people, saved, IF d.mem.touched THEN Published(saved, late) ELSE saved>>

\* flush: the batch leaves the memory, is saved, earns its awards, and changes the page.
Flush(d, late) ==
  LET taken == [d EXCEPT !.mem.rows = <<>>, !.mem.progress = NoMemory.progress,
                  !.mem.lines = 0, !.mem.channel = 0, !.mem.touched = FALSE]
      people == [taken EXCEPT !.rows = d.mem.rows @@ @]
      saved == [people EXCEPT !.channel.lines = @ + d.mem.channel]
      awarded == Awarded(saved, d.mem.progress)
  IN <<taken, people, saved, awarded, IF d.mem.touched THEN Published(awarded, late) ELSE awarded>>

\* A mutant: the flush of a batch is never booked.
FlushUnbooked(d) == d

\* count_line: the first line of a batch books its flush.
FlushBooked(d) == SetTimer(d, "flush")

\* on_message, count_line; full: the minute of a batch is over.
Say(p, stale, full, late) ==
  LET counted == Counted(p)
      ensured == Ensured(counted, stale)
      first == db.mem.lines = 0
      due == full \/ ensured.mem.lines >= BatchLines
      rest == IF due THEN Flush(ensured, late)
              ELSE IF first THEN <<FlushBooked(ensured)>> ELSE <<ensured>>
  IN /\ p \notin db.private
     /\ world.lines < MaxLines
     /\ first => ~full
     /\ Perform(<<counted, ensured>> \o rest,
          [world EXCEPT !.said[p][world.day] = @ + 1, !.ever[p] = @ + 1, !.lines = @ + 1])

-----------------------------------------------------------------------------
(* Digests, asking not to be counted, and the rest.                          *)

FlushDue(late) == PerformTimer("flush", Flush(db, late), world)

\* A mutant: what was posted is not remembered.
DigestPostedUnrecorded(d, week) == [d EXCEPT !.digests = Append(@, week)]

DigestPosted(d, week) == [d EXCEPT !.channel.digest = week, !.digests = Append(@, week)]

\* post_digest: not where it is switched off; last week's, unless it was posted.
PostDigest(late) ==
  LET week == WeekOf(world.day) - 1
      flushed == Flush(db, late)
      saved == flushed[Len(flushed)]
      due == saved.channel.digest < week
      recorded == [saved EXCEPT !.channel.digest = week]
      posted == IF due THEN DigestPosted(saved, week) ELSE saved
  IN IF "digest" \in world.on
     THEN PerformTimer("digest",
            flushed \o (IF due THEN <<recorded>> ELSE <<>>) \o <<posted, DigestBooked(posted)>>, world)
     ELSE PerformTimer("digest", <<[db EXCEPT !.mem.booked = FALSE]>>, world)

\* "!stats" and "!top" save what is pending before they read.
Ask(late) == db.mem.lines > 0 /\ Perform(Flush(db, late), world)

\* A mutant: what is pending of a person stays.
ForgottenSaved(d, p) == [d EXCEPT !.rows[p] = NoRow, !.page = @ \ {p}]

\* forget, and what data_delete plans.
Forgotten(d, p) ==
  [d EXCEPT !.mem.rows = Restrict(@, DOMAIN @ \ {p}), !.mem.progress[p] = NoProgress,
     !.rows[p] = NoRow, !.page = @ \ {p}]

\* cmd_private
GoPrivate(p) ==
  LET marked == [db EXCEPT !.private = @ \cup {p}]
  IN /\ p \notin db.private /\ world.changes < MaxChanges
     /\ Perform(<<marked, Forgotten(marked, p)>>,
          [world EXCEPT !.changes = @ + 1, !.said[p] = [d \in Days |-> 0]])

\* cmd_public
GoPublic(p) ==
  /\ p \in db.private
  /\ Perform(<<[db EXCEPT !.private = @ \ {p}]>>, world)

\* data_delete, and the host's own rows.
Erase(p) ==
  /\ world.ever[p] > 0 \/ p \in db.private
  /\ world.changes < MaxChanges
  /\ db' = [Forgotten(db, p) EXCEPT !.private = @ \ {p}, !.awards[p] = NoProgress]
  /\ world' = [world EXCEPT !.changes = @ + 1, !.said[p] = [d \in Days |-> 0], !.ever[p] = 0]

\* A reload or a restart: what was pending is gone.
Reload ==
  /\ db.mem # NoMemory
  /\ db' = [db EXCEPT !.mem = NoMemory]
  /\ IF db.mem.lines = 0 THEN UNCHANGED world
     ELSE world.mishaps < MaxMishaps /\ world' = [world EXCEPT !.mishaps = @ + 1]

\* A mutant: what is saved is added to what was awarded.
BackfilledOnTop(awards, row) ==
  [lines |-> awards.lines + row.lines, streaks |-> awards.streaks]

\* achievement_backfill: the awards are raised to what is saved.
Backfilled(awards, row) ==
  [lines |-> IF row.lines > awards.lines THEN row.lines ELSE awards.lines, streaks |-> awards.streaks]

\* The catalogue has a new version when the module is loaded.
Backfill ==
  /\ db.mem = NoMemory
  /\ db' = [db EXCEPT !.awards = [p \in People |-> Backfilled(@[p], db.rows[p])]]
  /\ UNCHANGED world

SwitchOff ==
  /\ world.changes < MaxChanges /\ world.on # {}
  /\ world' = [world EXCEPT !.on = {}, !.changes = @ + 1]
  /\ UNCHANGED db

TimePasses ==
  /\ world.day < MaxDay
  /\ world' = [world EXCEPT !.day = @ + 1] /\ UNCHANGED db

Next ==
  \/ \E late \in BOOLEAN :
       \/ \E p \in People, stale, full \in BOOLEAN : Say(p, stale, full, late)
       \/ FlushDue(late) \/ PostDigest(late) \/ Ask(late)
  \/ \E p \in People : GoPrivate(p) \/ GoPublic(p) \/ Erase(p)
  \/ Send("flush") \/ (world.day >= db.due /\ Send("digest"))
  \/ Reload \/ Backfill \/ SwitchOff \/ TimePasses

Spec == Init /\ [][Next]_handlerVars

-----------------------------------------------------------------------------
SaidOn(p, days) == FoldFunctionOnSet(+, 0, world.said[p], days \cap Days)
DaysOf(p) == {d \in Days : world.said[p][d] > 0}
DaysOfWeek(week) == week * WeekDays .. (week + 1) * WeekDays - 1

\* The days in a row that a person has talked, up to day.
RunOf(p, day) ==
  IF day \notin DaysOf(p) THEN 0
  ELSE CHOOSE n \in 1..(day - FirstDay + 1) :
         /\ \A i \in 0..(n - 1) : day - i \in DaysOf(p)
         /\ day - n \notin DaysOf(p)

\* The row of a person, with what is pending, says what they said since they were last
\* forgotten: how much, on which of the last days, in which week, and for how many days.
RowsAreTrue ==
  world.mishaps = 0 => \A p \in People :
    LET row == RowOf(p)
    IN IF DaysOf(p) = {} THEN row = NoRow
       ELSE LET last == Max(DaysOf(p))
            IN /\ row.lines = SaidOn(p, Days) /\ row.last = last /\ row.streak = RunOf(p, last)
               /\ row.days = [d \in {e \in DaysOf(p) : e > last - DaysKept} |-> world.said[p][d]]
               /\ row.this = [week |-> WeekOf(last), lines |-> SaidOn(p, DaysOfWeek(WeekOf(last)))]
               /\ row.before.lines = SaidOn(p, DaysOfWeek(WeekOf(last) - 1))

\* What is awarded or about to be was said and counted, whatever is cut short or lost.
AwardsAreEarned ==
  \A p \in People : db.awards[p].lines + db.mem.progress[p].lines <= world.ever[p]

\* Awards never run ahead of the rows that back them, while nobody asks to be forgotten.
AwardsAreBacked ==
  world.changes = 0 => \A p \in People : db.awards[p].lines <= db.rows[p].lines

\* Nothing about a person who asked not to be counted is kept or shown.
PrivateIsForgotten ==
  world.mishaps = 0 => \A p \in db.private :
    /\ db.rows[p] = NoRow /\ p \notin DOMAIN db.mem.rows
    /\ db.mem.progress[p] = NoProgress /\ p \notin db.page

\* A digest is of a later week than those before it; one that is booked will come, and what
\* is pending will be saved.
DigestsComeOnce ==
  /\ \A i, j \in DOMAIN db.digests : i < j => db.digests[i] < db.digests[j]
  /\ db.mem.booked => IsDriven("digest")
  /\ world.mishaps = 0 /\ db.mem.lines > 0 => IsDriven("flush")

TalliesAreTrue ==
  RowsAreTrue /\ AwardsAreEarned /\ AwardsAreBacked /\ PrivateIsForgotten /\ DigestsComeOnce
==============================================================================
