---------------------------- MODULE ChannelGames ----------------------------
(***************************************************************************)
(* The games of a channel that live by its durable timers.  The animal hunt*)
(* (modules-src/hunt): a timer lets an animal loose, another reminds of it,*)
(* the first to catch it is counted and awarded, and the next one is       *)
(* booked; and the hugs between people that the other may reject until a   *)
(* timer completes them.  The scrambled words (modules-src/scramble): a    *)
(* word is set by command or by itself in lively chat; its timer hints and *)
(* then reveals it, and the first to unscramble it is counted and paid.    *)
(***************************************************************************)
EXTENDS Handlers, SequencesExt

CONSTANTS
  Hunters,
  BoardSize,       \* MAX_BOARD_ENTRIES
  HugsInFlight,    \* MAX_SOCIAL_PENDING
  MaxReleases, MaxHugs, MaxHuntOrders   \* bounds

HuntAssumption == {BoardSize, HugsInFlight, MaxReleases, MaxHugs, MaxHuntOrders} \subseteq Nat

(* db: the loose animal by its number, or 0, and who missed it lately; the board; the    *)
(* awards the host counted, by animal; the hugs in flight and who may not hug yet;       *)
(* checked: the worker looked after the channel's timer lately.  world: which of the two *)
(* games, whether the channel takes part, the animals let loose so far, who claimed      *)
(* them, the hugs tried, rejected and completed, and the orders of administrators.       *)

HugIds == 1..MaxHugs
NextJob == <<"next", 0>>
ReminderJob == <<"reminder", 0>>
HugJob(id) == <<"social-hug", id>>
NoClaims == [hunted |-> 0, hugged |-> 0]

HuntInit ==
  /\ db = [animal |-> 0, missed |-> {}, board |-> [p \in Hunters |-> NoClaims], awards |-> {},
           hugs |-> {}, cooling |-> {}, checked |-> FALSE,
           jobs |-> [id \in {NextJob, ReminderJob} \cup {HugJob(id) : id \in HugIds} |-> "none"]]
  /\ world \in [game : {"hunt", "hug"}, enabled : {TRUE}, released : {0}, claimed : {{}},
                hugs : {0}, rejected : {{}}, hugged : {{}}, orders : {0}, queue : {{}},
                mishaps : {0}]

-----------------------------------------------------------------------------
(* Animals.                                                                *)

\* A mutant: only a loose animal's timer is looked after.
EnsureReminder(d) ==
  IF world.enabled /\ d.animal # 0 /\ ~IsPending(d, ReminderJob)
  THEN <<SetTimer(d, ReminderJob)>> ELSE <<>>

\* ensure_scheduled, which every command starts with where the hunt is enabled.
EnsureScheduled(d) ==
  LET id == IF d.animal # 0 THEN ReminderJob ELSE NextJob
  IN IF world.enabled /\ ~IsPending(d, id) THEN <<SetTimer(d, id)>> ELSE <<>>

After(states) == IF states = <<>> THEN db ELSE Last(states)
Counted(d, p, kind) == [d EXCEPT !.board[p][kind] = @ + 1]
OnBoard(p) == db.board[p] # NoClaims

\* The bookings that follow a claim; the reply; the award, once for an animal.
AfterClaim(d, p, n) ==
  LET booked == IF world.enabled THEN SetTimer(d, NextJob) ELSE d
  IN <<booked, booked, [booked EXCEPT !.awards = @ \cup {<<p, n>>}]>>

\* A mutant: the animal is taken away after it was counted.
ClaimCountedFirst(d, p, kind) ==
  LET quiet == CancelTimer(d, ReminderJob)
      counted == Counted(quiet, p, kind)
      gone == [counted EXCEPT !.animal = 0, !.missed = {}]
  IN <<quiet, counted, gone>> \o AfterClaim(gone, p, d.animal)

Claim(d, p, kind) ==
  LET quiet == CancelTimer(d, ReminderJob)
      gone == [quiet EXCEPT !.animal = 0, !.missed = {}]
      counted == Counted(gone, p, kind)
  IN <<quiet, gone, counted>> \o AfterClaim(counted, p, d.animal)

\* !hunt, !hug
Grab(p, kind) ==
  LET ready == EnsureScheduled(db)
      d == After(ready)
      full == ~OnBoard(p) /\ Cardinality({q \in Hunters : OnBoard(q)}) >= BoardSize
  IN \/ /\ d.animal = 0 \/ p \in d.missed \/ full
        /\ Perform(ready, world)
     \/ /\ d.animal # 0 /\ p \notin d.missed
        /\ Perform(ready \o <<[d EXCEPT !.missed = @ \cup {p}]>>, world)
     \/ /\ d.animal # 0 /\ p \notin d.missed /\ ~full
        /\ Perform(ready \o Claim(d, p, kind),
                   [world EXCEPT !.claimed = @ \cup {<<p, d.animal>>}])

\* A missed grab is forgotten after miss_lockout_seconds.
CatchBreath(p) ==
  /\ p \in db.missed /\ db' = [db EXCEPT !.missed = @ \ {p}] /\ UNCHANGED world

\* !hunt cancel
Usher ==
  LET ready == EnsureScheduled(db)
      quiet == CancelTimer(After(ready), ReminderJob)
      gone == [quiet EXCEPT !.animal = 0, !.missed = {}]
  IN /\ world.orders < MaxHuntOrders
     /\ Perform(ready \o <<quiet, gone>> \o
                (IF world.enabled /\ ~IsPending(gone, NextJob) THEN <<SetTimer(gone, NextJob)>>
                 ELSE <<>>),
                [world EXCEPT !.orders = @ + 1])

\* bootstrap_channel: ordinary chat looks after the timer, once in ten minutes.
Chat ==
  /\ world.enabled /\ ~db.checked
  /\ LET ready == EnsureScheduled(db)
     IN Perform(ready \o <<[After(ready) EXCEPT !.checked = TRUE]>>, world)

TenMinutesPass ==
  /\ db.checked /\ db' = [db EXCEPT !.checked = FALSE] /\ UNCHANGED world

\* handle_next
Release ==
  LET loose == [db EXCEPT !.animal = world.released + 1, !.missed = {}]
      booked == SetTimer(loose, ReminderJob)
  IN IF world.enabled
     THEN /\ world.released < MaxReleases
          /\ PerformTimer(NextJob, <<loose, booked, booked>>, [world EXCEPT !.released = @ + 1])
     ELSE PerformTimer(NextJob, <<>>, world)

\* handle_reminder: without an animal it books the next one.
Remind ==
  PerformTimer(ReminderJob,
    IF ~world.enabled THEN <<>>
    ELSE IF db.animal # 0 THEN <<db, SetTimer(db, ReminderJob)>>
    ELSE <<SetTimer(db, NextJob)>>, world)

Toggle ==
  /\ world.orders < MaxHuntOrders
  /\ world' = [world EXCEPT !.enabled = ~@, !.orders = @ + 1] /\ UNCHANGED db

-----------------------------------------------------------------------------
(* Hugs.                                                                   *)

InFlight(h) == ~h.over

\* !hug <nick>: a miss, or an attempt whose timer is set before it is saved.
TryHug(p, q) ==
  LET ready == EnsureScheduled(db)
      d == After(ready)
      id == world.hugs + 1
      cool == [d EXCEPT !.cooling = @ \cup {p}]
      timed == SetTimer(d, HugJob(id))
      saved == [SetTimer(cool, HugJob(id)) EXCEPT !.hugs = @ \cup {[id |-> id, from |-> p, to |-> q, over |-> FALSE]}]
  IN /\ p \notin d.cooling
     /\ \/ Perform(ready \o <<cool>>, world)
        \/ /\ p # q /\ id \in HugIds /\ Cardinality(d.hugs) < HugsInFlight
           /\ ~\E h \in d.hugs : InFlight(h) /\ (h.from = p \/ h.to = q)
           /\ Perform(ready \o <<timed, saved>>, [world EXCEPT !.hugs = id])

\* A mutant: the timer is cancelled, the hug stays on file.
KeepHug(d, h) == d

RemoveHug(d, h) == [d EXCEPT !.hugs = @ \ {h}]

\* !reject: removed and saved, then the timer is cancelled.
Reject(q) ==
  \E h \in db.hugs :
    LET ready == EnsureScheduled(db)
        removed == RemoveHug(After(ready), h)
    IN /\ InFlight(h) /\ h.to = q
       /\ Perform(ready \o <<removed, CancelTimer(removed, HugJob(h.id))>>,
                  [world EXCEPT !.rejected = @ \cup {h.id}])

\* The time to reject is over, and with it the hug's timer is due.
TimeIsUp(h) ==
  /\ h \in db.hugs /\ InFlight(h)
  /\ db' = [db EXCEPT !.hugs = (@ \ {h}) \cup {[h EXCEPT !.over = TRUE]}] /\ UNCHANGED world

\* handle_social_hug_expiry
Complete(id) ==
  LET found == {h \in db.hugs : h.id = id}
      removed == [db EXCEPT !.hugs = @ \ found]
  IN PerformTimer(HugJob(id), IF found = {} THEN <<>> ELSE <<removed, removed>>,
                  [world EXCEPT !.hugged = IF found = {} THEN @ ELSE @ \cup {id}])

CoolDown(p) ==
  /\ p \in db.cooling /\ db' = [db EXCEPT !.cooling = @ \ {p}] /\ UNCHANGED world

-----------------------------------------------------------------------------
(* data_delete, applied as it was planned; the host's counts go too.  The timers stay.   *)

Erase(p) ==
  /\ world.orders < MaxHuntOrders
  /\ db' = [db EXCEPT !.board[p] = NoClaims, !.missed = @ \ {p}, !.cooling = @ \ {p},
                      !.hugs = {h \in @ : p \notin {h.from, h.to}},
                      !.awards = {a \in @ : a[1] # p}]
  /\ world' = [world EXCEPT !.orders = @ + 1, !.claimed = {c \in @ : c[1] # p}]

\* A behaviour is about the hunt or about hugs.
Hunting == world.game = "hunt"

DueHug(id) == \A h \in db.hugs : h.id = id => h.over

HuntNext ==
  \/ /\ Hunting
     /\ \/ \E p \in Hunters, kind \in {"hunted", "hugged"} : Grab(p, kind)
        \/ \E p \in Hunters : CatchBreath(p)
        \/ Usher \/ Chat \/ TenMinutesPass \/ Toggle
        \/ Release \/ Remind \/ Send(NextJob) \/ Send(ReminderJob)
  \/ /\ ~Hunting
     /\ \/ \E p, q \in Hunters : TryHug(p, q)
        \/ \E p \in Hunters : Reject(p) \/ CoolDown(p)
        \/ \E h \in db.hugs : TimeIsUp(h)
        \/ \E id \in HugIds : Complete(id) \/ (DueHug(id) /\ Send(HugJob(id)))
  \/ \E p \in Hunters : Erase(p)

-----------------------------------------------------------------------------
(* Properties.                                                             *)

\* "One animal is claimed once": the board never counts more than the animals let loose,
\* nobody is awarded for more than the board counts, and what was claimed is counted and
\* awarded when no handler was cut short.
ClaimsAreCounted ==
  \A p \in Hunters :
    LET counted == db.board[p].hunted + db.board[p].hugged
        awarded == Cardinality({a \in db.awards : a[1] = p})
        claimed == Cardinality({c \in world.claimed : c[1] = p})
    IN /\ awarded <= counted /\ counted <= claimed
       /\ world.mishaps = 0 => awarded = claimed
       /\ \A q \in Hunters \ {p}, n \in 1..MaxReleases :
            ~(<<p, n>> \in db.awards /\ <<q, n>> \in db.awards)
       /\ MapThenSumSet(LAMBDA q : db.board[q].hunted + db.board[q].hugged, Hunters) <= world.released

\* A hug in flight has its timer, whatever is cut short; nobody sends or awaits two at
\* once; a rejected hug is not completed.
HugsAreSettled ==
  /\ \A h \in db.hugs : IsDriven(HugJob(h.id))
  /\ \A h, k \in db.hugs :
       h # k /\ InFlight(h) /\ InFlight(k) => h.from # k.from /\ h.to # k.to
  /\ world.mishaps = 0 => world.rejected \cap world.hugged = {}

HuntIsFair == ClaimsAreCounted /\ HugsAreSettled

\* As long as the channel takes part and people talk, animals come again and again, and
\* every hug in flight comes to its end.
AnimalIsBack == Hunting /\ world.enabled /\ world.released < MaxReleases => db.animal # 0
HugIsOver(id) == \A h \in db.hugs : h.id # id

-----------------------------------------------------------------------------
(* Scrambled words.                                                          *)

CONSTANTS
  Solvers,
  MaxWords, MaxSteps   \* bounds: words set, bookings of the timer

ScrambleAssumption == {MaxWords, MaxSteps, MaxMishaps} \subseteq Nat

(* db: the puzzle by its number (the worker's copy is always the same), 0 without one,   *)
(* and its booking seq; whether a pop-up may come again; each person's career; the       *)
(* ledger of brass and the awards.  world: the words set, and who solved them.           *)

NoPuzzle == [id |-> 0, hinted |-> FALSE, seq |-> 0]
Job(seq) == <<"w", seq>>

ScrambleInit ==
  /\ db = [puzzle |-> NoPuzzle, rested |-> TRUE, career |-> [p \in Solvers |-> 0],
           ledger |-> {}, awards |-> {}, jobs |-> [j \in {Job(s) : s \in 1..MaxSteps} |-> "none"]]
  /\ world = [words |-> 0, solved |-> {}, queue |-> {}, mishaps |-> 0]

\* The channel has one timer; its payload is the booking.
NoTimer(d) == [d EXCEPT !.jobs = [j \in DOMAIN @ |-> "none"]]

\* A mutant: a booking of an open word only saves it.
BookOnce(d) ==
  LET n == [d.puzzle EXCEPT !.seq = @ + 1]
      saved == [d EXCEPT !.puzzle = n]
  IN IF n.hinted THEN <<saved>> ELSE <<saved, SetTimer(NoTimer(saved), Job(n.seq))>>

\* book: saved with the next number, then the timer is set.
Book(d) ==
  LET n == [d.puzzle EXCEPT !.seq = @ + 1]
      saved == [d EXCEPT !.puzzle = n]
  IN <<saved, SetTimer(NoTimer(saved), Job(n.seq))>>

\* clear
Clear(d) ==
  LET gone == [d EXCEPT !.puzzle = NoPuzzle] IN <<gone, NoTimer(gone)>>

\* start, for !scramble (while a word is open that only shows it again): the word is noted and posted before it is saved.
Start ==
  /\ db.puzzle.id = 0 /\ world.words < MaxWords
  /\ LET noted == [db EXCEPT !.rested = FALSE]
     IN Perform(<<noted, noted>> \o Book([noted EXCEPT !.puzzle.id = world.words + 1]),
                [world EXCEPT !.words = @ + 1])

\* maybe_pop_up, in a lively channel.
PopUp == db.rested /\ Start

Rest == ~db.rested /\ db' = [db EXCEPT !.rested = TRUE] /\ UNCHANGED world

\* step: a timer of an older booking is ignored; the hint, then the reveal.
Step(seq) ==
  LET p == db.puzzle
  IN IF p.id = 0 \/ p.seq # seq THEN PerformTimer(Job(seq), <<>>, world)
     ELSE IF ~p.hinted
       THEN p.seq < MaxSteps /\ PerformTimer(Job(seq), <<db>> \o Book([db EXCEPT !.puzzle.hinted = TRUE]), world)
       ELSE LET over == Clear(db) IN PerformTimer(Job(seq), over \o <<Last(over)>>, world)

\* A mutant: the puzzle is closed when everything is paid.
SolvedPayingFirst(p) ==
  LET id == db.puzzle.id
      counted == [db EXCEPT !.career[p] = @ + 1]
      paid == [counted EXCEPT !.ledger = @ \cup {<<p, id>>}]
      awarded == [paid EXCEPT !.awards = @ \cup {<<p, id>>}]
  IN <<counted, paid, awarded>> \o Clear(awarded)

\* solved: the puzzle is closed, the career counted, the brass paid, the reply sent, the
\* achievement awarded.
Solved(p) ==
  LET over == Clear(db)
      id == db.puzzle.id
      counted == [Last(over) EXCEPT !.career[p] = @ + 1]
      paid == [counted EXCEPT !.ledger = @ \cup {<<p, id>>}]
  IN over \o <<counted, paid, paid, [paid EXCEPT !.awards = @ \cup {<<p, id>>}]>>

\* A line that unscrambles the word.
Solve(p) ==
  /\ db.puzzle.id # 0
  /\ Perform(Solved(p), [world EXCEPT !.solved = @ \cup {<<p, db.puzzle.id>>}])

\* data_delete removes the careers, the host the rest.
EraseSolver(p) ==
  /\ world.words = MaxWords
  /\ db' = [db EXCEPT !.career[p] = 0, !.ledger = {e \in @ : e[1] # p},
                      !.awards = {e \in @ : e[1] # p}]
  /\ world' = [world EXCEPT !.solved = {e \in @ : e[1] # p}]

ScrambleNext ==
  \/ Start \/ PopUp \/ Rest
  \/ \E s \in 1..MaxSteps : Step(s) \/ Send(Job(s))
  \/ \E p \in Solvers : Solve(p) \/ EraseSolver(p)

\* A word is counted and paid once, to one person; a career counts no word that somebody
\* else is paid for, and everything is paid when no handler was cut short.
WordsArePaidOnce ==
  /\ \A e, f \in db.ledger : e[2] = f[2] => e = f
  /\ MapThenSumSet(LAMBDA p : db.career[p], Solvers) <= world.words
  /\ \A p \in Solvers :
       LET paid == {e \in db.ledger : e[1] = p}
       IN /\ Cardinality(paid) <= db.career[p]
          /\ world.mishaps = 0 => Cardinality(paid) = db.career[p] /\ {e \in db.awards : e[1] = p} = paid

\* While nothing is cut short, an open word has the timer of its last booking.
WordIsDriven ==
  db.puzzle.id # 0 /\ world.mishaps = 0 => IsDriven(Job(db.puzzle.seq))

ScrambleIsFair == WordsArePaidOnce /\ WordIsDriven

\* A word nobody finds is revealed, unless a call failed.
WordIsOver == db.puzzle.id = 0 \/ world.mishaps > 0
=============================================================================
