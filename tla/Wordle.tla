------------------------------- MODULE Wordle -------------------------------
(***************************************************************************)
(* The daily word and the free-play rooms (modules-src/wordle): boards in  *)
(* one shared row, each player's past answers in a row of their own, the   *)
(* leaderboard, and the brass of the host's economy.                       *)
(* There letters are left out: a guess is a word, and so is an answer.     *)
(***************************************************************************)
EXTENDS Handlers, SequencesExt

CONSTANTS
  People,
  Answers,         \* the answers of each language; "" is a board's first language
  AttemptChoices,  \* values of max_attempts_per_user
  MercyAfter,      \* MERCY_REROLL_AFTER_FAILED_DAYS
  Unlimited,       \* chances_remaining is not set
  MaxDay, MaxDeals, MaxOrders   \* bounds

WordleAssumption ==
  /\ "" \in DOMAIN Answers
  /\ AttemptChoices \subseteq Nat \ {0} /\ MercyAfter \in Nat \ {0}
  /\ Unlimited \notin Nat
  /\ {MaxDay, MaxDeals, MaxOrders, MaxMishaps} \subseteq Nat

(* db: the rows boards, free, history and stats, and the ledger of brass; of each player *)
(* also what became of the boards: dealt, the answers in order; excused, those taken     *)
(* back after failed days; refused, the days on which the board in play took no guess.   *)
(* world: the kind of room the behaviour is about (the two share nothing but the row),   *)
(* the day, the setting attempts and whether it was lowered, the orders of               *)
(* administrators (a bound) and the resets among them.                                   *)

Langs == DOMAIN Answers
NoBoard == [word |-> "", lang |-> "", day |-> 0, solved |-> FALSE, guesses |-> {},
            chances |-> Unlimited, failed |-> 0]
NoFree == [word |-> "", guesses |-> {}, used |-> <<>>]

Init ==
  /\ db = [boards |-> [p \in People |-> NoBoard], free |-> [p \in People |-> NoFree],
           history |-> [p \in People |-> <<>>],
           stats |-> [p \in People |-> [games |-> 0, wins |-> 0]], ledger |-> {},
           dealt |-> [p \in People |-> <<>>], excused |-> [p \in People |-> {}],
           refused |-> [p \in People |-> {}]]
  /\ world \in [room : {"daily", "free"}, day : {0}, attempts : AttemptChoices,
                lowered : {FALSE}, orders : {0}, resets : {0}, mishaps : {0}]

-----------------------------------------------------------------------------
(* Words.                                                                  *)

\* A mutant: past answers are not looked at.
AnyAnswer(lang, used) == Answers[lang]

\* choose_from_pool: a word not dealt recently, any word when all were.
Candidates(lang, used) ==
  LET new == Answers[lang] \ Range(used) IN IF new = {} THEN Answers[lang] ELSE new

\* A mutant: the failed answer's board goes on.
NoMercy(b) == FALSE

Mercy(b) == b.failed >= MercyAfter

\* fresh_player
FreshBoard(b, word) == [NoBoard EXCEPT !.word = word, !.lang = b.lang, !.day = world.day]

\* rollover_player: another day with the same word.
NextRound(b) == [b EXCEPT !.day = world.day, !.guesses = {}, !.chances = Unlimited]

\* What ensure_player makes of p's board: the board, the history, and whether it dealt.
Ensured(p) ==
  LET b == db.boards[p]
      h == db.history[p]
      anew(hist) == {<<FreshBoard(b, w), Append(hist, w), TRUE>> : w \in Candidates(b.lang, h)}
  IN IF b.word = "" \/ (b.solved /\ b.day # world.day) THEN anew(h)
     ELSE IF b.day = world.day THEN {<<b, h, FALSE>>}
     ELSE IF Mercy(b) THEN anew(SelectSeq(h, LAMBDA w : w # b.word))
     ELSE {<<NextRound(b), h, FALSE>>}

\* save_daily: a changed history first, then the boards.
SaveBoard(d, p, b, h, anew) ==
  LET stored == [d EXCEPT !.history[p] = h,
          !.excused[p] = IF d.boards[p].word \in Range(h) \cup {""} THEN @
                         ELSE @ \cup {d.boards[p].word}]
  IN <<stored,
       [stored EXCEPT !.boards[p] = b,
          !.dealt[p] = IF anew THEN Append(@, b.word) ELSE @,
          !.refused[p] = IF anew THEN {} ELSE @]>>

\* The bounds on the boards dealt to p and on orders.
MayDeal(p) == Len(db.dealt[p]) < MaxDeals
MayOrder == world.orders < MaxOrders
Ordered == [world EXCEPT !.orders = @ + 1]

-----------------------------------------------------------------------------
(* Commands of players.                                                    *)

\* A mutant: chances given by an administrator are forgotten.
RemainingBySetting(b) ==
  IF world.attempts > Cardinality(b.guesses) THEN world.attempts - Cardinality(b.guesses) ELSE 0

\* remaining_attempts
Remaining(b) ==
  IF b.chances # Unlimited THEN b.chances
  ELSE IF world.attempts > Cardinality(b.guesses) THEN world.attempts - Cardinality(b.guesses) ELSE 0

\* An accepted guess on the board; an unsolved last one fails the day.
Guessed(b, g) ==
  [b EXCEPT !.guesses = @ \cup {g},
            !.chances = IF @ = Unlimited \/ @ = 0 THEN @ ELSE @ - 1,
            !.solved = g = b.word,
            !.failed = IF g # b.word /\ Remaining(b) = 1 /\ @ < MercyAfter THEN @ + 1 ELSE @]

\* record_participation, and the win.
Counted(d, p, first, won) ==
  [d EXCEPT !.stats[p].games = IF first THEN @ + 1 ELSE @,
            !.stats[p].wins = IF won THEN @ + 1 ELSE @]

\* award_brass: the economy takes an event once.
Paid(d, p, b) == [d EXCEPT !.ledger = @ \cup {<<p, b.day, b.word>>}]

\* !word <word>
Guess(p, g) ==
  /\ MayDeal(p)
  /\ \E e \in Ensured(p) :
       LET b == e[1]
           shown == SaveBoard(db, p, b, e[2], e[3])
           after == Guessed(b, g)
           saved == [shown[2] EXCEPT !.boards[p] = after]
           counted == Counted(saved, p, b.guesses = {}, after.solved)
       IN Perform(
            IF g \notin Answers[b.lang] \/ b.solved THEN shown
            ELSE IF Remaining(b) = 0
              THEN <<shown[1], [shown[2] EXCEPT !.refused[p] = @ \cup {world.day}]>>
            ELSE IF g \in b.guesses THEN shown
            ELSE shown \o <<saved, counted>> \o
                 (IF after.solved THEN <<Paid(counted, p, b)>> ELSE <<>>),
            world)

\* !word, !previous
Status(p) ==
  /\ MayDeal(p)
  /\ \E e \in Ensured(p) : Perform(SaveBoard(db, p, e[1], e[2], e[3]), world)

\* !word lang <lang>: the board is replaced, and so is its day's allowance.
SetLanguage(p, lang) ==
  /\ lang # "" /\ MayOrder /\ MayDeal(p)
  /\ \E e \in Ensured(p) :
       /\ lang # e[1].lang
       /\ \E w \in Candidates(lang, e[2]) :
            LET shown == SaveBoard(db, p, e[1], e[2], e[3])
                fresh == FreshBoard([e[1] EXCEPT !.lang = lang], w)
            IN Perform(shown \o SaveBoard(shown[2], p, fresh, Append(e[2], w), TRUE), Ordered)

\* A mutant: an exhausted free board stays.
FreeOnlyOnWin(f, g) == g = f.word

FreeIsOver(f, g) == g = f.word \/ Cardinality(f.guesses) + 1 = world.attempts

\* Free play: a solved or exhausted board is replaced at once; nothing is paid.
FreeGuess(p, g) ==
  /\ \E w \in IF db.free[p].word # "" THEN {db.free[p].word} ELSE Candidates("", db.free[p].used) :
       LET f == IF db.free[p].word # "" THEN db.free[p]
                ELSE [word |-> w, guesses |-> {}, used |-> Append(db.free[p].used, w)]
           shown == [db EXCEPT !.free[p] = f]
       IN IF g \in f.guesses \/ Cardinality(f.guesses) >= world.attempts THEN Perform(<<shown>>, world)
          ELSE \E n \in Candidates("", f.used) :
                 /\ Len(f.used) < MaxDeals
                 /\ Perform(<<shown, [shown EXCEPT !.free[p] =
                      IF FreeIsOver(f, g)
                      THEN [word |-> n, guesses |-> {}, used |-> Append(f.used, n)]
                      ELSE [f EXCEPT !.guesses = @ \cup {g}]]>>, world)

-----------------------------------------------------------------------------
(* Administrators, the clock, erasure.                                     *)

\* wordle <nick> new: an English answer, whatever the board's language.
AdminNew(p) ==
  /\ MayOrder /\ MayDeal(p)
  /\ \E w \in Candidates("", db.history[p]) :
       Perform(SaveBoard(db, p, FreshBoard(db.boards[p], w), Append(db.history[p], w), TRUE), Ordered)

\* wordle <nick> chances <n>
AdminChances(p, n) ==
  /\ MayOrder
  /\ LET b == db.boards[p]
         today == IF b.day = world.day THEN b ELSE [b EXCEPT !.day = world.day, !.guesses = {}]
     IN /\ b.word # "" /\ ~b.solved
        /\ Perform(<<[db EXCEPT !.boards[p] = [today EXCEPT !.chances = n],
                                !.refused[p] = {}]>>, Ordered)

\* reset_all_players deals without the histories, which the new words replace.
UsedForReset(p) == <<>>

\* !word new
ResetAll ==
  /\ MayOrder
  /\ LET players == {p \in People : db.boards[p].word # ""}
         stored(word, done) == [db EXCEPT !.history = [p \in People |->
             IF p \in done THEN Append(UsedForReset(p), word[p]) ELSE @[p]]]
         saved(word) == [stored(word, players) EXCEPT
           !.boards = [p \in People |-> IF p \in players THEN FreshBoard(@[p], word[p]) ELSE @[p]],
           !.dealt = [p \in People |-> IF p \in players THEN Append(@[p], word[p]) ELSE @[p]],
           !.refused = [p \in People |-> IF p \in players THEN {} ELSE @[p]]]
     IN /\ \A p \in players : MayDeal(p)
        /\ \E word \in [players -> UNION {Answers[l] : l \in Langs}], done \in SUBSET players :
             /\ \A p \in players : word[p] \in Candidates(db.boards[p].lang, UsedForReset(p))
             /\ Perform(<<stored(word, done), saved(word)>>,
                        [Ordered EXCEPT !.resets = @ + 1])

SetAttempts(n) ==
  /\ n # world.attempts /\ MayOrder
  /\ world' = [Ordered EXCEPT !.attempts = n, !.lowered = @ \/ n < world.attempts]
  /\ UNCHANGED db

NextDay ==
  /\ world.day < MaxDay /\ world' = [world EXCEPT !.day = @ + 1]
  /\ UNCHANGED db

\* data_delete, applied as it was planned; DataLifecycle tells what may come between.
Erase(p) ==
  /\ MayOrder
  /\ db' = [db EXCEPT !.boards[p] = NoBoard, !.free[p] = NoFree, !.history[p] = <<>>,
                      !.stats[p] = [games |-> 0, wins |-> 0],
                      !.ledger = {e \in @ : e[1] # p},
                      !.dealt[p] = <<>>, !.excused[p] = {}, !.refused[p] = {}]
  /\ world' = Ordered

Next ==
  \/ /\ world.room = "daily"
     /\ \/ \E p \in People, g \in UNION {Answers[l] : l \in Langs} : Guess(p, g)
        \/ \E p \in People : Status(p) \/ AdminNew(p)
        \/ \E p \in People, lang \in Langs : SetLanguage(p, lang)
        \/ \E p \in People, n \in AttemptChoices : AdminChances(p, n)
        \/ ResetAll \/ NextDay
  \/ world.room = "free" /\ \E p \in People, g \in Answers[""] : FreeGuess(p, g)
  \/ \E p \in People : Erase(p)
  \/ \E n \in AttemptChoices : SetAttempts(n)

Spec == Init /\ [][Next]_handlerVars

-----------------------------------------------------------------------------
(* Properties.                                                             *)

\* Every win in the leaderboard was paid for, no board twice, unless a handler was cut
\* short; a reset that forgets the past answers may deal one of the same day again.
WinsArePaid ==
  \A p \in People :
    LET paid == Cardinality({e \in db.ledger : e[1] = p})
    IN /\ paid <= db.stats[p].wins
       /\ world.mishaps = 0 /\ world.resets = 0 => paid = db.stats[p].wins
       /\ world.mishaps = 0 => db.stats[p].wins <= db.stats[p].games

\* "After two fully exhausted daily rounds, quietly deal a replacement": nobody is turned
\* away on more days than that with one word, unless the allowance was lowered.
NobodyIsStuck ==
  ~world.lowered => \A p \in People : Cardinality(db.refused[p]) <= MercyAfter

\* A player does not meet an answer again before all of its language were dealt, except
\* one taken back unsolved, or after a reset forgot what was dealt.
AnswersAreNew ==
  world.resets = 0 =>
    \A p \in People : \A i, j \in DOMAIN db.dealt[p] :
      LET word == db.dealt[p][j]
      IN i < j /\ db.dealt[p][i] = word =>
           \/ word \in db.excused[p]
           \/ \E l \in Langs : word \in Answers[l] /\ Answers[l] \subseteq Range(db.history[p]) \cup db.excused[p]

\* A free board always takes a guess, unless the allowance fell below what was tried.
FreeBoardsAreOpen ==
  ~world.lowered => \A p \in People : Cardinality(db.free[p].guesses) < world.attempts

WordleIsFair == WinsArePaid /\ NobodyIsStuck /\ AnswersAreNew /\ FreeBoardsAreOpen
-----------------------------------------------------------------------------
(***************************************************************************)
(* The tower of the daily word: floors of ever longer words.  Four solves  *)
(* in a row lead a floor up; an exhausted puzzle costs a strike and,       *)
(* outside free play, the rest of the day; three strikes lead a floor      *)
(* down.  A guess is right, or one more miss.                              *)
(*                                                                         *)
(* What a guess tells, there and on the daily board: the mark of each of   *)
(* its letters, and what the board remembers of the answer from all        *)
(* guesses.  A behaviour is of the boards, of the tower or of one puzzle's *)
(* letters.                                                                *)
(***************************************************************************)
CONSTANTS
  Climbers,
  Lowest, Highest,                      \* TOWER_START_FLOOR, TOWER_MAX_FLOOR
  Solves, Strikes, Tries,               \* TOWER_PROMOTION_SOLVES, _MAX_STRIKES, _GUESSES
  LastDay, MaxPuzzles,                  \* bounds
  Letters, Length, NoLetter             \* of words

WordleTowerAssumption ==
  /\ {Lowest, Highest, LastDay, MaxPuzzles, MaxMishaps} \subseteq Nat /\ Lowest <= Highest
  /\ {Solves, Strikes, Tries} \subseteq Nat \ {0}

(* db: the climbers' rows and the ledger of brass.  world: the day, whether the channel  *)
(* plays freely, and of each climber what happened: the puzzles solved or exhausted, the *)
(* floors reached and lost, and the days on which a puzzle was exhausted.                *)

NewClimber == [floor |-> Lowest, best |-> Lowest, streak |-> 0, strikes |-> 0,
               misses |-> 0, answer |-> 0, locked |-> 0]

TowerInit ==
  /\ db = [tower |-> [c \in Climbers |-> NewClimber], ledger |-> {}]
  /\ world \in [day : {1}, free : BOOLEAN, puzzles : {0}, mishaps : {0},
                solved : {[c \in Climbers |-> 0]}, ups : {[c \in Climbers |-> 0]},
                downs : {[c \in Climbers |-> 0]}, ended : {[c \in Climbers |-> <<>>]}]

\* A mutant: the day's lock is taken away by the next command.
ClimbingAtOnce(t) ==
  [t EXCEPT !.locked = 0, !.answer = IF @ = 0 THEN world.puzzles + 1 ELSE @]

\* ensure_tower: the lock of a day past goes, and a puzzle is started if there is none.
\* start_tower_puzzle: an answer that was not used lately.
Climbing(t) ==
  IF t.locked > world.day THEN t
  ELSE [t EXCEPT !.locked = 0, !.answer = IF @ = 0 THEN world.puzzles + 1 ELSE @]

\* record_tower_solve, and the next puzzle.
Solved(t) ==
  LET full == t.streak + 1 >= Solves
      up == full /\ t.floor < Highest
  IN [t EXCEPT !.streak = IF full THEN 0 ELSE @ + 1,
               !.floor = IF up THEN @ + 1 ELSE @,
               !.best = IF up /\ t.floor + 1 > @ THEN t.floor + 1 ELSE @,
               !.strikes = IF up THEN 0 ELSE @,
               !.misses = 0, !.answer = world.puzzles + 2]

\* A mutant: a strike too many is kept.
ExhaustedStaying(t) ==
  [t EXCEPT !.strikes = @ + 1, !.streak = 0, !.misses = 0,
            !.answer = IF world.free THEN world.puzzles + 2 ELSE 0,
            !.locked = IF world.free THEN 0 ELSE world.day + 1]

\* An exhausted puzzle: a strike, perhaps a floor, and the run is over.
Exhausted(t) ==
  LET down == t.strikes + 1 >= Strikes
  IN [t EXCEPT !.strikes = IF down THEN 0 ELSE @ + 1,
               !.floor = IF down /\ @ > Lowest THEN @ - 1 ELSE @,
               !.streak = 0, !.misses = 0,
               !.answer = IF world.free THEN world.puzzles + 2 ELSE 0,
               !.locked = IF world.free THEN 0 ELSE world.day + 1]

\* What is paid for: the first by the answer, the second by the floor of the day.
SolveEvent(c, answer) == <<"solve", c, world.day, answer>>
PromotionEvent(c, floor) == <<"promote", c, world.day, floor>>

\* !word tower <word>, the right one: saved first, paid afterwards, freely not at all.
GuessRight(c) ==
  /\ world.puzzles < MaxPuzzles
  /\ LET t == Climbing(db.tower[c])
         s == Solved(t)
         shown == [db EXCEPT !.tower[c] = t]
         saved == [db EXCEPT !.tower[c] = s]
         solvePaid == [saved EXCEPT !.ledger = @ \cup {SolveEvent(c, t.answer)}]
         allPaid == [solvePaid EXCEPT !.ledger = @ \cup {PromotionEvent(c, s.floor)}]
     IN /\ t.locked = 0
        /\ Perform(<<shown, saved>> \o
             (IF world.free THEN <<>>
              ELSE IF s.floor > t.floor THEN <<solvePaid, allPaid>> ELSE <<solvePaid>>),
             [world EXCEPT !.puzzles = @ + 2, !.solved[c] = @ + 1,
                           !.ups[c] = @ + s.floor - t.floor])

\* Another word of the dictionary, not tried on this puzzle.
GuessWrong(c) ==
  /\ world.puzzles < MaxPuzzles
  /\ LET t == Climbing(db.tower[c])
         last == t.misses + 1 >= Tries
         s == IF last THEN Exhausted(t) ELSE [t EXCEPT !.misses = @ + 1]
     IN /\ t.locked = 0
        /\ Perform(<<[db EXCEPT !.tower[c] = t], [db EXCEPT !.tower[c] = s]>>,
             [world EXCEPT !.puzzles = IF t.answer > @ \/ last THEN @ + 2 ELSE @,
                           !.downs[c] = @ + t.floor - s.floor,
                           !.ended[c] = IF last THEN Append(@, world.day) ELSE @])

\* !word tower, or a guess while the tower is locked: the row is brought up to date.
Look(c) ==
  /\ world.puzzles < MaxPuzzles
  /\ Perform(<<[db EXCEPT !.tower[c] = Climbing(@)]>>,
             [world EXCEPT !.puzzles = IF Climbing(db.tower[c]).answer > @ THEN @ + 1 ELSE @])

TowerNextDay ==
  /\ world.day < LastDay /\ world' = [world EXCEPT !.day = @ + 1]
  /\ UNCHANGED db

TowerNext ==
  \/ \E c \in Climbers : GuessRight(c) \/ GuessWrong(c) \/ Look(c)
  \/ TowerNextDay

TowerSpec == TowerInit /\ [][TowerNext]_handlerVars

TypeOK ==
  \A c \in Climbers :
    LET t == db.tower[c]
    IN /\ t.floor \in Lowest..Highest /\ t.best \in t.floor..Highest
       /\ t.streak \in 0..Solves - 1 /\ t.strikes \in 0..Strikes - 1 /\ t.misses \in 0..Tries - 1
       /\ t.answer = 0 => t.misses = 0

\* Each solved puzzle and each floor reached is paid for, although the events that pay
\* are named only by the day and the floor, or the answer; nothing is paid in free play.
FloorsArePaid ==
  \A c \in Climbers :
    LET paid(what) == Cardinality({e \in db.ledger : e[1] = what /\ e[2] = c})
    IN IF world.free THEN db.ledger = {}
       ELSE world.mishaps = 0 =>
              /\ paid("solve") = world.solved[c] /\ paid("promote") = world.ups[c]
              /\ db.tower[c].floor = Lowest + world.ups[c] - world.downs[c]

\* Outside free play a climber exhausts one puzzle a day, while nothing fails: so three
\* strikes take three days.
OneFallADay ==
  ~world.free /\ world.mishaps = 0 =>
    \A c \in Climbers : \A i, j \in DOMAIN world.ended[c] :
      i # j => world.ended[c][i] # world.ended[c][j]

TowerIsFair == FloorsArePaid /\ OneFallADay

-----------------------------------------------------------------------------
(* What a guess tells.                                                     *)

WordleFeedbackAssumption == Length \in Nat \ {0} /\ NoLetter \notin Letters

(* db: the board's correct, present and absent letters, and the positions and letters    *)
(* counted so far.  world: the answer, and the letters guessed.                          *)

Places == 1..Length
Words == [Places -> Letters]
LettersOf(word) == {word[i] : i \in DOMAIN word} \ {NoLetter}
CountIn(x, word, places) == Cardinality({i \in places : word[i] = x})

FeedbackInit == \E answer \in Words :
  /\ db = [correct |-> [i \in Places |-> NoLetter], present |-> {}, absent |-> {},
           positions |-> 0, misplaced |-> 0]
  /\ world = [answer |-> answer, guessed |-> {}, mishaps |-> 0]

\* A mutant: a letter of the answer may be claimed twice.
EvaluateFreely(guess, answer) ==
  [i \in Places |-> IF guess[i] = answer[i] THEN 2
                    ELSE IF guess[i] \in LettersOf(answer) THEN 1 ELSE 0]

\* evaluate_dynamic: exact places first, then from the left what the answer has left of each.
Evaluate(guess, answer) ==
  LET exact == {i \in Places : guess[i] = answer[i]}
      left(x) == CountIn(x, answer, Places \ exact)
  IN [i \in Places |->
        CASE i \in exact -> 2
          [] i \notin exact /\ CountIn(guess[i], guess, 1..i \ exact) <= left(guess[i]) -> 1
          [] OTHER -> 0]

\* A mutant: a letter marked absent once is absent, though it was found elsewhere.
DiscoveredLiterally(board, guess, marks) ==
  [board EXCEPT
     !.correct = [i \in Places |-> IF marks[i] = 2 THEN guess[i] ELSE @[i]],
     !.present = @ \cup {guess[i] : i \in {j \in Places : marks[j] = 1}},
     !.absent = @ \cup {guess[i] : i \in {j \in Places : marks[j] = 0}}]

\* update_discoveries
Discovered(board, guess, marks) ==
  LET marked(n) == {guess[i] : i \in {j \in Places : marks[j] = n}}
      correct == [i \in Places |-> IF marks[i] = 2 THEN guess[i] ELSE board.correct[i]]
      known == board.present \cup LettersOf(board.correct)
      present == (board.present \cup marked(1)) \ LettersOf(correct)
  IN [correct |-> correct, present |-> present,
      absent |-> (board.absent \cup marked(0)) \ (present \cup LettersOf(correct)),
      positions |-> board.positions + Cardinality({i \in Places : correct[i] # NoLetter
                                                     /\ board.correct[i] = NoLetter}),
      misplaced |-> board.misplaced + Cardinality(marked(1) \ known)]

Mark(guess) ==
  Perform(<<Discovered(db, guess, Evaluate(guess, world.answer))>>,
          [world EXCEPT !.guessed = @ \cup LettersOf(guess)])

FeedbackNext == \E guess \in Words : Mark(guess)

FeedbackSpec == FeedbackInit /\ [][FeedbackNext]_handlerVars

\* The marks of a guess claim as many of each letter as both words have, exact places first.
MarksAreTrue ==
  \A guess \in Words :
    LET marks == Evaluate(guess, world.answer)
        lesser(a, b) == IF a <= b THEN a ELSE b
    IN \A x \in Letters :
         /\ Cardinality({i \in Places : guess[i] = x /\ marks[i] > 0})
              = lesser(CountIn(x, guess, Places), CountIn(x, world.answer, Places))
         /\ \A i \in Places : marks[i] = 2 <=> guess[i] = world.answer[i]

\* Everything the board shows is true of the answer, each letter is shown in one way, a
\* guessed letter is never forgotten unless its guess was lost, and what is counted for the
\* achievements was found: each place once, and a letter before its place at most once.
BoardIsTrue ==
  LET found == LettersOf(db.correct)
  IN /\ \A i \in Places : db.correct[i] \in {NoLetter, world.answer[i]}
     /\ db.present \subseteq LettersOf(world.answer) \ found
     /\ db.absent = (IF world.mishaps = 0 THEN world.guessed \ LettersOf(world.answer)
                     ELSE db.absent \ LettersOf(world.answer))
     /\ world.guessed \ (found \cup db.present \cup db.absent) # {} => world.mishaps > 0
     /\ db.positions = Cardinality({i \in Places : db.correct[i] # NoLetter})
     /\ db.misplaced <= Cardinality(LettersOf(world.answer))

FeedbackIsTrue == (db.absent = {} => MarksAreTrue) /\ BoardIsTrue
=============================================================================
