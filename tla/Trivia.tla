------------------------------- MODULE Trivia -------------------------------
(***************************************************************************)
(* Trivia rounds in one channel (modules-src/trivia): the round is kept in *)
(* the key-value store and mirrored in the memory of the worker that runs  *)
(* the module; one durable timer per channel asks, hints, reveals and      *)
(* ends; people answer by talking.                                         *)
(*                                                                         *)
(* A handler runs to its end or is cut short by a host function that fails *)
(* (the calls before it have taken effect).  A reload starts a second      *)
(* worker while the first still drains its queue.  The erasure of a person *)
(* reads the stored rows, waits for the worker's plan, and applies it; the *)
(* module thread feeds no worker meanwhile, but another module's           *)
(* run_command does.  The scheduler is the one of module Scheduler: here,  *)
(* one job that is waiting or sent.                                        *)
(***************************************************************************)
EXTENDS Naturals, Sequences, FiniteSets, FiniteSetsExt

CONSTANTS
    People,
    Admins,         \* people whose role satisfies Role::Admin
    Total,          \* questions in a round (3..25 in the code)
    NoRound,        \* a blank value of the round's key
    Unloaded,       \* a worker's ROUNDS before their first use
    NoQuestion,     \* `asked` is None
    Nobody,
    QueueCap,       \* bound: items in a worker's queue (64 in the code)
    MaxRounds,      \* bound: rounds started
    MaxInputs,      \* bound: lines and commands that arrive
    MaxFaults,      \* bound: host functions that fail
    MaxReloads,     \* bound: reloads of the module
    MaxErasures,    \* bound: people erased
    MaxTroubles     \* bound: faults, reloads and erasures together

ASSUME TriviaAssumption ==
    /\ IsFiniteSet(People) /\ Admins \subseteq People /\ Nobody \notin People
    /\ Total \in Nat \ {0} /\ QueueCap \in Nat \ {0}
    /\ {MaxRounds, MaxInputs, MaxFaults, MaxReloads, MaxErasures, MaxTroubles} \subseteq Nat

VARIABLES
    stored,     \* the round in the key-value store
    mirror,     \* each worker's copy of it
    queue,      \* each worker's queue
    newest,     \* the worker the module thread feeds
    job,        \* the scheduler's job for the channel's timer
    career,     \* the people's lifetime figures in the channel
    ledger,     \* the economy's entries: who was paid for which event
    erasure,    \* the erasure in progress: the rows it read, and whether the
                \* worker had nothing to do then
    budget      \* what has happened so far, for the bounds

vars == <<stored, mirror, queue, newest, job, career, ledger, erasure, budget>>

Workers   == 1 .. MaxReloads + 1
IdleLimit == 3      \* model.rs IDLE_LIMIT
NoStreak  == [who |-> Nobody, n |-> 0]
NoCareer  == [correct |-> 0, won |-> 0]
NoScore   == [points |-> 0, correct |-> 0]
NoJob     == [round |-> 0, seq |-> 0, sent |-> FALSE]
JobOf(r)  == [round |-> r.id, seq |-> r.seq, sent |-> FALSE]
Sent(j)   == [j EXCEPT !.sent = TRUE]

NewRound(id, starter) ==
    [id |-> id, starter |-> starter, number |-> 0, asked |-> NoQuestion,
     scores |-> [p \in People |-> NoScore], streak |-> NoStreak, idle |-> 0, seq |-> 0]

\* What a round, a person's career, the timer's job and the ledger can be.
Questions == [kind : {"free", "choice"}, hinted : BOOLEAN, out : SUBSET People]
Rounds    == [id : Nat, starter : People, number : 0 .. Total,
              asked : Questions \cup {NoQuestion},
              scores : [People -> [points : Nat, correct : 0 .. Total]],
              streak : [who : People, n : 1 .. Total] \cup {NoStreak},
              idle : 0 .. IdleLimit - 1, seq : 0 .. 3 * Total]
Jobs      == [round : Nat, seq : 0 .. 3 * Total, sent : BOOLEAN]
Careers   == [People -> [correct : Nat, won : Nat]]
Entries   == People \X (Nat \X (0 .. Total))

ASSUME BlanksAssumption ==
    /\ {NoRound, Unloaded} \cap Rounds = {} /\ NoRound # Unloaded
    /\ NoQuestion \notin Questions

Line(p)           == [kind |-> "line", who |-> p, round |-> 0, seq |-> 0]
Command(kind, p)  == [kind |-> kind, who |-> p, round |-> 0, seq |-> 0]
Timer(j)          == [kind |-> "timer", who |-> Nobody, round |-> j.round, seq |-> j.seq]
DataDelete(p)     == [kind |-> "delete", who |-> p, round |-> 0, seq |-> 0]
Attempt(item)     == [round |-> item.round, seq |-> item.seq, sent |-> TRUE]

Init ==
    /\ stored = NoRound
    /\ mirror = [w \in Workers |-> Unloaded]
    /\ queue = [w \in Workers |-> <<>>]
    /\ newest = 1
    /\ job = NoJob
    /\ career = [p \in People |-> NoCareer]
    /\ ledger = {}
    /\ erasure = [stage |-> "none", who |-> Nobody, row |-> NoRound, career |-> FALSE,
                  quiet |-> TRUE]
    /\ budget = [rounds |-> 0, inputs |-> 0, faults |-> 0, reloads |-> 0,
                 erasures |-> 0, captured |-> FALSE]

Troubles == budget.faults + budget.reloads + budget.erasures

-----------------------------------------------------------------------------
(* Effects of host calls.  A state `s` of the module is its stored round,  *)
(* the worker's copy, the job, careers and ledger; `ok` is false once a    *)
(* call has failed.  A handler yields the set of states it may end in.     *)

Cut(s)      == [s EXCEPT !.ok = FALSE]
Save(s, r)  == [s EXCEPT !.stored = r, !.mem = r]

\* Mutant: the sequence number is saved as it was before the step.
BookKeepingSeq(s, r) ==
    LET saved == Save(s, r)
    IN  {[saved EXCEPT !.job = JobOf([r EXCEPT !.seq = @ + 1])], Cut(saved)}

\* book: the round is saved with a new sequence number, then its timer is set.
Book(s, r) ==
    LET n     == [r EXCEPT !.seq = @ + 1]
        saved == Save(s, n)
    IN  {[saved EXCEPT !.job = JobOf(n)], Cut(saved), Cut(s)}

\* drop_round: the row, the copy, then the timer.
Drop(s) ==
    LET gone == Save(s, NoRound) IN {[gone EXCEPT !.job = NoJob], Cut(gone), Cut(s)}

Erased(p) == erasure.stage = "applied" /\ erasure.who = p

\* The economy refuses profiles that are gone, and pays an event id once.
Pay(s, payments) ==
    IF \E pay \in payments : Erased(pay[1]) THEN Cut(s)
    ELSE [s EXCEPT !.ledger = @ \cup payments]

Won(s, W) == [s EXCEPT !.career = [p \in People |->
                  IF p \in W THEN [s.career[p] EXCEPT !.won = @ + 1] ELSE s.career[p]]]

Bonus(r, W) == {<<p, <<r.id, 0>>>> : p \in W}

\* The winners are rewarded one after the other: the career is written, then
\* the bonus is paid.
Rewards(s, r, W) ==
    {Pay(Won(s, W), Bonus(r, W))}
    \cup UNION {{Cut(Pay(Won(s, told), Bonus(r, paid))) :
                    paid \in {P \in SUBSET told : Cardinality(told \ P) <= 1}} :
                told \in SUBSET W}

Winners(r) ==
    LET best == Max({r.scores[p].points : p \in People})
    IN  {p \in People : best > 0 /\ r.scores[p].points = best}

\* Mutant: the winners are paid before the round is dropped.
FinishPayingFirst(s, r) ==
    UNION {IF d.ok THEN Drop(d) ELSE {d} : d \in Rewards(s, r, Winners(r))}

\* finish: the round is dropped, then the winners are rewarded.
Finish(s, r) ==
    UNION {IF d.ok THEN Rewards(d, r, Winners(r)) ELSE {d} : d \in Drop(s)}

-----------------------------------------------------------------------------
(* The steps of a round.                                                   *)

Ask(s, r) ==
    UNION {Book(s, [r EXCEPT !.number = @ + 1,
                             !.asked = [kind |-> k, hinted |-> FALSE, out |-> {}]]) :
           k \in {"free", "choice"}}

Hint(s, r) == Book(s, [r EXCEPT !.asked.hinted = TRUE])

\* Mutant: after an unanswered question the round is saved, but no timer is set.
RevealUnbooked(s, r) ==
    LET q == [r EXCEPT !.asked = NoQuestion, !.idle = @ + 1, !.streak = NoStreak]
    IN  IF q.idle >= IdleLimit THEN Finish(s, q) ELSE {Save(s, [q EXCEPT !.seq = @ + 1])}

Reveal(s, r) ==
    LET q == [r EXCEPT !.asked = NoQuestion, !.idle = @ + 1, !.streak = NoStreak]
    IN  IF q.idle >= IdleLimit THEN Finish(s, q) ELSE Book(s, q)

\* Mutant: the last question asks for one more.
StepOneMore(s, r) ==
    IF r.asked # NoQuestion THEN IF r.asked.hinted THEN Reveal(s, r) ELSE Hint(s, r)
    ELSE IF r.number > Total THEN Finish(s, r) ELSE Ask(s, r)

\* step: hint, reveal, or the next question, whichever is due.
Step(s, r) ==
    IF r.asked # NoQuestion THEN IF r.asked.hinted THEN Reveal(s, r) ELSE Hint(s, r)
    ELSE IF r.number >= Total THEN Finish(s, r) ELSE Ask(s, r)

Points(hinted, n) == (IF hinted THEN 5 ELSE 10) + Min({2 * (n - 1), 6})

Streak(r, p) == [who |-> p, n |-> IF r.streak.who = p THEN r.streak.n + 1 ELSE 1]

\* The round after p's right answer.
Scored(r, p) ==
    LET streak == Streak(r, p)
    IN  [r EXCEPT !.asked = NoQuestion, !.streak = streak, !.idle = 0,
                  !.scores[p] = [points  |-> @.points + Points(r.asked.hinted, streak.n),
                                 correct |-> @.correct + 1]]

\* answer, the right one: the career is written, the answer is paid, and only
\* then is the round saved and its timer set.
Right(s, r, p) ==
    LET known == [s EXCEPT !.career[p].correct = @ + 1]
        paid  == Pay(known, {<<p, <<r.id, r.number>>>>})
    IN  {Cut(known), Cut(paid)} \cup (IF paid.ok THEN Book(paid, Scored(r, p)) ELSE {})

\* answer, a wrong pick: the guesser is out for this question.
Wrong(s, r, p) == Save(s, [r EXCEPT !.asked.out = @ \cup {p}])

\* answer: what the line is to the question is the model's choice; a typed
\* answer is never wrong, only ignored.
Answer(s, r, p) ==
    IF r.asked = NoQuestion THEN {s}
    ELSE IF p \in r.asked.out THEN {s}
    ELSE {s} \cup Right(s, r, p)
             \cup (IF r.asked.kind = "choice" THEN {Wrong(s, r, p)} ELSE {})

Start(s, p, id) == IF s.mem # NoRound THEN {s} ELSE Ask(s, NewRound(id, p))

Stop(s, p) ==
    IF s.mem = NoRound THEN {s}
    ELSE IF s.mem.starter = p \/ p \in Admins THEN Finish(s, s.mem) ELSE {s}

-----------------------------------------------------------------------------
(* A worker takes the first item of its queue.                             *)

\* with_rounds: the copy is read from the store on first use.
Loaded(w) == [stored |-> stored, mem |-> IF mirror[w] = Unloaded THEN stored ELSE mirror[w],
              job |-> job, career |-> career, ledger |-> ledger, ok |-> TRUE]

Heads(w, kinds) == queue[w] # <<>> /\ Head(queue[w]).kind \in kinds
Take(w)         == queue' = [queue EXCEPT ![w] = Tail(@)]

MayFail == budget.faults < MaxFaults /\ Troubles < MaxTroubles

\* The handler ends in one of `ends`.  After a failure the copy may be lost
\* with the instance's memory.
Ends(w, ends) ==
    \E s \in ends \cup {Cut(Loaded(w))} :
        /\ s.ok \/ MayFail
        /\ stored' = s.stored /\ career' = s.career /\ ledger' = s.ledger
        /\ \E mem \in IF s.ok THEN {s.mem} ELSE {s.mem, Unloaded} :
               mirror' = [mirror EXCEPT ![w] = mem]
        /\ LET item == Head(queue[w]) IN
           job' = IF item.kind = "timer" /\ s.job = Attempt(item)
                  THEN IF s.ok THEN NoJob ELSE [s.job EXCEPT !.sent = FALSE]
                  ELSE s.job
        /\ budget' = [budget EXCEPT
               !.faults = IF s.ok THEN @ ELSE @ + 1,
               !.rounds = IF Head(queue[w]).kind = "start" THEN @ + 1 ELSE @]
        /\ Take(w)
        /\ UNCHANGED <<newest, erasure>>

HandleLine(w) ==
    /\ Heads(w, {"line"})
    /\ LET s == Loaded(w) IN
       Ends(w, IF s.mem = NoRound THEN {s} ELSE Answer(s, s.mem, Head(queue[w]).who))

HandleStart(w) ==
    /\ Heads(w, {"start"})
    /\ Ends(w, Start(Loaded(w), Head(queue[w]).who, budget.rounds + 1))

HandleStop(w) ==
    /\ Heads(w, {"stop"})
    /\ Ends(w, Stop(Loaded(w), Head(queue[w]).who))

\* A timer of an older booking is ignored.
HandleTimer(w) ==
    /\ Heads(w, {"timer"})
    /\ LET s == Loaded(w) IN
       Ends(w, IF s.mem = NoRound THEN {s}
               ELSE IF s.mem.seq # Head(queue[w]).seq THEN {s}
               ELSE Step(s, s.mem))

\* The plan takes p out of the score table, the streak and the wrong choices; as
\* the starter p stays named.
StreakWithout(streak, p) == IF streak.who = p THEN NoStreak ELSE streak
AskedWithout(asked, p)   == IF asked = NoQuestion THEN asked ELSE [asked EXCEPT !.out = @ \ {p}]

Without(r, p) ==
    [r EXCEPT !.scores[p] = NoScore,
              !.streak = StreakWithout(@, p), !.asked = AskedWithout(@, p)]

\* data_delete: the plan is made from the rows in the request; the copy is
\* forgotten.
HandleDelete(w) ==
    /\ Heads(w, {"delete"})
    /\ mirror' = [mirror EXCEPT ![w] = Unloaded]
    /\ erasure' = [erasure EXCEPT !.stage = "planned"]
    /\ Take(w)
    /\ UNCHANGED <<stored, newest, job, career, ledger, budget>>

Handle(w) ==
    HandleLine(w) \/ HandleStart(w) \/ HandleStop(w) \/ HandleTimer(w) \/ HandleDelete(w)

-----------------------------------------------------------------------------
(* The host: lines and commands, the timer, reloads, and erasures.         *)

Room(w)      == Len(queue[w]) < QueueCap
Put(w, item) == Room(w) /\ queue' = [queue EXCEPT ![w] = Append(@, item)]

\* The module thread waits for a plan and feeds no worker.
Feeding == erasure.stage \notin {"asked", "planned"}

Inputs(p) == {Line(p)} \cup {Command(k, p) : k \in {"start", "stop"}}

StartsPending == Cardinality({at \in Workers \X (1 .. QueueCap) :
                     at[2] <= Len(queue[at[1]]) /\ queue[at[1]][at[2]].kind = "start"})

Arrive(p, item, captured) ==
    /\ ~Erased(p)
    /\ budget.inputs < MaxInputs
    /\ item.kind = "start" => budget.rounds + StartsPending < MaxRounds
    /\ Put(newest, item)
    /\ budget' = [budget EXCEPT !.inputs = @ + 1, !.captured = @ \/ captured]
    /\ UNCHANGED <<stored, mirror, newest, job, career, ledger, erasure>>

Say(p) == Feeding /\ \E item \in Inputs(p) : Arrive(p, item, FALSE)

\* run_command by another module puts a command into the queue itself; while
\* the module thread feeds the worker that is no different from Say.
Captured(p) ==
    /\ ~Feeding
    /\ \E item \in Inputs(p) \ {Line(p)} : Arrive(p, item, TRUE)

\* The scheduler's job is due and is sent to the worker.
Fire ==
    /\ Feeding
    /\ job # NoJob /\ ~job.sent
    /\ Put(newest, Timer(job))
    /\ job' = Sent(job)
    /\ UNCHANGED <<stored, mirror, newest, career, ledger, erasure, budget>>

Reload ==
    /\ Feeding
    /\ budget.reloads < MaxReloads /\ Troubles < MaxTroubles
    /\ newest' = newest + 1
    /\ budget' = [budget EXCEPT !.reloads = @ + 1]
    /\ UNCHANGED <<stored, mirror, queue, job, career, ledger, erasure>>

\* process_deletion: the rows are read, and the request joins the queue.
AskForPlan(p) ==
    /\ erasure.stage = "none"
    /\ budget.erasures < MaxErasures /\ Troubles < MaxTroubles
    /\ erasure' = [stage |-> "asked", who |-> p, row |-> stored,
                   career |-> career[p] # NoCareer, quiet |-> queue[newest] = <<>>]
    /\ Put(newest, DataDelete(p))
    /\ budget' = [budget EXCEPT !.erasures = @ + 1]
    /\ UNCHANGED <<stored, mirror, newest, job, career, ledger>>

\* Mutant: the plan leaves a round alone.
ApplyPlanToCareers ==
    /\ erasure.stage = "planned"
    /\ career' = [career EXCEPT ![erasure.who] = IF erasure.career THEN NoCareer ELSE @]
    /\ erasure' = [erasure EXCEPT !.stage = "applied", !.row = NoRound]
    /\ UNCHANGED <<stored, mirror, queue, newest, job, ledger, budget>>

ApplyPlan ==
    /\ erasure.stage = "planned"
    /\ LET row == erasure.row
           p   == erasure.who
       IN  stored' = IF row = NoRound THEN stored
                     ELSE IF Without(row, p) = row THEN stored
                     ELSE Without(row, p)
    /\ career' = [career EXCEPT ![erasure.who] = IF erasure.career THEN NoCareer ELSE @]
    /\ erasure' = [erasure EXCEPT !.stage = "applied", !.row = NoRound]
    /\ UNCHANGED <<mirror, queue, newest, job, ledger, budget>>

Next ==
    \/ \E p \in People : Say(p) \/ Captured(p) \/ AskForPlan(p)
    \/ \E w \in Workers : Handle(w)
    \/ Fire
    \/ Reload
    \/ ApplyPlan

Spec == Init /\ [][Next]_vars

\* Workers and the scheduler are threads that keep running; a host function
\* fails only as often as the bound says.
Fairness ==
    /\ \A w \in Workers : WF_vars(Handle(w))
    /\ WF_vars(Fire)
    /\ WF_vars(ApplyPlan)

FairSpec == Spec /\ Fairness

-----------------------------------------------------------------------------
(* Properties.                                                             *)

Items == [kind : {"line", "start", "stop", "delete"}, who : People, round : {0}, seq : {0}]
         \cup [kind : {"timer"}, who : {Nobody}, round : Nat, seq : 0 .. 3 * Total]

\* The shape of the state; a round's copies are rounds the code can produce: at
\* most three steps are booked for each question.
TypeOK ==
    /\ stored \in Rounds \cup {NoRound}
    /\ mirror \in [Workers -> Rounds \cup {NoRound, Unloaded}]
    /\ queue \in [Workers -> Seq(Items)]
    /\ \A w \in Workers : Len(queue[w]) <= QueueCap
    /\ newest \in Workers
    /\ job \in Jobs
    /\ career \in Careers
    /\ ledger \subseteq Entries
    /\ erasure \in [stage : {"none", "asked", "planned", "applied"},
                    who : People \cup {Nobody}, row : Rounds \cup {NoRound},
                    career : BOOLEAN, quiet : BOOLEAN]
    /\ budget \in [rounds : Nat, inputs : Nat, faults : Nat, reloads : Nat,
                   erasures : Nat, captured : BOOLEAN]

Copies == ({stored} \cup {mirror[w] : w \in Workers}) \ {NoRound, Unloaded}

\* The answers a round counts for somebody, and the questions asked that are no
\* longer open.
Credits(r)    == {answer \in People \X (1 .. Total) : answer[2] <= r.scores[answer[1]].correct}
Answerable(r) == IF r.asked = NoQuestion THEN r.number ELSE r.number - 1

\* In the store and in every worker's memory, whatever failed or was reloaded
\* or erased: the answers credited and the question still open are different
\* questions of those asked (answer takes the question before it scores it).
AnsweredAtMostAsked ==
    \A r \in Copies : Cardinality(Credits(r)) <= Answerable(r)

\* Every answer a round counts for somebody was paid to that person, although
\* the payment may have been cut short, repeated, or made by another worker
\* (answer pays before it saves the round).
ScoresWerePaid ==
    \A r \in Copies, p \in People :
        r.scores[p].correct <= Cardinality({k \in 1 .. Total : <<p, <<r.id, k>>>> \in ledger})

\* Two people are paid for one question only if a handler failed, the module
\* was reloaded or a person was erased meanwhile: otherwise the first right
\* answer closes the question.
OnePersonPerQuestion ==
    Troubles = 0 =>
        \A a, b \in ledger : a[2] = b[2] /\ a[2][2] > 0 => a[1] = b[1]

\* While one worker runs the module, its copy is the stored round, also after
\* failures and erasures (with_rounds, "mirrored from KV"); only a command put
\* into its queue while a plan is pending can make it load a row that changes.
MirrorIsStored ==
    budget.reloads = 0 /\ ~budget.captured => mirror[newest] \in {Unloaded, stored}

\* Unless something went wrong, a round that is under way has the timer of its
\* last booking, waiting at the scheduler or in the worker's queue.
RoundIsDriven ==
    Troubles = 0 /\ stored # NoRound =>
        /\ JobOf(stored) = [job EXCEPT !.sent = FALSE]
        /\ job.sent => \E i \in 1 .. Len(queue[newest]) : queue[newest][i] = Timer(job)

\* A round whose winners were paid is over, for the store and for the worker:
\* a failure loses a bonus but never lets a paid round go on (finish drops the
\* round first).
PaidRoundsAreOver ==
    budget.reloads = 0 /\ budget.erasures = 0 =>
        \A r \in Copies : ~\E p \in People : <<p, <<r.id, 0>>>> \in ledger

\* The people a round counts something for: a score, the streak, a wrong choice.
Counted(r) ==
    {p \in People : r.scores[p] # NoScore \/ r.streak.who = p}
        \cup (IF r.asked = NoQuestion THEN {} ELSE r.asked.out)

\* Once a plan is applied, the person has no career, and neither the store nor
\* the worker's memory counts a score, the streak or a wrong choice for them in
\* the round that was under way, also when they play on while the plan is made:
\* if nothing waited for the worker when the rows were read, for what is handled
\* between reading the rows and making the plan is missed by it.  It does not say
\* that the round forgets them: data_delete keeps the round's starter.
ErasedLeaveTheScores ==
    erasure.stage = "applied" /\ erasure.quiet /\ budget.reloads = 0 /\ ~budget.captured =>
        /\ career[erasure.who] = NoCareer
        /\ \A r \in Copies : erasure.who \notin Counted(r)

\* Answers, scores and payments fit together.
AnswersAreAccounted ==
    AnsweredAtMostAsked /\ ScoresWerePaid /\ OnePersonPerQuestion /\ PaidRoundsAreOver

\* The store and the workers' memories fit together.
CopiesAgree == MirrorIsStored /\ ErasedLeaveTheScores

\* The row, the workers' copies and the timer belong to one state of the round.
RoundIsCoherent == CopiesAgree /\ RoundIsDriven

\* A round ends on its own when nobody plays, unless a call failed, the module
\* was reloaded or a person was erased.
RoundsEnd == (stored # NoRound) ~> (stored = NoRound \/ Troubles > 0)
=============================================================================
