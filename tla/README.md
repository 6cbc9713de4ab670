# rustjeeves: specifications, model checking and proofs

rustjeeves is an IRC bot: a Rust host (`src/crates/jeeves`) that owns the
connections, the database, the timers and people's profiles, and some thirty
WASM modules (`src/modules-src`) that do the talking. This directory holds TLA+
models of the host's concurrent parts and of the modules that keep state over
time, the TLC configurations that check them, and TLAPS proofs about eight of
them. File and line numbers refer to the source tree (`src/`).

Run a model with `tlc -config Host_core.cfg MCHost.tla`, a proof with
`tlapm SchedulerProofs.tla`. `PROJECT.json` is the index: components, runs, the
mutants that the properties must reject, the source lines of every definition,
known disagreements with the documentation, hazards, and theorems.

## 1. The system

### Threads and channels

    IRC server <-> connection task (one per network)        irc/mod.rs
                       | events (256)     ^ actions (64)
                       v                  |
                   permission stage       |                 perms.rs
                       | resolved events  |
                       v                  |
                   forwarder -> module thread (queue 512)   modules/mod.rs
                                   | one worker thread per module (queue 64)
                                   v
                       WASM guest calls --> host functions  modules/host_fns.rs
                                   |             |
                   scheduler thread (256 / 64)   |          scheduler.rs
                                   v             v
                               database thread (SQLite)     db.rs

The database thread answers one request at a time, so in every model a request
is one atomic step, and two requests are two. Everything else interleaves. A
guest runs one call at a time on its module's worker, but a call is a series of
host calls, each of which commits by itself: a handler that fails, traps or runs
into its 20 seconds leaves behind what it had done. That is the hazard nearly
all models of modules are about.

### Inventory

| component | state | operations | what is hard | what must hold |
|---|---|---|---|---|
| scheduler | rows, job map, in-flight marks, retries | set, cancel, deliver, complete, restart | late answers after a replacement, failed deletes, full queue, crash | no newer job lost, no repeated delivery, every job served |
| erasure of a person | journal, token, listed modules, their rows | request, confirm, ask each module, apply, finish | crash between steps, timeouts, modules missing, events queued behind the request | only confirmed requests, profile last, nothing left, always completes |
| profiles and identity | profiles, aliases, accounts, ignore list | resolve a sender, bind a nick, look up, erase | nick changes, guests on registered nicks, casemapping changes | nobody speaks as another's account |
| IRC session and supervisor | negotiation, outbound queue, rejoin timers, status | connect, register, send, kick, quit, reconnect | SASL order, token bucket, back-pressure, aborted actors | ordered lines, registered in the end |
| module host | worker list, senders map, queues | load, reload, dispatch, run_command, timers | full queues, torn files, reload while busy | every timer answered once, directory loaded |
| economy, cosmetics | balances, ledger, owned pieces | award, spend, gift, heist | retries of an event, pruned ledger, step failing between two people | brass neither made nor lost |
| roles, profile repair, module resets | admins, bindings, rows | bind at first use, add, remove, preview, apply | what changes between preview and apply | trust is given once, a repair can be undone |
| achievements | figures, unlocks, dedup ids | award, back-fill, announce | repeats, coalesced announcements | an unlock counted and announced once |
| commands, settings | registry, aliases, scopes | load, publish, save | a load publishing while the console saves | a command reaches its owner |
| recent lines | last lines of a channel | record, lend, purge | erasure, age | erased lines go |
| backups | schedule, files, copies off the machine | back up, verify, prune, upload | failure between any two steps | the last good copy is kept |
| games (trivia, scramble, hunt, darts, wordle, fishing, pirate, botany, gacha) | rounds and players in rows, copies in memory, timers | start, play, time out, finish, erase | timer against answer, failing call between reward and row, reload with two copies | rewarded once, a game ends |
| what is kept for later (reminders, memos, bans, weather alerts, birthdays, triggers, karma, stats, history, ai) | rows and timers | set, deliver, cancel, expire | exactly-once delivery, erasure | delivered once, nothing kept of the erased |
| lookups (weather, wikis, dictionaries, translation, links, ...) | caches, cooldowns, budgets | ask, answer, announce | concurrent questions, limits, stale answers | fresh, limited, told once |
| calc, clock, dice | none that lasts | evaluate | boundaries | equal to a reference |
| themes, logs, entry point, websites | texts, views | read | none of their own | - |

`PROJECT.json` lists all of them with their files and status, and the places
where the code is exposed under `hazards`.

## 2. Modules and how they map to the code

Every module keeps the code's names where it can. One action is one handler or
one step of a thread between two points where others can run; `map` in
`PROJECT.json` names the lines of each definition.

### The host

**Scheduler** (`scheduler.rs`, `scheduled_jobs` in `db.rs`). The loop of the
thread is `BeginFinish`, `FinishOne`, `BeginDeliver`, `SendOne`, `EndDeliver`,
`HandleSet`, `HandleCancel`, `HandleComplete`, `ReceiveTimeout`: the passes over
completed and due jobs take one key at a time because the database and the
delivery queue may fail for one key and not the next. The host (`Complete`), the
clients (`RequestSet`, `RequestCancel`), the clock, restarts and the erasure of
an owner are the environment. History variables: `gen` counts accepted sets,
`succeeded`, `cancelled` and `restored` record facts the properties speak of.
**TimerService** is the abstract specification: per key a stage (`none`,
`pending`, `served`), the number of the promise and the attempts that are out.
The scheduler implements it (`TimersAreDurable`: stage, `gen` and attempts are
the refinement mapping) as long as nobody is erased; an erasure deletes rows
behind the thread's back, which is the finding `scheduler_erasure`.

**DataLifecycle** (`modules/mod.rs` 1714-2290, journal in `db.rs`). People and
administrators `Initiate`, `Confirm` within ten minutes, supersede and lapse;
the module thread asks a module (`AskModule`), waits (`Answer`,
`AnswerTimeout`), applies (`Apply`), marks (`Mark`) and finishes (`Finish`).
Workers go on with queued events (`HandlerReads`, `HandlerWrites`), which is why
the rows read by `AskModule` may be old when `Apply` writes them.

**Identity** (`db.rs` 3000-3400, `perms.rs`). The four tables that say who a
sender is, the permission stage as two steps (resolve, then the ignore check),
and messages waiting at the workers. The casemapping is a function `Fold`, and
may change once, as it does between a connection's start and its 005 line.

**IrcConnection** (`irc/mod.rs`, `runtime.rs`). One network: the supervisor
(connect, reconnect, quit with a grace period), the connection task with its
`select!` branches, capability and SASL negotiation, the token bucket and the
outbound queue, rejoin timers, and the events on their way to the permission
stage. The server is external: it answers as the protocol allows, for five kinds
of servers (with and without capabilities, with a good and a bad password).

**ModuleHost** (`modules/mod.rs` 200-1410 and 2290-2450, `run_command` in
`host_fns.rs`). Forwarder, directory watcher, module thread, workers by
generation, the shared map of senders, and `run_command` from one worker into
another. A guest call is opaque: it starts, may capture once, ends well or not.

**Registry** (`commands.rs`, `settings.rs`): what modules declare, what the
operator saved over it, and the registries dispatch reads; the module thread's
`Publish` reads the saved overrides before it installs them, and the console
may save in between. **Console** (`tui/mod.rs`, `db.rs`): administrators whose
entries bind to the first to use them, profile repairs and module resets that
are previewed, checked and applied beside a running bot. **Backups**
(`backup.rs`): the worker's runs step by step with failures and crashes, three
tiers with retention, files that are linked or copied into the later two, and
encrypted weekly copies off the machine.
**Achievements** (`db.rs`, `modules-src/achievements`): awards with their
deduplication ids, reconciling with the loaded catalogues, back-fills, ranks,
announcements and the weekly digest. **Lookups** (`wikipedia.rs`, `weather.rs`,
`link_title.rs` and the others): caches, request limits, timeouts and concurrent
questions of the providers (CoinGecko's limit is shared by all who ask), the
place, feed and cell caches behind weather warnings, and the modules that ask
them: commands with a cooldown (`Commands`), titles of posted links (`Titles`),
translations with budgets, and morning forecasts driven by timers.

### The modules

**Handlers** is what the models of modules share: a worker runs one handler at a
time, and `Cut` ends one between two of its host calls. `db` is what is stored,
`world` everything else (memory, queue, clock, what the properties remember).

**Trivia**. A round as a row, the copy in each worker's memory, the channel's
timer, careers and the economy's ledger. A handler maps a state to the set of
states it may end in, one for each host call that may fail; `Ends` makes the
step. Two workers exist after a reload until the first has drained its queue.
What is asked and what counts as right is the model's choice.

**Brass** (`economy_change` and the cosmetics in `db.rs`, `modules-src/gacha`).
Balances, the ledger and its event ids, the shelf of eggs and items, wagers of
the day and the heist of a network. Each action of `Work` is one request of the
worker's call to the host, so that a call can be cut (`Cut`) or refused
(`Refused`, its payee was erased) between any two. `BuyEgg`, `HatchEgg`,
`Recycle`, `Wager`, `Give`, `Heist` are the commands; `Recover` is what the next
command does with a pending action; `Beat`, `Outcome` and `TimerIsStale` are the
timer's calls, delivered again when they fail. `PlanErasure`, `ApplyErasure`,
`FinishErasure` are the module's part of an erasure, whose plan may be old when
it is applied. `course` is chosen in `Init` and never changes: it names the kinds
of things that happen in one behaviour, so that one run covers combinations that
matter without the product of all of them.

**Reminders** (`modules-src/reminders`, `deliver_due` of the scheduler). Jobs,
their rows, the attempts with the worker, what was served and has yet to be
removed, the numbers, the last delivery and the requests to other people. A
handler takes the argument `done`: how far it came before a call failed. `Send`
and `Deliver` are the two ends of an attempt, `Complete` the scheduler hearing of a
success: until then the job and its row stay, and a restart serves it again; the
erasure is `ReadRows`, `ApplyPlan`, `FinishErasure`, the last of which removes
rows and leaves jobs in memory, as the code does. The list of requests is a set
ordered by token: the code appends to it and removes from it, nothing else.

**Memos** (`modules-src/memos`). The channel's book and the private one, each
with the flag that spares ordinary chat from loading it. As in Trivia a handler
maps a state to the states it may end in: `Then` goes on after a step that did
not fail, `EndWith` makes the step of the model. `Arrivals` is what every
message delivers before its command.

**ChannelGames** (hunt and its hugs, scramble) and **ChannelOrders** (timed bans
of `operator`, weather alerts) live by durable timers that may be late, stale
(queued before they were cancelled or booked anew) or lost with a cut handler. A
line to the server may be dropped while the host answers Ok (`Mode`); which masks
are refused is a constant, since what a mask consists of is left out.
**ChannelReplies** has triggers with their cooldowns, birthday greetings with
the profile the worker caches for a day, and the oddities: the hidden due time of
a network, and who claims what it brings.

**Wordle** (the daily word with its mercy rounds and languages, free play, the
tower with climbs, falls and strikes, and what the letters tell: the marks of a
guess against a reference that counts letters), **Darts**, **Fishing** (an
angler's row and the shared row, saved one after the other) and
**FishingCareer** (rod, limbs, and the quarters with their champions),
**PirateSeas** (crews, gold, voyages, raids, ransoms, blockades, seasons) and
**PirateDays** (wages, rollover, long absence, the Navy). What chance decides is
the model's choice; power and odds are left out.

**Botany**, **Tallies** (`stats`), **Consultations** (`ai`), **History**
(`history`) and the karma section of ChannelReplies keep books about people: what
was counted against what happened, what is remembered against how long it may be,
and what an erasure must take out of every one of them.

**Exports** (`modules/mod.rs`, `data_lifecycle.rs`) is the other half of what a
person may ask of the data kept about them. `RequestOwn`, `RequestOf` and
`Collect` start one (a cooldown of a minute for one's own, every known module
must be running), `Ask` is one worker's answer while all of them go on storing,
`Finish` and `ExportOffline` prune the old files one by one and write the new one
under its final name, so that a cut may leave it torn. A fact is one that its
module's export tells or leaves out (`told`). `ExportsAreTrue`: a file written to
its end misses no fact that is told and was stored when it was asked for, but for
the modules' ones in a file made beside the bot; no file, torn or whole, holds one
about somebody else; old files go, one's own are apart.

### Composition

Modules that share state are one module or a refinement of each other. The
others run together in one TLC run without a product: the composing module has a
variable `active`, chosen in `Init`, that says whose steps a behaviour is made
of, and each property speaks of the active part (`active = "karma" =>
KarmaIsFair`). A behaviour of the composed run is a behaviour of one part, with
the others idle in an initial state, so the run shows for each part exactly what
a run of its own would.

| composing module | extends | instantiates |
|---|---|---|
| MCHost | ModuleHost | DataLifecycle (the two kinds of work of the module thread) |
| MCConsole | Scheduler | Registry, Console (roles, repairs), Backups |
| MCBooks | DataLifecycle | Botany, ChannelReplies (three times: replies, oddities, karma), Tallies, Achievements, Exports |
| MCChannel | Trivia | Consultations, History, Lookups |
| MCTimers | Reminders | Memos, ChannelGames, ChannelOrders |
| MCGames | - | Wordle, Darts, Fishing, FishingCareer (twice), PirateSeas, PirateDays |
| MCIdentity, MCIrcConnection | Identity, IrcConnection | nothing: they define constants |

The components that have theorems are the ones that are extended: TLC evaluates
their assumptions on the constants in that run.

## 3. Runs

| run | configuration | shows |
|---|---|---|
| `host_core` | Host_core.cfg of MCHost | two modules, three changes of files, two troubles: each timer is in one place until it is answered once, replaced workers drain and stop, the workers end up running what the directory holds; and a confirmed erasure completes through two faults and overlapping reloads |
| `console` | Console_careful.cfg of MCConsole | scheduler with one key, two slots before a delivery queue of 1, two sets, two faults: the six safety properties that are also proved, the refinement of TimerService, and `JobsAreServed` under fairness; registry, roles, repairs and backups beside a running bot |
| `erasure_safety` | Books_kept.cfg of MCBooks | two requests, an administrator, two modules, one event, one fault: confirmed, one token, old data gone, profile last; and the books of the small modules; and exports with two people, two modules, two requests, one fact, three moments and one file kept, so that a file is pruned, one is torn, a module missing and an answer later than an event; pruning cut between two files is left to the theorem `ExportsStayTrue` |
| `identity_safety` | Identity_safety.cfg of MCIdentity | three profiles, two spellings, two accounts, one change of casemapping |
| `irc_connection` | IrcConnection_connection.cfg of MCIrcConnection | five servers, two messages of two lines, two troubles: login, order, registration, rejoin |
| `trivia` | Channel_talk.cfg of MCChannel | one round of three questions, two people, three lines or commands, one trouble; questions to the model, quotes, corrections, sightings, lookups |
| `brass` | Brass_goods.cfg of Brass | six courses: eggs, recycling, gifts, wagers and heists with one cut call, one erasure or a midnight: goods and stakes are accounted for, heists end |
| `timers` | Timers_served.cfg of MCTimers | reminders with two people, three commands and one failing handler, restart or erasure; memos; hunt, hugs, scramble, bans, alerts: promises are kept, counted once and come to their end |
| `games` | Games_fair.cfg of MCGames | wordle, tower, letters, darts, fishing, gear, seasons, pirates: what is won is won by the rules and paid once |
| `scheduler_erasure` | Scheduler_erasure.cfg of Scheduler | violation: a timer of an erased person is still sent (`OnlyStoredJobsFire`, SPEC.md:126) |
| `erasure_aggregates` | DataLifecycle_aggregates.cfg of DataLifecycle | violation: a plan from old rows takes away what was stored about another person (SPEC.md:137) |
| `module_isolation` | ModuleHost_isolation.cfg of MCHost | violation: an operator's command to a busy module holds back all others (README.md:267) |

The three violations are disagreements between code and documentation; each is
described, with the sentence it contradicts, under `findings`.

### What the properties say

Each property has its comment in the module. The ones to know:

- *Scheduler.* `AttemptsAreApart` joins `StaleAttemptsDiffer` (comparing whole jobs
  is enough to tell an answer to an earlier job from one to the current job) and
  `OneAttemptPerKey` (two handlers of one timer never overlap unless the timer
  was cancelled). `NotSentAfterSuccess`, `NewerJobSurvives`, `RowsAreScheduled`,
  `TimersAreDurable`, `JobsAreServed`.
- *DataLifecycle.* `OldTokensAreDead` (`ErasureWasConfirmed` and
  `OneTokenPerPerson`), `ProfileGoesLast`, `OldDataIsGone` relative to when a
  module was asked, `ConfirmedIsCompleted`.
- *Identity.* `SpeakerHoldsTheAccount`, `OneAccountPerProfile`,
  `NickChangesKeepTheProfile`, `TablesAreSound` (`LinksAreLive` and
  `OneAliasPerNick`), `AccountsKeepTheirProfile`, `ErasedIdsStayErased`.
- *IrcConnection.* `LoggedInIfPossible`, `LinesInOrder`, `StatusFollowsActor`,
  `InterruptedWorkResumes` (`EnabledNetworkRegisters` and `RejoinsAreTried`).
- *ModuleHost.* `DeliveriesAreHeld` (a timer is in exactly one queue or call until
  it is answered, and nowhere after; nothing stands behind a worker's shutdown)
  with `QueuesAreDrained`, `DirectoryIsLoaded` (`FilesAreLoaded` in the run).
- *Trivia.* `AnswersAreAccounted`: in the store and in every worker's memory,
  answers credited plus the question still open never exceed the questions
  asked; each credited answer was paid; without trouble one person is paid per
  question; a round whose winners were paid is over. `RoundIsCoherent`
  (`CopiesAgree` and `RoundIsDriven`): an erasure leaves the person no career,
  score, streak or wrong choice in any copy (`ErasedLeaveTheScores`; the round's
  starter stays named). `RoundsEnd`. Where a reload or an erasure
  breaks one of these the property says so in its condition.
- *Brass.* `GoodsAreAccounted`: eggs charged, laid, hatched, refunded and
  recycled balance at every moment, also while a pending action is half done,
  and the ledger never repeats a transaction it remembers. `StakesAreAccounted`:
  brass taken as a stake or a gift is with the call, with the crew, or settled,
  and is lost only with a cut or refused call or an erasure's old plan.
  `HeistsEnd`, unless a heist was left without its timer (`stranded`).
- *Reminders.* `RemindersAreSound`: a reminder whose owner was told of it has a job,
  was posted or was cancelled; a one-off ends well once, and again only as often as
  a restart came between its success and the deletion of its row; a confirmed
  cancellation holds; nothing is scheduled for another person that they did not
  accept. `RemindersArrive`.
- *Memos.* `MemosAreAccounted`: an accepted memo is in a book that chat looks
  into until something ended it, no memo is posted twice, and every delivery is
  counted for its sender while no erasure restarted the numbers.
- `GamesAreFair`, `PromisesAreBooked`, `TimersAreServed`, `WinsAreFair`,
  `BooksAreTrue`, `TalkIsFair` and `ConsoleIsSafe` are conjunctions, one named
  property for each part of the run (see their definitions in the `MC` modules);
  `PROJECT.json` lists for each a mutant in every part, so none of the conjuncts
  is along for the ride.

### Bounds and why they are enough

The defects these models are about need one repetition, not many: a job and its
replacement, a plan and one event it did not see, an old worker and a new one.
So each run has two of whatever can be confused (two sets of a key, two people,
two modules, two accounts, two generations) and one or two faults, and the
queues are as short as they can be while both "full" and "two in order" occur.

- Scheduler: two delivery slots, a delivery queue of 1, so that an attempt for a job
  that was replaced finds it full, an inbox of 1, a clock up to 4 with retry 1 and
  horizon 2, so a job can become due, be retried and be replaced by a later one.
  One key is enough for safety, since no step relates two keys except the
  module's quota, and the proofs cover any number.
- DataLifecycle: two requests are needed for superseding, two modules for
  "done with one, not with the other". Modules are symmetric in the safety run.
  Who asks does not matter for completion, so `host_core` has no administrators.
- Identity: a third UUID makes room for a guest profile beside two accounts.
- IrcConnection: `Burst` 1 and `MaxPending` 2 make the limiter and the full
  queue reachable with four lines.
- ModuleHost: a module thread queue of 1 is full after one item; a worker queue
  of 2 holds an item and a shutdown. `Traffic` names the kinds of items that
  arrive: timers, commands and an operator's request in `host_core`, the rest
  in `module_isolation`.
- Trivia: three questions is the shortest round the command accepts, and equals
  the idle limit, so both endings occur. One failure, reload or erasure per
  behaviour: their combinations are not explored, but proved.
- Brass: prices and stakes are as small as keep their relations (an egg costs
  more than its refund, a bundle is one item), `EggDraws` and `BetDraws` bound
  the random tokens and so the commands, `MaxGains` the brass there is,
  `MaxDay`, `MaxCuts` and `MaxErasures` are one. `LedgerKept` is 2 instead of
  200, so that the ledger forgets. `MaxLoss` makes the day's loss finite beyond
  what any limit compares.
- Reminders: time runs to 2, so that a reminder set, delivered, failed and
  delivered again, or snoozed, fits; three commands are an offer, its answer and
  one more, which may be an erasure. Memos: one memo per delivery (`Batch` is 3 in the code) makes two
  memos enough for one to wait for the next message.
- The composed parts: one cut or stale timer each (`MaxMishaps` 1), one or two
  people, and clocks that pass every limit once (a cooldown, a cache's age, a
  week of two days, a season of two). The bounds are in the `INSTANCE` lines of
  the `MC` modules; the letters of Wordle are three of three, which has every
  pattern of repetition.

Deadlock checking is off where a run may simply be over: the inputs are bounded,
or the program was shut down.

### Fairness

Weak fairness for threads that loop for ever (scheduler, module thread, workers,
connection task and its timers, permission stage): their loops block only on
channels, with time limits; in Reminders, ChannelGames and ChannelOrders for the
clock, for what the scheduler sends and for the handlers of timers; in the hunt
for a channel in which people talk, since a release without chat waits for it by
design. Strong fairness in three places: a module that is offered its timer
again and again accepts it eventually (`SucceedFor`), a missing module is
installed again one day (`Reload(Modules)`), and in Brass a timer is delivered
whenever the worker has been idle often enough (`TimerIsStale`, `Beat`), to a
crew whose fates are random and therefore some day all "caught" (`Outcome({})`);
a round of fates that pays an erased member fails for ever otherwise. The
liveness properties that need them promise just that failing modules only
delay. No fairness is put on people, faults, lost connections, or reloads.

## 4. Proofs

TLAPS checks these for all values of the constants that satisfy the named
`ASSUME`s (which TLC evaluates in every run of a module that extends theirs).
Besides the types of the constants, one assumption restricts their values:
`EggCost <= LedgerKept` in Brass. The code has 50 (gacha/src/lib.rs:31) and 200
(db.rs:3856); see there why it is needed.

- **SchedulerProofs**: `TypeCorrect`, `StaleAttemptsAreRecognised`,
  `CompletionsSpareNewerJobs`, `DurableJobsAreScheduled`, `OneAttemptAtATime`,
  `AttemptsStayApart`, `ServedTimersAreNotSent`, `TimersArePromised`. Inductive
  invariant: `TypeOK /\ BatchIsDue /\ AttemptsAreOlder`. `StaleAttemptsDiffer`
  alone is not inductive: it says two jobs differ, and the next set could make
  them equal. `AttemptsAreOlder` says why it cannot: an attempt was due when
  sent, and a job accepted later is due after the clock. `BatchIsDue` carries
  that fact from the choice of the batch to its sending. `OneAttemptPerKey`
  needs, per key, that marks, attempts held and answers under way fit together
  (`Single`). The refinement of TimerService is proved step by step under
  `MapIsStored`, `BatchIsServed` and `AttemptsAreCurrent`, for behaviours without
  an erasure. An attempt at it showed that a late answer for a cancelled attempt
  clears the mark of the job set since; the model had missed the branch of
  `finish_completed` for a key without a job, and has it now.
  Beside the scheduler, `ConsoleKeepsIts`, with a theorem for each of its parts.
  `NamesMeanOneThing` (Registry): `RegistryInv` says, kind by kind, where a row the
  console saved is while memory and database differ: with the console, which is
  about to apply it (`WithEdit`), or in what a publish read too early, which that
  publish has then marked (`RowsStand`); and that what was checked still stands
  (`EditStands`). That every given alias is its command's own, and that no other
  command loses one, is `AliasesHold`, by the order in which commands take their
  names. `RepairsAreCareful` (Console): `RolesInv` ties who was admitted to what the
  entry now says, so that an entry bound to nobody has admitted nobody;
  `RepairsInv` says how a plan, the snapshot and a handler's held row age: shares
  only grow, so rows that equal those the plan was made from were equal when the
  snapshot was taken. `RestorePointsStay` (Backups): `BackupsInv` says for each
  place in a run what there is of it (`RunHolds`), which files of the later tiers
  may be half copied (`PointsHold`), that later names are later
  copies (`DailyHolds`, `ObjectsHold`), and which fields a save has written
  (`SettingsHold`); that pruning leaves enough counts files by their names
  (`NamedIsFinite`, `PrunedLeaves`).
- **DataLifecycleProofs**: `TypeCorrect`, `TokensAreDead`, `ProfilesGoLast`,
  `ErasedDataIsGone`. Types alone are not inductive: what the thread writes is
  well typed because the module it asks is one its job still lists
  (`Processing`, `AskedIsListed`). `SubjectsAreKept` ties the journal's rows to
  the person a job was made for. `ErasedDataIsGone` assumes `~Overlap`, no
  replaced worker still running, as the property does in the code: then the
  request for a plan is the last item of its worker's queue (`RequestIsLast`,
  `WorkerIsIdle`), nothing but newer facts lies between what the host read and
  what it writes (`Alone`, `EntriesAreRead`), and what was done stays done
  (`DoneIsGone`).
  And `ExportsStayTrue` (module Exports): the inductive invariant says of the
  export in progress that whatever was stored when it was asked for, and is not
  left out by its module, has been told or is still stored with a module that has yet to answer (`Asking`), of the files
  that they are in the order of their times, so that the old ones are the first
  ones and pruning a prefix is enough (`SurplusIsEnough`), and of a person's own
  that the latest is as old as the cooldown's start or older than the bot's.
- **IdentityProofs**: `TypeCorrect`, `SpeakersHoldTheirAccount`,
  `AccountsAreApart`, `LinksLeadToProfiles`, `AccountsAreStable`,
  `ErasedIdsAreGone`, `NickChangesAreFollowed`, `AliasesAreUnique`,
  `TablesStaySound`. Inductive invariant:
  `TypeOK /\ OneAccountPerProfile /\ LinksAreLive /\ RowsWereDrawn /\
  SpeakerHoldsTheAccount`: a resolution reads an alias or account row, so the
  rows must be live and drawn for its result to belong to the sender.
- **IrcConnectionProofs**: `TypeCorrect`, `SaslSucceedsIfPossible`,
  `MessagesStayInOrder`, `StatusIsTrue`. `Negotiation`: as long as SASL can still
  succeed, something the server waits for is on its way and neither `CAP END`
  nor a final answer is on the wire (`SaslGoesOn`), which needs that a refused
  request is repeated once only and that the link is empty when it is down.
  `Ordered`: the lines on the wire, waiting and in the inbox are increasing, each
  place before the next. `StatusComing`: the last word on the way to the
  permission stage is what the actor believes.
- **ModuleHostProofs**: `TypeCorrect`, `DeliveriesStayHeld`. Inductive invariant
  `TypeOK /\ Promised`. `Held` counts, for each delivery, the module thread's
  queue and the queue and call of every worker of every generation: in exactly
  one place while open, nowhere after. It holds through a reload because a
  worker that is yet to start has nothing (`Fresh`), the list names workers of
  the current generation only (`ListIsCurrent`), and a worker that was told to
  stop is no longer in the list, so that nothing but a capture can be put behind
  its shutdown (`Retired`).
- **TriviaProofs**: `TypeCorrect`, `AnswersCount`, `RoundsAreCoherent`, for any
  number of people, rounds, failures, reloads and erasures at once, where TLC has
  one of them. `RoundsAreSound` holds for every copy wherever it is (stored, in a
  worker, in a plan); `OneIsFed`, `PlanIsLast` and `PlanIsComplete` describe an
  erasure under way; `BonusIsLast`, `OneIsPaid` and `TimersAreOlder` what is true
  while nothing went wrong.
- **BrassProofs**: `TypeCorrect`, `GoodsCount`, `StakesCount`. The counts of eggs,
  items and brass are equations over the ledger, and the ledger forgets. What
  makes them inductive is `ChargeIsRemembered`: since a recorded purchase was
  charged, its owner's brass has only grown, by at least one for each entry
  since; the purchase is retried only if the owner could pay again, that is,
  with less than the price earned since; so the entry is still among those kept
  if the price is at most their number. Hence the assumption above: with a price
  above 200 an interrupted purchase could be charged twice. `CrewIsKnown` does
  the same for stakes: nobody is on a crew twice, and each member's stake is
  neither settled nor lost.
- **TimersProofs**: `TypeCorrect`, `RemindersCount`, `OrdersAreBooked`. `KeepInv`: the table holds
  the jobs of the living (`RowsAreJobs`), an attempt under way has its job as it
  was sent, unless that was cancelled meanwhile (`FlightIsKnown`), numbers are
  given once (`NumbersAreGiven`), what was cancelled in time has no job
  (`OverIsOver`), and a job that is not about to be removed was served only for
  answers that restarts lost (`NotServedYet`).
  `AskInv`: every job from another person was agreed to, and the requests, also
  those in an erasure's plan, keep their limits.
  `BansInv`: every ban that no dropped line was to lift (`IsFree`) has a job, stronger
  than a timer on its way, since a
  cancelled one that is cut short books nothing. `AlertsInv`: what is posted was
  seen where the warning is, so that one seen in no cell looked up is over
  (`LiftedIsOver`); until a handler is cut short the channel was told exactly what
  is posted.

Each theorem that names a run's property holds for the specification of its
component; in a composed run the other parts do not touch its variables.

Only model-checked: liveness (`JobsAreServed`, `ConfirmedIsCompleted`,
`InterruptedWorkResumes`, `QueuesAreDrained`, `FilesAreLoaded`, `RoundsEnd`,
`HeistsEnd`, `RemindersArrive`, `TimersAreServed`), since the prover has neither
fairness nor ENABLED; the composed properties `GamesAreFair`, `WinsAreFair`,
`BooksAreTrue` (apart from the exports' part), `TalkIsFair` and
`MemosAreAccounted`: their parts fold sequences and sets (tallies, ledgers, marks
of letters) or are next in the plan; and whatever a recursive function computes for every input.

### The style of the proofs

One step per action of `Next`, under it one per conjunct that the action can
disturb; lemmas for the operators of the model come first. tlapm reads `@` in a
second update of the same path within one EXCEPT as the old value, so the
models do not update one path twice.

## 5. Where the code departs from what one expects

Found while modelling, kept in the models as the code has it, without a run of
their own. Some are conditions in the properties (`late`, `stranded`, `muddled`).

- *Identity.* A queued `!title` edits whoever holds the nick when it runs.
- *Connection.* A rejoin that meets a full outbound queue is lost although
  PLAN.md:675 promises one; a network still connecting may count as connected
  after `quit_all`.
- *Scheduler.* The late answer of a cancelled attempt clears the mark of the next
  job, which may then have two attempts at once. The timer of an erased person
  is posted at every retry until a restart.
- *Reminders.* A restart between a reminder's delivery and the deletion of its row
  posts and counts it again. A recurring reminder cancelled while its timer is at the worker
  comes back; an erasure may reset a person's numbers while they still command.
- *Memos.* An erasure that empties a book restarts its numbers, so that
  deliveries go uncounted.
- *Brass.* A heist's stake is not seen by the daily loss limit while the crew
  waits although heist.rs:6 says stakes count.
- *Trivia.* `data_delete` keeps the round's `starter`; a stale timer of an older
  round with the same `seq` steps a newer round early.
- *Hunt, scramble.* A claim cut after `clear_active` loses the animal; a failed
  booking leaves a word without a timer.
- *Bans, alerts.* A stale queued expiry lifts a re-issued ban early. `channel_operator`
  returns Ok also when the action is dropped (unknown or offline network, full queue,
  host_fns.rs:315-331, irc/mod.rs:358-365): a timer whose line is dropped is completed
  and the ban stays. `mask_hits_protected` looks at the nick in a mask alone
  (operator lib.rs:599-612), so `*!*@host` may ban the bot or who asked. A queued tick
  books itself again after alerts were turned off; warnings are reported lifted
  while in force.
- *Birthdays.* A profile is cached until the next UTC day, so a birthday moved
  over New Year is greeted twice.
- *Triggers.* `add a|b` over two triggers puts b in both.
- *Karma.* A vote cut after its cooldown was written is lost; a full table of
  cooldowns forgets the oldest pair.
- *Exports.* Files about an erased person stay until later exports prune them, and
  nothing prunes by age while no export is written. A crash while a file is written
  leaves it torn under its final name (data_lifecycle.rs:134-152). An export made
  beside the bot holds no module's rows, as its comment says (data_lifecycle.rs:18).
  Some rows are erased but never exported, though SPEC.md:134-136 says that both
  take the same (`Told` lets any fact be left out): hunt lockouts, sed cooldowns, fishing champions and chum notices,
  counts of stats not yet flushed, trivia's round scores, pirate voyages,
  prisoners, ransoms and intel. Only karma's model says which
  (`NothingIsKeptUntold`).
- *Stats.* A reload loses pending counts; a digest cut after its week was saved is
  lost; a first line whose booking fails leaves its batch without a flush.
- *Achievements.* `digest off` while its timer is queued comes back for good; an
  award healed by a back-fill is counted twice when the event is retried; an
  unlock may fall between two digests.
- *Wordle.* `!word new` overwrites histories (against wordle/src/lib.rs:1074); a
  language switch deals a fresh board the same day although SPEC.md:740 says the
  next; a mercy deal cut short may repeat the failed word.
- *Darts.* A cut between statistics and `clear_game` allows a second win; a dart may
  bust under double-out where the comment at `darts/src/lib.rs:986` says it does not.
- *Fishing.* A cut between the two rows lets a cast be reeled twice, takes bait
  without effect, merges stashes twice, or leaves a wormhole line that can be
  neither reeled nor cast; prizes come after the season's rows.
- *Pirate.* Timers booked before the save make a cut lose a payday or a season's
  end; a pause cut short leaves the patrol dead or voyages without timers; a
  resolved raid on an erased captain vanishes with its loot; an erased captain
  stays in the payload of a booked hit.
- *Registry.* A load that read the overrides before the console saved installs the
  old ones until the next reload; a failed query is read as "no overrides";
  restored aliases are not validated.
- *Console.* SQLite's NOCASE misses spellings that the casemapping makes equal; a
  deleted administrator's queued message still acts; a handler under way may put
  back rows that were reset.
- *Backups.* Where a file cannot be linked, the weekly or monthly copy is written
  under its final name, and after a cut the next run gives the torn file a manifest
  (`promote_if_missing`, against the sentence on manifests at README.md:234 of the
  repository; `ManifestsVouch` excepts the files it recorded as `broken`). A failed Sunday upload is not retried that week; torn copies count in
  the retention; a save cut between two settings can leave a configuration that
  `BackupConfig::load` rejects, so that backups stop.
- *AI.* A lookup may return 1,200 characters where the host accepts 400 per line
  of context, and one line more than it accepts in all: the question then
  fails; a line of control characters spoils every question of its channel.
- *History.* Corrected lines stay in the worker's memory after an erasure, under
  the old UUID; lines are told apart by their second.
- *Lookups.* A nick taken over receives the forecasts of the one who left it; a
  series of forecasts ends when the next time cannot be computed; a dictionary
  reports "not found" when its fallback was unavailable; partial answers are
  cached; an erasure drops the opt-out from translation; videos count as seen
  even when the lookup failed.

## 6. Not modelled, and limits

- Texts: themes, formatting, sanitising, the drawing of the TUI and the web pages.
- Lookups over HTTP: what comes back is arbitrary.
- SQL itself: a request is its effect. Schema migrations run once at start.
- A WASM instance's memory after a trap: Trivia lets it survive or not.
- Erasure in a module's model is that module's part; the workflow is
  DataLifecycle's. Jobs in Trivia are one timer; retries and crashes are
  Scheduler's, and in ChannelGames, ChannelOrders and Lookups a timer may be
  late, stale or delivered again after a failure; that a restart comes between a
  handler's success and the deletion of the row is in Scheduler and Reminders only.
- One worker, except in Trivia and ModuleHost, where a reload makes two.
- Combinations of networks: every table is keyed by network, so one is modelled.
- calc, clock and dice keep nothing and have no order of steps.

Components with status `not_modelled` or `partly` in `PROJECT.json` say what is
left out of each.

## 7. Plan

Done: the inventory, the host's core, the modules over time, the games, the
console's tables, and proofs of the components on which everything rests. Next,
in this order:

1. **Memos**: `MemosAreAccounted` as a theorem; its inductive invariant is that of
   Reminders without jobs (numbers given once, books behind their flags).
2. **The hunt**: `HuntIsFair`, which needs what `TimersAreOlder` says in Trivia: a
   stale timer is told from a current one.
3. **Abstract specifications**: a ledger in which brass moves but is neither made
   nor lost, implemented by Brass with its forgetting ledger; an erasure journal
   implemented by DataLifecycle.
4. **Pure algorithms**: calc expressions and time phrases against reference
   definitions over bounded inputs.
