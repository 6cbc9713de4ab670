------------------------------ MODULE MCTimers ------------------------------
(* The modules that keep something for later, for TLC: most live by their    *)
(* durable timers.  They share no state, so a behaviour is one of the        *)
(* reminders, or of the memos, or of another of them, while the rest is idle.*)
EXTENDS Reminders

CONSTANTS Batch, PerBook, PerSender, PerRecipient, PerPair, MaxTold

CONSTANTS Masks, Refused, Cells, Warnings, MaxMishaps

VARIABLES active, db, world

VARIABLES
  books, flag, profile, plan, credits, told, cuts, wipes, accepted, posted, again,
  awarded, ended, lost, muddled

memoVars == <<books, flag, profile, plan, credits, told, cuts, wipes, accepted, posted,
              again, awarded, ended, lost, muddled>>

guest == <<db, world>>

Memos == INSTANCE Memos
Games == INSTANCE ChannelGames
  WITH Hunters <- People, BoardSize <- 1, HugsInFlight <- 2, MaxReleases <- 2, MaxHugs <- 2,
       MaxHuntOrders <- 1, Solvers <- People, MaxWords <- 2, MaxSteps <- 3
Orders == INSTANCE ChannelOrders
  WITH MaxBans <- 3,
       Area <- [w \in Warnings |-> IF w = CHOOSE v \in Warnings : TRUE THEN Cells
                                   ELSE {CHOOSE c \in Cells : TRUE}],
       Severe <- {CHOOSE w \in Warnings : TRUE}, Tracked <- 1, MaxTurns <- 4

ASSUME Memos!MemosAssumption
ASSUME Games!HuntAssumption
ASSUME Games!ScrambleAssumption
ASSUME Orders!TimedBansAssumption
ASSUME Orders!WeatherAlertsAssumption

TimersInit ==
  \/ active = "reminders" /\ Init /\ Memos!InitAfter(MaxTold) /\ db = "idle" /\ world = "idle"
  \/ /\ active = "memos" /\ Memos!Init /\ db = "idle" /\ world = "idle"
     /\ InitAfter(MaxTime, MaxCommands, MaxTroubles)
  \/ /\ InitAfter(MaxTime, MaxCommands, MaxTroubles) /\ Memos!InitAfter(MaxTold)
     /\ \/ active = "hunt" /\ Games!HuntInit
        \/ active = "scramble" /\ Games!ScrambleInit
        \/ active = "bans" /\ Orders!BansInit
        \/ active = "alerts" /\ Orders!AlertsInit

TimersNext ==
  /\ UNCHANGED active
  /\ \/ active = "reminders" /\ Next /\ UNCHANGED <<guest, memoVars>>
     \/ active = "memos" /\ Memos!Next /\ UNCHANGED <<guest, vars>>
     \/ /\ UNCHANGED <<vars, memoVars>>
        /\ \/ active = "hunt" /\ Games!HuntNext
           \/ active = "scramble" /\ Games!ScrambleNext
           \/ active = "bans" /\ Orders!BansNext
           \/ active = "alerts" /\ Orders!AlertsNext

\* The modules' fairness: the clock, the scheduler and the workers go on, and people talk.
TimersFairness ==
  /\ WF_vars(active = "reminders" /\ Tick)
  /\ \A p \in People : WF_vars(active = "reminders" /\ Timers(p))
  /\ WF_guest(active = "hunt" /\ Games!Hunting /\ Games!Chat)
  /\ WF_guest(active = "hunt" /\ Games!Hunting /\ Games!TenMinutesPass)
  /\ WF_guest(active = "hunt" /\ Games!Hunting /\ (Games!Send(Games!NextJob) \/ Games!Send(Games!ReminderJob)))
  /\ WF_guest(active = "hunt" /\ Games!Hunting /\ Games!Release)
  /\ WF_guest(active = "hunt" /\ Games!Hunting /\ Games!Remind)
  /\ WF_guest(active = "hunt" /\ ~Games!Hunting /\ \E h \in db.hugs : Games!TimeIsUp(h))
  /\ \A id \in Games!HugIds :
       /\ WF_guest(active = "hunt" /\ ~Games!Hunting /\ Games!DueHug(id) /\ Games!Send(Games!HugJob(id)))
       /\ WF_guest(active = "hunt" /\ ~Games!Hunting /\ Games!Complete(id))
  /\ \A s \in 1..3 : /\ WF_guest(active = "scramble" /\ Games!Step(s))
                     /\ WF_guest(active = "scramble" /\ Games!Send(Games!Job(s)))
  /\ \A mask \in Masks : /\ WF_guest(active = "bans" /\ Orders!Send(mask))
                         /\ WF_guest(active = "bans" /\ Orders!Expire(mask))

TimersSpec == TimersInit /\ [][TimersNext]_<<active, guest, vars, memoVars>> /\ TimersFairness

-----------------------------------------------------------------------------
\* A memo is told once, and nothing told is lost (see Memos).
MemosAreAccounted == Memos!MemosAreAccounted

\* Whatever handlers are cut short, whatever timers are stale or late: one animal is claimed
\* once and every hug ends one way; a word is paid to one person; the counts agree.
GamesAreFair ==
  /\ active = "hunt" => Games!HuntIsFair
  /\ active = "scramble" => Games!ScrambleIsFair

\* What was promised for later has its timer as long as it is promised: a ban in force, if
\* no dropped line was to lift it, and the watch for weather warnings; and a warning is told
\* once and lifted when it is over.
PromisesAreBooked ==
  /\ active = "bans" => Orders!BansAreDriven
  /\ active = "alerts" => Orders!AlertsAreTrue

\* What was begun comes to its end: animals return, hugs are settled, words revealed, bans
\* lifted unless the host dropped the line that was to do it.
TimersAreServed ==
  /\ []<>(active = "hunt" => Games!AnimalIsBack)
  /\ \A id \in Games!HugIds : []<>(active = "hunt" => Games!HugIsOver(id))
  /\ []<>(active = "scramble" => Games!WordIsOver)
  /\ \A mask \in Masks : []<>(active = "bans" => Orders!BanIsOver(mask))
=============================================================================
