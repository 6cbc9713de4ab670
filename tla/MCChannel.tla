----------------------------- MODULE MCChannel -----------------------------
(* What goes on in a channel, for TLC: a round of trivia, which must end,   *)
(* and what the modules do with what is said there, or asked of providers.  *)
(* They share no state here, so a behaviour is one of one of them.          *)
EXTENDS Trivia

CONSTANTS ann, ben, xx, yy, MaxMishaps

VARIABLES active, db, world

talkVars == <<db, world>>

\* A worker that remembers one conversation, and a host that lets two lines through.
Consultations == INSTANCE Consultations
  WITH People <- {ann, ben}, Cooldown <- 1, DailyLimit <- 1, ContextLimit <- 2, MaxAge <- 1,
       WebLines <- 1, HostLines <- 2, Conversations <- 1, TldrLines <- 1, RoomLines <- 2,
       Day <- 4, MaxNow <- 4, MaxLines <- 2
\* What was corrected is soon too old; of two people one is remembered, and two quotes fit.
History == INSTANCE History
  WITH People <- {ann, ben}, Texts <- {xx, yy}, Cooldown <- 1, Reach <- 1, SedLines <- 2, Owners <- 1, QuoteLines <- 2,
       Lookback <- 0, QuoteRoom <- 2, Grace <- 0, RoomLines <- 3, RoomAge <- 2,
       MaxNow <- 3, MaxLines <- 3, MaxQueue <- 1

\* Two workers ask for two things, an answer is kept for two moments, and one fits.
Lookups == INSTANCE Lookups
  WITH People <- {ann, ben}, Workers <- {ann, ben}, Keys <- {xx, yy}, NoFlight <- Nobody, Ttl <- 2,
       FeedTtl <- 1, CellTtl <- 2, Patience <- 1, CacheCap <- 1, Rate <- 2, Minute <- 2, Apart <- 1, Window <- 2, PerLine <- 2, Remembered <- 1, HourlyLimit <- 1,
       Budget <- 3, Lengths <- {1, 2}, Hours <- 2, Nicks <- {xx, yy}, Nobody <- Nobody,
       MaxNow <- 3, MaxAsked <- 3

ASSUME Consultations!ConsultationsAssumption
ASSUME History!HistoryAssumption
ASSUME
  /\ Lookups!ProvidersAssumption /\ Lookups!WarningsAssumption /\ Lookups!CommandsAssumption /\ Lookups!TitlesAssumption
  /\ Lookups!TranslationsAssumption /\ Lookups!ForecastsAssumption

ChannelInit ==
  /\ Init
  /\ \/ active = "trivia" /\ db = <<>> /\ world = <<>>
     \/ active = "consultations" /\ Consultations!Init
     \/ active \in {"corrections", "quotes", "sightings"} /\ History!Init
     \/ active = "providers" /\ Lookups!ProvidersInit
     \/ active = "warnings" /\ Lookups!WarningsInit
     \/ active = "commands" /\ Lookups!CommandsInit
     \/ active = "titles" /\ Lookups!TitlesInit
     \/ active = "translations" /\ Lookups!TranslationsInit
     \/ active = "forecasts" /\ Lookups!ForecastsInit

TalkSteps ==
  \/ active = "consultations" /\ Consultations!Next
  \* the parts of the history meet in what was said only
  \/ active = "corrections" /\ History!Corrections
  \/ active = "quotes" /\ History!Quoting
  \/ active = "sightings" /\ History!Sightings
  \/ active = "providers" /\ Lookups!ProvidersNext
  \/ active = "warnings" /\ Lookups!WarningsNext
  \/ active = "commands" /\ Lookups!CommandsNext
  \/ active = "titles" /\ Lookups!TitlesNext
  \/ active = "translations" /\ Lookups!TranslationsNext
  \/ active = "forecasts" /\ Lookups!ForecastsNext

ChannelNext ==
  /\ UNCHANGED active
  /\ \/ active = "trivia" /\ Next /\ UNCHANGED talkVars
     \/ TalkSteps /\ UNCHANGED vars

\* The fairness of the round (see Trivia).
ChannelSpec ==
  /\ ChannelInit /\ [][ChannelNext]_<<active, talkVars, vars>>
  /\ \A w \in Workers : WF_vars(active = "trivia" /\ Handle(w))
  /\ WF_vars(active = "trivia" /\ Fire) /\ WF_vars(active = "trivia" /\ ApplyPlan)

\* What people say is used for a while, for what they ask, and not after they were erased; and
\* what is looked up for them is as fresh, as limited and as often told as it should be.
TalkIsFair ==
  /\ active = "consultations" => Consultations!ConsultationsAreFair
  /\ active \in {"corrections", "quotes", "sightings"} => History!HistoryIsTrue
  /\ active = "providers" => Lookups!AnswersAreFresh
  /\ active = "warnings" => Lookups!WarningsAreFresh
  /\ active = "commands" => Lookups!CommandsAreFair
  /\ active = "titles" => Lookups!TitlesAreToldOnce
  /\ active = "translations" => Lookups!TranslationsAreLimited
  /\ active = "forecasts" => Lookups!ForecastsAreDriven
=============================================================================
