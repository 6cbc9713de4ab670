------------------------------- MODULE MCBooks -------------------------------
(* The erasure workflow, and the small modules that keep books about people,  *)
(* for TLC.  They share no state here, so a behaviour is one of one of them.  *)
EXTENDS DataLifecycle, TLC

CONSTANTS ann, ben, cid, la, lb, lc, Anyone, MaxMishaps

VARIABLES active, db, world

booksVars == <<db, world>>

\* Modules are interchangeable.
ModuleSymmetry == Permutations(Modules)

Botany == INSTANCE Botany
  WITH Gardeners <- {ann}, Goals <- {3}, Slots <- 1, MaxBucket <- 3, MaxPlants <- 2, MaxPhotos <- 1
Replies == INSTANCE ChannelReplies
  WITH Speakers <- {ann}, Phrases <- {la, lb, lc}, PhraseCap <- 2, ResponseCap <- 2, TriggerCap <- 2,
       Cooldowns <- {0, 2}, ChannelGap <- 2, Presets <- {{la, lb}}, MaxEdits <- 3, MaxNow <- 4,
       People <- {ann}, DaysOfYear <- 2, MaxDay <- 5, MaxChanges <- 2,
       Oddities <- {}, Hour <- 1, MinGap <- 2, MaxGapMeans <- 1, Means <- {}, MaxFound <- 1,
       Window <- 1, PairsKept <- 1, ReasonsKept <- 1, EntriesKept <- 1, MaxVotes <- 1
Odds == INSTANCE ChannelReplies
  WITH Speakers <- {ann}, Phrases <- {}, PhraseCap <- 2, ResponseCap <- 2, TriggerCap <- 2,
       Cooldowns <- {}, ChannelGap <- 2, Presets <- {}, MaxEdits <- 0, MaxNow <- 7,
       People <- {ann, ben}, DaysOfYear <- 2, MaxDay <- 5, MaxChanges <- 2,
       Oddities <- {la, lb}, Hour <- 1, MinGap <- 2, MaxGapMeans <- 2, Means <- {1, 3}, MaxFound <- 3,
       Window <- 1, PairsKept <- 1, ReasonsKept <- 1, EntriesKept <- 1, MaxVotes <- 1
Karma == INSTANCE ChannelReplies
  WITH Speakers <- {}, Phrases <- {}, PhraseCap <- 1, ResponseCap <- 1, TriggerCap <- 1,
       Cooldowns <- {}, ChannelGap <- 1, Presets <- {}, MaxEdits <- 0, MaxNow <- 3,
       People <- {ann, ben, cid}, DaysOfYear <- 1, MaxDay <- 1, MaxChanges <- 1,
       Oddities <- {}, Hour <- 1, MinGap <- 1, MaxGapMeans <- 1, Means <- {}, MaxFound <- 1,
       Window <- 2, PairsKept <- 1, ReasonsKept <- 1, EntriesKept <- 2, MaxVotes <- 2
Tallies == INSTANCE Tallies
  WITH People <- {ann}, WeekDays <- 2, StreakDays <- 2, DaysKept <- 2, BatchLines <- 2,
       FirstDay <- 5, MaxDay <- 7, MaxLines <- 3, MaxChanges <- 1
Achievements == INSTANCE Achievements
  WITH People <- {ann}, Catalogued <- {la, lb}, Events <- {lc}, Thresholds <- <<2, 1>>,
       FirstRank <- 2, EveryRank <- 1, Modest <- 2, MaxAwards <- 2, MaxNow <- 2, MaxChanges <- 2
Exports == INSTANCE Exports
  WITH People <- {ann, ben}, Lifecycles <- {la, lb}, Host <- lc, Nobody <- cid,
       Gap <- 2, Age <- 1, FilesKept <- 1, MaxNow <- 3, MaxFacts <- 1, MaxRequests <- 2

ASSUME Botany!BotanyAssumption
ASSUME Karma!KarmaAssumption
ASSUME Replies!TriggersAssumption
ASSUME Replies!BirthdaysAssumption
ASSUME Odds!OdditiesAssumption
ASSUME Tallies!TalliesAssumption
ASSUME Achievements!AchievementsAssumption
ASSUME Exports!ExportsAssumption

NoBooks == db = <<>> /\ world = <<>>

BooksInit ==
  /\ Init
  /\ \/ active = "erasure" /\ NoBooks
     \/ active = "botany" /\ Botany!Init
     \/ active = "karma" /\ Karma!KarmaInit
     \/ active = "triggers" /\ Replies!TriggersInit
     \/ active = "birthdays" /\ Replies!BirthdaysInit
     \/ active = "oddities" /\ Odds!OdditiesInit
     \/ active = "tallies" /\ Tallies!Init
     \/ active = "achievements" /\ Achievements!Init
     \/ active = "exports" /\ Exports!Init
  /\ active = "erasure" \/ loaded = Modules

BookSteps ==
  \/ active = "botany" /\ Botany!Next
  \/ active = "karma" /\ Karma!KarmaNext
  \/ active = "triggers" /\ Replies!TriggersNext
  \/ active = "birthdays" /\ Replies!BirthdaysNext
  \/ active = "oddities" /\ Odds!OdditiesNext
  \/ active = "tallies" /\ Tallies!Next
  \/ active = "achievements" /\ Achievements!Next
  \/ active = "exports" /\ Exports!Next

BooksNext ==
  /\ UNCHANGED active
  /\ \/ active = "erasure" /\ Next /\ UNCHANGED booksVars
     \/ BookSteps /\ UNCHANGED vars

BooksSpec == BooksInit /\ [][BooksNext]_<<active, booksVars, vars>>

\* The books of the small modules agree with themselves and with what happened: karma with the
\* votes, gardens with their totals, triggers with what the channel may be told, birthdays with
\* the years greeted, oddities with their hidden time, the statistics with the lines said, the
\* achievements with what was earned, and exports with all of them.
BooksAreTrue ==
  /\ active = "karma" => Karma!KarmaIsFair
  /\ active = "botany" => Botany!GardenIsFair
  /\ active = "triggers" => Replies!TriggersAreSound
  /\ active = "birthdays" => Replies!GreetedOnce
  /\ active = "oddities" => Odds!OdditiesAreRare
  /\ active = "tallies" => Tallies!TalliesAreTrue
  /\ active = "achievements" => Achievements!StandingIsTrue
  /\ active = "exports" => Exports!ExportsAreTrue
=============================================================================
