------------------------------- MODULE MCGames -------------------------------
(* The games of the channel, for TLC.  They share no state here, so a           *)
(* behaviour is one of one of them.                                            *)
EXTENDS Naturals, FiniteSets

CONSTANTS ann, ben, la, lb, lc, Nobody, Unlimited, NoLetter, MaxMishaps

VARIABLES active, db, world

Rules(doubleOut, resets, free) == [doubleOut |-> doubleOut, resets |-> resets, free |-> free]

Wordle == INSTANCE Wordle
  WITH People <- {ann}, Answers <- [l \in {"", "fr"} |-> IF l = "" THEN {la, lb} ELSE {lc}],
       AttemptChoices <- {1, 2}, MercyAfter <- 1, MaxDay <- 2, MaxDeals <- 3, MaxOrders <- 1,
       Climbers <- {ann}, Lowest <- 5, Highest <- 6, Solves <- 2, Strikes <- 2, Tries <- 2,
       LastDay <- 3, MaxPuzzles <- 11, Letters <- {la, lb, lc}, Length <- 3
Darts == INSTANCE Darts
  WITH Throwers <- {ann, ben}, StartingScore <- 21, DailyCap <- 2, Numbers <- {7}, MaxDay <- 2,
       Rulebooks <- {Rules(TRUE, TRUE, FALSE), Rules(FALSE, FALSE, TRUE)},
       MaxWins <- 1, MaxThrows <- 3
Fishing == INSTANCE Fishing
  WITH Anglers <- {ann}, Curve <- [l \in 1..20 |-> l + 1], CatchXp <- {2}, JunkXp <- 1, Baits <- {1},
       LureCost <- 1, ChumCost <- 1, ChumLasts <- 1, ChumRests <- 2, MinWait <- 2, VampireHour <- 3,
       QuestLevels <- 1, Stashes <- {0, 3}, MaxNow <- 4, MaxCasts <- 2, MaxExtras <- 1
Gear == INSTANCE FishingCareer
  WITH Limbs <- {la, lb}, Hours <- {1}, WearEvery <- 1, RodMaxima <- {1, 2}, Regrow <- 2, Recovery <- 2,
       Confirm <- 1, HealCost <- 1, Purse <- 1, MaxNow <- 4, MaxFixes <- 2, MaxCatches <- 2,
       MaxBlasts <- 2, Anglers <- {ann, ben}, MaxQuarter <- 3, MaxDeeds <- 2, MaxMishaps <- 0
Seasons == INSTANCE FishingCareer
  WITH Limbs <- {la, lb}, Hours <- {1}, WearEvery <- 1, RodMaxima <- {1, 2}, Regrow <- 2, Recovery <- 2,
       Confirm <- 1, HealCost <- 1, Purse <- 1, MaxNow <- 4, MaxFixes <- 2, MaxCatches <- 2,
       MaxBlasts <- 2, Anglers <- {ann, ben}, MaxQuarter <- 3, MaxDeeds <- 2
Seas == INSTANCE PirateSeas
  WITH Captains <- {ann, ben}, Regulars <- 1, Loyals <- 1, Gold <- 2, Rewards <- {2}, Recruits <- {1},
       Salvage <- 1, VoyageLasts <- 1, BlockadeLasts <- 2, StragglersTake <- 1, SeasonLasts <- 2,
       MaxNow <- 2, MaxVoyages <- 1, MaxOrders <- 1
Days == INSTANCE PirateDays
  WITH Captains <- {ann, ben}, Crew <- 2, Day <- 2, SortieTakes <- 1, Regroup <- 1, LongAway <- 3,
       Intervals <- {1}, Strengths <- {2}, MaxNow <- 4, MaxOrders <- 2, MaxSorties <- 1

ASSUME Wordle!WordleAssumption
ASSUME Wordle!WordleTowerAssumption
ASSUME Wordle!WordleFeedbackAssumption
ASSUME Darts!DartsAssumption
ASSUME Fishing!FishingAssumption
ASSUME Gear!GearAssumption
ASSUME Seasons!SeasonsAssumption
ASSUME Seas!SeasAssumption
ASSUME Days!DaysAssumption

GamesInit ==
  \/ active = "wordle" /\ Wordle!Init
  \/ active = "tower" /\ Wordle!TowerInit
  \/ active = "feedback" /\ Wordle!FeedbackInit
  \/ active = "darts" /\ Darts!Init
  \/ active = "fishing" /\ Fishing!Init
  \/ active = "gear" /\ Gear!GearInit
  \/ active = "seasons" /\ Seasons!SeasonsInit
  \/ active = "seas" /\ Seas!Init
  \/ active = "days" /\ Days!Init

GamesNext ==
  /\ UNCHANGED active
  /\ \/ active = "wordle" /\ Wordle!Next
     \/ active = "tower" /\ Wordle!TowerNext
     \/ active = "feedback" /\ Wordle!FeedbackNext
     \/ active = "darts" /\ Darts!Next
     \/ active = "fishing" /\ Fishing!Next
     \/ active = "gear" /\ Gear!GearNext
     \/ active = "seasons" /\ Seasons!SeasonsNext
     \/ active = "seas" /\ Seas!Next
     \/ active = "days" /\ Days!Next

GamesSpec == GamesInit /\ [][GamesNext]_<<active, db, world>>

-----------------------------------------------------------------------------
\* What is won is won by the rules and paid for once, whatever handler is cut short: words,
\* floors, legs, what the letters tell, fish and the titles of a season, rods and limbs, what
\* pirates bring home, and what they pay their crews.  No injury heals before its time, and a
\* pirate's ship that is parked is left alone by raids, paydays and the Navy.
WinsAreFair ==
  /\ [](/\ active = "wordle" => Wordle!WordleIsFair
        /\ active = "tower" => Wordle!TowerIsFair
        /\ active = "feedback" => Wordle!FeedbackIsTrue
        /\ active = "darts" => Darts!DartsIsFair
        /\ active = "fishing" => Fishing!FishingIsFair
        /\ active = "seasons" => Seasons!SeasonsAreFair
        /\ active = "gear" => Gear!GearIsSound
        /\ active = "seas" => Seas!SeasAreFair
        /\ active = "days" => Days!DaysAreFair)
  /\ [][/\ active = "gear" => Gear!NothingHealsEarly
        /\ active = "seas" => Seas!ParkedAreLeftAlone
        /\ active = "days" => Days!ParkedDaysDoNotCount]_<<active, db, world>>
=============================================================================
