------------------------------- MODULE Botany -------------------------------
(***************************************************************************)
(* The gentle garden (modules-src/botany): one plant a person, watered     *)
(* once in an interval until it is ripe, photographed and harvested; the   *)
(* totals in the book are also what the host's achievements count.         *)
(***************************************************************************)
EXTENDS Handlers, SequencesExt

CONSTANTS
  Gardeners,
  Goals,      \* growth_waterings when a seed is planted
  Slots,      \* PHOTO_SLOTS
  MaxBucket, MaxPlants, MaxPhotos   \* bounds

BotanyAssumption == Goals \subseteq Nat \ {0} /\ {Slots, MaxBucket, MaxPlants, MaxPhotos} \subseteq Nat

(* db: each gardener's book, the totals in it, and the host's counts with the events     *)
(* they were counted for.  world: the watering interval the clock is in, and the         *)
(* intervals in which a plant was watered.                                               *)

Stats == {"planted", "watered", "matured", "harvested", "photos"}
NoPlant == [goal |-> 0, waterings |-> 0, last |-> 0]
EmptyBook == [plant |-> NoPlant, photos |-> [s \in 1..Slots |-> NoPlant],
              totals |-> [s \in Stats |-> 0]]

Init ==
  /\ db = [books |-> [p \in Gardeners |-> EmptyBook], events |-> {},
           counts |-> [p \in Gardeners |-> [s \in Stats |-> 0]]]
  /\ world = [bucket |-> 1, watered |-> [p \in Gardeners |-> <<>>], mishaps |-> 0]

Ripe(plant) == plant # NoPlant /\ plant.waterings >= plant.goal

\* A mutant: every total of the book is counted anew.
CommitTotals(p, book) ==
  LET event == <<p, book.totals>>
      saved == [db EXCEPT !.books[p] = book]
  IN <<saved,
       [saved EXCEPT !.events = @ \cup {event},
          !.counts[p] = [s \in Stats |-> @[s] + book.totals[s]]]>>

\* commit: the book is saved, then what its totals grew by is counted, once for them.
Commit(p, book) ==
  LET grown == [s \in Stats |-> book.totals[s] - db.books[p].totals[s]]
      event == <<p, book.totals>>
      saved == [db EXCEPT !.books[p] = book]
  IN IF event \in db.events \/ \A s \in Stats : grown[s] = 0 THEN <<saved>>
     ELSE <<saved,
            [saved EXCEPT !.events = @ \cup {event},
               !.counts[p] = [s \in Stats |-> @[s] + grown[s]]]>>

Recorded(book, stats) ==
  [book EXCEPT !.totals = [s \in Stats |-> IF s \in stats THEN @[s] + 1 ELSE @[s]]]

Plant(p, goal) ==
  LET book == db.books[p]
  IN /\ book.plant = NoPlant /\ book.totals.planted < MaxPlants
     /\ Perform(Commit(p, Recorded([book EXCEPT !.plant = [NoPlant EXCEPT !.goal = goal]],
                                   {"planted"})), world)

\* A mutant: yesterday's clock may water again.
ThirstyWhenever(plant) == ~Ripe(plant) /\ plant.last # world.bucket

\* Plant::water: one watering in an interval, none when the clock went back.
Thirsty(plant) == ~Ripe(plant) /\ plant.last < world.bucket

Water(p) ==
  LET book == db.books[p]
      grown == [book.plant EXCEPT !.waterings = @ + 1, !.last = world.bucket]
  IN /\ book.plant # NoPlant /\ Thirsty(book.plant)
     /\ Perform(Commit(p, Recorded([book EXCEPT !.plant = grown],
                            {"watered"} \cup (IF Ripe(grown) THEN {"matured"} ELSE {}))),
                [world EXCEPT !.watered[p] = Append(@, <<book.totals.planted, world.bucket>>)])

Harvest(p) ==
  /\ Ripe(db.books[p].plant)
  /\ Perform(Commit(p, Recorded([db.books[p] EXCEPT !.plant = NoPlant], {"harvested"})), world)

\* save: into the first free slot.
Save(p) ==
  LET book == db.books[p]
      free == {s \in 1..Slots : book.photos[s] = NoPlant}
  IN /\ book.plant # NoPlant /\ free # {} /\ book.totals.photos < MaxPhotos
     /\ LET slot == CHOOSE s \in free : \A t \in free : s <= t
        IN Perform(Commit(p, Recorded([book EXCEPT !.photos[slot] = book.plant], {"photos"})), world)

Discard(p, s) ==
  /\ db.books[p].photos[s] # NoPlant
  /\ Perform(Commit(p, [db.books[p] EXCEPT !.photos[s] = NoPlant]), world)

\* achievement_backfill: the host takes the totals where they are higher.
Backfill ==
  /\ db' = [db EXCEPT !.counts = [p \in Gardeners |-> [s \in Stats |->
              IF db.books[p].totals[s] > @[p][s] THEN db.books[p].totals[s] ELSE @[p][s]]]]
  /\ UNCHANGED world

\* data_delete: the book goes, and with it the host's counts; the person comes back as
\* somebody else, so the host's events do not matter any more.
Erase(p) ==
  /\ db.books[p].totals.planted = MaxPlants
  /\ db' = [db EXCEPT !.books[p] = EmptyBook, !.counts[p] = [s \in Stats |-> 0],
                      !.events = {e \in @ : e[1] # p}]
  /\ world' = [world EXCEPT !.watered[p] = <<>>]

\* The clock, which an operator may also set back.
Tick(bucket) == bucket # world.bucket /\ world' = [world EXCEPT !.bucket = bucket] /\ UNCHANGED db

Next ==
  \/ \E p \in Gardeners :
       \/ \E goal \in Goals : Plant(p, goal)
       \/ Water(p) \/ Harvest(p) \/ Save(p) \/ Erase(p)
       \/ \E s \in 1..Slots : Discard(p, s)
  \/ Backfill
  \/ \E bucket \in 1..MaxBucket : Tick(bucket)

Spec == Init /\ [][Next]_handlerVars

TypeOK == \A p \in Gardeners :
  LET plant == db.books[p].plant IN plant.waterings \in 0..plant.goal /\ plant.last \in 0..MaxBucket

\* The totals tell one story: each plant was planted, ripened and harvested in turn.  The
\* host counts no more than they say, and the same when no award was lost.
GardenIsCounted ==
  \A p \in Gardeners :
    LET t == db.books[p].totals
        plant == db.books[p].plant
    IN /\ t.planted = t.harvested + (IF plant = NoPlant THEN 0 ELSE 1)
       /\ t.matured = t.harvested + (IF Ripe(plant) THEN 1 ELSE 0)
       /\ \A s \in Stats : db.counts[p][s] <= t[s]
       /\ world.mishaps = 0 => db.counts[p] = t

\* "Backward clock changes cannot grant additional waterings."
WateredOnceAnInterval ==
  \A p \in Gardeners : \A i, j \in DOMAIN world.watered[p] :
    i < j /\ world.mishaps = 0 => world.watered[p][i] # world.watered[p][j]

GardenIsFair == GardenIsCounted /\ WateredOnceAnInterval
=============================================================================
