---------------------------- MODULE BrassProofs -----------------------------
(***************************************************************************)
(* Proofs about the brass economy.  Two inductive invariants, for any      *)
(* number of people, calls cut, erasures and days:                         *)
(*                                                                         *)
(* - The books of a person, who is not being erased, add up at every step  *)
(*   of the call that serves them (Accounts, Knows).  The recorded         *)
(*   action keeps its token until it is done, so a repeated request finds  *)
(*   either its transaction in the ledger or, when that was pushed out,    *)
(*   an owner who can pay again (ChargeIsRemembered).                      *)
(*                                                                         *)
(* - A call that writes the heist back knows every token that has come to  *)
(*   the crew since it read it (CrewIsKnown).                              *)
(***************************************************************************)
EXTENDS Brass, FiniteSetTheorems, TLAPS

-----------------------------------------------------------------------------
(* The books of a person: a ledger l, a balance b, a shelf s, the cosmetics o owned, and *)
(* how many eggs were laid and items found.                                              *)

EveryEntryIsNew(l) ==
  \A i, j \in DOMAIN l : i < j /\ l[i] = l[j] => j - i > LedgerKept

EggsAreCharged(l, s, eggs) ==
  Cardinality(Ids(l, "buy")) = eggs + One(Tells(s, "buy") /\ s.pending.n \in Ids(l, "buy"))

\* A recorded hatch has yielded something already.
Yielded(l, s, o) == s.pending.n \in Ids(l, "refund") \/ \E g \in o : g[2] = s.pending.n

EggsAreHatched(l, s, o, eggs, items) ==
  eggs + One(Tells(s, "hatch") /\ Yielded(l, s, o)) =
    s.eggs + items + Cardinality(o) + Cardinality(Ids(l, "refund"))

JunkIsPaid(l, s, items) ==
  items + One(Tells(s, "trade") /\ s.pending.n \in Ids(l, "trade")) * Bundle =
    s.junk + Cardinality(Ids(l, "trade")) * Bundle

\* A cosmetic is owned once.
OneOfEach(o) == IsFiniteSet(o) /\ \A g, h \in o : g[1] = h[1] => g = h

\* A recorded hatch gave its own content, or a refund for one that is owned already.
HatchIsSound(l, s, o) ==
  Tells(s, "hatch") =>
    /\ \A g \in o : g[2] = s.pending.n => g[1] = s.pending.what
    /\ s.pending.n \in Ids(l, "refund") =>
         s.pending.what # Item /\ \E g \in o : g[1] = s.pending.what /\ g[2] # s.pending.n

\* Since a recorded purchase was charged, its owner's brass has only grown.
ChargeIsRemembered(l, b, s) ==
  Tells(s, "buy") /\ s.pending.n \in Ids(l, "buy") =>
    \E i \in DOMAIN l : l[i] = <<s.pending.n, "buy">> /\ b >= Len(l) - i

Accounts(l, b, s, o, eggs, items) ==
  /\ EveryEntryIsNew(l)
  /\ EggsAreCharged(l, s, eggs) /\ EggsAreHatched(l, s, o, eggs, items) /\ JunkIsPaid(l, s, items)
  /\ OneOfEach(o) /\ HatchIsSound(l, s, o) /\ ChargeIsRemembered(l, b, s)

\* The tokens of recorded actions and of what they did are among the first d drawn.
TokensAreDrawn(l, s, o, d) ==
  /\ \A i \in DOMAIN l : l[i][2] \in {"buy", "refund", "trade"} => l[i][1] <= d
  /\ s.pending # None => s.pending.n <= d
  /\ \A g \in o : g[2] <= d

\* What a call for an egg knows of its owner's books.
Knows(at, l, s, o) ==
  /\ at = "lay" => s.pending.n \in Ids(l, "buy")
  /\ at = "give up" => s.pending.n \notin Ids(l, "buy")
  /\ at = "refund" =>
       s.pending.what # Item /\ \E g \in o : g[1] = s.pending.what /\ g[2] # s.pending.n
  /\ at = "keep" => (s.pending.what # Item <=> Yielded(l, s, o))
  /\ at = "compact" => s.pending.n \in Ids(l, "trade")

Serves(p) == call.at \in Eggs /\ call.who = p

GoodsAreSound ==
  \A p \in Present :
    /\ Accounts(ledger[p], balance[p], shelf[p], owned[p], laid[p], found[p])
    /\ TokensAreDrawn(ledger[p], shelf[p], owned[p], draws)
    /\ Serves(p) => call.shelf = shelf[p] /\ Knows(call.at, ledger[p], shelf[p], owned[p])

\* The fate of the i-th member is settled.
IsThrough(i) ==
  \/ call.at = "close"
  \/ call.at = "score" /\ i <= call.i
  \/ call.at = "pay" /\ i < call.i

\* Whatever stands on the crew is known to the call that will write the heist, or is done
\* with; and the crew an erasure will put back stands there still, or is done with.
Gone == settled \cup lost
CrewIsKnown ==
  /\ call.at \in {"crew", "pay", "score", "close"} =>
       Tokens(heist.crew) \subseteq Tokens(call.job.crew) \cup Gone
  /\ call.at \in {"pay", "score", "close"} =>
       \A i \in DOMAIN call.job.crew : IsThrough(i) => call.job.crew[i].n \in Gone
  /\ plan # None /\ ~plan.gone => Tokens(plan.job.crew) \subseteq Tokens(heist.crew) \cup Gone

IInv == TypeOK /\ GoodsAreSound /\ StakesAreAccounted /\ CrewIsKnown

-----------------------------------------------------------------------------
(* What the parts of the state are.                                                      *)

Calls == EggCalls \cup BetCalls \cup GiftCalls \cup CrewCalls \cup BookCalls \cup FateCalls

\* A call is of the sort its place in the code tells.
LEMMA CallsBySort ==
  ASSUME TypeOK
  PROVE  /\ call.at \in Eggs => call \in EggCalls
         /\ call.at = "settle" => call \in BetCalls
         /\ call.at = "gift" => call \in GiftCalls
         /\ call.at = "tally" => call \in BetCalls \cup GiftCalls
         /\ call.at = "crew" => call \in CrewCalls
         /\ call.at = "book" => call \in BookCalls
         /\ call.at \in {"pay", "score", "close"} => call \in FateCalls
         /\ call = Idle \/ call \in Calls
<1>1. call \in {Idle} \cup Calls
  BY DEF TypeOK, Calls
<1>2. \A c \in EggCalls : c.at \in Eggs
  BY DEF EggCalls, Eggs
<1>3. \A c \in BetCalls : c.at \in {"settle", "tally"}
  BY DEF BetCalls
<1>4. \A c \in GiftCalls : c.at \in {"gift", "tally"}
  BY DEF GiftCalls
<1>5. \A c \in CrewCalls : c.at = "crew"
  BY DEF CrewCalls
<1>6. \A c \in BookCalls : c.at = "book"
  BY DEF BookCalls
<1>7. \A c \in FateCalls : c.at \in {"pay", "score", "close"}
  BY DEF FateCalls
<1>8. Idle.at = "idle"
  BY DEF Idle
<1> QED
  BY <1>1, <1>2, <1>3, <1>4, <1>5, <1>6, <1>7, <1>8 DEF Calls, Eggs

Kinds == {"buy", "refund", "trade", "stake", "win", "gift", "to", "earned"}
Books == Seq((1..(MaxDraws + MaxGains)) \X Kinds)

LEMMA Bounds == MaxDraws \in Nat /\ MaxGains \in Nat /\ EggDraws <= MaxDraws /\ BetDraws <= MaxDraws
  BY BrassAssumption DEF MaxDraws

LEMMA Numbers ==
  /\ EggCost \in Nat \ {0} /\ Refund \in Nat \ {0} /\ Bundle \in Nat \ {0} /\ JunkValue \in Nat \ {0}
  /\ Gain \in Nat \ {0} /\ MaxCrew \in Nat \ {0} /\ LedgerKept \in Nat \ {0}
  /\ LossLimit \in Nat /\ GiftLimit \in Nat /\ EggDraws \in Nat /\ BetDraws \in Nat
  /\ MaxGains \in Nat /\ MaxDay \in Nat /\ MaxLoss \in Nat
  BY BrassAssumption

Money == balance \in [People -> Nat] /\ ledger \in [People -> Books]

LEMMA BetsAreNumbers ==
  /\ \A n \in Bets : n \in Nat /\ n > 0
  /\ \A m \in Multipliers : m \in Nat
  BY BrassAssumption

\* A change of brass keeps balances natural and ledgers well formed.
LEMMA ChangeIsTyped ==
  ASSUME NEW p \in People, NEW amount \in Int, NEW n \in 1..(MaxDraws + MaxGains), NEW kind \in Kinds,
         Money, Change(p, amount, <<n, kind>>)
  PROVE  Money'
<1>1. CASE UNCHANGED money
  BY <1>1 DEF Money, money
<1>2. CASE ~UNCHANGED money
  <2>1. /\ balance[p] + amount >= 0
        /\ balance' = [balance EXCEPT ![p] = @ + amount]
        /\ ledger' = [ledger EXCEPT ![p] = Append(@, <<n, kind>>)]
    BY <1>2 DEF Change
  <2>2. balance[p] + amount \in Nat
    BY <2>1 DEF Money
  <2>3. Append(ledger[p], <<n, kind>>) \in Books
    BY DEF Money, Books
  <2> QED
    BY <2>1, <2>2, <2>3 DEF Money
<1> QED
  BY <1>1, <1>2

-----------------------------------------------------------------------------
(* Type correctness, part by part.                                                       *)

GoodsTyped ==
  /\ shelf \in [People -> Shelves] /\ owned \in [People -> SUBSET (Cosmetics \X (1..MaxDraws))]
  /\ laid \in [People -> Nat] /\ found \in [People -> Nat]
JobTyped == heist \in Heists /\ timer \in Nat /\ stranded \in BOOLEAN
CallTyped == call \in {Idle} \cup Calls
WorldTyped == alive \subseteq People /\ plan \in Plans \cup {None} /\ day \in 0..MaxDay
StakesTyped == settled \subseteq 1..MaxDraws /\ lost \subseteq 1..MaxDraws
WagersTyped == wagers \in [People -> Wagerings]
CountsTyped == draws \in 0..MaxDraws /\ gains \in 0..MaxGains

LEMMA TypeParts ==
  TypeOK <=> /\ Money /\ GoodsTyped /\ JobTyped /\ CallTyped /\ WorldTyped /\ StakesTyped
             /\ WagersTyped /\ CountsTyped
  BY DEF TypeOK, Money, Books, Kinds, GoodsTyped, JobTyped, CallTyped, Calls, WorldTyped,
         StakesTyped, WagersTyped, CountsTyped

LEMMA TypePartsNext ==
  TypeOK' <=> /\ Money' /\ GoodsTyped' /\ JobTyped' /\ CallTyped' /\ WorldTyped' /\ StakesTyped'
              /\ WagersTyped' /\ CountsTyped'
  BY TypeParts, PTL

LEMMA TypesStay ==
  ASSUME TypeOK
  PROVE  /\ UNCHANGED money => Money'
         /\ UNCHANGED goods => GoodsTyped'
         /\ UNCHANGED job => JobTyped'
         /\ UNCHANGED call => CallTyped'
         /\ UNCHANGED <<alive, plan, day>> => WorldTyped'
         /\ UNCHANGED world => WorldTyped' /\ gains' = gains
         /\ UNCHANGED stakes => StakesTyped'
         /\ UNCHANGED wagers => WagersTyped'
         /\ UNCHANGED draws /\ gains' = gains => CountsTyped'
         /\ call' = Idle => CallTyped'
<1> USE TypeParts
<1>1. UNCHANGED money => Money'
  BY DEF money, Money
<1>2. UNCHANGED goods => GoodsTyped'
  BY DEF goods, GoodsTyped
<1>3. UNCHANGED job => JobTyped'
  BY DEF job, JobTyped
<1>4. UNCHANGED call \/ call' = Idle => CallTyped'
  BY DEF CallTyped, Calls, EggCalls, BetCalls, GiftCalls, CrewCalls, BookCalls, FateCalls
<1>5. UNCHANGED <<alive, plan, day>> => WorldTyped'
  BY DEF WorldTyped
<1>6. UNCHANGED world => UNCHANGED <<alive, plan, day>> /\ gains' = gains
  BY DEF world
<1>7. UNCHANGED stakes => StakesTyped'
  BY DEF stakes, StakesTyped
<1>8. UNCHANGED wagers => WagersTyped'
  BY DEF WagersTyped
<1>9. UNCHANGED draws /\ gains' = gains => CountsTyped'
  BY DEF CountsTyped
<1> QED
  BY <1>1, <1>2, <1>3, <1>4, <1>5, <1>6, <1>7, <1>8, <1>9

\* A drawn token is one more than those drawn before.
LEMMA DrawIsTyped ==
  ASSUME CountsTyped, NEW bound \in {EggDraws, BetDraws}, Draw(bound), gains' = gains
  PROVE  CountsTyped' /\ draws' = draws + 1 /\ draws' \in 1..MaxDraws /\ draws' \in 1..(MaxDraws + MaxGains)
  BY Bounds, Numbers DEF Draw, CountsTyped

LEMMA DoneIsTyped ==
  ASSUME TypeOK, CallTyped, call \in Calls, Done
  PROVE  CallTyped' /\ timer' \in Nat
<1>1. call.tick \in Nat
  BY DEF Calls, EggCalls, BetCalls, GiftCalls, CrewCalls, BookCalls, FateCalls
<1>2. timer' \in Nat
  BY DEF Done, TypeOK
<1> QED
  BY <1>2, TypesStay DEF Done

LEMMA NoneIsNoRecord ==
  /\ None \notin Pendings /\ None \notin Plans
  BY BrassAssumption

LEMMA ShelfIsTyped ==
  ASSUME NEW eggs \in Nat, NEW junk \in Nat, NEW pending \in Pendings \cup {None},
         pending = None \/ /\ pending.kind = "hatch" => eggs > 0
                           /\ pending.kind = "trade" => junk >= Bundle
  PROVE  [eggs |-> eggs, junk |-> junk, pending |-> pending] \in Shelves
  BY DEF Shelves, Tells

LEMMA PlainShelfIsTyped ==
  ASSUME NEW eggs \in Nat, NEW junk \in Nat
  PROVE  Shelf(eggs, junk) \in Shelves
  BY ShelfIsTyped DEF Shelf

\* The records of the calls.
LEMMA EggCallIsTyped ==
  ASSUME NEW at \in Eggs, NEW p \in People, NEW s \in Shelves, NEW pull \in BOOLEAN, NEW tick \in Nat,
         Fits(at, s)
  PROVE  [at |-> at, who |-> p, shelf |-> s, pull |-> pull, tick |-> tick] \in EggCalls
  BY DEF EggCalls

LEMMA EggCallGoesOn ==
  ASSUME call \in EggCalls, NEW at \in Eggs, NEW s \in Shelves
  PROVE  /\ Fits(at, call.shelf) => [call EXCEPT !.at = at] \in EggCalls
         /\ Fits(at, s) => [call EXCEPT !.at = at, !.shelf = s] \in EggCalls
<1>1. call \in [at : Eggs, who : People, shelf : Shelves, pull : BOOLEAN, tick : Nat]
  BY DEF EggCalls
<1>2. Fits(at, call.shelf) => [call EXCEPT !.at = at] \in EggCalls
  BY <1>1 DEF EggCalls
<1>3. Fits(at, s) => [call EXCEPT !.at = at, !.shelf = s] \in EggCalls
  BY <1>1 DEF EggCalls
<1> QED
  BY <1>2, <1>3

\* Taking a part of a shelf's record anew.
LEMMA ShelfParts ==
  ASSUME NEW s \in Shelves
  PROVE  /\ s.eggs \in Nat /\ s.junk \in Nat /\ s.pending \in Pendings \cup {None}
         /\ s.pending # None => /\ s.pending \in Pendings
                                /\ s.pending.kind = "hatch" => s.eggs > 0
                                /\ s.pending.kind = "trade" => s.junk >= Bundle
         /\ s = [eggs |-> s.eggs, junk |-> s.junk, pending |-> s.pending]
         /\ \A x : [s EXCEPT !.pending = x] = [eggs |-> s.eggs, junk |-> s.junk, pending |-> x]
<1>1. s \in [eggs : Nat, junk : Nat, pending : Pendings \cup {None}]
  BY DEF Shelves
<1>2. /\ s.eggs \in Nat /\ s.junk \in Nat /\ s.pending \in Pendings \cup {None}
      /\ s = [eggs |-> s.eggs, junk |-> s.junk, pending |-> s.pending]
  BY <1>1
<1>3. s.pending # None => /\ s.pending \in Pendings
                          /\ s.pending.kind = "hatch" => s.eggs > 0
                          /\ s.pending.kind = "trade" => s.junk >= Bundle
  BY DEF Shelves, Tells
<1>4. ASSUME NEW x
      PROVE  [s EXCEPT !.pending = x] = [eggs |-> s.eggs, junk |-> s.junk, pending |-> x]
  BY <1>1
<1> QED
  BY <1>2, <1>3, <1>4

\* What a recorded action looks like, and the shelf with it.
LEMMA RecordIsTyped ==
  ASSUME NEW s \in Shelves, NEW kind \in {"buy", "hatch", "trade"}, NEW n \in 1..MaxDraws,
         NEW what \in Cosmetics \cup {Item},
         kind = "hatch" => s.eggs > 0, kind = "trade" => s.junk >= Bundle
  PROVE  LET r == [kind |-> kind, n |-> n, what |-> what]
         IN /\ r \in Pendings /\ r # None
            /\ [s EXCEPT !.pending = r] \in Shelves /\ Tells([s EXCEPT !.pending = r], kind)
<1> DEFINE r == [kind |-> kind, n |-> n, what |-> what]
<1>1. r \in Pendings /\ r.kind = kind
  BY DEF Pendings
<1>2. r # None
  BY <1>1, NoneIsNoRecord
<1> HIDE DEF r
<1>3. [eggs |-> s.eggs, junk |-> s.junk, pending |-> r] \in Shelves
  BY <1>1, ShelfParts, ShelfIsTyped
<1>4. [s EXCEPT !.pending = r] \in Shelves /\ [s EXCEPT !.pending = r].pending = r
  BY <1>3, ShelfParts
<1>5. Tells([s EXCEPT !.pending = r], kind)
  BY <1>1, <1>2, <1>4 DEF Tells
<1> QED
  BY <1>1, <1>2, <1>4, <1>5 DEF r

LEMMA SaveIsTyped ==
  ASSUME GoodsTyped, NEW p \in People, NEW s \in Shelves, Save(p, s)
  PROVE  shelf' \in [People -> Shelves]
  BY DEF GoodsTyped, Save

LEMMA BuyIsTyped ==
  ASSUME TypeOK, NEW p \in People, NEW pull \in BOOLEAN, BuyEgg(p, pull)
  PROVE  TypeOK'
<1> DEFINE r == [kind |-> "buy", n |-> draws', what |-> Item]
           s == [shelf[p] EXCEPT !.pending = r]
<1>1. CountsTyped' /\ draws' \in 1..MaxDraws
  BY TypeParts, DrawIsTyped DEF BuyEgg, world
<1>2. s \in Shelves /\ Tells(s, "buy")
  <2>1. shelf[p] \in Shelves /\ Item \in Cosmetics \cup {Item}
    BY TypeParts DEF GoodsTyped
  <2> QED
    BY <1>1, <2>1, RecordIsTyped
<1>3. Save(p, s) /\ call' = [at |-> "charge", who |-> p, shelf |-> s, pull |-> pull, tick |-> 0]
  BY DEF BuyEgg
<1> HIDE DEF s
<1>4. GoodsTyped'
  BY <1>2, <1>3, SaveIsTyped, TypeParts DEF BuyEgg, GoodsTyped
<1>5. CallTyped'
  <2>1. "charge" \in Eggs /\ 0 \in Nat /\ Fits("charge", s)
    BY <1>2 DEF Eggs, Fits
  <2>2. call' \in EggCalls
    BY <1>2, <1>3, <2>1, EggCallIsTyped
  <2> QED
    BY <2>2 DEF CallTyped, Calls
<1>6. UNCHANGED <<money, job, stakes, world, wagers>>
  BY DEF BuyEgg
<1> QED
  BY <1>1, <1>4, <1>5, <1>6, TypePartsNext, TypesStay

LEMMA HatchIsTyped ==
  ASSUME TypeOK, NEW p \in People, HatchEgg(p)
  PROVE  TypeOK'
<1>1. call' \in EggCalls
  <2>1. /\ shelf[p] \in Shelves /\ "roll" \in Eggs /\ 0 \in Nat /\ FALSE \in BOOLEAN
        /\ call' = [at |-> "roll", who |-> p, shelf |-> shelf[p], pull |-> FALSE, tick |-> 0]
        /\ Fits("roll", shelf[p])
    BY TypeParts DEF HatchEgg, Begin, GoodsTyped, Eggs, Fits, Settled
  <2> QED
    BY <2>1, EggCallIsTyped
<1>2. CallTyped'
  BY <1>1 DEF CallTyped, Calls
<1>3. UNCHANGED <<money, goods, job, stakes, world, wagers, draws>>
  BY DEF HatchEgg
<1> QED
  BY <1>2, <1>3, TypePartsNext, TypesStay

LEMMA RecycleIsTyped ==
  ASSUME TypeOK, NEW p \in People, Recycle(p)
  PROVE  TypeOK'
<1> DEFINE r == [kind |-> "trade", n |-> draws', what |-> Item]
           s == [shelf[p] EXCEPT !.pending = r]
<1>1. CountsTyped' /\ draws' \in 1..MaxDraws
  BY TypeParts, DrawIsTyped DEF Recycle, world
<1>2. s \in Shelves /\ Tells(s, "trade")
  <2>1. shelf[p] \in Shelves /\ Item \in Cosmetics \cup {Item} /\ shelf[p].junk >= Bundle
    BY TypeParts DEF GoodsTyped, Recycle
  <2> QED
    BY <1>1, <2>1, RecordIsTyped
<1>3. Save(p, s) /\ call' = [at |-> "trade", who |-> p, shelf |-> s, pull |-> FALSE, tick |-> 0]
  BY DEF Recycle, Begin
<1> HIDE DEF s
<1>4. GoodsTyped'
  BY <1>2, <1>3, SaveIsTyped, TypeParts DEF Recycle, GoodsTyped
<1>5. CallTyped'
  <2>1. "trade" \in Eggs /\ 0 \in Nat /\ FALSE \in BOOLEAN /\ Fits("trade", s)
    BY <1>2 DEF Eggs, Fits
  <2>2. call' \in EggCalls
    BY <1>2, <1>3, <2>1, EggCallIsTyped
  <2> QED
    BY <2>2 DEF CallTyped, Calls
<1>6. UNCHANGED <<money, job, stakes, world, wagers>>
  BY DEF Recycle
<1> QED
  BY <1>1, <1>4, <1>5, <1>6, TypePartsNext, TypesStay

LEMMA RecoverIsTyped ==
  ASSUME TypeOK, NEW p \in People, Recover(p)
  PROVE  TypeOK'
<1>1. PICK at \in Eggs : /\ Fits(at, shelf[p])
        /\ call' = [at |-> at, who |-> p, shelf |-> shelf[p], pull |-> FALSE, tick |-> 0]
  <2>1. shelf[p].pending # None /\ shelf[p].pending.kind \in {"buy", "hatch", "trade"}
    BY TypeParts DEF Recover, Settled, GoodsTyped, Shelves, Pendings
  <2>2. CASE Tells(shelf[p], "buy")
    BY <2>2 DEF Recover, Begin, Eggs, Fits, Tells
  <2>3. CASE Tells(shelf[p], "hatch")
    BY <2>3 DEF Recover, Begin, Eggs, Fits, Tells
  <2>4. CASE Tells(shelf[p], "trade")
    BY <2>4 DEF Recover, Begin, Eggs, Fits, Tells
  <2> QED
    BY <2>1, <2>2, <2>3, <2>4 DEF Tells
<1>2. call' \in EggCalls
  <2>1. shelf[p] \in Shelves /\ 0 \in Nat /\ FALSE \in BOOLEAN
    BY TypeParts DEF GoodsTyped
  <2> QED
    BY <1>1, <2>1, EggCallIsTyped
<1>3. CallTyped'
  BY <1>2 DEF CallTyped, Calls
<1>4. UNCHANGED <<money, goods, job, stakes, world, wagers, draws>>
  BY DEF Recover
<1> QED
  BY <1>3, <1>4, TypePartsNext, TypesStay

\* A call for an egg, its record, and the token it uses.
LEMMA EggCallParts ==
  ASSUME TypeOK, call.at \in Eggs
  PROVE  /\ call \in EggCalls /\ call \in Calls /\ call.who \in People /\ call.shelf \in Shelves
         /\ call.pull \in BOOLEAN /\ call.tick \in Nat /\ Fits(call.at, call.shelf)
         /\ call.at # "roll" =>
              /\ call.shelf.pending # None
              /\ call.shelf.pending.n \in 1..(MaxDraws + MaxGains) /\ call.shelf.pending.n \in 1..MaxDraws
              /\ call.shelf.pending.what \in Cosmetics \cup {Item}
<1>1. call \in EggCalls
  BY CallsBySort
<1>2. /\ call.who \in People /\ call.shelf \in Shelves /\ call.pull \in BOOLEAN /\ call.tick \in Nat
      /\ Fits(call.at, call.shelf)
  BY <1>1 DEF EggCalls
<1>3. call.at # "roll" => call.shelf.pending # None
  BY <1>2 DEF Fits, Tells, Eggs
<1>4. \A r \in Pendings : r.n \in 1..MaxDraws /\ r.what \in Cosmetics \cup {Item}
  BY DEF Pendings
<1>5. \A n \in 1..MaxDraws : n \in 1..(MaxDraws + MaxGains)
  BY Bounds
<1>6. call \in Calls
  BY <1>1 DEF Calls
<1>7. call.shelf.pending # None => call.shelf.pending \in Pendings
  BY <1>2, ShelfParts
<1> QED
  BY <1>1, <1>2, <1>3, <1>4, <1>5, <1>6, <1>7

\* The goods stay well formed when a call saves the shelf of its person.
LEMMA CallSavesTyped ==
  ASSUME TypeOK, call.at \in Eggs, NEW s \in Shelves, Save(call.who, s)
  PROVE  shelf' \in [People -> Shelves]
  BY EggCallParts, SaveIsTyped, TypeParts

LEMMA EggDoneIsTyped ==
  ASSUME TypeOK, call.at \in Eggs, Done, UNCHANGED <<heist, stranded>>
  PROVE  CallTyped' /\ JobTyped'
<1>1. CallTyped' /\ timer' \in Nat
  BY EggCallParts, TypeParts, DoneIsTyped
<1> QED
  BY <1>1, TypeParts DEF JobTyped

LEMMA EggGoesOnTyped ==
  ASSUME TypeOK, call.at \in Eggs, NEW at \in Eggs, Fits(at, call.shelf), Goto(at)
  PROVE  CallTyped'
<1>1. call' \in EggCalls
  <2>1. call \in EggCalls /\ call.shelf \in Shelves
    BY EggCallParts
  <2> QED
    BY <2>1, EggCallGoesOn DEF Goto
<1> QED
  BY <1>1 DEF CallTyped, Calls

LEMMA EggChangeIsTyped ==
  ASSUME TypeOK, call.at \in Eggs \ {"roll"}, NEW amount \in Int, NEW kind \in Kinds,
         Change(call.who, amount, Event(kind))
  PROVE  Money'
<1>1. call.who \in People /\ call.shelf.pending.n \in 1..(MaxDraws + MaxGains) /\ Money
  BY EggCallParts, TypeParts
<1> QED
  BY <1>1, ChangeIsTyped DEF Event

LEMMA ChargeIsTyped ==
  ASSUME TypeOK, Charge
  PROVE  TypeOK'
<1>1. /\ call.at \in Eggs /\ call.at \in Eggs \ {"roll"} /\ "lay" \in Eggs /\ "give up" \in Eggs
      /\ "buy" \in Kinds
  BY DEF Charge, Eggs, Kinds
<1>2. UNCHANGED <<goods, job, stakes, world, wagers, draws>>
  BY DEF Charge
<1>3. Fits("lay", call.shelf) /\ Fits("give up", call.shelf)
  BY <1>1, EggCallParts DEF Fits, Charge
<1>4. Money'
  <2>1. -EggCost \in Int
    BY Numbers
  <2> QED
    BY <1>1, <2>1, TypesStay, EggChangeIsTyped DEF Charge
<1>5. CallTyped'
  BY <1>1, <1>3, EggGoesOnTyped DEF Charge
<1> QED
  BY <1>2, <1>4, <1>5, TypePartsNext, TypesStay

LEMMA LayIsTyped ==
  ASSUME TypeOK, Lay
  PROVE  TypeOK'
<1> DEFINE s == Shelf(call.shelf.eggs + 1, call.shelf.junk)
<1>1. call.at \in Eggs /\ call.shelf \in Shelves
  BY EggCallParts DEF Lay, Eggs
<1>2. s \in Shelves /\ s.pending = None /\ s.eggs > 0
  <2>1. call.shelf.eggs \in Nat /\ call.shelf.junk \in Nat
    BY <1>1, ShelfParts
  <2>2. call.shelf.eggs + 1 \in Nat /\ call.shelf.eggs + 1 > 0
    BY <2>1
  <2> QED
    BY <2>1, <2>2, PlainShelfIsTyped DEF Shelf
<1>3. /\ Save(call.who, s)
      /\ \/ call' = [call EXCEPT !.at = "roll", !.shelf = s] /\ UNCHANGED timer
         \/ Done
      /\ laid' = [laid EXCEPT ![call.who] = @ + 1]
      /\ UNCHANGED <<money, owned, found, heist, stranded, stakes, world, wagers, draws>>
  BY DEF Lay
<1> HIDE DEF s
<1>4. GoodsTyped'
  <2>1. shelf' \in [People -> Shelves]
    BY <1>1, <1>2, <1>3, CallSavesTyped
  <2>2. laid' \in [People -> Nat]
    <3>1. call.who \in People /\ laid \in [People -> Nat]
      BY <1>1, EggCallParts, TypeParts DEF GoodsTyped
    <3>2. laid[call.who] + 1 \in Nat
      BY <3>1
    <3> QED
      BY <1>3, <3>1, <3>2
  <2> QED
    BY <1>3, <2>1, <2>2, TypeParts DEF GoodsTyped
<1>5. CallTyped' /\ JobTyped'
  <2>1. CASE call' = [call EXCEPT !.at = "roll", !.shelf = s] /\ UNCHANGED timer
    <3>1. "roll" \in Eggs /\ Fits("roll", s) /\ call \in EggCalls
      BY <1>1, <1>2, EggCallParts DEF Eggs, Fits
    <3>2. call' \in EggCalls
      BY <1>2, <2>1, <3>1, EggCallGoesOn
    <3>3. CallTyped'
      BY <3>2 DEF CallTyped, Calls
    <3> QED
      BY <1>3, <2>1, <3>3, TypeParts DEF JobTyped
  <2>2. CASE Done
    BY <1>1, <1>3, <2>2, EggDoneIsTyped
  <2> QED
    BY <1>3, <2>1, <2>2
<1> QED
  BY <1>3, <1>4, <1>5, TypePartsNext, TypesStay

LEMMA GiveUpIsTyped ==
  ASSUME TypeOK, GiveUp
  PROVE  TypeOK'
<1> DEFINE s == Shelf(call.shelf.eggs, call.shelf.junk)
<1>1. call.at \in Eggs /\ call.shelf \in Shelves
  BY EggCallParts DEF GiveUp, Eggs
<1>2. s \in Shelves
  BY <1>1, ShelfParts, PlainShelfIsTyped
<1>3. /\ Save(call.who, s) /\ Done
      /\ UNCHANGED <<money, owned, laid, found, heist, stranded, stakes, world, wagers, draws>>
  BY DEF GiveUp
<1> HIDE DEF s
<1>4. GoodsTyped'
  <2>1. shelf' \in [People -> Shelves]
    BY <1>1, <1>2, <1>3, CallSavesTyped
  <2> QED
    BY <1>3, <2>1, TypeParts DEF GoodsTyped
<1>5. CallTyped' /\ JobTyped'
  BY <1>1, <1>3, EggDoneIsTyped
<1> QED
  BY <1>3, <1>4, <1>5, TypePartsNext, TypesStay

LEMMA RollIsTyped ==
  ASSUME TypeOK, NEW what \in Cosmetics \cup {Item}, Roll(what)
  PROVE  TypeOK'
<1> DEFINE s == [call.shelf EXCEPT !.pending = [kind |-> "hatch", n |-> draws', what |-> what]]
<1>1. CountsTyped' /\ draws' \in 1..MaxDraws
  BY TypeParts, DrawIsTyped DEF Roll, world
<1>2. call.at \in Eggs /\ call.shelf \in Shelves /\ call \in EggCalls /\ call.shelf.eggs > 0
  BY EggCallParts DEF Roll, Eggs, Fits
<1>3. s \in Shelves /\ Tells(s, "hatch")
  BY <1>1, <1>2, RecordIsTyped
<1>4. /\ Save(call.who, s) /\ call' = [call EXCEPT !.at = "grant", !.shelf = s]
      /\ UNCHANGED <<money, owned, laid, found, job, stakes, world, wagers>>
  BY DEF Roll
<1> HIDE DEF s
<1>5. GoodsTyped'
  <2>1. shelf' \in [People -> Shelves]
    BY <1>2, <1>3, <1>4, CallSavesTyped
  <2> QED
    BY <1>4, <2>1, TypeParts DEF GoodsTyped
<1>6. CallTyped'
  <2>1. "grant" \in Eggs /\ Fits("grant", s)
    BY <1>3 DEF Eggs, Fits
  <2>2. call' \in EggCalls
    BY <1>2, <1>3, <1>4, <2>1, EggCallGoesOn
  <2> QED
    BY <2>2 DEF CallTyped, Calls
<1> QED
  BY <1>1, <1>4, <1>5, <1>6, TypePartsNext, TypesStay

LEMMA GrantIsTyped ==
  ASSUME TypeOK, Grant
  PROVE  TypeOK'
<1> DEFINE p == call.who
           c == call.shelf.pending.what
           n == call.shelf.pending.n
<1>1. /\ call.at \in Eggs /\ p \in People /\ c \in Cosmetics \cup {Item} /\ n \in 1..MaxDraws
      /\ Fits("refund", call.shelf) /\ Fits("keep", call.shelf)
  <2>1. call.at \in Eggs /\ call.at # "roll" /\ call.at = "grant"
    BY DEF Grant, Eggs
  <2> QED
    BY <2>1, EggCallParts DEF Fits
<1>2. /\ Goto("refund") \/ Goto("keep")
      /\ \/ owned' = owned
         \/ c # Item /\ owned' = [owned EXCEPT ![p] = @ \cup {<<c, n>>}]
      /\ UNCHANGED <<money, shelf, laid, found, job, stakes, world, wagers, draws>>
  <2>1. UNCHANGED <<money, shelf, laid, found, job, stakes, world, wagers, draws>>
    BY DEF Grant
  <2>2. CASE c # Item /\ Duplicate(p, c, n)
    BY <2>1, <2>2 DEF Grant
  <2>3. CASE ~(c # Item /\ Duplicate(p, c, n))
    <3>1. Goto("keep") /\ owned' = IF c = Item THEN owned ELSE [owned EXCEPT ![p] = @ \cup {<<c, n>>}]
      BY <2>3 DEF Grant
    <3>2. CASE c = Item
      BY <2>1, <3>1, <3>2
    <3>3. CASE c # Item
      BY <2>1, <3>1, <3>3
    <3> QED
      BY <3>2, <3>3
  <2> QED
    BY <2>2, <2>3
<1> HIDE DEF p, c, n
<1>3. GoodsTyped'
  <2>1. owned \in [People -> SUBSET (Cosmetics \X (1..MaxDraws))]
    BY TypeParts DEF GoodsTyped
  <2>2. owned' \in [People -> SUBSET (Cosmetics \X (1..MaxDraws))]
    <3>1. CASE owned' = owned
      BY <2>1, <3>1
    <3>2. CASE c # Item /\ owned' = [owned EXCEPT ![p] = @ \cup {<<c, n>>}]
      <4>1. owned[p] \cup {<<c, n>>} \in SUBSET (Cosmetics \X (1..MaxDraws))
        BY <1>1, <2>1, <3>2
      <4> QED
        BY <2>1, <3>2, <4>1
    <3> QED
      BY <1>2, <3>1, <3>2
  <2> QED
    BY <1>2, <2>2, TypeParts DEF GoodsTyped
<1>4. CallTyped'
  <2>1. "refund" \in Eggs /\ "keep" \in Eggs
    BY DEF Eggs
  <2> QED
    BY <1>1, <1>2, <2>1, EggGoesOnTyped
<1> QED
  BY <1>2, <1>3, <1>4, TypePartsNext, TypesStay

LEMMA RefundIsTyped ==
  ASSUME TypeOK, RefundEgg
  PROVE  TypeOK'
<1>1. /\ call.at \in Eggs /\ call.at \in Eggs \ {"roll"} /\ "keep" \in Eggs /\ "refund" \in Kinds
  BY DEF RefundEgg, Eggs, Kinds
<1>2. UNCHANGED <<goods, job, stakes, world, wagers, draws>>
  BY DEF RefundEgg
<1>3. Money'
  <2>1. Refund \in Int
    BY Numbers
  <2> QED
    BY <1>1, <2>1, EggChangeIsTyped DEF RefundEgg
<1>4. CallTyped'
  <2>1. Fits("keep", call.shelf)
    BY <1>1, EggCallParts DEF Fits, RefundEgg
  <2> QED
    BY <1>1, <2>1, EggGoesOnTyped DEF RefundEgg
<1> QED
  BY <1>2, <1>3, <1>4, TypePartsNext, TypesStay

LEMMA KeepIsTyped ==
  ASSUME TypeOK, Keep
  PROVE  TypeOK'
<1>1. /\ call.at \in Eggs /\ call.shelf \in Shelves /\ call.who \in People
      /\ Tells(call.shelf, "hatch")
  BY EggCallParts DEF Keep, Eggs, Fits
<1>2. PICK one \in {0, 1} :
        /\ Save(call.who, Shelf(call.shelf.eggs - 1, call.shelf.junk + one))
        /\ found' = [found EXCEPT ![call.who] = @ + one]
  BY DEF Keep
<1>3. /\ Done
      /\ UNCHANGED <<money, owned, laid, heist, stranded, stakes, world, wagers, draws>>
  BY DEF Keep
<1>4. GoodsTyped'
  <2>1. call.shelf.eggs \in Nat /\ call.shelf.junk \in Nat /\ call.shelf.eggs > 0
    BY <1>1 DEF Shelves
  <2>2. call.shelf.eggs - 1 \in Nat /\ call.shelf.junk + one \in Nat
    BY <2>1
  <2>3. shelf' \in [People -> Shelves]
    BY <1>1, <1>2, <2>2, PlainShelfIsTyped, CallSavesTyped
  <2>4. found \in [People -> Nat]
    BY TypeParts DEF GoodsTyped
  <2>5. found[call.who] + one \in Nat
    BY <1>1, <2>4
  <2>6. found' \in [People -> Nat]
    BY <1>1, <1>2, <2>4, <2>5
  <2> QED
    BY <1>3, <2>3, <2>6, TypeParts DEF GoodsTyped
<1>5. CallTyped' /\ JobTyped'
  BY <1>1, <1>3, EggDoneIsTyped
<1> QED
  BY <1>3, <1>4, <1>5, TypePartsNext, TypesStay

LEMMA TradeIsTyped ==
  ASSUME TypeOK, Trade
  PROVE  TypeOK'
<1>1. /\ call.at \in Eggs /\ call.at \in Eggs \ {"roll"} /\ "compact" \in Eggs /\ "trade" \in Kinds
  BY DEF Trade, Eggs, Kinds
<1>2. UNCHANGED <<goods, job, stakes, world, wagers, draws>>
  BY DEF Trade
<1>3. Money'
  <2>1. JunkValue \in Int
    BY Numbers
  <2> QED
    BY <1>1, <2>1, EggChangeIsTyped DEF Trade
<1>4. CallTyped'
  <2>1. Fits("compact", call.shelf)
    BY <1>1, EggCallParts DEF Fits, Trade
  <2> QED
    BY <1>1, <2>1, EggGoesOnTyped DEF Trade
<1> QED
  BY <1>2, <1>3, <1>4, TypePartsNext, TypesStay

LEMMA CompactIsTyped ==
  ASSUME TypeOK, Compact
  PROVE  TypeOK'
<1>1. /\ call.at \in Eggs /\ call.shelf \in Shelves /\ Tells(call.shelf, "trade")
  BY EggCallParts DEF Compact, Eggs, Fits
<1>2. /\ Save(call.who, Shelf(call.shelf.eggs, call.shelf.junk - Bundle)) /\ Done
      /\ UNCHANGED <<money, owned, laid, found, heist, stranded, stakes, world, wagers, draws>>
  BY DEF Compact
<1>3. Shelf(call.shelf.eggs, call.shelf.junk - Bundle) \in Shelves
  <2>1. call.shelf.eggs \in Nat /\ call.shelf.junk \in Nat /\ call.shelf.junk >= Bundle
    BY <1>1 DEF Shelves
  <2>2. call.shelf.junk - Bundle \in Nat
    BY <2>1, Numbers
  <2> QED
    BY <2>1, <2>2, PlainShelfIsTyped
<1>4. GoodsTyped'
  <2>1. shelf' \in [People -> Shelves]
    BY <1>1, <1>2, <1>3, CallSavesTyped
  <2> QED
    BY <1>2, <2>1, TypeParts DEF GoodsTyped
<1>5. CallTyped' /\ JobTyped'
  BY <1>1, <1>2, EggDoneIsTyped
<1> QED
  BY <1>2, <1>4, <1>5, TypePartsNext, TypesStay

-----------------------------------------------------------------------------
(* Games and gifts.                                                                      *)

LEMMA TodayIsTyped ==
  ASSUME TypeOK, NEW p \in People
  PROVE  Today(p) \in Wagerings /\ Today(p).lost \in Int /\ Today(p).given \in Nat
<1>1. wagers[p] \in Wagerings /\ day \in 0..MaxDay
  BY TypeParts DEF WagersTyped, WorldTyped
<1>2. [NoWagers EXCEPT !.day = day] = [day |-> day, lost |-> 0, given |-> 0]
  BY DEF NoWagers
<1>3. Today(p) \in Wagerings
  BY <1>1, <1>2 DEF Today, Wagerings
<1> QED
  BY <1>3 DEF Wagerings

LEMMA StakeIsTyped ==
  ASSUME TypeOK, NEW p \in People, NEW n \in Bets, NEW kind \in Kinds,
         Draw(BetDraws), Change(p, -n, <<draws', kind>>), UNCHANGED world
  PROVE  Money' /\ CountsTyped' /\ draws' \in 1..MaxDraws
<1>1. CountsTyped' /\ draws' \in 1..MaxDraws /\ draws' \in 1..(MaxDraws + MaxGains)
  BY TypeParts, DrawIsTyped DEF world
<1>2. n \in Nat
  BY BrassAssumption
<1>3. -n \in Int
  BY <1>2
<1>4. Money'
  BY <1>1, <1>3, TypeParts, ChangeIsTyped
<1> QED
  BY <1>1, <1>4

LEMMA WagerIsTyped ==
  ASSUME TypeOK, NEW p \in People, NEW n \in Bets, Wager(p, n)
  PROVE  TypeOK'
<1>1. /\ UNCHANGED <<goods, job, stakes, world, wagers>>
      /\ call' = [at |-> "settle", who |-> p, n |-> draws', stake |-> n,
                  wagers |-> Today(p), tick |-> 0]
  BY DEF Wager
<1>2. Money' /\ CountsTyped' /\ draws' \in 1..MaxDraws
  <2>1. "stake" \in Kinds
    BY DEF Kinds
  <2> QED
    BY <1>1, <2>1, StakeIsTyped DEF Wager, Stake
<1>3. CallTyped'
  <2>1. Today(p) \in Wagerings
    BY TodayIsTyped
  <2>2. call' \in BetCalls
    BY <1>1, <1>2, <2>1 DEF BetCalls
  <2> QED
    BY <2>2 DEF CallTyped, Calls
<1> QED
  BY <1>1, <1>2, <1>3, TypePartsNext, TypesStay

LEMMA GiveIsTyped ==
  ASSUME TypeOK, NEW p \in People, NEW to \in People, NEW n \in Bets, Give(p, to, n)
  PROVE  TypeOK'
<1>1. /\ UNCHANGED <<goods, job, stakes, world, wagers>>
      /\ call' = [at |-> "gift", who |-> p, n |-> draws', to |-> to, stake |-> n,
                  wagers |-> Today(p), tick |-> 0]
  BY DEF Give
<1>2. Money' /\ CountsTyped' /\ draws' \in 1..MaxDraws
  <2>1. "gift" \in Kinds
    BY DEF Kinds
  <2> QED
    BY <1>1, <2>1, StakeIsTyped DEF Give
<1>3. CallTyped'
  <2>1. Today(p) \in Wagerings
    BY TodayIsTyped
  <2>2. call' \in GiftCalls
    BY <1>1, <1>2, <2>1 DEF GiftCalls
  <2> QED
    BY <2>2 DEF CallTyped, Calls
<1> QED
  BY <1>1, <1>2, <1>3, TypePartsNext, TypesStay

LEMMA WithinIsInt ==
  ASSUME NEW x \in Int
  PROVE  Within(x) \in Int
  BY Numbers DEF Within

LEMMA LossIsTyped ==
  ASSUME NEW w \in Wagerings, NEW x \in Int, NEW y \in Nat
  PROVE  [w EXCEPT !.lost = x] \in Wagerings /\ [w EXCEPT !.given = y] \in Wagerings
  BY DEF Wagerings

LEMMA SettleIsTyped ==
  ASSUME TypeOK, NEW m \in Multipliers, Settle(m)
  PROVE  TypeOK'
<1> DEFINE loss == Within(call.wagers.lost + call.stake - m * call.stake)
           w == [call.wagers EXCEPT !.lost = loss]
<1>1. call \in BetCalls
  BY CallsBySort DEF Settle
<1>2. /\ call.who \in People /\ call.n \in 1..MaxDraws /\ call.stake \in Bets
      /\ call.wagers \in Wagerings
  BY <1>1 DEF BetCalls
<1>3. call.stake \in Nat /\ m \in Nat /\ m * call.stake \in Int
  <2>1. call.stake \in Nat /\ m \in Nat
    BY <1>2, BrassAssumption
  <2> QED
    BY <2>1
<1>4. Money'
  <2>1. "win" \in Kinds /\ call.n \in 1..(MaxDraws + MaxGains)
    BY <1>2, Bounds DEF Kinds
  <2>2. CASE UNCHANGED money
    BY <2>2, TypesStay
  <2>3. CASE Change(call.who, m * call.stake, <<call.n, "win">>)
    BY <1>2, <1>3, <2>1, <2>3, TypeParts, ChangeIsTyped
  <2> QED
    BY <2>2, <2>3 DEF Settle
<1>5. w \in Wagerings
  <2>1. call.wagers.lost \in Int
    BY <1>2 DEF Wagerings
  <2>2. call.wagers.lost + call.stake - m * call.stake \in Int
    BY <1>3, <2>1
  <2>3. loss \in Int
    BY <2>2, WithinIsInt
  <2> HIDE DEF loss
  <2> QED
    BY <1>2, <2>3, LossIsTyped
<1>6. CallTyped'
  <2>1. call' = [call EXCEPT !.at = "tally", !.wagers = w]
    BY <1>1 DEF Settle, BetCalls
  <2> HIDE DEF w
  <2>2. call' \in BetCalls
    BY <1>1, <1>5, <2>1 DEF BetCalls
  <2> QED
    BY <2>2 DEF CallTyped, Calls
<1>7. StakesTyped'
  <2>1. settled' = settled \cup {call.n} /\ lost' = lost
    BY DEF Settle
  <2> QED
    BY <1>2, <2>1, TypeParts DEF StakesTyped
<1>8. UNCHANGED <<goods, job, world, wagers, draws>>
  BY DEF Settle
<1> QED
  BY <1>4, <1>6, <1>7, <1>8, TypePartsNext, TypesStay

LEMMA TallyIsTyped ==
  ASSUME TypeOK, Tally
  PROVE  TypeOK'
<1>1. call \in BetCalls \cup GiftCalls /\ call \in Calls
  BY CallsBySort DEF Tally, Calls
<1>2. call.who \in People /\ call.wagers \in Wagerings
  BY <1>1 DEF BetCalls, GiftCalls
<1>3. WagersTyped'
  BY <1>2, TypeParts DEF Tally, WagersTyped
<1>4. CallTyped' /\ JobTyped'
  <2>1. CallTyped' /\ timer' \in Nat
    BY <1>1, TypeParts, DoneIsTyped DEF Tally
  <2> QED
    BY <2>1, TypeParts DEF JobTyped, Tally
<1>5. UNCHANGED <<money, goods, stakes, world, draws>>
  BY DEF Tally
<1> QED
  BY <1>3, <1>4, <1>5, TypePartsNext, TypesStay

LEMMA HandOverIsTyped ==
  ASSUME TypeOK, HandOver
  PROVE  TypeOK'
<1> DEFINE w == [call.wagers EXCEPT !.given = call.wagers.given + call.stake]
<1>1. call \in GiftCalls
  BY CallsBySort DEF HandOver
<1>2. /\ call.to \in People /\ call.n \in 1..MaxDraws /\ call.stake \in Bets
      /\ call.wagers \in Wagerings
  BY <1>1 DEF GiftCalls
<1>3. call.stake \in Nat /\ call.stake \in Int
  <2>1. call.stake \in Nat
    BY <1>2, BetsAreNumbers
  <2> QED
    BY <2>1
<1>4. Money'
  <2>1. "to" \in Kinds /\ call.n \in 1..(MaxDraws + MaxGains)
    BY <1>2, Bounds DEF Kinds
  <2> QED
    BY <1>2, <1>3, <2>1, TypeParts, ChangeIsTyped DEF HandOver
<1>5. w \in Wagerings
  <2>1. call.wagers.given \in Nat
    BY <1>2 DEF Wagerings
  <2>2. call.wagers.given + call.stake \in Nat
    BY <1>3, <2>1
  <2> QED
    BY <1>2, <2>2, LossIsTyped DEF Wagerings
<1>6. CallTyped'
  <2>1. call' = [call EXCEPT !.at = "tally", !.wagers = w]
    BY <1>1 DEF HandOver, GiftCalls
  <2> HIDE DEF w
  <2>2. call' \in GiftCalls
    BY <1>1, <1>5, <2>1 DEF GiftCalls
  <2> QED
    BY <2>2 DEF CallTyped, Calls
<1>7. StakesTyped'
  <2>1. settled' = settled \cup {call.n} /\ lost' = lost
    BY DEF HandOver
  <2> QED
    BY <1>2, <2>1, TypeParts DEF StakesTyped
<1>8. UNCHANGED <<goods, job, world, wagers, draws>>
  BY DEF HandOver
<1> QED
  BY <1>4, <1>6, <1>7, <1>8, TypePartsNext, TypesStay

-----------------------------------------------------------------------------
(* Heists.                                                                               *)

\* A sequence without its i-th element.
LEMMA OneLess ==
  ASSUME NEW S, NEW c \in Seq(S), NEW i \in DOMAIN c
  PROVE  LET d == SubSeq(c, 1, i - 1) \o SubSeq(c, i + 1, Len(c))
         IN /\ d \in Seq(S) /\ Len(d) = Len(c) - 1
            /\ \A k \in DOMAIN d : d[k] = IF k < i THEN c[k] ELSE c[k + 1]
<1> DEFINE a == SubSeq(c, 1, i - 1)
           b == SubSeq(c, i + 1, Len(c))
<1>1. Len(c) \in Nat /\ i \in 1..Len(c)
  OBVIOUS
<1>2. /\ a \in Seq(S) /\ Len(a) = i - 1
      /\ \A k \in 1..(i - 1) : a[k] = c[k]
  BY <1>1
<1>3. /\ b \in Seq(S) /\ Len(b) = Len(c) - i
      /\ \A k \in 1..(Len(c) - i) : b[k] = c[i + k]
  BY <1>1
<1> HIDE DEF a, b
<1>4. a \o b \in Seq(S) /\ Len(a \o b) = Len(c) - 1
  BY <1>1, <1>2, <1>3
<1>5. ASSUME NEW k \in DOMAIN (a \o b)
      PROVE  (a \o b)[k] = IF k < i THEN c[k] ELSE c[k + 1]
  <2>1. k \in 1..(Len(c) - 1) /\ k \in Int
    BY <1>4
  <2>2. CASE k < i
    BY <1>1, <1>2, <1>3, <2>1, <2>2
  <2>3. CASE ~(k < i)
    <3>1. (a \o b)[k] = b[k - (i - 1)]
      <4>1. /\ Len(a) \in Nat /\ Len(b) \in Nat /\ k \in 1..(Len(a) + Len(b)) /\ ~(k <= Len(a))
            /\ k - Len(a) = k - (i - 1)
        BY <1>1, <1>2, <1>3, <2>1, <2>3
      <4>2. (a \o b)[k] = b[k - Len(a)]
        BY <1>2, <1>3, <4>1
      <4> QED
        BY <4>1, <4>2
    <3>2. k - (i - 1) \in 1..(Len(c) - i) /\ i + (k - (i - 1)) = k + 1
      BY <1>1, <2>1, <2>3
    <3> QED
      BY <1>3, <2>3, <3>1, <3>2
  <2> QED
    BY <2>2, <2>3
<1> QED
  BY <1>4, <1>5 DEF a, b

Members == [who : People, stake : Bets, n : 1..MaxDraws]

LEMMA HeistParts ==
  ASSUME NEW j \in Heists
  PROVE  /\ j \in [active : BOOLEAN, crew : Crews, beat : 0..2, seq : Nat, cooling : BOOLEAN]
         /\ j.crew \in Seq(Members) /\ Len(j.crew) <= MaxCrew /\ Len(j.crew) \in Nat
         /\ \A i, k \in DOMAIN j.crew : j.crew[i].who = j.crew[k].who => i = k
         /\ \A i \in DOMAIN j.crew : /\ j.crew[i].who \in People /\ j.crew[i].stake \in Bets
                                     /\ j.crew[i].n \in 1..MaxDraws
         /\ j.seq \in Nat /\ (~j.active => j.crew = <<>>)
<1>1. j \in [active : BOOLEAN, crew : Crews, beat : 0..2, seq : Nat, cooling : BOOLEAN]
      /\ (~j.active => j.crew = <<>>)
  BY DEF Heists
<1>2. /\ j.crew \in Seq(Members) /\ Len(j.crew) <= MaxCrew
      /\ \A i, k \in DOMAIN j.crew : j.crew[i].who = j.crew[k].who => i = k
  BY <1>1 DEF Crews, Members
<1>3. ASSUME NEW i \in DOMAIN j.crew
      PROVE  j.crew[i] \in Members
  BY <1>2
<1> QED
  BY <1>1, <1>2, <1>3 DEF Members

\* Taking a person off the crew.
LEMMA WithoutIsTyped ==
  ASSUME heist \in Heists, NEW p
  PROVE  /\ CrewWithout(p) \in Crews
         /\ heist.crew = <<>> => CrewWithout(p) = <<>>
         /\ Tokens(CrewWithout(p)) \subseteq Tokens(heist.crew)
<1> DEFINE c == heist.crew
<1>1. /\ c \in Seq(Members) /\ Len(c) <= MaxCrew /\ Len(c) \in Nat /\ c \in Crews
      /\ \A i, k \in DOMAIN c : c[i].who = c[k].who => i = k
  <2>1. c \in Crews
    BY DEF Heists
  <2> QED
    BY <2>1, HeistParts
<1> HIDE DEF c
<1>2. CASE \E i \in DOMAIN c : c[i].who = p
  <2> DEFINE i == CHOOSE i \in DOMAIN c : c[i].who = p
             d == SubSeq(c, 1, i - 1) \o SubSeq(c, i + 1, Len(c))
  <2>1. i \in DOMAIN c /\ c[i].who = p
    BY <1>2
  <2>2. CrewWithout(p) = d
    BY <1>2 DEF CrewWithout, c
  <2> HIDE DEF i
  <2>3. /\ d \in Seq(Members) /\ Len(d) = Len(c) - 1
        /\ \A k \in DOMAIN d : d[k] = IF k < i THEN c[k] ELSE c[k + 1]
    BY <1>1, <2>1, OneLess
  <2> HIDE DEF d
  <2>4. ASSUME NEW k \in DOMAIN d
        PROVE  \E h \in DOMAIN c : d[k] = c[h] /\ h = IF k < i THEN k ELSE k + 1
    BY <1>1, <2>1, <2>3
  <2>5. \A k, h \in DOMAIN d : d[k].who = d[h].who => k = h
    <3> SUFFICES ASSUME NEW k \in DOMAIN d, NEW h \in DOMAIN d, d[k].who = d[h].who
                 PROVE  k = h
      OBVIOUS
    <3>1. PICK kk \in DOMAIN c : d[k] = c[kk] /\ kk = IF k < i THEN k ELSE k + 1
      BY <2>4
    <3>2. PICK hh \in DOMAIN c : d[h] = c[hh] /\ hh = IF h < i THEN h ELSE h + 1
      BY <2>4
    <3>3. kk = hh
      BY <1>1, <3>1, <3>2
    <3>4. k \in Int /\ h \in Int /\ i \in Int
      BY <1>1, <2>1, <2>3
    <3> QED
      BY <3>1, <3>2, <3>3, <3>4
  <2>6. d \in Crews
    <3>1. Len(d) <= MaxCrew
      BY <1>1, <2>3, Numbers
    <3> QED
      BY <2>3, <2>5, <3>1 DEF Crews, Members
  <2>7. Tokens(d) \subseteq Tokens(c)
    BY <2>4 DEF Tokens
  <2>8. c # <<>>
    BY <2>1
  <2> QED
    BY <2>2, <2>6, <2>7, <2>8 DEF c
<1>3. CASE ~\E i \in DOMAIN c : c[i].who = p
  BY <1>1, <1>3 DEF CrewWithout, c
<1> QED
  BY <1>2, <1>3

LEMMA MemberIsTyped ==
  ASSUME NEW p \in People, NEW n \in Bets, NEW token \in 1..MaxDraws
  PROVE  Member(p, n, token) \in Members /\ Member(p, n, token).who = p /\ Member(p, n, token).n = token
  BY DEF Member, Members

\* A crew with one more.
LEMMA CrewGrows ==
  ASSUME NEW c \in Crews, NEW m \in Members, Len(c) < MaxCrew,
         \A i \in DOMAIN c : c[i].who # m.who
  PROVE  Append(c, m) \in Crews /\ Tokens(Append(c, m)) = Tokens(c) \cup {m.n}
<1>1. /\ c \in Seq(Members) /\ Len(c) \in Nat /\ DOMAIN c = 1..Len(c)
      /\ \A i, k \in DOMAIN c : c[i].who = c[k].who => i = k
  BY DEF Crews, Members
<1> DEFINE d == Append(c, m)
<1>2. /\ d \in Seq(Members) /\ Len(d) = Len(c) + 1 /\ DOMAIN d = 1..(Len(c) + 1)
      /\ \A i \in 1..Len(c) : d[i] = c[i]
      /\ d[Len(c) + 1] = m
  BY <1>1
<1> HIDE DEF d
<1>3. \A i, k \in DOMAIN d : d[i].who = d[k].who => i = k
  <2> SUFFICES ASSUME NEW i \in DOMAIN d, NEW k \in DOMAIN d, d[i].who = d[k].who
               PROVE  i = k
    OBVIOUS
  <2>1. /\ i \in 1..Len(c) \/ i = Len(c) + 1
        /\ k \in 1..Len(c) \/ k = Len(c) + 1
    BY <1>1, <1>2
  <2>2. CASE i \in 1..Len(c) /\ k \in 1..Len(c)
    BY <1>1, <1>2, <2>2
  <2>3. CASE i = Len(c) + 1 /\ k \in 1..Len(c)
    BY <1>1, <1>2, <2>3
  <2>4. CASE k = Len(c) + 1 /\ i \in 1..Len(c)
    BY <1>1, <1>2, <2>4
  <2> QED
    BY <2>1, <2>2, <2>3, <2>4
<1>4. d \in Crews
  <2>1. Len(d) <= MaxCrew
    BY <1>1, <1>2, Numbers
  <2> QED
    BY <1>2, <1>3, <2>1 DEF Crews, Members
<1>5. Tokens(d) = Tokens(c) \cup {m.n}
  <2>1. Tokens(d) \subseteq Tokens(c) \cup {m.n}
    <3> SUFFICES ASSUME NEW i \in DOMAIN d
                 PROVE  d[i].n \in Tokens(c) \cup {m.n}
      BY DEF Tokens
    <3>1. i \in 1..Len(c) \/ i = Len(c) + 1
      BY <1>1, <1>2
    <3> QED
      BY <1>1, <1>2, <3>1 DEF Tokens
  <2>2. Tokens(c) \subseteq Tokens(d)
    BY <1>1, <1>2 DEF Tokens
  <2>3. m.n \in Tokens(d)
    <3>1. Len(c) + 1 \in DOMAIN d
      BY <1>1, <1>2
    <3> QED
      BY <1>2, <3>1 DEF Tokens
  <2> QED
    BY <2>1, <2>2, <2>3
<1> QED
  BY <1>4, <1>5 DEF d

LEMMA CrewOfNone ==
  <<>> \in Crews /\ Tokens(<<>>) = {}
<1>1. <<>> \in Seq(Members) /\ Len(<<>>) = 0 /\ DOMAIN <<>> = {}
  OBVIOUS
<1>2. 0 <= MaxCrew
  BY Numbers
<1> QED
  BY <1>1, <1>2 DEF Crews, Members, Tokens

LEMMA HeistIsTyped ==
  ASSUME NEW j \in Heists, NEW c \in Crews, j.active \/ c = <<>>
  PROVE  /\ [j EXCEPT !.crew = c] \in Heists
         /\ [j EXCEPT !.crew = c].crew = c
         /\ [j EXCEPT !.crew = c].seq = j.seq
  BY HeistParts DEF Heists

LEMMA BeatenHeistIsTyped ==
  ASSUME NEW j \in Heists, NEW beat \in 0..2, NEW seq \in Nat
  PROVE  /\ [j EXCEPT !.beat = beat, !.seq = seq] \in Heists
         /\ [j EXCEPT !.beat = beat, !.seq = seq].crew = j.crew
  BY HeistParts DEF Heists

LEMMA CooledHeistIsTyped ==
  ASSUME NEW j \in Heists, NEW cooling \in BOOLEAN
  PROVE  /\ [j EXCEPT !.cooling = cooling] \in Heists
         /\ [j EXCEPT !.cooling = cooling].crew = j.crew
  BY HeistParts DEF Heists

LEMMA NewHeistIsTyped ==
  ASSUME NEW c \in Crews, NEW seq \in Nat, NEW active \in BOOLEAN, NEW cooling \in BOOLEAN,
         active \/ c = <<>>
  PROVE  [active |-> active, crew |-> c, beat |-> 0, seq |-> seq, cooling |-> cooling] \in Heists
  BY DEF Heists

LEMMA JoinedIsTyped ==
  ASSUME NEW j \in Heists, NEW p \in People, NEW n \in Bets, NEW token \in 1..MaxDraws,
         j.active => /\ \A i \in DOMAIN j.crew : j.crew[i].who # p
                     /\ Len(j.crew) < MaxCrew
  PROVE  /\ Joined(j, Member(p, n, token)) \in Heists
         /\ Tokens(Joined(j, Member(p, n, token)).crew) = Tokens(j.crew) \cup {token}
<1> DEFINE m == Member(p, n, token)
<1>1. m \in Members /\ m.who = p /\ m.n = token
  BY MemberIsTyped
<1>2. j.crew \in Crews /\ j.seq \in Nat
  BY HeistParts
<1> HIDE DEF m
<1>3. CASE j.active
  <2>1. Append(j.crew, m) \in Crews /\ Tokens(Append(j.crew, m)) = Tokens(j.crew) \cup {token}
    BY <1>1, <1>2, <1>3, CrewGrows
  <2>2. Joined(j, m) = [j EXCEPT !.crew = Append(j.crew, m)]
    BY <1>3 DEF Joined
  <2>3. [j EXCEPT !.crew = Append(j.crew, m)] \in Heists
        /\ [j EXCEPT !.crew = Append(j.crew, m)].crew = Append(j.crew, m)
    BY <1>3, <2>1, HeistIsTyped
  <2> QED
    BY <2>1, <2>2, <2>3 DEF m
<1>4. CASE ~j.active
  <2> DEFINE c == Append(<<>>, m)
  <2>1. c \in Crews /\ Tokens(c) = {token} /\ c = <<m>>
    <3>1. Len(<<>>) < MaxCrew /\ DOMAIN <<>> = {}
      BY Numbers
    <3>2. c \in Crews /\ Tokens(c) = {} \cup {token}
      BY <1>1, <3>1, CrewGrows, CrewOfNone
    <3> QED
      BY <3>2
  <2> HIDE DEF c
  <2>2. Joined(j, m) = [active |-> TRUE, crew |-> c, beat |-> 0, seq |-> j.seq + 1, cooling |-> FALSE]
    BY <1>4, <2>1 DEF Joined, NoHeist
  <2>3. j.seq + 1 \in Nat /\ TRUE \in BOOLEAN /\ FALSE \in BOOLEAN
    BY <1>2
  <2>4. Joined(j, m) \in Heists
    BY <2>1, <2>2, <2>3, NewHeistIsTyped
  <2>5. j.crew = <<>>
    BY <1>4, HeistParts
  <2> QED
    BY <2>1, <2>2, <2>4, <2>5, CrewOfNone DEF m
<1> QED
  BY <1>3, <1>4

LEMMA HeistCommandIsTyped ==
  ASSUME TypeOK, NEW p \in People, NEW n \in Bets, Heist(p, n)
  PROVE  TypeOK'
<1>1. /\ UNCHANGED <<goods, job, stakes, world, wagers>>
      /\ call' = [at |-> "crew", who |-> p, n |-> draws', stake |-> n, job |-> heist, tick |-> 0]
      /\ heist.active => /\ \A i \in DOMAIN heist.crew : heist.crew[i].who # p
                         /\ Len(heist.crew) < MaxCrew
  BY DEF Heist
<1>2. Money' /\ CountsTyped' /\ draws' \in 1..MaxDraws
  <2>1. "stake" \in Kinds
    BY DEF Kinds
  <2> QED
    BY <1>1, <2>1, StakeIsTyped DEF Heist, Stake
<1>3. CallTyped'
  <2>1. heist \in Heists
    BY TypeParts DEF JobTyped
  <2>2. call' \in CrewCalls
    BY <1>1, <1>2, <2>1 DEF CrewCalls
  <2> QED
    BY <2>2 DEF CallTyped, Calls
<1> QED
  BY <1>1, <1>2, <1>3, TypePartsNext, TypesStay

LEMMA CrewCallParts ==
  ASSUME call \in CrewCalls
  PROVE  /\ call.at = "crew" /\ call.who \in People /\ call.n \in 1..MaxDraws /\ call.stake \in Bets
         /\ call.job \in Heists /\ call.tick \in Nat
         /\ call.job.active => /\ \A i \in DOMAIN call.job.crew : call.job.crew[i].who # call.who
                               /\ Len(call.job.crew) < MaxCrew
  BY DEF CrewCalls

LEMMA BookCallIsTyped ==
  ASSUME NEW seq \in Nat, NEW tick \in Nat, call' = [at |-> "book", seq |-> seq, tick |-> tick]
  PROVE  CallTyped'
<1>1. call' \in BookCalls
  BY DEF BookCalls
<1> QED
  BY <1>1 DEF CallTyped, Calls

LEMMA JoinCrewIsTyped ==
  ASSUME TypeOK, JoinCrew
  PROVE  TypeOK'
<1>1. call \in CrewCalls /\ call \in Calls
  BY CallsBySort DEF JoinCrew, Calls
<1>2. /\ heist' = Joined(call.job, Member(call.who, call.stake, call.n))
      /\ \/ Done
         \/ call' = [at |-> "book", seq |-> heist'.seq, tick |-> call.tick] /\ UNCHANGED timer
      /\ UNCHANGED <<money, goods, stranded, stakes, world, wagers, draws>>
  BY DEF JoinCrew
<1>3. heist' \in Heists
  BY <1>1, <1>2, CrewCallParts, JoinedIsTyped
<1>4. CallTyped' /\ timer' \in Nat
  <2>1. CASE Done
    BY <1>1, <2>1, TypeParts, DoneIsTyped
  <2>2. CASE call' = [at |-> "book", seq |-> heist'.seq, tick |-> call.tick] /\ UNCHANGED timer
    <3>1. heist'.seq \in Nat /\ call.tick \in Nat /\ timer \in Nat
      BY <1>1, <1>3, HeistParts, CrewCallParts, TypeParts DEF JobTyped
    <3> QED
      BY <2>2, <3>1, BookCallIsTyped
  <2> QED
    BY <1>2, <2>1, <2>2
<1>5. JobTyped'
  BY <1>2, <1>3, <1>4, TypeParts DEF JobTyped
<1> QED
  BY <1>2, <1>4, <1>5, TypePartsNext, TypesStay

LEMMA TimerIsTyped ==
  ASSUME TypeOK, TimerIsStale
  PROVE  TypeOK'
<1>1. /\ timer' = 0 /\ UNCHANGED <<money, goods, heist, stranded, stakes, world, wagers, call, draws>>
  BY DEF TimerIsStale
<1>2. JobTyped'
  BY <1>1, TypeParts DEF JobTyped
<1> QED
  BY <1>1, <1>2, TypePartsNext, TypesStay

LEMMA BeatIsTyped ==
  ASSUME TypeOK, Beat
  PROVE  TypeOK' /\ heist'.crew = heist.crew
<1>1. /\ heist.active /\ heist.beat < 2
      /\ heist' = [heist EXCEPT !.beat = heist.beat + 1, !.seq = heist.seq + 1]
      /\ call' = [at |-> "book", seq |-> heist'.seq, tick |-> timer]
      /\ UNCHANGED <<money, goods, timer, stranded, stakes, world, wagers, draws>>
  BY DEF Beat, NextBeat
<1>2. /\ heist \in Heists /\ heist.seq + 1 \in Nat /\ heist.beat + 1 \in 0..2 /\ timer \in Nat
  <2>1. heist \in Heists /\ timer \in Nat
    BY TypeParts DEF JobTyped
  <2>2. heist.seq \in Nat /\ heist.beat \in 0..2
    BY <2>1, HeistParts
  <2> QED
    BY <1>1, <2>1, <2>2
<1> DEFINE b == heist.beat + 1
           q == heist.seq + 1
<1> HIDE DEF b, q
<1>3. heist' = [heist EXCEPT !.beat = b, !.seq = q] /\ b \in 0..2 /\ q \in Nat
  BY <1>1, <1>2 DEF b, q
<1>4. heist' \in Heists /\ heist'.crew = heist.crew
  <2>1. heist \in Heists /\ b \in 0..2 /\ q \in Nat
    BY <1>2, <1>3
  <2>2. /\ [heist EXCEPT !.beat = b, !.seq = q] \in Heists
        /\ [heist EXCEPT !.beat = b, !.seq = q].crew = heist.crew
    BY <2>1, BeatenHeistIsTyped
  <2> QED
    BY <1>3, <2>2
<1>5. CallTyped'
  BY <1>1, <1>2, <1>4, HeistParts, BookCallIsTyped
<1>6. JobTyped'
  BY <1>1, <1>4, TypeParts DEF JobTyped
<1> QED
  BY <1>1, <1>4, <1>5, <1>6, TypePartsNext, TypesStay

LEMMA BookIsTyped ==
  ASSUME TypeOK, Book
  PROVE  TypeOK'
<1>1. call \in BookCalls
  BY CallsBySort DEF Book
<1>2. /\ timer' = (IF call.seq = call.tick THEN 0 ELSE call.seq) /\ call' = Idle
      /\ UNCHANGED <<money, goods, heist, stranded, stakes, world, wagers, draws>>
  BY DEF Book
<1>3. JobTyped'
  BY <1>1, <1>2, TypeParts DEF JobTyped, BookCalls
<1> QED
  BY <1>2, <1>3, TypePartsNext, TypesStay

LEMMA FateCallParts ==
  ASSUME call \in FateCalls
  PROVE  /\ call.at \in {"pay", "score", "close"} /\ call.i \in Nat /\ call.job \in Heists
         /\ call.won \in SUBSET (1..MaxCrew) /\ call.tick \in Nat
         /\ call.at # "close" => call.i \in DOMAIN call.job.crew
  BY DEF FateCalls

LEMMA OutcomeIsTyped ==
  ASSUME TypeOK, NEW won \in SUBSET (1..MaxCrew), Outcome(won)
  PROVE  TypeOK'
<1>1. UNCHANGED <<money, goods, job, stakes, world, wagers, draws>>
  BY DEF Outcome
<1>2. heist \in Heists /\ timer \in Nat
  BY TypeParts DEF JobTyped
<1>3. call' \in FateCalls
  <2>1. CASE heist.crew = <<>>
    <3>1. call' = [at |-> "close", i |-> 1, job |-> heist, won |-> won, tick |-> timer]
      BY <2>1 DEF Outcome
    <3> QED
      BY <1>2, <3>1 DEF FateCalls
  <2>2. CASE heist.crew # <<>>
    <3>1. call' = [at |-> "pay", i |-> 1, job |-> heist, won |-> won, tick |-> timer]
      BY <2>2 DEF Outcome
    <3>2. 1 \in DOMAIN heist.crew
      BY <1>2, <2>2, HeistParts
    <3> QED
      BY <1>2, <3>1, <3>2 DEF FateCalls
  <2> QED
    BY <2>1, <2>2
<1>4. CallTyped'
  BY <1>3 DEF CallTyped, Calls
<1> QED
  BY <1>1, <1>4, TypePartsNext, TypesStay

\* A haul is a natural number.
LEMMA HaulIsNatural ==
  ASSUME NEW stake \in Nat, NEW size \in Nat
  PROVE  Haul(stake, size) \in Nat
<1>1. Value(size) \in Nat
  <2>1. CASE size = 0
    BY <2>1 DEF Value, Lesser
  <2>2. CASE size # 0
    BY <2>2 DEF Value, Lesser
  <2> QED
    BY <2>1, <2>2
<1>2. Escape(size) \in Nat /\ Escape(size) > 0
  <2>1. CASE size = 0
    BY <2>1 DEF Escape, Lesser
  <2>2. CASE size # 0
    BY <2>2 DEF Escape, Lesser
  <2> QED
    BY <2>1, <2>2
<1>3. \A a, b \in Nat : b > 0 => a \div b \in Nat
  OBVIOUS
<1>4. \A a, b \in Nat : a * b \in Nat
  OBVIOUS
<1>5. stake * Value(size) \in Nat
  BY <1>1, <1>4
<1> QED
  BY <1>2, <1>3, <1>5 DEF Haul

\* What a fate call knows of the member it deals with.
LEMMA FateIsTyped ==
  ASSUME call \in FateCalls, call.at # "close"
  PROVE  LET m == call.job.crew[call.i]
         IN /\ m.who \in People /\ m.stake \in Nat /\ m.n \in 1..MaxDraws
            /\ Payout(call) \in Nat
<1>1. call.job \in Heists /\ call.i \in DOMAIN call.job.crew
  BY FateCallParts
<1> DEFINE m == call.job.crew[call.i]
<1>2. m.who \in People /\ m.stake \in Bets /\ m.n \in 1..MaxDraws
  BY <1>1, HeistParts
<1>3. m.stake \in Nat
  BY <1>2, BetsAreNumbers
<1>4. Len(call.job.crew) \in Nat
  BY <1>1, HeistParts
<1> DEFINE h == Haul(m.stake, Len(call.job.crew))
<1>5. h \in Nat
  BY <1>3, <1>4, HaulIsNatural
<1>6. Payout(call) \in Nat
  <2>1. Payout(call) = IF call.i \in call.won THEN h ELSE 0
    BY DEF Payout
  <2> HIDE DEF h
  <2> QED
    BY <1>5, <2>1
<1> QED
  BY <1>2, <1>3, <1>6

LEMMA PayIsTyped ==
  ASSUME TypeOK, PayMember
  PROVE  TypeOK'
<1> DEFINE m == call.job.crew[call.i]
<1>1. call \in FateCalls /\ call.at # "close"
  BY CallsBySort DEF PayMember
<1>2. /\ m.who \in People /\ m.n \in 1..MaxDraws /\ Payout(call) \in Nat
      /\ call.i \in DOMAIN call.job.crew
  BY <1>1, FateIsTyped, FateCallParts
<1>3. /\ \/ UNCHANGED money
         \/ Change(m.who, Payout(call), <<m.n, "win">>)
      /\ settled' = settled \cup {m.n}
      /\ call' = [call EXCEPT !.at = "score"]
      /\ UNCHANGED <<goods, job, lost, world, wagers, draws>>
  BY DEF PayMember, Goto
<1> HIDE DEF m
<1>4. Money'
  <2>1. "win" \in Kinds /\ m.n \in 1..(MaxDraws + MaxGains) /\ Payout(call) \in Int
    BY <1>2, Bounds DEF Kinds
  <2>2. CASE UNCHANGED money
    BY <2>2, TypesStay
  <2>3. CASE Change(m.who, Payout(call), <<m.n, "win">>)
    BY <1>2, <2>1, <2>3, TypeParts, ChangeIsTyped
  <2> QED
    BY <1>3, <2>2, <2>3
<1>5. CallTyped'
  <2>1. call' \in FateCalls
    BY <1>1, <1>2, <1>3 DEF FateCalls
  <2> QED
    BY <2>1 DEF CallTyped, Calls
<1>6. StakesTyped'
  BY <1>2, <1>3, TypeParts DEF StakesTyped
<1> QED
  BY <1>3, <1>4, <1>5, <1>6, TypePartsNext, TypesStay

LEMMA ScoreIsTyped ==
  ASSUME TypeOK, ScoreMember
  PROVE  TypeOK'
<1> DEFINE m == call.job.crew[call.i]
           loss == Within(Today(m.who).lost + m.stake - Payout(call))
           w == [Today(m.who) EXCEPT !.lost = loss]
<1>1. call \in FateCalls /\ call.at # "close"
  BY CallsBySort DEF ScoreMember
<1>2. /\ m.who \in People /\ m.stake \in Nat /\ Payout(call) \in Nat
      /\ call.i \in DOMAIN call.job.crew /\ call.job \in Heists
  BY <1>1, FateIsTyped, FateCallParts
<1>3. UNCHANGED <<money, goods, job, stakes, world, draws>>
  BY DEF ScoreMember
<1>4. WagersTyped'
  <2>1. wagers' = [wagers EXCEPT ![m.who] = w]
    BY DEF ScoreMember
  <2>2. Today(m.who) \in Wagerings /\ Today(m.who).lost \in Int
    BY <1>2, TodayIsTyped
  <2>3. Today(m.who).lost + m.stake - Payout(call) \in Int
    BY <1>2, <2>2
  <2>4. loss \in Int
    BY <2>3, WithinIsInt
  <2> HIDE DEF loss
  <2>5. 0 \in Nat
    OBVIOUS
  <2>6. w \in Wagerings
    BY <2>2, <2>4, <2>5, LossIsTyped
  <2> HIDE DEF w
  <2> QED
    BY <1>2, <2>1, <2>6, TypeParts DEF WagersTyped
<1>5. CallTyped'
  <2>1. CASE call.i = Len(call.job.crew)
    <3>1. call' = [call EXCEPT !.at = "close"]
      BY <2>1 DEF ScoreMember
    <3>2. call' \in FateCalls
      BY <1>1, <3>1 DEF FateCalls
    <3> QED
      BY <3>2 DEF CallTyped, Calls
  <2>2. CASE call.i # Len(call.job.crew)
    <3> DEFINE k == call.i + 1
    <3>1. call' = [call EXCEPT !.at = "pay", !.i = k]
      BY <2>2 DEF ScoreMember
    <3>2. k \in Nat /\ k \in DOMAIN call.job.crew
      BY <1>2, <2>2, HeistParts
    <3> HIDE DEF k
    <3>3. call' \in FateCalls
      BY <1>1, <3>1, <3>2 DEF FateCalls
    <3> QED
      BY <3>3 DEF CallTyped, Calls
  <2> QED
    BY <2>1, <2>2
<1> QED
  BY <1>3, <1>4, <1>5, TypePartsNext, TypesStay

LEMMA CloseIsTyped ==
  ASSUME TypeOK, CloseHeist
  PROVE  TypeOK' /\ heist'.crew = <<>>
<1>1. call \in FateCalls /\ call \in Calls
  BY CallsBySort DEF CloseHeist, Calls
<1>2. PICK cooling \in BOOLEAN :
        heist' = [NoHeist EXCEPT !.seq = call.job.seq + 1, !.cooling = cooling]
  BY DEF CloseHeist
<1>3. /\ Done /\ UNCHANGED <<money, goods, stranded, stakes, world, wagers, draws>>
  BY DEF CloseHeist
<1> DEFINE q == call.job.seq + 1
<1>4. q \in Nat
  BY <1>1, FateCallParts, HeistParts
<1>5. heist' = [active |-> FALSE, crew |-> <<>>, beat |-> 0, seq |-> q, cooling |-> cooling]
  BY <1>2 DEF NoHeist
<1> HIDE DEF q
<1>6. heist' \in Heists /\ heist'.crew = <<>>
  <2>1. FALSE \in BOOLEAN /\ <<>> \in Crews
    BY CrewOfNone
  <2> QED
    BY <1>4, <1>5, <2>1, NewHeistIsTyped
<1>7. CallTyped' /\ timer' \in Nat
  BY <1>1, <1>3, TypeParts, DoneIsTyped
<1>8. JobTyped'
  BY <1>3, <1>6, <1>7, TypeParts DEF JobTyped
<1> QED
  BY <1>3, <1>6, <1>7, <1>8, TypePartsNext, TypesStay

LEMMA CoolDownIsTyped ==
  ASSUME TypeOK, CoolDown
  PROVE  TypeOK' /\ heist'.crew = heist.crew
<1>1. /\ heist' = [heist EXCEPT !.cooling = FALSE]
      /\ UNCHANGED <<money, goods, timer, stranded, stakes, world, wagers, call, draws>>
  BY DEF CoolDown
<1>2. heist' \in Heists /\ heist'.crew = heist.crew
  <2>1. heist \in Heists /\ FALSE \in BOOLEAN
    BY TypeParts DEF JobTyped
  <2> QED
    BY <1>1, <2>1, CooledHeistIsTyped
<1>3. JobTyped'
  BY <1>1, <1>2, TypeParts DEF JobTyped
<1> QED
  BY <1>1, <1>2, <1>3, TypePartsNext, TypesStay

-----------------------------------------------------------------------------
(* The surroundings.                                                                     *)

LEMMA EarnIsTyped ==
  ASSUME TypeOK, NEW p \in People, Earn(p)
  PROVE  TypeOK' /\ gains' \in 1..(MaxDraws + MaxGains)
<1>1. /\ gains' = gains + 1 /\ gains < MaxGains /\ Change(p, Gain, <<gains', "earned">>)
      /\ UNCHANGED <<goods, job, stakes, alive, plan, day, wagers, call, draws>>
  BY DEF Earn
<1>2. gains' \in 1..(MaxDraws + MaxGains) /\ gains' \in 0..MaxGains
  BY <1>1, TypeParts, Bounds DEF CountsTyped
<1>3. Money'
  <2>1. "earned" \in Kinds /\ Gain \in Int
    BY Numbers DEF Kinds
  <2> QED
    BY <1>1, <1>2, <2>1, TypeParts, ChangeIsTyped
<1>4. CountsTyped'
  BY <1>1, <1>2, TypeParts DEF CountsTyped
<1> QED
  BY <1>1, <1>2, <1>3, <1>4, TypePartsNext, TypesStay

LEMMA NewDayIsTyped ==
  ASSUME TypeOK, NewDay
  PROVE  TypeOK'
<1>1. /\ day < MaxDay /\ day' = day + 1
      /\ UNCHANGED <<money, goods, job, stakes, alive, plan, gains, wagers, call, draws>>
  BY DEF NewDay
<1>2. WorldTyped'
  BY <1>1, TypeParts, Numbers DEF WorldTyped
<1> QED
  BY <1>1, <1>2, TypePartsNext, TypesStay

\* The brass in hand is one token drawn, or none.
LEMMA InHandIsTyped ==
  ASSUME TypeOK
  PROVE  InHand \subseteq 1..MaxDraws
  BY CallsBySort DEF InHand, BetCalls, GiftCalls, CrewCalls

LEMMA DropIsTyped ==
  ASSUME TypeOK, Drop, UNCHANGED <<money, goods, heist, timer, settled, world, wagers, draws>>
  PROVE  TypeOK'
<1>1. CallTyped'
  BY TypesStay DEF Drop
<1>2. StakesTyped'
  BY InHandIsTyped, TypeParts DEF Drop, StakesTyped
<1>3. JobTyped'
  BY TypeParts DEF Drop, JobTyped
<1> QED
  BY <1>1, <1>2, <1>3, TypePartsNext, TypesStay

LEMMA CutIsTyped ==
  ASSUME TypeOK, Cut \/ Refused
  PROVE  TypeOK'
  BY DropIsTyped DEF Cut, Refused

LEMMA PlanIsTyped ==
  ASSUME TypeOK, NEW p \in People, PlanErasure(p)
  PROVE  TypeOK' /\ plan' \in Plans /\ plan'.who = p /\ plan'.job.crew = CrewWithout(p)
<1>1. heist \in Heists
  BY TypeParts DEF JobTyped
<1> DEFINE c == CrewWithout(p)
           j == [heist EXCEPT !.crew = c]
           named == \E i \in DOMAIN heist.crew : heist.crew[i].who = p
<1>2. j \in Heists /\ j.crew = c
  <2>1. c \in Crews /\ (heist.active \/ c = <<>>)
    BY <1>1, WithoutIsTyped, HeistParts
  <2> HIDE DEF c
  <2> QED
    BY <1>1, <2>1, HeistIsTyped
<1>3. /\ plan' = [who |-> p, gone |-> FALSE, job |-> j, named |-> named]
      /\ UNCHANGED <<money, goods, job, stakes, alive, day, gains, wagers, call, draws>>
  BY DEF PlanErasure
<1>4. named \in BOOLEAN
  OBVIOUS
<1> HIDE DEF named, j
<1>5. plan' \in Plans /\ plan'.who = p /\ plan'.job = j
  BY <1>2, <1>3, <1>4 DEF Plans
<1>6. WorldTyped'
  BY <1>3, <1>5, TypeParts DEF WorldTyped
<1> QED
  BY <1>2, <1>3, <1>5, <1>6, TypePartsNext, TypesStay

LEMMA PlanParts ==
  ASSUME TypeOK, plan # None
  PROVE  /\ plan \in Plans /\ plan.who \in People /\ plan.gone \in BOOLEAN /\ plan.job \in Heists
         /\ plan.named \in BOOLEAN
  BY TypeParts DEF WorldTyped, Plans

LEMMA ApplyIsTyped ==
  ASSUME TypeOK, ApplyErasure
  PROVE  TypeOK' /\ plan' \in Plans /\ plan'.who = plan.who /\ plan'.gone
<1>1. /\ plan \in Plans /\ plan.who \in People /\ plan.job \in Heists
  BY PlanParts DEF ApplyErasure
<1>2. Money'
  <2>1. <<>> \in Books
    BY DEF Books
  <2> QED
    BY <2>1, TypeParts DEF ApplyErasure, Money
<1>3. GoodsTyped'
  <2>1. EmptyShelf \in Shelves
    BY PlainShelfIsTyped DEF EmptyShelf
  <2> QED
    BY <2>1, TypeParts DEF ApplyErasure, GoodsTyped
<1>4. WagersTyped'
  <2>1. NoWagers \in Wagerings
    BY Numbers DEF NoWagers, Wagerings
  <2> QED
    BY <2>1, TypeParts DEF ApplyErasure, WagersTyped
<1>5. JobTyped' /\ StakesTyped'
  <2>1. UNCHANGED <<timer, settled>>
    BY DEF ApplyErasure
  <2>2. CASE plan.named
    <3>1. /\ heist' = plan.job
          /\ lost' = lost \cup (Tokens(heist.crew) \ Tokens(plan.job.crew))
          /\ stranded' \in BOOLEAN
      BY <2>2, TypeParts DEF ApplyErasure, JobTyped
    <3>2. Tokens(heist.crew) \subseteq 1..MaxDraws
      BY HeistParts, TypeParts DEF Tokens, JobTyped
    <3> QED
      BY <1>1, <2>1, <3>1, <3>2, TypeParts DEF JobTyped, StakesTyped
  <2>3. CASE ~plan.named
    BY <2>1, <2>3, TypeParts DEF ApplyErasure, JobTyped, StakesTyped
  <2> QED
    BY <2>2, <2>3
<1>6. plan' \in Plans /\ plan'.who = plan.who /\ plan'.gone
  BY <1>1 DEF ApplyErasure, Plans
<1>7. WorldTyped'
  <2>1. UNCHANGED <<alive, day>>
    BY DEF ApplyErasure
  <2> QED
    BY <1>6, <2>1, TypeParts DEF WorldTyped
<1>8. UNCHANGED <<call, draws, gains>>
  BY DEF ApplyErasure
<1> QED
  BY <1>2, <1>3, <1>4, <1>5, <1>6, <1>7, <1>8, TypePartsNext, TypesStay

LEMMA FinishIsTyped ==
  ASSUME TypeOK, FinishErasure
  PROVE  TypeOK'
<1>1. /\ alive' = alive \ {plan.who} /\ owned' = [owned EXCEPT ![plan.who] = {}] /\ plan' = None
      /\ UNCHANGED <<money, shelf, laid, found, job, stakes, day, gains, wagers, call, draws>>
  BY DEF FinishErasure
<1>2. GoodsTyped'
  BY <1>1, TypeParts DEF GoodsTyped
<1>3. WorldTyped'
  BY <1>1, TypeParts DEF WorldTyped
<1> QED
  BY <1>1, <1>2, <1>3, TypePartsNext, TypesStay

-----------------------------------------------------------------------------
LEMMA InitIsTyped ==
  ASSUME Init
  PROVE  TypeOK
<1>1. Money
  BY DEF Init, Money, Books
<1>2. GoodsTyped
  <2>1. EmptyShelf \in Shelves
    BY PlainShelfIsTyped DEF EmptyShelf
  <2> QED
    BY <2>1 DEF Init, GoodsTyped
<1>3. JobTyped
  <2>1. NoHeist = [active |-> FALSE, crew |-> <<>>, beat |-> 0, seq |-> 0, cooling |-> FALSE]
    BY DEF NoHeist
  <2>2. NoHeist \in Heists
    BY <2>1, CrewOfNone, NewHeistIsTyped
  <2> QED
    BY <2>2 DEF Init, JobTyped
<1>4. CallTyped /\ StakesTyped
  BY DEF Init, CallTyped, StakesTyped
<1>5. WorldTyped /\ CountsTyped
  BY Numbers, Bounds DEF Init, WorldTyped, CountsTyped
<1>6. WagersTyped
  <2>1. NoWagers \in Wagerings
    BY Numbers DEF NoWagers, Wagerings
  <2> QED
    BY <2>1 DEF Init, WagersTyped
<1> QED
  BY <1>1, <1>2, <1>3, <1>4, <1>5, <1>6, TypeParts

LEMMA TypeStep ==
  ASSUME TypeOK, [Next]_vars
  PROVE  TypeOK'
<1>1. CASE UNCHANGED vars
  BY <1>1, TypesStay, TypePartsNext DEF vars, world
<1>2. ASSUME NEW p \in People, Command(p)
      PROVE  TypeOK'
  <2>1. ASSUME NEW n \in Bets, Wager(p, n) \/ Heist(p, n)
        PROVE  TypeOK'
    BY <2>1, WagerIsTyped, HeistCommandIsTyped
  <2>2. ASSUME NEW to \in People, NEW n \in Bets, Give(p, to, n)
        PROVE  TypeOK'
    BY <2>2, GiveIsTyped
  <2>3. ASSUME NEW pull \in BOOLEAN, BuyEgg(p, pull)
        PROVE  TypeOK'
    BY <2>3, BuyIsTyped
  <2> QED
    BY <1>2, <2>1, <2>2, <2>3, HatchIsTyped, RecycleIsTyped, RecoverIsTyped DEF Command
<1>3. CASE Work
  BY <1>3, ChargeIsTyped, LayIsTyped, GiveUpIsTyped, GrantIsTyped, RefundIsTyped, KeepIsTyped,
     TradeIsTyped, CompactIsTyped, RollIsTyped, SettleIsTyped, TallyIsTyped, HandOverIsTyped,
     JoinCrewIsTyped, BookIsTyped, PayIsTyped, ScoreIsTyped, CloseIsTyped, CutIsTyped DEF Work
<1>4. CASE Tick
  BY <1>4, TimerIsTyped, BeatIsTyped, OutcomeIsTyped DEF Tick
<1>5. ASSUME NEW p \in People, Earn(p) \/ PlanErasure(p)
      PROVE  TypeOK'
  BY <1>5, EarnIsTyped, PlanIsTyped
<1>6. CASE Cut \/ CoolDown \/ NewDay \/ ApplyErasure \/ FinishErasure
  BY <1>6, CutIsTyped, CoolDownIsTyped, NewDayIsTyped, ApplyIsTyped, FinishIsTyped
<1> QED
  BY <1>1, <1>2, <1>3, <1>4, <1>5, <1>6 DEF Next

\* Balances, eggs, items and bundles are never negative, no crew is larger than the room
\* or names a person twice, and every call holds a shelf with the record its step needs.
THEOREM TypeCorrect == Spec => []TypeOK
<1>1. Init => TypeOK
  BY InitIsTyped
<1>2. TypeOK /\ [Next]_vars => TypeOK'
  BY TypeStep
<1> QED
  BY <1>1, <1>2, PTL DEF Spec

-----------------------------------------------------------------------------
(* Stakes and gifts.                                                                     *)

LEMMA IdsOfAppend ==
  ASSUME NEW l \in Books, NEW n, NEW kind, NEW k
  PROVE  Ids(Append(l, <<n, kind>>), k) = Ids(l, k) \cup (IF k = kind THEN {n} ELSE {})
<1> DEFINE d == Append(l, <<n, kind>>)
<1>1. /\ Len(l) \in Nat /\ DOMAIN d = 1..(Len(l) + 1) /\ DOMAIN l = 1..Len(l)
      /\ \A i \in 1..Len(l) : d[i] = l[i]
      /\ d[Len(l) + 1] = <<n, kind>>
  BY DEF Books
<1> HIDE DEF d
<1>2. DOMAIN d = DOMAIN l \cup {Len(l) + 1}
  BY <1>1
<1>3. Ids(d, k) \subseteq Ids(l, k) \cup (IF k = kind THEN {n} ELSE {})
  <2> SUFFICES ASSUME NEW i \in DOMAIN d, d[i][2] = k
               PROVE  d[i][1] \in Ids(l, k) \cup (IF k = kind THEN {n} ELSE {})
    BY DEF Ids
  <2>1. CASE i \in DOMAIN l
    BY <1>1, <2>1 DEF Ids
  <2>2. CASE i = Len(l) + 1
    BY <1>1, <2>2
  <2> QED
    BY <1>2, <2>1, <2>2
<1>4. Ids(l, k) \subseteq Ids(d, k)
  <2> SUFFICES ASSUME NEW i \in DOMAIN l, l[i][2] = k
               PROVE  l[i][1] \in Ids(d, k)
    BY DEF Ids
  <2>1. i \in DOMAIN d /\ d[i] = l[i]
    BY <1>1, <1>2
  <2> QED
    BY <2>1 DEF Ids
<1>5. k = kind => n \in Ids(d, k)
  <2>1. Len(l) + 1 \in DOMAIN d /\ d[Len(l) + 1][1] = n /\ d[Len(l) + 1][2] = kind
    BY <1>1, <1>2
  <2> QED
    BY <2>1 DEF Ids
<1> QED
  BY <1>3, <1>4, <1>5 DEF d

\* A transaction the ledger knows, or a new one.
LEMMA ChangeCases ==
  ASSUME TypeOK, NEW p \in People, NEW amount \in Int, NEW n, NEW kind, Change(p, amount, <<n, kind>>)
  PROVE  \/ /\ UNCHANGED <<balance, ledger>> /\ Known(p, <<n, kind>>) /\ n \in Ids(ledger[p], kind)
         \/ /\ ~Known(p, <<n, kind>>)
            /\ balance' = [balance EXCEPT ![p] = balance[p] + amount]
            /\ balance[p] + amount >= 0
            /\ ledger' = [ledger EXCEPT ![p] = Append(ledger[p], <<n, kind>>)]
<1>1. CASE Known(p, <<n, kind>>)
  <2>1. PICK i \in DOMAIN ledger[p] : ledger[p][i] = <<n, kind>>
    BY <1>1 DEF Known
  <2>2. ledger[p][i][1] = n /\ ledger[p][i][2] = kind
    BY <2>1
  <2>3. n \in Ids(ledger[p], kind)
    BY <2>2 DEF Ids
  <2> QED
    BY <1>1, <2>3 DEF Change, money
<1>2. CASE ~Known(p, <<n, kind>>)
  BY <1>2 DEF Change
<1> QED
  BY <1>1, <1>2

LEMMA IdsOfChange ==
  ASSUME TypeOK, NEW p \in People, NEW amount \in Int, NEW n, NEW kind, Change(p, amount, <<n, kind>>),
         NEW q \in People, NEW k
  PROVE  Ids(ledger'[q], k) = Ids(ledger[q], k) \cup (IF q = p /\ k = kind THEN {n} ELSE {})
<1>1. ledger \in [People -> Books] /\ ledger[p] \in Books
  BY TypeParts DEF Money
<1>2. CASE UNCHANGED <<balance, ledger>> /\ n \in Ids(ledger[p], kind)
  BY <1>2
<1>3. CASE ledger' = [ledger EXCEPT ![p] = Append(ledger[p], <<n, kind>>)]
  <2>1. CASE q = p
    <3>1. ledger'[q] = Append(ledger[p], <<n, kind>>)
      BY <1>1, <1>3, <2>1
    <3> QED
      BY <1>1, <2>1, <3>1, IdsOfAppend
  <2>2. CASE q # p
    BY <1>1, <1>3, <2>2
  <2> QED
    BY <2>1, <2>2
<1> QED
  BY <1>2, <1>3, ChangeCases

LEMMA OtherIds ==
  ASSUME TypeOK, NEW p \in People, NEW amount \in Int, NEW n, NEW kind, Change(p, amount, <<n, kind>>),
         NEW q \in People, NEW k, q # p \/ k # kind
  PROVE  Ids(ledger'[q], k) = Ids(ledger[q], k)
<1>1. ledger \in [People -> Books] /\ ledger[p] \in Books
  BY TypeParts DEF Money
<1>2. CASE ledger' = ledger
  BY <1>2
<1>3. CASE ledger' = [ledger EXCEPT ![p] = Append(ledger[p], <<n, kind>>)]
  <2>1. CASE q = p
    <3>1. ledger'[q] = Append(ledger[p], <<n, kind>>) /\ k # kind
      BY <1>1, <1>3, <2>1
    <3>2. Ids(Append(ledger[p], <<n, kind>>), k) = Ids(ledger[p], k) \cup (IF k = kind THEN {n} ELSE {})
      BY <1>1, IdsOfAppend
    <3> QED
      BY <2>1, <3>1, <3>2
  <2>2. CASE q # p
    BY <1>1, <1>3, <2>2
  <2> QED
    BY <2>1, <2>2
<1> QED
  BY <1>2, <1>3, ChangeCases

\* Nobody returns from an erasure.
LEMMA PresentShrinks ==
  ASSUME TypeOK, Next
  PROVE  Present' \subseteq Present
<1>1. CASE UNCHANGED <<alive, plan>>
  BY <1>1 DEF Present
<1>2. ASSUME NEW p \in People, PlanErasure(p)
      PROVE  Present' \subseteq Present
  BY <1>2 DEF PlanErasure, Present
<1>3. CASE ApplyErasure
  <2>1. plan # None /\ plan'.who = plan.who /\ plan' # None /\ alive' = alive
    BY <1>3, ApplyIsTyped, NoneIsNoRecord DEF ApplyErasure
  <2> QED
    BY <2>1 DEF Present
<1>4. CASE FinishErasure
  BY <1>4 DEF FinishErasure, Present
<1>5. ASSUME NEW p \in People, Command(p) \/ Earn(p)
      PROVE  UNCHANGED <<alive, plan>>
  BY <1>5 DEF Command, BuyEgg, HatchEgg, Recycle, Recover, Wager, Heist, Give, Earn, world
<1>6. Work \/ (Tick \/ Cut \/ CoolDown \/ NewDay) => UNCHANGED <<alive, plan>>
  BY DEF Work, Charge, Lay, GiveUp, Grant, RefundEgg, Keep, Trade, Compact, Roll, Settle, Tally,
     HandOver, JoinCrew, Book, PayMember, ScoreMember, CloseHeist, Refused, world,
     Tick, TimerIsStale, Beat, Outcome, Cut, CoolDown, NewDay
<1> QED
  BY <1>1, <1>2, <1>3, <1>4, <1>5, <1>6 DEF Next

StakesInv == StakesAreAccounted /\ CrewIsKnown

Taken(p) == OfKind(p, "stake") \cup OfKind(p, "gift")

\* A step may take brass in hand; what was in hand or on the crew goes nowhere unnoticed.
LEMMA NothingIsMislaid ==
  ASSUME TypeOK, StakesAreAccounted, Present' \subseteq Present,
         \A q \in Present' : Taken(q)' \subseteq Taken(q) \cup InHand',
         InHand \subseteq InHand' \cup Tokens(heist'.crew) \cup Gone',
         Tokens(heist.crew) \subseteq Tokens(heist'.crew) \cup Gone',
         Gone \subseteq Gone'
  PROVE  StakesAreAccounted'
<1> SUFFICES ASSUME NEW q \in Present'
             PROVE  Taken(q)' \subseteq InHand' \cup Tokens(heist'.crew) \cup Gone'
  BY DEF StakesAreAccounted, Taken, Gone, Tokens
<1>1. Taken(q) \subseteq InHand \cup Tokens(heist.crew) \cup Gone
  BY DEF StakesAreAccounted, Taken, Gone
<1> QED
  BY <1>1

\* What is known of the crew stays known while the heist and the plan do not change, and
\* the call does not come to deal with it.
LEMMA CrewStaysKnown ==
  ASSUME CrewIsKnown, Tokens(heist'.crew) \subseteq Tokens(heist.crew) \cup Gone',
         Tokens(heist.crew) \subseteq Tokens(heist'.crew) \cup Gone',
         UNCHANGED plan, Gone \subseteq Gone',
         call' = call \/ call'.at \notin {"crew", "pay", "score", "close"}
  PROVE  CrewIsKnown'
<1>1. call'.at \in {"crew", "pay", "score", "close"} =>
        Tokens(heist'.crew) \subseteq Tokens(call'.job.crew) \cup Gone'
  BY DEF CrewIsKnown
<1>2. call'.at \in {"pay", "score", "close"} =>
        \A i \in DOMAIN call'.job.crew : IsThrough(i)' => call'.job.crew[i].n \in Gone'
  BY DEF CrewIsKnown, IsThrough
<1>3. plan' # None /\ ~plan'.gone => Tokens(plan'.job.crew) \subseteq Tokens(heist'.crew) \cup Gone'
  BY DEF CrewIsKnown
<1> QED
  BY <1>1, <1>2, <1>3 DEF CrewIsKnown, Tokens, IsThrough, Gone

\* A step that leaves heists alone, and takes no brass.
LEMMA QuietStep ==
  ASSUME TypeOK, StakesInv, Present' \subseteq Present,
         \A q \in Present' : Taken(q)' \subseteq Taken(q) \cup InHand',
         UNCHANGED <<heist, plan, settled, lost>>,
         InHand \subseteq InHand',
         call' = call \/ call'.at \notin {"crew", "pay", "score", "close"}
  PROVE  StakesInv'
<1>1. Gone' = Gone /\ heist'.crew = heist.crew
  BY DEF Gone
<1>2. StakesAreAccounted'
  BY <1>1, NothingIsMislaid DEF StakesInv
<1>3. CrewIsKnown'
  BY <1>1, CrewStaysKnown DEF StakesInv
<1> QED
  BY <1>2, <1>3 DEF StakesInv

\* Brass that changes hands for anything but a stake or a gift.
LEMMA OtherChange ==
  ASSUME TypeOK, NEW p \in People, NEW amount \in Int, NEW n, NEW kind,
         kind \notin {"stake", "gift"}, Change(p, amount, <<n, kind>>)
  PROVE  \A q \in People : Taken(q)' = Taken(q)
<1> SUFFICES ASSUME NEW q \in People
             PROVE  Taken(q)' = Taken(q)
  OBVIOUS
<1>1. Ids(ledger'[q], "stake") = Ids(ledger[q], "stake")
  BY OtherIds
<1>2. Ids(ledger'[q], "gift") = Ids(ledger[q], "gift")
  BY OtherIds
<1> QED
  BY <1>1, <1>2 DEF Taken, OfKind, Ids

LEMMA NoChange ==
  ASSUME UNCHANGED money
  PROVE  \A q \in People : Taken(q)' = Taken(q)
  BY DEF money, Taken, OfKind, Ids

\* A stake or a gift is in the hands of the call that took it.
LEMMA TakenInHand ==
  ASSUME TypeOK, NEW p \in People, NEW amount \in Int, NEW n, NEW kind,
         Change(p, amount, <<n, kind>>), n \in InHand'
  PROVE  \A q \in People : Taken(q)' \subseteq Taken(q) \cup InHand'
<1> SUFFICES ASSUME NEW q \in People
             PROVE  Taken(q)' \subseteq Taken(q) \cup InHand'
  OBVIOUS
<1>1. /\ Ids(ledger'[q], "stake") \subseteq Ids(ledger[q], "stake") \cup {n}
      /\ Ids(ledger'[q], "gift") \subseteq Ids(ledger[q], "gift") \cup {n}
  BY IdsOfChange
<1>2. Taken(q)' = Ids(ledger'[q], "stake") \cup Ids(ledger'[q], "gift")
  BY DEF Taken, OfKind, Ids
<1> QED
  BY <1>1, <1>2 DEF Taken, OfKind

LEMMA PresentArePeople ==
  ASSUME TypeOK
  PROVE  Present \subseteq People /\ \A q \in Present : q \in alive
  BY TypeParts DEF Present, WorldTyped

LEMMA IdleAt == Idle.at = "idle"
  BY DEF Idle

LEMMA EggStepKeepsStakes ==
  ASSUME TypeOK, StakesInv, Present' \subseteq Present,
         \/ UNCHANGED money
         \/ \E p \in People, amount \in Int, kind \in {"buy", "refund", "trade"} :
              Change(p, amount, Event(kind)),
         UNCHANGED <<heist, plan, settled, lost>>,
         call = Idle \/ call.at \in Eggs,
         call'.at \in Eggs \/ call' = Idle
  PROVE  StakesInv'
<1>1. \A q \in People : Taken(q)' = Taken(q)
  <2>1. CASE UNCHANGED money
    BY <2>1, NoChange
  <2>2. ASSUME NEW p \in People, NEW amount \in Int, NEW kind \in {"buy", "refund", "trade"},
               Change(p, amount, Event(kind))
        PROVE  \A q \in People : Taken(q)' = Taken(q)
    <3>1. kind \notin {"stake", "gift"}
      BY <2>2
    <3>2. Change(p, amount, <<call.shelf.pending.n, kind>>)
      BY <2>2 DEF Event
    <3> QED
      BY <3>1, <3>2, OtherChange
  <2> QED
    BY <2>1, <2>2
<1>2. \A q \in Present' : Taken(q)' \subseteq Taken(q) \cup InHand'
  BY <1>1, PresentArePeople
<1>3. InHand = {}
  <2>1. call.at = "idle" \/ call.at \in Eggs
    BY IdleAt
  <2> QED
    BY <2>1 DEF InHand, Eggs
<1>4. call'.at \notin {"crew", "pay", "score", "close"}
  <2>1. call'.at = "idle" \/ call'.at \in Eggs
    BY IdleAt
  <2> QED
    BY <2>1 DEF Eggs
<1> QED
  BY <1>2, <1>3, <1>4, QuietStep

LEMMA EggCommandsKeepStakes ==
  ASSUME TypeOK, StakesInv, Present' \subseteq Present, NEW p \in People,
         \/ \E pull \in BOOLEAN : BuyEgg(p, pull)
         \/ HatchEgg(p) \/ Recycle(p) \/ Recover(p)
  PROVE  StakesInv'
<1>1. ASSUME NEW pull \in BOOLEAN, BuyEgg(p, pull)
      PROVE  StakesInv'
  <2>1. call = Idle /\ call'.at = "charge" /\ "charge" \in Eggs
    BY <1>1 DEF BuyEgg, Starts, Eggs
  <2> QED
    BY <1>1, <2>1, EggStepKeepsStakes DEF BuyEgg, world, job, stakes
<1>2. CASE HatchEgg(p) \/ Recycle(p)
  <2>1. call = Idle /\ call'.at \in {"roll", "trade"}
    BY <1>2 DEF HatchEgg, Recycle, Begin, Starts
  <2>2. call'.at \in Eggs
    BY <2>1 DEF Eggs
  <2>3. UNCHANGED money /\ UNCHANGED <<heist, plan, settled, lost>>
    BY <1>2 DEF HatchEgg, Recycle, world, job, stakes
  <2> QED
    BY <2>1, <2>2, <2>3, EggStepKeepsStakes
<1>3. CASE Recover(p)
  <2>1. shelf[p].pending # None /\ shelf[p].pending.kind \in {"buy", "hatch", "trade"}
    BY <1>3, TypeParts DEF Recover, Settled, GoodsTyped, Shelves, Pendings
  <2>2. call'.at \in Eggs
    BY <1>3, <2>1 DEF Recover, Begin, Eggs
  <2> QED
    BY <1>3, <2>2, EggStepKeepsStakes DEF Recover, world, job, stakes
<1> QED
  BY <1>1, <1>2, <1>3

LEMMA EggsKeepStakes ==
  ASSUME TypeOK, StakesInv, Present' \subseteq Present,
         \/ Charge \/ Lay \/ GiveUp \/ Grant \/ RefundEgg \/ Keep \/ Trade \/ Compact
         \/ \E what \in Cosmetics \cup {Item} : Roll(what)
  PROVE  StakesInv'
<1>1. \A at : Goto(at) /\ call \in EggCalls => call'.at = at
  BY DEF Goto, EggCalls
<1>2. call.at \in Eggs => call \in EggCalls /\ call.who \in People
  BY EggCallParts
<1>3. CASE Charge
  <2>1. -EggCost \in Int
    BY Numbers
  <2>4. call.at \in Eggs
    BY <1>3 DEF Charge, Eggs
  <2>2. call'.at \in Eggs
    BY <1>1, <1>2, <1>3, <2>4 DEF Charge, Eggs
  <2>3. \/ UNCHANGED money
        \/ Change(call.who, -EggCost, Event("buy"))
    BY <1>3 DEF Charge
  <2> QED
    BY <1>2, <1>3, <2>1, <2>2, <2>3, <2>4, EggStepKeepsStakes DEF Charge, world, job, stakes
<1>4. CASE Lay
  <2>1. call.at \in Eggs /\ call \in EggCalls
    BY <1>2, <1>4 DEF Lay, Eggs
  <2>2. call'.at \in Eggs \/ call' = Idle
    BY <1>4, <2>1 DEF Lay, Eggs, Done, EggCalls
  <2> QED
    BY <1>4, <2>1, <2>2, EggStepKeepsStakes DEF Lay, world, stakes
<1>5. CASE GiveUp \/ Keep \/ Compact
  <2>1. call.at \in Eggs /\ call' = Idle
    BY <1>5 DEF GiveUp, Keep, Compact, Eggs, Done
  <2> QED
    BY <1>5, <2>1, EggStepKeepsStakes DEF GiveUp, Keep, Compact, world, stakes
<1>6. CASE Grant
  <2>1. call.at \in Eggs
    BY <1>6 DEF Grant, Eggs
  <2>2. Goto("refund") \/ Goto("keep")
    BY <1>6 DEF Grant
  <2>3. call'.at \in Eggs
    BY <1>1, <1>2, <2>1, <2>2 DEF Eggs
  <2> QED
    BY <1>6, <2>1, <2>3, EggStepKeepsStakes DEF Grant, world, stakes, job
<1>7. CASE RefundEgg
  <2>1. Refund \in Int /\ call.at \in Eggs
    BY <1>7, Numbers DEF RefundEgg, Eggs
  <2>2. call'.at \in Eggs
    BY <1>1, <1>2, <1>7, <2>1 DEF RefundEgg, Eggs
  <2> QED
    BY <1>2, <1>7, <2>1, <2>2, EggStepKeepsStakes DEF RefundEgg, world, job, stakes
<1>8. CASE Trade
  <2>1. JunkValue \in Int /\ call.at \in Eggs
    BY <1>8, Numbers DEF Trade, Eggs
  <2>2. call'.at \in Eggs
    BY <1>1, <1>2, <1>8, <2>1 DEF Trade, Eggs
  <2> QED
    BY <1>2, <1>8, <2>1, <2>2, EggStepKeepsStakes DEF Trade, world, job, stakes
<1>9. ASSUME NEW what \in Cosmetics \cup {Item}, Roll(what)
       PROVE  StakesInv'
  <2>1. call.at \in Eggs /\ call \in EggCalls
    BY <1>2, <1>9 DEF Roll, Eggs
  <2>2. call'.at \in Eggs
    BY <1>9, <2>1 DEF Roll, Eggs, EggCalls
  <2> QED
    BY <1>9, <2>1, <2>2, EggStepKeepsStakes DEF Roll, world, stakes, job
<1> QED
  BY <1>3, <1>4, <1>5, <1>6, <1>7, <1>8, <1>9

LEMMA BetsKeepStakes ==
  ASSUME TypeOK, StakesInv, Present' \subseteq Present, NEW p \in People, NEW n \in Bets,
         \/ Wager(p, n) \/ Heist(p, n)
         \/ \E to \in People : Give(p, to, n)
  PROVE  StakesInv'
<1>1. UNCHANGED <<heist, plan, settled, lost>> /\ call = Idle
  BY DEF Wager, Heist, Give, Starts, job, world, stakes
<1>2. InHand' = {draws'} /\ call'.at \in {"settle", "gift", "crew"}
  BY DEF Wager, Heist, Give, InHand
<1>3. InHand = {}
  BY <1>1, IdleAt DEF InHand
<1>4. \A q \in Present' : Taken(q)' \subseteq Taken(q) \cup InHand'
  <2>1. n \in Nat /\ -n \in Int
    BY BetsAreNumbers
  <2>2. PICK kind \in {"stake", "gift"} : Change(p, -n, <<draws', kind>>)
    BY DEF Wager, Heist, Give, Stake
  <2> QED
    BY <1>2, <2>1, <2>2, TakenInHand, PresentArePeople
<1>5. StakesAreAccounted'
  <2>1. Gone' = Gone /\ heist'.crew = heist.crew
    BY <1>1 DEF Gone
  <2> QED
    BY <1>3, <1>4, <2>1, NothingIsMislaid DEF StakesInv
<1>6. CrewIsKnown'
  <2>1. CASE call'.at # "crew"
    <3>1. call'.at \notin {"crew", "pay", "score", "close"}
      BY <1>2, <2>1
    <3>2. Gone' = Gone /\ heist'.crew = heist.crew
      BY <1>1 DEF Gone
    <3> QED
      BY <1>1, <3>1, <3>2, CrewStaysKnown DEF StakesInv
  <2>2. CASE call'.at = "crew"
    <3>1. Heist(p, n)
      BY <2>2 DEF Wager, Give
    <3>2. call'.job = heist
      BY <3>1 DEF Heist
    <3> QED
      BY <1>1, <2>2, <3>2 DEF CrewIsKnown, StakesInv, Gone, Tokens
  <2> QED
    BY <2>1, <2>2
<1> QED
  BY <1>5, <1>6 DEF StakesInv

LEMMA SettleKeepsStakes ==
  ASSUME TypeOK, StakesInv, Present' \subseteq Present,
         HandOver \/ \E m \in Multipliers : Settle(m)
  PROVE  StakesInv'
<1>1. call \in BetCalls \cup GiftCalls /\ call.at \in {"settle", "gift"} /\ call.n \in 1..MaxDraws
  <2>1. call.at \in {"settle", "gift"}
    BY DEF HandOver, Settle
  <2>2. call \in BetCalls \cup GiftCalls
    BY <2>1, CallsBySort
  <2> QED
    BY <2>1, <2>2 DEF BetCalls, GiftCalls
<1>2. /\ UNCHANGED <<heist, plan, lost>> /\ settled' = settled \cup {call.n}
  BY DEF HandOver, Settle, job, world
<1>3. call'.at = "tally"
  BY <1>1 DEF HandOver, Settle, BetCalls, GiftCalls
<1>4. InHand = {call.n}
  BY <1>1 DEF InHand
<1>5. \A q \in People : Taken(q)' = Taken(q)
  <2>1. CASE HandOver
    <3>1. call.to \in People /\ call.stake \in Int /\ Change(call.to, call.stake, <<call.n, "to">>)
      <4>1. call \in GiftCalls
        BY <2>1, CallsBySort DEF HandOver
      <4>2. call.to \in People /\ call.stake \in Nat
        BY <4>1, BetsAreNumbers DEF GiftCalls
      <4>3. call.stake \in Int
        BY <4>2
      <4> QED
        BY <2>1, <4>2, <4>3 DEF HandOver
    <3>2. "to" \notin {"stake", "gift"}
      OBVIOUS
    <3> QED
      BY <3>1, <3>2, OtherChange
  <2>2. ASSUME NEW m \in Multipliers, Settle(m)
        PROVE  \A q \in People : Taken(q)' = Taken(q)
    <3>1. CASE UNCHANGED money
      BY <3>1, NoChange
    <3>2. CASE Change(call.who, m * call.stake, <<call.n, "win">>)
      <4>1. call \in BetCalls
        BY <2>2, CallsBySort DEF Settle
      <4>2. call.who \in People /\ call.stake \in Nat /\ m \in Nat
        BY <4>1, BetsAreNumbers DEF BetCalls
      <4>3. m * call.stake \in Int /\ "win" \notin {"stake", "gift"}
        BY <4>2
      <4> QED
        BY <3>2, <4>2, <4>3, OtherChange
    <3> QED
      BY <2>2, <3>1, <3>2 DEF Settle
  <2> QED
    BY <2>1, <2>2
<1>6. Gone \subseteq Gone' /\ call.n \in Gone' /\ heist'.crew = heist.crew
  BY <1>2 DEF Gone
<1>7. StakesAreAccounted'
  <2>1. \A q \in Present' : Taken(q)' \subseteq Taken(q) \cup InHand'
    BY <1>5, PresentArePeople
  <2> QED
    BY <1>4, <1>6, <2>1, NothingIsMislaid DEF StakesInv
<1>8. CrewIsKnown'
  <2>1. call'.at \notin {"crew", "pay", "score", "close"}
    BY <1>3
  <2> QED
    BY <1>2, <1>6, <2>1, CrewStaysKnown DEF StakesInv
<1> QED
  BY <1>7, <1>8 DEF StakesInv

LEMMA TallyKeepsStakes ==
  ASSUME TypeOK, StakesInv, Present' \subseteq Present,
         Tally \/ Book \/ TimerIsStale \/ CoolDown \/ NewDay \/ \E p \in People : Earn(p)
  PROVE  StakesInv'
<1>1. /\ UNCHANGED <<plan, settled, lost>> /\ heist'.crew = heist.crew
  <2>1. CASE CoolDown
    BY <2>1, CoolDownIsTyped DEF CoolDown, world, stakes
  <2>2. CASE ~CoolDown
    BY <2>2 DEF Tally, Book, TimerIsStale, NewDay, Earn, job, world, stakes
  <2> QED
    BY <2>1, <2>2
<1>2. \/ call' = call
      \/ call' = Idle /\ call.at \in {"tally", "book"}
  BY DEF Tally, Book, TimerIsStale, CoolDown, NewDay, Earn, Done
<1>3. InHand \subseteq InHand' /\ (call' = call \/ call'.at \notin {"crew", "pay", "score", "close"})
  <2>1. CASE call' = call
    BY <2>1 DEF InHand
  <2>2. CASE call' = Idle /\ call.at \in {"tally", "book"}
    <3>1. call'.at = "idle"
      BY <2>2, IdleAt
    <3> QED
      BY <2>2, <3>1 DEF InHand
  <2> QED
    BY <1>2, <2>1, <2>2
<1>4. \A q \in Present' : Taken(q)' \subseteq Taken(q) \cup InHand'
  <2>1. CASE UNCHANGED money
    BY <2>1, NoChange, PresentArePeople
  <2>2. ASSUME NEW p \in People, Earn(p)
        PROVE  \A q \in People : Taken(q)' = Taken(q)
    <3>1. Gain \in Int /\ "earned" \notin {"stake", "gift"}
      BY Numbers
    <3>2. Change(p, Gain, <<gains', "earned">>)
      BY <2>2 DEF Earn
    <3> QED
      BY <3>1, <3>2, OtherChange
  <2>3. UNCHANGED money \/ \E p \in People : Earn(p)
    BY DEF Tally, Book, TimerIsStale, CoolDown, NewDay
  <2> QED
    BY <2>1, <2>2, <2>3, PresentArePeople
<1>5. Gone' = Gone
  BY <1>1 DEF Gone
<1>6. StakesAreAccounted'
  BY <1>1, <1>3, <1>4, <1>5, NothingIsMislaid DEF StakesInv
<1>7. CrewIsKnown'
  BY <1>1, <1>3, <1>5, CrewStaysKnown DEF StakesInv
<1> QED
  BY <1>6, <1>7 DEF StakesInv

MayJoin(j, p) ==
  j.active => /\ \A i \in DOMAIN j.crew : j.crew[i].who # p
              /\ Len(j.crew) < MaxCrew

LEMMA JoinKeepsStakes ==
  ASSUME TypeOK, StakesInv, Present' \subseteq Present, JoinCrew
  PROVE  StakesInv'
<1>1. call \in CrewCalls /\ call.at = "crew" /\ call.job \in Heists
  BY CallsBySort, CrewCallParts DEF JoinCrew
<1>2. /\ Tokens(heist'.crew) = Tokens(call.job.crew) \cup {call.n}
      /\ UNCHANGED <<money, plan, settled, lost>>
  <2>1. heist' = Joined(call.job, Member(call.who, call.stake, call.n))
    BY DEF JoinCrew
  <2>2. Tokens(Joined(call.job, Member(call.who, call.stake, call.n)).crew)
          = Tokens(call.job.crew) \cup {call.n}
    <3>1. /\ call.who \in People /\ call.stake \in Bets /\ call.n \in 1..MaxDraws
          /\ call.job \in Heists /\ MayJoin(call.job, call.who)
      BY <1>1, CrewCallParts DEF MayJoin
    <3>2. PICK j \in Heists, p \in People, n \in Bets, token \in 1..MaxDraws :
            call.job = j /\ call.who = p /\ call.stake = n /\ call.n = token
      BY <3>1
    <3>3. MayJoin(j, p)
      BY <3>1, <3>2
    <3>4. Tokens(Joined(j, Member(p, n, token)).crew) = Tokens(j.crew) \cup {token}
      BY ONLY <3>3, JoinedIsTyped DEF MayJoin
    <3> QED
      BY <3>2, <3>4
  <2>3. UNCHANGED <<money, plan, settled, lost>>
    BY DEF JoinCrew, world, stakes
  <2> HIDE DEF JoinCrew
  <2> QED
    BY <2>1, <2>2, <2>3
<1>3. call'.at \in {"idle", "book"}
  BY IdleAt DEF JoinCrew, Done
<1>4. InHand = {call.n} /\ Gone' = Gone
  BY <1>1, <1>2 DEF InHand, Gone
<1>5. Tokens(heist.crew) \subseteq Tokens(call.job.crew) \cup Gone
  BY <1>1 DEF StakesInv, CrewIsKnown
<1>6. StakesAreAccounted'
  <2>1. \A q \in Present' : Taken(q)' \subseteq Taken(q) \cup InHand'
    BY <1>2, NoChange, PresentArePeople
  <2> QED
    BY <1>2, <1>4, <1>5, <2>1, NothingIsMislaid DEF StakesInv
<1>7. CrewIsKnown'
  <2>1. call'.at \notin {"crew", "pay", "score", "close"}
    BY <1>3
  <2>2. plan' # None /\ ~plan'.gone => Tokens(plan'.job.crew) \subseteq Tokens(heist'.crew) \cup Gone'
    <3>1. plan # None /\ ~plan.gone => Tokens(plan.job.crew) \subseteq Tokens(heist.crew) \cup Gone
      BY DEF StakesInv, CrewIsKnown
    <3> QED
      BY <1>2, <1>4, <1>5, <3>1
  <2> QED
    BY <2>1, <2>2 DEF CrewIsKnown, Tokens, Gone
<1> QED
  BY <1>6, <1>7 DEF StakesInv

LEMMA BeatKeepsStakes ==
  ASSUME TypeOK, StakesInv, Present' \subseteq Present, Beat
  PROVE  StakesInv'
<1>1. heist'.crew = heist.crew /\ UNCHANGED <<money, plan, settled, lost>>
  BY BeatIsTyped DEF Beat, world, stakes
<1>2. call'.at = "book" /\ call = Idle
  BY DEF Beat
<1>3. InHand = {} /\ Gone' = Gone
  BY <1>1, <1>2, IdleAt DEF InHand, Gone
<1>4. StakesAreAccounted'
  <2>1. \A q \in Present' : Taken(q)' \subseteq Taken(q) \cup InHand'
    BY <1>1, NoChange, PresentArePeople
  <2> QED
    BY <1>1, <1>3, <2>1, NothingIsMislaid DEF StakesInv
<1>5. CrewIsKnown'
  <2>1. call'.at \notin {"crew", "pay", "score", "close"}
    BY <1>2
  <2> QED
    BY <1>1, <1>3, <2>1, CrewStaysKnown DEF StakesInv
<1> QED
  BY <1>4, <1>5 DEF StakesInv

\* The fates are rolled for the crew as it stands.
LEMMA OutcomeKeepsStakes ==
  ASSUME TypeOK, StakesInv, Present' \subseteq Present, NEW won \in SUBSET (1..MaxCrew), Outcome(won)
  PROVE  StakesInv'
<1>1. /\ UNCHANGED <<money, heist, plan, settled, lost>> /\ call = Idle
      /\ call'.job = heist /\ call'.i = 1
      /\ call'.at = IF heist.crew = <<>> THEN "close" ELSE "pay"
  BY DEF Outcome, world, stakes, job
<1>2. heist \in Heists
  BY TypeParts DEF JobTyped
<1>3. InHand = {} /\ Gone' = Gone /\ heist'.crew = heist.crew
  BY <1>1, IdleAt DEF InHand, Gone
<1>4. StakesAreAccounted'
  <2>1. \A q \in Present' : Taken(q)' \subseteq Taken(q) \cup InHand'
    BY <1>1, NoChange, PresentArePeople
  <2> QED
    BY <1>3, <2>1, NothingIsMislaid DEF StakesInv
<1>5. \A i \in DOMAIN call'.job.crew : IsThrough(i)' => call'.job.crew[i].n \in Gone'
  <2>1. CASE heist.crew = <<>>
    BY <1>1, <2>1
  <2>2. CASE heist.crew # <<>>
    <3>1. call'.at = "pay"
      BY <1>1, <2>2
    <3>2. \A i \in DOMAIN heist.crew : ~(i < 1)
      BY <1>2, HeistParts
    <3> QED
      BY <1>1, <3>1, <3>2 DEF IsThrough
  <2> QED
    BY <2>1, <2>2
<1>6. plan' # None /\ ~plan'.gone => Tokens(plan'.job.crew) \subseteq Tokens(heist'.crew) \cup Gone'
  BY <1>1, <1>3 DEF StakesInv, CrewIsKnown
<1>7. Tokens(heist'.crew) \subseteq Tokens(call'.job.crew) \cup Gone'
  BY <1>1
<1>8. CrewIsKnown'
  BY <1>5, <1>6, <1>7 DEF CrewIsKnown, Tokens, Gone, IsThrough
<1> QED
  BY <1>4, <1>8 DEF StakesInv

LEMMA PayKeepsStakes ==
  ASSUME TypeOK, StakesInv, Present' \subseteq Present, PayMember
  PROVE  StakesInv'
<1> DEFINE m == call.job.crew[call.i]
<1>1. /\ call \in FateCalls /\ call.at = "pay" /\ call.at # "close" /\ call.i \in DOMAIN call.job.crew
      /\ call.job \in Heists
  BY CallsBySort, FateCallParts DEF PayMember
<1>2. /\ UNCHANGED <<heist, plan, lost>> /\ settled' = settled \cup {m.n}
      /\ call' = [call EXCEPT !.at = "score"]
  BY DEF PayMember, Goto, job, world
<1>3. call'.at = "score" /\ call'.job = call.job /\ call'.i = call.i
  BY <1>1, <1>2 DEF FateCalls
<1>4. \A q \in People : Taken(q)' = Taken(q)
  <2>1. CASE UNCHANGED money
    BY <2>1, NoChange
  <2>2. CASE Change(m.who, Payout(call), <<m.n, "win">>)
    <3>1. m.who \in People /\ Payout(call) \in Nat
      BY <1>1, FateIsTyped
    <3>2. Payout(call) \in Int /\ "win" \notin {"stake", "gift"}
      BY <3>1
    <3> HIDE DEF m
    <3> QED
      BY <2>2, <3>1, <3>2, OtherChange
  <2> QED
    BY <2>1, <2>2 DEF PayMember
<1>5. InHand = {} /\ Gone \subseteq Gone' /\ heist'.crew = heist.crew
  BY <1>1, <1>2 DEF InHand, Gone
<1>6. StakesAreAccounted'
  <2>1. \A q \in Present' : Taken(q)' \subseteq Taken(q) \cup InHand'
    BY <1>4, PresentArePeople
  <2> QED
    BY <1>5, <2>1, NothingIsMislaid DEF StakesInv
<1>7. \A i \in DOMAIN call'.job.crew : IsThrough(i)' => call'.job.crew[i].n \in Gone'
  <2> SUFFICES ASSUME NEW i \in DOMAIN call.job.crew, i <= call.i
               PROVE  call.job.crew[i].n \in Gone'
    BY <1>3 DEF IsThrough
  <2>1. CASE i = call.i
    BY <1>2, <2>1 DEF Gone
  <2>2. CASE i # call.i
    <3>1. i \in Int /\ call.i \in Int
      BY <1>1, HeistParts
    <3>2. i < call.i
      BY <2>2, <3>1
    <3>3. call.job.crew[i].n \in Gone
      BY <1>1, <3>2 DEF StakesInv, CrewIsKnown, IsThrough
    <3> QED
      BY <1>5, <3>3
  <2> QED
    BY <2>1, <2>2
<1>8. Tokens(heist'.crew) \subseteq Tokens(call'.job.crew) \cup Gone'
  BY <1>1, <1>3, <1>5 DEF StakesInv, CrewIsKnown
<1>9. plan' # None /\ ~plan'.gone => Tokens(plan'.job.crew) \subseteq Tokens(heist'.crew) \cup Gone'
  BY <1>2, <1>5 DEF StakesInv, CrewIsKnown
<1>10. CrewIsKnown'
  BY <1>7, <1>8, <1>9 DEF CrewIsKnown, Tokens, Gone, IsThrough
<1> QED
  BY <1>6, <1>10 DEF StakesInv

LEMMA ScoreKeepsStakes ==
  ASSUME TypeOK, StakesInv, Present' \subseteq Present, ScoreMember
  PROVE  StakesInv'
<1>1. /\ call \in FateCalls /\ call.at = "score" /\ call.i \in DOMAIN call.job.crew
      /\ call.job \in Heists
  BY CallsBySort, FateCallParts DEF ScoreMember
<1>2. UNCHANGED <<money, heist, plan, settled, lost>>
  BY DEF ScoreMember, job, world, stakes
<1>3. /\ call'.job = call.job
      /\ \/ call'.at = "close" /\ call.i = Len(call.job.crew)
         \/ call'.at = "pay" /\ call'.i = call.i + 1
  BY <1>1 DEF ScoreMember, FateCalls
<1>4. InHand = {} /\ Gone' = Gone /\ heist'.crew = heist.crew
  BY <1>1, <1>2 DEF InHand, Gone
<1>5. StakesAreAccounted'
  <2>1. \A q \in Present' : Taken(q)' \subseteq Taken(q) \cup InHand'
    BY <1>2, NoChange, PresentArePeople
  <2> QED
    BY <1>4, <2>1, NothingIsMislaid DEF StakesInv
<1>6. \A i \in DOMAIN call'.job.crew : IsThrough(i)' => call'.job.crew[i].n \in Gone'
  <2> SUFFICES ASSUME NEW i \in DOMAIN call.job.crew, IsThrough(i)'
               PROVE  call.job.crew[i].n \in Gone
    BY <1>3, <1>4
  <2>1. i \in Int /\ call.i \in Int /\ i <= Len(call.job.crew)
    BY <1>1, HeistParts
  <2>2. i <= call.i
    BY <1>3, <2>1 DEF IsThrough
  <2> QED
    BY <1>1, <2>2 DEF StakesInv, CrewIsKnown, IsThrough
<1>7. Tokens(heist'.crew) \subseteq Tokens(call'.job.crew) \cup Gone'
  BY <1>1, <1>3, <1>4 DEF StakesInv, CrewIsKnown
<1>8. plan' # None /\ ~plan'.gone => Tokens(plan'.job.crew) \subseteq Tokens(heist'.crew) \cup Gone'
  BY <1>2, <1>4 DEF StakesInv, CrewIsKnown
<1>9. CrewIsKnown'
  BY <1>6, <1>7, <1>8 DEF CrewIsKnown, Tokens, Gone, IsThrough
<1> QED
  BY <1>5, <1>9 DEF StakesInv

LEMMA CloseKeepsStakes ==
  ASSUME TypeOK, StakesInv, Present' \subseteq Present, CloseHeist
  PROVE  StakesInv'
<1>1. call.at = "close" /\ call' = Idle /\ heist'.crew = <<>>
  BY CloseIsTyped DEF CloseHeist, Done
<1>2. UNCHANGED <<money, plan, settled, lost>>
  BY DEF CloseHeist, world, stakes
<1>3. InHand = {} /\ Gone' = Gone
  BY <1>1, <1>2 DEF InHand, Gone
<1>4. Tokens(heist.crew) \subseteq Gone
  <2>1. Tokens(heist.crew) \subseteq Tokens(call.job.crew) \cup Gone
    BY <1>1 DEF StakesInv, CrewIsKnown
  <2>2. Tokens(call.job.crew) \subseteq Gone
    BY <1>1 DEF StakesInv, CrewIsKnown, IsThrough, Tokens
  <2> QED
    BY <2>1, <2>2
<1>5. StakesAreAccounted'
  <2>1. \A q \in Present' : Taken(q)' \subseteq Taken(q) \cup InHand'
    BY <1>2, NoChange, PresentArePeople
  <2> QED
    BY <1>3, <1>4, <2>1, NothingIsMislaid DEF StakesInv
<1>6. CrewIsKnown'
  <2>1. call'.at \notin {"crew", "pay", "score", "close"}
    BY <1>1, IdleAt
  <2>2. Tokens(heist'.crew) = {}
    BY <1>1, CrewOfNone
  <2> QED
    BY <1>2, <1>3, <1>4, <2>1, <2>2, CrewStaysKnown DEF StakesInv
<1> QED
  BY <1>5, <1>6 DEF StakesInv

LEMMA CutKeepsStakes ==
  ASSUME TypeOK, StakesInv, Present' \subseteq Present, Cut \/ Refused
  PROVE  StakesInv'
<1>1. /\ call' = Idle /\ lost' = lost \cup InHand
      /\ UNCHANGED <<money, heist, plan, settled>>
  BY DEF Cut, Refused, Drop, world
<1>2. Gone \subseteq Gone' /\ InHand \subseteq Gone' /\ heist'.crew = heist.crew
  BY <1>1 DEF Gone
<1>3. StakesAreAccounted'
  <2>1. \A q \in Present' : Taken(q)' \subseteq Taken(q) \cup InHand'
    BY <1>1, NoChange, PresentArePeople
  <2> QED
    BY <1>2, <2>1, NothingIsMislaid DEF StakesInv
<1>4. CrewIsKnown'
  <2>1. call'.at \notin {"crew", "pay", "score", "close"}
    BY <1>1, IdleAt
  <2> QED
    BY <1>1, <1>2, <2>1, CrewStaysKnown DEF StakesInv
<1> QED
  BY <1>3, <1>4 DEF StakesInv

\* An erasure is planned: the crew to be put back is part of the one that stands.
LEMMA PlanKeepsStakes ==
  ASSUME TypeOK, StakesInv, Present' \subseteq Present, NEW p \in People, PlanErasure(p)
  PROVE  StakesInv'
<1>1. UNCHANGED <<money, heist, call, settled, lost>> /\ plan'.job.crew = CrewWithout(p)
  BY PlanIsTyped DEF PlanErasure, job, stakes
<1>2. Tokens(CrewWithout(p)) \subseteq Tokens(heist.crew)
  BY WithoutIsTyped, TypeParts DEF JobTyped
<1>3. InHand' = InHand /\ Gone' = Gone /\ heist'.crew = heist.crew
  BY <1>1 DEF InHand, Gone
<1>4. StakesAreAccounted'
  <2>1. \A q \in Present' : Taken(q)' \subseteq Taken(q) \cup InHand'
    BY <1>1, NoChange, PresentArePeople
  <2> QED
    BY <1>3, <2>1, NothingIsMislaid DEF StakesInv
<1>5. plan' # None /\ ~plan'.gone => Tokens(plan'.job.crew) \subseteq Tokens(heist'.crew) \cup Gone'
  BY <1>1, <1>2
<1>6. CrewIsKnown'
  <2>1. call'.at \in {"crew", "pay", "score", "close"} =>
          Tokens(heist'.crew) \subseteq Tokens(call'.job.crew) \cup Gone'
    BY <1>1, <1>3 DEF StakesInv, CrewIsKnown
  <2>2. call'.at \in {"pay", "score", "close"} =>
          \A i \in DOMAIN call'.job.crew : IsThrough(i)' => call'.job.crew[i].n \in Gone'
    BY <1>1, <1>3 DEF StakesInv, CrewIsKnown, IsThrough
  <2> QED
    BY <1>5, <2>1, <2>2 DEF CrewIsKnown, Tokens, Gone, IsThrough
<1> QED
  BY <1>4, <1>6 DEF StakesInv

\* It is applied: the crew that is put back is known to the call, as it stood there before.
LEMMA ApplyKeepsStakes ==
  ASSUME TypeOK, StakesInv, Present' \subseteq Present, ApplyErasure
  PROVE  StakesInv'
<1>1. /\ UNCHANGED <<call, settled>> /\ plan # None /\ ~plan.gone
      /\ ledger' = [ledger EXCEPT ![plan.who] = <<>>]
      /\ \/ UNCHANGED <<heist, lost>>
         \/ /\ heist' = plan.job
            /\ lost' = lost \cup (Tokens(heist.crew) \ Tokens(plan.job.crew))
  BY DEF ApplyErasure
<1>2. plan'.gone
  BY ApplyIsTyped
<1>3. InHand' = InHand /\ Gone \subseteq Gone'
  BY <1>1 DEF InHand, Gone
<1>4. Tokens(heist.crew) \subseteq Tokens(heist'.crew) \cup Gone'
  BY <1>1 DEF Gone
<1>5. Tokens(heist'.crew) \subseteq Tokens(heist.crew) \cup Gone'
  BY <1>1, <1>3 DEF StakesInv, CrewIsKnown
<1>6. StakesAreAccounted'
  <2>1. \A q \in Present' : Taken(q)' \subseteq Taken(q) \cup InHand'
    <3> SUFFICES ASSUME NEW q \in Present'
                 PROVE  Taken(q)' \subseteq Taken(q)
      OBVIOUS
    <3>1. plan'.who = plan.who /\ plan' # None
      BY ApplyIsTyped, NoneIsNoRecord
    <3>2. q # plan.who /\ q \in People
      BY <3>1, PresentArePeople DEF Present
    <3>3. ledger'[q] = ledger[q]
      BY <1>1, <3>2, TypeParts DEF Money
    <3> QED
      BY <3>3 DEF Taken, OfKind, Ids
  <2> QED
    BY <1>3, <1>4, <2>1, NothingIsMislaid DEF StakesInv
<1>7. CrewIsKnown'
  <2>1. call'.at \in {"crew", "pay", "score", "close"} =>
          Tokens(heist'.crew) \subseteq Tokens(call'.job.crew) \cup Gone'
    BY <1>1, <1>3, <1>5 DEF StakesInv, CrewIsKnown
  <2>2. call'.at \in {"pay", "score", "close"} =>
          \A i \in DOMAIN call'.job.crew : IsThrough(i)' => call'.job.crew[i].n \in Gone'
    BY <1>1, <1>3 DEF StakesInv, CrewIsKnown, IsThrough
  <2> QED
    BY <1>2, <2>1, <2>2 DEF CrewIsKnown, Tokens, Gone, IsThrough
<1> QED
  BY <1>6, <1>7 DEF StakesInv

LEMMA FinishKeepsStakes ==
  ASSUME TypeOK, StakesInv, Present' \subseteq Present, FinishErasure
  PROVE  StakesInv'
<1>1. UNCHANGED <<money, heist, call, settled, lost>> /\ plan' = None
  BY DEF FinishErasure, job, stakes
<1>2. InHand' = InHand /\ Gone' = Gone
  BY <1>1 DEF InHand, Gone
<1>3. StakesAreAccounted'
  <2>1. \A q \in Present' : Taken(q)' \subseteq Taken(q) \cup InHand'
    BY <1>1, NoChange, PresentArePeople
  <2> QED
    BY <1>1, <1>2, <2>1, NothingIsMislaid DEF StakesInv
<1>4. CrewIsKnown'
  BY <1>1 DEF StakesInv, CrewIsKnown, Tokens, Gone, IsThrough
<1> QED
  BY <1>3, <1>4 DEF StakesInv

LEMMA StakesStep ==
  ASSUME TypeOK, StakesInv, [Next]_vars
  PROVE  StakesInv'
<1>1. CASE UNCHANGED vars
  <2>1. UNCHANGED <<money, heist, call, settled, lost, plan, alive>>
    BY <1>1 DEF vars, job, stakes, world
  <2>2. \A q \in Present' : Taken(q)' \subseteq Taken(q) \cup InHand'
    BY <2>1, NoChange, PresentArePeople DEF Present
  <2>3. Present' \subseteq Present /\ InHand' = InHand
    BY <2>1 DEF Present, InHand
  <2> QED
    BY <2>1, <2>2, <2>3, QuietStep
<1> SUFFICES ASSUME Next
             PROVE  StakesInv'
  BY <1>1
<1>2. Present' \subseteq Present
  BY PresentShrinks
<1>3. ASSUME NEW p \in People, Command(p)
      PROVE  StakesInv'
  BY <1>2, <1>3, EggCommandsKeepStakes, BetsKeepStakes DEF Command
<1>4. CASE Work
  BY <1>2, <1>4, EggsKeepStakes, SettleKeepsStakes, TallyKeepsStakes, JoinKeepsStakes,
     PayKeepsStakes, ScoreKeepsStakes, CloseKeepsStakes, CutKeepsStakes DEF Work
<1>5. CASE Tick
  BY <1>2, <1>5, TallyKeepsStakes, BeatKeepsStakes, OutcomeKeepsStakes DEF Tick
<1>6. ASSUME NEW p \in People, Earn(p) \/ PlanErasure(p)
      PROVE  StakesInv'
  BY <1>2, <1>6, TallyKeepsStakes, PlanKeepsStakes
<1>7. CASE Cut \/ CoolDown \/ NewDay \/ ApplyErasure \/ FinishErasure
  BY <1>2, <1>7, CutKeepsStakes, TallyKeepsStakes, ApplyKeepsStakes, FinishKeepsStakes
<1> QED
  BY <1>3, <1>4, <1>5, <1>6, <1>7 DEF Next

LEMMA StakesInit ==
  ASSUME Init
  PROVE  StakesInv
<1>1. /\ \A p \in Present : ledger[p] = <<>>
      /\ heist.crew = <<>> /\ call.at = "idle" /\ plan = None
  BY IdleAt DEF Init, Present, NoHeist
<1>2. \A p \in Present : Taken(p) = {}
  BY <1>1 DEF Taken, OfKind, Ids
<1>3. StakesAreAccounted
  BY <1>2 DEF StakesAreAccounted, Taken
<1>4. CrewIsKnown
  BY <1>1 DEF CrewIsKnown
<1> QED
  BY <1>3, <1>4 DEF StakesInv

\* Every stake and gift that left somebody's brass is in the hands of the call that took
\* it, on the crew, settled, or lost with a call cut short or an erasure (place_stake and
\* save_heist are requests of their own, brass.rs and heist.rs).
THEOREM StakesCount == Spec => []StakesAreAccounted
<1>1. Init => StakesInv
  BY StakesInit
<1>2. TypeOK /\ StakesInv /\ [Next]_vars => StakesInv'
  BY StakesStep
<1>3. StakesInv => StakesAreAccounted
  BY DEF StakesInv
<1> QED
  BY <1>1, <1>2, <1>3, TypeCorrect, PTL DEF Spec

-----------------------------------------------------------------------------
(* Goods: what each step does to the books of the person it serves.                      *)

Person(l, b, s, o, eggs, items) ==
  /\ l \in Books /\ b \in Nat /\ s \in Shelves /\ o \in SUBSET (Cosmetics \X (1..MaxDraws))
  /\ eggs \in Nat /\ items \in Nat
  /\ Accounts(l, b, s, o, eggs, items)

\* The tokens of a kind are finitely many.
LEMMA IdsAreCounted ==
  ASSUME NEW l \in Books, NEW kind
  PROVE  /\ IsFiniteSet(Ids(l, kind)) /\ Cardinality(Ids(l, kind)) \in Nat
         /\ \A n : Cardinality(Ids(l, kind) \cup {n}) =
                     Cardinality(Ids(l, kind)) + One(n \notin Ids(l, kind))
<1>1. \A i \in DOMAIN l : l[i][1] \in 1..(MaxDraws + MaxGains)
  BY DEF Books
<1>2. Ids(l, kind) \subseteq 1..(MaxDraws + MaxGains)
  BY <1>1 DEF Ids
<1>3. IsFiniteSet(1..(MaxDraws + MaxGains))
  <2>1. MaxDraws + MaxGains \in Int
    BY Bounds
  <2> QED
    BY <2>1, FS_Interval
<1>4. IsFiniteSet(Ids(l, kind))
  BY <1>2, <1>3, FS_Subset
<1>5. Cardinality(Ids(l, kind)) \in Nat
  BY <1>4, FS_CardinalityType
<1>6. ASSUME NEW n
      PROVE  Cardinality(Ids(l, kind) \cup {n}) =
               Cardinality(Ids(l, kind)) + One(n \notin Ids(l, kind))
  <2>1. CASE n \in Ids(l, kind)
    <3>1. Ids(l, kind) \cup {n} = Ids(l, kind)
      BY <2>1
    <3> QED
      BY <1>5, <2>1, <3>1 DEF One
  <2>2. CASE n \notin Ids(l, kind)
    <3>1. Cardinality(Ids(l, kind) \cup {n}) = Cardinality(Ids(l, kind)) + 1
      BY <1>4, <2>2, FS_AddElement
    <3> QED
      BY <2>2, <3>1 DEF One
  <2> QED
    BY <2>1, <2>2
<1> QED
  BY <1>4, <1>5, <1>6

LEMMA SameIds ==
  ASSUME NEW l \in Books, NEW n, NEW kind, NEW k, k # kind
  PROVE  Ids(Append(l, <<n, kind>>), k) = Ids(l, k)
<1>1. Ids(Append(l, <<n, kind>>), k) = Ids(l, k) \cup (IF k = kind THEN {n} ELSE {})
  BY IdsOfAppend
<1> QED
  BY <1>1

LEMMA OneMoreId ==
  ASSUME NEW l \in Books, NEW n, NEW kind
  PROVE  Ids(Append(l, <<n, kind>>), kind) = Ids(l, kind) \cup {n}
<1>1. Ids(Append(l, <<n, kind>>), kind) = Ids(l, kind) \cup (IF kind = kind THEN {n} ELSE {})
  BY IdsOfAppend
<1> QED
  BY <1>1

\* The ledger does not hold e among the latest it keeps.
IsForgotten(l, e) == \A i \in DOMAIN l : i > Len(l) - LedgerKept => l[i] # e

LEMMA NewEntry ==
  ASSUME NEW l \in Books, NEW e, EveryEntryIsNew(l), IsForgotten(l, e)
  PROVE  EveryEntryIsNew(Append(l, e))
<1> DEFINE d == Append(l, e)
<1>1. /\ Len(l) \in Nat /\ DOMAIN d = 1..(Len(l) + 1) /\ DOMAIN l = 1..Len(l)
      /\ \A i \in 1..Len(l) : d[i] = l[i]
      /\ d[Len(l) + 1] = e
  BY DEF Books
<1>2. LedgerKept \in Nat
  BY Numbers
<1> HIDE DEF d
<1>3. ASSUME NEW i \in DOMAIN d, NEW j \in DOMAIN d, i < j, d[i] = d[j]
      PROVE  j - i > LedgerKept
  <2>1. i \in DOMAIN l /\ d[i] = l[i] /\ i \in Int /\ j \in Int
    BY <1>1, <1>3
  <2>2. CASE j \in DOMAIN l
    BY <1>1, <1>3, <2>1, <2>2 DEF EveryEntryIsNew
  <2>3. CASE j = Len(l) + 1
    <3>1. ~(i > Len(l) - LedgerKept)
      BY <1>1, <1>3, <2>1, <2>3 DEF IsForgotten
    <3> QED
      BY <1>1, <1>2, <2>1, <2>3, <3>1
  <2> QED
    BY <1>1, <2>2, <2>3
<1> QED
  BY <1>3 DEF EveryEntryIsNew, d

\* An entry that brings brass, or a charge: what was charged stays remembered.
LEMMA StaysRemembered ==
  ASSUME NEW l \in Books, NEW b \in Nat, NEW s \in Shelves, NEW amount \in Int, NEW n, NEW kind,
         ChargeIsRemembered(l, b, s), b + amount >= 0,
         \/ amount >= 1
         \/ ~Tells(s, "buy")
         \/ kind = "buy" /\ n = s.pending.n
  PROVE  ChargeIsRemembered(Append(l, <<n, kind>>), b + amount, s)
<1> DEFINE d == Append(l, <<n, kind>>)
<1>1. /\ Len(l) \in Nat /\ DOMAIN d = 1..(Len(l) + 1) /\ DOMAIN l = 1..Len(l)
      /\ \A i \in 1..Len(l) : d[i] = l[i]
      /\ d[Len(l) + 1] = <<n, kind>> /\ Len(d) = Len(l) + 1
  BY DEF Books
<1>2. Ids(d, "buy") = Ids(l, "buy") \cup (IF "buy" = kind THEN {n} ELSE {})
  BY IdsOfAppend
<1> HIDE DEF d
<1> SUFFICES ASSUME Tells(s, "buy"), s.pending.n \in Ids(d, "buy")
             PROVE  \E i \in DOMAIN d : d[i] = <<s.pending.n, "buy">> /\ b + amount >= Len(d) - i
  BY DEF ChargeIsRemembered, d
<1>3. CASE kind = "buy" /\ n = s.pending.n
  <2>1. Len(l) + 1 \in DOMAIN d /\ b + amount >= Len(d) - (Len(l) + 1)
    BY <1>1
  <2> QED
    BY <1>1, <1>3, <2>1
<1>4. CASE ~(kind = "buy" /\ n = s.pending.n)
  <2>1. s.pending.n \in Ids(l, "buy") /\ amount >= 1
    BY <1>2, <1>4
  <2>2. PICK i \in DOMAIN l : l[i] = <<s.pending.n, "buy">> /\ b >= Len(l) - i
    BY <2>1 DEF ChargeIsRemembered
  <2>3. i \in DOMAIN d /\ d[i] = l[i] /\ i \in Int
    BY <1>1
  <2>4. b + amount >= Len(d) - i
    BY <1>1, <2>1, <2>2, <2>3
  <2> QED
    BY <2>2, <2>3, <2>4
<1> QED
  BY <1>3, <1>4

\* Brass that has nothing to do with eggs, hatches and bundles.
LEMMA OtherEntry ==
  ASSUME NEW l, NEW b, NEW s, NEW o, NEW eggs, NEW items, Person(l, b, s, o, eggs, items),
         NEW amount \in Int, NEW n \in 1..(MaxDraws + MaxGains),
         NEW kind \in Kinds \ {"buy", "refund", "trade"},
         IsForgotten(l, <<n, kind>>), b + amount >= 0, amount >= 1 \/ s.pending = None
  PROVE  Person(Append(l, <<n, kind>>), b + amount, s, o, eggs, items)
<1> DEFINE d == Append(l, <<n, kind>>)
<1>1. /\ l \in Books /\ b \in Nat /\ s \in Shelves
      /\ EveryEntryIsNew(l) /\ ChargeIsRemembered(l, b, s)
  BY DEF Person, Accounts
<1>2. Ids(d, "buy") = Ids(l, "buy") /\ Ids(d, "refund") = Ids(l, "refund") /\ Ids(d, "trade") = Ids(l, "trade")
  <2>1. "buy" # kind /\ "refund" # kind /\ "trade" # kind
    OBVIOUS
  <2> QED
    BY <1>1, <2>1, SameIds
<1>3. d \in Books
  BY <1>1 DEF Books
<1>4. EveryEntryIsNew(d)
  BY <1>1, NewEntry
<1>5. ChargeIsRemembered(d, b + amount, s)
  <2>1. amount >= 1 \/ ~Tells(s, "buy")
    BY DEF Tells
  <2> QED
    BY <1>1, <2>1, StaysRemembered
<1> HIDE DEF d
<1>6. EggsAreCharged(d, s, eggs) /\ EggsAreHatched(d, s, o, eggs, items) /\ JunkIsPaid(d, s, items)
  BY <1>2 DEF Person, Accounts, EggsAreCharged, EggsAreHatched, JunkIsPaid, Yielded
<1>7. HatchIsSound(d, s, o)
  BY <1>2 DEF Person, Accounts, HatchIsSound
<1>8. b + amount \in Nat
  BY <1>1
<1>9. Person(d, b + amount, s, o, eggs, items)
  BY <1>3, <1>4, <1>5, <1>6, <1>7, <1>8 DEF Person, Accounts
<1> QED
  BY <1>9 DEF d

\* The charge for a recorded purchase: repeated, it is either new to the count of tokens,
\* or an old one that was pushed out of the ledger.
LEMMA EggIsCharged ==
  ASSUME NEW l, NEW b, NEW s, NEW o, NEW eggs, NEW items, Person(l, b, s, o, eggs, items),
         Tells(s, "buy"), IsForgotten(l, <<s.pending.n, "buy">>), b - EggCost >= 0
  PROVE  LET d == Append(l, <<s.pending.n, "buy">>)
         IN Person(d, b - EggCost, s, o, eggs, items) /\ s.pending.n \in Ids(d, "buy")
<1> DEFINE n == s.pending.n
           d == Append(l, <<n, "buy">>)
<1>1. /\ l \in Books /\ b \in Nat /\ s \in Shelves /\ eggs \in Nat
      /\ EveryEntryIsNew(l) /\ ChargeIsRemembered(l, b, s) /\ EggsAreCharged(l, s, eggs)
  BY DEF Person, Accounts
<1>2. n \in 1..MaxDraws /\ n \in 1..(MaxDraws + MaxGains)
  <2>1. s.pending \in Pendings
    BY <1>1, ShelfParts DEF Tells
  <2> QED
    BY <2>1, Bounds DEF Pendings
<1>3. Ids(d, "buy") = Ids(l, "buy") \cup {n} /\ Ids(d, "refund") = Ids(l, "refund") /\ Ids(d, "trade") = Ids(l, "trade")
  <2>1. Ids(d, "buy") = Ids(l, "buy") \cup {n}
    BY <1>1, OneMoreId
  <2>2. Ids(d, "refund") = Ids(l, "refund")
    BY <1>1, SameIds
  <2>3. Ids(d, "trade") = Ids(l, "trade")
    BY <1>1, SameIds
  <2> QED
    BY <2>1, <2>2, <2>3
<1>4. d \in Books
  BY <1>1, <1>2 DEF Books, Kinds
<1>5. EveryEntryIsNew(d)
  BY <1>1, NewEntry
<1>6. EggCost \in Nat
  BY Numbers
<1>7. -EggCost \in Int /\ b + (-EggCost) = b - EggCost /\ b - EggCost \in Nat
  BY <1>1, <1>6
<1>8. ChargeIsRemembered(d, b - EggCost, s)
  <2>1. b + (-EggCost) >= 0
    BY <1>7
  <2>2. ChargeIsRemembered(d, b + (-EggCost), s)
    BY <1>1, <1>7, <2>1, StaysRemembered
  <2> QED
    BY <1>7, <2>2
<1> HIDE DEF d
<1>9. EggsAreCharged(d, s, eggs)
  <2>1. Cardinality(Ids(d, "buy")) = Cardinality(Ids(l, "buy")) + One(n \notin Ids(l, "buy"))
    BY <1>1, <1>3, IdsAreCounted
  <2>2. Cardinality(Ids(l, "buy")) = eggs + One(n \in Ids(l, "buy"))
    BY <1>1 DEF EggsAreCharged
  <2>3. Cardinality(Ids(d, "buy")) = eggs + 1
    BY <1>1, <2>1, <2>2 DEF One
  <2> QED
    BY <1>3, <2>3 DEF EggsAreCharged, One
<1>10. ~Tells(s, "hatch") /\ ~Tells(s, "trade")
  BY DEF Tells
<1>11. EggsAreHatched(d, s, o, eggs, items) /\ JunkIsPaid(d, s, items) /\ HatchIsSound(d, s, o)
  BY <1>3, <1>10 DEF Person, Accounts, EggsAreHatched, JunkIsPaid, HatchIsSound
<1>12. Person(d, b - EggCost, s, o, eggs, items)
  BY <1>4, <1>5, <1>7, <1>8, <1>9, <1>11 DEF Person, Accounts
<1> QED
  BY <1>3, <1>12 DEF d

\* A charge that is refused was not made before: whoever paid it could pay it again by the
\* time it is forgotten, as every entry since has brought brass.
LEMMA RefusedWasNotCharged ==
  ASSUME NEW l, NEW b, NEW s, NEW o, NEW eggs, NEW items, Person(l, b, s, o, eggs, items),
         Tells(s, "buy"), IsForgotten(l, <<s.pending.n, "buy">>), b < EggCost
  PROVE  s.pending.n \notin Ids(l, "buy")
<1> SUFFICES ASSUME s.pending.n \in Ids(l, "buy")
             PROVE  FALSE
  OBVIOUS
<1>1. l \in Books /\ b \in Nat /\ ChargeIsRemembered(l, b, s)
  BY DEF Person, Accounts
<1>2. PICK i \in DOMAIN l : l[i] = <<s.pending.n, "buy">> /\ b >= Len(l) - i
  BY <1>1 DEF ChargeIsRemembered
<1>3. i \in Nat /\ Len(l) \in Nat
  BY <1>1 DEF Books
<1>4. ~(i > Len(l) - LedgerKept)
  BY <1>2 DEF IsForgotten
<1>5. EggCost \in Nat /\ LedgerKept \in Nat /\ EggCost <= LedgerKept
  BY BrassAssumption
<1> QED
  BY <1>1, <1>2, <1>3, <1>4, <1>5

\* The refund for a hatch that yielded nothing yet.
LEMMA HatchIsRefunded ==
  ASSUME NEW l, NEW b, NEW s, NEW o, NEW eggs, NEW items, Person(l, b, s, o, eggs, items),
         Tells(s, "hatch"), IsForgotten(l, <<s.pending.n, "refund">>),
         s.pending.what # Item, \E g \in o : g[1] = s.pending.what /\ g[2] # s.pending.n
  PROVE  LET d == Append(l, <<s.pending.n, "refund">>)
         IN Person(d, b + Refund, s, o, eggs, items) /\ s.pending.n \in Ids(d, "refund")
<1> DEFINE n == s.pending.n
           d == Append(l, <<n, "refund">>)
<1>1. /\ l \in Books /\ b \in Nat /\ s \in Shelves /\ eggs \in Nat /\ items \in Nat
      /\ EveryEntryIsNew(l) /\ ChargeIsRemembered(l, b, s)
      /\ EggsAreHatched(l, s, o, eggs, items) /\ HatchIsSound(l, s, o) /\ OneOfEach(o)
  BY DEF Person, Accounts
<1>2. n \in 1..MaxDraws /\ n \in 1..(MaxDraws + MaxGains) /\ s.eggs \in Nat
  <2>1. s.pending \in Pendings /\ s.eggs \in Nat
    BY <1>1, ShelfParts DEF Tells
  <2> QED
    BY <2>1, Bounds DEF Pendings
<1>3. Ids(d, "buy") = Ids(l, "buy") /\ Ids(d, "refund") = Ids(l, "refund") \cup {n} /\ Ids(d, "trade") = Ids(l, "trade")
  <2>1. Ids(d, "refund") = Ids(l, "refund") \cup {n}
    BY <1>1, OneMoreId
  <2>2. Ids(d, "buy") = Ids(l, "buy")
    BY <1>1, SameIds
  <2>3. Ids(d, "trade") = Ids(l, "trade")
    BY <1>1, SameIds
  <2> QED
    BY <2>1, <2>2, <2>3
<1>4. d \in Books
  BY <1>1, <1>2 DEF Books, Kinds
<1>5. EveryEntryIsNew(d)
  BY <1>1, NewEntry
<1>6. Refund \in Nat /\ Refund >= 1 /\ Refund \in Int
  BY Numbers
<1>7. b + Refund \in Nat /\ b + Refund >= 0
  BY <1>1, <1>6
<1>8. ChargeIsRemembered(d, b + Refund, s)
  BY <1>1, <1>6, <1>7, StaysRemembered
<1> HIDE DEF d
<1>9. \A g \in o : g[2] # n
  BY <1>1 DEF HatchIsSound, OneOfEach
<1>10. EggsAreHatched(d, s, o, eggs, items)
  <2>1. Cardinality(Ids(d, "refund")) = Cardinality(Ids(l, "refund")) + One(n \notin Ids(l, "refund"))
    BY <1>1, <1>3, IdsAreCounted
  <2>2. eggs + One(n \in Ids(l, "refund")) =
          s.eggs + items + Cardinality(o) + Cardinality(Ids(l, "refund"))
    BY <1>1, <1>9 DEF EggsAreHatched, Yielded
  <2>3. Cardinality(Ids(l, "refund")) \in Nat /\ Cardinality(o) \in Nat
    BY <1>1, IdsAreCounted, FS_CardinalityType DEF OneOfEach
  <2>4. eggs + 1 = s.eggs + items + Cardinality(o) + Cardinality(Ids(d, "refund"))
    BY <1>1, <1>2, <2>1, <2>2, <2>3 DEF One
  <2> QED
    BY <1>3, <2>4 DEF EggsAreHatched, Yielded, One
<1>11. ~Tells(s, "buy") /\ ~Tells(s, "trade")
  BY DEF Tells
<1>12. EggsAreCharged(d, s, eggs) /\ JunkIsPaid(d, s, items)
  BY <1>3, <1>11 DEF Person, Accounts, EggsAreCharged, JunkIsPaid
<1>13. HatchIsSound(d, s, o)
  BY <1>1 DEF HatchIsSound
<1>14. Person(d, b + Refund, s, o, eggs, items)
  BY <1>4, <1>5, <1>7, <1>8, <1>10, <1>12, <1>13 DEF Person, Accounts
<1> QED
  BY <1>3, <1>14 DEF d

\* The pay for a bundle.
LEMMA BundleIsPaid ==
  ASSUME NEW l, NEW b, NEW s, NEW o, NEW eggs, NEW items, Person(l, b, s, o, eggs, items),
         Tells(s, "trade"), IsForgotten(l, <<s.pending.n, "trade">>)
  PROVE  LET d == Append(l, <<s.pending.n, "trade">>)
         IN Person(d, b + JunkValue, s, o, eggs, items) /\ s.pending.n \in Ids(d, "trade")
<1> DEFINE n == s.pending.n
           d == Append(l, <<n, "trade">>)
<1>1. /\ l \in Books /\ b \in Nat /\ s \in Shelves /\ items \in Nat
      /\ EveryEntryIsNew(l) /\ ChargeIsRemembered(l, b, s) /\ JunkIsPaid(l, s, items)
  BY DEF Person, Accounts
<1>2. n \in 1..MaxDraws /\ n \in 1..(MaxDraws + MaxGains) /\ s.junk \in Nat
  <2>1. s.pending \in Pendings /\ s.junk \in Nat
    BY <1>1, ShelfParts DEF Tells
  <2> QED
    BY <2>1, Bounds DEF Pendings
<1>3. Ids(d, "buy") = Ids(l, "buy") /\ Ids(d, "refund") = Ids(l, "refund") /\ Ids(d, "trade") = Ids(l, "trade") \cup {n}
  <2>1. Ids(d, "trade") = Ids(l, "trade") \cup {n}
    BY <1>1, OneMoreId
  <2>2. Ids(d, "buy") = Ids(l, "buy")
    BY <1>1, SameIds
  <2>3. Ids(d, "refund") = Ids(l, "refund")
    BY <1>1, SameIds
  <2> QED
    BY <2>1, <2>2, <2>3
<1>4. d \in Books
  BY <1>1, <1>2 DEF Books, Kinds
<1>5. EveryEntryIsNew(d)
  BY <1>1, NewEntry
<1>6. JunkValue \in Int /\ JunkValue >= 1
  BY Numbers
<1>7. b + JunkValue \in Nat /\ b + JunkValue >= 0
  BY <1>1, <1>6
<1>8. ChargeIsRemembered(d, b + JunkValue, s)
  BY <1>1, <1>6, <1>7, StaysRemembered
<1> HIDE DEF d
<1>9. JunkIsPaid(d, s, items)
  <2> DEFINE before == Cardinality(Ids(l, "trade"))
             after == Cardinality(Ids(d, "trade"))
  <2>1. after = before + One(n \notin Ids(l, "trade")) /\ before \in Nat
    BY <1>1, <1>3, IdsAreCounted
  <2>2. items + One(n \in Ids(l, "trade")) * Bundle = s.junk + before * Bundle
    BY <1>1 DEF JunkIsPaid
  <2> HIDE DEF before, after
  <2>3. Bundle \in Nat /\ (before + 1) * Bundle = before * Bundle + Bundle
        /\ 1 * Bundle = Bundle /\ 0 * Bundle = 0 /\ before * Bundle \in Nat
    BY <2>1, Numbers
  <2>4. items + 1 * Bundle = s.junk + after * Bundle
    <3>1. CASE n \in Ids(l, "trade")
      <4>1. after = before
        BY <2>1, <3>1 DEF One
      <4> QED
        BY <2>2, <3>1, <4>1 DEF One
    <3>2. CASE n \notin Ids(l, "trade")
      <4>1. after = before + 1
        BY <2>1, <3>2 DEF One
      <4>2. items + 0 * Bundle = s.junk + before * Bundle
        BY <2>2, <3>2 DEF One
      <4> DEFINE paid == before * Bundle
      <4>3. after * Bundle = paid + Bundle
        BY <2>3, <4>1
      <4>4. items = s.junk + paid /\ paid \in Nat
        BY <1>1, <1>2, <2>3, <4>2
      <4> HIDE DEF paid
      <4> QED
        BY <1>2, <2>3, <4>3, <4>4
    <3> QED
      BY <3>1, <3>2
  <2> QED
    BY <1>3, <2>4 DEF JunkIsPaid, One, after
<1>10. ~Tells(s, "buy") /\ ~Tells(s, "hatch")
  BY DEF Tells
<1>11. EggsAreCharged(d, s, eggs) /\ EggsAreHatched(d, s, o, eggs, items) /\ HatchIsSound(d, s, o)
  BY <1>3, <1>10 DEF Person, Accounts, EggsAreCharged, EggsAreHatched, HatchIsSound
<1>12. Person(d, b + JunkValue, s, o, eggs, items)
  BY <1>4, <1>5, <1>7, <1>8, <1>9, <1>11 DEF Person, Accounts
<1> QED
  BY <1>3, <1>12 DEF d

\* A shelf that records another action, or none.
LEMMA RecordOf ==
  ASSUME NEW s \in Shelves, NEW kind \in {"buy", "hatch", "trade"}, NEW n \in 1..MaxDraws,
         NEW what \in Cosmetics \cup {Item},
         kind = "hatch" => s.eggs > 0, kind = "trade" => s.junk >= Bundle
  PROVE  LET t == [s EXCEPT !.pending = [kind |-> kind, n |-> n, what |-> what]]
         IN /\ t \in Shelves /\ t.eggs = s.eggs /\ t.junk = s.junk /\ t.pending # None
            /\ t.pending.kind = kind /\ t.pending.n = n /\ t.pending.what = what
<1> DEFINE r == [kind |-> kind, n |-> n, what |-> what]
           t == [s EXCEPT !.pending = r]
<1>1. r.kind = kind /\ r.n = n /\ r.what = what
  OBVIOUS
<1>2. t \in Shelves /\ r # None
  BY RecordIsTyped
<1> HIDE DEF r
<1>3. t = [eggs |-> s.eggs, junk |-> s.junk, pending |-> r]
  BY ShelfParts
<1>4. /\ t \in Shelves /\ t.eggs = s.eggs /\ t.junk = s.junk /\ t.pending # None
      /\ t.pending.kind = kind /\ t.pending.n = n /\ t.pending.what = what
  BY <1>1, <1>2, <1>3
<1> QED
  BY <1>4 DEF r

\* A new action is recorded under a token that was never used.
LEMMA ActionIsRecorded ==
  ASSUME NEW l, NEW b, NEW s, NEW o, NEW eggs, NEW items, Person(l, b, s, o, eggs, items),
         s.pending = None, NEW n, n \notin Ids(l, "buy"), n \notin Ids(l, "refund"), n \notin Ids(l, "trade"),
         \A g \in o : g[2] # n,
         NEW t \in Shelves, t.eggs = s.eggs, t.junk = s.junk, t.pending # None, t.pending.n = n
  PROVE  Person(l, b, t, o, eggs, items)
<1>1. /\ One(Tells(t, "buy") /\ t.pending.n \in Ids(l, "buy")) = 0
      /\ One(Tells(t, "hatch") /\ Yielded(l, t, o)) = 0
      /\ One(Tells(t, "trade") /\ t.pending.n \in Ids(l, "trade")) = 0
  BY DEF One, Yielded
<1>2. /\ One(Tells(s, "buy") /\ s.pending.n \in Ids(l, "buy")) = 0
      /\ One(Tells(s, "hatch") /\ Yielded(l, s, o)) = 0
      /\ One(Tells(s, "trade") /\ s.pending.n \in Ids(l, "trade")) = 0
  BY DEF One, Tells
<1>3. EggsAreCharged(l, t, eggs)
  BY <1>1, <1>2 DEF Person, Accounts, EggsAreCharged
<1>4. EggsAreHatched(l, t, o, eggs, items)
  BY <1>1, <1>2 DEF Person, Accounts, EggsAreHatched
<1>5. JunkIsPaid(l, t, items)
  BY <1>1, <1>2 DEF Person, Accounts, JunkIsPaid
<1>6. HatchIsSound(l, t, o) /\ ChargeIsRemembered(l, b, t)
  BY DEF HatchIsSound, ChargeIsRemembered
<1> QED
  BY <1>3, <1>4, <1>5, <1>6 DEF Person, Accounts

LEMMA PlainShelf ==
  ASSUME NEW eggs, NEW junk
  PROVE  /\ Shelf(eggs, junk).eggs = eggs /\ Shelf(eggs, junk).junk = junk
         /\ Shelf(eggs, junk).pending = None /\ \A kind : ~Tells(Shelf(eggs, junk), kind)
  BY DEF Shelf, Tells

\* Books with nothing recorded add up if the three sums do.
LEMMA PlainBooks ==
  ASSUME NEW l, NEW b, NEW s, NEW o, NEW eggs, NEW items, Person(l, b, s, o, eggs, items),
         NEW e \in Nat, NEW j \in Nat, NEW laidNow \in Nat, NEW foundNow \in Nat,
         Cardinality(Ids(l, "buy")) = laidNow,
         laidNow = e + foundNow + Cardinality(o) + Cardinality(Ids(l, "refund")),
         foundNow = j + Cardinality(Ids(l, "trade")) * Bundle
  PROVE  Person(l, b, Shelf(e, j), o, laidNow, foundNow)
<1> DEFINE t == Shelf(e, j)
<1>1. t.eggs = e /\ t.junk = j /\ \A kind : ~Tells(t, kind)
  BY PlainShelf
<1>2. t \in Shelves
  BY PlainShelfIsTyped
<1> HIDE DEF t
<1>3. /\ One(Tells(t, "buy") /\ t.pending.n \in Ids(l, "buy")) = 0
      /\ One(Tells(t, "hatch") /\ Yielded(l, t, o)) = 0
      /\ One(Tells(t, "trade") /\ t.pending.n \in Ids(l, "trade")) = 0
  BY <1>1 DEF One
<1>4. EggsAreCharged(l, t, laidNow)
  BY <1>3 DEF EggsAreCharged
<1>5. EggsAreHatched(l, t, o, laidNow, foundNow)
  BY <1>1, <1>3 DEF EggsAreHatched
<1>6. JunkIsPaid(l, t, foundNow)
  <2>1. Bundle \in Nat /\ 0 * Bundle = 0
    BY Numbers
  <2>2. foundNow + 0 * Bundle = foundNow
    BY <2>1
  <2> QED
    BY <1>1, <1>3, <2>2 DEF JunkIsPaid
<1>7. HatchIsSound(l, t, o) /\ ChargeIsRemembered(l, b, t)
  BY <1>1 DEF HatchIsSound, ChargeIsRemembered
<1>8. Person(l, b, t, o, laidNow, foundNow)
  BY <1>2, <1>4, <1>5, <1>6, <1>7 DEF Person, Accounts
<1> QED
  BY <1>8 DEF t

\* What the sums of a person's books are.
LEMMA Sums ==
  ASSUME NEW l, NEW b, NEW s, NEW o, NEW eggs, NEW items, Person(l, b, s, o, eggs, items)
  PROVE  /\ Cardinality(Ids(l, "buy")) = eggs + One(Tells(s, "buy") /\ s.pending.n \in Ids(l, "buy"))
         /\ eggs + One(Tells(s, "hatch") /\ Yielded(l, s, o)) =
              s.eggs + items + Cardinality(o) + Cardinality(Ids(l, "refund"))
         /\ items + One(Tells(s, "trade") /\ s.pending.n \in Ids(l, "trade")) * Bundle =
              s.junk + Cardinality(Ids(l, "trade")) * Bundle
         /\ eggs \in Nat /\ items \in Nat /\ s.eggs \in Nat /\ s.junk \in Nat
         /\ Cardinality(o) \in Nat /\ Cardinality(Ids(l, "refund")) \in Nat
         /\ Cardinality(Ids(l, "trade")) * Bundle \in Nat
         /\ 0 * Bundle = 0 /\ 1 * Bundle = Bundle /\ Bundle \in Nat
<1>1. l \in Books /\ s \in Shelves /\ OneOfEach(o) /\ eggs \in Nat /\ items \in Nat
  BY DEF Person, Accounts
<1>2. Cardinality(Ids(l, "trade")) \in Nat /\ Cardinality(Ids(l, "refund")) \in Nat
  BY <1>1, IdsAreCounted
<1>3. Cardinality(o) \in Nat
  BY <1>1, FS_CardinalityType DEF OneOfEach
<1>4. s.eggs \in Nat /\ s.junk \in Nat
  BY <1>1, ShelfParts
<1>5. Bundle \in Nat
  BY Numbers
<1>6. Cardinality(Ids(l, "trade")) * Bundle \in Nat /\ 0 * Bundle = 0 /\ 1 * Bundle = Bundle
  BY <1>2, <1>5
<1>7. EggsAreCharged(l, s, eggs) /\ EggsAreHatched(l, s, o, eggs, items) /\ JunkIsPaid(l, s, items)
  BY DEF Person, Accounts
<1> QED
  BY <1>1, <1>2, <1>3, <1>4, <1>5, <1>6, <1>7 DEF EggsAreCharged, EggsAreHatched, JunkIsPaid

\* The egg that was charged is laid.
LEMMA EggIsLaid ==
  ASSUME NEW l, NEW b, NEW s, NEW o, NEW eggs, NEW items, Person(l, b, s, o, eggs, items),
         Tells(s, "buy"), s.pending.n \in Ids(l, "buy")
  PROVE  Person(l, b, Shelf(s.eggs + 1, s.junk), o, eggs + 1, items)
<1>1. /\ Cardinality(Ids(l, "buy")) = eggs + 1
      /\ eggs = s.eggs + items + Cardinality(o) + Cardinality(Ids(l, "refund"))
      /\ items = s.junk + Cardinality(Ids(l, "trade")) * Bundle
  <2>1. ~Tells(s, "hatch") /\ ~Tells(s, "trade")
    BY DEF Tells
  <2> QED
    BY <2>1, Sums DEF One
<1>2. /\ s.eggs + 1 \in Nat /\ eggs + 1 \in Nat /\ s.junk \in Nat /\ items \in Nat
      /\ eggs + 1 = (s.eggs + 1) + items + Cardinality(o) + Cardinality(Ids(l, "refund"))
  BY <1>1, Sums
<1> QED
  BY <1>1, <1>2, PlainBooks

\* The purchase that could not be paid is given up.
LEMMA PurchaseIsGivenUp ==
  ASSUME NEW l, NEW b, NEW s, NEW o, NEW eggs, NEW items, Person(l, b, s, o, eggs, items),
         Tells(s, "buy"), s.pending.n \notin Ids(l, "buy")
  PROVE  Person(l, b, Shelf(s.eggs, s.junk), o, eggs, items)
<1>1. /\ Cardinality(Ids(l, "buy")) = eggs
      /\ eggs = s.eggs + items + Cardinality(o) + Cardinality(Ids(l, "refund"))
      /\ items = s.junk + Cardinality(Ids(l, "trade")) * Bundle
  <2>1. ~Tells(s, "hatch") /\ ~Tells(s, "trade")
    BY DEF Tells
  <2> QED
    BY <2>1, Sums DEF One
<1>2. s.eggs \in Nat /\ eggs \in Nat /\ s.junk \in Nat /\ items \in Nat
  BY Sums
<1> QED
  BY <1>1, <1>2, PlainBooks

\* The hatched egg, which yielded an item or something else, leaves the shelf.
LEMMA EggIsHatched ==
  ASSUME NEW l, NEW b, NEW s, NEW o, NEW eggs, NEW items, Person(l, b, s, o, eggs, items),
         Tells(s, "hatch"), NEW one \in {0, 1}, one = 0 <=> Yielded(l, s, o)
  PROVE  Person(l, b, Shelf(s.eggs - 1, s.junk + one), o, eggs, items + one)
<1>1. /\ Cardinality(Ids(l, "buy")) = eggs
      /\ eggs + (1 - one) = s.eggs + items + Cardinality(o) + Cardinality(Ids(l, "refund"))
      /\ items = s.junk + Cardinality(Ids(l, "trade")) * Bundle
  <2>1. ~Tells(s, "buy") /\ ~Tells(s, "trade")
    BY DEF Tells
  <2>2. One(Tells(s, "hatch") /\ Yielded(l, s, o)) = 1 - one
    BY DEF One
  <2>3. One(Tells(s, "buy") /\ s.pending.n \in Ids(l, "buy")) = 0
        /\ One(Tells(s, "trade") /\ s.pending.n \in Ids(l, "trade")) = 0
    BY <2>1 DEF One
  <2> QED
    BY <2>2, <2>3, Sums
<1>2. s.eggs > 0
  BY ShelfParts DEF Tells, Person
<1>3. /\ s.eggs - 1 \in Nat /\ eggs \in Nat /\ s.junk + one \in Nat /\ items + one \in Nat
      /\ eggs = (s.eggs - 1) + (items + one) + Cardinality(o) + Cardinality(Ids(l, "refund"))
      /\ items + one = (s.junk + one) + Cardinality(Ids(l, "trade")) * Bundle
  BY <1>1, <1>2, Sums
<1> QED
  BY <1>1, <1>3, PlainBooks

\* The bundle that was paid leaves the shelf.
LEMMA BundleIsTaken ==
  ASSUME NEW l, NEW b, NEW s, NEW o, NEW eggs, NEW items, Person(l, b, s, o, eggs, items),
         Tells(s, "trade"), s.pending.n \in Ids(l, "trade")
  PROVE  Person(l, b, Shelf(s.eggs, s.junk - Bundle), o, eggs, items)
<1>1. /\ Cardinality(Ids(l, "buy")) = eggs
      /\ eggs = s.eggs + items + Cardinality(o) + Cardinality(Ids(l, "refund"))
      /\ items + Bundle = s.junk + Cardinality(Ids(l, "trade")) * Bundle
  <2>1. ~Tells(s, "buy") /\ ~Tells(s, "hatch")
    BY DEF Tells
  <2>2. One(Tells(s, "buy") /\ s.pending.n \in Ids(l, "buy")) = 0
        /\ One(Tells(s, "hatch") /\ Yielded(l, s, o)) = 0
        /\ One(Tells(s, "trade") /\ s.pending.n \in Ids(l, "trade")) = 1
    BY <2>1 DEF One
  <2> QED
    BY <2>2, Sums
<1>2. s.junk >= Bundle
  BY ShelfParts DEF Tells, Person
<1>3. /\ s.eggs \in Nat /\ eggs \in Nat /\ s.junk - Bundle \in Nat /\ items \in Nat
      /\ items = (s.junk - Bundle) + Cardinality(Ids(l, "trade")) * Bundle
  BY <1>1, <1>2, Sums
<1> QED
  BY <1>1, <1>3, PlainBooks

\* A cosmetic that is nobody else's hatch is granted, once.
LEMMA CosmeticIsGranted ==
  ASSUME NEW l, NEW b, NEW s, NEW o, NEW eggs, NEW items, Person(l, b, s, o, eggs, items),
         Tells(s, "hatch"), s.pending.what # Item,
         ~\E g \in o : g[1] = s.pending.what /\ g[2] # s.pending.n
  PROVE  LET now == o \cup {<<s.pending.what, s.pending.n>>}
         IN Person(l, b, s, now, eggs, items) /\ Yielded(l, s, now)
<1> DEFINE n == s.pending.n
           it == <<s.pending.what, n>>
           now == o \cup {it}
<1>1. /\ l \in Books /\ s \in Shelves /\ o \in SUBSET (Cosmetics \X (1..MaxDraws))
      /\ OneOfEach(o) /\ HatchIsSound(l, s, o) /\ EggsAreHatched(l, s, o, eggs, items)
  BY DEF Person, Accounts
<1>2. it \in Cosmetics \X (1..MaxDraws) /\ it[1] = s.pending.what /\ it[2] = n
  <2>1. s.pending \in Pendings
    BY <1>1, ShelfParts DEF Tells
  <2> QED
    BY <2>1 DEF Pendings
<1> HIDE DEF it
<1>3. n \notin Ids(l, "refund")
  BY <1>1 DEF HatchIsSound
<1>4. ASSUME NEW g \in o, g[1] = it[1] \/ g[2] = it[2]
      PROVE  g = it
  <2>1. g[1] = it[1] /\ g[2] = it[2]
    BY <1>1, <1>2, <1>4 DEF HatchIsSound
  <2>2. g = <<g[1], g[2]>> /\ it = <<it[1], it[2]>>
    BY <1>1, <1>2
  <2> QED
    BY <2>1, <2>2
<1>5. IsFiniteSet(now) /\ Cardinality(now) = Cardinality(o) + One(it \notin o)
  <2>1. IsFiniteSet(o)
    BY <1>1 DEF OneOfEach
  <2>2. /\ IsFiniteSet(now)
        /\ Cardinality(now) = IF it \in o THEN Cardinality(o) ELSE Cardinality(o) + 1
    BY <2>1, FS_AddElement
  <2>3. Cardinality(o) \in Nat
    BY <2>1, FS_CardinalityType
  <2> QED
    BY <2>2, <2>3 DEF One
<1>6. Yielded(l, s, o) <=> it \in o
  <2>1. it \in o => Yielded(l, s, o)
    BY <1>2 DEF Yielded
  <2>2. Yielded(l, s, o) => it \in o
    BY <1>2, <1>3, <1>4 DEF Yielded
  <2> QED
    BY <2>1, <2>2
<1>7. it \in now /\ \A g \in now : g \in o \/ g = it
  OBVIOUS
<1>8. Yielded(l, s, now)
  BY <1>2, <1>7 DEF Yielded
<1>9. now \in SUBSET (Cosmetics \X (1..MaxDraws))
  BY <1>1, <1>2
<1>10. EggsAreHatched(l, s, now, eggs, items)
  <2>1. eggs + One(it \in o) = s.eggs + items + Cardinality(o) + Cardinality(Ids(l, "refund"))
    BY <1>1, <1>6 DEF EggsAreHatched
  <2>2. eggs + 1 = s.eggs + items + Cardinality(now) + Cardinality(Ids(l, "refund"))
    <3> DEFINE cosmetics == Cardinality(o)
               refunds == Cardinality(Ids(l, "refund"))
    <3>1. eggs \in Nat /\ items \in Nat /\ s.eggs \in Nat /\ cosmetics \in Nat /\ refunds \in Nat
      BY Sums
    <3>2. Cardinality(now) = cosmetics + One(it \notin o)
      BY <1>5
    <3>3. eggs + One(it \in o) = s.eggs + items + cosmetics + refunds
      BY <2>1
    <3> HIDE DEF cosmetics
    <3>4. eggs + 1 = s.eggs + items + (cosmetics + One(it \notin o)) + refunds
      <4> HIDE DEF refunds, now
      <4> QED
        BY <3>1, <3>3 DEF One
    <3> QED
      BY <3>2, <3>4
  <2> QED
    BY <1>8, <2>2 DEF EggsAreHatched, One
<1>11. OneOfEach(now)
  <2> SUFFICES ASSUME NEW g \in now, NEW h \in now, g[1] = h[1]
               PROVE  g = h
    BY <1>5 DEF OneOfEach
  <2> QED
    BY <1>1, <1>4, <1>7 DEF OneOfEach
<1>12. HatchIsSound(l, s, now)
  BY <1>1, <1>2, <1>3, <1>7 DEF HatchIsSound
<1> HIDE DEF now
<1>13. Person(l, b, s, now, eggs, items)
  BY <1>9, <1>10, <1>11, <1>12 DEF Person, Accounts
<1> QED
  BY <1>8, <1>13 DEF now, it

\* An egg that holds an item yielded nothing else.
LEMMA ItemIsNoYield ==
  ASSUME NEW l, NEW b, NEW s, NEW o, NEW eggs, NEW items, Person(l, b, s, o, eggs, items),
         Tells(s, "hatch"), s.pending.what = Item
  PROVE  ~Yielded(l, s, o)
<1>1. HatchIsSound(l, s, o) /\ o \in SUBSET (Cosmetics \X (1..MaxDraws))
  BY DEF Person, Accounts
<1>2. \A g \in o : g[1] # Item
  BY <1>1, BrassAssumption
<1> QED
  BY <1>1, <1>2 DEF HatchIsSound, Yielded

-----------------------------------------------------------------------------
(* Goods: what each action does to the people who are not being erased.                  *)

GoodsOf(p) ==
  /\ Accounts(ledger[p], balance[p], shelf[p], owned[p], laid[p], found[p])
  /\ TokensAreDrawn(ledger[p], shelf[p], owned[p], draws)
  /\ Serves(p) => call.shelf = shelf[p] /\ Knows(call.at, ledger[p], shelf[p], owned[p])

LEMMA PersonHere ==
  ASSUME TypeOK, GoodsAreSound, NEW p \in Present
  PROVE  /\ Person(ledger[p], balance[p], shelf[p], owned[p], laid[p], found[p])
         /\ TokensAreDrawn(ledger[p], shelf[p], owned[p], draws)
         /\ Serves(p) => call.shelf = shelf[p] /\ Knows(call.at, ledger[p], shelf[p], owned[p])
<1>1. p \in People
  BY PresentArePeople
<1>2. /\ ledger[p] \in Books /\ balance[p] \in Nat /\ shelf[p] \in Shelves
      /\ owned[p] \in SUBSET (Cosmetics \X (1..MaxDraws)) /\ laid[p] \in Nat /\ found[p] \in Nat
  BY <1>1, TypeParts DEF Money, GoodsTyped
<1> QED
  BY <1>2 DEF GoodsAreSound, Person

LEMMA TokensStayDrawn ==
  ASSUME NEW l, NEW s \in Shelves, NEW o \in SUBSET (Cosmetics \X (1..MaxDraws)), l \in Books,
         NEW d \in Nat, NEW e \in Nat, e >= d, TokensAreDrawn(l, s, o, d)
  PROVE  TokensAreDrawn(l, s, o, e)
<1>1. \A i \in DOMAIN l : l[i][1] \in Nat
  BY Bounds DEF Books
<1>2. s.pending # None => s.pending.n \in Nat
  BY ShelfParts, Bounds DEF Pendings
<1>3. \A g \in o : g[2] \in Nat
  BY Bounds
<1> QED
  BY <1>1, <1>2, <1>3 DEF TokensAreDrawn

\* A person whose goods and brass the step does not touch.
LEMMA UntouchedGoods ==
  ASSUME TypeOK, GoodsAreSound, NEW p \in Present,
         ledger'[p] = ledger[p], balance'[p] = balance[p], shelf'[p] = shelf[p],
         owned'[p] = owned[p], laid'[p] = laid[p], found'[p] = found[p],
         draws' \in Nat, draws' >= draws, call' = call \/ ~Serves(p)'
  PROVE  GoodsOf(p)'
<1>1. /\ Person(ledger[p], balance[p], shelf[p], owned[p], laid[p], found[p])
      /\ TokensAreDrawn(ledger[p], shelf[p], owned[p], draws)
      /\ Serves(p) => call.shelf = shelf[p] /\ Knows(call.at, ledger[p], shelf[p], owned[p])
  BY PersonHere
<1>2. draws \in Nat
  BY TypeParts DEF CountsTyped
<1>3. TokensAreDrawn(ledger[p], shelf[p], owned[p], draws')
  BY <1>1, <1>2, TokensStayDrawn DEF Person
<1>4. Accounts(ledger'[p], balance'[p], shelf'[p], owned'[p], laid'[p], found'[p])
  BY <1>1 DEF Person
<1>5. TokensAreDrawn(ledger'[p], shelf'[p], owned'[p], draws')
  BY <1>3
<1>6. Serves(p)' => call'.shelf = shelf'[p] /\ Knows(call'.at, ledger'[p], shelf'[p], owned'[p])
  BY <1>1 DEF Serves
<1> QED
  BY <1>4, <1>5, <1>6 DEF GoodsOf, Accounts, TokensAreDrawn, Knows, EveryEntryIsNew, EggsAreCharged,
     EggsAreHatched, JunkIsPaid, OneOfEach, HatchIsSound, ChargeIsRemembered, Yielded, Ids, Tells

LEMMA EntryIsDrawn ==
  ASSUME NEW l \in Books, NEW s, NEW o, NEW d \in Nat, TokensAreDrawn(l, s, o, d),
         NEW n, NEW kind, kind \in {"buy", "refund", "trade"} => n <= d
  PROVE  TokensAreDrawn(Append(l, <<n, kind>>), s, o, d)
<1> DEFINE m == Append(l, <<n, kind>>)
<1>1. /\ Len(l) \in Nat /\ DOMAIN m = 1..(Len(l) + 1) /\ DOMAIN l = 1..Len(l)
      /\ \A i \in 1..Len(l) : m[i] = l[i]
      /\ m[Len(l) + 1] = <<n, kind>>
  BY DEF Books
<1> HIDE DEF m
<1>2. ASSUME NEW i \in DOMAIN m, m[i][2] \in {"buy", "refund", "trade"}
      PROVE  m[i][1] <= d
  <2>1. CASE i \in DOMAIN l
    BY <1>1, <1>2, <2>1 DEF TokensAreDrawn
  <2>2. CASE i = Len(l) + 1
    <3>1. m[i][1] = n /\ m[i][2] = kind
      BY <1>1, <2>2
    <3> QED
      BY <1>2, <3>1
  <2> QED
    BY <1>1, <2>1, <2>2
<1> QED
  BY <1>2 DEF TokensAreDrawn, m

LEMMA UnknownIsForgotten ==
  ASSUME NEW p, NEW e, ~Known(p, e)
  PROVE  IsForgotten(ledger[p], e)
  BY DEF Known, IsForgotten

\* A person's state after a step is given part by part.
LEMMA GoodsNext ==
  ASSUME NEW p, NEW l, NEW b, NEW s, NEW o, NEW eggs, NEW items, NEW d,
         ledger'[p] = l, balance'[p] = b, shelf'[p] = s, owned'[p] = o, laid'[p] = eggs,
         found'[p] = items, draws' = d,
         Accounts(l, b, s, o, eggs, items), TokensAreDrawn(l, s, o, d),
         Serves(p)' => call'.shelf = s /\ Knows(call'.at, l, s, o)
  PROVE  GoodsOf(p)'
<1>1. Accounts(ledger'[p], balance'[p], shelf'[p], owned'[p], laid'[p], found'[p])
  OBVIOUS
<1>2. TokensAreDrawn(ledger'[p], shelf'[p], owned'[p], draws')
  OBVIOUS
<1>3. Serves(p)' => call'.shelf = shelf'[p] /\ Knows(call'.at, ledger'[p], shelf'[p], owned'[p])
  OBVIOUS
<1> QED
  BY <1>1, <1>2, <1>3 DEF GoodsOf, Accounts, TokensAreDrawn, Knows, EveryEntryIsNew, EggsAreCharged,
     EggsAreHatched, JunkIsPaid, OneOfEach, HatchIsSound, ChargeIsRemembered, Yielded, Ids, Tells

\* Brass that changes hands for anything but an egg, a refund or a bundle.
LEMMA ChangedGoods ==
  ASSUME TypeOK, GoodsAreSound, NEW p \in Present,
         NEW who \in People, NEW amount \in Int, NEW n \in 1..(MaxDraws + MaxGains),
         NEW kind \in Kinds \ {"buy", "refund", "trade"}, Change(who, amount, <<n, kind>>),
         amount >= 1 \/ shelf[who].pending = None,
         UNCHANGED goods, draws' \in Nat, draws' >= draws,
         call' = call \/ ~Serves(p)'
  PROVE  GoodsOf(p)'
<1>1. UNCHANGED <<shelf, owned, laid, found>>
  BY DEF goods
<1>2. p \in People /\ ledger \in [People -> Books] /\ balance \in [People -> Nat] /\ draws \in Nat
  BY PresentArePeople, TypeParts DEF Money, CountsTyped
<1>3. CASE ledger'[p] = ledger[p] /\ balance'[p] = balance[p]
  BY <1>1, <1>3, UntouchedGoods
<1>4. CASE /\ p = who /\ ~Known(p, <<n, kind>>)
           /\ balance' = [balance EXCEPT ![p] = balance[p] + amount] /\ balance[p] + amount >= 0
           /\ ledger' = [ledger EXCEPT ![p] = Append(ledger[p], <<n, kind>>)]
  <2> DEFINE l == Append(ledger[p], <<n, kind>>)
             b == balance[p] + amount
  <2>1. ledger'[p] = l /\ balance'[p] = b
    BY <1>2, <1>4
  <2>2. /\ Person(ledger[p], balance[p], shelf[p], owned[p], laid[p], found[p])
        /\ TokensAreDrawn(ledger[p], shelf[p], owned[p], draws)
        /\ Serves(p) => call.shelf = shelf[p] /\ Knows(call.at, ledger[p], shelf[p], owned[p])
    BY PersonHere
  <2>3. IsForgotten(ledger[p], <<n, kind>>)
    BY <1>4, UnknownIsForgotten
  <2>4. amount >= 1 \/ shelf[p].pending = None
    BY <1>4
  <2>5. Person(l, b, shelf[p], owned[p], laid[p], found[p])
    BY <1>4, <2>2, <2>3, <2>4, OtherEntry
  <2>6. TokensAreDrawn(ledger[p], shelf[p], owned[p], draws')
    BY <1>2, <2>2, TokensStayDrawn DEF Person
  <2>7. TokensAreDrawn(l, shelf[p], owned[p], draws')
    BY <1>2, <2>6, EntryIsDrawn
  <2>8. /\ Ids(l, "buy") = Ids(ledger[p], "buy") /\ Ids(l, "refund") = Ids(ledger[p], "refund")
        /\ Ids(l, "trade") = Ids(ledger[p], "trade")
    <3>1. "buy" # kind /\ "refund" # kind /\ "trade" # kind /\ ledger[p] \in Books
      BY <1>2
    <3> QED
      BY <3>1, SameIds
  <2> HIDE DEF l, b
  <2>9. Serves(p)' => call'.shelf = shelf[p] /\ Knows(call'.at, l, shelf[p], owned[p])
    BY <2>2, <2>8 DEF Serves, Knows, Yielded
  <2>10. Accounts(l, b, shelf[p], owned[p], laid[p], found[p])
    BY <2>5 DEF Person
  <2> QED
    BY <1>1, <2>1, <2>7, <2>9, <2>10, GoodsNext
<1>5. \/ ledger'[p] = ledger[p] /\ balance'[p] = balance[p]
      \/ /\ p = who /\ ~Known(p, <<n, kind>>)
         /\ balance' = [balance EXCEPT ![p] = balance[p] + amount] /\ balance[p] + amount >= 0
         /\ ledger' = [ledger EXCEPT ![p] = Append(ledger[p], <<n, kind>>)]
  BY <1>2, ChangeCases
<1> QED
  BY <1>3, <1>4, <1>5

LEMMA FreshToken ==
  ASSUME NEW l \in Books, NEW s, NEW o \in SUBSET (Cosmetics \X (1..MaxDraws)), NEW d \in Nat,
         TokensAreDrawn(l, s, o, d)
  PROVE  /\ d + 1 \notin Ids(l, "buy") /\ d + 1 \notin Ids(l, "refund") /\ d + 1 \notin Ids(l, "trade")
         /\ \A g \in o : g[2] # d + 1
<1>1. \A i \in DOMAIN l : l[i][1] \in Nat
  BY Bounds DEF Books
<1>2. \A g \in o : g[2] \in Nat
  BY Bounds
<1>3. \A i \in DOMAIN l : l[i][2] \in {"buy", "refund", "trade"} => l[i][1] # d + 1
  BY <1>1 DEF TokensAreDrawn
<1>4. \A g \in o : g[2] # d + 1
  BY <1>2 DEF TokensAreDrawn
<1>5. \A k \in {"buy", "refund", "trade"} : d + 1 \notin Ids(l, k)
  BY <1>3 DEF Ids
<1> QED
  BY <1>4, <1>5

\* The same, for a shelf that takes the record in.
Recording(s, kind, n, what) == [s EXCEPT !.pending = [kind |-> kind, n |-> n, what |-> what]]
MayRecord(s, kind) ==
  /\ s.pending = None /\ kind \in {"buy", "hatch", "trade"}
  /\ kind = "hatch" => s.eggs > 0
  /\ kind = "trade" => s.junk >= Bundle

LEMMA RecordedBooks ==
  ASSUME NEW l, NEW b, NEW s, NEW o, NEW eggs, NEW items, Person(l, b, s, o, eggs, items),
         NEW drawn \in Nat, TokensAreDrawn(l, s, o, drawn), drawn + 1 \in 1..MaxDraws,
         NEW kind, NEW what \in Cosmetics \cup {Item}, MayRecord(s, kind)
  PROVE  /\ Accounts(l, b, Recording(s, kind, drawn + 1, what), o, eggs, items)
         /\ TokensAreDrawn(l, Recording(s, kind, drawn + 1, what), o, drawn + 1)
<1> DEFINE t == Recording(s, kind, drawn + 1, what)
<1>1. l \in Books /\ s \in Shelves /\ o \in SUBSET (Cosmetics \X (1..MaxDraws))
  BY DEF Person
<1>2. PICK d \in Nat : d = drawn + 1
  OBVIOUS
<1>3. /\ d \notin Ids(l, "buy") /\ d \notin Ids(l, "refund")
      /\ d \notin Ids(l, "trade") /\ \A g \in o : g[2] # d
  BY <1>1, <1>2, FreshToken
<1>4. /\ t \in Shelves /\ t.eggs = s.eggs /\ t.junk = s.junk /\ t.pending # None
      /\ t.pending.n = d
  <2>1. d \in 1..MaxDraws /\ t = [s EXCEPT !.pending = [kind |-> kind, n |-> d, what |-> what]]
    BY <1>2 DEF Recording
  <2> HIDE DEF t
  <2> QED
    BY <1>1, <2>1, RecordOf DEF MayRecord
<1> HIDE DEF t
<1>5. Person(l, b, t, o, eggs, items)
  BY <1>3, <1>4, ActionIsRecorded DEF MayRecord
<1>6. TokensAreDrawn(l, s, o, d)
  <2>1. d >= drawn
    BY <1>2
  <2> QED
    BY <1>1, <2>1, TokensStayDrawn
<1>7. TokensAreDrawn(l, t, o, d)
  BY <1>4, <1>6 DEF TokensAreDrawn
<1> QED
  BY <1>2, <1>5, <1>7 DEF Person, t

LEMMA DrawsAreNumbers == TypeOK => draws \in Nat
<1> SUFFICES ASSUME TypeOK
             PROVE  draws \in Nat
  OBVIOUS
<1>1. CountsTyped
  BY TypeParts
<1> QED
  BY <1>1, Bounds DEF CountsTyped

\* An action is recorded under the token just drawn.
LEMMA RecordedGoods ==
  ASSUME TypeOK, GoodsAreSound, NEW p \in Present, shelf[p].pending = None,
         NEW kind \in {"buy", "hatch", "trade"}, NEW what \in Cosmetics \cup {Item},
         kind = "hatch" => shelf[p].eggs > 0, kind = "trade" => shelf[p].junk >= Bundle,
         draws' = draws + 1, draws' \in 1..MaxDraws,
         NEW t, t = Recording(shelf[p], kind, draws', what),
         shelf'[p] = t, UNCHANGED <<ledger, balance, owned, laid, found>>,
         call'.at \in Eggs \ {"lay", "give up", "refund", "keep", "compact"}, call'.shelf = t
  PROVE  GoodsOf(p)'
<1>1. /\ Person(ledger[p], balance[p], shelf[p], owned[p], laid[p], found[p])
      /\ TokensAreDrawn(ledger[p], shelf[p], owned[p], draws)
  BY PersonHere
<1>2. draws \in Nat
  BY DrawsAreNumbers
<1>3. PICK d \in Nat : d = draws
  BY <1>2
<1>4. MayRecord(shelf[p], kind)
  BY DEF MayRecord
<1>5. d + 1 = draws' /\ d + 1 \in 1..MaxDraws
  BY <1>3
<1>6. /\ Accounts(ledger[p], balance[p], Recording(shelf[p], kind, d + 1, what), owned[p], laid[p], found[p])
      /\ TokensAreDrawn(ledger[p], Recording(shelf[p], kind, d + 1, what), owned[p], d + 1)
  <2>1. TokensAreDrawn(ledger[p], shelf[p], owned[p], d)
    BY <1>1, <1>3
  <2> QED
    BY ONLY <2>1, <1>1, <1>4, <1>5, what \in Cosmetics \cup {Item}, RecordedBooks
<1>7. /\ Accounts(ledger[p], balance[p], t, owned[p], laid[p], found[p])
      /\ TokensAreDrawn(ledger[p], t, owned[p], draws + 1)
  BY <1>3, <1>5, <1>6
<1>8. Knows(call'.at, ledger[p], t, owned[p])
  BY DEF Knows
<1> QED
  BY <1>7, <1>8, GoodsNext

LEMMA BuyKeepsGoods ==
  ASSUME TypeOK, GoodsAreSound, NEW p \in Present, NEW who \in People, NEW pull \in BOOLEAN, BuyEgg(who, pull)
  PROVE  GoodsOf(p)'
<1> DEFINE t == [shelf[who] EXCEPT !.pending = [kind |-> "buy", n |-> draws', what |-> Item]]
<1>1. /\ UNCHANGED <<ledger, balance, owned, laid, found>> /\ shelf[who].pending = None
      /\ shelf' = [shelf EXCEPT ![who] = t]
      /\ call' = [at |-> "charge", who |-> who, shelf |-> t, pull |-> pull, tick |-> 0]
  BY DEF BuyEgg, money, Save, Settled
<1>2. draws' = draws + 1 /\ draws' \in 1..MaxDraws /\ draws \in Nat
  <2>1. CountsTyped /\ gains' = gains /\ Draw(EggDraws)
    BY TypeParts DEF BuyEgg, world
  <2> QED
    BY <2>1, DrawIsTyped DEF CountsTyped
<1>3. p \in People /\ shelf \in [People -> Shelves]
  BY PresentArePeople, TypeParts DEF GoodsTyped
<1>4. call'.at = "charge" /\ call'.who = who /\ call'.shelf = t
  BY <1>1
<1>5. CASE p = who
  <2>1. shelf'[p] = t
    BY <1>1, <1>3, <1>5
  <2>2. t = Recording(shelf[p], "buy", draws', Item)
    BY <1>5 DEF Recording
  <2>3. shelf[p].pending = None
    BY <1>1, <1>5
  <2> HIDE DEF t
  <2>4. call'.at \in Eggs \ {"lay", "give up", "refund", "keep", "compact"}
    BY <1>4 DEF Eggs
  <2>5. "buy" \in {"buy", "hatch", "trade"} /\ Item \in Cosmetics \cup {Item}
    OBVIOUS
  <2> QED
    BY <1>1, <1>2, <1>4, <2>1, <2>2, <2>3, <2>4, <2>5, RecordedGoods
<1>6. CASE p # who
  <2>1. shelf'[p] = shelf[p]
    BY <1>1, <1>3, <1>6
  <2>2. ~Serves(p)'
    BY <1>4, <1>6 DEF Serves
  <2>3. draws' \in Nat /\ draws' >= draws
    BY <1>2
  <2> QED
    BY <1>1, <2>1, <2>2, <2>3, UntouchedGoods
<1> QED
  BY <1>5, <1>6

LEMMA RecycleKeepsGoods ==
  ASSUME TypeOK, GoodsAreSound, NEW p \in Present, NEW who \in People, Recycle(who)
  PROVE  GoodsOf(p)'
<1> DEFINE t == [shelf[who] EXCEPT !.pending = [kind |-> "trade", n |-> draws', what |-> Item]]
<1>1. /\ UNCHANGED <<ledger, balance, owned, laid, found>> /\ shelf[who].pending = None
      /\ shelf' = [shelf EXCEPT ![who] = t] /\ shelf[who].junk >= Bundle
      /\ call' = [at |-> "trade", who |-> who, shelf |-> t, pull |-> FALSE, tick |-> 0]
  BY DEF Recycle, money, Save, Settled, Begin
<1>2. draws' = draws + 1 /\ draws' \in 1..MaxDraws /\ draws \in Nat
  <2>1. CountsTyped /\ gains' = gains /\ Draw(EggDraws)
    BY TypeParts DEF Recycle, world
  <2> QED
    BY <2>1, DrawIsTyped DEF CountsTyped
<1>3. p \in People /\ shelf \in [People -> Shelves]
  BY PresentArePeople, TypeParts DEF GoodsTyped
<1>4. call'.at = "trade" /\ call'.who = who /\ call'.shelf = t
  BY <1>1
<1>5. CASE p = who
  <2>1. shelf'[p] = t
    BY <1>1, <1>3, <1>5
  <2>2. t = Recording(shelf[p], "trade", draws', Item)
    BY <1>5 DEF Recording
  <2>3. shelf[p].pending = None /\ shelf[p].junk >= Bundle
    BY <1>1, <1>5
  <2> HIDE DEF t
  <2>4. call'.at \in Eggs \ {"lay", "give up", "refund", "keep", "compact"}
    BY <1>4 DEF Eggs
  <2>5. "trade" \in {"buy", "hatch", "trade"} /\ Item \in Cosmetics \cup {Item}
    OBVIOUS
  <2> QED
    BY <1>1, <1>2, <1>4, <2>1, <2>2, <2>3, <2>4, <2>5, RecordedGoods
<1>6. CASE p # who
  <2>1. shelf'[p] = shelf[p]
    BY <1>1, <1>3, <1>6
  <2>2. ~Serves(p)'
    BY <1>4, <1>6 DEF Serves
  <2>3. draws' \in Nat /\ draws' >= draws
    BY <1>2
  <2> QED
    BY <1>1, <2>1, <2>2, <2>3, UntouchedGoods
<1> QED
  BY <1>5, <1>6

\* A call for an egg begins with the shelf as it is stored.
LEMMA BegunGoods ==
  ASSUME TypeOK, GoodsAreSound, NEW p \in Present, NEW who \in People,
         UNCHANGED <<money, goods, draws>>, call'.who = who, call'.shelf = shelf[who],
         call'.at \in {"charge", "roll", "grant", "trade"}
  PROVE  GoodsOf(p)'
<1>1. /\ Accounts(ledger[p], balance[p], shelf[p], owned[p], laid[p], found[p])
      /\ TokensAreDrawn(ledger[p], shelf[p], owned[p], draws)
  BY PersonHere DEF Person
<1>2. Serves(p)' => call'.shelf = shelf[p] /\ Knows(call'.at, ledger[p], shelf[p], owned[p])
  BY DEF Serves, Knows
<1>3. UNCHANGED <<ledger, balance, shelf, owned, laid, found, draws>>
  BY DEF money, goods
<1> QED
  BY <1>1, <1>2, <1>3, GoodsNext

LEMMA EggCommandsKeepGoods ==
  ASSUME TypeOK, GoodsAreSound, NEW p \in Present, NEW who \in People,
         \/ \E pull \in BOOLEAN : BuyEgg(who, pull)
         \/ HatchEgg(who) \/ Recycle(who) \/ Recover(who)
  PROVE  GoodsOf(p)'
<1>1. ASSUME NEW pull \in BOOLEAN, BuyEgg(who, pull)
      PROVE  GoodsOf(p)'
  BY <1>1, BuyKeepsGoods
<1>2. CASE Recycle(who)
  BY <1>2, RecycleKeepsGoods
<1>3. CASE HatchEgg(who)
  BY <1>3, BegunGoods DEF HatchEgg, Begin
<1>4. CASE Recover(who)
  <2>1. shelf[who].pending # None /\ shelf[who].pending.kind \in {"buy", "hatch", "trade"}
    BY <1>4, TypeParts DEF Recover, Settled, GoodsTyped, Shelves, Pendings
  <2>2. /\ call'.at \in {"charge", "grant", "trade"} /\ call'.who = who /\ call'.shelf = shelf[who]
        /\ UNCHANGED <<money, goods, draws>>
    BY <1>4, <2>1 DEF Recover, Begin
  <2> QED
    BY <2>2, BegunGoods
<1> QED
  BY <1>1, <1>2, <1>3, <1>4

LEMMA EggCallMoves ==
  ASSUME call \in EggCalls, NEW at, Goto(at)
  PROVE  call'.at = at /\ call'.who = call.who /\ call'.shelf = call.shelf
  BY DEF Goto, EggCalls

\* The person a call for an egg serves.
LEMMA ServedHere ==
  ASSUME TypeOK, GoodsAreSound, call.at \in Eggs, call.who \in Present
  PROVE  /\ Person(ledger[call.who], balance[call.who], call.shelf, owned[call.who], laid[call.who],
                   found[call.who])
         /\ TokensAreDrawn(ledger[call.who], call.shelf, owned[call.who], draws)
         /\ Knows(call.at, ledger[call.who], call.shelf, owned[call.who])
         /\ shelf[call.who] = call.shelf /\ Fits(call.at, call.shelf)
  BY PersonHere, EggCallParts DEF Serves

LEMMA RollKeepsGoods ==
  ASSUME TypeOK, GoodsAreSound, NEW p \in Present, NEW what \in Cosmetics \cup {Item}, Roll(what)
  PROVE  GoodsOf(p)'
<1> DEFINE t == [call.shelf EXCEPT !.pending = [kind |-> "hatch", n |-> draws', what |-> what]]
<1>1. /\ call.at \in Eggs /\ call.at = "roll" /\ call \in EggCalls /\ call.who \in People
      /\ Fits(call.at, call.shelf)
  BY EggCallParts DEF Roll, Eggs
<1>2. /\ UNCHANGED <<ledger, balance, owned, laid, found>>
      /\ shelf' = [shelf EXCEPT ![call.who] = t]
      /\ call' = [call EXCEPT !.at = "grant", !.shelf = t]
  BY DEF Roll, money, Save
<1>3. draws' = draws + 1 /\ draws' \in 1..MaxDraws /\ draws \in Nat
  <2>1. CountsTyped /\ gains' = gains /\ Draw(EggDraws)
    BY TypeParts DEF Roll, world
  <2> QED
    BY <2>1, DrawIsTyped DEF CountsTyped
<1>4. p \in People /\ shelf \in [People -> Shelves]
  BY PresentArePeople, TypeParts DEF GoodsTyped
<1>5. call'.at = "grant" /\ call'.who = call.who /\ call'.shelf = t
  <2> HIDE DEF t
  <2> QED
    BY <1>1, <1>2 DEF EggCalls
<1>6. CASE p = call.who
  <2>1. shelf'[p] = t
    BY <1>2, <1>4, <1>6
  <2>2. call.shelf = shelf[p]
    BY <1>1, <1>6, ServedHere
  <2>3. t = Recording(shelf[p], "hatch", draws', what)
    BY <2>2 DEF Recording
  <2>4. shelf[p].pending = None /\ shelf[p].eggs > 0
    BY <1>1, <2>2 DEF Fits
  <2> HIDE DEF t
  <2>5. call'.at \in Eggs \ {"lay", "give up", "refund", "keep", "compact"}
    BY <1>5 DEF Eggs
  <2>6. "hatch" \in {"buy", "hatch", "trade"}
    OBVIOUS
  <2> QED
    BY <1>2, <1>3, <1>5, <2>1, <2>3, <2>4, <2>5, <2>6, RecordedGoods
<1>7. CASE p # call.who
  <2>1. shelf'[p] = shelf[p]
    BY <1>2, <1>4, <1>7
  <2>2. ~Serves(p)'
    BY <1>5, <1>7 DEF Serves
  <2>3. draws' \in Nat /\ draws' >= draws
    BY <1>3
  <2> QED
    BY <1>2, <2>1, <2>2, <2>3, UntouchedGoods
<1> QED
  BY <1>6, <1>7

\* A call for an egg pays or charges the person it serves.
LEMMA PaidGoods ==
  ASSUME TypeOK, GoodsAreSound, NEW p \in Present, call.at \in Eggs \ {"roll"},
         NEW amount \in Int, NEW kind \in Kinds \ {"earned"},
         Change(call.who, amount, <<call.shelf.pending.n, kind>>),
         UNCHANGED <<goods, draws>>, call'.who = call.who, call'.shelf = call.shelf,
         p = call.who /\ call.shelf.pending.n \in Ids(ledger[p], kind) =>
           Knows(call'.at, ledger[p], call.shelf, owned[p]),
         p = call.who /\ IsForgotten(ledger[p], <<call.shelf.pending.n, kind>>) /\ balance[p] + amount >= 0 =>
           LET d == Append(ledger[p], <<call.shelf.pending.n, kind>>)
           IN /\ Accounts(d, balance[p] + amount, call.shelf, owned[p], laid[p], found[p])
              /\ Knows(call'.at, d, call.shelf, owned[p])
  PROVE  GoodsOf(p)'
<1> DEFINE n == call.shelf.pending.n
           l == ledger[p]
           d == Append(l, <<n, kind>>)
           b == balance[p] + amount
<1>1. /\ UNCHANGED <<shelf, owned, laid, found, draws>> /\ draws \in Nat
  BY TypeParts DEF goods, CountsTyped
<1>2. p \in People /\ ledger \in [People -> Books] /\ balance \in [People -> Nat] /\ call.who \in People
  BY PresentArePeople, EggCallParts, TypeParts DEF Money
<1>3. \/ UNCHANGED <<balance, ledger>> /\ n \in Ids(ledger[call.who], kind)
      \/ /\ ~Known(call.who, <<n, kind>>)
         /\ balance' = [balance EXCEPT ![call.who] = balance[call.who] + amount]
         /\ balance[call.who] + amount >= 0
         /\ ledger' = [ledger EXCEPT ![call.who] = Append(ledger[call.who], <<n, kind>>)]
  BY <1>2, ChangeCases
<1>4. CASE p # call.who
  <2>1. ledger'[p] = ledger[p] /\ balance'[p] = balance[p]
    BY <1>2, <1>3, <1>4
  <2>2. ~Serves(p)'
    BY <1>4 DEF Serves
  <2>3. draws' \in Nat /\ draws' >= draws
    BY <1>1
  <2> QED
    BY <1>1, <2>1, <2>2, <2>3, UntouchedGoods
<1>5. CASE p = call.who
  <2>1. /\ Person(l, balance[p], call.shelf, owned[p], laid[p], found[p])
        /\ TokensAreDrawn(l, call.shelf, owned[p], draws) /\ shelf[p] = call.shelf
        /\ call.shelf.pending # None
    BY <1>5, ServedHere, EggCallParts
  <2>2. CASE UNCHANGED <<balance, ledger>> /\ n \in Ids(ledger[call.who], kind)
    <3>1. Knows(call'.at, l, call.shelf, owned[p])
      BY <1>5, <2>2
    <3>2. Accounts(l, balance[p], call.shelf, owned[p], laid[p], found[p])
      BY <2>1 DEF Person
    <3> QED
      BY <1>1, <2>1, <2>2, <3>1, <3>2, GoodsNext
  <2>3. CASE /\ ~Known(call.who, <<n, kind>>)
             /\ balance' = [balance EXCEPT ![call.who] = balance[call.who] + amount]
             /\ balance[call.who] + amount >= 0
             /\ ledger' = [ledger EXCEPT ![call.who] = Append(ledger[call.who], <<n, kind>>)]
    <3>1. ledger'[p] = d /\ balance'[p] = b
      BY <1>2, <1>5, <2>3
    <3>2. IsForgotten(l, <<n, kind>>)
      BY <1>5, <2>3, UnknownIsForgotten
    <3>3. /\ Accounts(d, b, call.shelf, owned[p], laid[p], found[p])
          /\ Knows(call'.at, d, call.shelf, owned[p])
      BY <1>5, <2>3, <3>2
    <3>4. n <= draws
      BY <2>1 DEF TokensAreDrawn
    <3>5. TokensAreDrawn(d, call.shelf, owned[p], draws)
      BY <1>1, <2>1, <3>4, EntryIsDrawn DEF Person
    <3> HIDE DEF d, b
    <3> QED
      BY <1>1, <2>1, <3>1, <3>3, <3>5, GoodsNext
  <2> QED
    BY <1>3, <2>2, <2>3
<1> QED
  BY <1>4, <1>5

LEMMA ChargeKeepsGoods ==
  ASSUME TypeOK, GoodsAreSound, NEW p \in Present, Charge
  PROVE  GoodsOf(p)'
<1>1. /\ call.at = "charge" /\ call \in EggCalls /\ Fits("charge", call.shelf)
      /\ call.at \in Eggs \ {"roll"} /\ UNCHANGED <<goods, draws>>
  BY EggCallParts DEF Charge, Eggs
<1>2. Tells(call.shelf, "buy")
  BY <1>1 DEF Fits
<1>3. CASE Change(call.who, -EggCost, Event("buy")) /\ Goto("lay")
  <2> DEFINE n == call.shelf.pending.n
  <2>1. call'.at = "lay" /\ call'.who = call.who /\ call'.shelf = call.shelf
    BY <1>1, <1>3, EggCallMoves
  <2>2. -EggCost \in Int /\ \A b \in Nat : b + (-EggCost) = b - EggCost
    BY Numbers
  <2>3. Change(call.who, -EggCost, <<n, "buy">>) /\ "buy" \in Kinds \ {"earned"}
    BY <1>3 DEF Event, Kinds
  <2>4. \A m : n \in Ids(m, "buy") => Knows("lay", m, call.shelf, owned[p])
    BY DEF Knows
  <2>5. ASSUME p = call.who, IsForgotten(ledger[p], <<n, "buy">>), balance[p] + (-EggCost) >= 0
        PROVE  LET d == Append(ledger[p], <<n, "buy">>)
               IN /\ Accounts(d, balance[p] + (-EggCost), call.shelf, owned[p], laid[p], found[p])
                  /\ Knows("lay", d, call.shelf, owned[p])
    <3>1. Person(ledger[p], balance[p], call.shelf, owned[p], laid[p], found[p])
      BY <1>1, <2>5, ServedHere
    <3>2. balance[p] + (-EggCost) = balance[p] - EggCost
      BY <2>2, <3>1 DEF Person
    <3> QED
      BY <1>2, <2>4, <2>5, <3>1, <3>2, EggIsCharged DEF Person
  <2> QED
    BY <1>1, <2>1, <2>2, <2>3, <2>4, <2>5, PaidGoods
<1>4. CASE Short(call.who, EggCost, Event("buy")) /\ Goto("give up") /\ UNCHANGED money
  <2>1. call'.at = "give up" /\ call'.who = call.who /\ call'.shelf = call.shelf
    BY <1>1, <1>4, EggCallMoves
  <2>2. /\ Accounts(ledger[p], balance[p], shelf[p], owned[p], laid[p], found[p])
        /\ TokensAreDrawn(ledger[p], shelf[p], owned[p], draws)
    BY PersonHere DEF Person
  <2>3. Serves(p)' => call'.shelf = shelf[p] /\ Knows(call'.at, ledger[p], shelf[p], owned[p])
    <3> SUFFICES ASSUME p = call.who
                 PROVE  call'.shelf = shelf[p] /\ Knows("give up", ledger[p], shelf[p], owned[p])
      BY <2>1 DEF Serves
    <3>1. /\ Person(ledger[p], balance[p], call.shelf, owned[p], laid[p], found[p])
          /\ shelf[p] = call.shelf
      BY <1>1, ServedHere
    <3>2. IsForgotten(ledger[p], <<call.shelf.pending.n, "buy">>) /\ balance[p] < EggCost
      BY <1>4, UnknownIsForgotten DEF Short, Event
    <3>3. call.shelf.pending.n \notin Ids(ledger[p], "buy")
      BY <1>2, <3>1, <3>2, RefusedWasNotCharged
    <3> QED
      BY <2>1, <3>1, <3>3 DEF Knows
  <2>4. UNCHANGED <<ledger, balance, shelf, owned, laid, found, draws>>
    BY <1>1, <1>4 DEF money, goods
  <2> QED
    BY <2>2, <2>3, <2>4, GoodsNext
<1> QED
  BY <1>3, <1>4 DEF Charge

LEMMA RefundKeepsGoods ==
  ASSUME TypeOK, GoodsAreSound, NEW p \in Present, RefundEgg
  PROVE  GoodsOf(p)'
<1> DEFINE n == call.shelf.pending.n
<1>1. /\ call.at = "refund" /\ call \in EggCalls /\ Fits("refund", call.shelf)
      /\ call.at \in Eggs \ {"roll"} /\ UNCHANGED <<goods, draws>>
      /\ Change(call.who, Refund, <<n, "refund">>) /\ Goto("keep")
  BY EggCallParts DEF RefundEgg, Eggs, Event
<1>2. Tells(call.shelf, "hatch")
  BY <1>1 DEF Fits
<1>3. call'.at = "keep" /\ call'.who = call.who /\ call'.shelf = call.shelf
  BY <1>1, EggCallMoves
<1>4. Refund \in Int /\ "refund" \in Kinds \ {"earned"}
  BY Numbers DEF Kinds
<1>5. p = call.who => /\ call.shelf.pending.what # Item
                      /\ \E g \in owned[p] : g[1] = call.shelf.pending.what /\ g[2] # n
                      /\ Person(ledger[p], balance[p], call.shelf, owned[p], laid[p], found[p])
  BY <1>1, ServedHere DEF Knows
<1>6. ASSUME NEW m, p = call.who, n \in Ids(m, "refund")
      PROVE  Knows("keep", m, call.shelf, owned[p])
  BY <1>5, <1>6 DEF Knows, Yielded
<1>7. ASSUME p = call.who, IsForgotten(ledger[p], <<n, "refund">>)
      PROVE  LET d == Append(ledger[p], <<n, "refund">>)
             IN /\ Accounts(d, balance[p] + Refund, call.shelf, owned[p], laid[p], found[p])
                /\ Knows("keep", d, call.shelf, owned[p])
  BY <1>2, <1>5, <1>6, <1>7, HatchIsRefunded DEF Person
<1> QED
  BY <1>1, <1>3, <1>4, <1>6, <1>7, PaidGoods

LEMMA TradeKeepsGoods ==
  ASSUME TypeOK, GoodsAreSound, NEW p \in Present, Trade
  PROVE  GoodsOf(p)'
<1> DEFINE n == call.shelf.pending.n
<1>1. /\ call.at = "trade" /\ call \in EggCalls /\ Fits("trade", call.shelf)
      /\ call.at \in Eggs \ {"roll"} /\ UNCHANGED <<goods, draws>>
      /\ Change(call.who, JunkValue, <<n, "trade">>) /\ Goto("compact")
  BY EggCallParts DEF Trade, Eggs, Event
<1>2. Tells(call.shelf, "trade")
  BY <1>1 DEF Fits
<1>3. call'.at = "compact" /\ call'.who = call.who /\ call'.shelf = call.shelf
  BY <1>1, EggCallMoves
<1>4. JunkValue \in Int /\ "trade" \in Kinds \ {"earned"}
  BY Numbers DEF Kinds
<1>5. p = call.who => Person(ledger[p], balance[p], call.shelf, owned[p], laid[p], found[p])
  BY <1>1, ServedHere
<1>6. ASSUME NEW m, n \in Ids(m, "trade")
      PROVE  Knows("compact", m, call.shelf, owned[p])
  BY <1>6 DEF Knows
<1>7. ASSUME p = call.who, IsForgotten(ledger[p], <<n, "trade">>)
      PROVE  LET d == Append(ledger[p], <<n, "trade">>)
             IN /\ Accounts(d, balance[p] + JunkValue, call.shelf, owned[p], laid[p], found[p])
                /\ Knows("compact", d, call.shelf, owned[p])
  BY <1>2, <1>5, <1>6, <1>7, BundleIsPaid DEF Person
<1> QED
  BY <1>1, <1>3, <1>4, <1>6, <1>7, PaidGoods

\* A call for an egg saves a shelf on which nothing is recorded any more.
LEMMA SavedGoods ==
  ASSUME TypeOK, GoodsAreSound, NEW p \in Present, call.at \in Eggs,
         NEW t \in Shelves, NEW eggs, NEW items, t.pending = None,
         shelf' = [shelf EXCEPT ![call.who] = t],
         UNCHANGED <<ledger, balance, owned, draws>>,
         p # call.who => UNCHANGED <<laid[p], found[p]>>,
         p = call.who => /\ laid'[p] = eggs /\ found'[p] = items
                         /\ Person(ledger[p], balance[p], t, owned[p], eggs, items),
         \/ call' = Idle
         \/ call'.at = "roll" /\ call'.who = call.who /\ call'.shelf = t
  PROVE  GoodsOf(p)'
<1>1. p \in People /\ shelf \in [People -> Shelves] /\ draws \in Nat /\ call.who \in People
  BY PresentArePeople, EggCallParts, TypeParts DEF GoodsTyped, CountsTyped
<1>2. \/ call'.at \notin Eggs
      \/ call'.at = "roll" /\ call'.who = call.who /\ call'.shelf = t
  BY IdleAt DEF Eggs
<1>3. CASE p # call.who
  <2>1. shelf'[p] = shelf[p]
    BY <1>1, <1>3
  <2>2. ~Serves(p)'
    BY <1>2, <1>3 DEF Serves
  <2>3. draws' \in Nat /\ draws' >= draws
    BY <1>1
  <2> QED
    BY <1>3, <2>1, <2>2, <2>3, UntouchedGoods
<1>4. CASE p = call.who
  <2>1. shelf'[p] = t /\ laid'[p] = eggs /\ found'[p] = items
    BY <1>1, <1>4
  <2>2. Accounts(ledger[p], balance[p], t, owned[p], eggs, items)
    BY <1>4 DEF Person
  <2>3. TokensAreDrawn(ledger[p], t, owned[p], draws)
    BY PersonHere DEF TokensAreDrawn
  <2>4. Serves(p)' => call'.shelf = t /\ Knows(call'.at, ledger[p], t, owned[p])
    BY <1>2 DEF Serves, Knows
  <2> QED
    BY <2>1, <2>2, <2>3, <2>4, GoodsNext
<1> QED
  BY <1>3, <1>4

LEMMA LayKeepsGoods ==
  ASSUME TypeOK, GoodsAreSound, NEW p \in Present, Lay
  PROVE  GoodsOf(p)'
<1> DEFINE w == call.who
           t == Shelf(call.shelf.eggs + 1, call.shelf.junk)
<1>1. /\ call.at \in Eggs /\ call.at = "lay" /\ call \in EggCalls /\ w \in People
      /\ call.shelf \in Shelves /\ Tells(call.shelf, "buy")
  BY EggCallParts DEF Lay, Eggs, Fits
<1>2. t \in Shelves /\ t.pending = None
  <2>1. call.shelf.eggs + 1 \in Nat /\ call.shelf.junk \in Nat
    BY <1>1, ShelfParts
  <2> QED
    BY <2>1, PlainShelfIsTyped, PlainShelf
<1>3. /\ shelf' = [shelf EXCEPT ![w] = t] /\ UNCHANGED <<ledger, balance, owned, found, draws>>
      /\ laid' = [laid EXCEPT ![w] = laid[w] + 1]
      /\ call' = Idle \/ call' = [call EXCEPT !.at = "roll", !.shelf = t]
  BY DEF Lay, Save, Done, money
<1>4. p = w => Person(ledger[p], balance[p], t, owned[p], laid[p] + 1, found[p])
  BY <1>1, ServedHere, EggIsLaid DEF Knows
<1> HIDE DEF t
<1>5. \/ call' = Idle
      \/ call'.at = "roll" /\ call'.who = w /\ call'.shelf = t
  BY <1>1, <1>3 DEF EggCalls
<1>6. laid'[p] = (IF p = w THEN laid[p] + 1 ELSE laid[p]) /\ found'[p] = found[p]
  BY <1>3, PresentArePeople, TypeParts DEF GoodsTyped
<1>7. /\ p # w => UNCHANGED <<laid[p], found[p]>>
      /\ p = w => laid'[p] = laid[p] + 1 /\ found'[p] = found[p]
  BY <1>6
<1> QED
  BY <1>1, <1>2, <1>3, <1>4, <1>5, <1>7, SavedGoods

LEMMA GiveUpKeepsGoods ==
  ASSUME TypeOK, GoodsAreSound, NEW p \in Present, GiveUp
  PROVE  GoodsOf(p)'
<1> DEFINE t == Shelf(call.shelf.eggs, call.shelf.junk)
<1>1. /\ call.at \in Eggs /\ call.at = "give up" /\ call \in EggCalls /\ call.who \in People
      /\ call.shelf \in Shelves /\ Tells(call.shelf, "buy")
  BY EggCallParts DEF GiveUp, Eggs, Fits
<1>2. t \in Shelves /\ t.pending = None
  <2>1. PICK e \in Nat, j \in Nat : call.shelf.eggs = e /\ call.shelf.junk = j
    BY <1>1, ShelfParts
  <2>2. t = Shelf(e, j)
    BY <2>1
  <2> HIDE DEF t
  <2>3. Shelf(e, j) \in Shelves
    BY PlainShelfIsTyped
  <2>4. Shelf(e, j).pending = None
    BY PlainShelf
  <2> QED
    BY <2>2, <2>3, <2>4
<1>3. /\ shelf' = [shelf EXCEPT ![call.who] = t]
      /\ UNCHANGED <<ledger, balance, owned, laid, found, draws>> /\ call' = Idle
  BY DEF GiveUp, Save, Done, money
<1>4. p = call.who => Person(ledger[p], balance[p], t, owned[p], laid[p], found[p])
  BY <1>1, ServedHere, PurchaseIsGivenUp DEF Knows
<1> HIDE DEF t
<1> QED
  BY <1>1, <1>2, <1>3, <1>4, SavedGoods

LEMMA CompactKeepsGoods ==
  ASSUME TypeOK, GoodsAreSound, NEW p \in Present, Compact
  PROVE  GoodsOf(p)'
<1> DEFINE t == Shelf(call.shelf.eggs, call.shelf.junk - Bundle)
<1>1. /\ call.at \in Eggs /\ call.at = "compact" /\ call \in EggCalls /\ call.who \in People
      /\ call.shelf \in Shelves /\ Tells(call.shelf, "trade")
  BY EggCallParts DEF Compact, Eggs, Fits
<1>2. t \in Shelves /\ t.pending = None
  <2>1. call.shelf.eggs \in Nat /\ call.shelf.junk \in Nat /\ call.shelf.junk >= Bundle /\ Bundle \in Nat
    BY <1>1, ShelfParts, Numbers DEF Tells
  <2>2. call.shelf.junk - Bundle \in Nat
    BY <2>1
  <2> QED
    BY <2>1, <2>2, PlainShelfIsTyped, PlainShelf
<1>3. /\ shelf' = [shelf EXCEPT ![call.who] = t]
      /\ UNCHANGED <<ledger, balance, owned, laid, found, draws>> /\ call' = Idle
  BY DEF Compact, Save, Done, money
<1>4. p = call.who => Person(ledger[p], balance[p], t, owned[p], laid[p], found[p])
  BY <1>1, ServedHere, BundleIsTaken DEF Knows
<1> HIDE DEF t
<1> QED
  BY <1>1, <1>2, <1>3, <1>4, SavedGoods

LEMMA KeepKeepsGoods ==
  ASSUME TypeOK, GoodsAreSound, NEW p \in Present, Keep
  PROVE  GoodsOf(p)'
<1> DEFINE w == call.who
           one == IF call.shelf.pending.what = Item THEN 1 ELSE 0
           t == Shelf(call.shelf.eggs - 1, call.shelf.junk + one)
<1>1. /\ call.at \in Eggs /\ call.at = "keep" /\ call \in EggCalls /\ w \in People
      /\ call.shelf \in Shelves /\ Tells(call.shelf, "hatch")
  BY EggCallParts DEF Keep, Eggs, Fits
<1>2. one \in {0, 1} /\ (one = 0 <=> call.shelf.pending.what # Item)
  OBVIOUS
<1>3. /\ shelf' = [shelf EXCEPT ![w] = t] /\ UNCHANGED <<ledger, balance, owned, laid, draws>>
      /\ found' = [found EXCEPT ![w] = found[w] + one] /\ call' = Idle
  BY DEF Keep, Save, Done, money
<1> HIDE DEF one
<1>4. t \in Shelves /\ t.pending = None
  <2>1. call.shelf.eggs \in Nat /\ call.shelf.junk \in Nat /\ call.shelf.eggs > 0
    BY <1>1, ShelfParts DEF Tells
  <2>2. call.shelf.eggs - 1 \in Nat /\ call.shelf.junk + one \in Nat
    BY <1>2, <2>1
  <2> QED
    BY <2>2, PlainShelfIsTyped, PlainShelf
<1>5. p = w => Person(ledger[p], balance[p], t, owned[p], laid[p], found[p] + one)
  <2> SUFFICES ASSUME p = w
               PROVE  Person(ledger[p], balance[p], t, owned[p], laid[p], found[p] + one)
    OBVIOUS
  <2>1. /\ Person(ledger[p], balance[p], call.shelf, owned[p], laid[p], found[p])
        /\ call.shelf.pending.what # Item <=> Yielded(ledger[p], call.shelf, owned[p])
    BY <1>1, ServedHere DEF Knows
  <2> QED
    BY <1>1, <1>2, <2>1, EggIsHatched
<1> HIDE DEF t
<1>6. found'[p] = (IF p = w THEN found[p] + one ELSE found[p]) /\ laid'[p] = laid[p]
  BY <1>3, PresentArePeople, TypeParts DEF GoodsTyped
<1>7. /\ p # w => UNCHANGED <<laid[p], found[p]>>
      /\ p = w => laid'[p] = laid[p] /\ found'[p] = found[p] + one
  BY <1>6
<1> QED
  BY <1>1, <1>3, <1>4, <1>5, <1>7, SavedGoods

LEMMA GrantKeepsGoods ==
  ASSUME TypeOK, GoodsAreSound, NEW p \in Present, Grant
  PROVE  GoodsOf(p)'
<1> DEFINE w == call.who
           s == call.shelf
           now == owned[w] \cup {<<s.pending.what, s.pending.n>>}
<1>1. /\ call.at \in Eggs /\ call.at = "grant" /\ call \in EggCalls /\ w \in People
      /\ s \in Shelves /\ Tells(s, "hatch") /\ s.pending.n \in 1..MaxDraws
  BY EggCallParts DEF Grant, Eggs, Fits
<1>2. /\ UNCHANGED <<ledger, balance, shelf, laid, found, draws>>
      /\ p \in People /\ owned \in [People -> SUBSET (Cosmetics \X (1..MaxDraws))] /\ draws \in Nat
  BY PresentArePeople, TypeParts DEF Grant, money, GoodsTyped, CountsTyped
<1>3. \/ /\ s.pending.what # Item /\ Duplicate(w, s.pending.what, s.pending.n)
         /\ Goto("refund") /\ UNCHANGED owned
      \/ /\ s.pending.what = Item /\ Goto("keep") /\ UNCHANGED owned
      \/ /\ s.pending.what # Item /\ ~Duplicate(w, s.pending.what, s.pending.n)
         /\ Goto("keep") /\ owned' = [owned EXCEPT ![w] = now]
  BY DEF Grant
<1>4. call'.who = w /\ call'.shelf = s
  BY <1>1, <1>3, EggCallMoves
<1>5. CASE p # w
  <2>1. owned'[p] = owned[p]
    BY <1>2, <1>3, <1>5
  <2>2. ~Serves(p)'
    BY <1>4, <1>5 DEF Serves
  <2>3. draws' \in Nat /\ draws' >= draws
    BY <1>2
  <2> QED
    BY <1>2, <2>1, <2>2, <2>3, UntouchedGoods
<1>6. CASE p = w
  <2>1. /\ Person(ledger[p], balance[p], s, owned[p], laid[p], found[p])
        /\ TokensAreDrawn(ledger[p], s, owned[p], draws) /\ shelf[p] = s
    BY <1>1, <1>6, ServedHere
  <2>2. Accounts(ledger[p], balance[p], s, owned[p], laid[p], found[p])
    BY <2>1 DEF Person
  <2>3. CASE s.pending.what # Item /\ Duplicate(w, s.pending.what, s.pending.n)
             /\ Goto("refund") /\ UNCHANGED owned
    <3>1. call'.at = "refund"
      BY <1>1, <2>3, EggCallMoves
    <3>2. Knows("refund", ledger[p], s, owned[p])
      BY <1>6, <2>3 DEF Knows, Duplicate
    <3> QED
      BY <1>2, <1>4, <2>1, <2>2, <2>3, <3>1, <3>2, GoodsNext
  <2>4. CASE s.pending.what = Item /\ Goto("keep") /\ UNCHANGED owned
    <3>1. call'.at = "keep"
      BY <1>1, <2>4, EggCallMoves
    <3>2. ~Yielded(ledger[p], s, owned[p])
      BY <1>1, <2>1, <2>4, ItemIsNoYield
    <3>3. Knows("keep", ledger[p], s, owned[p])
      BY <2>4, <3>2 DEF Knows
    <3> QED
      BY <1>2, <1>4, <2>1, <2>2, <2>4, <3>1, <3>3, GoodsNext
  <2>5. CASE s.pending.what # Item /\ ~Duplicate(w, s.pending.what, s.pending.n)
             /\ Goto("keep") /\ owned' = [owned EXCEPT ![w] = now]
    <3>1. call'.at = "keep"
      BY <1>1, <2>5, EggCallMoves
    <3>2. ~\E g \in owned[p] : g[1] = s.pending.what /\ g[2] # s.pending.n
      BY <1>6, <2>5 DEF Duplicate
    <3>3. now = owned[p] \cup {<<s.pending.what, s.pending.n>>}
      BY <1>6
    <3>4. Person(ledger[p], balance[p], s, now, laid[p], found[p]) /\ Yielded(ledger[p], s, now)
      BY <1>1, <2>1, <2>5, <3>2, <3>3, CosmeticIsGranted
    <3>5. TokensAreDrawn(ledger[p], s, now, draws)
      <4>1. s.pending.n <= draws
        BY <1>1, <2>1 DEF TokensAreDrawn, Tells
      <4>2. \A g \in now : g \in owned[p] \/ g[2] = s.pending.n
        BY <3>3
      <4> HIDE DEF now
      <4> QED
        BY <2>1, <4>1, <4>2 DEF TokensAreDrawn
    <3>6. owned'[p] = now
      BY <1>2, <1>6, <2>5
    <3> HIDE DEF now
    <3>7. Knows("keep", ledger[p], s, now)
      BY <2>5, <3>4 DEF Knows
    <3>8. Accounts(ledger[p], balance[p], s, now, laid[p], found[p])
      BY <3>4 DEF Person
    <3> QED
      BY <1>2, <1>4, <2>1, <3>1, <3>5, <3>6, <3>7, <3>8, GoodsNext
  <2> QED
    BY <1>3, <2>3, <2>4, <2>5
<1> QED
  BY <1>5, <1>6

\* A stake or a gift is taken from somebody with nothing recorded.
LEMMA BetsKeepGoods ==
  ASSUME TypeOK, GoodsAreSound, NEW p \in Present, NEW who \in People, NEW n \in Bets,
         \/ Wager(who, n) \/ Heist(who, n)
         \/ \E to \in People : Give(who, to, n)
  PROVE  GoodsOf(p)'
<1>1. /\ UNCHANGED goods /\ shelf[who].pending = None
      /\ call'.at \in {"settle", "gift", "crew"} /\ gains' = gains
  BY DEF Wager, Heist, Give, Settled, world
<1>2. PICK kind \in {"stake", "gift"} : Change(who, -n, <<draws', kind>>)
  BY DEF Wager, Heist, Give, Stake
<1>3. draws' = draws + 1 /\ draws' \in 1..(MaxDraws + MaxGains) /\ draws \in Nat
  <2>1. CountsTyped /\ Draw(BetDraws)
    BY TypeParts DEF Wager, Heist, Give, Stake
  <2> QED
    BY <1>1, <2>1, DrawIsTyped DEF CountsTyped
<1>4. draws' \in Nat /\ draws' >= draws
  BY <1>3
<1>5. -n \in Int
  BY BetsAreNumbers
<1>6. kind \in Kinds \ {"buy", "refund", "trade"}
  BY DEF Kinds
<1>7. ~Serves(p)'
  BY <1>1 DEF Serves, Eggs
<1> QED
  BY <1>1, <1>2, <1>3, <1>4, <1>5, <1>6, <1>7, ChangedGoods

\* A step that leaves brass and goods alone, and does not start or move a call for an egg.
LEMMA QuietGoods ==
  ASSUME TypeOK, GoodsAreSound, NEW p \in Present, UNCHANGED <<money, goods, draws>>,
         call' = call \/ call'.at \notin Eggs
  PROVE  GoodsOf(p)'
<1>1. UNCHANGED <<balance, ledger, shelf, owned, laid, found, draws>> /\ draws \in Nat
  BY TypeParts DEF money, goods, CountsTyped
<1>2. draws' \in Nat /\ draws' >= draws
  BY <1>1
<1>3. call' = call \/ ~Serves(p)'
  BY DEF Serves
<1> QED
  BY <1>1, <1>2, <1>3, UntouchedGoods

\* Winnings, gifts and awards bring brass.
LEMMA GainsKeepGoods ==
  ASSUME TypeOK, GoodsAreSound, NEW p \in Present, NEW who \in People, NEW amount \in Int, amount >= 1,
         NEW n \in 1..(MaxDraws + MaxGains), NEW kind \in {"win", "to", "earned"},
         Change(who, amount, <<n, kind>>), UNCHANGED <<goods, draws>>,
         call' = call \/ call'.at \notin Eggs
  PROVE  GoodsOf(p)'
<1>1. draws' \in Nat /\ draws' >= draws
  BY TypeParts DEF CountsTyped
<1>2. kind \in Kinds \ {"buy", "refund", "trade"} /\ UNCHANGED goods
  BY DEF Kinds
<1>3. call' = call \/ ~Serves(p)'
  BY DEF Serves
<1> QED
  BY <1>1, <1>2, <1>3, ChangedGoods

LEMMA SettleKeepsGoods ==
  ASSUME TypeOK, GoodsAreSound, NEW p \in Present, NEW m \in Multipliers, Settle(m)
  PROVE  GoodsOf(p)'
<1>1. call \in BetCalls /\ call.at = "settle" /\ UNCHANGED <<goods, draws>>
  BY CallsBySort DEF Settle
<1>2. /\ call.who \in People /\ call.stake \in Nat /\ call.stake > 0 /\ m \in Nat
      /\ call.n \in 1..MaxDraws
  BY <1>1, BetsAreNumbers DEF BetCalls
<1>3. call'.at = "tally" /\ "tally" \notin Eggs
  BY <1>1 DEF Settle, BetCalls, Eggs
<1>4. CASE UNCHANGED money
  BY <1>1, <1>3, <1>4, QuietGoods
<1>5. CASE m # 0 /\ Change(call.who, m * call.stake, <<call.n, "win">>)
  <2>1. m * call.stake \in Int /\ m * call.stake >= 1
    BY <1>2, <1>5
  <2>2. call.n \in 1..(MaxDraws + MaxGains) /\ "win" \in {"win", "to", "earned"}
    BY <1>2, Bounds
  <2> QED
    BY <1>1, <1>2, <1>3, <1>5, <2>1, <2>2, GainsKeepGoods
<1> QED
  BY <1>4, <1>5 DEF Settle

LEMMA HandOverKeepsGoods ==
  ASSUME TypeOK, GoodsAreSound, NEW p \in Present, HandOver
  PROVE  GoodsOf(p)'
<1>1. /\ call \in GiftCalls /\ call.at = "gift" /\ UNCHANGED <<goods, draws>>
      /\ Change(call.to, call.stake, <<call.n, "to">>)
  BY CallsBySort DEF HandOver
<1>2. /\ call.to \in People /\ call.stake \in Nat /\ call.stake > 0 /\ call.n \in 1..MaxDraws
  BY <1>1, BetsAreNumbers DEF GiftCalls
<1>3. call'.at = "tally" /\ "tally" \notin Eggs
  BY <1>1 DEF HandOver, GiftCalls, Eggs
<1>4. call.stake \in Int /\ call.stake >= 1
  BY <1>2
<1>5. call.n \in 1..(MaxDraws + MaxGains) /\ "to" \in {"win", "to", "earned"}
  BY <1>2, Bounds
<1> QED
  BY <1>1, <1>2, <1>3, <1>4, <1>5, GainsKeepGoods

LEMMA PayKeepsGoods ==
  ASSUME TypeOK, GoodsAreSound, NEW p \in Present, PayMember
  PROVE  GoodsOf(p)'
<1> DEFINE m == call.job.crew[call.i]
<1>1. call \in FateCalls /\ call.at = "pay" /\ call.at # "close" /\ UNCHANGED <<goods, draws>> /\ Goto("score")
  BY CallsBySort DEF PayMember
<1>2. m.who \in People /\ m.n \in 1..MaxDraws /\ Payout(call) \in Nat
  BY <1>1, FateIsTyped
<1>3. call'.at = "score" /\ "score" \notin Eggs
  BY <1>1 DEF Goto, FateCalls, Eggs
<1>4. \/ UNCHANGED money
      \/ Payout(call) # 0 /\ Change(m.who, Payout(call), <<m.n, "win">>)
  BY DEF PayMember
<1> HIDE DEF m
<1>5. CASE UNCHANGED money
  BY <1>1, <1>3, <1>5, QuietGoods
<1>6. CASE Payout(call) # 0 /\ Change(m.who, Payout(call), <<m.n, "win">>)
  <2>1. Payout(call) \in Int /\ Payout(call) >= 1
    BY <1>2, <1>6
  <2>2. m.n \in 1..(MaxDraws + MaxGains) /\ "win" \in {"win", "to", "earned"}
    BY <1>2, Bounds
  <2> QED
    BY <1>1, <1>2, <1>3, <1>6, <2>1, <2>2, GainsKeepGoods
<1> QED
  BY <1>4, <1>5, <1>6

LEMMA EarnKeepsGoods ==
  ASSUME TypeOK, GoodsAreSound, NEW p \in Present, NEW who \in People, Earn(who)
  PROVE  GoodsOf(p)'
<1>1. Change(who, Gain, <<gains', "earned">>) /\ UNCHANGED <<goods, draws>> /\ call' = call
  BY DEF Earn
<1>2. Gain \in Int /\ Gain >= 1 /\ "earned" \in {"win", "to", "earned"}
  BY Numbers
<1>3. gains' \in 1..(MaxDraws + MaxGains)
  BY TypeParts, Bounds DEF Earn, CountsTyped
<1> QED
  BY <1>1, <1>2, <1>3, GainsKeepGoods

\* Everything else the worker and its surroundings do.
LEMMA OthersKeepGoods ==
  ASSUME TypeOK, GoodsAreSound, NEW p \in Present,
         \/ Tally \/ JoinCrew \/ Book \/ ScoreMember \/ CloseHeist \/ Refused
         \/ Tick \/ Cut \/ CoolDown \/ NewDay
         \/ \E who \in People : PlanErasure(who)
  PROVE  GoodsOf(p)'
<1>1. UNCHANGED <<money, goods, draws>>
  BY DEF Tally, JoinCrew, Book, ScoreMember, CloseHeist, Refused, Tick, TimerIsStale, Beat, Outcome,
     Cut, CoolDown, NewDay, PlanErasure
<1>2. call' = call \/ call'.at \notin Eggs
  <2>1. call' = Idle => call'.at \notin Eggs
    BY IdleAt DEF Eggs
  <2>2. Tally \/ CloseHeist \/ Cut \/ Refused \/ Book => call' = Idle
    BY DEF Tally, CloseHeist, Cut, Refused, Book, Done, Drop
  <2>3. TimerIsStale \/ CoolDown \/ NewDay \/ (\E who \in People : PlanErasure(who)) => call' = call
    BY DEF TimerIsStale, CoolDown, NewDay, PlanErasure
  <2>4. JoinCrew => call' = Idle \/ call'.at = "book"
    BY DEF JoinCrew, Done
  <2>5. Beat => call'.at = "book"
    BY DEF Beat
  <2>6. \A won : Outcome(won) => call'.at \in {"close", "pay"}
    BY DEF Outcome
  <2>7. ScoreMember => call'.at \in {"close", "pay"}
    BY CallsBySort DEF ScoreMember, FateCalls
  <2>8. {"book", "close", "pay"} \cap Eggs = {}
    BY DEF Eggs
  <2> QED
    BY <2>1, <2>2, <2>3, <2>4, <2>5, <2>6, <2>7, <2>8 DEF Tick
<1> QED
  BY <1>1, <1>2, QuietGoods

\* An erasure touches the records of the person it erases only.
LEMMA ErasureKeepsGoods ==
  ASSUME TypeOK, GoodsAreSound, NEW p \in Present, p \in Present', ApplyErasure \/ FinishErasure
  PROVE  GoodsOf(p)'
<1>1. p \in People /\ p # plan.who
  <2>1. CASE ApplyErasure
    <3>1. plan'.who = plan.who /\ plan' # None
      BY <2>1, ApplyIsTyped, NoneIsNoRecord
    <3> QED
      BY <3>1, PresentArePeople DEF Present
  <2>2. CASE FinishErasure
    BY <2>2, PresentArePeople DEF FinishErasure, Present
  <2> QED
    BY <2>1, <2>2
<1>2. /\ ledger'[p] = ledger[p] /\ balance'[p] = balance[p] /\ shelf'[p] = shelf[p]
      /\ owned'[p] = owned[p] /\ laid'[p] = laid[p] /\ found'[p] = found[p]
  BY <1>1, TypeParts DEF ApplyErasure, FinishErasure, Money, GoodsTyped, money
<1>3. draws' \in Nat /\ draws' >= draws /\ call' = call
  BY TypeParts DEF ApplyErasure, FinishErasure, CountsTyped
<1> QED
  BY <1>2, <1>3, UntouchedGoods

LEMMA GoodsStep ==
  ASSUME TypeOK, GoodsAreSound, [Next]_vars
  PROVE  GoodsAreSound'
<1>1. CASE UNCHANGED vars
  <2>1. UNCHANGED <<money, goods, draws, call>> /\ Present' = Present
    BY <1>1 DEF vars, world, Present
  <2>2. \A p \in Present : GoodsOf(p)'
    BY <2>1, QuietGoods
  <2> QED
    BY <2>1, <2>2 DEF GoodsAreSound, GoodsOf
<1> SUFFICES ASSUME Next
             PROVE  GoodsAreSound'
  BY <1>1
<1>2. Present' \subseteq Present
  BY PresentShrinks
<1>3. ASSUME NEW p \in Present'
      PROVE  GoodsOf(p)'
  <2>1. p \in Present
    BY <1>2
  <2>2. ASSUME NEW who \in People, Command(who)
        PROVE  GoodsOf(p)'
    BY <2>1, <2>2, EggCommandsKeepGoods, BetsKeepGoods DEF Command
  <2>3. CASE Work
    BY <2>1, <2>3, ChargeKeepsGoods, LayKeepsGoods, GiveUpKeepsGoods, GrantKeepsGoods,
       RefundKeepsGoods, KeepKeepsGoods, TradeKeepsGoods, CompactKeepsGoods, RollKeepsGoods,
       SettleKeepsGoods, HandOverKeepsGoods, PayKeepsGoods, OthersKeepGoods DEF Work
  <2>4. ASSUME NEW who \in People, Earn(who)
        PROVE  GoodsOf(p)'
    BY <2>1, <2>4, EarnKeepsGoods
  <2>5. CASE Tick \/ Cut \/ CoolDown \/ NewDay \/ \E who \in People : PlanErasure(who)
    BY <2>1, <2>5, OthersKeepGoods
  <2>6. CASE ApplyErasure \/ FinishErasure
    BY <1>3, <2>1, <2>6, ErasureKeepsGoods
  <2> QED
    BY <2>2, <2>3, <2>4, <2>5, <2>6 DEF Next
<1> QED
  BY <1>3 DEF GoodsAreSound, GoodsOf

LEMMA GoodsInit ==
  ASSUME Init
  PROVE  GoodsAreSound
<1>1. ASSUME NEW p \in Present
      PROVE  GoodsOf(p)
  <2>1. /\ p \in People /\ ledger[p] = <<>> /\ balance[p] = 0 /\ shelf[p] = Shelf(0, 0) /\ owned[p] = {}
        /\ laid[p] = 0 /\ found[p] = 0
    BY DEF Init, Present, EmptyShelf
  <2>2. \A k : Ids(<<>>, k) = {}
    BY DEF Ids
  <2>3. Cardinality({}) = 0 /\ IsFiniteSet({}) /\ 0 * Bundle = 0
    BY FS_EmptySet, Numbers
  <2>4. Shelf(0, 0).eggs = 0 /\ Shelf(0, 0).junk = 0 /\ Shelf(0, 0).pending = None /\ \A k : ~Tells(Shelf(0, 0), k)
    BY PlainShelf
  <2> DEFINE s == Shelf(0, 0)
  <2> HIDE DEF s
  <2>5. s.eggs = 0 /\ s.junk = 0 /\ s.pending = None /\ \A k : ~Tells(s, k)
    BY <2>4 DEF s
  <2>6. EggsAreCharged(<<>>, s, 0)
    BY <2>2, <2>3, <2>5 DEF EggsAreCharged, One
  <2>7. EggsAreHatched(<<>>, s, {}, 0, 0)
    <3>1. One(Tells(s, "hatch") /\ Yielded(<<>>, s, {})) = 0
      BY <2>5 DEF One
    <3>2. s.eggs = 0 /\ Cardinality({}) = 0 /\ Cardinality(Ids(<<>>, "refund")) = 0
      BY <2>2, <2>3, <2>5
    <3> QED
      BY <3>1, <3>2 DEF EggsAreHatched
  <2>8. JunkIsPaid(<<>>, s, 0)
    BY <2>2, <2>3, <2>5 DEF JunkIsPaid, One
  <2>9. EveryEntryIsNew(<<>>) /\ OneOfEach({}) /\ HatchIsSound(<<>>, s, {}) /\ ChargeIsRemembered(<<>>, 0, s)
    BY <2>3, <2>5 DEF EveryEntryIsNew, OneOfEach, HatchIsSound, ChargeIsRemembered
  <2>10. TokensAreDrawn(<<>>, s, {}, draws)
    BY <2>5 DEF TokensAreDrawn
  <2>11. ~Serves(p)
    BY IdleAt DEF Init, Serves, Eggs
  <2> QED
    BY <2>1, <2>6, <2>7, <2>8, <2>9, <2>10, <2>11 DEF GoodsOf, Accounts, s
<1> QED
  BY <1>1 DEF GoodsAreSound, GoodsOf

LEMMA GoodsFollow ==
  ASSUME GoodsAreSound
  PROVE  GoodsAreAccounted
<1> SUFFICES ASSUME NEW p \in Present
             PROVE  /\ EveryEntryIsNew(ledger[p])
                    /\ EggsAreCharged(ledger[p], shelf[p], laid[p])
                    /\ EggsAreHatched(ledger[p], shelf[p], owned[p], laid[p], found[p])
                    /\ JunkIsPaid(ledger[p], shelf[p], found[p])
  BY DEF GoodsAreAccounted, EveryEntryIsNew, EggsAreCharged, EggsAreHatched, JunkIsPaid, Yielded,
         OfKind, Pending
<1> QED
  BY DEF GoodsAreSound, Accounts

\* Whatever calls are cut between their requests, the ledger repeats no transaction it
\* still holds, each egg was charged to its owner, each hatched egg yielded one item, one
\* cosmetic or one refund, and each bundle was paid (eggs.rs: complete_pending; lib.rs:
\* finish_hatch).
THEOREM GoodsCount == Spec => []GoodsAreAccounted
<1>1. Init => GoodsAreSound
  BY GoodsInit
<1>2. TypeOK /\ GoodsAreSound /\ [Next]_vars => GoodsAreSound'
  BY GoodsStep
<1>3. GoodsAreSound => GoodsAreAccounted
  BY GoodsFollow
<1> QED
  BY <1>1, <1>2, <1>3, TypeCorrect, PTL DEF Spec
=============================================================================
