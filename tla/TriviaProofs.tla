---------------------------- MODULE TriviaProofs ----------------------------
(***************************************************************************)
(* The rounds of Trivia, for any people, any number of questions and any   *)
(* number of rounds, lines, faults, reloads and erasures: what a round     *)
(* counts was asked and was paid, and the row, its copies and its timer    *)
(* belong together.                                                        *)
(***************************************************************************)
EXTENDS Trivia, FiniteSetTheorems, SequenceTheorems, TLAPS

-----------------------------------------------------------------------------
(* What is invariant of a round.                                           *)

\* A round can count only questions that are no longer open, and has booked its
\* timer once for each question, each hint and each answer or reveal.
Fits(r) ==
  /\ r.asked # NoQuestion => r.number >= 1
  /\ r.seq <= 3 * Answerable(r)
              + (IF r.asked = NoQuestion THEN 0 ELSE IF r.asked.hinted THEN 2 ELSE 1)
  /\ \A p \in People : r.scores[p].correct <= Answerable(r)
  /\ r.streak.n <= Answerable(r)
  /\ Cardinality(Credits(r)) <= Answerable(r)

\* The questions no longer open that p was paid for.
PaidFor(r, p, L) == {k \in 1 .. Answerable(r) : <<p, <<r.id, k>>>> \in L}

Sound(r, L) ==
  /\ r \in Rounds /\ Fits(r)
  /\ \A p \in People : r.scores[p].correct <= Cardinality(PaidFor(r, p, L))

\* The round counts nothing for p, whoever started it.
Clean(r, p) ==
  /\ r.scores[p] = NoScore /\ r.streak.who # p
  /\ r.asked # NoQuestion => p \notin r.asked.out

Booked(r) == [r EXCEPT !.seq = @ + 1]

\* n is r after something was booked, in which at most p took part.
Follows(n, r, p) ==
  /\ n.id = r.id /\ n.seq = r.seq + 1
  /\ Answerable(r) <= Answerable(n)
  /\ \A q \in People \ {p} : Clean(r, q) => Clean(n, q)

-----------------------------------------------------------------------------
(* Rounds.                                                                 *)

LEMMA Shape ==
  ASSUME NEW r \in Rounds
  PROVE  /\ r.id \in Nat /\ r.starter \in People /\ r.number \in 0 .. Total
         /\ r.asked \in Questions \cup {NoQuestion}
         /\ r.scores \in [People -> [points : Nat, correct : 0 .. Total]]
         /\ r.streak \in [who : People, n : 1 .. Total] \cup {NoStreak}
         /\ r.idle \in 0 .. IdleLimit - 1 /\ r.seq \in 0 .. 3 * Total
         /\ r.streak.n \in 0 .. Total
         /\ Answerable(r) \in Int /\ Answerable(r) <= r.number /\ Answerable(r) <= Total
         /\ Total \in Nat \ {0}
<1>1. r.streak.n \in 0 .. Total
  BY TriviaAssumption DEF Rounds, NoStreak
<1> QED BY <1>1, TriviaAssumption DEF Rounds, Answerable

LEMMA SoundFacts ==
  ASSUME NEW r, NEW L, Sound(r, L)
  PROVE  /\ r \in Rounds
         /\ r.asked # NoQuestion => /\ r.number >= 1 /\ Answerable(r) = r.number - 1
                                   /\ r.asked \in Questions
         /\ r.asked = NoQuestion => Answerable(r) = r.number /\ r.seq <= 3 * r.number
         /\ r.asked # NoQuestion /\ r.asked.hinted => r.seq <= 3 * r.number - 1
         /\ r.asked # NoQuestion /\ ~r.asked.hinted => r.seq <= 3 * r.number - 2
         /\ r.streak.n <= Answerable(r) /\ Answerable(r) \in Nat
<1>1. r \in Rounds /\ Fits(r)
  BY DEF Sound
<1>2. /\ r.number \in Nat /\ r.seq \in Nat /\ r.asked \in Questions \cup {NoQuestion}
      /\ Answerable(r) \in Int
  BY <1>1, Shape
<1> QED BY <1>1, <1>2 DEF Fits, Answerable

LEMMA CreditsFinite ==
  ASSUME NEW r
  PROVE  IsFiniteSet(Credits(r)) /\ Cardinality(Credits(r)) \in Nat
<1>1. IsFiniteSet(People \X (1 .. Total))
  <2>1. IsFiniteSet(People) /\ Total \in Int /\ 1 \in Int
    BY TriviaAssumption
  <2>2. IsFiniteSet(1 .. Total)
    BY <2>1, FS_Interval
  <2> QED BY <2>1, <2>2, FS_Product
<1>2. Credits(r) \subseteq People \X (1 .. Total)
  BY DEF Credits
<1> QED BY <1>1, <1>2, FS_Subset, FS_CardinalityType

LEMMA PaidFinite ==
  ASSUME NEW r, NEW p, NEW L, Answerable(r) \in Int
  PROVE  IsFiniteSet(PaidFor(r, p, L)) /\ Cardinality(PaidFor(r, p, L)) \in Nat
<1>1. IsFiniteSet(1 .. Answerable(r))
  BY FS_Interval
<1>2. PaidFor(r, p, L) \subseteq 1 .. Answerable(r)
  BY DEF PaidFor
<1> QED BY <1>1, <1>2, FS_Subset, FS_CardinalityType

\* Later payments and later questions do not make a count smaller.
LEMMA PaidGrows ==
  ASSUME NEW r, NEW n, NEW p, NEW L, NEW M, L \subseteq M, n.id = r.id,
         Answerable(r) \in Int, Answerable(n) \in Int, Answerable(r) <= Answerable(n)
  PROVE  Cardinality(PaidFor(r, p, L)) <= Cardinality(PaidFor(n, p, M))
<1>1. PaidFor(r, p, L) \subseteq PaidFor(n, p, M)
  BY DEF PaidFor
<1> QED BY <1>1, PaidFinite, FS_Subset

LEMMA SoundGrows ==
  ASSUME NEW r, NEW L, NEW M, L \subseteq M, Sound(r, L)
  PROVE  Sound(r, M)
<1>1. r \in Rounds /\ Answerable(r) \in Int
  BY Shape DEF Sound
<1>2. ASSUME NEW p \in People
      PROVE  r.scores[p].correct <= Cardinality(PaidFor(r, p, M))
  <2>1. Cardinality(PaidFor(r, p, L)) <= Cardinality(PaidFor(r, p, M))
    BY <1>1, PaidGrows
  <2>2. Cardinality(PaidFor(r, p, L)) \in Nat /\ Cardinality(PaidFor(r, p, M)) \in Nat
    BY <1>1, PaidFinite
  <2>3. r.scores[p].correct \in Nat /\ r.scores[p].correct <= Cardinality(PaidFor(r, p, L))
    BY <1>1, Shape DEF Sound
  <2> QED BY <2>1, <2>2, <2>3
<1> QED BY <1>1, <1>2 DEF Sound

\* A round whose scores are those of r stays sound when only questions are added.
LEMMA SameScores ==
  ASSUME NEW r, NEW n, NEW L, Sound(r, L), n \in Rounds, n.id = r.id, n.scores = r.scores,
         n.asked # NoQuestion => n.number >= 1,
         Answerable(r) <= Answerable(n), n.streak.n <= Answerable(n),
         n.seq <= 3 * Answerable(n)
                  + (IF n.asked = NoQuestion THEN 0 ELSE IF n.asked.hinted THEN 2 ELSE 1)
  PROVE  Sound(n, L)
<1>1. /\ r \in Rounds /\ Answerable(r) \in Int /\ Answerable(n) \in Int
      /\ r.scores \in [People -> [points : Nat, correct : 0 .. Total]]
  BY Shape DEF Sound
<1>2. Credits(n) = Credits(r) /\ Cardinality(Credits(r)) \in Nat
  BY CreditsFinite DEF Credits
<1>3. Cardinality(Credits(r)) <= Answerable(r)
  BY DEF Sound, Fits
<1>4. ASSUME NEW p \in People
      PROVE  /\ n.scores[p].correct <= Answerable(n)
             /\ n.scores[p].correct <= Cardinality(PaidFor(n, p, L))
  <2>1. Cardinality(PaidFor(r, p, L)) <= Cardinality(PaidFor(n, p, L))
    BY <1>1, PaidGrows
  <2>2. Cardinality(PaidFor(r, p, L)) \in Nat /\ Cardinality(PaidFor(n, p, L)) \in Nat
    BY <1>1, PaidFinite
  <2>3. /\ r.scores[p].correct \in Nat /\ r.scores[p].correct <= Answerable(r)
        /\ r.scores[p].correct <= Cardinality(PaidFor(r, p, L))
    BY <1>1 DEF Sound, Fits
  <2> QED BY <1>1, <2>1, <2>2, <2>3
<1> QED BY <1>1, <1>2, <1>3, <1>4 DEF Sound, Fits

LEMMA NewRoundIsSound ==
  ASSUME NEW id \in Nat, NEW p \in People, NEW L
  PROVE  /\ Sound(NewRound(id, p), L)
         /\ \A q \in People : Clean(NewRound(id, p), q)
<1> DEFINE r == NewRound(id, p)
<1>1. /\ r.id = id /\ r.starter = p /\ r.number = 0 /\ r.asked = NoQuestion
      /\ r.scores = [q \in People |-> NoScore] /\ r.streak = NoStreak /\ r.idle = 0 /\ r.seq = 0
      /\ Answerable(r) = 0
  BY DEF NewRound, Answerable
<1>2. r \in Rounds
  BY TriviaAssumption DEF NewRound, Rounds, NoScore, NoStreak, IdleLimit
<1> HIDE DEF r
<1>3. Credits(r) = {} /\ r.streak.n = 0 /\ r.streak.who = Nobody
  BY <1>1 DEF Credits, NoScore, NoStreak
<1>4. Cardinality(Credits(r)) = 0
  BY <1>3, FS_EmptySet
<1>5. ASSUME NEW q \in People
      PROVE  r.scores[q].correct = 0 /\ r.scores[q].correct <= Cardinality(PaidFor(r, q, L))
  <2>1. Cardinality(PaidFor(r, q, L)) \in Nat
    BY <1>1, PaidFinite
  <2> QED BY <1>1, <2>1 DEF NoScore
<1>6. Sound(r, L)
  BY <1>1, <1>2, <1>3, <1>4, <1>5 DEF Sound, Fits
<1>7. \A q \in People : Clean(r, q)
  BY <1>1, <1>3, TriviaAssumption DEF Clean, NoScore
<1> QED BY <1>6, <1>7 DEF r

LEMMA AskedRound ==
  ASSUME NEW r, NEW L, Sound(r, L), r.asked = NoQuestion, r.number < Total,
         NEW k \in {"free", "choice"}, NEW p
  PROVE  LET n == Booked([r EXCEPT !.number = @ + 1,
                                   !.asked = [kind |-> k, hinted |-> FALSE, out |-> {}]])
         IN  Sound(n, L) /\ Follows(n, r, p)
<1> DEFINE n == Booked([r EXCEPT !.number = @ + 1,
                                 !.asked = [kind |-> k, hinted |-> FALSE, out |-> {}]])
<1>1. r \in Rounds
  BY DEF Sound
<1>2. /\ n.id = r.id /\ n.number = r.number + 1 /\ n.asked.kind = k /\ n.asked.hinted = FALSE
      /\ n.asked.out = {} /\ n.asked \in Questions
      /\ n.scores = r.scores /\ n.streak = r.streak /\ n.seq = r.seq + 1
  BY <1>1 DEF Rounds, Booked, Questions
<1>3. n.asked # NoQuestion
  BY <1>2, BlanksAssumption
<1>4. Answerable(r) = r.number /\ Answerable(n) = r.number
  BY <1>1, <1>2, <1>3 DEF Answerable, Rounds
<1>5. r.seq <= 3 * r.number /\ r.streak.n <= r.number
  BY <1>4, SoundFacts
<1>6. r.seq + 1 \in 0 .. 3 * Total /\ r.number + 1 \in 1 .. Total
  BY <1>1, <1>5, Shape
<1>7. n \in Rounds
  <2> DEFINE q == [kind |-> k, hinted |-> FALSE, out |-> {}]
  <2>1. n = [r EXCEPT !.number = r.number + 1, !.seq = r.seq + 1, !.asked = q]
    BY <1>1 DEF Booked, Rounds
  <2>2. q \in Questions
    BY DEF Questions
  <2>3. r.number + 1 \in 0 .. Total /\ r.seq + 1 \in 0 .. 3 * Total
    BY <1>1, <1>6, Shape
  <2> HIDE DEF n, q
  <2> QED BY <1>1, <2>1, <2>2, <2>3 DEF Rounds
<1> HIDE DEF n
<1>8. Sound(n, L)
  <2>1. n.number >= 1 /\ n.streak.n <= Answerable(n) /\ Answerable(r) <= Answerable(n)
    BY <1>1, <1>2, <1>4, <1>5, <1>6, Shape
  <2>2. n.seq <= 3 * Answerable(n) + 1
    BY <1>1, <1>2, <1>4, <1>5, Shape
  <2> QED BY <1>2, <1>3, <1>7, <2>1, <2>2, SameScores
<1>9. Follows(n, r, p)
  BY <1>2, <1>4, Shape, <1>1 DEF Follows, Clean
<1> QED BY <1>8, <1>9 DEF n

LEMMA HintedRound ==
  ASSUME NEW r, NEW L, Sound(r, L), r.asked # NoQuestion, ~r.asked.hinted, NEW p
  PROVE  LET n == Booked([r EXCEPT !.asked.hinted = TRUE])
         IN  Sound(n, L) /\ Follows(n, r, p)
<1> DEFINE q == [r.asked EXCEPT !.hinted = TRUE]
           n == Booked([r EXCEPT !.asked.hinted = TRUE])
<1>1. /\ r \in Rounds /\ r.asked \in Questions /\ r.number >= 1 /\ Answerable(r) = r.number - 1
      /\ r.seq <= 3 * r.number - 2 /\ r.streak.n <= Answerable(r)
  BY SoundFacts
<1>2. q \in Questions /\ q.hinted /\ q.out = r.asked.out
  BY <1>1 DEF Questions
<1>3. n = [r EXCEPT !.asked = q, !.seq = r.seq + 1]
  BY <1>1 DEF Booked, Rounds
<1> HIDE DEF n, q
<1>4. r.seq + 1 \in 0 .. 3 * Total
  BY <1>1, Shape
<1>5. /\ n.id = r.id /\ n.number = r.number /\ n.asked = q /\ n.asked # NoQuestion
      /\ n.scores = r.scores /\ n.streak = r.streak /\ n.seq = r.seq + 1
  BY <1>1, <1>2, <1>3, BlanksAssumption DEF Rounds
<1>6. n \in Rounds
  BY <1>1, <1>2, <1>3, <1>4 DEF Rounds
<1>7. Answerable(n) = Answerable(r)
  BY <1>1, <1>5 DEF Answerable
<1>8. Sound(n, L)
  <2>1. /\ n.number >= 1 /\ n.streak.n <= Answerable(n) /\ Answerable(r) <= Answerable(n)
        /\ n.seq <= 3 * Answerable(n) + 2
    BY <1>1, <1>5, <1>7, Shape
  <2> QED BY <1>2, <1>5, <1>6, <2>1, SameScores
<1>9. Follows(n, r, p)
  BY <1>1, <1>2, <1>5, <1>7, Shape DEF Follows, Clean
<1> QED BY <1>8, <1>9 DEF n

LEMMA RevealedRound ==
  ASSUME NEW r, NEW L, Sound(r, L), r.asked # NoQuestion, r.idle + 1 < IdleLimit, NEW p
  PROVE  LET n == Booked([r EXCEPT !.asked = NoQuestion, !.idle = @ + 1, !.streak = NoStreak])
         IN  Sound(n, L) /\ Follows(n, r, p)
<1> DEFINE n == Booked([r EXCEPT !.asked = NoQuestion, !.idle = @ + 1, !.streak = NoStreak])
<1>1. /\ r \in Rounds /\ r.asked \in Questions /\ r.number >= 1 /\ Answerable(r) = r.number - 1
      /\ r.seq <= 3 * r.number - 1
  BY SoundFacts, Shape
<1>2. r.seq + 1 \in 0 .. 3 * Total /\ r.idle + 1 \in 0 .. IdleLimit - 1
  BY <1>1, Shape DEF IdleLimit
<1>3. n = [r EXCEPT !.asked = NoQuestion, !.idle = r.idle + 1, !.streak = NoStreak,
                    !.seq = r.seq + 1]
  BY <1>1 DEF Booked, Rounds
<1> HIDE DEF n
<1>4. n \in Rounds
  BY <1>1, <1>2, <1>3 DEF Rounds
<1>5. /\ n.id = r.id /\ n.number = r.number /\ n.asked = NoQuestion
      /\ n.scores = r.scores /\ n.streak = NoStreak /\ n.seq = r.seq + 1
  BY <1>1, <1>3 DEF Rounds
<1>6. Answerable(n) = r.number /\ n.streak.n = 0 /\ n.streak.who = Nobody
  BY <1>5 DEF Answerable, NoStreak
<1>7. Sound(n, L)
  <2>1. n.streak.n <= Answerable(n) /\ Answerable(r) <= Answerable(n)
    BY <1>1, <1>5, <1>6, Shape
  <2>2. n.seq <= 3 * Answerable(n)
                 + (IF n.asked = NoQuestion THEN 0 ELSE IF n.asked.hinted THEN 2 ELSE 1)
    BY <1>1, <1>5, <1>6, Shape
  <2> QED BY <1>4, <1>5, <2>1, <2>2, SameScores
<1>8. Follows(n, r, p)
  BY <1>1, <1>5, <1>6, Shape, TriviaAssumption DEF Follows, Clean
<1> QED BY <1>7, <1>8 DEF n

LEMMA PointsAreNatural ==
  ASSUME NEW hinted, NEW n \in Nat \ {0}
  PROVE  Points(hinted, n) \in Nat
<1>1. CASE 2 * (n - 1) <= 6
  <2>1. Min({2 * (n - 1), 6}) = 2 * (n - 1)
    BY <1>1 DEF Min
  <2> QED BY <2>1 DEF Points
<1>2. CASE ~(2 * (n - 1) <= 6)
  <2>1. Min({2 * (n - 1), 6}) = 6
    BY <1>2 DEF Min
  <2> QED BY <2>1 DEF Points
<1> QED BY <1>1, <1>2

\* The answer that closes a question is counted once it is paid.
LEMMA ScoredRound ==
  ASSUME NEW r, NEW L, Sound(r, L), r.asked # NoQuestion, NEW p \in People
  PROVE  LET n == Booked(Scored(r, p))
         IN  /\ Sound(n, L \cup {<<p, <<r.id, r.number>>>>}) /\ Follows(n, r, p)
             /\ r.number <= Answerable(n)
<1> DEFINE n == Booked(Scored(r, p))
           M == L \cup {<<p, <<r.id, r.number>>>>}
           t == Streak(r, p)
           points == r.scores[p].points + Points(r.asked.hinted, t.n)
           correct == r.scores[p].correct + 1
           score == [points |-> points, correct |-> correct]
           scores == [r.scores EXCEPT ![p] = score]
<1>1. /\ r \in Rounds /\ r.asked \in Questions /\ r.number >= 1 /\ Answerable(r) = r.number - 1
      /\ r.seq <= 3 * r.number - 1 /\ r.streak.n <= Answerable(r)
  BY SoundFacts, Shape
<1>2. /\ r.number \in 1 .. Total /\ r.streak.n \in Nat /\ r.seq \in Nat /\ r.id \in Nat
      /\ r.scores \in [People -> [points : Nat, correct : 0 .. Total]]
  BY <1>1, Shape
<1>3. /\ \A q \in People : r.scores[q].correct <= r.number - 1
      /\ \A q \in People : r.scores[q].correct <= Cardinality(PaidFor(r, q, L))
      /\ Cardinality(Credits(r)) <= r.number - 1
  BY <1>1 DEF Sound, Fits
<1>4. /\ t.who = p /\ t.n \in 1 .. r.number /\ t \in [who : People, n : 1 .. Total]
  <2>1. t = [who |-> p, n |-> IF r.streak.who = p THEN r.streak.n + 1 ELSE 1]
    BY DEF Streak
  <2> HIDE DEF t
  <2>2. t.who = p /\ t.n = (IF r.streak.who = p THEN r.streak.n + 1 ELSE 1)
    BY <2>1
  <2>3. t.n \in 1 .. r.number /\ t.n \in 1 .. Total
    <3>1. r.streak.n <= r.number - 1 /\ r.number \in Nat /\ r.number <= Total /\ Total \in Nat
      BY <1>1, <1>2, TriviaAssumption
    <3>2. t.n = r.streak.n + 1 \/ t.n = 1
      BY <2>2
    <3> QED BY <1>1, <1>2, <3>1, <3>2
  <2> QED BY <2>1, <2>2, <2>3
<1>5. score \in [points : Nat, correct : 0 .. Total] /\ correct \in 1 .. r.number
  <2>1. points \in Nat
    BY <1>2, <1>4, PointsAreNatural
  <2>2. correct \in 1 .. r.number /\ correct \in 0 .. Total
    <3>1. /\ r.scores[p].correct <= r.number - 1 /\ r.scores[p].correct \in Nat
          /\ r.number \in Nat /\ r.number <= Total /\ Total \in Nat
      BY <1>2, <1>3, TriviaAssumption
    <3> QED BY <3>1
  <2> HIDE DEF points, correct
  <2> QED BY <2>1, <2>2
<1>6. scores \in [People -> [points : Nat, correct : 0 .. Total]]
  BY <1>2, <1>5
<1>7. n = [r EXCEPT !.asked = NoQuestion, !.streak = t, !.idle = 0, !.scores = scores,
                    !.seq = r.seq + 1]
  BY <1>1, <1>2 DEF Booked, Scored, Rounds
<1>8. /\ scores[p].correct = r.scores[p].correct + 1
      /\ \A q \in People \ {p} : scores[q] = r.scores[q]
  BY <1>2
<1> HIDE DEF n, t, points, correct, score, scores
<1>9. n \in Rounds
  <2>1. r.seq + 1 \in 0 .. 3 * Total /\ 0 \in 0 .. IdleLimit - 1
    BY <1>1, <1>2, Shape DEF IdleLimit
  <2> QED BY <1>1, <1>4, <1>6, <1>7, <2>1 DEF Rounds
<1>10. /\ n.id = r.id /\ n.number = r.number /\ n.asked = NoQuestion
       /\ n.scores = scores /\ n.streak = t /\ n.seq = r.seq + 1
  BY <1>1, <1>7 DEF Rounds
<1>11. Answerable(n) = r.number /\ Answerable(r) \in Int /\ Answerable(r) <= Answerable(n)
  BY <1>1, <1>2, <1>10 DEF Answerable
<1>12. Cardinality(Credits(n)) <= r.number
  <2>1. Credits(n) \subseteq Credits(r) \cup {<<p, r.scores[p].correct + 1>>}
    <3> SUFFICES ASSUME NEW a \in Credits(n), a \notin Credits(r)
                 PROVE  a = <<p, r.scores[p].correct + 1>>
      OBVIOUS
    <3>1. /\ a \in People \X (1 .. Total) /\ a[1] \in People /\ a[2] \in 1 .. Total
          /\ a[2] <= scores[a[1]].correct /\ ~(a[2] <= r.scores[a[1]].correct)
      BY <1>10 DEF Credits
    <3>2. a[1] = p
      BY <1>8, <3>1
    <3>3. a[2] = r.scores[p].correct + 1
      BY <1>2, <1>8, <3>1, <3>2
    <3> QED BY <3>1, <3>2, <3>3
  <2>2. IsFiniteSet(Credits(r)) /\ Cardinality(Credits(r)) \in Nat /\ Cardinality(Credits(n)) \in Nat
    BY CreditsFinite
  <2> DEFINE more == Credits(r) \cup {<<p, r.scores[p].correct + 1>>}
  <2>3. IsFiniteSet(more) /\ Cardinality(more) <= Cardinality(Credits(r)) + 1 /\ Cardinality(more) \in Nat
    <3>1. /\ IsFiniteSet(more)
          /\ Cardinality(more) = IF <<p, r.scores[p].correct + 1>> \in Credits(r)
                                 THEN Cardinality(Credits(r)) ELSE Cardinality(Credits(r)) + 1
      BY <2>2, FS_AddElement
    <3> HIDE DEF more
    <3> QED BY <2>2, <3>1
  <2>4. Cardinality(Credits(n)) <= Cardinality(more)
    BY <2>1, <2>3, FS_Subset
  <2> HIDE DEF more
  <2> QED BY <1>2, <1>3, <2>2, <2>3, <2>4
<1>13. ASSUME NEW q \in People
       PROVE  /\ n.scores[q].correct <= Answerable(n)
              /\ n.scores[q].correct <= Cardinality(PaidFor(n, q, M))
  <2>1. Cardinality(PaidFor(r, q, L)) <= Cardinality(PaidFor(n, q, M))
    BY <1>9, <1>10, <1>11, Shape, PaidGrows
  <2>2. /\ Cardinality(PaidFor(r, q, L)) \in Nat /\ Cardinality(PaidFor(n, q, M)) \in Nat
        /\ IsFiniteSet(PaidFor(r, q, L)) /\ IsFiniteSet(PaidFor(n, q, M))
    BY <1>2, <1>11, PaidFinite
  <2>3. CASE q # p
    BY <1>2, <1>3, <1>8, <1>10, <1>11, <2>1, <2>2, <2>3
  <2>4. CASE q = p
    <3>1. r.number \notin PaidFor(r, p, L)
      BY <1>1, <1>2 DEF PaidFor
    <3>2. PaidFor(r, p, L) \cup {r.number} \subseteq PaidFor(n, p, M)
      BY <1>1, <1>2, <1>10, <1>11 DEF PaidFor
    <3>3. /\ IsFiniteSet(PaidFor(r, p, L) \cup {r.number})
          /\ Cardinality(PaidFor(r, p, L) \cup {r.number}) = Cardinality(PaidFor(r, p, L)) + 1
      BY <2>2, <2>4, <3>1, FS_AddElement
    <3>4. Cardinality(PaidFor(r, p, L) \cup {r.number}) <= Cardinality(PaidFor(n, p, M))
      BY <2>2, <2>4, <3>2, FS_Subset
    <3>5. r.scores[p].correct + 1 <= Cardinality(PaidFor(r, p, L)) + 1
      BY <1>2, <1>3, <2>2, <2>4
    <3> QED BY <1>2, <1>3, <1>8, <1>10, <1>11, <2>2, <2>4, <3>3, <3>4, <3>5
  <2> QED BY <2>3, <2>4
<1>14. Sound(n, M)
  <2>1. n.streak.n <= Answerable(n)
    BY <1>1, <1>2, <1>4, <1>10, <1>11
  <2>2. n.seq <= 3 * Answerable(n)
                 + (IF n.asked = NoQuestion THEN 0 ELSE IF n.asked.hinted THEN 2 ELSE 1)
    BY <1>1, <1>2, <1>10, <1>11
  <2>3. Fits(n)
    BY <1>10, <1>11, <1>12, <1>13, <2>1, <2>2 DEF Fits
  <2> QED BY <1>9, <1>13, <2>3 DEF Sound
<1>15. Follows(n, r, p)
  BY <1>1, <1>4, <1>8, <1>10, <1>11 DEF Follows, Clean
<1> QED BY <1>2, <1>11, <1>14, <1>15 DEF n

LEMMA WrongRound ==
  ASSUME NEW r, NEW L, Sound(r, L), r.asked # NoQuestion, NEW p \in People
  PROVE  LET n == [r EXCEPT !.asked.out = @ \cup {p}]
         IN  /\ Sound(n, L) /\ n.id = r.id /\ n.seq = r.seq /\ Answerable(n) = Answerable(r)
             /\ \A q \in People \ {p} : Clean(r, q) => Clean(n, q)
<1> DEFINE q == [r.asked EXCEPT !.out = @ \cup {p}]
           n == [r EXCEPT !.asked.out = @ \cup {p}]
<1>1. /\ r \in Rounds /\ r.asked \in Questions /\ r.number >= 1 /\ Answerable(r) = r.number - 1
      /\ r.streak.n <= Answerable(r)
  BY SoundFacts
<1>2. q \in Questions /\ q.hinted = r.asked.hinted /\ q.out = r.asked.out \cup {p}
  BY <1>1 DEF Questions
<1>3. n = [r EXCEPT !.asked = q]
  BY <1>1 DEF Rounds, Questions
<1> HIDE DEF n, q
<1>4. /\ n.id = r.id /\ n.number = r.number /\ n.asked = q /\ n.asked # NoQuestion
      /\ n.scores = r.scores /\ n.streak = r.streak /\ n.seq = r.seq /\ n \in Rounds
  BY <1>1, <1>2, <1>3, BlanksAssumption DEF Rounds
<1>5. Answerable(n) = Answerable(r)
  BY <1>1, <1>4 DEF Answerable
<1>6. Sound(n, L)
  <2>1. n.number >= 1 /\ n.streak.n <= Answerable(n) /\ Answerable(r) <= Answerable(n)
    BY <1>1, <1>4, <1>5, Shape
  <2>2. n.seq <= 3 * Answerable(n) + (IF n.asked.hinted THEN 2 ELSE 1)
    BY <1>1, <1>2, <1>4, <1>5, SoundFacts, Shape
  <2> QED BY <1>4, <2>1, <2>2, SameScores
<1>7. \A u \in People \ {p} : Clean(r, u) => Clean(n, u)
  BY <1>2, <1>4 DEF Clean
<1> QED BY <1>4, <1>5, <1>6, <1>7 DEF n

-----------------------------------------------------------------------------
(* What the calls of a handler leave of the module's state.                *)

States == [stored : Rounds \cup {NoRound}, mem : Rounds \cup {NoRound}, job : Jobs,
           career : Careers, ledger : SUBSET Entries, ok : BOOLEAN]

\* Only p, and people who scored, have another career than before.
CareerKept(s, e, p) ==
  \A q \in People \ {p} :
     (s.mem # NoRound => Clean(s.mem, q)) => e.career[q] = s.career[q]

\* p was paid for the open question.
Paid(s, e, p) ==
  /\ s.mem # NoRound /\ s.mem.asked # NoQuestion /\ p \in People
  /\ e.ledger = s.ledger \cup {<<p, <<s.mem.id, s.mem.number>>>>}

\* The round is where it was; a payment may have been made in vain.
Stays(s, e, p) ==
  /\ e.stored = s.stored /\ e.mem = s.mem /\ e.job = s.job
  /\ \/ e.ledger = s.ledger
     \/ ~e.ok /\ Paid(s, e, p)

\* A new round, or the old one a booking later, is saved.
Moves(s, e, p, id) ==
  /\ e.mem = e.stored /\ e.stored # NoRound /\ Sound(e.stored, e.ledger)
  /\ e.ok => e.job = JobOf(e.stored)
  /\ \/ /\ s.mem = NoRound /\ e.ledger = s.ledger
        /\ e.stored.id = id /\ \A q \in People : Clean(e.stored, q)
     \/ /\ s.mem # NoRound /\ Follows(e.stored, s.mem, p)
        /\ \/ e.ledger = s.ledger
           \/ Paid(s, e, p) /\ s.mem.number <= Answerable(e.stored)

\* p is out for the open question.
Marks(s, e, p) ==
  /\ e.mem = e.stored /\ e.stored # NoRound /\ Sound(e.stored, e.ledger)
  /\ e.job = s.job /\ e.ledger = s.ledger /\ s.mem # NoRound
  /\ e.stored.id = s.mem.id /\ e.stored.seq = s.mem.seq
  /\ Answerable(e.stored) = Answerable(s.mem)
  /\ \A q \in People \ {p} : Clean(s.mem, q) => Clean(e.stored, q)

\* The round was dropped; some winners may have been paid.
Over(s, e) ==
  /\ s.mem # NoRound /\ e.mem = NoRound /\ e.stored = NoRound /\ (e.ok => e.job = NoJob)
  /\ s.ledger \subseteq e.ledger /\ e.ledger \subseteq s.ledger \cup Bonus(s.mem, People)

Handled(s, e, p, id) ==
  /\ e \in States /\ CareerKept(s, e, p)
  /\ Stays(s, e, p) \/ Moves(s, e, p, id) \/ Marks(s, e, p) \/ Over(s, e)

LEMMA CutState ==
  ASSUME NEW s \in States
  PROVE  /\ Cut(s) \in States /\ ~Cut(s).ok
         /\ Cut(s).stored = s.stored /\ Cut(s).mem = s.mem /\ Cut(s).job = s.job
         /\ Cut(s).career = s.career /\ Cut(s).ledger = s.ledger
BY DEF Cut, States

LEMMA SavedState ==
  ASSUME NEW s \in States, NEW r \in Rounds \cup {NoRound}
  PROVE  /\ Save(s, r) \in States
         /\ Save(s, r).stored = r /\ Save(s, r).mem = r /\ Save(s, r).job = s.job
         /\ Save(s, r).career = s.career /\ Save(s, r).ledger = s.ledger /\ Save(s, r).ok = s.ok
BY DEF Save, States

LEMMA TimedState ==
  ASSUME NEW s \in States, NEW j \in Jobs
  PROVE  LET t == [s EXCEPT !.job = j]
         IN  /\ t \in States
             /\ t.stored = s.stored /\ t.mem = s.mem /\ t.job = j
             /\ t.career = s.career /\ t.ledger = s.ledger /\ t.ok = s.ok
BY DEF States

LEMMA BookEnds ==
  ASSUME NEW s \in States, s.ok, NEW r, Booked(r) \in Rounds, NEW e \in Book(s, r)
  PROVE  /\ e \in States /\ e.career = s.career /\ e.ledger = s.ledger
         /\ \/ ~e.ok /\ e.stored = s.stored /\ e.mem = s.mem /\ e.job = s.job
            \/ /\ e.stored = Booked(r) /\ e.mem = Booked(r)
               /\ e.ok => e.job = JobOf(Booked(r))
<1> DEFINE n == Booked(r)
           saved == Save(s, n)
           timed == [saved EXCEPT !.job = JobOf(n)]
<1>1. e = timed \/ e = Cut(saved) \/ e = Cut(s)
  BY DEF Book, Booked
<1>2. JobOf(n) \in Jobs
  BY Shape DEF JobOf, Jobs
<1> HIDE DEF n
<1>3. /\ saved \in States /\ saved.stored = n /\ saved.mem = n
      /\ saved.career = s.career /\ saved.ledger = s.ledger
  BY SavedState DEF n
<1> HIDE DEF saved
<1>4. /\ timed \in States /\ timed.stored = n /\ timed.mem = n /\ timed.job = JobOf(n)
      /\ timed.career = s.career /\ timed.ledger = s.ledger
  BY <1>2, <1>3, TimedState
<1> HIDE DEF timed
<1>5. CASE e = timed
  BY <1>4, <1>5 DEF n
<1>6. CASE e = Cut(saved)
  BY <1>3, <1>6, CutState DEF n
<1>7. CASE e = Cut(s)
  BY <1>7, CutState
<1> QED BY <1>1, <1>5, <1>6, <1>7

LEMMA DropEnds ==
  ASSUME NEW s \in States, NEW e \in Drop(s)
  PROVE  /\ e \in States /\ e.career = s.career /\ e.ledger = s.ledger
         /\ \/ ~e.ok /\ e.stored = s.stored /\ e.mem = s.mem /\ e.job = s.job
            \/ e.stored = NoRound /\ e.mem = NoRound /\ (e.ok => e.job = NoJob)
<1> DEFINE gone == Save(s, NoRound)
           unset == [gone EXCEPT !.job = NoJob]
<1>1. e = unset \/ e = Cut(gone) \/ e = Cut(s)
  BY DEF Drop
<1>2. NoJob \in Jobs
  BY TriviaAssumption DEF NoJob, Jobs
<1>3. /\ gone \in States /\ gone.stored = NoRound /\ gone.mem = NoRound
      /\ gone.career = s.career /\ gone.ledger = s.ledger
  BY SavedState
<1> HIDE DEF gone
<1>4. /\ unset \in States /\ unset.stored = NoRound /\ unset.mem = NoRound /\ unset.job = NoJob
      /\ unset.career = s.career /\ unset.ledger = s.ledger
  BY <1>2, <1>3, TimedState
<1> HIDE DEF unset
<1>5. CASE e = Cut(gone)
  BY <1>3, <1>5, CutState
<1>6. CASE e = Cut(s)
  BY <1>6, CutState
<1> QED BY <1>1, <1>4, <1>5, <1>6

LEMMA PayEnds ==
  ASSUME NEW s \in States, NEW P \in SUBSET Entries
  PROVE  LET e == Pay(s, P)
         IN  /\ e \in States /\ e.stored = s.stored /\ e.mem = s.mem /\ e.job = s.job
             /\ e.career = s.career
             /\ \/ e.ledger = s.ledger \cup P
                \/ ~e.ok /\ e.ledger = s.ledger
<1>1. CASE \E pay \in P : Erased(pay[1])
  BY <1>1, CutState DEF Pay
<1>2. CASE ~\E pay \in P : Erased(pay[1])
  <2> DEFINE ledger2 == s.ledger \cup P
  <2>1. ledger2 \in SUBSET Entries
    BY DEF States
  <2>2. Pay(s, P) = [s EXCEPT !.ledger = ledger2]
    BY <1>2 DEF Pay, States
  <2> HIDE DEF ledger2
  <2>3. /\ Pay(s, P) \in States /\ Pay(s, P).ledger = ledger2
        /\ Pay(s, P).stored = s.stored /\ Pay(s, P).mem = s.mem /\ Pay(s, P).job = s.job
        /\ Pay(s, P).career = s.career
    BY <2>1, <2>2 DEF States
  <2>4. Pay(s, P).ledger = s.ledger \cup P
    BY <2>3 DEF ledger2
  <2> QED BY <2>3, <2>4
<1> QED BY <1>1, <1>2

LEMMA WonState ==
  ASSUME NEW s \in States, NEW W \in SUBSET People
  PROVE  LET e == Won(s, W)
         IN  /\ e \in States /\ e.stored = s.stored /\ e.mem = s.mem /\ e.job = s.job
             /\ e.ledger = s.ledger /\ e.ok = s.ok
             /\ \A q \in People \ W : e.career[q] = s.career[q]
<1> DEFINE career2 == [p \in People |-> IF p \in W THEN [s.career[p] EXCEPT !.won = @ + 1]
                                        ELSE s.career[p]]
<1>1. s.career \in Careers
  BY DEF States
<1>2. career2 \in Careers /\ \A q \in People \ W : career2[q] = s.career[q]
  BY <1>1 DEF Careers
<1>3. Won(s, W) = [s EXCEPT !.career = career2]
  BY DEF Won
<1> HIDE DEF career2
<1> QED BY <1>2, <1>3 DEF States

LEMMA BonusEntries ==
  ASSUME NEW r, r.id \in Nat, NEW W \in SUBSET People
  PROVE  Bonus(r, W) \in SUBSET Entries /\ Bonus(r, W) \subseteq Bonus(r, People)
<1>1. 0 \in 0 .. Total
  BY TriviaAssumption
<1>2. Bonus(r, W) \subseteq Bonus(r, People)
  BY DEF Bonus
<1>3. \A p \in W : <<p, <<r.id, 0>>>> \in Entries
  BY <1>1 DEF Entries
<1> QED BY <1>2, <1>3 DEF Bonus

LEMMA RewardsEnds ==
  ASSUME NEW s \in States, NEW r, r.id \in Nat, NEW W \in SUBSET People,
         NEW e \in Rewards(s, r, W)
  PROVE  /\ e \in States /\ e.stored = s.stored /\ e.mem = s.mem /\ e.job = s.job
         /\ s.ledger \subseteq e.ledger /\ e.ledger \subseteq s.ledger \cup Bonus(r, People)
         /\ \A q \in People \ W : e.career[q] = s.career[q]
<1>1. ASSUME NEW V \in SUBSET W, NEW P \in SUBSET W
      PROVE  LET d == Pay(Won(s, V), Bonus(r, P))
             IN  /\ d \in States /\ d.stored = s.stored /\ d.mem = s.mem /\ d.job = s.job
                 /\ s.ledger \subseteq d.ledger
                 /\ d.ledger \subseteq s.ledger \cup Bonus(r, People)
                 /\ \A q \in People \ W : d.career[q] = s.career[q]
  <2>1. V \in SUBSET People /\ P \in SUBSET People
    BY <1>1
  <2>2. Bonus(r, P) \in SUBSET Entries /\ Bonus(r, P) \subseteq Bonus(r, People)
    BY <2>1, BonusEntries
  <2> DEFINE won == Won(s, V)
             d == Pay(won, Bonus(r, P))
  <2>3. /\ won \in States /\ won.stored = s.stored /\ won.mem = s.mem /\ won.job = s.job
        /\ won.ledger = s.ledger /\ \A q \in People \ V : won.career[q] = s.career[q]
    BY <2>1, WonState
  <2> HIDE DEF won
  <2>4. /\ d \in States /\ d.stored = won.stored /\ d.mem = won.mem /\ d.job = won.job
        /\ d.career = won.career
        /\ d.ledger = won.ledger \cup Bonus(r, P) \/ d.ledger = won.ledger
    BY <2>2, <2>3, PayEnds
  <2> HIDE DEF d
  <2>5. /\ d \in States /\ d.stored = s.stored /\ d.mem = s.mem /\ d.job = s.job
        /\ s.ledger \subseteq d.ledger /\ d.ledger \subseteq s.ledger \cup Bonus(r, People)
    BY <2>2, <2>3, <2>4
  <2>6. \A q \in People \ W : d.career[q] = s.career[q]
    BY <1>1, <2>3, <2>4
  <2> QED BY <2>5, <2>6 DEF d, won
<1>2. CASE e = Pay(Won(s, W), Bonus(r, W))
  BY <1>1, <1>2
<1>3. ASSUME NEW told \in SUBSET W, NEW paid \in SUBSET told,
             e = Cut(Pay(Won(s, told), Bonus(r, paid)))
      PROVE  /\ e \in States /\ e.stored = s.stored /\ e.mem = s.mem /\ e.job = s.job
             /\ s.ledger \subseteq e.ledger /\ e.ledger \subseteq s.ledger \cup Bonus(r, People)
             /\ \A q \in People \ W : e.career[q] = s.career[q]
  <2> DEFINE d == Pay(Won(s, told), Bonus(r, paid))
  <2>1. /\ d \in States /\ d.stored = s.stored /\ d.mem = s.mem /\ d.job = s.job
        /\ s.ledger \subseteq d.ledger /\ d.ledger \subseteq s.ledger \cup Bonus(r, People)
        /\ \A q \in People \ W : d.career[q] = s.career[q]
    BY <1>1, <1>3
  <2>2. e = Cut(d)
    BY <1>3
  <2> HIDE DEF d
  <2> QED BY <2>1, <2>2, CutState
<1>4. \/ e = Pay(Won(s, W), Bonus(r, W))
      \/ \E told \in SUBSET W : \E paid \in SUBSET told :
            e = Cut(Pay(Won(s, told), Bonus(r, paid)))
  BY DEF Rewards
<1> QED BY <1>2, <1>3, <1>4

\* Who is clean has no points and wins nothing.
LEMMA CleanDoNotWin ==
  ASSUME NEW r, NEW q, Clean(r, q)
  PROVE  q \notin Winners(r)
<1>1. r.scores[q].points = 0
  BY DEF Clean, NoScore
<1> QED BY <1>1 DEF Winners

\* The round that is finished has the scores of the one in memory.
LEMMA FinishEnds ==
  ASSUME NEW s \in States, NEW p, NEW id, s.mem # NoRound,
         NEW r, r.id = s.mem.id, r.scores = s.mem.scores, NEW e \in Finish(s, r)
  PROVE  Handled(s, e, p, id) /\ (e.ok => Over(s, e))
<1>0. r.id \in Nat
  BY Shape DEF States
<1>1. PICK d \in Drop(s) : e \in (IF d.ok THEN Rewards(d, r, Winners(r)) ELSE {d})
  BY DEF Finish
<1>2. /\ d \in States /\ d.career = s.career /\ d.ledger = s.ledger
      /\ \/ ~d.ok /\ d.stored = s.stored /\ d.mem = s.mem /\ d.job = s.job
         \/ d.stored = NoRound /\ d.mem = NoRound /\ (d.ok => d.job = NoJob)
  BY DropEnds
<1>3. CASE ~d.ok
  <2>1. e = d
    BY <1>1, <1>3
  <2>2. CareerKept(s, e, p)
    BY <1>2, <2>1 DEF CareerKept
  <2>3. CASE d.stored = s.stored /\ d.mem = s.mem /\ d.job = s.job
    BY <1>2, <1>3, <2>1, <2>2, <2>3 DEF Handled, Stays
  <2>4. CASE d.stored = NoRound /\ d.mem = NoRound /\ (d.ok => d.job = NoJob)
    <3>1. Over(s, e)
      BY <1>2, <2>1, <2>4 DEF Over
    <3> QED BY <1>2, <1>3, <2>1, <2>2, <3>1 DEF Handled
  <2> QED BY <1>2, <2>3, <2>4
<1>4. CASE d.ok
  <2>1. e \in Rewards(d, r, Winners(r)) /\ Winners(r) \in SUBSET People
    BY <1>1, <1>4 DEF Winners
  <2>2. /\ e \in States /\ e.stored = NoRound /\ e.mem = NoRound /\ e.job = NoJob
        /\ s.ledger \subseteq e.ledger /\ e.ledger \subseteq s.ledger \cup Bonus(r, People)
        /\ \A q \in People \ Winners(r) : e.career[q] = s.career[q]
    BY <1>0, <1>2, <1>4, <2>1, RewardsEnds
  <2>3. Bonus(r, People) = Bonus(s.mem, People) /\ Winners(r) = Winners(s.mem)
    BY DEF Bonus, Winners
  <2>4. CareerKept(s, e, p)
    BY <2>2, <2>3, CleanDoNotWin DEF CareerKept
  <2> QED BY <2>2, <2>3, <2>4 DEF Handled, Over
<1> QED BY <1>3, <1>4

LEMMA RoundsAreNotBlank ==
  ASSUME NEW r \in Rounds
  PROVE  r # NoRound /\ r # Unloaded
BY BlanksAssumption

LEMMA BookHandled ==
  ASSUME NEW s \in States, s.ok, NEW r, NEW p, NEW id, Sound(Booked(r), s.ledger),
         \/ /\ s.mem = NoRound /\ Booked(r).id = id /\ \A q \in People : Clean(Booked(r), q)
         \/ s.mem # NoRound /\ Follows(Booked(r), s.mem, p),
         NEW e \in Book(s, r)
  PROVE  Handled(s, e, p, id) /\ (e.ok => Moves(s, e, p, id))
<1>1. Booked(r) \in Rounds /\ Booked(r) # NoRound
  BY RoundsAreNotBlank DEF Sound
<1>2. /\ e \in States /\ e.career = s.career /\ e.ledger = s.ledger
      /\ \/ ~e.ok /\ e.stored = s.stored /\ e.mem = s.mem /\ e.job = s.job
         \/ /\ e.stored = Booked(r) /\ e.mem = Booked(r)
            /\ e.ok => e.job = JobOf(Booked(r))
  BY <1>1, BookEnds
<1>3. CareerKept(s, e, p)
  BY <1>2 DEF CareerKept
<1>4. CASE ~e.ok /\ e.stored = s.stored /\ e.mem = s.mem /\ e.job = s.job
  BY <1>2, <1>3, <1>4 DEF Handled, Stays
<1>5. CASE /\ e.stored = Booked(r) /\ e.mem = Booked(r)
           /\ e.ok => e.job = JobOf(Booked(r))
  <2>1. Moves(s, e, p, id)
    BY <1>1, <1>2, <1>5 DEF Moves
  <2> QED BY <1>2, <1>3, <2>1 DEF Handled
<1> QED BY <1>2, <1>4, <1>5

LEMMA StepEnds ==
  ASSUME NEW s \in States, s.ok, s.mem # NoRound, Sound(s.mem, s.ledger), NEW p, NEW id,
         NEW e \in Step(s, s.mem)
  PROVE  /\ Handled(s, e, p, id)
         /\ e.ok => Moves(s, e, p, id) \/ Over(s, e)
<1> DEFINE r == s.mem
           asked(k) == [r EXCEPT !.number = @ + 1,
                                 !.asked = [kind |-> k, hinted |-> FALSE, out |-> {}]]
           revealed == [r EXCEPT !.asked = NoQuestion, !.idle = @ + 1, !.streak = NoStreak]
<1>1. r \in Rounds /\ r.idle \in 0 .. IdleLimit - 1 /\ r.number \in 0 .. Total
  BY Shape DEF Sound
<1>2. CASE r.asked # NoQuestion /\ ~r.asked.hinted
  <2>1. e \in Book(s, [r EXCEPT !.asked.hinted = TRUE])
    BY <1>2 DEF Step, Hint
  <2>2. /\ Sound(Booked([r EXCEPT !.asked.hinted = TRUE]), s.ledger)
        /\ Follows(Booked([r EXCEPT !.asked.hinted = TRUE]), r, p)
    BY <1>2, HintedRound
  <2> QED BY <2>1, <2>2, BookHandled
<1>3. CASE r.asked # NoQuestion /\ r.asked.hinted
  <2>1. e \in Reveal(s, r)
    BY <1>3 DEF Step
  <2>2. revealed.idle = r.idle + 1 /\ revealed.id = r.id /\ revealed.scores = r.scores
    BY <1>1 DEF Rounds
  <2>3. CASE r.idle + 1 >= IdleLimit
    <3>1. e \in Finish(s, revealed)
      BY <2>1, <2>2, <2>3 DEF Reveal
    <3> HIDE DEF revealed
    <3> QED BY <2>2, <3>1, FinishEnds
  <2>4. CASE ~(r.idle + 1 >= IdleLimit)
    <3>1. e \in Book(s, revealed)
      BY <2>1, <2>2, <2>4 DEF Reveal
    <3>2. r.idle + 1 < IdleLimit
      BY <1>1, <2>4 DEF IdleLimit
    <3>3. Sound(Booked(revealed), s.ledger) /\ Follows(Booked(revealed), r, p)
      BY <1>3, <3>2, RevealedRound
    <3> HIDE DEF revealed
    <3> QED BY <3>1, <3>3, BookHandled
  <2> QED BY <2>3, <2>4
<1>4. CASE r.asked = NoQuestion /\ r.number >= Total
  <2>1. e \in Finish(s, r)
    BY <1>4 DEF Step
  <2> QED BY <1>1, <2>1, FinishEnds
<1>5. CASE r.asked = NoQuestion /\ ~(r.number >= Total)
  <2>1. PICK k \in {"free", "choice"} : e \in Book(s, asked(k))
    BY <1>5 DEF Step, Ask
  <2>2. r.number < Total
    BY <1>1, <1>5, TriviaAssumption
  <2>3. Sound(Booked(asked(k)), s.ledger) /\ Follows(Booked(asked(k)), r, p)
    BY <1>5, <2>2, AskedRound
  <2> HIDE DEF asked
  <2> QED BY <2>1, <2>3, BookHandled
<1> QED BY <1>2, <1>3, <1>4, <1>5

LEMMA StartEnds ==
  ASSUME NEW s \in States, s.ok, NEW p \in People, NEW id \in Nat, NEW e \in Start(s, p, id)
  PROVE  Handled(s, e, p, id)
<1>1. CASE s.mem # NoRound
  BY <1>1 DEF Start, Handled, Stays, CareerKept
<1>2. CASE s.mem = NoRound
  <2> DEFINE r == NewRound(id, p)
             asked(k) == [r EXCEPT !.number = @ + 1,
                                   !.asked = [kind |-> k, hinted |-> FALSE, out |-> {}]]
  <2>1. PICK k \in {"free", "choice"} : e \in Book(s, asked(k))
    BY <1>2 DEF Start, Ask
  <2>2. /\ r.id = id /\ r.asked = NoQuestion /\ r.number < Total
        /\ Sound(r, s.ledger) /\ \A q \in People : Clean(r, q)
    BY NewRoundIsSound, TriviaAssumption DEF NewRound
  <2>3. /\ Sound(Booked(asked(k)), s.ledger) /\ Follows(Booked(asked(k)), r, Nobody)
    BY <2>2, AskedRound
  <2>4. Booked(asked(k)).id = id /\ \A q \in People : Clean(Booked(asked(k)), q)
    BY <2>2, <2>3, TriviaAssumption DEF Follows
  <2> HIDE DEF asked
  <2> QED BY <1>2, <2>1, <2>3, <2>4, BookHandled
<1> QED BY <1>1, <1>2

LEMMA StopEnds ==
  ASSUME NEW s \in States, s.ok, NEW p, NEW id, NEW e \in Stop(s, p),
         s.mem # NoRound => s.mem \in Rounds
  PROVE  Handled(s, e, p, id)
<1>1. CASE e = s
  BY <1>1 DEF Handled, Stays, CareerKept
<1>2. CASE e # s
  <2>1. s.mem # NoRound /\ e \in Finish(s, s.mem)
    BY <1>2 DEF Stop
  <2> QED BY <2>1, FinishEnds
<1> QED BY <1>1, <1>2

LEMMA RightEnds ==
  ASSUME NEW s \in States, s.ok, s.mem # NoRound, Sound(s.mem, s.ledger),
         s.mem.asked # NoQuestion, NEW p \in People, NEW id, NEW e \in Right(s, s.mem, p)
  PROVE  Handled(s, e, p, id)
<1> DEFINE r == s.mem
           entry == <<p, <<r.id, r.number>>>>
           known == [s EXCEPT !.career[p].correct = @ + 1]
           paid == Pay(known, {entry})
<1>1. /\ known \in States /\ known.stored = s.stored /\ known.mem = s.mem
      /\ known.job = s.job /\ known.ledger = s.ledger /\ known.ok = s.ok
      /\ \A q \in People \ {p} : known.career[q] = s.career[q]
  <2> DEFINE one == [s.career[p] EXCEPT !.correct = s.career[p].correct + 1]
             career2 == [s.career EXCEPT ![p] = one]
  <2>1. s.career \in [People -> [correct : Nat, won : Nat]]
    BY DEF States, Careers
  <2>2. one \in [correct : Nat, won : Nat]
    BY <2>1
  <2>3. known = [s EXCEPT !.career = career2]
    BY <2>1 DEF States
  <2> HIDE DEF one
  <2>4. career2 \in Careers /\ \A q \in People \ {p} : career2[q] = s.career[q]
    BY <2>1, <2>2 DEF Careers
  <2> HIDE DEF career2, known
  <2> QED BY <2>3, <2>4 DEF States
<1>2. {entry} \in SUBSET Entries
  BY Shape DEF Sound, Entries
<1>3. e = Cut(known) \/ e = Cut(paid) \/ (paid.ok /\ e \in Book(paid, Scored(r, p)))
  BY DEF Right
<1> HIDE DEF known
<1>4. /\ paid \in States /\ paid.stored = s.stored /\ paid.mem = s.mem /\ paid.job = s.job
      /\ paid.career = known.career
      /\ \/ paid.ledger = s.ledger \cup {entry}
         \/ ~paid.ok /\ paid.ledger = s.ledger
  BY <1>1, <1>2, PayEnds
<1> HIDE DEF paid
<1>5. CASE e = Cut(known)
  <2>1. /\ e \in States /\ e.stored = s.stored /\ e.mem = s.mem /\ e.job = s.job
        /\ e.ledger = s.ledger /\ e.career = known.career
    BY <1>1, <1>5, CutState
  <2> QED BY <1>1, <2>1 DEF Handled, Stays, CareerKept
<1>6. CASE e = Cut(paid)
  <2>1. /\ e \in States /\ e.stored = s.stored /\ e.mem = s.mem /\ e.job = s.job
        /\ e.ledger = paid.ledger /\ e.career = known.career /\ ~e.ok
    BY <1>4, <1>6, CutState
  <2>2. Stays(s, e, p)
    BY <1>4, <2>1 DEF Stays, Paid
  <2> QED BY <1>1, <2>1, <2>2 DEF Handled, CareerKept
<1>7. CASE paid.ok /\ e \in Book(paid, Scored(r, p))
  <2> DEFINE n == Booked(Scored(r, p))
  <2>1. /\ Sound(n, s.ledger \cup {entry}) /\ Follows(n, r, p) /\ r.number <= Answerable(n)
    BY ScoredRound
  <2>2. n \in Rounds /\ n # NoRound
    BY <2>1, RoundsAreNotBlank DEF Sound
  <2> HIDE DEF n
  <2>3. /\ e \in States /\ e.career = paid.career /\ e.ledger = paid.ledger
        /\ \/ ~e.ok /\ e.stored = paid.stored /\ e.mem = paid.mem /\ e.job = paid.job
           \/ /\ e.stored = n /\ e.mem = n
              /\ e.ok => e.job = JobOf(n)
    BY <1>4, <1>7, <2>2, BookEnds DEF n
  <2>4. CareerKept(s, e, p) /\ Paid(s, e, p)
    BY <1>1, <1>4, <1>7, <2>3 DEF CareerKept, Paid
  <2>5. e.ledger = s.ledger \cup {entry}
    BY <1>4, <1>7, <2>3
  <2>6. Stays(s, e, p) \/ Moves(s, e, p, id)
    BY <1>4, <2>1, <2>2, <2>3, <2>4, <2>5 DEF Stays, Moves
  <2> QED BY <2>3, <2>4, <2>6 DEF Handled
<1> QED BY <1>3, <1>5, <1>6, <1>7

LEMMA AnswerEnds ==
  ASSUME NEW s \in States, s.ok, s.mem # NoRound, Sound(s.mem, s.ledger),
         NEW p \in People, NEW id, NEW e \in Answer(s, s.mem, p)
  PROVE  Handled(s, e, p, id)
<1> DEFINE r == s.mem
<1>1. CASE e = s
  BY <1>1 DEF Handled, Stays, CareerKept
<1>2. CASE r.asked # NoQuestion /\ e \in Right(s, r, p)
  BY <1>2, RightEnds
<1>3. CASE r.asked # NoQuestion /\ e = Wrong(s, r, p)
  <2> DEFINE n == [r EXCEPT !.asked.out = @ \cup {p}]
  <2>1. /\ Sound(n, s.ledger) /\ n.id = r.id /\ n.seq = r.seq /\ Answerable(n) = Answerable(r)
        /\ \A q \in People \ {p} : Clean(r, q) => Clean(n, q)
    BY <1>3, WrongRound
  <2>2. e = Save(s, n)
    BY <1>3 DEF Wrong
  <2>3. n \in Rounds /\ n # NoRound
    BY <2>1, RoundsAreNotBlank DEF Sound
  <2> HIDE DEF n
  <2>4. /\ e \in States /\ e.stored = n /\ e.mem = n /\ e.job = s.job
        /\ e.career = s.career /\ e.ledger = s.ledger
    BY <2>2, <2>3, SavedState
  <2>5. Marks(s, e, p) /\ CareerKept(s, e, p)
    BY <2>1, <2>3, <2>4 DEF Marks, CareerKept
  <2> QED BY <2>4, <2>5 DEF Handled
<1> QED BY <1>1, <1>2, <1>3 DEF Answer

-----------------------------------------------------------------------------
(* The invariant.                                                          *)

RoundsInUse == ({stored, erasure.row} \cup {mirror[w] : w \in Workers}) \ {NoRound, Unloaded}

\* Every copy is a round that could have come about, and ids are not used again.
RoundsAreSound ==
  /\ \A r \in RoundsInUse : Sound(r, ledger) /\ r.id <= budget.rounds
  /\ \A entry \in ledger : entry[2][1] <= budget.rounds

\* Only workers up to the newest have been fed.
OneIsFed ==
  /\ newest = budget.reloads + 1
  /\ \A w \in Workers : w > newest => queue[w] = << >> /\ mirror[w] = Unloaded
  /\ budget.erasures = 0 => erasure.stage = "none"
  /\ erasure.stage = "none" => ~budget.captured
  /\ erasure.stage # "none" => erasure.who \in People
  /\ \A w \in Workers : \A i \in 1 .. Len(queue[w]) :
        queue[w][i].kind = "delete" => erasure.stage # "none"

\* No second worker, and nothing put into the queue behind the host's back.
Undisturbed == budget.reloads = 0 /\ ~budget.captured

\* The request for a plan is the last item the worker gets until it is answered.
PlanIsLast ==
  Undisturbed =>
    LET q == queue[newest] IN
    /\ mirror[newest] \in {Unloaded, stored}
    /\ \A i \in 1 .. Len(q) : q[i].kind = "delete" => erasure.stage = "asked" /\ i = Len(q)
    /\ erasure.stage = "asked" => Len(q) > 0 /\ q[Len(q)].kind = "delete"
    /\ erasure.stage = "planned" => Len(q) = 0 /\ mirror[newest] = Unloaded

\* The plan is made from what is stored, and when it was applied nothing brings
\* the person back.
PlanIsComplete ==
  Undisturbed /\ erasure.quiet =>
    LET who == erasure.who IN
    /\ erasure.stage = "asked" => Len(queue[newest]) = 1
    /\ erasure.stage \in {"asked", "planned"} =>
          /\ erasure.row = stored
          /\ career[who] # NoCareer => erasure.career
    /\ erasure.stage = "applied" =>
          /\ career[who] = NoCareer /\ (stored # NoRound => Clean(stored, who))
          /\ \A i \in 1 .. Len(queue[newest]) : queue[newest][i].who # who

\* The winners of the stored round were not paid yet.
BonusIsLast ==
  budget.reloads = 0 /\ budget.erasures = 0 /\ stored # NoRound =>
    \A p \in People : <<p, <<stored.id, 0>>>> \notin ledger

\* When nothing went wrong, one person was paid for a question, and nobody for one
\* that is still open or not asked yet.
OneIsPaid ==
  Troubles = 0 =>
    /\ \A a, b \in ledger : a[2] = b[2] /\ a[2][2] > 0 => a[1] = b[1]
    /\ stored # NoRound =>
          \A a \in ledger : a[2][1] = stored.id => a[2][2] <= Answerable(stored)

\* When nothing went wrong, the job is the one of the last booking; it is in the
\* queue once if it was sent, and all other timers there are older.
TimersAreOlder ==
  Troubles = 0 =>
    LET q == queue[newest] IN
    /\ job.round <= budget.rounds
    /\ \A i \in 1 .. Len(q) : q[i].kind = "timer" => q[i].round <= budget.rounds
    /\ stored # NoRound =>
          /\ job.round = stored.id /\ job.seq = stored.seq
          /\ job.sent => \E i \in 1 .. Len(q) : q[i] = Timer(job)
          /\ \A i \in 1 .. Len(q) :
                q[i].kind = "timer" /\ q[i].round = stored.id =>
                   /\ q[i].seq <= stored.seq
                   /\ q[i].seq = stored.seq => job.sent
          /\ \A i, j \in 1 .. Len(q) :
                /\ q[i].kind = "timer" /\ q[i].round = stored.id /\ q[i].seq = stored.seq
                /\ q[j].kind = "timer" /\ q[j].round = stored.id /\ q[j].seq = stored.seq
                => i = j

IInv ==
  /\ TypeOK /\ RoundsAreSound /\ OneIsFed /\ PlanIsLast /\ PlanIsComplete
  /\ BonusIsLast /\ OneIsPaid /\ TimersAreOlder

-----------------------------------------------------------------------------
(* A worker handles an item.                                               *)

LEMMA TailOf ==
  ASSUME NEW S, NEW s \in Seq(S), s # << >>
  PROVE  /\ Tail(s) \in Seq(S) /\ Len(Tail(s)) = Len(s) - 1 /\ Len(s) \in Nat /\ Len(s) >= 1
         /\ \A i \in 1 .. Len(s) - 1 : Tail(s)[i] = s[i + 1]
         /\ Head(s) = s[1] /\ Head(s) \in S
<1>1. Len(s) \in Nat /\ Len(s) # 0
  BY LenProperties, EmptySeq
<1> QED BY <1>1, HeadTailProperties

LEMMA AppendOf ==
  ASSUME NEW S, NEW s \in Seq(S), NEW x \in S
  PROVE  /\ Append(s, x) \in Seq(S) /\ Len(Append(s, x)) = Len(s) + 1 /\ Len(s) \in Nat
         /\ \A i \in 1 .. Len(s) : Append(s, x)[i] = s[i]
         /\ Append(s, x)[Len(s) + 1] = x
BY AppendProperties, LenProperties

Takes(w) == HandleLine(w) \/ HandleStart(w) \/ HandleStop(w) \/ HandleTimer(w)

\* The handler of the first item left the module's state as in e.
Outcome(w, e) ==
  /\ stored' = e.stored /\ career' = e.career /\ ledger' = e.ledger
  /\ mirror' \in {[mirror EXCEPT ![w] = e.mem], [mirror EXCEPT ![w] = Unloaded]}
  /\ e.ok => mirror' = [mirror EXCEPT ![w] = e.mem]
  /\ job' = IF Head(queue[w]).kind = "timer" /\ e.job = Attempt(Head(queue[w]))
            THEN IF e.ok THEN NoJob ELSE [e.job EXCEPT !.sent = FALSE]
            ELSE e.job
  /\ budget' = [budget EXCEPT
         !.faults = IF e.ok THEN @ ELSE @ + 1,
         !.rounds = IF Head(queue[w]).kind = "start" THEN @ + 1 ELSE @]
  /\ Take(w)
  /\ UNCHANGED <<newest, erasure>>

\* Only a start makes a new round, and a timer of the last booking changes the round.
Due(w, e) ==
  LET s == Loaded(w)
      item == Head(queue[w])
  IN  /\ s.mem = NoRound /\ item.kind # "start" => Stays(s, e, item.who)
      /\ item.kind = "timer" /\ s.mem # NoRound /\ s.mem.seq = item.seq /\ e.ok
           => Moves(s, e, item.who, budget.rounds + 1) \/ Over(s, e)

LEMMA LoadedState ==
  ASSUME TypeOK, NEW w \in Workers
  PROVE  /\ Loaded(w) \in States /\ Loaded(w).ok
         /\ Loaded(w).stored = stored /\ Loaded(w).job = job
         /\ Loaded(w).career = career /\ Loaded(w).ledger = ledger
         /\ Loaded(w).mem = IF mirror[w] = Unloaded THEN stored ELSE mirror[w]
BY DEF Loaded, States, TypeOK

LEMMA LoadedSound ==
  ASSUME TypeOK, RoundsAreSound, NEW w \in Workers, Loaded(w).mem # NoRound
  PROVE  /\ Sound(Loaded(w).mem, ledger) /\ Loaded(w).mem.id <= budget.rounds
         /\ Loaded(w).mem \in Rounds
<1>1. Loaded(w).mem \in Rounds
  BY LoadedState DEF States
<1>2. Loaded(w).mem \in {stored} \cup {mirror[u] : u \in Workers}
  BY LoadedState
<1>3. Loaded(w).mem \in RoundsInUse
  BY <1>1, <1>2, RoundsAreNotBlank DEF RoundsInUse
<1> QED BY <1>1, <1>3 DEF RoundsAreSound

LEMMA EndsOutcome ==
  ASSUME NEW w, NEW ends, Ends(w, ends)
  PROVE  \E e \in ends \cup {Cut(Loaded(w))} : Outcome(w, e)
<1>1. PICK e \in ends \cup {Cut(Loaded(w))} :
        /\ stored' = e.stored /\ career' = e.career /\ ledger' = e.ledger
        /\ \E mem \in IF e.ok THEN {e.mem} ELSE {e.mem, Unloaded} :
               mirror' = [mirror EXCEPT ![w] = mem]
        /\ LET item == Head(queue[w]) IN
           job' = IF item.kind = "timer" /\ e.job = Attempt(item)
                  THEN IF e.ok THEN NoJob ELSE [e.job EXCEPT !.sent = FALSE]
                  ELSE e.job
        /\ budget' = [budget EXCEPT
               !.faults = IF e.ok THEN @ ELSE @ + 1,
               !.rounds = IF Head(queue[w]).kind = "start" THEN @ + 1 ELSE @]
        /\ Take(w)
        /\ UNCHANGED <<newest, erasure>>
  BY DEF Ends
<1>2. Outcome(w, e)
  BY <1>1 DEF Outcome
<1> QED BY <1>2

LEMMA HandleEnds ==
  ASSUME TypeOK, RoundsAreSound, NEW w \in Workers, Takes(w)
  PROVE  /\ queue[w] # << >> /\ Head(queue[w]) \in Items /\ Head(queue[w]).kind # "delete"
         /\ \E e : /\ Outcome(w, e) /\ Due(w, e)
                   /\ Handled(Loaded(w), e, Head(queue[w]).who, budget.rounds + 1)
<1> DEFINE s == Loaded(w)
           item == Head(queue[w])
<1>1. queue[w] # << >> /\ item.kind \in {"line", "start", "stop", "timer"}
  BY DEF Takes, HandleLine, HandleStart, HandleStop, HandleTimer, Heads
<1>2. item \in Items
  BY <1>1, TailOf DEF TypeOK
<1>3. s \in States /\ s.ok /\ s.ledger = ledger
  BY LoadedState
<1>4. s.mem # NoRound => Sound(s.mem, s.ledger) /\ s.mem \in Rounds
  BY <1>3, LoadedSound
<1>5. item.kind # "timer" => item.who \in People
  BY <1>2 DEF Items
<1>6. budget.rounds + 1 \in Nat
  BY DEF TypeOK
<1> DEFINE p == item.who
           id == budget.rounds + 1
<1>7. Handled(s, s, p, id) /\ Stays(s, s, p) /\ Handled(s, Cut(s), p, id) /\ Stays(s, Cut(s), p)
      /\ ~Cut(s).ok
  BY <1>3, CutState DEF Handled, Stays, CareerKept
<1> HIDE DEF s, item, p, id
<1>8. CASE HandleLine(w)
  <2>1. item.kind = "line"
    BY <1>8 DEF HandleLine, Heads, item
  <2>2. PICK e \in (IF s.mem = NoRound THEN {s} ELSE Answer(s, s.mem, p)) \cup {Cut(s)} :
          Outcome(w, e)
    BY <1>8, EndsOutcome DEF HandleLine, s, item, p
  <2>3. s.mem = NoRound => e \in {s, Cut(s)}
    BY <2>2
  <2>4. Handled(s, e, p, id)
    <3>1. CASE s.mem = NoRound
      BY <1>7, <2>3, <3>1
    <3>2. CASE s.mem # NoRound
      BY <1>3, <1>4, <1>5, <1>7, <2>1, <2>2, <3>2, AnswerEnds DEF p
    <3> QED BY <3>1, <3>2
  <2>5. Due(w, e)
    BY <1>7, <2>1, <2>3 DEF Due, s, item, p
  <2> QED BY <1>1, <1>2, <2>2, <2>4, <2>5 DEF s, item, p, id
<1>9. CASE HandleStart(w)
  <2>1. item.kind = "start"
    BY <1>9 DEF HandleStart, Heads, item
  <2>2. PICK e \in Start(s, p, id) \cup {Cut(s)} : Outcome(w, e)
    BY <1>9, EndsOutcome DEF HandleStart, s, item, p, id
  <2>3. Handled(s, e, p, id)
    BY <1>3, <1>5, <1>6, <1>7, <2>1, <2>2, StartEnds DEF p, id
  <2>4. Due(w, e)
    BY <2>1 DEF Due, item
  <2> QED BY <1>1, <1>2, <2>2, <2>3, <2>4 DEF s, item, p, id
<1>10. CASE HandleStop(w)
  <2>1. item.kind = "stop"
    BY <1>10 DEF HandleStop, Heads, item
  <2>2. PICK e \in Stop(s, p) \cup {Cut(s)} : Outcome(w, e)
    BY <1>10, EndsOutcome DEF HandleStop, s, item, p
  <2>3. Handled(s, e, p, id)
    BY <1>3, <1>4, <1>7, <2>2, StopEnds
  <2>4. s.mem = NoRound => e \in {s, Cut(s)}
    BY <2>2 DEF Stop
  <2>5. Due(w, e)
    BY <1>7, <2>1, <2>4 DEF Due, s, item, p
  <2> QED BY <1>1, <1>2, <2>2, <2>3, <2>5 DEF s, item, p, id
<1>11. CASE HandleTimer(w)
  <2>1. PICK e \in (IF s.mem = NoRound THEN {s}
                    ELSE IF s.mem.seq # item.seq THEN {s} ELSE Step(s, s.mem)) \cup {Cut(s)} :
          Outcome(w, e)
    BY <1>11, EndsOutcome DEF HandleTimer, s, item
  <2>2. CASE e \in {s, Cut(s)}
    <3>1. Handled(s, e, p, id) /\ Stays(s, e, p)
      BY <1>7, <2>2
    <3>2. s.mem # NoRound /\ s.mem.seq = item.seq /\ e.ok => Moves(s, e, p, id) \/ Over(s, e)
      <4> SUFFICES ASSUME s.mem # NoRound, s.mem.seq = item.seq, e.ok
                   PROVE  Moves(s, e, p, id) \/ Over(s, e)
        OBVIOUS
      <4>1. e # Cut(s)
        BY <1>7
      <4>2. e \in Step(s, s.mem)
        BY <2>1, <4>1
      <4> QED BY <1>3, <1>4, <4>2, StepEnds
    <3> QED BY <1>1, <1>2, <2>1, <3>1, <3>2 DEF Due, s, item, p, id
  <2>3. CASE s.mem # NoRound /\ s.mem.seq = item.seq /\ e \in Step(s, s.mem)
    <3>1. Handled(s, e, p, id) /\ (e.ok => Moves(s, e, p, id) \/ Over(s, e))
      BY <1>3, <1>4, <2>3, StepEnds
    <3> QED BY <1>1, <1>2, <2>1, <2>3, <3>1 DEF Due, s, item, p, id
  <2> QED BY <2>1, <2>2, <2>3
<1> QED BY <1>8, <1>9, <1>10, <1>11 DEF Takes

LEMMA TakeFacts ==
  ASSUME TypeOK, NEW w \in Workers, queue[w] # << >>, Take(w)
  PROVE  /\ queue' \in [Workers -> Seq(Items)]
         /\ queue'[w] = Tail(queue[w]) /\ \A u \in Workers \ {w} : queue'[u] = queue[u]
         /\ Len(queue'[w]) = Len(queue[w]) - 1 /\ Len(queue[w]) \in Nat /\ Len(queue[w]) >= 1
         /\ \A i \in 1 .. Len(queue[w]) - 1 : queue'[w][i] = queue[w][i + 1]
         /\ Head(queue[w]) = queue[w][1] /\ Head(queue[w]) \in Items
<1>1. queue \in [Workers -> Seq(Items)] /\ queue[w] \in Seq(Items)
  BY DEF TypeOK
<1>2. Tail(queue[w]) \in Seq(Items)
  BY <1>1, TailOf
<1>3. /\ queue' \in [Workers -> Seq(Items)] /\ queue'[w] = Tail(queue[w])
      /\ \A u \in Workers \ {w} : queue'[u] = queue[u]
  BY <1>1, <1>2 DEF Take
<1>4. /\ Len(Tail(queue[w])) = Len(queue[w]) - 1 /\ Len(queue[w]) \in Nat /\ Len(queue[w]) >= 1
      /\ \A i \in 1 .. Len(queue[w]) - 1 : Tail(queue[w])[i] = queue[w][i + 1]
      /\ Head(queue[w]) = queue[w][1] /\ Head(queue[w]) \in Items
  BY <1>1, TailOf
<1> QED BY <1>3, <1>4

\* What every outcome has in common.
LEMMA HandledFacts ==
  ASSUME TypeOK, RoundsAreSound, NEW w \in Workers, NEW e, NEW p, NEW id,
         Handled(Loaded(w), e, p, id)
  PROVE  /\ e \in States /\ ledger \subseteq e.ledger
         /\ e.stored = e.mem \/ (e.stored = stored /\ e.mem = Loaded(w).mem)
         /\ \A a \in e.ledger \ ledger :
               /\ Loaded(w).mem # NoRound /\ a[2][1] = Loaded(w).mem.id
               /\ \/ a[2][2] = 0 /\ Over(Loaded(w), e)
                  \/ /\ a[2][2] = Loaded(w).mem.number /\ a[1] = p
                     /\ Loaded(w).mem.asked # NoQuestion
                     /\ ~e.ok \/ (Moves(Loaded(w), e, p, id)
                                  /\ Loaded(w).mem.number <= Answerable(e.stored))
<1> DEFINE s == Loaded(w)
<1>1. s.ledger = ledger /\ s.stored = stored
  BY LoadedState
<1> HIDE DEF s
<1>2. e \in States
  BY DEF Handled
<1>3. CASE Stays(s, e, p)
  BY <1>1, <1>2, <1>3 DEF Stays, Paid, s
<1>4. CASE Moves(s, e, p, id)
  BY <1>1, <1>2, <1>4 DEF Moves, Paid, s
<1>5. CASE Marks(s, e, p)
  BY <1>1, <1>2, <1>5 DEF Marks, s
<1>6. CASE Over(s, e)
  BY <1>1, <1>2, <1>6 DEF Over, Bonus, s
<1> QED BY <1>3, <1>4, <1>5, <1>6 DEF Handled, s

LEMMA OutcomeBudget ==
  ASSUME TypeOK, NEW w \in Workers, NEW e, Outcome(w, e)
  PROVE  /\ budget'.rounds = IF Head(queue[w]).kind = "start" THEN budget.rounds + 1
                             ELSE budget.rounds
         /\ budget'.faults = IF e.ok THEN budget.faults ELSE budget.faults + 1
         /\ budget'.reloads = budget.reloads /\ budget'.erasures = budget.erasures
         /\ budget'.captured = budget.captured /\ budget'.inputs = budget.inputs
         /\ budget' \in [rounds : Nat, inputs : Nat, faults : Nat, reloads : Nat,
                         erasures : Nat, captured : BOOLEAN]
         /\ Troubles' = IF e.ok THEN Troubles ELSE Troubles + 1
         /\ Troubles \in Nat
<1> DEFINE f == IF e.ok THEN budget.faults ELSE budget.faults + 1
           n == IF Head(queue[w]).kind = "start" THEN budget.rounds + 1 ELSE budget.rounds
<1>1. budget \in [rounds : Nat, inputs : Nat, faults : Nat, reloads : Nat,
                  erasures : Nat, captured : BOOLEAN]
  BY DEF TypeOK
<1>2. budget' = [budget EXCEPT !.faults = f, !.rounds = n]
  BY DEF Outcome
<1>3. f \in Nat /\ n \in Nat
  BY <1>1
<1> HIDE DEF f, n
<1>4. /\ budget' \in [rounds : Nat, inputs : Nat, faults : Nat, reloads : Nat,
                      erasures : Nat, captured : BOOLEAN]
      /\ budget'.rounds = n /\ budget'.faults = f
      /\ budget'.reloads = budget.reloads /\ budget'.erasures = budget.erasures
      /\ budget'.captured = budget.captured /\ budget'.inputs = budget.inputs
  BY <1>1, <1>2, <1>3
<1>5. /\ Troubles = budget.faults + budget.reloads + budget.erasures
      /\ Troubles' = f + budget.reloads + budget.erasures
  BY <1>4 DEF Troubles
<1>6. /\ Troubles' = IF e.ok THEN Troubles ELSE Troubles + 1
      /\ Troubles \in Nat
  BY <1>1, <1>5 DEF f
<1> QED BY <1>4, <1>6 DEF f, n

LEMMA TypeHandled ==
  ASSUME TypeOK, RoundsAreSound, NEW w \in Workers, Takes(w)
  PROVE  TypeOK'
<1>1. queue[w] # << >> /\ Head(queue[w]) \in Items
  BY HandleEnds
<1>2. PICK e : /\ Outcome(w, e) /\ Handled(Loaded(w), e, Head(queue[w]).who, budget.rounds + 1)
  BY HandleEnds
<1>3. e \in States
  BY <1>2, HandledFacts
<1>4. Take(w) /\ newest' = newest /\ erasure' = erasure
  BY <1>2 DEF Outcome
<1>5. /\ queue' \in [Workers -> Seq(Items)]
      /\ \A u \in Workers : Len(queue'[u]) <= QueueCap
  <2>1. /\ queue' \in [Workers -> Seq(Items)] /\ Len(queue'[w]) = Len(queue[w]) - 1
        /\ Len(queue[w]) \in Nat /\ \A u \in Workers \ {w} : queue'[u] = queue[u]
    BY <1>1, <1>4, TakeFacts
  <2>2. QueueCap \in Nat /\ \A u \in Workers : Len(queue[u]) <= QueueCap
    BY TriviaAssumption DEF TypeOK
  <2>3. Len(queue'[w]) <= QueueCap
    BY <2>1, <2>2
  <2>4. \A u \in Workers : Len(queue'[u]) <= QueueCap
    BY <2>1, <2>2, <2>3
  <2> QED BY <2>1, <2>4
<1>6. mirror' \in [Workers -> Rounds \cup {NoRound, Unloaded}]
  BY <1>2, <1>3 DEF TypeOK, Outcome, States
<1>7. job' \in Jobs
  <2>1. NoJob \in Jobs
    BY TriviaAssumption DEF NoJob, Jobs
  <2>2. e.job \in Jobs /\ [e.job EXCEPT !.sent = FALSE] \in Jobs
    BY <1>3 DEF States, Jobs
  <2> QED BY <1>2, <2>1, <2>2 DEF Outcome
<1>8. stored' \in Rounds \cup {NoRound} /\ career' \in Careers /\ ledger' \subseteq Entries
  BY <1>2, <1>3 DEF Outcome, States
<1>9. newest' \in Workers /\ Workers' = Workers
  BY <1>4 DEF TypeOK, Workers
<1>10. erasure' \in [stage : {"none", "asked", "planned", "applied"},
                     who : People \cup {Nobody}, row : Rounds \cup {NoRound},
                     career : BOOLEAN, quiet : BOOLEAN]
  BY <1>4 DEF TypeOK
<1> QED BY <1>2, <1>5, <1>6, <1>7, <1>8, <1>9, <1>10, OutcomeBudget DEF TypeOK

LEMMA SoundHandled ==
  ASSUME TypeOK, RoundsAreSound, NEW w \in Workers, Takes(w)
  PROVE  RoundsAreSound'
<1> DEFINE s == Loaded(w)
           p == Head(queue[w]).who
           id == budget.rounds + 1
<1>1. PICK e : Outcome(w, e) /\ Due(w, e) /\ Handled(s, e, p, id)
  BY HandleEnds
<1>2. /\ stored' = e.stored /\ ledger' = e.ledger /\ erasure' = erasure
      /\ \A u \in Workers : mirror'[u] \in {mirror[u], e.mem, Unloaded}
  <2>1. mirror \in [Workers -> Rounds \cup {NoRound, Unloaded}]
    BY DEF TypeOK
  <2> QED BY <1>1, <2>1 DEF Outcome
<1>3. budget.rounds \in Nat /\ budget'.rounds \in Nat /\ budget.rounds <= budget'.rounds
  <2>1. budget.rounds \in Nat
    BY DEF TypeOK
  <2>2. budget'.rounds = budget.rounds + 1 \/ budget'.rounds = budget.rounds
    BY <1>1, OutcomeBudget
  <2> QED BY <2>1, <2>2
<1>4. e \in States /\ ledger \subseteq e.ledger
  BY <1>1, HandledFacts
<1>5. s.mem # NoRound => Sound(s.mem, ledger) /\ s.mem.id <= budget.rounds /\ s.mem.id \in Nat
  BY LoadedSound, Shape
<1>6. ASSUME NEW r \in RoundsInUse
      PROVE  Sound(r, ledger') /\ r.id <= budget'.rounds
  <2>1. Sound(r, ledger) /\ r.id <= budget.rounds /\ r.id \in Nat
    BY Shape DEF RoundsAreSound, Sound
  <2> QED BY <1>2, <1>3, <1>4, <2>1, SoundGrows
<1>7. s.mem # NoRound => Sound(s.mem, ledger') /\ s.mem.id <= budget'.rounds
  BY <1>2, <1>3, <1>4, <1>5, SoundGrows
<1>8. /\ e.stored # NoRound => e.stored = stored \/ (Sound(e.stored, ledger') /\ e.stored.id <= budget'.rounds)
      /\ e.mem # NoRound => Sound(e.mem, ledger') /\ e.mem.id <= budget'.rounds
  <2>1. CASE Stays(s, e, p)
    BY <1>7, <2>1, LoadedState DEF Stays
  <2>2. CASE Moves(s, e, p, id) /\ ~Stays(s, e, p)
    <3>1. CASE s.mem = NoRound
      <4>1. e.stored.id = budget.rounds + 1 /\ Head(queue[w]).kind = "start"
        BY <1>1, <2>2, <3>1 DEF Due, Moves
      <4> QED BY <1>1, <1>2, <1>3, <2>2, <4>1, OutcomeBudget DEF Moves
    <3>2. CASE s.mem # NoRound
      BY <1>2, <1>7, <2>2, <3>2 DEF Moves, Follows
    <3> QED BY <3>1, <3>2
  <2>3. CASE Marks(s, e, p)
    BY <1>2, <1>7, <2>3 DEF Marks
  <2>4. CASE Over(s, e)
    BY <2>4 DEF Over
  <2> QED BY <1>1, <2>1, <2>2, <2>3, <2>4 DEF Handled
<1>9. ASSUME NEW r \in RoundsInUse'
      PROVE  Sound(r, ledger') /\ r.id <= budget'.rounds
  <2>1. r # NoRound /\ r # Unloaded
    BY <1>9 DEF RoundsInUse
  <2>2. r = stored' \/ r = erasure.row \/ \E u \in Workers : r = mirror'[u]
    BY <1>2, <1>9 DEF RoundsInUse, Workers
  <2>3. r = e.stored \/ r = e.mem \/ r = erasure.row \/ \E u \in Workers : r = mirror[u]
    BY <1>2, <2>1, <2>2
  <2>4. CASE r \in RoundsInUse
    BY <1>6, <2>4
  <2>5. CASE r \notin RoundsInUse
    <3>1. (r = e.stored /\ r # stored) \/ r = e.mem
      BY <2>1, <2>3, <2>5 DEF RoundsInUse
    <3> QED BY <1>8, <2>1, <3>1
  <2> QED BY <2>4, <2>5
<1>10. ASSUME NEW a \in ledger'
       PROVE  a[2][1] <= budget'.rounds
  <2>1. CASE a \in ledger
    <3>1. a[2][1] <= budget.rounds /\ a[2][1] \in Nat
      BY <2>1 DEF RoundsAreSound, TypeOK, Entries
    <3> QED BY <1>3, <3>1
  <2>2. CASE a \notin ledger
    <3>1. s.mem # NoRound /\ a[2][1] = s.mem.id
      BY <1>1, <1>2, <1>10, <2>2, HandledFacts
    <3> QED BY <1>7, <3>1
  <2> QED BY <2>1, <2>2
<1> QED BY <1>9, <1>10 DEF RoundsAreSound

LEMMA OnlyNewest ==
  ASSUME TypeOK, OneIsFed, budget.reloads = 0, NEW w \in Workers, queue[w] # << >>
  PROVE  w = newest
<1>1. newest = 1 /\ ~(w > newest) /\ w \in Nat /\ w >= 1
  BY TriviaAssumption DEF OneIsFed, Workers, TypeOK
<1> QED BY <1>1

LEMMA FedHandled ==
  ASSUME TypeOK, RoundsAreSound, OneIsFed, NEW w \in Workers, Takes(w)
  PROVE  OneIsFed'
<1>1. queue[w] # << >>
  BY HandleEnds
<1>2. PICK e : Outcome(w, e)
  BY HandleEnds
<1>3. /\ budget'.reloads = budget.reloads /\ budget'.erasures = budget.erasures
      /\ budget'.captured = budget.captured
  BY <1>2, OutcomeBudget
<1>4. newest' = newest /\ erasure' = erasure /\ Take(w) /\ Workers' = Workers
  BY <1>2 DEF Outcome, Workers
<1>5. ASSUME NEW u \in Workers, u > newest
      PROVE  queue'[u] = << >> /\ mirror'[u] = Unloaded
  <2>1. queue[u] = << >> /\ mirror[u] = Unloaded /\ u # w
    BY <1>1, <1>5 DEF OneIsFed
  <2>2. queue'[u] = queue[u]
    BY <1>1, <1>4, <2>1, TakeFacts
  <2>3. mirror'[u] = mirror[u]
    BY <1>2, <2>1 DEF Outcome, TypeOK
  <2> QED BY <2>1, <2>2, <2>3
<1>6. ASSUME NEW u \in Workers, NEW i \in 1 .. Len(queue'[u]), queue'[u][i].kind = "delete"
      PROVE  erasure.stage # "none"
  <2>1. CASE u # w
    <3>1. queue'[u] = queue[u]
      BY <1>1, <1>4, <2>1, TakeFacts
    <3> QED BY <1>6, <3>1 DEF OneIsFed
  <2>2. CASE u = w
    <3>1. /\ Len(queue'[w]) = Len(queue[w]) - 1 /\ Len(queue[w]) \in Nat
          /\ \A k \in 1 .. Len(queue[w]) - 1 : queue'[w][k] = queue[w][k + 1]
      BY <1>1, <1>4, TakeFacts
    <3>2. i + 1 \in 1 .. Len(queue[w]) /\ queue[w][i + 1].kind = "delete"
      BY <1>6, <2>2, <3>1
    <3> QED BY <3>2 DEF OneIsFed
  <2> QED BY <2>1, <2>2
<1> QED BY <1>3, <1>4, <1>5, <1>6 DEF OneIsFed

LEMMA MemoryIsStored ==
  ASSUME TypeOK, PlanIsLast, Undisturbed
  PROVE  Loaded(newest).mem = stored
<1>1. mirror[newest] \in {Unloaded, stored} /\ newest \in Workers
  BY DEF PlanIsLast, TypeOK
<1> QED BY <1>1, LoadedState

LEMMA PlanHandled ==
  ASSUME TypeOK, RoundsAreSound, OneIsFed, PlanIsLast, NEW w \in Workers, Takes(w)
  PROVE  PlanIsLast'
<1> SUFFICES ASSUME Undisturbed' PROVE PlanIsLast'
  BY DEF PlanIsLast
<1>1. queue[w] # << >> /\ Head(queue[w]).kind # "delete"
  BY HandleEnds
<1>2. PICK e : /\ Outcome(w, e) /\ Handled(Loaded(w), e, Head(queue[w]).who, budget.rounds + 1)
  BY HandleEnds
<1>3. Undisturbed
  BY <1>2, OutcomeBudget DEF Undisturbed
<1>4. w = newest /\ newest' = newest /\ erasure' = erasure /\ Take(w)
  BY <1>1, <1>2, <1>3, OnlyNewest DEF Outcome, Undisturbed
<1>5. mirror'[w] \in {Unloaded, stored'}
  <2>1. mirror'[w] \in {Unloaded, e.mem} /\ stored' = e.stored
    BY <1>2 DEF Outcome, TypeOK
  <2>2. e.mem = e.stored
    BY <1>2, <1>3, <1>4, HandledFacts, MemoryIsStored
  <2> QED BY <2>1, <2>2
<1>6. /\ Len(queue'[w]) = Len(queue[w]) - 1 /\ Len(queue[w]) \in Nat /\ Len(queue[w]) >= 1
      /\ \A i \in 1 .. Len(queue[w]) - 1 : queue'[w][i] = queue[w][i + 1]
      /\ Head(queue[w]) = queue[w][1]
  BY <1>1, <1>4, TakeFacts
<1>7. /\ \A i \in 1 .. Len(queue[w]) :
            queue[w][i].kind = "delete" => erasure.stage = "asked" /\ i = Len(queue[w])
      /\ erasure.stage = "asked" => queue[w][Len(queue[w])].kind = "delete"
      /\ erasure.stage # "planned"
  BY <1>3, <1>4, <1>6 DEF PlanIsLast
<1>8. ASSUME NEW i \in 1 .. Len(queue'[w]), queue'[w][i].kind = "delete"
      PROVE  erasure.stage = "asked" /\ i = Len(queue'[w])
  <2>1. i + 1 \in 1 .. Len(queue[w]) /\ queue[w][i + 1].kind = "delete"
    BY <1>6, <1>8
  <2> QED BY <1>6, <1>7, <2>1
<1>9. ASSUME erasure.stage = "asked"
      PROVE  Len(queue'[w]) > 0 /\ queue'[w][Len(queue'[w])].kind = "delete"
  <2>1. Len(queue[w]) # 1
    BY <1>1, <1>6, <1>7, <1>9
  <2>2. PICK n \in Nat : n = Len(queue[w])
    BY <1>6
  <2>3. n >= 2 /\ Len(queue'[w]) = n - 1
    <3>1. n >= 1
      BY <1>6, <2>2
    <3>2. n # 1
      BY <2>1, <2>2
    <3>3. Len(queue'[w]) = n - 1
      BY <1>6, <2>2
    <3> QED BY <3>1, <3>2, <3>3
  <2>4. n - 1 \in 1 .. n - 1 /\ (n - 1) + 1 = n
    BY <2>3
  <2>5. queue'[w][n - 1] = queue[w][n]
    BY <1>6, <2>2, <2>4
  <2> QED BY <1>7, <1>9, <2>2, <2>3, <2>5
<1> QED BY <1>4, <1>5, <1>7, <1>8, <1>9 DEF PlanIsLast

LEMMA CompleteHandled ==
  ASSUME TypeOK, RoundsAreSound, OneIsFed, PlanIsLast, PlanIsComplete,
         NEW w \in Workers, Takes(w)
  PROVE  PlanIsComplete'
<1> SUFFICES ASSUME Undisturbed', erasure'.quiet PROVE PlanIsComplete'
  BY DEF PlanIsComplete
<1> DEFINE s == Loaded(w)
           p == Head(queue[w]).who
           who == erasure.who
<1>1. queue[w] # << >> /\ Head(queue[w]).kind # "delete"
  BY HandleEnds
<1>2. PICK e : Outcome(w, e) /\ Handled(s, e, p, budget.rounds + 1)
  BY HandleEnds
<1>3. Undisturbed
  BY <1>2, OutcomeBudget DEF Undisturbed
<1>4. w = newest /\ newest' = newest /\ erasure' = erasure /\ Take(w)
  BY <1>1, <1>2, <1>3, OnlyNewest DEF Outcome, Undisturbed
<1>5. /\ Len(queue'[w]) = Len(queue[w]) - 1 /\ Len(queue[w]) \in Nat /\ Len(queue[w]) >= 1
      /\ \A i \in 1 .. Len(queue[w]) - 1 : queue'[w][i] = queue[w][i + 1]
      /\ Head(queue[w]) = queue[w][1]
  BY <1>1, <1>4, TakeFacts
<1>6. erasure.stage # "planned"
  BY <1>3, <1>4, <1>5 DEF PlanIsLast
<1>7. erasure.stage # "asked"
  <2> SUFFICES ASSUME erasure.stage = "asked" PROVE FALSE
    OBVIOUS
  <2>1. Len(queue[w]) = 1
    BY <1>3, <1>4 DEF PlanIsComplete
  <2>2. queue[w][Len(queue[w])].kind = "delete"
    BY <1>3, <1>4 DEF PlanIsLast
  <2> QED BY <1>1, <1>5, <2>1, <2>2
<1>8. ASSUME erasure.stage = "applied"
      PROVE  /\ career'[who] = NoCareer /\ (stored' # NoRound => Clean(stored', who))
             /\ \A i \in 1 .. Len(queue'[w]) : queue'[w][i].who # who
  <2>1. /\ career[who] = NoCareer /\ (stored # NoRound => Clean(stored, who))
        /\ \A i \in 1 .. Len(queue[w]) : queue[w][i].who # who
    BY <1>3, <1>4, <1>8 DEF PlanIsComplete
  <2>2. who \in People \ {p}
    BY <1>5, <1>8, <2>1 DEF OneIsFed
  <2>3. s.mem = stored /\ s.stored = stored /\ s.career = career
    BY <1>3, <1>4, MemoryIsStored, LoadedState
  <2> HIDE DEF s, p, who
  <2>4. stored' = e.stored /\ career' = e.career
    BY <1>2 DEF Outcome
  <2>5. career'[who] = NoCareer
    BY <1>2, <2>1, <2>2, <2>3, <2>4 DEF Handled, CareerKept
  <2>6. stored' # NoRound => Clean(stored', who)
    <3>1. CASE Stays(s, e, p)
      BY <2>1, <2>3, <2>4, <3>1 DEF Stays
    <3>2. CASE Moves(s, e, p, budget.rounds + 1)
      BY <2>1, <2>2, <2>3, <2>4, <3>2 DEF Moves, Follows
    <3>3. CASE Marks(s, e, p)
      BY <2>1, <2>2, <2>3, <2>4, <3>3 DEF Marks
    <3>4. CASE Over(s, e)
      BY <2>4, <3>4 DEF Over
    <3> QED BY <1>2, <3>1, <3>2, <3>3, <3>4 DEF Handled
  <2>7. ASSUME NEW i \in 1 .. Len(queue'[w]) PROVE queue'[w][i].who # who
    <3>1. i + 1 \in 1 .. Len(queue[w]) /\ queue'[w][i] = queue[w][i + 1]
      BY <1>5
    <3> QED BY <2>1, <3>1
  <2> QED BY <2>5, <2>6, <2>7
<1> QED BY <1>4, <1>6, <1>7, <1>8 DEF PlanIsComplete

\* What a handler does to the stored round while only one worker runs.
LEMMA RoundGoesOn ==
  ASSUME TypeOK, RoundsAreSound, PlanIsLast, Undisturbed, NEW e, NEW p,
         Outcome(newest, e), Due(newest, e), p = Head(queue[newest]).who,
         Handled(Loaded(newest), e, p, budget.rounds + 1), e.stored # NoRound
  PROVE  /\ e.stored = e.mem /\ e.stored \in Rounds
         /\ \/ /\ stored # NoRound /\ e.stored.id = stored.id
               /\ Answerable(stored) <= Answerable(e.stored)
            \/ /\ stored = NoRound /\ e.stored.id = budget.rounds + 1
               /\ e.ledger = ledger /\ Moves(Loaded(newest), e, p, budget.rounds + 1)
<1> DEFINE s == Loaded(newest)
<1>1. /\ s.mem = stored /\ s.stored = stored /\ s.ledger = ledger /\ newest \in Workers
  BY MemoryIsStored, LoadedState DEF TypeOK
<1>2. e \in States /\ e.stored = e.mem
  BY <1>1, HandledFacts
<1>3. e.stored \in Rounds
  BY <1>2 DEF States
<1>4. stored # NoRound => Answerable(stored) \in Int
  BY Shape DEF TypeOK
<1> HIDE DEF s
<1>5. CASE Stays(s, e, p)
  BY <1>1, <1>2, <1>3, <1>4, <1>5 DEF Stays
<1>6. CASE Moves(s, e, p, budget.rounds + 1)
  BY <1>1, <1>2, <1>3, <1>4, <1>6 DEF Moves, Follows, s
<1>7. CASE Marks(s, e, p)
  BY <1>1, <1>2, <1>3, <1>4, <1>7 DEF Marks
<1>8. CASE Over(s, e)
  BY <1>8 DEF Over
<1> QED BY <1>5, <1>6, <1>7, <1>8 DEF Handled, s

\* An entry of the ledger can be taken apart.
LEMMA EntryShape ==
  ASSUME TypeOK, NEW a \in ledger
  PROVE  /\ a[1] \in People /\ a[2] \in Nat \X (0 .. Total)
         /\ a[2][1] \in Nat /\ a[2][2] \in 0 .. Total /\ a = <<a[1], <<a[2][1], a[2][2]>>>>
BY DEF TypeOK, Entries

LEMMA BonusHandled ==
  ASSUME TypeOK, RoundsAreSound, OneIsFed, PlanIsLast, BonusIsLast, NEW w \in Workers, Takes(w)
  PROVE  BonusIsLast'
<1> SUFFICES ASSUME budget'.reloads = 0, budget'.erasures = 0, stored' # NoRound,
                    NEW p \in People, <<p, <<stored'.id, 0>>>> \in ledger'
             PROVE  FALSE
  BY DEF BonusIsLast
<1> DEFINE who == Head(queue[w]).who
           a == <<p, <<stored'.id, 0>>>>
<1>1. queue[w] # << >>
  BY HandleEnds
<1>2. PICK e : Outcome(w, e) /\ Due(w, e) /\ Handled(Loaded(w), e, who, budget.rounds + 1)
  BY HandleEnds
<1>3. budget.reloads = 0 /\ budget.erasures = 0 /\ Undisturbed
  BY <1>2, OutcomeBudget DEF Undisturbed, OneIsFed
<1>4. w = newest /\ stored' = e.stored /\ ledger' = e.ledger
  BY <1>1, <1>2, <1>3, OnlyNewest DEF Outcome
<1>5. /\ e.stored \in Rounds
      /\ \/ stored # NoRound /\ e.stored.id = stored.id
         \/ e.stored.id = budget.rounds + 1 /\ e.ledger = ledger
  BY <1>2, <1>3, <1>4, RoundGoesOn
<1>6. a \in e.ledger /\ a[2][1] = e.stored.id /\ a[2][2] = 0 /\ a[1] = p
  BY <1>4
<1>7. CASE a \in ledger
  <2>1. a[2][1] <= budget.rounds /\ a[2][1] \in Nat /\ budget.rounds \in Nat
    BY <1>7, EntryShape DEF RoundsAreSound, TypeOK
  <2>2. stored # NoRound /\ e.stored.id = stored.id
    BY <1>5, <1>6, <2>1
  <2> QED BY <1>3, <1>4, <1>7, <2>2 DEF BonusIsLast
<1>8. CASE a \notin ledger
  <2>1. ~Over(Loaded(w), e)
    BY <1>4 DEF Over
  <2>2. Loaded(w).mem.number = 0 /\ Loaded(w).mem.asked # NoQuestion /\ Loaded(w).mem # NoRound
    BY <1>2, <1>6, <1>8, <2>1, HandledFacts
  <2>3. Loaded(w).mem.number >= 1
    BY <2>2, LoadedSound, SoundFacts
  <2> QED BY <2>2, <2>3
<1> QED BY <1>7, <1>8

LEMMA OneHandled ==
  ASSUME TypeOK, RoundsAreSound, OneIsFed, PlanIsLast, OneIsPaid, NEW w \in Workers, Takes(w)
  PROVE  OneIsPaid'
<1> SUFFICES ASSUME Troubles' = 0 PROVE OneIsPaid'
  BY DEF OneIsPaid
<1> DEFINE who == Head(queue[w]).who
           s == Loaded(w)
<1>1. queue[w] # << >>
  BY HandleEnds
<1>2. PICK e : Outcome(w, e) /\ Due(w, e) /\ Handled(s, e, who, budget.rounds + 1)
  BY HandleEnds
<1>3. Troubles = 0 /\ e.ok
  BY <1>2, OutcomeBudget
<1>4. budget.reloads = 0 /\ budget.erasures = 0
  BY <1>3 DEF Troubles, TypeOK
<1>5. Undisturbed
  BY <1>4 DEF Undisturbed, OneIsFed
<1>6. w = newest /\ stored' = e.stored /\ ledger' = e.ledger
  BY <1>1, <1>2, <1>4, OnlyNewest DEF Outcome
<1>7. s.mem = stored
  BY <1>5, <1>6, MemoryIsStored
<1>8. /\ \A a, b \in ledger : a[2] = b[2] /\ a[2][2] > 0 => a[1] = b[1]
      /\ stored # NoRound =>
            \A a \in ledger : a[2][1] = stored.id => a[2][2] <= Answerable(stored)
  BY <1>3 DEF OneIsPaid
<1>9. ASSUME NEW a \in ledger', a \notin ledger, a[2][2] > 0
      PROVE  /\ stored # NoRound /\ a[2][1] = stored.id /\ a[2][2] = stored.number /\ a[1] = who
             /\ Answerable(stored) < a[2][2] /\ Answerable(stored) \in Int
             /\ stored' # NoRound => stored'.id = stored.id /\ a[2][2] <= Answerable(stored')
  <2>1. /\ stored # NoRound /\ a[2][1] = stored.id /\ stored.asked # NoQuestion
        /\ a[2][2] = stored.number /\ a[1] = who
        /\ Moves(s, e, who, budget.rounds + 1) /\ stored.number <= Answerable(e.stored)
    BY <1>2, <1>3, <1>6, <1>7, <1>9, HandledFacts
  <2>2. stored \in Rounds
    BY <2>1 DEF TypeOK
  <2>3. Answerable(stored) = stored.number - 1 /\ stored.number \in Nat
    BY <2>1, <2>2, Shape DEF Answerable
  <2>4. e.stored.id = stored.id
    BY <1>7, <2>1 DEF Moves, Follows
  <2> QED BY <1>6, <2>1, <2>3, <2>4
<1> HIDE DEF s, who
<1>10. ASSUME NEW a \in ledger', NEW b \in ledger', a[2] = b[2], a[2][2] > 0
       PROVE  a[1] = b[1]
  <2>1. CASE a \in ledger /\ b \in ledger
    BY <1>8, <1>10, <2>1
  <2>2. CASE a \notin ledger /\ b \notin ledger
    BY <1>9, <1>10, <2>2
  <2>3. CASE a \notin ledger /\ b \in ledger
    <3>1. /\ stored # NoRound /\ a[2][1] = stored.id /\ Answerable(stored) < a[2][2]
          /\ Answerable(stored) \in Int
      BY <1>9, <1>10, <2>3
    <3>2. b[2][1] = stored.id /\ b[2][2] = a[2][2]
      BY <1>10, <3>1
    <3>3. b[2][2] <= Answerable(stored) /\ b[2][2] \in Nat
      BY <1>8, <2>3, <3>1, <3>2, EntryShape
    <3> QED BY <3>1, <3>2, <3>3
  <2>4. CASE a \in ledger /\ b \notin ledger
    <3>1. /\ stored # NoRound /\ b[2][1] = stored.id /\ Answerable(stored) < b[2][2]
          /\ Answerable(stored) \in Int
      BY <1>9, <1>10, <2>4
    <3>2. a[2][1] = stored.id /\ b[2][2] = a[2][2]
      BY <1>10, <3>1
    <3>3. a[2][2] <= Answerable(stored) /\ a[2][2] \in Nat
      BY <1>8, <2>4, <3>1, <3>2, EntryShape
    <3> QED BY <3>1, <3>2, <3>3
  <2> QED BY <2>1, <2>2, <2>3, <2>4
<1>11. ASSUME stored' # NoRound, NEW a \in ledger', a[2][1] = stored'.id
       PROVE  a[2][2] <= Answerable(stored')
  <2>1. /\ e.stored \in Rounds
        /\ \/ /\ stored # NoRound /\ e.stored.id = stored.id
              /\ Answerable(stored) <= Answerable(e.stored)
           \/ e.stored.id = budget.rounds + 1 /\ e.ledger = ledger
    BY <1>2, <1>5, <1>6, <1>11, RoundGoesOn DEF s, who
  <2>2. Answerable(e.stored) \in Int /\ (stored # NoRound => Answerable(stored) \in Int)
    BY <2>1, Shape DEF TypeOK
  <2>3. Answerable(e.stored) >= 0
    <3>1. e.stored \in RoundsInUse'
      BY <1>6, <2>1, RoundsAreNotBlank DEF RoundsInUse
    <3>2. Sound(e.stored, ledger')
      BY <3>1, SoundHandled DEF RoundsAreSound
    <3> QED BY <3>2, SoundFacts
  <2>4. CASE a \in ledger
    <3>1. a[2][1] \in Nat /\ a[2][2] \in Nat /\ a[2][1] <= budget.rounds /\ budget.rounds \in Nat
      BY <2>4, EntryShape DEF RoundsAreSound, TypeOK
    <3>2. stored # NoRound /\ a[2][1] = stored.id /\ Answerable(stored) <= Answerable(e.stored)
      BY <1>6, <1>11, <2>1, <3>1
    <3>3. a[2][2] <= Answerable(stored)
      BY <1>8, <2>4, <3>2
    <3> QED BY <1>6, <2>2, <3>1, <3>2, <3>3
  <2>5. CASE a \notin ledger /\ a[2][2] > 0
    BY <1>9, <1>11, <2>5
  <2>6. CASE a[2][2] = 0
    BY <1>6, <2>2, <2>3, <2>6
  <2>7. a[2][2] \in Nat
    <3>1. TypeOK'
      BY TypeHandled
    <3> QED BY <1>11, <3>1 DEF TypeOK, Entries
  <2> QED BY <2>4, <2>5, <2>6, <2>7
<1> QED BY <1>10, <1>11 DEF OneIsPaid

LEMMA TimersHandled ==
  ASSUME TypeOK, RoundsAreSound, OneIsFed, PlanIsLast, TimersAreOlder,
         NEW w \in Workers, Takes(w)
  PROVE  TimersAreOlder'
<1> SUFFICES ASSUME Troubles' = 0 PROVE TimersAreOlder'
  BY DEF TimersAreOlder
<1> DEFINE q == queue[w]
           item == Head(queue[w])
           who == item.who
           id == budget.rounds + 1
           s == Loaded(w)
<1>1. q # << >> /\ item \in Items
  BY HandleEnds
<1>2. PICK e : Outcome(w, e) /\ Due(w, e) /\ Handled(s, e, who, id)
  BY HandleEnds
<1>3. Troubles = 0 /\ e.ok
  BY <1>2, OutcomeBudget
<1>4. budget.reloads = 0 /\ budget.erasures = 0
  BY <1>3 DEF Troubles, TypeOK
<1>5. Undisturbed
  BY <1>4 DEF Undisturbed, OneIsFed
<1>6. w = newest /\ newest' = newest /\ stored' = e.stored /\ Take(w)
  BY <1>1, <1>2, <1>4, OnlyNewest DEF Outcome
<1>7. s.mem = stored /\ s.stored = stored /\ s.job = job
  BY <1>5, <1>6, MemoryIsStored, LoadedState
<1>8. /\ Len(queue'[w]) = Len(q) - 1 /\ Len(q) \in Nat /\ Len(q) >= 1
      /\ \A i \in 1 .. Len(q) - 1 : queue'[w][i] = q[i + 1]
      /\ item = q[1] /\ queue' \in [Workers -> Seq(Items)]
  BY <1>1, <1>6, TakeFacts
<1>9. \A i \in 1 .. Len(queue'[w]) : i + 1 \in 1 .. Len(q) /\ queue'[w][i] = q[i + 1]
  BY <1>8
<1>10. budget.rounds \in Nat /\ budget.rounds <= budget'.rounds /\ budget'.rounds \in Nat
  <2>1. budget.rounds \in Nat
    BY DEF TypeOK
  <2>2. budget'.rounds = budget.rounds + 1 \/ budget'.rounds = budget.rounds
    BY <1>2, OutcomeBudget
  <2> QED BY <2>1, <2>2
<1>11. /\ \A i \in 1 .. Len(q) : q[i] \in Items
       /\ \A i \in 1 .. Len(q) : q[i].kind = "timer" => q[i].round \in Nat /\ q[i].seq \in Nat
  <2>1. q \in Seq(Items)
    BY DEF TypeOK
  <2>2. \A i \in 1 .. Len(q) : q[i] \in Items
    BY <2>1, ElementOfSeq
  <2> QED BY <2>2 DEF Items
<1>12. /\ \A i \in 1 .. Len(q) : q[i].kind = "timer" => q[i].round <= budget.rounds
       /\ stored # NoRound =>
             /\ job.round = stored.id /\ job.seq = stored.seq
             /\ job.sent => \E i \in 1 .. Len(q) : q[i] = Timer(job)
             /\ \A i \in 1 .. Len(q) :
                   q[i].kind = "timer" /\ q[i].round = stored.id =>
                      /\ q[i].seq <= stored.seq
                      /\ q[i].seq = stored.seq => job.sent
             /\ \A i, j \in 1 .. Len(q) :
                   /\ q[i].kind = "timer" /\ q[i].round = stored.id /\ q[i].seq = stored.seq
                   /\ q[j].kind = "timer" /\ q[j].round = stored.id /\ q[j].seq = stored.seq
                   => i = j
  BY <1>3, <1>6 DEF TimersAreOlder
<1>13. job' = IF item.kind = "timer" /\ e.job = Attempt(item) THEN NoJob ELSE e.job
  BY <1>2, <1>3 DEF Outcome
<1>14. e.stored # NoRound =>
          /\ e.stored \in Rounds
          /\ \/ stored # NoRound /\ e.stored.id = stored.id
             \/ /\ stored = NoRound /\ e.stored.id = id
                /\ Moves(s, e, who, id)
  BY <1>2, <1>5, <1>6, RoundGoesOn
<1> HIDE DEF s, id, who, item, q
<1>15. ASSUME NEW i \in 1 .. Len(queue'[w]), queue'[w][i].kind = "timer"
       PROVE  queue'[w][i].round <= budget'.rounds
  <2>1. i + 1 \in 1 .. Len(q) /\ queue'[w][i] = q[i + 1]
    BY <1>9
  <2>2. q[i + 1].round <= budget.rounds /\ q[i + 1].round \in Nat
    BY <1>11, <1>12, <1>15, <2>1
  <2> QED BY <1>10, <2>1, <2>2
<1>16. job'.round <= budget'.rounds
  <2>1. job.round <= budget.rounds /\ job.round \in Nat
    BY <1>3 DEF TimersAreOlder, TypeOK, Jobs
  <2>2. job' \in {NoJob, e.job} /\ NoJob.round = 0
    BY <1>13 DEF NoJob
  <2>3. CASE Stays(s, e, who) \/ Marks(s, e, who)
    BY <1>7, <1>10, <2>1, <2>2, <2>3 DEF Stays, Marks
  <2>4. CASE Over(s, e)
    BY <1>3, <1>10, <2>2, <2>4 DEF Over
  <2>5. CASE Moves(s, e, who, id)
    <3>1. e.stored # NoRound /\ e.stored # Unloaded /\ e.job.round = e.stored.id
      BY <1>3, <1>6, <1>14, <2>5, RoundsAreNotBlank DEF Moves, JobOf
    <3>2. e.stored \in RoundsInUse'
      BY <1>6, <3>1 DEF RoundsInUse
    <3>3. e.stored.id <= budget'.rounds
      BY <3>2, SoundHandled DEF RoundsAreSound
    <3> QED BY <1>10, <2>2, <3>1, <3>3
  <2> QED BY <1>2, <2>3, <2>4, <2>5 DEF Handled
<1>19. CASE stored' = NoRound
  BY <1>6, <1>15, <1>16, <1>19 DEF TimersAreOlder
<1>17. CASE stored' # NoRound /\ Moves(s, e, who, id)
  <2>1. e.job = JobOf(e.stored) /\ e.stored \in Rounds
    BY <1>3, <1>6, <1>14, <1>17 DEF Moves
  <2>2. e.job # Attempt(item)
    BY <2>1 DEF JobOf, Attempt
  <2>3. job' = JobOf(e.stored)
    BY <1>13, <2>1, <2>2
  <2>4. job'.round = stored'.id /\ job'.seq = stored'.seq /\ ~job'.sent
    BY <1>6, <2>3 DEF JobOf
  <2>5. ASSUME NEW i \in 1 .. Len(queue'[w]), queue'[w][i].kind = "timer",
               queue'[w][i].round = stored'.id
        PROVE  queue'[w][i].seq < stored'.seq /\ queue'[w][i].seq \in Nat /\ stored'.seq \in Nat
    <3>1. i + 1 \in 1 .. Len(q) /\ queue'[w][i] = q[i + 1]
      BY <1>9
    <3>2. q[i + 1].round <= budget.rounds /\ q[i + 1].round \in Nat /\ q[i + 1].seq \in Nat
      BY <1>11, <1>12, <2>5, <3>1
    <3>3. stored # NoRound
      BY <1>6, <1>10, <1>14, <1>17, <2>5, <3>1, <3>2 DEF id
    <3>4. e.stored.id = stored.id /\ e.stored.seq = stored.seq + 1
      BY <1>7, <1>17, <3>3 DEF Moves, Follows
    <3>5. q[i + 1].seq <= stored.seq
      BY <1>6, <1>12, <2>5, <3>1, <3>3, <3>4
    <3>6. stored.seq \in Nat
      BY <3>3, Shape DEF TypeOK
    <3> QED BY <1>6, <3>1, <3>2, <3>4, <3>5, <3>6
  <2>6. \A i \in 1 .. Len(queue'[w]) :
           queue'[w][i].kind = "timer" /\ queue'[w][i].round = stored'.id =>
              /\ queue'[w][i].seq <= stored'.seq
              /\ queue'[w][i].seq # stored'.seq
    BY <2>5
  <2> QED BY <1>6, <1>15, <1>16, <1>17, <2>4, <2>6 DEF TimersAreOlder
<1>18. CASE stored' # NoRound /\ ~Moves(s, e, who, id)
  <2>1. stored # NoRound /\ stored'.id = stored.id /\ stored'.seq = stored.seq /\ e.job = job
    <3>1. ~Over(s, e)
      BY <1>6, <1>18 DEF Over
    <3>2. CASE Stays(s, e, who)
      BY <1>6, <1>7, <1>18, <3>2 DEF Stays
    <3>3. CASE Marks(s, e, who)
      BY <1>6, <1>7, <1>18, <3>3 DEF Marks
    <3> QED BY <1>2, <1>18, <3>1, <3>2, <3>3 DEF Handled
  <2>2. item.kind = "timer" => job # Attempt(item)
    <3> SUFFICES ASSUME item.kind = "timer", job = Attempt(item) PROVE FALSE
      OBVIOUS
    <3>1. job.seq = item.seq /\ stored.seq = item.seq
      BY <1>12, <2>1 DEF Attempt
    <3>2. Moves(s, e, who, id) \/ Over(s, e)
      BY <1>2, <1>3, <1>7, <2>1, <3>1 DEF Due, s, item, who, id
    <3> QED BY <1>6, <1>18, <3>2 DEF Over
  <2>3. job' = job
    BY <1>13, <2>1, <2>2
  <2>4. job.sent => \E i \in 1 .. Len(queue'[w]) : queue'[w][i] = Timer(job)
    <3> SUFFICES ASSUME job.sent PROVE \E i \in 1 .. Len(queue'[w]) : queue'[w][i] = Timer(job)
      OBVIOUS
    <3>1. PICK i \in 1 .. Len(q) : q[i] = Timer(job)
      BY <1>12, <2>1
    <3>2. i # 1
      <4> SUFFICES ASSUME i = 1 PROVE FALSE
        OBVIOUS
      <4>1. item = Timer(job)
        BY <1>8, <3>1
      <4>2. item.kind = "timer" /\ item.round = job.round /\ item.seq = job.seq
        BY <4>1 DEF Timer
      <4>3. job = [round |-> job.round, seq |-> job.seq, sent |-> TRUE]
        BY DEF TypeOK, Jobs
      <4> QED BY <2>2, <4>2, <4>3 DEF Attempt
    <3> DEFINE k == i - 1
    <3>3. k \in 1 .. Len(queue'[w]) /\ k + 1 = i
      BY <1>8, <3>1, <3>2
    <3> HIDE DEF k
    <3> QED BY <1>9, <3>1, <3>3
  <2>5. \A i \in 1 .. Len(queue'[w]) :
           queue'[w][i].kind = "timer" /\ queue'[w][i].round = stored'.id =>
              /\ queue'[w][i].seq <= stored'.seq
              /\ queue'[w][i].seq = stored'.seq => job'.sent
    BY <1>9, <1>12, <2>1, <2>3
  <2>6. ASSUME NEW i \in 1 .. Len(queue'[w]), NEW j \in 1 .. Len(queue'[w]),
               queue'[w][i].kind = "timer", queue'[w][i].round = stored'.id,
               queue'[w][i].seq = stored'.seq,
               queue'[w][j].kind = "timer", queue'[w][j].round = stored'.id,
               queue'[w][j].seq = stored'.seq
        PROVE  i = j
    <3>1. /\ i + 1 \in 1 .. Len(q) /\ queue'[w][i] = q[i + 1]
          /\ j + 1 \in 1 .. Len(q) /\ queue'[w][j] = q[j + 1]
      BY <1>9
    <3>2. i + 1 = j + 1
      BY <1>12, <2>1, <2>6, <3>1
    <3> QED BY <3>2
  <2>7. job'.round = stored'.id /\ job'.seq = stored'.seq
    BY <1>12, <2>1, <2>3
  <2> QED BY <1>6, <1>15, <1>16, <1>18, <2>3, <2>4, <2>5, <2>6, <2>7 DEF TimersAreOlder
<1> QED BY <1>17, <1>18, <1>19

-----------------------------------------------------------------------------
(* The other steps.                                                        *)

LEMMA SoundKept ==
  ASSUME RoundsAreSound, RoundsInUse' \subseteq RoundsInUse, ledger' = ledger,
         budget'.rounds = budget.rounds
  PROVE  RoundsAreSound'
BY DEF RoundsAreSound

LEMMA MoneyKept ==
  ASSUME BonusIsLast, OneIsPaid, stored' = stored, ledger' = ledger,
         budget'.reloads = 0 => budget.reloads = 0,
         budget'.erasures = 0 => budget.erasures = 0,
         Troubles' = 0 => Troubles = 0
  PROVE  BonusIsLast' /\ OneIsPaid'
<1>1. BonusIsLast'
  BY DEF BonusIsLast
<1>2. OneIsPaid'
  BY DEF OneIsPaid
<1> QED BY <1>1, <1>2

\* Only reloads, erasures and failures are counted as troubles.
LEMMA SameTroubles ==
  ASSUME budget'.faults = budget.faults, budget'.reloads = budget.reloads,
         budget'.erasures = budget.erasures
  PROVE  Troubles' = Troubles
BY DEF Troubles

LEMMA DeleteStep ==
  ASSUME IInv, NEW w \in Workers, HandleDelete(w)
  PROVE  IInv'
<1>1. /\ queue[w] # << >> /\ Head(queue[w]).kind = "delete" /\ Take(w)
      /\ mirror' = [mirror EXCEPT ![w] = Unloaded]
      /\ erasure' = [erasure EXCEPT !.stage = "planned"]
      /\ stored' = stored /\ newest' = newest /\ job' = job /\ career' = career
      /\ ledger' = ledger /\ budget' = budget
  BY DEF HandleDelete, Heads
<1>2. TypeOK
  BY DEF IInv
<1>3. /\ queue' \in [Workers -> Seq(Items)]
      /\ \A u \in Workers \ {w} : queue'[u] = queue[u]
      /\ Len(queue'[w]) = Len(queue[w]) - 1 /\ Len(queue[w]) \in Nat /\ Len(queue[w]) >= 1
      /\ \A i \in 1 .. Len(queue[w]) - 1 : queue'[w][i] = queue[w][i + 1]
      /\ Head(queue[w]) = queue[w][1]
  BY <1>1, <1>2, TakeFacts
<1>4. /\ erasure'.stage = "planned" /\ erasure'.who = erasure.who /\ erasure'.row = erasure.row
      /\ erasure'.career = erasure.career /\ erasure'.quiet = erasure.quiet
  BY <1>1, <1>2 DEF TypeOK
<1>5. erasure.stage # "none"
  BY <1>1, <1>3 DEF IInv, OneIsFed
<1>6. TypeOK'
  <2>1. \A u \in Workers : Len(queue'[u]) <= QueueCap
    <3>1. QueueCap \in Nat /\ \A u \in Workers : Len(queue[u]) <= QueueCap
      BY <1>2, TriviaAssumption DEF TypeOK
    <3>2. Len(queue'[w]) <= QueueCap
      BY <1>3, <3>1
    <3> QED BY <1>3, <3>1, <3>2
  <2>2. mirror' \in [Workers -> Rounds \cup {NoRound, Unloaded}]
    BY <1>1, <1>2 DEF TypeOK
  <2>3. erasure' \in [stage : {"none", "asked", "planned", "applied"},
                      who : People \cup {Nobody}, row : Rounds \cup {NoRound},
                      career : BOOLEAN, quiet : BOOLEAN]
    BY <1>1, <1>2 DEF TypeOK
  <2> QED BY <1>1, <1>2, <1>3, <2>1, <2>2, <2>3 DEF TypeOK, Workers
<1>7. RoundsAreSound'
  <2>1. \A u \in Workers : mirror'[u] \in {mirror[u], Unloaded}
    BY <1>1, <1>2 DEF TypeOK
  <2>2. RoundsInUse' \subseteq RoundsInUse
    BY <1>1, <1>4, <2>1 DEF RoundsInUse, Workers
  <2> QED BY <1>1, <2>2, SoundKept DEF IInv
<1>8. OneIsFed'
  <2>1. ASSUME NEW u \in Workers, u > newest
        PROVE  queue'[u] = << >> /\ mirror'[u] = Unloaded
    BY <1>1, <1>2, <1>3, <2>1 DEF IInv, OneIsFed, TypeOK
  <2>2. erasure'.stage # "none" /\ erasure'.who \in People /\ budget'.erasures # 0
    BY <1>1, <1>4, <1>5 DEF IInv, OneIsFed
  <2> QED BY <1>1, <2>1, <2>2 DEF IInv, OneIsFed, Workers
<1>9. ASSUME Undisturbed
      PROVE  w = newest /\ Len(queue'[w]) = 0 /\ erasure.stage = "asked"
  <2>1. w = newest
    BY <1>1, <1>2, <1>9, OnlyNewest DEF IInv, Undisturbed
  <2>2. 1 \in 1 .. Len(queue[w]) /\ queue[w][1].kind = "delete"
    BY <1>1, <1>3
  <2>3. \A i \in 1 .. Len(queue[newest]) :
           queue[newest][i].kind = "delete" => erasure.stage = "asked" /\ i = Len(queue[newest])
    BY <1>9 DEF IInv, PlanIsLast
  <2>4. erasure.stage = "asked" /\ 1 = Len(queue[w])
    BY <2>1, <2>2, <2>3
  <2> QED BY <1>3, <2>1, <2>4
<1>10. PlanIsLast'
  <2> SUFFICES ASSUME Undisturbed' PROVE PlanIsLast'
    BY DEF PlanIsLast
  <2>1. Undisturbed
    BY <1>1 DEF Undisturbed
  <2>2. mirror'[newest] = Unloaded
    BY <1>1, <1>2, <1>9, <2>1 DEF TypeOK
  <2> QED BY <1>1, <1>4, <1>9, <2>1, <2>2 DEF PlanIsLast
<1>11. PlanIsComplete'
  <2> SUFFICES ASSUME Undisturbed', erasure'.quiet PROVE PlanIsComplete'
    BY DEF PlanIsComplete
  <2>1. Undisturbed /\ erasure.quiet
    BY <1>1, <1>4 DEF Undisturbed
  <2>2. erasure.row = stored /\ (career[erasure.who] # NoCareer => erasure.career)
    BY <1>9, <2>1 DEF IInv, PlanIsComplete
  <2> QED BY <1>1, <1>4, <2>2 DEF PlanIsComplete
<1>12. BonusIsLast' /\ OneIsPaid'
  BY <1>1, SameTroubles, MoneyKept DEF IInv
<1>13. TimersAreOlder'
  <2>1. Troubles' # 0
    <3>1. budget.erasures # 0 /\ Troubles' = Troubles
      BY <1>1, <1>5, SameTroubles DEF IInv, OneIsFed
    <3> QED BY <1>2, <3>1 DEF Troubles, TypeOK
  <2> QED BY <2>1 DEF TimersAreOlder
<1> QED BY <1>6, <1>7, <1>8, <1>10, <1>11, <1>12, <1>13 DEF IInv

LEMMA PutFacts ==
  ASSUME TypeOK, NEW w \in Workers, NEW item \in Items, Put(w, item)
  PROVE  /\ queue' \in [Workers -> Seq(Items)] /\ \A u \in Workers : Len(queue'[u]) <= QueueCap
         /\ \A u \in Workers \ {w} : queue'[u] = queue[u]
         /\ Len(queue'[w]) = Len(queue[w]) + 1 /\ Len(queue[w]) \in Nat
         /\ \A i \in 1 .. Len(queue[w]) : queue'[w][i] = queue[w][i]
         /\ queue'[w][Len(queue[w]) + 1] = item
<1>1. /\ queue \in [Workers -> Seq(Items)] /\ queue[w] \in Seq(Items)
      /\ \A u \in Workers : Len(queue[u]) <= QueueCap
      /\ QueueCap \in Nat /\ Len(queue[w]) < QueueCap
  BY TriviaAssumption DEF TypeOK, Put, Room
<1>2. /\ Append(queue[w], item) \in Seq(Items)
      /\ Len(Append(queue[w], item)) = Len(queue[w]) + 1 /\ Len(queue[w]) \in Nat
      /\ \A i \in 1 .. Len(queue[w]) : Append(queue[w], item)[i] = queue[w][i]
      /\ Append(queue[w], item)[Len(queue[w]) + 1] = item
  BY <1>1, AppendOf
<1>3. /\ queue' \in [Workers -> Seq(Items)] /\ queue'[w] = Append(queue[w], item)
      /\ \A u \in Workers \ {w} : queue'[u] = queue[u]
  BY <1>1, <1>2 DEF Put
<1>4. Len(queue'[w]) <= QueueCap
  BY <1>1, <1>2, <1>3
<1>5. \A u \in Workers : Len(queue'[u]) <= QueueCap
  BY <1>1, <1>3, <1>4
<1> QED BY <1>2, <1>3, <1>5

\* What the request of a person, or the timer, leaves as it was.
LEMMA PutKeeps ==
  ASSUME IInv, NEW item \in Items, Put(newest, item), item.kind # "delete",
         stored' = stored, mirror' = mirror, newest' = newest, career' = career,
         ledger' = ledger, erasure' = erasure,
         budget'.rounds = budget.rounds, budget'.reloads = budget.reloads,
         budget'.erasures = budget.erasures,
         \/ erasure.stage \notin {"asked", "planned"} /\ budget'.captured = budget.captured
         \/ erasure.stage # "none" /\ budget'.captured,
         erasure.stage = "applied" => item.who # erasure.who
  PROVE  OneIsFed' /\ PlanIsLast' /\ PlanIsComplete'
<1>1. TypeOK /\ newest \in Workers
  BY DEF IInv, TypeOK
<1>2. /\ \A u \in Workers \ {newest} : queue'[u] = queue[u]
      /\ Len(queue'[newest]) = Len(queue[newest]) + 1 /\ Len(queue[newest]) \in Nat
      /\ \A i \in 1 .. Len(queue[newest]) : queue'[newest][i] = queue[newest][i]
      /\ queue'[newest][Len(queue[newest]) + 1] = item
  BY <1>1, PutFacts
<1>3. \A i \in 1 .. Len(queue'[newest]) : i \in 1 .. Len(queue[newest]) \/ queue'[newest][i] = item
  BY <1>2
<1>4. OneIsFed'
  <2>1. ASSUME NEW u \in Workers, u > newest
        PROVE  queue'[u] = << >> /\ mirror'[u] = Unloaded
    <3>1. newest \in Int
      BY <1>1 DEF Workers
    <3>2. u # newest
      BY <2>1, <3>1
    <3> QED BY <1>2, <2>1, <3>2 DEF IInv, OneIsFed
  <2>2. ASSUME NEW u \in Workers, NEW i \in 1 .. Len(queue'[u]), queue'[u][i].kind = "delete"
        PROVE  erasure'.stage # "none"
    <3>1. CASE u = newest
      <4>1. i \in 1 .. Len(queue[newest]) /\ queue[newest][i].kind = "delete"
        BY <1>2, <1>3, <2>2, <3>1
      <4> QED BY <1>1, <4>1 DEF IInv, OneIsFed
    <3>2. CASE u # newest
      BY <1>2, <2>2, <3>2 DEF IInv, OneIsFed
    <3> QED BY <3>1, <3>2
  <2>3. erasure'.stage = "none" => ~budget'.captured
    BY DEF IInv, OneIsFed
  <2> QED BY <2>1, <2>2, <2>3 DEF IInv, OneIsFed, Workers
<1>5. ASSUME Undisturbed'
      PROVE  Undisturbed /\ erasure.stage \notin {"asked", "planned"}
  BY <1>5 DEF Undisturbed
<1>6. PlanIsLast'
  <2> SUFFICES ASSUME Undisturbed' PROVE PlanIsLast'
    BY DEF PlanIsLast
  <2>1. /\ mirror[newest] \in {Unloaded, stored}
        /\ \A i \in 1 .. Len(queue[newest]) : queue[newest][i].kind # "delete"
    BY <1>5 DEF IInv, PlanIsLast
  <2>2. \A i \in 1 .. Len(queue'[newest]) : queue'[newest][i].kind # "delete"
    BY <1>2, <1>3, <2>1
  <2> QED BY <1>5, <2>1, <2>2 DEF PlanIsLast
<1>7. PlanIsComplete'
  <2> SUFFICES ASSUME Undisturbed', erasure'.quiet PROVE PlanIsComplete'
    BY DEF PlanIsComplete
  <2>1. erasure.stage = "applied" =>
           /\ career[erasure.who] = NoCareer
           /\ stored # NoRound => Clean(stored, erasure.who)
           /\ \A i \in 1 .. Len(queue[newest]) : queue[newest][i].who # erasure.who
    BY <1>5 DEF IInv, PlanIsComplete
  <2>2. erasure.stage = "applied" =>
           \A i \in 1 .. Len(queue'[newest]) : queue'[newest][i].who # erasure.who
    BY <1>2, <1>3, <2>1
  <2> QED BY <1>5, <2>1, <2>2 DEF PlanIsComplete
<1> QED BY <1>4, <1>6, <1>7

LEMMA ArriveStep ==
  ASSUME IInv, NEW p \in People, NEW item \in Inputs(p), NEW captured \in BOOLEAN,
         Arrive(p, item, captured), captured <=> ~Feeding
  PROVE  IInv'
<1>1. TypeOK /\ newest \in Workers
  BY DEF IInv, TypeOK
<1>2. /\ ~Erased(p) /\ Put(newest, item)
      /\ budget' = [budget EXCEPT !.inputs = @ + 1, !.captured = @ \/ captured]
      /\ stored' = stored /\ mirror' = mirror /\ newest' = newest /\ job' = job
      /\ career' = career /\ ledger' = ledger /\ erasure' = erasure
  BY DEF Arrive
<1>3. item \in Items /\ item.kind \in {"line", "start", "stop"} /\ item.who = p
  BY DEF Inputs, Items, Line, Command
<1>4. /\ budget'.rounds = budget.rounds /\ budget'.faults = budget.faults
      /\ budget'.reloads = budget.reloads /\ budget'.erasures = budget.erasures
      /\ budget'.inputs \in Nat
      /\ budget' \in [rounds : Nat, inputs : Nat, faults : Nat, reloads : Nat,
                      erasures : Nat, captured : BOOLEAN]
  <2>1. budget \in [rounds : Nat, inputs : Nat, faults : Nat, reloads : Nat,
                    erasures : Nat, captured : BOOLEAN]
    BY <1>1 DEF TypeOK
  <2> DEFINE n == budget.inputs + 1
             c == budget.captured \/ captured
  <2>2. n \in Nat /\ c \in BOOLEAN
    BY <2>1
  <2>3. budget' = [budget EXCEPT !.inputs = n, !.captured = c]
    BY <1>2, <2>1
  <2> HIDE DEF n, c
  <2> QED BY <2>1, <2>2, <2>3
<1>5. /\ ~captured => budget'.captured = budget.captured
      /\ captured => budget'.captured
  BY <1>1, <1>2 DEF TypeOK
<1>6. /\ queue' \in [Workers -> Seq(Items)] /\ \A u \in Workers : Len(queue'[u]) <= QueueCap
      /\ Len(queue'[newest]) = Len(queue[newest]) + 1 /\ Len(queue[newest]) \in Nat
      /\ \A i \in 1 .. Len(queue[newest]) : queue'[newest][i] = queue[newest][i]
      /\ queue'[newest][Len(queue[newest]) + 1] = item
  BY <1>1, <1>2, <1>3, PutFacts
<1>7. TypeOK'
  BY <1>1, <1>2, <1>4, <1>6 DEF TypeOK, Workers
<1>8. RoundsAreSound'
  <2>1. RoundsInUse' \subseteq RoundsInUse
    BY <1>2 DEF RoundsInUse, Workers
  <2> QED BY <1>2, <1>4, <2>1, SoundKept DEF IInv
<1>9. OneIsFed' /\ PlanIsLast' /\ PlanIsComplete'
  <2>1. erasure.stage = "applied" => item.who # erasure.who
    BY <1>2, <1>3 DEF Erased
  <2>2. \/ erasure.stage \notin {"asked", "planned"} /\ budget'.captured = budget.captured
        \/ erasure.stage # "none" /\ budget'.captured
    BY <1>5 DEF Feeding
  <2> QED BY <1>2, <1>3, <1>4, <2>1, <2>2, PutKeeps
<1>10. Troubles' = Troubles
  BY <1>4, SameTroubles
<1>11. BonusIsLast' /\ OneIsPaid'
  BY <1>2, <1>4, <1>10, MoneyKept DEF IInv
<1>12. TimersAreOlder'
  <2> SUFFICES ASSUME Troubles' = 0 PROVE TimersAreOlder'
    BY DEF TimersAreOlder
  <2>1. /\ job.round <= budget.rounds
        /\ \A i \in 1 .. Len(queue[newest]) :
              queue[newest][i].kind = "timer" => queue[newest][i].round <= budget.rounds
    BY <1>10 DEF IInv, TimersAreOlder
  <2>2. \A i \in 1 .. Len(queue'[newest]) :
           queue'[newest][i].kind = "timer" =>
              i \in 1 .. Len(queue[newest]) /\ queue'[newest][i] = queue[newest][i]
    BY <1>3, <1>6
  <2>3. ASSUME stored # NoRound, job.sent
        PROVE  \E i \in 1 .. Len(queue'[newest]) : queue'[newest][i] = Timer(job)
    <3>1. PICK i \in 1 .. Len(queue[newest]) : queue[newest][i] = Timer(job)
      BY <1>10, <2>3 DEF IInv, TimersAreOlder
    <3> QED BY <1>6, <3>1
  <2>4. ASSUME stored # NoRound
        PROVE  /\ job.round = stored.id /\ job.seq = stored.seq
               /\ \A i \in 1 .. Len(queue[newest]) :
                     queue[newest][i].kind = "timer" /\ queue[newest][i].round = stored.id =>
                        /\ queue[newest][i].seq <= stored.seq
                        /\ queue[newest][i].seq = stored.seq => job.sent
               /\ \A i, j \in 1 .. Len(queue[newest]) :
                     /\ queue[newest][i].kind = "timer" /\ queue[newest][i].round = stored.id
                     /\ queue[newest][i].seq = stored.seq
                     /\ queue[newest][j].kind = "timer" /\ queue[newest][j].round = stored.id
                     /\ queue[newest][j].seq = stored.seq
                     => i = j
    BY <1>10, <2>4 DEF IInv, TimersAreOlder
  <2>5. \A i \in 1 .. Len(queue'[newest]) :
           queue'[newest][i].kind = "timer" => queue'[newest][i].round <= budget.rounds
    BY <2>1, <2>2
  <2>6. ASSUME stored # NoRound
        PROVE  /\ \A i \in 1 .. Len(queue'[newest]) :
                     queue'[newest][i].kind = "timer" /\ queue'[newest][i].round = stored.id =>
                        /\ queue'[newest][i].seq <= stored.seq
                        /\ queue'[newest][i].seq = stored.seq => job.sent
               /\ \A i, j \in 1 .. Len(queue'[newest]) :
                     /\ queue'[newest][i].kind = "timer" /\ queue'[newest][i].round = stored.id
                     /\ queue'[newest][i].seq = stored.seq
                     /\ queue'[newest][j].kind = "timer" /\ queue'[newest][j].round = stored.id
                     /\ queue'[newest][j].seq = stored.seq
                     => i = j
    BY <2>2, <2>4, <2>6
  <2> QED BY <1>2, <1>4, <2>1, <2>3, <2>4, <2>5, <2>6 DEF TimersAreOlder
<1> QED BY <1>7, <1>8, <1>9, <1>11, <1>12 DEF IInv

LEMMA FireStep ==
  ASSUME IInv, Fire
  PROVE  IInv'
<1> DEFINE item == Timer(job)
           q == queue[newest]
<1>1. TypeOK /\ newest \in Workers
  BY DEF IInv, TypeOK
<1>2. /\ Feeding /\ ~job.sent /\ Put(newest, item) /\ job' = Sent(job)
      /\ stored' = stored /\ mirror' = mirror /\ newest' = newest
      /\ career' = career /\ ledger' = ledger /\ erasure' = erasure /\ budget' = budget
  BY DEF Fire
<1>3. /\ job \in Jobs /\ job' \in Jobs /\ job'.round = job.round /\ job'.seq = job.seq
      /\ job'.sent = TRUE
  BY <1>1, <1>2 DEF TypeOK, Jobs, Sent
<1>4. /\ item \in Items /\ item.kind = "timer" /\ item.who = Nobody
      /\ item.round = job.round /\ item.seq = job.seq
  BY <1>3 DEF Timer, Items, Jobs
<1>5. item = Timer(job')
  BY <1>3 DEF Timer
<1> HIDE DEF item
<1>6. /\ queue' \in [Workers -> Seq(Items)] /\ \A u \in Workers : Len(queue'[u]) <= QueueCap
      /\ Len(queue'[newest]) = Len(q) + 1 /\ Len(q) \in Nat
      /\ \A i \in 1 .. Len(q) : queue'[newest][i] = q[i]
      /\ queue'[newest][Len(q) + 1] = item
  BY <1>1, <1>2, <1>4, PutFacts
<1>7. TypeOK'
  BY <1>1, <1>2, <1>3, <1>6 DEF TypeOK, Workers
<1>8. RoundsAreSound'
  <2>1. RoundsInUse' \subseteq RoundsInUse
    BY <1>2 DEF RoundsInUse, Workers
  <2> QED BY <1>2, <2>1, SoundKept DEF IInv
<1>9. OneIsFed' /\ PlanIsLast' /\ PlanIsComplete'
  <2>1. erasure.stage = "applied" => item.who # erasure.who
    BY <1>4, TriviaAssumption DEF IInv, OneIsFed
  <2>2. erasure.stage \notin {"asked", "planned"}
    BY <1>2 DEF Feeding
  <2> QED BY <1>2, <1>4, <2>1, <2>2, PutKeeps
<1>10. Troubles' = Troubles
  BY <1>2, SameTroubles
<1>11. BonusIsLast' /\ OneIsPaid'
  BY <1>2, <1>10, MoneyKept DEF IInv
<1>12. TimersAreOlder'
  <2> SUFFICES ASSUME Troubles' = 0 PROVE TimersAreOlder'
    BY DEF TimersAreOlder
  <2>1. /\ job.round <= budget.rounds
        /\ \A i \in 1 .. Len(q) : q[i].kind = "timer" => q[i].round <= budget.rounds
    BY <1>10 DEF IInv, TimersAreOlder
  <2>2. \A i \in 1 .. Len(queue'[newest]) :
           \/ i \in 1 .. Len(q) /\ queue'[newest][i] = q[i]
           \/ i = Len(q) + 1 /\ queue'[newest][i] = item
    BY <1>6
  <2>3. \A i \in 1 .. Len(queue'[newest]) :
           queue'[newest][i].kind = "timer" => queue'[newest][i].round <= budget.rounds
    BY <1>4, <2>1, <2>2
  <2>4. \E i \in 1 .. Len(queue'[newest]) : queue'[newest][i] = Timer(job')
    <3>1. PICK n \in Nat : n = Len(q)
      BY <1>6
    <3>2. n + 1 \in 1 .. Len(queue'[newest]) /\ queue'[newest][n + 1] = item
      BY <1>6, <3>1
    <3> QED BY <1>5, <3>2
  <2>5. ASSUME stored # NoRound
        PROVE  /\ job.round = stored.id /\ job.seq = stored.seq
               /\ \A i \in 1 .. Len(q) :
                     q[i].kind = "timer" /\ q[i].round = stored.id =>
                        q[i].seq <= stored.seq /\ q[i].seq # stored.seq
    BY <1>2, <1>10, <2>5 DEF IInv, TimersAreOlder
  <2>6. ASSUME stored # NoRound
        PROVE  \A i \in 1 .. Len(queue'[newest]) :
                  queue'[newest][i].kind = "timer" /\ queue'[newest][i].round = stored.id =>
                     /\ queue'[newest][i].seq <= stored.seq
                     /\ queue'[newest][i].seq = stored.seq => i = Len(q) + 1
    <3>1. job.seq \in Int
      BY <1>3 DEF Jobs
    <3> QED BY <1>4, <2>2, <2>5, <2>6, <3>1
  <2> QED BY <1>2, <1>3, <2>1, <2>3, <2>4, <2>5, <2>6 DEF TimersAreOlder
<1> QED BY <1>7, <1>8, <1>9, <1>11, <1>12 DEF IInv

LEMMA ReloadStep ==
  ASSUME IInv, Reload
  PROVE  IInv'
<1>1. TypeOK /\ newest \in Workers
  BY DEF IInv, TypeOK
<1>2. /\ newest' = newest + 1 /\ budget.reloads < MaxReloads
      /\ budget' = [budget EXCEPT !.reloads = @ + 1]
      /\ stored' = stored /\ mirror' = mirror /\ queue' = queue /\ job' = job
      /\ career' = career /\ ledger' = ledger /\ erasure' = erasure
  BY DEF Reload
<1>3. /\ budget.reloads \in Nat /\ budget.faults \in Nat /\ budget.erasures \in Nat
      /\ budget'.rounds = budget.rounds /\ budget'.faults = budget.faults
      /\ budget'.reloads = budget.reloads + 1 /\ budget'.erasures = budget.erasures
      /\ budget'.captured = budget.captured
      /\ budget' \in [rounds : Nat, inputs : Nat, faults : Nat, reloads : Nat,
                      erasures : Nat, captured : BOOLEAN]
  <2> DEFINE n == budget.reloads + 1
  <2>1. budget \in [rounds : Nat, inputs : Nat, faults : Nat, reloads : Nat,
                    erasures : Nat, captured : BOOLEAN]
    BY <1>1 DEF TypeOK
  <2>2. n \in Nat /\ budget' = [budget EXCEPT !.reloads = n]
    BY <1>2, <2>1
  <2> HIDE DEF n
  <2>3. /\ budget'.reloads = n
        /\ budget' \in [rounds : Nat, inputs : Nat, faults : Nat, reloads : Nat,
                        erasures : Nat, captured : BOOLEAN]
    BY <2>1, <2>2
  <2> QED BY <2>1, <2>2, <2>3 DEF n
<1>4. newest = budget.reloads + 1 /\ newest' = budget'.reloads + 1 /\ newest' \in Workers
  <2>1. newest = budget.reloads + 1
    BY DEF IInv, OneIsFed
  <2> QED BY <1>2, <1>3, <2>1, TriviaAssumption DEF Workers
<1>5. TypeOK'
  BY <1>1, <1>2, <1>3, <1>4 DEF TypeOK, Workers
<1>6. RoundsAreSound'
  <2>1. RoundsInUse' \subseteq RoundsInUse
    BY <1>2 DEF RoundsInUse, Workers
  <2> QED BY <1>2, <1>3, <2>1, SoundKept DEF IInv
<1>7. OneIsFed'
  <2>1. ASSUME NEW u \in Workers, u > newest'
        PROVE  queue'[u] = << >> /\ mirror'[u] = Unloaded
    <3>1. u > newest
      BY <1>1, <1>2, <2>1 DEF Workers
    <3> QED BY <1>2, <3>1 DEF IInv, OneIsFed
  <2> QED BY <1>2, <1>3, <1>4, <2>1 DEF IInv, OneIsFed, Workers
<1>8. budget'.reloads # 0 /\ Troubles' # 0
  <2>1. budget'.faults \in Nat /\ budget'.reloads \in Nat \ {0} /\ budget'.erasures \in Nat
    BY <1>3
  <2>2. Troubles' = budget'.faults + budget'.reloads + budget'.erasures
    BY DEF Troubles
  <2> QED BY <2>1, <2>2
<1> QED BY <1>5, <1>6, <1>7, <1>8
        DEF IInv, PlanIsLast, PlanIsComplete, Undisturbed, BonusIsLast, OneIsPaid, TimersAreOlder

LEMMA AskForPlanStep ==
  ASSUME IInv, NEW p \in People, AskForPlan(p)
  PROVE  IInv'
<1> DEFINE item == DataDelete(p)
           q == queue[newest]
<1>1. TypeOK /\ newest \in Workers
  BY DEF IInv, TypeOK
<1>2. /\ erasure.stage = "none" /\ Put(newest, item)
      /\ erasure' = [stage |-> "asked", who |-> p, row |-> stored,
                     career |-> career[p] # NoCareer, quiet |-> q = <<>>]
      /\ budget' = [budget EXCEPT !.erasures = @ + 1]
      /\ stored' = stored /\ mirror' = mirror /\ newest' = newest
      /\ career' = career /\ ledger' = ledger /\ job' = job
  BY DEF AskForPlan
<1>3. item \in Items /\ item.kind = "delete"
  BY DEF DataDelete, Items
<1> HIDE DEF item
<1>4. /\ erasure'.stage = "asked" /\ erasure'.who = p /\ erasure'.row = stored
      /\ erasure'.career = (career[p] # NoCareer) /\ erasure'.quiet = (q = << >>)
  BY <1>2
<1>5. /\ budget.reloads \in Nat /\ budget.faults \in Nat /\ budget.erasures \in Nat
      /\ budget'.rounds = budget.rounds /\ budget'.faults = budget.faults
      /\ budget'.reloads = budget.reloads /\ budget'.erasures = budget.erasures + 1
      /\ budget'.captured = budget.captured
      /\ budget' \in [rounds : Nat, inputs : Nat, faults : Nat, reloads : Nat,
                      erasures : Nat, captured : BOOLEAN]
  <2> DEFINE n == budget.erasures + 1
  <2>1. budget \in [rounds : Nat, inputs : Nat, faults : Nat, reloads : Nat,
                    erasures : Nat, captured : BOOLEAN]
    BY <1>1 DEF TypeOK
  <2>2. n \in Nat /\ budget' = [budget EXCEPT !.erasures = n]
    BY <1>2, <2>1
  <2> HIDE DEF n
  <2>3. /\ budget'.erasures = n
        /\ budget' \in [rounds : Nat, inputs : Nat, faults : Nat, reloads : Nat,
                        erasures : Nat, captured : BOOLEAN]
    BY <2>1, <2>2
  <2> QED BY <2>1, <2>2, <2>3 DEF n
<1>6. /\ queue' \in [Workers -> Seq(Items)] /\ \A u \in Workers : Len(queue'[u]) <= QueueCap
      /\ \A u \in Workers \ {newest} : queue'[u] = queue[u]
      /\ Len(queue'[newest]) = Len(q) + 1 /\ Len(q) \in Nat
      /\ \A i \in 1 .. Len(q) : queue'[newest][i] = q[i]
      /\ queue'[newest][Len(q) + 1] = item
  BY <1>1, <1>2, <1>3, PutFacts
<1>7. TypeOK'
  <2>1. erasure' \in [stage : {"none", "asked", "planned", "applied"},
                      who : People \cup {Nobody}, row : Rounds \cup {NoRound},
                      career : BOOLEAN, quiet : BOOLEAN]
    BY <1>1, <1>2 DEF TypeOK
  <2> QED BY <1>1, <1>2, <1>5, <1>6, <2>1 DEF TypeOK, Workers
<1>8. RoundsAreSound'
  <2>1. RoundsInUse' \subseteq RoundsInUse
    BY <1>2, <1>4 DEF RoundsInUse, Workers
  <2> QED BY <1>2, <1>5, <2>1, SoundKept DEF IInv
<1>9. OneIsFed'
  <2>1. ASSUME NEW u \in Workers, u > newest
        PROVE  queue'[u] = << >> /\ mirror'[u] = Unloaded
    <3>1. newest \in Int
      BY <1>1 DEF Workers
    <3>2. u # newest
      BY <2>1, <3>1
    <3> QED BY <1>2, <1>6, <2>1, <3>2 DEF IInv, OneIsFed
  <2>2. budget'.erasures # 0
    BY <1>5
  <2> QED BY <1>2, <1>4, <1>5, <2>1, <2>2 DEF IInv, OneIsFed, Workers
<1>10. PlanIsLast'
  <2> SUFFICES ASSUME Undisturbed' PROVE PlanIsLast'
    BY DEF PlanIsLast
  <2>1. Undisturbed
    BY <1>5 DEF Undisturbed
  <2>2. /\ mirror[newest] \in {Unloaded, stored}
        /\ \A i \in 1 .. Len(q) : q[i].kind # "delete"
    BY <1>2, <2>1 DEF IInv, PlanIsLast
  <2>3. \A i \in 1 .. Len(queue'[newest]) :
           queue'[newest][i].kind = "delete" => i = Len(queue'[newest])
    BY <1>6, <2>2
  <2>4. Len(queue'[newest]) > 0 /\ queue'[newest][Len(queue'[newest])].kind = "delete"
    BY <1>3, <1>6
  <2> QED BY <1>2, <1>4, <2>2, <2>3, <2>4 DEF PlanIsLast
<1>11. PlanIsComplete'
  <2> SUFFICES ASSUME Undisturbed', erasure'.quiet PROVE PlanIsComplete'
    BY DEF PlanIsComplete
  <2>1. q = << >>
    BY <1>4
  <2>2. Len(queue'[newest]) = 1
    BY <1>6, <2>1
  <2> QED BY <1>2, <1>4, <2>2 DEF PlanIsComplete
<1>12. Troubles' # 0 /\ budget'.erasures # 0
  <2>1. budget'.faults \in Nat /\ budget'.erasures \in Nat \ {0} /\ budget'.reloads \in Nat
    BY <1>5
  <2>2. Troubles' = budget'.faults + budget'.reloads + budget'.erasures
    BY DEF Troubles
  <2> QED BY <2>1, <2>2
<1> QED BY <1>7, <1>8, <1>9, <1>10, <1>11, <1>12
        DEF IInv, BonusIsLast, OneIsPaid, TimersAreOlder

LEMMA WithoutRound ==
  ASSUME NEW r, NEW L, Sound(r, L), NEW p \in People
  PROVE  /\ Sound(Without(r, p), L) /\ Without(r, p).id = r.id
         /\ Clean(Without(r, p), p)
<1> DEFINE scores2 == [r.scores EXCEPT ![p] = NoScore]
           streak2 == StreakWithout(r.streak, p)
           asked2 == AskedWithout(r.asked, p)
           n == [r EXCEPT !.scores = scores2, !.streak = streak2, !.asked = asked2]
<1>1. /\ r \in Rounds /\ Fits(r)
      /\ \A q \in People : r.scores[q].correct <= Cardinality(PaidFor(r, q, L))
  BY DEF Sound
<1>2. /\ r.scores \in [People -> [points : Nat, correct : 0 .. Total]]
      /\ r.streak \in [who : People, n : 1 .. Total] \cup {NoStreak}
      /\ r.asked \in Questions \cup {NoQuestion} /\ Total \in Nat \ {0}
      /\ Answerable(r) \in Nat /\ r.number \in 0 .. Total
  BY <1>1, Shape, SoundFacts
<1>3. /\ scores2 \in [People -> [points : Nat, correct : 0 .. Total]]
      /\ scores2[p] = NoScore /\ \A q \in People \ {p} : scores2[q] = r.scores[q]
  BY <1>2 DEF NoScore
<1>4. /\ streak2 \in [who : People, n : 1 .. Total] \cup {NoStreak}
      /\ streak2.who # p /\ (streak2.n = r.streak.n \/ streak2.n = 0)
  BY <1>2, TriviaAssumption DEF NoStreak, StreakWithout
<1>5. /\ asked2 \in Questions \cup {NoQuestion}
      /\ asked2 = NoQuestion <=> r.asked = NoQuestion
      /\ asked2 # NoQuestion => asked2.hinted = r.asked.hinted /\ p \notin asked2.out
  <2>1. CASE r.asked = NoQuestion
    BY <2>1 DEF AskedWithout
  <2>2. CASE r.asked # NoQuestion
    <3> DEFINE out2 == r.asked.out \ {p}
    <3>1. r.asked \in Questions /\ out2 \in SUBSET People /\ p \notin out2
      BY <1>2, <2>2 DEF Questions
    <3>2. asked2 = [r.asked EXCEPT !.out = out2]
      BY <2>2 DEF AskedWithout
    <3> HIDE DEF out2, asked2
    <3>3. asked2 \in Questions /\ asked2.hinted = r.asked.hinted /\ asked2.out = out2
      BY <3>1, <3>2 DEF Questions
    <3> QED BY <2>2, <3>1, <3>3, BlanksAssumption
  <2> QED BY <2>1, <2>2
<1>6. Without(r, p) = n
  BY <1>1 DEF Without, Rounds
<1> HIDE DEF scores2, streak2, asked2
<1>7. /\ n \in Rounds /\ n.id = r.id /\ n.number = r.number /\ n.seq = r.seq
      /\ n.scores = scores2 /\ n.streak = streak2 /\ n.asked = asked2
  BY <1>1, <1>3, <1>4, <1>5 DEF Rounds
<1> HIDE DEF n
<1>8. Answerable(n) = Answerable(r)
  BY <1>5, <1>7 DEF Answerable
<1>9. \A q \in People : n.scores[q].correct <= r.scores[q].correct
  <2>1. \A q \in People : r.scores[q].correct \in Nat
    BY <1>2
  <2>2. n.scores[p].correct = 0
    BY <1>3, <1>7 DEF NoScore
  <2> QED BY <1>3, <1>7, <2>1, <2>2
<1>10. \A q \in People : n.scores[q].correct \in Int /\ r.scores[q].correct \in Int
  BY <1>2, <1>3, <1>7
<1>11. Cardinality(Credits(n)) <= Answerable(n)
  <2>1. Credits(n) \subseteq Credits(r)
    BY <1>9, <1>10 DEF Credits
  <2>2. IsFiniteSet(Credits(r)) /\ Cardinality(Credits(r)) \in Nat
    BY CreditsFinite
  <2>3. Cardinality(Credits(n)) <= Cardinality(Credits(r)) /\ Cardinality(Credits(n)) \in Nat
    BY <2>1, <2>2, FS_Subset, CreditsFinite
  <2>4. Cardinality(Credits(r)) <= Answerable(r)
    BY <1>1 DEF Fits
  <2> QED BY <1>2, <1>8, <2>2, <2>3, <2>4
<1>12. Fits(n)
  <2>1. /\ r.asked # NoQuestion => r.number >= 1
        /\ r.seq <= 3 * Answerable(r)
                    + (IF r.asked = NoQuestion THEN 0 ELSE IF r.asked.hinted THEN 2 ELSE 1)
        /\ \A q \in People : r.scores[q].correct <= Answerable(r)
        /\ r.streak.n <= Answerable(r)
    BY <1>1 DEF Fits
  <2>2. \A q \in People : n.scores[q].correct <= Answerable(n)
    BY <1>2, <1>8, <1>9, <1>10, <2>1
  <2>3. n.streak.n <= Answerable(n)
    BY <1>2, <1>4, <1>7, <1>8, <2>1
  <2>4. n.seq <= 3 * Answerable(n)
                    + (IF n.asked = NoQuestion THEN 0 ELSE IF n.asked.hinted THEN 2 ELSE 1)
    BY <1>5, <1>7, <1>8, <2>1
  <2> QED BY <1>5, <1>7, <1>11, <2>1, <2>2, <2>3, <2>4 DEF Fits
<1>13. \A q \in People : n.scores[q].correct <= Cardinality(PaidFor(n, q, L))
  <2>1. \A q \in People : PaidFor(n, q, L) = PaidFor(r, q, L)
    BY <1>7, <1>8 DEF PaidFor
  <2>2. \A q \in People : Cardinality(PaidFor(r, q, L)) \in Nat
    BY <1>2, PaidFinite
  <2> QED BY <1>1, <1>9, <1>10, <2>1, <2>2
<1>14. Clean(n, p)
  BY <1>3, <1>4, <1>5, <1>7 DEF Clean
<1> QED BY <1>6, <1>7, <1>12, <1>13, <1>14 DEF Sound

LEMMA ApplyPlanStep ==
  ASSUME IInv, ApplyPlan
  PROVE  IInv'
<1> DEFINE row == erasure.row
           p == erasure.who
<1>1. TypeOK /\ newest \in Workers
  BY DEF IInv, TypeOK
<1>2. /\ erasure.stage = "planned"
      /\ stored' = IF row = NoRound THEN stored
                   ELSE IF Without(row, p) = row THEN stored
                   ELSE Without(row, p)
      /\ career' = [career EXCEPT ![p] = IF erasure.career THEN NoCareer ELSE @]
      /\ erasure' = [erasure EXCEPT !.stage = "applied", !.row = NoRound]
      /\ mirror' = mirror /\ queue' = queue /\ newest' = newest /\ job' = job
      /\ ledger' = ledger /\ budget' = budget
  BY DEF ApplyPlan
<1>3. /\ erasure'.stage = "applied" /\ erasure'.who = p /\ erasure'.row = NoRound
      /\ erasure'.quiet = erasure.quiet
      /\ erasure' \in [stage : {"none", "asked", "planned", "applied"},
                       who : People \cup {Nobody}, row : Rounds \cup {NoRound},
                       career : BOOLEAN, quiet : BOOLEAN]
  BY <1>1, <1>2 DEF TypeOK
<1>4. p \in People /\ row \in Rounds \cup {NoRound}
  BY <1>1, <1>2 DEF IInv, OneIsFed, TypeOK
<1> HIDE DEF row, p
<1>5. row # NoRound =>
         /\ Sound(row, ledger) /\ row.id <= budget.rounds /\ row \in RoundsInUse
         /\ Sound(Without(row, p), ledger) /\ Without(row, p).id = row.id
         /\ Clean(Without(row, p), p)
  <2>1. row # NoRound => row \in RoundsInUse
    BY <1>4, RoundsAreNotBlank DEF RoundsInUse, row
  <2>2. row # NoRound => Sound(row, ledger) /\ row.id <= budget.rounds
    BY <2>1 DEF IInv, RoundsAreSound
  <2> QED BY <1>4, <2>1, <2>2, WithoutRound
<1>6. stored' = stored \/ (row # NoRound /\ stored' = Without(row, p))
  BY <1>2
<1>7. /\ career' \in Careers
      /\ career'[p] = IF erasure.career THEN NoCareer ELSE career[p]
  <2> DEFINE mine == IF erasure.career THEN NoCareer ELSE career[p]
  <2>1. career \in Careers /\ career' = [career EXCEPT ![p] = mine]
    BY <1>1, <1>2 DEF TypeOK
  <2>2. mine \in [correct : Nat, won : Nat]
    BY <1>4, <2>1 DEF Careers, NoCareer
  <2> HIDE DEF mine
  <2>3. career' \in Careers /\ career'[p] = mine
    BY <1>4, <2>1, <2>2 DEF Careers
  <2> QED BY <2>3 DEF mine
<1>8. TypeOK'
  <2>1. stored' \in Rounds \cup {NoRound}
    BY <1>1, <1>5, <1>6 DEF TypeOK, Sound
  <2> QED BY <1>1, <1>2, <1>3, <1>7, <2>1 DEF TypeOK, Workers
<1>9. RoundsAreSound'
  <2>1. ASSUME NEW r \in RoundsInUse' PROVE Sound(r, ledger) /\ r.id <= budget.rounds
    <3>1. r # NoRound /\ r # Unloaded
      BY <2>1 DEF RoundsInUse
    <3>2. r = stored' \/ \E u \in Workers : r = mirror[u]
      BY <1>2, <1>3, <2>1, <3>1 DEF RoundsInUse, Workers
    <3>3. CASE r \in RoundsInUse
      BY <3>3 DEF IInv, RoundsAreSound
    <3>4. CASE r \notin RoundsInUse
      <4>1. row # NoRound /\ r = Without(row, p)
        BY <1>6, <3>1, <3>2, <3>4 DEF RoundsInUse
      <4> QED BY <1>5, <4>1
    <3> QED BY <3>3, <3>4
  <2> QED BY <1>2, <2>1 DEF IInv, RoundsAreSound
<1>10. OneIsFed'
  BY <1>2, <1>3, <1>4 DEF IInv, OneIsFed, Workers
<1>11. ASSUME Undisturbed'
       PROVE  Undisturbed /\ Len(queue[newest]) = 0 /\ mirror[newest] = Unloaded
  BY <1>2, <1>11 DEF IInv, Undisturbed, PlanIsLast
<1>12. PlanIsLast'
  <2> SUFFICES ASSUME Undisturbed' PROVE PlanIsLast'
    BY DEF PlanIsLast
  <2> QED BY <1>2, <1>3, <1>11 DEF PlanIsLast
<1>13. PlanIsComplete'
  <2> SUFFICES ASSUME Undisturbed', erasure'.quiet PROVE PlanIsComplete'
    BY DEF PlanIsComplete
  <2>1. row = stored /\ (career[p] # NoCareer => erasure.career)
    BY <1>2, <1>3, <1>11 DEF IInv, PlanIsComplete, row, p
  <2>2. career'[p] = NoCareer
    BY <1>7, <2>1
  <2>3. stored' # NoRound => Clean(stored', p)
    BY <1>2, <1>5, <2>1
  <2> QED BY <1>2, <1>3, <1>11, <2>2, <2>3 DEF PlanIsComplete
<1>14. Troubles' # 0 /\ budget'.erasures # 0
  <2>1. budget.erasures # 0
    BY <1>2 DEF IInv, OneIsFed
  <2>2. Troubles' = Troubles
    BY <1>2, SameTroubles
  <2> QED BY <1>1, <1>2, <2>1, <2>2 DEF Troubles, TypeOK
<1> QED BY <1>8, <1>9, <1>10, <1>12, <1>13, <1>14
        DEF IInv, BonusIsLast, OneIsPaid, TimersAreOlder

LEMMA HandleStep ==
  ASSUME IInv, NEW w \in Workers, Handle(w)
  PROVE  IInv'
<1>1. CASE HandleDelete(w)
  BY <1>1, DeleteStep
<1>2. CASE Takes(w)
  BY <1>2, TypeHandled, SoundHandled, FedHandled, PlanHandled, CompleteHandled, BonusHandled,
     OneHandled, TimersHandled DEF IInv
<1> QED BY <1>1, <1>2 DEF Handle, Takes

LEMMA InitInv ==
  Init => IInv
<1> SUFFICES ASSUME Init PROVE IInv
  OBVIOUS
<1> USE DEF Init
<1>1. /\ MaxReloads \in Nat /\ Total \in Nat \ {0} /\ QueueCap \in Nat
      /\ 1 \in Workers
  BY TriviaAssumption DEF Workers
<1>2. TypeOK
  <2>1. stored \in Rounds \cup {NoRound}
    OBVIOUS
  <2>2. mirror \in [Workers -> Rounds \cup {NoRound, Unloaded}]
    OBVIOUS
  <2>3. queue \in [Workers -> Seq(Items)] /\ \A w \in Workers : Len(queue[w]) <= QueueCap
    <3>1. << >> \in Seq(Items) /\ Len(<< >>) = 0
      OBVIOUS
    <3> QED BY <1>1, <3>1
  <2>4. job \in Jobs
    BY <1>1 DEF NoJob, Jobs
  <2>5. career \in Careers
    BY DEF Careers, NoCareer
  <2>6. newest \in Workers /\ ledger \subseteq Entries
    BY <1>1
  <2>7. erasure \in [stage : {"none", "asked", "planned", "applied"},
                     who : People \cup {Nobody}, row : Rounds \cup {NoRound},
                     career : BOOLEAN, quiet : BOOLEAN]
    OBVIOUS
  <2>8. budget \in [rounds : Nat, inputs : Nat, faults : Nat, reloads : Nat,
                    erasures : Nat, captured : BOOLEAN]
    OBVIOUS
  <2> QED BY <2>1, <2>2, <2>3, <2>4, <2>5, <2>6, <2>7, <2>8 DEF TypeOK
<1>3. RoundsAreSound
  <2>1. RoundsInUse = {}
    BY DEF RoundsInUse
  <2> QED BY <2>1 DEF RoundsAreSound
<1>4. OneIsFed
  BY <1>1 DEF OneIsFed, Workers
<1>5. /\ stored = NoRound /\ ledger = {} /\ erasure.stage = "none" /\ newest = 1
      /\ queue[newest] = << >> /\ mirror[newest] = Unloaded /\ Len(queue[newest]) = 0
  BY <1>1
<1>6. PlanIsLast /\ PlanIsComplete
  BY <1>5 DEF PlanIsLast, PlanIsComplete
<1>7. BonusIsLast /\ OneIsPaid
  BY DEF BonusIsLast, OneIsPaid
<1>8. TimersAreOlder
  <2>1. job.round = 0 /\ budget.rounds = 0
    BY DEF NoJob
  <2> QED BY <1>5, <2>1 DEF TimersAreOlder
<1> QED BY <1>2, <1>3, <1>4, <1>6, <1>7, <1>8 DEF IInv

LEMMA NextInv ==
  IInv /\ [Next]_vars => IInv'
<1> SUFFICES ASSUME IInv, [Next]_vars PROVE IInv'
  OBVIOUS
<1>1. ASSUME NEW p \in People, Say(p) PROVE IInv'
  <2>1. PICK item \in Inputs(p) : Feeding /\ Arrive(p, item, FALSE)
    BY <1>1 DEF Say
  <2> QED BY <2>1, ArriveStep
<1>2. ASSUME NEW p \in People, Captured(p) PROVE IInv'
  <2>1. PICK item \in Inputs(p) : ~Feeding /\ Arrive(p, item, TRUE)
    BY <1>2 DEF Captured
  <2> QED BY <2>1, ArriveStep
<1>3. ASSUME NEW p \in People, AskForPlan(p) PROVE IInv'
  BY <1>3, AskForPlanStep
<1>4. ASSUME NEW w \in Workers, Handle(w) PROVE IInv'
  BY <1>4, HandleStep
<1>5. CASE Fire
  BY <1>5, FireStep
<1>6. CASE Reload
  BY <1>6, ReloadStep
<1>7. CASE ApplyPlan
  BY <1>7, ApplyPlanStep
<1>8. CASE UNCHANGED vars
  BY <1>8 DEF vars, IInv, TypeOK, RoundsAreSound, RoundsInUse, OneIsFed, PlanIsLast, Undisturbed,
              PlanIsComplete, BonusIsLast, OneIsPaid, TimersAreOlder, Troubles, Workers
<1> QED BY <1>1, <1>2, <1>3, <1>4, <1>5, <1>6, <1>7, <1>8 DEF Next

-----------------------------------------------------------------------------
(* What the invariant says of the properties.                              *)

\* A round that is clean of p counts nothing for p.
LEMMA CleanCountsNothing ==
  ASSUME NEW r \in Rounds, NEW p \in People, Clean(r, p)
  PROVE  p \notin Counted(r)
BY DEF Clean, Counted

\* While one worker runs the module, there are no other copies than the stored one.
LEMMA OneCopy ==
  ASSUME IInv, Undisturbed
  PROVE  Copies \subseteq {stored}
<1>1. newest = 1 /\ mirror[newest] \in {Unloaded, stored}
  BY DEF IInv, OneIsFed, PlanIsLast, Undisturbed
<1>2. \A w \in Workers : w # newest => w > newest
  BY <1>1 DEF Workers
<1>3. \A w \in Workers : mirror[w] \in {Unloaded, stored}
  BY <1>1, <1>2 DEF IInv, OneIsFed
<1> QED BY <1>3 DEF Copies

LEMMA AnswersFollow ==
  IInv => AnswersAreAccounted
<1> SUFFICES ASSUME IInv PROVE AnswersAreAccounted
  OBVIOUS
<1>1. \A r \in Copies : Sound(r, ledger)
  BY DEF IInv, RoundsAreSound, Copies, RoundsInUse
<1>2. AnsweredAtMostAsked
  BY <1>1 DEF AnsweredAtMostAsked, Sound, Fits
<1>3. ScoresWerePaid
  <2> SUFFICES ASSUME NEW r \in Copies, NEW p \in People
               PROVE  r.scores[p].correct
                        <= Cardinality({k \in 1 .. Total : <<p, <<r.id, k>>>> \in ledger})
    BY DEF ScoresWerePaid
  <2> DEFINE paid == {k \in 1 .. Total : <<p, <<r.id, k>>>> \in ledger}
  <2>1. /\ r \in Rounds /\ Answerable(r) \in Int /\ Answerable(r) <= Total /\ Total \in Nat
        /\ r.scores[p].correct <= Cardinality(PaidFor(r, p, ledger))
        /\ r.scores[p].correct \in Int
    BY <1>1, Shape DEF Sound
  <2>2. PaidFor(r, p, ledger) \subseteq paid
    BY <2>1 DEF PaidFor
  <2>3. IsFiniteSet(paid)
    <3>1. IsFiniteSet(1 .. Total)
      BY <2>1, FS_Interval
    <3> QED BY <3>1, FS_Subset
  <2>4. /\ Cardinality(PaidFor(r, p, ledger)) <= Cardinality(paid)
        /\ Cardinality(PaidFor(r, p, ledger)) \in Nat /\ Cardinality(paid) \in Nat
    BY <2>1, <2>2, <2>3, FS_Subset, PaidFinite, FS_CardinalityType
  <2> QED BY <2>1, <2>4
<1>4. OnePersonPerQuestion
  BY DEF IInv, OneIsPaid, OnePersonPerQuestion
<1>5. PaidRoundsAreOver
  <2> SUFFICES ASSUME budget.reloads = 0, budget.erasures = 0, NEW r \in Copies
               PROVE  ~\E p \in People : <<p, <<r.id, 0>>>> \in ledger
    BY DEF PaidRoundsAreOver
  <2>1. Undisturbed
    BY DEF IInv, OneIsFed, Undisturbed
  <2>2. r = stored /\ r # NoRound
    BY <2>1, OneCopy DEF Copies
  <2> QED BY <2>2 DEF IInv, BonusIsLast
<1> QED BY <1>2, <1>3, <1>4, <1>5 DEF AnswersAreAccounted

LEMMA UnsentJob ==
  ASSUME NEW j \in Jobs, NEW sent
  PROVE  [j EXCEPT !.sent = sent] = [round |-> j.round, seq |-> j.seq, sent |-> sent]
BY DEF Jobs

LEMMA CoherenceFollows ==
  IInv => RoundIsCoherent
<1> SUFFICES ASSUME IInv PROVE RoundIsCoherent
  OBVIOUS
<1>1. MirrorIsStored
  BY DEF IInv, PlanIsLast, Undisturbed, MirrorIsStored
<1>2. ErasedLeaveTheScores
  <2> SUFFICES ASSUME erasure.stage = "applied", erasure.quiet, budget.reloads = 0,
                      ~budget.captured
               PROVE  /\ career[erasure.who] = NoCareer
                      /\ \A r \in Copies : erasure.who \notin Counted(r)
    BY DEF ErasedLeaveTheScores
  <2>1. Undisturbed
    BY DEF Undisturbed
  <2>2. /\ career[erasure.who] = NoCareer
        /\ stored # NoRound => Clean(stored, erasure.who)
    BY <2>1 DEF IInv, PlanIsComplete
  <2>3. ASSUME NEW r \in Copies PROVE erasure.who \notin Counted(r)
    <3>1. r = stored /\ r # NoRound
      BY <2>1, <2>3, OneCopy DEF Copies
    <3>2. r \in Rounds /\ erasure.who \in People
      BY <3>1 DEF IInv, TypeOK, OneIsFed
    <3> QED BY <2>2, <3>1, <3>2, CleanCountsNothing
  <2> QED BY <2>2, <2>3
<1>3. RoundIsDriven
  <2> SUFFICES ASSUME Troubles = 0, stored # NoRound
               PROVE  /\ JobOf(stored) = [job EXCEPT !.sent = FALSE]
                      /\ job.sent => \E i \in 1 .. Len(queue[newest]) :
                                        queue[newest][i] = Timer(job)
    BY DEF RoundIsDriven
  <2>1. /\ job.round = stored.id /\ job.seq = stored.seq
        /\ job.sent => \E i \in 1 .. Len(queue[newest]) : queue[newest][i] = Timer(job)
    BY DEF IInv, TimersAreOlder
  <2>2. job \in Jobs
    BY DEF IInv, TypeOK
  <2>3. [job EXCEPT !.sent = FALSE] = [round |-> job.round, seq |-> job.seq, sent |-> FALSE]
    BY <2>2, UnsentJob
  <2> QED BY <2>1, <2>3 DEF JobOf
<1> QED BY <1>1, <1>2, <1>3 DEF RoundIsCoherent, CopiesAgree

-----------------------------------------------------------------------------

\* The invariant holds in every state the channel can reach.
LEMMA Invariance ==
  Spec => []IInv
BY InitInv, NextInv, PTL DEF Spec

\* Rounds, queues, the timer, careers and payments keep their shape: a round never
\* asks more than its questions nor books more than three steps for each, and
\* counts for nobody more answers than it has questions.
THEOREM TypeCorrect ==
  Spec => []TypeOK
<1>1. IInv => TypeOK
  BY DEF IInv
<1> QED BY <1>1, Invariance, PTL

\* Whatever is cut short, reloaded or erased: a round counts no more answers than
\* questions that are over, each was paid to the one it is counted for; and
\* unless that happens no question is paid twice, and no paid round goes on.
THEOREM AnswersCount ==
  Spec => []AnswersAreAccounted
BY AnswersFollow, Invariance, PTL

\* While one worker runs the module its copy is the stored round, also after an
\* erasure, which leaves the person no career, score, streak or wrong choice (but
\* named, if they started the round); and a round under way has the timer of its
\* last booking unless something went wrong.
THEOREM RoundsAreCoherent ==
  Spec => []RoundIsCoherent
BY CoherenceFollows, Invariance, PTL

=============================================================================
