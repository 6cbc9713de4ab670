------------------------------- MODULE Memos --------------------------------
(***************************************************************************)
(* Memos of one network (modules-src/memos): the book of a channel and the *)
(* book of private memos, each with a flag that tells ordinary chat        *)
(* whether the book is worth loading.                                      *)
(*                                                                         *)
(* A handler takes effect call by call and is cut short when a call fails. *)
(* A message first delivers what waits for its author, then carries out    *)
(* the command.  Everybody keeps their nick; a profile is created by the   *)
(* first message and again by the first one after its erasure, and there   *)
(* are times when the host cannot resolve an author (user_id is empty).    *)
(* Texts and clocks are left out: memos grow old at any time.              *)
(***************************************************************************)
EXTENDS Naturals, Sequences, FiniteSets, SequencesExt

CONSTANTS
  People,
  Batch,            \* MAX_DELIVER_PER_MESSAGE
  PerBook,          \* MAX_PENDING_PER_CHANNEL
  PerSender,        \* MAX_PENDING_PER_SENDER_CHANNEL
  PerRecipient,     \* MAX_PENDING_PER_RECIPIENT
  PerPair,          \* MAX_PENDING_PER_SENDER_RECIPIENT
  MaxTold,          \* bound: memos
  MaxMishaps        \* bound: handlers cut short and erasures

\* What the constants are; whoever instantiates the module assumes it.
MemosAssumption ==
  /\ Batch \in Nat \ {0}
  /\ {PerBook, PerSender, PerRecipient, PerPair, MaxTold, MaxMishaps} \subseteq Nat

VARIABLES
  books,      \* book: the next id and the memos
  flag,       \* pending: "" (not written yet), "0", "1"
  profile,    \* the number of each person's profile, and whether it exists
  plan,       \* the erasure in progress, with the books it read
  credits,    \* award_stats: the deliveries counted for senders
  told, cuts, wipes,   \* the bounds; a memo is known by the value of `told`
  accepted,      \* memos whose sender was told they are kept (history)
  posted,     \* memos posted (history)
  again,      \* memos posted twice (history)
  awarded,    \* memos for whose sender award_stats was called (history)
  ended,      \* memos cleared, withdrawn, erased, or dropped when old (history)
  lost,       \* memos taken from the book by a handler that was cut (history)
  muddled     \* memos an erasure lost or brought back (history)

fates == <<accepted, posted, again, awarded, ended, lost, muddled>>
memoVars == <<books, flag, profile, plan, credits, told, cuts, wipes, fates>>

Books == {"channel", "private"}
EmptyBook == [next |-> 1, memos |-> <<>>]
NoPlan == [stage |-> "none", who |-> CHOOSE p \in People : TRUE, books |-> <<>>]

\* The start, with t for the memos already told.
InitAfter(t) ==
  /\ books = [b \in Books |-> EmptyBook]
  /\ flag = [b \in Books |-> ""]
  /\ profile = [p \in People |-> [n |-> 0, live |-> FALSE]]
  /\ plan = NoPlan
  /\ credits = {}
  /\ told = t /\ cuts = 0 /\ wipes = 0
  /\ accepted = {} /\ posted = {} /\ again = {} /\ awarded = {}
  /\ ended = {} /\ lost = {} /\ muddled = {}

Init == InitAfter(0)

-----------------------------------------------------------------------------
(* What host calls do to the state `s` of a handler; `end` is "ok" until   *)
(* a call fails ("cut") or refuses ("refused").                            *)

Desk == [books |-> books, flag |-> flag, credits |-> credits, posted |-> posted,
         again |-> again, awarded |-> awarded, end |-> "ok"]

Cut(s) == [s EXCEPT !.end = "cut"]

\* What f does after each outcome of a step that did not fail.
Then(outcomes, f(_)) == UNION {IF s.end = "ok" THEN f(s) ELSE {s} : s \in outcomes}

Tokens(memos) == {memos[i].token : i \in DOMAIN memos}
Fresh(memos) == SelectSeq(memos, LAMBDA m : ~m.old)

\* A mutant: the flag is only ever cleared.
SaveClearing(s, b, book) ==
  LET w == [s EXCEPT !.books[b] = book]
  IN {[w EXCEPT !.flag[b] = IF book.memos = <<>> THEN "0" ELSE @], Cut(w), Cut(s)}

\* save_book: the book, then the flag.
Save(s, b, book) ==
  LET w == [s EXCEPT !.books[b] = book]
  IN {[w EXCEPT !.flag[b] = IF book.memos = <<>> THEN "0" ELSE "1"], Cut(w), Cut(s)}

\* matches_message, for an author whose profile was resolved or not.
Matches(m, p, resolved) ==
  m.to = p /\ (m.recipient = 0 \/ (resolved /\ m.recipient = profile'[p].n))

\* same_recipient
SameRecipient(m, q, n) == m.to = q /\ m.recipient = n

IdOf(q) == IF profile[q].live THEN profile[q].n ELSE 0

\* The achievement of a sender without a profile is refused.
SenderGone(m) == ~(profile'[m.from].live /\ profile'[m.from].n = m.sender)

Credit(b, m) == <<m.from, m.sender, b, m.id>>

PostOne(s, b, m) ==
  LET sent == [s EXCEPT !.posted = @ \cup {m.token},
                        !.again = IF m.token \in s.posted THEN @ \cup {m.token} ELSE @]
      counted == [sent EXCEPT !.awarded = @ \cup {m.token}, !.credits = @ \cup {Credit(b, m)}]
  IN {Cut(s), Cut(sent)} \cup (IF SenderGone(m) THEN {[sent EXCEPT !.end = "refused"]}
                              ELSE {counted, Cut(counted)})

Post(s, b, out) ==
  FoldLeft(LAMBDA outcomes, m : Then(outcomes, LAMBDA d : PostOne(d, b, m)), {s}, out)

Taken(memos, p, resolved) ==
  LET mine == SelectSeq(memos, LAMBDA m : Matches(m, p, resolved))
  IN SubSeq(mine, 1, IF Len(mine) < Batch THEN Len(mine) ELSE Batch)

\* A mutant: the memos are posted before their removal is saved.
DeliverFirst(s, b, p, resolved) ==
  LET book == s.books[b]
      out == Taken(Fresh(book.memos), p, resolved)
      rest == SelectSeq(Fresh(book.memos), LAMBDA m : m.token \notin Tokens(out))
  IN IF s.flag[b] = "0" THEN {s}
     ELSE Then(Post(s, b, out), LAMBDA d : Save(d, b, [book EXCEPT !.memos = rest]))

\* deliver: their removal is saved before the memos are posted.
Deliver(s, b, p, resolved) ==
  LET book == s.books[b]
      out == Taken(Fresh(book.memos), p, resolved)
      rest == SelectSeq(Fresh(book.memos), LAMBDA m : m.token \notin Tokens(out))
  IN IF s.flag[b] = "0" THEN {s}
     ELSE Then(IF rest # book.memos \/ s.flag[b] = ""
               THEN Save(s, b, [book EXCEPT !.memos = rest]) ELSE {s},
               LAMBDA d : Post(d, b, out))

\* What a message in b, or a join, delivers first.
Arrivals(s, b, p, resolved) ==
  Then(IF b = "channel" THEN Deliver(s, "channel", p, resolved) ELSE {s},
       LAMBDA d : Deliver(d, "private", p, resolved))

\* The handler ends with the outcome s; `gone` are memos it removes on purpose.
EndWith(s, gone) ==
  LET before == UNION {Tokens(books[b].memos) : b \in Books}
      after == UNION {Tokens(s.books[b].memos) : b \in Books}
      removed == before \ after
  IN /\ books' = s.books /\ flag' = s.flag /\ credits' = s.credits
     /\ posted' = s.posted /\ again' = s.again /\ awarded' = s.awarded
     /\ ended' = ended \cup (removed \cap gone)
     /\ lost' = IF s.end = "ok" THEN lost ELSE lost \cup (removed \ (gone \cup s.posted))
     /\ IF s.end = "cut" THEN cuts + wipes < MaxMishaps /\ cuts' = cuts + 1 ELSE UNCHANGED cuts

Old == UNION {{books[b].memos[i].token : i \in {i \in DOMAIN books[b].memos :
                                                  books[b].memos[i].old}} : b \in Books}

-----------------------------------------------------------------------------
(* Handlers.                                                               *)

\* The host resolves the author of a message, and creates a profile if there is none.
Resolve(p) ==
  profile' = IF profile[p].live THEN profile
             ELSE [profile EXCEPT ![p] = [n |-> profile[p].n + 1, live |-> TRUE]]

Chat(p, b) ==
  /\ Resolve(p)
  /\ \E s \in Arrivals(Desk, b, p, TRUE) : EndWith(s, Old)
  /\ UNCHANGED <<plan, told, wipes, accepted, muddled>>

\* A join, or a message whose author cannot be resolved; neither creates a profile.
Appear(p, b, resolved) ==
  /\ resolved => b = "channel" /\ profile[p].live
  /\ UNCHANGED profile
  /\ \E s \in Arrivals(Desk, b, p, resolved) : EndWith(s, Old)
  /\ UNCHANGED <<plan, told, wipes, accepted, muddled>>

Count(memos, P(_)) == Cardinality({i \in DOMAIN memos : P(memos[i])})

Room(memos, p, q) ==
  LET mine(m) == m.from = p /\ m.sender = profile'[p].n
      theirs(m) == SameRecipient(m, q, IdOf(q))
  IN /\ Len(memos) < PerBook
     /\ Count(memos, mine) < PerSender
     /\ Count(memos, theirs) < PerRecipient
     /\ Count(memos, LAMBDA m : mine(m) /\ theirs(m)) < PerPair

Leave(s, b, p, q) ==
  LET book == [s.books[b] EXCEPT !.memos = Fresh(@)]
      m == [token |-> told + 1, id |-> book.next, to |-> q, recipient |-> IdOf(q),
            from |-> p, sender |-> profile'[p].n, old |-> FALSE]
  IN IF Room(book.memos, p, q)
     THEN Then(Save(s, b, [next |-> m.id + 1, memos |-> Append(book.memos, m)]),
               LAMBDA d : {d, Cut(d)})
     ELSE {[s EXCEPT !.end = "refused"]}

\* !tell
Tell(p, q, b) ==
  /\ told < MaxTold /\ told' = told + 1
  /\ p # q /\ Resolve(p)
  /\ \E s \in Then(Arrivals(Desk, b, p, TRUE), LAMBDA d : Leave(d, b, p, q)) :
       /\ EndWith(s, Old)
       /\ accepted' = IF s.end = "ok" THEN accepted \cup {told'} ELSE accepted
  /\ UNCHANGED <<plan, wipes, muddled>>

\* The memos out of the book b are removed, with the old ones.
Drop(b, out) ==
  LET book == books[b]
      rest == SelectSeq(Fresh(book.memos), LAMBDA m : m.token \notin Tokens(out))
  IN /\ rest # book.memos
     /\ \E s \in Save(Desk, b, [book EXCEPT !.memos = rest]) :
          EndWith(s, Tokens(book.memos) \ Tokens(rest))

\* !memos clear
Clear(p, b) ==
  /\ Resolve(p)
  /\ Drop(b, SelectSeq(books[b].memos, LAMBDA m : Matches(m, p, TRUE)))
  /\ UNCHANGED <<plan, told, wipes, accepted, muddled>>

\* !memos unsend <id>
Unsend(p, b, id) ==
  /\ Resolve(p)
  /\ Drop(b, SelectSeq(books[b].memos,
                       LAMBDA m : m.id = id /\ m.from = p /\ m.sender = profile'[p].n))
  /\ UNCHANGED <<plan, told, wipes, accepted, muddled>>

\* !memos admin clear <nick>
AdminClear(q) ==
  /\ Drop("channel", SelectSeq(books["channel"].memos,
                               LAMBDA m : SameRecipient(m, q, IdOf(q))))
  /\ UNCHANGED <<profile, plan, told, wipes, accepted, muddled>>

GrowOld(b) ==
  /\ Fresh(books[b].memos) # <<>>
  /\ books' = [books EXCEPT ![b].memos = [i \in DOMAIN @ |-> [@[i] EXCEPT !.old = TRUE]]]
  /\ UNCHANGED <<flag, profile, plan, credits, told, cuts, wipes, fates>>

-----------------------------------------------------------------------------
(* Erasure: the rows are read, and replaced later by what data_delete made *)
(* of them; a book that became empty is removed.  The profile goes last.   *)

ReadBooks(p) ==
  /\ plan.stage = "none" /\ profile[p].live
  /\ cuts + wipes < MaxMishaps /\ wipes' = wipes + 1
  /\ plan' = [stage |-> "asked", who |-> p, books |-> books]
  /\ UNCHANGED <<books, flag, profile, credits, told, cuts, fates>>

\* memo_matches
Concerns(m, p) == m.to = p \/ (m.from = p /\ m.sender = profile[p].n)

ApplyBooks ==
  /\ plan.stage = "asked"
  /\ LET kept(b) == SelectSeq(plan.books[b].memos, LAMBDA m : ~Concerns(m, plan.who))
         hit == {b \in Books : kept(b) # plan.books[b].memos}
         was == UNION {Tokens(books[b].memos) : b \in hit}
         read == UNION {Tokens(plan.books[b].memos) : b \in hit}
         now_ == UNION {Tokens(kept(b)) : b \in hit}
     IN /\ books' = [b \in Books |-> IF b \notin hit THEN books[b]
                                     ELSE IF kept(b) = <<>> THEN EmptyBook
                                     ELSE [plan.books[b] EXCEPT !.memos = kept(b)]]
        /\ ended' = ended \cup ((was \cap read) \ now_)
        /\ muddled' = muddled \cup (was \ read) \cup (now_ \ was)
  /\ plan' = [plan EXCEPT !.stage = "applied"]
  /\ UNCHANGED <<flag, profile, credits, told, cuts, wipes, accepted, posted, again, awarded, lost>>

FinishBooks ==
  /\ plan.stage = "applied"
  /\ profile' = [profile EXCEPT ![plan.who].live = FALSE]
  /\ plan' = NoPlan
  /\ UNCHANGED <<books, flag, credits, told, cuts, wipes, fates>>

Next ==
  \/ \E p \in People, b \in Books :
       \/ Chat(p, b) \/ Clear(p, b)
       \/ \E q \in People : Tell(p, q, b)
       \/ \E id \in 1..MaxTold : Unsend(p, b, id)
       \/ \E resolved \in BOOLEAN : Appear(p, b, resolved)
  \/ \E p \in People : AdminClear(p) \/ ReadBooks(p)
  \/ \E b \in Books : GrowOld(b)
  \/ ApplyBooks \/ FinishBooks

Spec == Init /\ [][Next]_memoVars

-----------------------------------------------------------------------------
(* Properties.                                                             *)

\* A memo its sender was told is kept stays in its book, and chat looks into that book,
\* until it is posted, withdrawn, cleared, erased or old; a handler that is cut loses
\* what it had taken, an erasure what was written while it was planned.
MemosAreKept ==
  \A t \in accepted \ (posted \cup ended \cup lost \cup muddled) :
    \E b \in Books : t \in Tokens(books[b].memos) /\ flag[b] # "0"

\* "Persist removal before posting so a send failure cannot cause repeated delivery": no
\* memo is posted twice, unless an erasure brought it back; and until an erasure removes
\* a book and its numbers begin again, each delivery is counted for its sender.
MemosComeOnce ==
  /\ again \subseteq muddled
  /\ wipes = 0 => Cardinality(credits) = Cardinality(awarded)

MemosAreAccounted == MemosAreKept /\ MemosComeOnce
=============================================================================
