--------------------------- MODULE IdentityProofs ---------------------------
(***************************************************************************)
(* Proofs about Identity.  A sender is only given a profile that no other  *)
(* account backs, because a guarded lookup returns the account's own       *)
(* profile, an unbacked one or a new one; binding the account to it then   *)
(* keeps accounts apart.  That needs the links to lead to stored profiles, *)
(* and new UUIDs to be unlinked, so the facts are proved together.         *)
(***************************************************************************)
EXTENDS Identity, TLAPS

IInv == TypeOK /\ OneAccountPerProfile /\ LinksAreLive /\ RowsWereDrawn /\ SpeakerHoldsTheAccount

-----------------------------------------------------------------------------
(* Lookups.                                                                *)

\* The alias row a lookup settles on is one of the nick's rows.
LEMMA MatchedIsARow ==
  ASSUME NEW al \in [Nicks -> Ids \cup {None}], NEW n \in Nicks, AliasRows(al, n) # {}
  PROVE  Matched(al, n) \in AliasRows(al, n)
<1>1. CASE al[n] # None
  BY <1>1 DEF Matched, AliasRows, Equivalent
<1>2. CASE al[n] = None
  BY <1>2 DEF Matched
<1> QED BY <1>1, <1>2

\* Whatever a lookup finds is a stored profile, and a guarded lookup finds the
\* profile of the account or one that no account backs.
LEMMA FoundIsLive ==
  ASSUME TypeOK, LinksAreLive,
         NEW n \in Nicks, NEW a \in Accounts \cup {None}, NEW g \in BOOLEAN,
         NEW id \in Found(n, a, g) \ {None}
  PROVE  /\ id \in Ids /\ nickOf[id] # Absent
         /\ g => \/ ~Backed(id)
                 \/ a # None /\ accountOf[a] = id
<1> USE IdentityAssumption
<1>1. CASE a # None /\ accountOf[a] # None
  BY <1>1 DEF Found, TypeOK, LinksAreLive
<1>2. CASE ~(a # None /\ accountOf[a] # None)
  <2>1. id \in Holders(n) /\ (g => ~Backed(id))
    BY <1>2 DEF Found
  <2>2. CASE AliasRows(aliasOf, n) = {}
    BY <2>1, <2>2 DEF Holders, NamedLike
  <2>3. CASE AliasRows(aliasOf, n) # {}
    <3>1. Matched(aliasOf, n) \in AliasRows(aliasOf, n)
      BY <2>3, MatchedIsARow DEF TypeOK
    <3>2. id = aliasOf[Matched(aliasOf, n)] /\ Matched(aliasOf, n) \in Nicks /\ id # None
      BY <2>1, <2>3, <3>1 DEF Holders, AliasRows
    <3> QED BY <2>1, <3>2 DEF LinksAreLive, TypeOK
  <2> QED BY <2>1, <2>2, <2>3
<1> QED BY <1>1, <1>2

\* Moving an alias changes one row of the table, to the profile it is moved to.
LEMMA MovedProperties ==
  ASSUME NEW al \in [Nicks -> Ids \cup {None}], NEW n \in Nicks, NEW id \in Ids
  PROVE  /\ Moved(al, n, id) \in [Nicks -> Ids \cup {None}]
         /\ \A m \in Nicks : Moved(al, n, id)[m] \in {al[m], id}
BY MatchedIsARow DEF Moved, AliasRows

\* Renaming a profile stores it and touches no other row.
LEMMA RenamedProperties ==
  ASSUME NEW nm \in [Ids -> Nicks \cup {Absent, Suffixed}], NEW n \in Nicks, NEW id \in Ids
  PROVE  /\ Renamed(nm, id, n) \in [Ids -> Nicks \cup {Absent, Suffixed}]
         /\ Renamed(nm, id, n)[id] # Absent
         /\ \A other \in Ids \ {id} : Renamed(nm, id, n)[other] = nm[other]
BY IdentityAssumption DEF Renamed, Absent, Suffixed

-----------------------------------------------------------------------------
(* A resolution, whoever asks for it: what it does to the accounts, and    *)
(* what the new rows it may leave to its caller must satisfy.              *)

Linked(nm, al) == /\ nm \in [Ids -> Nicks \cup {Absent, Suffixed}]
                  /\ al \in [Nicks -> Ids \cup {None}]
                  /\ \A n \in Nicks : al[n] # None => nm[al[n]] # Absent

\* Only senders are asked for their account, and their lookups are guarded.
LEMMA ResolutionStep ==
  ASSUME IInv, NEW n \in Nicks, NEW a \in Accounts \cup {None}, NEW g \in BOOLEAN,
         g \/ a = None, NEW id \in Ids, Resolves(n, a, g, id)
  PROVE  /\ nickOf[id] # Absent \/ id \notin used
         /\ used' = used \cup {id}
         /\ accountOf' \in [Accounts -> Ids \cup {None}]
         /\ \A b \in Accounts : accountOf'[b] = accountOf[b] \/ (b = a /\ accountOf'[b] = id)
         /\ \A b \in Accounts : accountOf[b] # None => accountOf'[b] = accountOf[b]
         /\ OneAccountPerProfile'
         /\ (g /\ Backed(id)') => a # None /\ accountOf'[a] = id
<1> USE IdentityAssumption DEF IInv
<1>1. \/ id \in Found(n, a, g) \ {None}
      \/ None \in Found(n, a, g) /\ id \in Fresh
  BY DEF Resolves
<1>2. nickOf[id] # Absent \/ id \notin used
  BY <1>1, FoundIsLive DEF Fresh
<1>3. id \notin used => nickOf[id] = Absent /\ ~Backed(id)
  BY DEF RowsWereDrawn, LinksAreLive, Backed, TypeOK
<1>4. g => ~Backed(id) \/ (a # None /\ accountOf[a] = id)
  BY <1>1, <1>3, FoundIsLive DEF Fresh
<1>5. a # None /\ accountOf[a] # None => accountOf[a] = id
  BY <1>1 DEF Found
<1>6. accountOf' = IF a = None THEN accountOf ELSE [accountOf EXCEPT ![a] = id]
  BY DEF Resolves
<1>7. accountOf' \in [Accounts -> Ids \cup {None}]
  BY <1>6 DEF TypeOK
<1>8. \A b \in Accounts : accountOf'[b] = accountOf[b] \/ (b = a /\ accountOf'[b] = id)
  BY <1>6 DEF TypeOK
<1>9. \A b \in Accounts : accountOf[b] # None => accountOf'[b] = accountOf[b]
  BY <1>5, <1>8
<1>10. OneAccountPerProfile'
  <2> SUFFICES ASSUME NEW b \in Accounts, NEW c \in Accounts,
                      accountOf'[b] # None, accountOf'[b] = accountOf'[c], b # c
               PROVE  FALSE
    BY DEF OneAccountPerProfile
  <2>1. CASE accountOf'[b] = accountOf[b] /\ accountOf'[c] = accountOf[c]
    BY <2>1 DEF OneAccountPerProfile
  <2>2. CASE a # None /\ accountOf' # accountOf
    <3>1. ~Backed(id)
      BY <2>2, <1>4, <1>6 DEF TypeOK
    <3> QED BY <3>1, <1>8, <2>2 DEF Backed, OneAccountPerProfile
  <2> QED BY <2>1, <2>2, <1>6
<1>11. (g /\ Backed(id)') => a # None /\ accountOf'[a] = id
  <2>1. CASE a = None
    BY <2>1, <1>4, <1>6 DEF Backed
  <2>2. CASE a # None
    BY <2>2, <1>6 DEF TypeOK
  <2> QED BY <2>1, <2>2
<1> QED BY <1>2, <1>7, <1>8, <1>9, <1>10, <1>11 DEF Resolves

\* With new rows in which every alias leads to a stored profile and only the
\* resolved one is added, the invariant holds again, but for what perms holds.
LEMMA ResolutionLinks ==
  ASSUME IInv, NEW n \in Nicks, NEW a \in Accounts \cup {None}, NEW g \in BOOLEAN,
         g \/ a = None, NEW id \in Ids, Resolves(n, a, g, id),
         Linked(nickOf', aliasOf'), nickOf'[id] # Absent,
         \A other \in Ids \ {id} : nickOf'[other] = nickOf[other]
  PROVE  LinksAreLive' /\ RowsWereDrawn' /\ used' = used \cup {id} /\ used' \subseteq Ids
<1> USE IdentityAssumption
<1>1. /\ used' = used \cup {id}
      /\ \A b \in Accounts : accountOf'[b] = accountOf[b] \/ (b = a /\ accountOf'[b] = id)
  BY ResolutionStep
<1>2. \A b \in Accounts : accountOf'[b] # None => nickOf'[accountOf'[b]] # Absent
  BY <1>1 DEF IInv, LinksAreLive, TypeOK
<1> QED BY <1>1, <1>2 DEF IInv, LinksAreLive, RowsWereDrawn, Linked, TypeOK

\* Moving one alias to a profile and renaming it keeps the tables linked.
LEMMA MoveKeepsLinks ==
  ASSUME NEW nm, NEW al, Linked(nm, al), NEW n \in Nicks, NEW id \in Ids
  PROVE  /\ Linked(Renamed(nm, id, n), Moved(al, n, id))
         /\ Renamed(nm, id, n)[id] # Absent
         /\ \A other \in Ids \ {id} : Renamed(nm, id, n)[other] = nm[other]
<1>1. /\ Renamed(nm, id, n) \in [Ids -> Nicks \cup {Absent, Suffixed}]
      /\ Renamed(nm, id, n)[id] # Absent
      /\ \A other \in Ids \ {id} : Renamed(nm, id, n)[other] = nm[other]
  BY RenamedProperties DEF Linked
<1>2. /\ Moved(al, n, id) \in [Nicks -> Ids \cup {None}]
      /\ \A m \in Nicks : Moved(al, n, id)[m] \in {al[m], id}
  BY MovedProperties DEF Linked
<1> QED BY <1>1, <1>2 DEF Linked

-----------------------------------------------------------------------------
(* The invariant.                                                          *)

LEMMA InitInvariant == Init => IInv
BY IdentityAssumption DEF Init, IInv, TypeOK, OneAccountPerProfile, LinksAreLive,
   RowsWereDrawn, SpeakerHoldsTheAccount, Idle, Message

\* A resolution by a caller that forwards nothing and leaves the rest alone.
LEMMA ResolutionInvariant ==
  ASSUME IInv, NEW n \in Nicks, NEW a \in Accounts \cup {None}, NEW g \in BOOLEAN,
         g \/ a = None, NEW id \in Ids, Resolves(n, a, g, id),
         Linked(nickOf', aliasOf'), nickOf'[id] # Absent,
         \A other \in Ids \ {id} : nickOf'[other] = nickOf[other],
         mapping' = mapping, ignored' = ignored,
         remaps' = remaps, work' \in Seq(Message),
         \/ perms' = perms /\ (perms = Idle \/ a = None)
         \/ g /\ perms' = [stage |-> "resolved", nick |-> n, acct |-> a, id |-> id]
  PROVE  IInv'
<1> USE IdentityAssumption
<1>1. /\ LinksAreLive' /\ RowsWereDrawn' /\ used' = used \cup {id} /\ used' \subseteq Ids
      /\ Linked(nickOf', aliasOf')
  BY ResolutionLinks
<1>2. /\ accountOf' \in [Accounts -> Ids \cup {None}]
      /\ \A b \in Accounts : accountOf'[b] = accountOf[b] \/ (b = a /\ accountOf'[b] = id)
      /\ OneAccountPerProfile'
      /\ (g /\ Backed(id)') => a # None /\ accountOf'[a] = id
  BY ResolutionStep
<1>3. TypeOK'
  BY <1>1, <1>2 DEF IInv, TypeOK, Linked, Idle
<1>4. SpeakerHoldsTheAccount'
  <2>1. CASE perms' = [stage |-> "resolved", nick |-> n, acct |-> a, id |-> id] /\ g
    BY <2>1, <1>2 DEF SpeakerHoldsTheAccount
  <2>2. CASE perms' = perms /\ perms = Idle
    BY <2>2 DEF SpeakerHoldsTheAccount, Idle
  <2>3. CASE perms' = perms /\ a = None
    <3>1. accountOf' = accountOf
      BY <2>3 DEF Resolves
    <3> QED BY <2>3, <3>1 DEF IInv, SpeakerHoldsTheAccount, Backed
  <2> QED BY <2>1, <2>2, <2>3
<1> QED BY <1>1, <1>2, <1>3, <1>4 DEF IInv

LEMMA BindNickStep ==
  ASSUME IInv, NEW old \in Nicks, NEW new \in Nicks, NEW a \in Accounts \cup {None},
         BindNick(old, new, a)
  PROVE  IInv'
<1>1. PICK id \in Ids :
        LET resolved == Moved(aliasOf, old, id)
            named    == Renamed(nickOf, id, old)
        IN /\ Resolves(old, a, TRUE, id)
           /\ IF Conflicting(resolved, new)
              THEN aliasOf' = resolved /\ nickOf' = named
              ELSE /\ aliasOf' = Moved(resolved, new, id)
                   /\ nickOf' = Renamed(named, id, new)
  BY DEF BindNick
<1> DEFINE resolved == Moved(aliasOf, old, id)
           named    == Renamed(nickOf, id, old)
<1>2. /\ Linked(named, resolved) /\ named[id] # Absent
      /\ \A other \in Ids \ {id} : named[other] = nickOf[other]
  BY MoveKeepsLinks DEF IInv, Linked, LinksAreLive, TypeOK
<1>3. /\ Linked(Renamed(named, id, new), Moved(resolved, new, id))
      /\ Renamed(named, id, new)[id] # Absent
      /\ \A other \in Ids \ {id} : Renamed(named, id, new)[other] = named[other]
  BY <1>2, MoveKeepsLinks
<1>4. /\ Linked(nickOf', aliasOf') /\ nickOf'[id] # Absent
      /\ \A other \in Ids \ {id} : nickOf'[other] = nickOf[other]
  BY <1>1, <1>2, <1>3
<1>5. /\ perms = Idle /\ perms' = perms /\ mapping' = mapping /\ ignored' = ignored
      /\ remaps' = remaps /\ work' = work /\ work \in Seq(Message)
  BY DEF BindNick, network, IInv, TypeOK
<1> QED BY <1>1, <1>4, <1>5, ResolutionInvariant

\* The other callers move the alias of the nick they resolved, and rename once.
LEMMA SingleMove ==
  ASSUME IInv, NEW n \in Nicks, NEW id \in Ids,
         aliasOf' = Moved(aliasOf, n, id), nickOf' = Renamed(nickOf, id, n)
  PROVE  /\ Linked(nickOf', aliasOf') /\ nickOf'[id] # Absent
         /\ \A other \in Ids \ {id} : nickOf'[other] = nickOf[other]
BY MoveKeepsLinks DEF IInv, Linked, LinksAreLive, TypeOK

LEMMA ResolveSpeakerStep ==
  ASSUME IInv, NEW n \in Nicks, NEW a \in Accounts \cup {None}, ResolveSpeaker(n, a)
  PROVE  IInv'
<1>1. PICK id \in Ids :
        /\ Resolves(n, a, TRUE, id)
        /\ aliasOf' = Moved(aliasOf, n, id)
        /\ nickOf' = Renamed(nickOf, id, n)
        /\ perms' = [stage |-> "resolved", nick |-> n, acct |-> a, id |-> id]
  BY DEF ResolveSpeaker
<1>2. /\ mapping' = mapping /\ ignored' = ignored /\ remaps' = remaps
      /\ work' = work /\ work \in Seq(Message)
  BY DEF ResolveSpeaker, network, IInv, TypeOK
<1> QED BY <1>1, <1>2, SingleMove, ResolutionInvariant

LEMMA SetTitleStep ==
  ASSUME IInv, NEW id \in Ids, SetTitle(id)
  PROVE  IInv'
<1> DEFINE n == Head(work).nick
<1>1. /\ Resolves(n, None, FALSE, id)
      /\ aliasOf' = Moved(aliasOf, n, id)
      /\ nickOf' = Renamed(nickOf, id, n)
  BY DEF SetTitle
<1>2. Head(work) \in Message /\ Tail(work) \in Seq(Message)
  BY DEF SetTitle, IInv, TypeOK
<1>3. /\ n \in Nicks /\ work' \in Seq(Message)
      /\ mapping' = mapping /\ remaps' = remaps /\ ignored' = ignored /\ perms' = perms
  BY <1>2 DEF SetTitle, Message, network
<1> HIDE DEF n
<1> QED BY <1>1, <1>3, SingleMove, ResolutionInvariant

LEMMA EnsureProfileStep ==
  ASSUME IInv, NEW n \in Nicks, EnsureProfile(n)
  PROVE  IInv'
<1>1. PICK id \in Ids :
        /\ Resolves(n, None, FALSE, id)
        /\ aliasOf' = Moved(aliasOf, n, id)
        /\ nickOf' = Renamed(nickOf, id, n)
  BY DEF EnsureProfile
<1>2. /\ mapping' = mapping /\ ignored' = ignored /\ remaps' = remaps
      /\ perms' = perms /\ work' = work /\ work \in Seq(Message)
  BY DEF EnsureProfile, network, IInv, TypeOK
<1> QED BY <1>1, <1>2, SingleMove, ResolutionInvariant

LEMMA EraseStep ==
  ASSUME IInv, NEW id \in Ids, Erase(id)
  PROVE  IInv'
<1> USE IdentityAssumption DEF IInv, Erase, network
<1>1. /\ \A n \in Nicks : aliasOf'[n] = IF aliasOf[n] = id THEN None ELSE aliasOf[n]
      /\ \A a \in Accounts : accountOf'[a] = IF accountOf[a] = id THEN None ELSE accountOf[a]
      /\ \A o \in Ids : nickOf'[o] = IF o = id THEN Absent ELSE nickOf[o]
  BY DEF Unlinked, TypeOK
<1>2. TypeOK'
  BY <1>1 DEF Unlinked, TypeOK, Idle
<1>3. OneAccountPerProfile'
  BY <1>1 DEF OneAccountPerProfile
<1>4. LinksAreLive'
  BY <1>1 DEF LinksAreLive, TypeOK
<1>5. RowsWereDrawn'
  BY <1>1 DEF RowsWereDrawn
<1>6. SpeakerHoldsTheAccount'
  <2>1. CASE perms = Idle
    BY <2>1 DEF SpeakerHoldsTheAccount, Idle
  <2>2. CASE perms \in [stage : {"resolved"}, nick : Nicks,
                        acct : Accounts \cup {None}, id : used \cup {None}]
    <3>1. Backed(perms.id)' /\ perms.id # None => Backed(perms.id) /\ perms.id # id
      BY <1>1 DEF Backed, TypeOK
    <3> QED BY <1>1, <2>2, <3>1 DEF SpeakerHoldsTheAccount
  <2> QED BY <2>1, <2>2 DEF TypeOK
<1> QED BY <1>2, <1>3, <1>4, <1>5, <1>6

\* Steps that leave the tables alone.
LEMMA OtherSteps ==
  ASSUME IInv, UNCHANGED rows,
         \/ Remap
         \/ \E n \in Nicks : ResolveFails(n)
         \/ CheckIgnored \/ DropIgnored \/ OtherMessage
         \/ \E n \in Nicks, on \in BOOLEAN : SetIgnored(n, on)
         \/ UNCHANGED vars
  PROVE  IInv'
<1> USE IdentityAssumption DEF IInv, rows, network
<1>1. OneAccountPerProfile' /\ LinksAreLive' /\ RowsWereDrawn'
  BY DEF OneAccountPerProfile, LinksAreLive, RowsWereDrawn
<1>2. CASE Remap
  BY <1>1, <1>2 DEF Remap, TypeOK, SpeakerHoldsTheAccount, Backed
<1>3. CASE \E n \in Nicks : ResolveFails(n)
  BY <1>1, <1>3 DEF ResolveFails, TypeOK, SpeakerHoldsTheAccount, Backed
<1>4. CASE CheckIgnored
  <2>1. perms \in [stage : {"resolved"}, nick : Nicks,
                   acct : Accounts \cup {None}, id : used \cup {None}]
    BY <1>4 DEF CheckIgnored, TypeOK, Idle
  <2>2. work' \in Seq(Message)
    BY <1>4, <2>1 DEF CheckIgnored, TypeOK, Message
  <2> QED BY <1>1, <1>4, <2>2 DEF CheckIgnored, TypeOK, SpeakerHoldsTheAccount, Idle
<1>5. CASE DropIgnored
  BY <1>1, <1>5 DEF DropIgnored, TypeOK, SpeakerHoldsTheAccount, Idle
<1>6. CASE OtherMessage
  BY <1>1, <1>6 DEF OtherMessage, TypeOK, SpeakerHoldsTheAccount, Backed
<1>7. CASE \E n \in Nicks, on \in BOOLEAN : SetIgnored(n, on)
  <2>1. PICK n \in Nicks, on \in BOOLEAN : SetIgnored(n, on)
    BY <1>7
  <2>2. PICK id \in Found(n, None, FALSE) \ {None} :
          ignored' = IF on THEN ignored \cup {id} ELSE ignored \ {id}
    BY <2>1 DEF SetIgnored
  <2>3. id \in used
    BY <2>2, FoundIsLive DEF RowsWereDrawn
  <2> QED BY <1>1, <2>1, <2>2, <2>3 DEF SetIgnored, TypeOK, SpeakerHoldsTheAccount, Backed
<1>8. CASE UNCHANGED vars
  BY <1>1, <1>8 DEF vars, TypeOK, SpeakerHoldsTheAccount, Backed
<1> QED BY <1>2, <1>3, <1>4, <1>5, <1>6, <1>7, <1>8

LEMMA NextStep ==
  ASSUME IInv, [Next]_vars
  PROVE  IInv'
<1>1. CASE \E old, new \in Nicks, a \in Accounts \cup {None} : old # new /\ BindNick(old, new, a)
  BY <1>1, BindNickStep
<1>2. CASE \E n \in Nicks, a \in Accounts \cup {None} : ResolveSpeaker(n, a)
  BY <1>2, ResolveSpeakerStep
<1>3. ASSUME NEW id \in Ids, SetTitle(id) PROVE IInv'
  BY <1>3, SetTitleStep
<1>4. CASE \E n \in Nicks : EnsureProfile(n)
  BY <1>4, EnsureProfileStep
<1>5. CASE \E id \in Ids : Erase(id)
  BY <1>5, EraseStep
<1>6. CASE \/ Remap
           \/ \E n \in Nicks : ResolveFails(n)
           \/ CheckIgnored \/ DropIgnored \/ OtherMessage
           \/ \E n \in Nicks, on \in BOOLEAN : SetIgnored(n, on)
           \/ UNCHANGED vars
  <2>1. UNCHANGED rows
    BY <1>6 DEF Remap, ResolveFails, CheckIgnored, DropIgnored, OtherMessage, SetIgnored,
                vars, rows, network
  <2> QED BY <1>6, <2>1, OtherSteps
<1> QED BY <1>1, <1>2, <1>3, <1>4, <1>5, <1>6 DEF Next

\* Nothing the permission stage, the workers, operators or erasures do breaks the
\* invariant: the tables stay linked and accounts stay apart.
THEOREM Invariance == Spec => []IInv
<1>1. Init => IInv
  BY InitInvariant
<1>2. IInv /\ [Next]_vars => IInv'
  BY NextStep
<1> QED BY <1>1, <1>2, PTL DEF Spec

\* Every reachable state of the identity tables is well typed.
THEOREM TypeCorrect == Spec => []TypeOK
<1>1. IInv => TypeOK
  BY DEF IInv
<1> QED BY <1>1, Invariance, PTL

\* A message is attributed to an account-backed profile only if its sender
\* presents that account.
THEOREM SpeakersHoldTheirAccount == Spec => []SpeakerHoldsTheAccount
<1>1. IInv => SpeakerHoldsTheAccount
  BY DEF IInv
<1> QED BY <1>1, Invariance, PTL

\* Two services accounts are never bound to the same profile.
THEOREM AccountsAreApart == Spec => []OneAccountPerProfile
<1>1. IInv => OneAccountPerProfile
  BY DEF IInv
<1> QED BY <1>1, Invariance, PTL

\* Aliases and account bindings never point to a profile row that is gone.
THEOREM LinksLeadToProfiles == Spec => []LinksAreLive
<1>1. IInv => LinksAreLive
  BY DEF IInv
<1> QED BY <1>1, Invariance, PTL

-----------------------------------------------------------------------------
(* Action properties.                                                      *)

Keeps ==
  /\ \A b \in Accounts : accountOf[b] # None
       => accountOf'[b] = accountOf[b] \/ nickOf'[accountOf[b]] = Absent
  /\ \A o \in used : nickOf[o] = Absent => nickOf'[o] = Absent

\* Resolutions leave the binding of an account and every other profile alone.
LEMMA ResolutionKeeps ==
  ASSUME IInv, NEW n \in Nicks, NEW a \in Accounts \cup {None}, NEW g \in BOOLEAN,
         g \/ a = None, NEW id \in Ids, Resolves(n, a, g, id),
         \A other \in Ids \ {id} : nickOf'[other] = nickOf[other]
  PROVE  Keeps
<1>1. /\ nickOf[id] # Absent \/ id \notin used
      /\ \A b \in Accounts : accountOf[b] # None => accountOf'[b] = accountOf[b]
  BY ResolutionStep
<1>2. \A o \in used : o \in Ids
  BY DEF IInv, TypeOK
<1> QED BY <1>1, <1>2 DEF Keeps

LEMMA StepKeeps ==
  ASSUME IInv, [Next]_vars
  PROVE  Keeps
<1>1. ASSUME NEW old \in Nicks, NEW new \in Nicks, NEW a \in Accounts \cup {None},
             BindNick(old, new, a)
      PROVE  Keeps
  <2>1. PICK id \in Ids :
          LET resolved == Moved(aliasOf, old, id)
              named    == Renamed(nickOf, id, old)
          IN /\ Resolves(old, a, TRUE, id)
             /\ IF Conflicting(resolved, new)
                THEN aliasOf' = resolved /\ nickOf' = named
                ELSE /\ aliasOf' = Moved(resolved, new, id)
                     /\ nickOf' = Renamed(named, id, new)
    BY <1>1 DEF BindNick
  <2> DEFINE named == Renamed(nickOf, id, old)
  <2>2. /\ named \in [Ids -> Nicks \cup {Absent, Suffixed}]
        /\ \A other \in Ids \ {id} : named[other] = nickOf[other]
    BY RenamedProperties DEF IInv, TypeOK
  <2>3. \A other \in Ids \ {id} : Renamed(named, id, new)[other] = named[other]
    BY <2>2, RenamedProperties
  <2>4. \A other \in Ids \ {id} : nickOf'[other] = nickOf[other]
    BY <2>1, <2>2, <2>3
  <2> QED BY <2>1, <2>4, ResolutionKeeps
<1>2. ASSUME NEW n \in Nicks, NEW a \in Accounts \cup {None}, NEW id \in Ids, NEW g \in BOOLEAN,
             g \/ a = None, Resolves(n, a, g, id), nickOf' = Renamed(nickOf, id, n)
      PROVE  Keeps
  <2>1. \A other \in Ids \ {id} : nickOf'[other] = nickOf[other]
    BY <1>2, RenamedProperties DEF IInv, TypeOK
  <2> QED BY <1>2, <2>1, ResolutionKeeps
<1>3. ASSUME NEW n \in Nicks, NEW a \in Accounts \cup {None}, ResolveSpeaker(n, a)
      PROVE  Keeps
  BY <1>2, <1>3 DEF ResolveSpeaker
<1>4. ASSUME NEW id \in Ids, SetTitle(id)
      PROVE  Keeps
  <2>1. Head(work) \in Message
    BY <1>4 DEF SetTitle, IInv, TypeOK
  <2>2. Head(work).nick \in Nicks
    BY <2>1 DEF Message
  <2> QED BY <1>2, <1>4, <2>2 DEF SetTitle
<1>5. ASSUME NEW n \in Nicks, EnsureProfile(n)
      PROVE  Keeps
  BY <1>2, <1>5 DEF EnsureProfile
<1>6. ASSUME NEW id \in Ids, Erase(id)
      PROVE  Keeps
  <2>1. /\ \A b \in Accounts : accountOf'[b] = IF accountOf[b] = id THEN None ELSE accountOf[b]
        /\ \A o \in Ids : nickOf'[o] = IF o = id THEN Absent ELSE nickOf[o]
    BY <1>6 DEF Erase, Unlinked, IInv, TypeOK
  <2> QED BY <2>1, <1>6 DEF Keeps, IInv, TypeOK
<1>7. ASSUME UNCHANGED rows
      PROVE  Keeps
  BY <1>7 DEF rows, network, Keeps
<1>8. CASE \/ Remap
           \/ \E n \in Nicks : ResolveFails(n)
           \/ CheckIgnored \/ DropIgnored \/ OtherMessage
           \/ \E n \in Nicks, on \in BOOLEAN : SetIgnored(n, on)
           \/ UNCHANGED vars
  <2>1. UNCHANGED rows
    BY <1>8 DEF Remap, ResolveFails, CheckIgnored, DropIgnored, OtherMessage, SetIgnored,
                vars, rows, network
  <2> QED BY <2>1, <1>7
<1> QED BY <1>1, <1>3, <1>4, <1>5, <1>6, <1>8 DEF Next

\* An account keeps the profile it was first bound to until that one is erased.
THEOREM AccountsAreStable == Spec => AccountsKeepTheirProfile
<1>1. IInv /\ [Next]_vars =>
        [\A a \in Accounts : accountOf[a] # None
           => accountOf'[a] = accountOf[a] \/ nickOf'[accountOf[a]] = Absent]_vars
  BY StepKeeps DEF Keeps
<1> QED BY <1>1, Invariance, PTL DEF Spec, AccountsKeepTheirProfile

\* The UUID of an erased profile is never given to a person again.
THEOREM ErasedIdsAreGone == Spec => ErasedIdsStayErased
<1>1. IInv /\ [Next]_vars =>
        [\A id \in used : nickOf[id] = Absent => nickOf'[id] = Absent]_vars
  BY StepKeeps DEF Keeps
<1> QED BY <1>1, Invariance, PTL DEF Spec, ErasedIdsStayErased

\* A moved alias leaves a row of the nick that leads to the profile.
LEMMA MoveReaches ==
  ASSUME NEW al \in [Nicks -> Ids \cup {None}], NEW n \in Nicks, NEW id \in Ids
  PROVE  LET new == Moved(al, n, id)
         IN \E row \in AliasRows(new, n) : new[row] = id
<1> USE IdentityAssumption
<1> DEFINE row == IF AliasRows(al, n) = {} THEN n ELSE Matched(al, n)
           new == Moved(al, n, id)
<1>1. row \in Nicks /\ Equivalent(row, n)
  BY MatchedIsARow DEF AliasRows, Equivalent
<1>2. new[row] = id
  BY <1>1 DEF Moved
<1>3. row \in AliasRows(new, n)
  BY <1>1, <1>2 DEF AliasRows
<1> QED BY <1>2, <1>3

\* Only a profile that no account backs, or a new one, is found for a guest; resolving
\* the guest backs it no more.
LEMMA GuestStaysUnbacked ==
  ASSUME IInv, NEW n \in Nicks, NEW id \in Ids, Resolves(n, None, TRUE, id)
  PROVE  ~Backed(id)'
BY ResolutionStep

\* After a nick change whose new nick is not in conflict, that nick leads to the profile
\* the old one was resolved to.
LEMMA NickChangeKeeps ==
  ASSUME IInv, NEW old \in Nicks, NEW new \in Nicks, NEW a \in Accounts \cup {None},
         BindNick(old, new, a), ~Conflicting(aliasOf, new)'
  PROVE  \E id \in Found(old, a, TRUE) \cup Fresh : Found(new, a, TRUE)' = {id}
<1> USE IdentityAssumption
<1>1. PICK id \in Ids :
        LET resolved == Moved(aliasOf, old, id)
            named    == Renamed(nickOf, id, old)
        IN /\ Resolves(old, a, TRUE, id)
           /\ IF Conflicting(resolved, new)
              THEN aliasOf' = resolved /\ nickOf' = named
              ELSE /\ aliasOf' = Moved(resolved, new, id)
                   /\ nickOf' = Renamed(named, id, new)
  BY DEF BindNick
<1>2. id \in Found(old, a, TRUE) \cup Fresh
  BY <1>1 DEF Resolves
<1>3. mapping' = mapping
  BY DEF BindNick, network
<1>4. CASE a # None
  <2>1. accountOf'[a] = id
    BY <1>1, <1>4 DEF Resolves, IInv, TypeOK
  <2>2. Found(new, a, TRUE)' = {id}
    BY <2>1, <1>4 DEF Found
  <2> QED BY <1>2, <2>2
<1>5. CASE a = None
  <2> DEFINE resolved == Moved(aliasOf, old, id)
  <2>1. ~Backed(id)'
    BY <1>1, <1>5, GuestStaysUnbacked
  <2>2. resolved \in [Nicks -> Ids \cup {None}]
    BY MovedProperties DEF IInv, TypeOK
  <2>3. ~Conflicting(resolved, new)
    <3>1. CASE Conflicting(resolved, new)
      <4>1. aliasOf' = resolved
        BY <1>1, <3>1
      <4>2. Conflicting(aliasOf, new)'
        BY <3>1, <4>1, <1>3 DEF Conflicting, AliasRows, Equivalent
      <4> QED BY <4>2
    <3> QED BY <3>1
  <2>4. aliasOf' = Moved(resolved, new, id)
    BY <1>1, <2>3
  <2>5. aliasOf' \in [Nicks -> Ids \cup {None}]
    BY <2>2, <2>4, MovedProperties
  <2>6. PICK row \in AliasRows(aliasOf', new) : aliasOf'[row] = id
    BY <2>2, <2>4, MoveReaches
  <2>7. AliasRows(aliasOf, new)' = AliasRows(aliasOf', new)
    BY <1>3 DEF AliasRows, Equivalent
  <2>8. \A m \in AliasRows(aliasOf, new)' : aliasOf'[m] = id
    BY <2>6, <2>7 DEF Conflicting
  <2>9. Matched(aliasOf, new)' \in AliasRows(aliasOf, new)'
    <3>1. CASE aliasOf'[new] # None
      BY <3>1 DEF Matched, AliasRows, Equivalent
    <3>2. CASE aliasOf'[new] = None
      <4>1. Matched(aliasOf, new)' = CHOOSE m \in AliasRows(aliasOf, new)' : TRUE
        BY <3>2 DEF Matched
      <4>2. \E m : m \in AliasRows(aliasOf, new)'
        BY <2>6, <2>7
      <4> QED BY <4>1, <4>2
    <3> QED BY <3>1, <3>2
  <2>10. Holders(new)' = {id}
    BY <2>6, <2>7, <2>8, <2>9 DEF Holders
  <2>11. Found(new, a, TRUE)' = {id}
    BY <1>5, <2>1, <2>10 DEF Found
  <2> QED BY <1>2, <2>11
<1> QED BY <1>4, <1>5

\* "NICK changes preserve profile and module identity" (SPEC.md): whoever changes the nick
\* is the same person under the new one, unless that nick leads to several.
THEOREM NickChangesAreFollowed == Spec => NickChangesKeepTheProfile
<1>1. ASSUME IInv, NEW old \in Nicks, NEW new \in Nicks, NEW a \in Accounts \cup {None}
      PROVE  \/ \E id \in Found(old, a, TRUE) \cup Fresh : Found(new, a, TRUE)' = {id}
             \/ Conflicting(aliasOf, new)'
             \/ ~BindNick(old, new, a)
  BY <1>1, NickChangeKeeps
<1>2. IInv /\ [Next]_vars =>
        [perms = Idle /\ perms' = Idle /\ work' = work /\ rows' # rows =>
           \A old, new \in Nicks, a \in Accounts \cup {None} :
             \/ \E id \in Found(old, a, TRUE) \cup Fresh : Found(new, a, TRUE)' = {id}
             \/ Conflicting(aliasOf, new)'
             \/ ~BindNick(old, new, a)]_vars
  BY <1>1
<1> QED BY <1>2, Invariance, PTL DEF Spec, NickChangesKeepTheProfile

-----------------------------------------------------------------------------
(* Aliases, while the casemapping stays what it is.                        *)

\* With one alias per nick, moving an alias keeps it so: the row a lookup settles
\* on is the only one of the nick.
LEMMA MoveKeepsOneAlias ==
  ASSUME NEW al \in [Nicks -> Ids \cup {None}], NEW n \in Nicks, NEW id \in Ids,
         \A m, k \in Nicks : al[m] # None /\ al[k] # None /\ Equivalent(m, k) => m = k
  PROVE  LET new == Moved(al, n, id)
         IN \A m, k \in Nicks : new[m] # None /\ new[k] # None /\ Equivalent(m, k) => m = k
<1> DEFINE new == Moved(al, n, id)
<1>1. CASE AliasRows(al, n) = {}
  <2>1. \A m \in Nicks : al[m] # None => ~Equivalent(m, n)
    BY <1>1 DEF AliasRows
  <2>2. \A m \in Nicks : new[m] = IF m = n THEN id ELSE al[m]
    BY <1>1 DEF Moved
  <2> QED BY <2>1, <2>2 DEF Equivalent
<1>2. CASE AliasRows(al, n) # {}
  <2>1. Matched(al, n) \in Nicks /\ al[Matched(al, n)] # None
    BY <1>2, MatchedIsARow DEF AliasRows
  <2>2. \A m \in Nicks : new[m] = IF m = Matched(al, n) THEN id ELSE al[m]
    BY <1>2, <2>1 DEF Moved
  <2> QED BY <2>1, <2>2
<1> QED BY <1>1, <1>2

\* One nick has one alias however it is spelled, on a network that keeps its
\* casemapping; a nick change between two spellings finds the same row again.
THEOREM AliasesAreUnique ==
  Spec => []OneAliasPerNick
<1>1. Init => OneAliasPerNick
  BY DEF Init, OneAliasPerNick
<1>2. ASSUME IInv, OneAliasPerNick, [Next]_vars, remaps' = 0
      PROVE  OneAliasPerNick'
  <2> DEFINE Unique(al) == \A m, k \in Nicks : al[m] # None /\ al[k] # None /\ Equivalent(m, k) => m = k
  <2>1. Unique(aliasOf) /\ aliasOf \in [Nicks -> Ids \cup {None}]
    <3>1. remaps = 0
      <4>1. remaps \in Nat
        BY <1>2, IdentityAssumption DEF IInv, TypeOK
      <4>2. remaps' \in {remaps, remaps + 1}
        BY <1>2 DEF Next, Remap, BindNick, ResolveSpeaker, ResolveFails, CheckIgnored,
           DropIgnored, SetTitle, OtherMessage, EnsureProfile, SetIgnored, Erase, vars, network
      <4> QED BY <1>2, <4>1, <4>2
    <3> QED BY <1>2, <3>1 DEF OneAliasPerNick, IInv, TypeOK
  <2>2. ASSUME NEW al \in [Nicks -> Ids \cup {None}], Unique(al), NEW n \in Nicks, NEW id \in Ids
        PROVE  Unique(Moved(al, n, id)) /\ Moved(al, n, id) \in [Nicks -> Ids \cup {None}]
    BY <2>2, MoveKeepsOneAlias, MovedProperties
  <2>3. mapping' = mapping
    <3>1. ~Remap
      <4>1. remaps \in Nat
        BY <1>2, IdentityAssumption DEF IInv, TypeOK
      <4> QED BY <1>2, <4>1 DEF Remap
    <3> QED
      BY <1>2, <3>1 DEF Next, BindNick, ResolveSpeaker, ResolveFails, CheckIgnored, DropIgnored,
         SetTitle, OtherMessage, EnsureProfile, SetIgnored, Erase, vars, network
  <2>4. Unique(aliasOf') => OneAliasPerNick'
    BY <2>3 DEF OneAliasPerNick, Equivalent
  <2> HIDE DEF Unique
  <2>5. ASSUME NEW old \in Nicks, NEW new \in Nicks, NEW a \in Accounts \cup {None},
               BindNick(old, new, a)
        PROVE  Unique(aliasOf')
    <3>1. PICK id \in Ids : aliasOf' \in {Moved(aliasOf, old, id), Moved(Moved(aliasOf, old, id), new, id)}
      BY <2>5 DEF BindNick
    <3> QED BY <2>1, <2>2, <3>1
  <2>6. ASSUME NEW n \in Nicks, NEW id \in Ids, aliasOf' = Moved(aliasOf, n, id)
        PROVE  Unique(aliasOf')
    BY <2>1, <2>2, <2>6
  <2>7. ASSUME NEW n \in Nicks, NEW a \in Accounts \cup {None}, ResolveSpeaker(n, a)
        PROVE  Unique(aliasOf')
    BY <2>6, <2>7 DEF ResolveSpeaker
  <2>8. ASSUME NEW id \in Ids, SetTitle(id)
        PROVE  Unique(aliasOf')
    <3>1. Head(work) \in Message
      BY <1>2, <2>8 DEF SetTitle, IInv, TypeOK
    <3>2. Head(work).nick \in Nicks
      BY <3>1 DEF Message
    <3> QED BY <2>6, <2>8, <3>2 DEF SetTitle
  <2>9. ASSUME NEW n \in Nicks, EnsureProfile(n)
        PROVE  Unique(aliasOf')
    BY <2>6, <2>9 DEF EnsureProfile
  <2>10. ASSUME NEW id \in Ids, Erase(id)
         PROVE  Unique(aliasOf')
    <3>1. \A n \in Nicks : aliasOf'[n] = IF aliasOf[n] = id THEN None ELSE aliasOf[n]
      BY <2>1, <2>10 DEF Erase, Unlinked
    <3> QED BY <2>1, <3>1 DEF Unique
  <2>11. CASE aliasOf' = aliasOf
    BY <2>1, <2>4, <2>11
  <2>12. CASE \/ Remap
              \/ \E n \in Nicks : ResolveFails(n)
              \/ CheckIgnored \/ DropIgnored \/ OtherMessage
              \/ \E n \in Nicks, on \in BOOLEAN : SetIgnored(n, on)
              \/ UNCHANGED vars
    <3>1. aliasOf' = aliasOf
      BY <2>12 DEF Remap, ResolveFails, CheckIgnored, DropIgnored, OtherMessage, SetIgnored,
                  vars, rows, network
    <3> QED BY <2>11, <3>1
  <2> QED BY <1>2, <2>4, <2>5, <2>7, <2>8, <2>9, <2>10, <2>12 DEF Next
<1>3. IInv /\ OneAliasPerNick /\ [Next]_vars => OneAliasPerNick'
  BY <1>2 DEF OneAliasPerNick
<1> QED BY <1>1, <1>3, Invariance, PTL DEF Spec

\* Both together, as the run checks them.
THEOREM TablesStaySound == Spec => []TablesAreSound
  BY LinksLeadToProfiles, AliasesAreUnique, PTL DEF TablesAreSound

=============================================================================
