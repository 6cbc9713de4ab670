------------------------------ MODULE Identity ------------------------------
(***************************************************************************)
(* Profiles of one network: who a message is attributed to.  A profile is  *)
(* a row with a UUID; nick aliases and services accounts point to it       *)
(* (db.rs).  The permission stage (perms.rs) resolves each message and     *)
(* nick change with several requests to the database thread, which serves  *)
(* module workers, the terminal interface and erasures in between.         *)
(*                                                                         *)
(* Nicks compare under the casemapping in force, which every connection    *)
(* resets to the default before the server announces its own.  A sender's  *)
(* account is None when the message carries no account, or "*".            *)
(***************************************************************************)
EXTENDS Naturals, Sequences, FiniteSets

CONSTANTS
  Ids,          \* UUIDs of profiles
  Nicks,        \* spellings of nicks
  Accounts,     \* services accounts
  Mappings,     \* casemappings
  Fold,         \* Fold[m][n]: the folded spelling of n under m
  MaxRemaps,    \* bound: changes of the casemapping while the program runs
  MaxWork,      \* capacity of the queue to the workers
  None          \* no profile, no account, no nick

Absent == <<"no row">>       \* the profile does not exist
Suffixed == <<"nick~uuid">>  \* it does, under a name made unique by its UUID

ASSUME IdentityAssumption ==
  /\ None \notin Ids \cup Nicks \cup Accounts
  /\ {Absent, Suffixed} \cap Nicks = {}
  /\ Fold \in [Mappings -> [Nicks -> Nicks]]
  /\ MaxRemaps \in Nat
  /\ MaxWork \in Nat \ {0}

VARIABLES
  mapping,      \* the casemapping registered for the network
  remaps,       \* how often it changed (history)
  nickOf,       \* profiles.nick of each profile, or Absent
  aliasOf,      \* profile_aliases: nick -> profile
  accountOf,    \* profile_accounts: account -> profile
  ignored,      \* ignored_profiles
  perms,        \* the message the permission stage is working on
  work,         \* messages forwarded to the workers
  used          \* UUIDs ever drawn

network == <<mapping, remaps>>
rows == <<nickOf, aliasOf, accountOf, used>>
vars == <<network, rows, ignored, perms, work>>

Idle == [stage |-> "idle"]
Message == [nick : Nicks, id : Ids \cup {None}]

-----------------------------------------------------------------------------
(* Looking a nick up.                                                      *)

Equivalent(m, n) == Fold[mapping][m] = Fold[mapping][n]

AliasRows(al, n) == {m \in Nicks : al[m] # None /\ Equivalent(m, n)}

\* Several profiles own equivalent aliases: every lookup of the nick fails.
Conflicting(al, n) == \E m1, m2 \in AliasRows(al, n) : al[m1] # al[m2]

\* The alias row a lookup settles on: the exact spelling before any other.
Matched(al, n) ==
  IF al[n] # None THEN n ELSE CHOOSE m \in AliasRows(al, n) : TRUE

Backed(id) == \E a \in Accounts : accountOf[a] = id

NamedLike(n) ==
  {id \in Ids : nickOf[id] \in Nicks /\ Equivalent(nickOf[id], n)}

Holders(n) ==
  IF AliasRows(aliasOf, n) = {} THEN NamedLike(n) ELSE {aliasOf[Matched(aliasOf, n)]}

\* A mutant: only senders without an account are guarded.
FoundGuardingGuests(n, acct, guarded) ==
  IF acct # None /\ accountOf[acct] # None THEN {accountOf[acct]}
  ELSE IF Holders(n) = {} THEN {None}
  ELSE {IF guarded /\ acct = None /\ Backed(id) THEN None ELSE id : id \in Holders(n)}

\* A mutant: an unclaimed nick wins over the account.
FoundByNickFirst(n, acct, guarded) ==
  IF Holders(n) # {} /\ \A id \in Holders(n) : ~(guarded /\ Backed(id)) THEN Holders(n)
  ELSE IF acct # None /\ accountOf[acct] # None THEN {accountOf[acct]}
  ELSE {None}

\* A mutant: nobody is guarded.
FoundUnguarded(n, acct, guarded) ==
  IF acct # None /\ accountOf[acct] # None THEN {accountOf[acct]}
  ELSE IF Holders(n) = {} THEN {None} ELSE Holders(n)

\* What the profile lookup may return: the account's profile first, then the one
\* the nick leads to, which a guarded lookup refuses if an account backs it.
Found(n, acct, guarded) ==
  IF acct # None /\ accountOf[acct] # None THEN {accountOf[acct]}
  ELSE IF Holders(n) = {} THEN {None}
  ELSE {IF guarded /\ Backed(id) THEN None ELSE id : id \in Holders(n)}

\* A mutant: an existing alias stays where it is.
MovedIfFree(al, n, id) ==
  IF AliasRows(al, n) = {} THEN [al EXCEPT ![n] = id] ELSE al

\* A mutant: the row is looked for by its exact spelling.
MovedExactly(al, n, id) == [al EXCEPT ![n] = id]

\* The alias table after giving nick n to profile id.
Moved(al, n, id) ==
  [al EXCEPT ![IF AliasRows(al, n) = {} THEN n ELSE Matched(al, n)] = id]

\* UPDATE OR IGNORE profiles SET nick: the name is kept if another row has it.  A
\* row just inserted has the nick, or a suffixed form if the nick was occupied.
Renamed(nm, id, n) ==
  IF \E other \in Ids \ {id} : nm[other] = n
  THEN [nm EXCEPT ![id] = IF @ = Absent THEN Suffixed ELSE @]
  ELSE [nm EXCEPT ![id] = n]

\* A mutant: identifiers of deleted profiles are used again.
FreshAgain == {id \in Ids : nickOf[id] = Absent}

Fresh == Ids \ used

\* The resolution of a nick returns profile id, which may be a new one, and binds
\* the account; the alias and the name of id are left to the caller.
Resolves(n, acct, guarded, id) ==
  /\ ~Conflicting(aliasOf, n)
  /\ \/ id \in Found(n, acct, guarded) \ {None}
     \/ None \in Found(n, acct, guarded) /\ id \in Fresh
  /\ used' = used \cup {id}
  /\ accountOf' = IF acct = None THEN accountOf ELSE [accountOf EXCEPT ![acct] = id]

-----------------------------------------------------------------------------
Init ==
  /\ mapping \in Mappings /\ remaps = 0
  /\ nickOf = [id \in Ids |-> Absent]
  /\ aliasOf = [n \in Nicks |-> None]
  /\ accountOf = [a \in Accounts |-> None]
  /\ ignored = {}
  /\ perms = Idle
  /\ work = <<>>
  /\ used = {}

\* A connection starts with the default casemapping; a 005 line sets another.
Remap ==
  /\ remaps < MaxRemaps /\ remaps' = remaps + 1
  /\ mapping' \in Mappings \ {mapping}
  /\ UNCHANGED <<rows, ignored, perms, work>>

(* The permission stage.                                                   *)

\* A nick change: the old nick is resolved for its sender and the new one becomes
\* another alias; if the new nick is in conflict, only the first part is kept.
BindNick(old, new, acct) ==
  /\ perms = Idle
  /\ \E id \in Ids :
       LET resolved == Moved(aliasOf, old, id)
           named    == Renamed(nickOf, id, old)
       IN /\ Resolves(old, acct, TRUE, id)
          /\ IF Conflicting(resolved, new)
             THEN aliasOf' = resolved /\ nickOf' = named
             ELSE /\ aliasOf' = Moved(resolved, new, id)
                  /\ nickOf' = Renamed(named, id, new)
  /\ UNCHANGED <<network, ignored, perms, work>>

\* A message is attributed to its sender.
ResolveSpeaker(n, acct) ==
  /\ perms = Idle
  /\ \E id \in Ids :
       /\ Resolves(n, acct, TRUE, id)
       /\ aliasOf' = Moved(aliasOf, n, id)
       /\ nickOf' = Renamed(nickOf, id, n)
       /\ perms' = [stage |-> "resolved", nick |-> n, acct |-> acct, id |-> id]
  /\ UNCHANGED <<network, ignored, work>>

\* A nick in conflict resolves to nobody; the message is forwarded all the same.
ResolveFails(n) ==
  /\ perms = Idle
  /\ Conflicting(aliasOf, n)
  /\ perms' = [stage |-> "resolved", nick |-> n, acct |-> None, id |-> None]
  /\ UNCHANGED <<network, rows, ignored, work>>

\* Messages of ignored profiles are dropped, all others go to the workers.
CheckIgnored ==
  /\ perms.stage = "resolved"
  /\ perms.id \notin ignored
  /\ Len(work) < MaxWork
  /\ work' = Append(work, [nick |-> perms.nick, id |-> perms.id])
  /\ perms' = Idle
  /\ UNCHANGED <<network, rows, ignored>>

DropIgnored ==
  /\ perms.stage = "resolved"
  /\ perms.id \in ignored
  /\ perms' = Idle
  /\ UNCHANGED <<network, rows, ignored, work>>

(* Module workers.                                                         *)

\* !title: the worker names the profile to edit by the nick in the message.
SetTitle(id) ==
  /\ work # <<>>
  /\ LET n == Head(work).nick
     IN /\ Resolves(n, None, FALSE, id)
        /\ aliasOf' = Moved(aliasOf, n, id)
        /\ nickOf' = Renamed(nickOf, id, n)
  /\ work' = Tail(work)
  /\ UNCHANGED <<network, ignored, perms>>

\* Any other message, and an edit whose nick is in conflict.
OtherMessage ==
  /\ work # <<>>
  /\ work' = Tail(work)
  /\ UNCHANGED <<network, rows, ignored, perms>>

\* profile_ensure: a module looks a person up by nick, creating the profile.
EnsureProfile(n) ==
  /\ \E id \in Ids :
       /\ Resolves(n, None, FALSE, id)
       /\ aliasOf' = Moved(aliasOf, n, id)
       /\ nickOf' = Renamed(nickOf, id, n)
  /\ UNCHANGED <<network, ignored, perms, work>>

(* Operators and erasures.                                                 *)

SetIgnored(n, on) ==
  /\ ~Conflicting(aliasOf, n)
  /\ \E id \in Found(n, None, FALSE) \ {None} :
       ignored' = IF on THEN ignored \cup {id} ELSE ignored \ {id}
  /\ UNCHANGED <<network, rows, perms, work>>

\* A mutant: only the rows of accounts are deleted.
UnlinkedFromAccounts(table, id) ==
  IF DOMAIN table = Accounts
  THEN [x \in DOMAIN table |-> IF table[x] = id THEN None ELSE table[x]]
  ELSE table

\* The end of an erasure: everything but the ignore list forgets the profile.
Unlinked(table, id) == [x \in DOMAIN table |-> IF table[x] = id THEN None ELSE table[x]]

Erase(id) ==
  /\ nickOf[id] # Absent
  /\ aliasOf' = Unlinked(aliasOf, id)
  /\ accountOf' = Unlinked(accountOf, id)
  /\ nickOf' = [nickOf EXCEPT ![id] = Absent]
  /\ UNCHANGED <<network, ignored, perms, work, used>>

Next ==
  \/ Remap
  \/ \E old, new \in Nicks, a \in Accounts \cup {None} : old # new /\ BindNick(old, new, a)
  \/ \E n \in Nicks, a \in Accounts \cup {None} : ResolveSpeaker(n, a)
  \/ \E n \in Nicks : ResolveFails(n)
  \/ CheckIgnored \/ DropIgnored
  \/ \E id \in Ids : SetTitle(id)
  \/ OtherMessage
  \/ \E n \in Nicks : EnsureProfile(n)
  \/ \E n \in Nicks, on \in BOOLEAN : SetIgnored(n, on)
  \/ \E id \in Ids : Erase(id)

Spec == Init /\ [][Next]_vars

-----------------------------------------------------------------------------
(* Properties.                                                             *)

\* The tables, the stage and the queued messages are well typed; only UUIDs
\* that were drawn are ignored or spoken for.
TypeOK ==
  /\ mapping \in Mappings /\ remaps \in 0..MaxRemaps
  /\ nickOf \in [Ids -> Nicks \cup {Absent, Suffixed}]
  /\ aliasOf \in [Nicks -> Ids \cup {None}]
  /\ accountOf \in [Accounts -> Ids \cup {None}]
  /\ ignored \subseteq used /\ used \subseteq Ids
  /\ \/ perms = Idle
     \/ perms \in [stage : {"resolved"}, nick : Nicks,
                   acct : Accounts \cup {None}, id : used \cup {None}]
  /\ work \in Seq(Message)

\* "An account-backed profile is only given to a sender presenting that account"
\* (SPEC.md): when the permission stage attributes a message to a profile that any
\* account backs, the sender is logged in to that account, whatever nick changes,
\* lookups, first logins and erasures ran before or since.
SpeakerHoldsTheAccount ==
  perms.stage = "resolved" /\ perms.id # None /\ Backed(perms.id)
    => perms.acct # None /\ accountOf[perms.acct] = perms.id

\* Two accounts never end up on one profile, although the account rows are written
\* with an unconditional upsert: people who share a nick are not merged.
OneAccountPerProfile ==
  \A a, b \in Accounts : accountOf[a] # None /\ accountOf[a] = accountOf[b] => a = b

\* Aliases and accounts lead to profiles that exist: the tables have no foreign
\* keys, and a link to a deleted row makes every later lookup of it fail.
LinksAreLive ==
  /\ \A n \in Nicks : aliasOf[n] # None => nickOf[aliasOf[n]] # Absent
  /\ \A a \in Accounts : accountOf[a] # None => nickOf[accountOf[a]] # Absent

\* "Profiles receive a stable per-network UUID": an account keeps its profile until
\* that profile is erased, under whatever nicks it speaks.
AccountsKeepTheirProfile ==
  [][\A a \in Accounts : accountOf[a] # None
       => accountOf'[a] = accountOf[a] \/ nickOf'[accountOf[a]] = Absent]_vars

\* "NICK changes preserve profile and module identity" (SPEC.md): the next message
\* under the new nick is attributed to the profile the old nick had.
NickChangesKeepTheProfile ==
  [][perms = Idle /\ perms' = Idle /\ work' = work /\ rows' # rows =>
       \A old, new \in Nicks, a \in Accounts \cup {None} :
         \/ \E id \in Found(old, a, TRUE) \cup Fresh : Found(new, a, TRUE)' = {id}
         \/ Conflicting(aliasOf, new)'
         \/ ~BindNick(old, new, a)]_vars

\* Profiles are only stored under UUIDs that were drawn (used in the proofs).
RowsWereDrawn == \A id \in Ids : nickOf[id] # Absent => id \in used

\* At most one alias per nick, whichever of its spellings people use, as long as
\* the network keeps its casemapping: upsert_profile_alias moves the row it finds.
OneAliasPerNick ==
  remaps = 0 =>
    \A m, n \in Nicks : aliasOf[m] # None /\ aliasOf[n] # None /\ Equivalent(m, n) => m = n

\* An erased profile does not come back: its UUID is never drawn again, so a link
\* or a module row that still holds it leads to nobody.
ErasedIdsStayErased ==
  [][\A id \in used : nickOf[id] = Absent => nickOf'[id] = Absent]_vars

\* The tables of links stay sound whatever resolutions, nick changes, lookups and
\* erasures ran: no link leads to a deleted row, and no nick has two.
TablesAreSound == LinksAreLive /\ OneAliasPerNick

=============================================================================
