------------------------------- MODULE Console -------------------------------
(* What the operator does to people's records from the terminal while the bot   *)
(* runs: administrators, whose entries bind to the first to use them            *)
(* (db.rs resolve_role_mapped), profile repairs and resets of a module's rows   *)
(* (tui/mod.rs, modules/mod.rs, db.rs profile_repair_checked and                *)
(* kv_apply_module_checked).  What it previews, others may change before it is  *)
(* applied.                                                                     *)
EXTENDS Naturals, FiniteSets, FiniteSetsExt

CONSTANTS
  Spellings,     \* of one nick, equal under the network's casemapping, as they sort
  Cased,         \* those that differ in the case of letters only, for which NOCASE is the same
  Accounts, NoAccount, Hosts,
  Fields, Titles,          \* of a profile
  People, Subject, Keys,   \* a module's rows, and whose profile is open
  MaxSaves, MaxEdits, MaxDeeds, MaxMishaps   \* bounds: saved entries; edits of a profile; a module's writes; failed calls

ConsoleAssumption ==
  /\ Spellings \subseteq Nat /\ Cased \subseteq Spellings /\ NoAccount \notin Accounts /\ Subject \in People

VARIABLES db, world

Nothing == [step |-> "nothing"]
Unbound(pinned) == [pinned |-> pinned, account |-> NoAccount, host |-> {}]
Over(f, g) == [x \in DOMAIN f \cup DOMAIN g |-> IF x \in DOMAIN f THEN f[x] ELSE g[x]]

\* db: the administrators' rows (a partial function), one profile and its fields, and the module's
\* rows, each with how much it holds of each person.  world: what the console shows and is about to
\* do, the module's handler and its plan; trusted, seen and deeds are history.
Init ==
  /\ db = [admins |-> <<>>, profile |-> [id |-> 1, fields |-> [f \in Fields |-> CHOOSE t \in Titles : TRUE]],
           rows |-> [k \in Keys |-> [p \in People |-> 0]]]
  /\ world = [trusted |-> [n \in Spellings |-> {}], console |-> Nothing, snapshot |-> Nothing,
              handler |-> Nothing, deeds |-> [k \in Keys |-> [p \in People |-> 0]],
              saves |-> 0, edits |-> 0, did |-> 0, mishaps |-> 0]

Failing == world.mishaps < MaxMishaps
Mishap(w) == [w EXCEPT !.mishaps = @ + 1]

-----------------------------------------------------------------------------
\* save_admin and upsert_admin: an entry is saved unbound.
SaveAdmin ==
  /\ world.saves < MaxSaves
  /\ \E n \in Spellings, a \in Accounts \cup {NoAccount} :
       /\ db' = [db EXCEPT !.admins = [x \in DOMAIN @ \cup {n} |-> IF x = n THEN Unbound(a) ELSE @[x]]]
       /\ world' = [world EXCEPT !.saves = @ + 1, !.trusted[n] = {}]

\* delete_admin: every entry NOCASE takes for this nick.
DeleteAdmin ==
  \E n \in DOMAIN db.admins :
    LET gone == IF n \in Cased THEN Cased ELSE {n}
    IN /\ db' = [db EXCEPT !.admins = [x \in DOMAIN @ \ gone |-> @[x]]]
       /\ world' = [world EXCEPT !.trusted = [x \in Spellings |-> IF x \in gone THEN {} ELSE @[x]]]

\* A mutant: the entry is looked for again, by the sender's spelling.
BoundAsSpelled(n, spelling, account, host) ==
  IF spelling \in DOMAIN db.admins THEN [db EXCEPT !.admins[spelling].account = account, !.admins[spelling].host = host] ELSE db
\* The row that was matched is bound.
Bound(n, spelling, account, host) == [db EXCEPT !.admins[n].account = account, !.admins[n].host = host]

\* resolve_role_mapped: the first entry that is this nick.  A pinned account, else a bound account,
\* else a bound hostmask must be the sender's; an entry bound to nothing binds to this sender.
Granted(n, identity) == [world EXCEPT !.trusted[n] = @ \cup {identity}]
ResolveRole(spelling, account, host) ==
  /\ DOMAIN db.admins # {}
  /\ LET n == Min(DOMAIN db.admins)
         row == db.admins[n]
         logged == account # NoAccount
     IN \/ /\ row.pinned # NoAccount \/ row.account # NoAccount
           /\ account = IF row.pinned # NoAccount THEN row.pinned ELSE row.account
           /\ db' = db /\ world' = Granted(n, <<"account", account>>)
        \/ /\ row.pinned = NoAccount /\ row.account = NoAccount /\ row.host = {host}
           /\ db' = db /\ world' = Granted(n, <<"host", host>>)
        \/ /\ row.pinned = NoAccount /\ row.account = NoAccount /\ row.host = {}
           /\ \/ /\ db' = Bound(n, spelling, account, IF logged THEN {} ELSE {host})
                 /\ world' = Granted(n, IF logged THEN <<"account", account>> ELSE <<"host", host>>)
              \/ Failing /\ db' = db /\ world' = Mishap(world)

-----------------------------------------------------------------------------
\* The profile's owner edits it; an erasure takes it away, and the next message makes a new one.
SetField ==
  /\ world.edits < MaxEdits
  /\ \E f \in Fields, t \in Titles : db' = [db EXCEPT !.profile.fields[f] = t]
  /\ world' = [world EXCEPT !.edits = @ + 1]
Erased ==
  /\ world.edits < MaxEdits
  /\ db' = [db EXCEPT !.profile = [id |-> @.id + 1, fields |-> [f \in Fields |-> CHOOSE t \in Titles : TRUE]]]
  /\ world' = [world EXCEPT !.edits = @ + 1]

\* A module's handler for somebody: it reads a row and later saves it.
HandlerReads ==
  /\ world.handler = Nothing /\ world.did < MaxDeeds
  /\ \E k \in Keys, p \in People : world' = [world EXCEPT !.did = @ + 1, !.handler = [step |-> "write", key |-> k, for |-> p, row |-> db.rows[k]]]
  /\ UNCHANGED db
HandlerWrites ==
  /\ world.handler.step = "write"
  /\ LET h == world.handler
     IN /\ db' = [db EXCEPT !.rows[h.key] = [h.row EXCEPT ![h.for] = @ + 1]]
        /\ world' = [world EXCEPT !.handler = Nothing, !.deeds[h.key][h.for] = @ + 1]

-----------------------------------------------------------------------------
\* open_profiles, open_profile_detail: what is shown is what the list read.
OpenProfile ==
  /\ world.console.step \in {"nothing", "detail"}
  /\ world' = [world EXCEPT !.console = [step |-> "detail", shown |-> db.profile]] /\ UNCHANGED db

\* preview_host_profile_repair: some fields, as edited; nothing to do if none changed.
PreviewRepair ==
  /\ world.console.step = "detail"
  /\ \E fields \in [Fields -> Titles] \ {world.console.shown.fields} :
       world' = [world EXCEPT !.console = [step |-> "confirm", kind |-> "repair", shown |-> @.shown, fields |-> fields]]
  /\ UNCHANGED db

\* plan_profile_module_reset: the module host reads the rows and hands them to the module, whose
\* plan clears what they hold of the subject.  A plan that does not come in time is dropped.
PlanReset ==
  /\ world.console.step = "detail"
  /\ LET touched == {k \in Keys : db.rows[k][Subject] > 0}
     IN /\ touched # {}
        /\ world' = [world EXCEPT !.console = [step |-> "planned", kind |-> "reset", shown |-> @.shown,
                        expected |-> db.rows, plan |-> [k \in touched |-> [db.rows[k] EXCEPT ![Subject] = 0]]]]
  /\ UNCHANGED db
PlanArrives ==
  /\ world.console.step = "planned" /\ world.handler = Nothing
  /\ world' = [world EXCEPT !.console.step = "confirm"] /\ UNCHANGED db
PlanIsLate ==
  /\ world.console.step = "planned"
  /\ world' = [world EXCEPT !.console = [step |-> "detail", shown |-> @.shown]] /\ UNCHANGED db

Cancel ==
  /\ world.console.step = "confirm"
  /\ world' = [world EXCEPT !.console = [step |-> "detail", shown |-> @.shown]] /\ UNCHANGED db

\* A mutant: whatever the snapshot said, the repair goes on.
SnapshotOrNot(then) == [then EXCEPT !.console.step = "apply"]
\* A snapshot that failed leaves the repair pending.
NoSnapshot(then) == then

\* confirm_profile_repair_key: first a verified snapshot of the database.
Confirm ==
  /\ world.console.step = "confirm"
  /\ \/ world' = [world EXCEPT !.console.step = "apply", !.snapshot = [step |-> "taken", profile |-> db.profile, rows |-> db.rows]]
     \/ Failing /\ world' = NoSnapshot([Mishap(world) EXCEPT !.snapshot = Nothing])
  /\ UNCHANGED db

\* A mutant: only the profile's identity is compared.
UnchangedId(now, shown) == now.id = shown.id
\* profile_repair_checked: the profile is still there, and its fields are those that were shown.
UnchangedSince(now, shown) == now.id = shown.id /\ now.fields = shown.fields

\* A mutant: as an erasure applies its plans, unchecked.
PlanHoldsAnyway(rows, c) == TRUE
\* kv_apply_module_checked: the rows to change are still what the plan was made from.
PlanHolds(rows, c) == \A k \in DOMAIN c.plan : rows[k] = c.expected[k]

ApplyRepair ==
  /\ world.console.step = "apply" /\ world.console.kind = "repair"
  /\ LET c == world.console
     IN IF UnchangedSince(db.profile, c.shown)
        THEN /\ db' = [db EXCEPT !.profile.fields = c.fields]
             /\ world' = [world EXCEPT !.console = [step |-> "detail", shown |-> [c.shown EXCEPT !.fields = c.fields]]]
        ELSE db' = db /\ world' = [world EXCEPT !.console = [step |-> "detail", shown |-> c.shown]]
ApplyReset ==
  /\ world.console.step = "apply" /\ world.console.kind = "reset"
  /\ db' = IF PlanHolds(db.rows, world.console) THEN [db EXCEPT !.rows = Over(world.console.plan, @)] ELSE db
  /\ world' = [world EXCEPT !.console = [step |-> "detail", shown |-> @.shown]]

Roles == SaveAdmin \/ DeleteAdmin \/ \E n \in Spellings, a \in Accounts \cup {NoAccount}, h \in Hosts : ResolveRole(n, a, h)
Meanwhile == SetField \/ Erased \/ HandlerReads \/ HandlerWrites
Repairs == OpenProfile \/ PreviewRepair \/ PlanReset \/ PlanArrives \/ PlanIsLate \/ Cancel \/ Confirm \/ ApplyRepair \/ ApplyReset
Next == Roles \/ Meanwhile \/ Repairs
Spec == Init /\ [][Next]_<<db, world>>

-----------------------------------------------------------------------------
\* Between two saves of an administrator's entry, it admits one identity: the account it names, or
\* else the first account or hostmask that used it (SPEC.md:290, trust on first use).
TrustIsGivenOnce == \A n \in Spellings : Cardinality(world.trusted[n]) <= 1

\* A reset takes nothing of anyone else's: what the module wrote for others, before the preview,
\* between preview and confirmation or across the reset, is still there.
OthersKeepTheirs == \A k \in Keys, p \in People \ {Subject} : db.rows[k][p] = world.deeds[k][p]

ConsoleIsCareful == TrustIsGivenOnce /\ OthersKeepTheirs

\* Whatever a repair or a reset overwrites is what the operator was shown, and is in the snapshot
\* taken before it.
RepairsCanBeUndone ==
  /\ ApplyRepair /\ db' # db => /\ db.profile = world.console.shown
                                /\ world.snapshot.step = "taken" /\ world.snapshot.profile.id = db.profile.id
  /\ ApplyReset /\ db' # db => /\ world.snapshot.step = "taken"
                               /\ \A k \in DOMAIN world.console.plan : world.snapshot.rows[k] = db.rows[k]
=============================================================================
