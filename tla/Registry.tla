------------------------------ MODULE Registry ------------------------------
(* Commands, aliases, prefixes and settings: what the loaded modules declare,  *)
(* what the operator saved over it, and the registries in memory that dispatch *)
(* reads (src/crates/jeeves/src/commands.rs, settings.rs).  Two threads meet   *)
(* here: the module thread publishes after every load, the console saves.      *)
EXTENDS Naturals, Sequences, FiniteSets, Functions

CONSTANTS
  Modules, Host,      \* the loadable modules, and the host, whose commands come last
  Names, HostName,    \* names of commands, in the order of their spelling
  Manifests,          \* what a module may declare: a command [name, aliases, shortcuts \subseteq aliases]
                      \* and a setting [scopes, valid, default]
  Values,             \* of settings
  Prefixes, Bang,     \* sets of accepted prefix characters, and "!" alone
  MaxLoads, MaxEdits, MaxMishaps  \* bounds: loads of all modules; edits; failed queries

RegistryAssumption ==
  /\ Host \notin Modules /\ Names \subseteq Nat /\ HostName \in Names /\ Bang \in Prefixes
  /\ \A m \in Manifests : /\ m.name \in Names /\ m.shortcuts \subseteq m.aliases /\ m.aliases \subseteq Names
                          /\ m.default \in m.valid /\ m.valid \subseteq Values

VARIABLES db, world

\* Where a setting may be overridden, the most specific first: a channel, its network, everywhere.
Places == <<"channel", "network", "global">>
\* The rows the operator writes.
AliasKeys == {<<"alias", m, n>> : m \in Modules \cup {Host}, n \in Names}
SettingKeys == {<<"setting", m, p>> : m \in Modules, p \in {"channel", "network", "global"}}
PrefixKey == <<"prefix">>
Of(kinds, rows) == [k \in {k \in DOMAIN rows : k[1] \in kinds} |-> rows[k]]
With(rows, k, v) == [x \in DOMAIN rows \cup {k} |-> IF x = k THEN v ELSE rows[x]]
Without(rows, k) == [x \in DOMAIN rows \ {k} |-> rows[x]]
Over(f, g) == [x \in DOMAIN f \cup DOMAIN g |-> IF x \in DOMAIN f THEN f[x] ELSE g[x]]
Changed(rows, e) == IF e.set THEN With(rows, e.key, e.value) ELSE Without(rows, e.key)

HostSpec == [module |-> Host, name |-> HostName, aliases |-> {}, shortcuts |-> {}]
Idle == [step |-> "idle"]

\* db holds the saved rows.  world.loaded is what the module thread runs, in the order it was
\* loaded; specs, settings and rows are what the registries hold; publish and console are where
\* the two threads are.  stale names the kinds of rows the last publish may have got wrong.
Init ==
  /\ db = <<>>
  /\ world = [loaded |-> <<>>, specs |-> <<>>, settings |-> <<>>, rows |-> <<>>,
              publish |-> Idle, console |-> Idle, stale |-> {}, loads |-> 0, edits |-> 0, mishaps |-> 0]

-----------------------------------------------------------------------------
\* CommandRegistry: whose name a command is, and the names it listens to.
\* Each entry of specs is [module, name, aliases, shortcuts].
Kept(specs) == {specs[i] : i \in {i \in DOMAIN specs : \A j \in 1..i - 1 : specs[j].name # specs[i].name}}
Canonical(specs) == {c.name : c \in Kept(specs)}
Wanted(rows, c) ==
  LET key == <<"alias", c.module, c.name>> IN IF key \in DOMAIN rows THEN rows[key] ELSE c.aliases \ {c.name}

\* A mutant: the first command to want a name has it, even another's own.
AcceptedFirst(specs, rows, c) ==
  {a \in Wanted(rows, c) : \A o \in Kept(specs) : a \in Wanted(rows, o) => c.name <= o.name}

\* rebuild: commands take their aliases in the order of their names; a taken name is left out.
Accepted(specs, rows, c) ==
  {a \in Wanted(rows, c) \ Canonical(specs) : \A o \in Kept(specs) : a \in Wanted(rows, o) => c.name <= o.name}

\* The lookup built from it: canonical names first, then every accepted alias.
Lookup(specs, rows) ==
  LET kept == Kept(specs)
      named == UNION {Accepted(specs, rows, c) : c \in kept}
  IN [n \in Canonical(specs) \cup named |->
        IF n \in named THEN CHOOSE c \in kept : n \in Accepted(specs, rows, c) ELSE CHOOSE c \in kept : c.name = n]

\* resolve and canonicalized_event: the module that is handed the message, its own name for the
\* command, and whether the name stands for a subcommand.
PrefixesInUse == IF PrefixKey \in DOMAIN world.rows THEN world.rows[PrefixKey] ELSE Bang
Resolved(lookup, prefix, name) ==
  IF prefix \notin PrefixesInUse \/ name \notin DOMAIN lookup THEN {}
  ELSE {[module |-> lookup[name].module, name |-> lookup[name].name,
         expanded |-> name # lookup[name].name /\ name \in lookup[name].shortcuts]}

\* A mutant: only the names commands are known by count as used.
UsableBesidesAliases(module, name, aliases) ==
  /\ \E c \in Kept(world.specs) : c.module = module /\ c.name = name
  /\ aliases \cap Canonical(world.specs) = {}

\* validate_override: the command is loaded, and no other command goes by these names.
Usable(module, name, aliases) ==
  LET mine(c) == c.module = module /\ c.name = name
      others == UNION {Accepted(world.specs, world.rows, c) : c \in {c \in Kept(world.specs) : ~mine(c)}}
  IN /\ \E c \in Kept(world.specs) : mine(c)
     /\ aliases \cap (Canonical(world.specs) \cup others) = {}

-----------------------------------------------------------------------------
\* SettingRegistry.  world.settings maps each loaded module to what it declares.
\* A mutant: a saved value is in force whether or not the module still takes it.
EffectiveUnchecked(settings, rows, m, from) ==
  LET set == {i \in from..3 : Places[i] \in settings[m].scopes /\ <<"setting", m, Places[i]>> \in DOMAIN rows}
  IN IF set = {} THEN settings[m].default ELSE rows[<<"setting", m, Places[CHOOSE i \in set : \A j \in set : i <= j]>>]

\* effective, seen from a channel (from = 1), elsewhere on its network (2) or elsewhere (3): the
\* most specific saved value the declaration admits.
Effective(settings, rows, m, from) ==
  LET set == {i \in from..3 : /\ Places[i] \in settings[m].scopes /\ <<"setting", m, Places[i]>> \in DOMAIN rows
                              /\ rows[<<"setting", m, Places[i]>>] \in settings[m].valid}
  IN IF set = {} THEN settings[m].default ELSE rows[<<"setting", m, Places[CHOOSE i \in set : \A j \in set : i <= j]>>]

\* validate_override of a setting.
Admissible(m, place, v) ==
  m \in DOMAIN world.settings /\ place \in world.settings[m].scopes /\ v \in world.settings[m].valid

-----------------------------------------------------------------------------
\* The module thread.  load_all: every module is loaded anew; one whose file is bad or gone is
\* missing, one that was edited declares something else.
Load ==
  /\ world.publish.step = "idle" /\ world.loads < MaxLoads
  /\ \E order \in UNION {{s \in [1..k -> Modules] : \A i, j \in 1..k : i # j => s[i] # s[j]} : k \in 0..Cardinality(Modules)} :
     \E of \in [Range(order) -> Manifests] :
       world' = [world EXCEPT !.loads = @ + 1, !.loaded = [i \in 1..Len(order) |-> [module |-> order[i], manifest |-> of[order[i]]]],
                   !.publish = [step |-> "aliases", got |-> <<>>, spoiled |-> {}]]
  /\ UNCHANGED db

\* publish_commands and publish_settings read the saved rows first, each kind with a query of its
\* own; a query that fails is logged, and read as nothing saved.
Read(step, kind, next) ==
  /\ world.publish.step = step
  /\ \/ world' = [world EXCEPT !.publish.step = next, !.publish.got = Over(Of({kind}, db), @)]
     \/ /\ world.mishaps < MaxMishaps
        /\ world' = [world EXCEPT !.publish.step = next, !.publish.spoiled = @ \cup {kind}, !.mishaps = @ + 1]
  /\ UNCHANGED db
ReadAliases == Read("aliases", "alias", "prefixes")
ReadPrefixes == Read("prefixes", "prefix", "install commands")
ReadSettings == Read("settings", "setting", "install settings")

\* A mutant: what was saved for a module that is not loaded is forgotten.
InstalledForLoaded(rows, got, kinds) ==
  LET loaded == {e.module : e \in Range(world.loaded)} \cup {Host}
      mine == {k \in DOMAIN got : k[1] \in kinds /\ (k[1] = "prefix" \/ k[2] \in loaded)}
  IN Over([k \in mine |-> got[k]], Of({"alias", "prefix", "setting"} \ kinds, rows))
\* replace_specs and replace_overrides, under the registry's lock.
Installed(rows, got, kinds) == Over(Of(kinds, got), Of({"alias", "prefix", "setting"} \ kinds, rows))

Install(step, kinds, next, w) ==
  /\ world.publish.step = step
  /\ world' = [w EXCEPT !.rows = Installed(world.rows, world.publish.got, kinds), !.publish = next,
                        !.stale = (@ \ kinds) \cup (world.publish.spoiled \cap kinds),
                        !.console = IF @.step = "idle" THEN @ ELSE [@ EXCEPT !.fresh = FALSE]]
  /\ UNCHANGED db
Command(entry) == [module |-> entry.module, name |-> entry.manifest.name,
                   aliases |-> entry.manifest.aliases, shortcuts |-> entry.manifest.shortcuts]
InstallCommands ==
  LET specs == [i \in DOMAIN world.loaded |-> Command(world.loaded[i])]
  IN Install("install commands", {"alias", "prefix"}, [world.publish EXCEPT !.step = "settings"],
             [world EXCEPT !.specs = Append(specs, HostSpec)])
InstallSettings ==
  LET entry(m) == CHOOSE e \in Range(world.loaded) : e.module = m
      setting(e) == [scopes |-> e.manifest.scopes, valid |-> e.manifest.valid, default |-> e.manifest.default]
  IN Install("install settings", {"setting"}, Idle,
             [world EXCEPT !.settings = [m \in {e.module : e \in Range(world.loaded)} |-> setting(entry(m))]])

-----------------------------------------------------------------------------
\* The console.  A save is checked against the registry, then written, then applied; putting the
\* defaults back is not checked.
Begin(e) ==
  /\ world.console.step = "idle" /\ world.edits < MaxEdits
  /\ world' = [world EXCEPT !.edits = @ + 1, !.console = [step |-> "write", edit |-> e, fresh |-> TRUE]]
  /\ UNCHANGED db
Saving(key, v) == [key |-> key, value |-> v, set |-> TRUE]
Removing(key) == [key |-> key, set |-> FALSE]

SaveAliases ==
  \E c \in Kept(world.specs), aliases \in SUBSET Names :
    Usable(c.module, c.name, aliases) /\ Begin(Saving(<<"alias", c.module, c.name>>, aliases))
RestoreAliases == \E c \in Kept(world.specs) : Begin(Removing(<<"alias", c.module, c.name>>))
SavePrefixes == \E p \in Prefixes : Begin(Saving(PrefixKey, p))
SaveSetting ==
  \E m \in DOMAIN world.settings, place \in {"channel", "network", "global"}, v \in Values :
    Admissible(m, place, v) /\ Begin(Saving(<<"setting", m, place>>, v))
ResetSetting == \E m \in DOMAIN world.settings : \E place \in world.settings[m].scopes : Begin(Removing(<<"setting", m, place>>))

\* A failed write leaves both as they were.
Write ==
  /\ world.console.step = "write"
  /\ \/ db' = Changed(db, world.console.edit) /\ world' = [world EXCEPT !.console.step = "apply"]
     \/ world.mishaps < MaxMishaps /\ world' = [world EXCEPT !.console = Idle, !.mishaps = @ + 1] /\ UNCHANGED db

\* A mutant: defaults are put back in the database only.
AppliedSaves(rows, e) == IF e.set THEN Changed(rows, e) ELSE rows
\* set_override, set_prefixes.
Applied(rows, e) == Changed(rows, e)

\* The kinds of rows a publish under way has read and not yet installed.
Reading ==
  CASE world.publish.step = "prefixes" -> {"alias"}
    [] world.publish.step = "install commands" -> {"alias", "prefix"}
    [] world.publish.step = "install settings" -> {"setting"}
    [] OTHER -> {}
Apply ==
  /\ world.console.step = "apply"
  /\ LET spoiled == {world.console.edit.key[1]} \cap Reading
         publish == IF spoiled = {} THEN world.publish ELSE [world.publish EXCEPT !.spoiled = @ \cup spoiled]
     IN world' = [world EXCEPT !.rows = Applied(@, world.console.edit), !.console = Idle, !.publish = publish]
  /\ UNCHANGED db

ModuleThread == Load \/ ReadAliases \/ ReadPrefixes \/ InstallCommands \/ ReadSettings \/ InstallSettings
Console == SaveAliases \/ RestoreAliases \/ SavePrefixes \/ SaveSetting \/ ResetSetting \/ Write \/ Apply
Next == ModuleThread \/ Console
Spec == Init /\ [][Next]_<<db, world>>

-----------------------------------------------------------------------------
\* "Changes apply immediately" (tui/mod.rs, the status lines of the four saves): once the console
\* has finished, memory holds what the database holds, unless a publish read it before the change
\* and installed it after, or could not read it; and then only until the next publish.
ChangesApply ==
  world.console.step = "idle" => \A kind \in {"alias", "prefix", "setting"} \ (world.stale \cup Reading) :
                                   Of({kind}, world.rows) = Of({kind}, db)

\* A name means one command: a command's own name is never another's alias, and every module's
\* setting has a value its declaration admits, however old the saved one is.
NamesAreUnambiguous ==
  LET lookup == Lookup(world.specs, world.rows)
      handed(c, n) == [module |-> c.module, name |-> c.name, expanded |-> n # c.name /\ n \in c.shortcuts]
  IN /\ \A c \in Kept(world.specs), prefix \in PrefixesInUse :
          \A n \in {c.name} \cup Accepted(world.specs, world.rows, c) : Resolved(lookup, prefix, n) = {handed(c, n)}
     /\ \A m \in DOMAIN world.settings, from \in 1..3 :
          Effective(world.settings, world.rows, m, from) \in world.settings[m].valid

RegistryIsSound == ChangesApply /\ NamesAreUnambiguous

\* What was checked holds when it is applied, unless modules were published in between: every
\* name the operator gave to a command is its own, no other command lost one to it, and a saved
\* setting is in force where it was saved.
EditsHold ==
  world.console.step = "apply" /\ world'.console.step = "idle" /\ world.console.fresh =>
    LET e == world.console.edit IN
    /\ e.key[1] = "alias" /\ e.set =>
         \A c \in Kept(world.specs) :
           IF <<"alias", c.module, c.name>> = e.key THEN Accepted(world'.specs, world'.rows, c) = e.value
           ELSE Accepted(world.specs, world.rows, c) \subseteq Accepted(world'.specs, world'.rows, c)
    /\ e.key[1] = "setting" /\ e.set =>
         Effective(world'.settings, world'.rows, e.key[2], CHOOSE i \in 1..3 : Places[i] = e.key[3]) = e.value
=============================================================================
