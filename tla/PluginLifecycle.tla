-------------------------- MODULE PluginLifecycle ---------------------------
(***************************************************************************)
(* Loading, unloading and reloading file-based plugins:                    *)
(*   core/plugin_registry.rb     the registry and its monitor              *)
(*   core/plugin_schema.rb       per-plugin migrations and their rollback  *)
(*   core/plugin_loader/file.rb  requiring plugin.rb, finding its class    *)
(*   core/plugin_hot_reload.rb   the file watcher's thread                 *)
(*   core/plugin_controller.rb   POST /plugins/:name/reload                *)
(*   core/boot.rb                the boot sequence                         *)
(*                                                                         *)
(* Threads interleave between the statements of load_file: only register   *)
(* and unregister hold the registry's monitor.  The database survives a    *)
(* crash, the process (constants, $LOADED_FEATURES, registry) does not.    *)
(* unregister's rollback is a sequence of separate statements; each        *)
(* migration is one transaction.                                           *)
(***************************************************************************)
EXTENDS Naturals, Sequences

CONSTANTS
  Plugins,      \* directories under plugins/, named like the plugin they hold
  Classes,      \* names of plugin classes
  NameOf,       \* the plugin an instance of a class is
  Tables,       \* tables the migrations create or alter
  Schema,       \* schema_migrations: per plugin a sequence of records with
                \* `on` (table), `creates`, and `drops` (:table is declared)
  Requests,     \* request threads
  Listener,     \* the file watcher's thread
  Boot,         \* the main thread during boot
  Free,         \* nobody holds the registry's monitor
  CrashAllowed, \* may the process be killed?
  MayRaise,     \* may on_load and on_unload raise?
  FileErrors,   \* what running a plugin.rb may raise
  Stored        \* bound: the tables requests store data in

Threads == Requests \cup {Listener, Boot}
Versions == UNION {DOMAIN Schema[p] : p \in Plugins}

ASSUME NamesAssumption == NameOf \in [Classes -> Plugins]
ASSUME SchemaAssumption ==
  Schema \in [Plugins -> Seq([on : Tables, creates : BOOLEAN, drops : BOOLEAN])]
ASSUME ThreadsAssumption ==
  /\ Listener \notin Requests /\ Boot \notin Requests
  /\ Listener # Boot /\ Free \notin Threads
ASSUME SwitchesAssumption ==
  /\ CrashAllowed \in BOOLEAN /\ MayRaise \in BOOLEAN
  /\ FileErrors \subseteq {"StandardError", "ScriptError"}
  /\ Stored \subseteq Tables
\* A table belongs to one plugin.
ASSUME TablesAssumption ==
  \A p, q \in Plugins : \A i \in DOMAIN Schema[p], j \in DOMAIN Schema[q] :
    Schema[p][i].on = Schema[q][j].on => p = q
\* A table is created by the first migration that names it and by no other.
ASSUME CreatesAssumption ==
  \A p \in Plugins : \A i, j \in DOMAIN Schema[p] :
    (i < j /\ Schema[p][i].on = Schema[p][j].on) => ~Schema[p][j].creates

VARIABLES
  \* The database.
  tracked,     \* rows of schema_migrations_<plugin>
  tables,      \* the migrations whose effect a table has, {} when it is absent
  rows,        \* tables that hold data
  \* The files.
  source,      \* the class plugin.rb defines at present
  changed,     \* file events the listener has not handled
  \* The process.
  booting,     \* the plugin files boot! has still to load; see Up
  up,          \* is the process serving?
  constants,   \* plugin classes among Object.constants
  features,    \* plugin files in $LOADED_FEATURES
  registered,  \* keys of @plugins
  lock,        \* holder of the registry's monitor between two steps
  \* The threads.
  pc, path, before, plugin, version,
  \* History.
  unloaded     \* plugins whose rollback has begun at some time

database == <<tracked, tables, rows>>
files    == <<source, changed>>
process  == <<booting, up, constants, features, registered, lock>>
threads  == <<pc, path, before, plugin, version>>
vars == <<tracked, tables, rows, source, changed, booting, up, constants,
          features, registered, lock, pc, path, before, plugin, version, unloaded>>

\* "ended" is a thread that an error nobody rescues has ended.
Steps == {"idle", "ended", "unregister", "unload", "drop", "untrack", "forget",
          "snapshot", "require", "resolve", "apply", "migrate", "register"}

TypeOK ==
  /\ tracked \in [Plugins -> SUBSET Versions]
  /\ tables \in [Tables -> SUBSET Versions]
  /\ rows \in SUBSET Tables
  /\ source \in [Plugins -> Classes]
  /\ changed \in SUBSET Plugins
  /\ booting \in SUBSET Plugins /\ up \in BOOLEAN
  /\ constants \in SUBSET Classes
  /\ features \in SUBSET Plugins
  /\ registered \in SUBSET Plugins
  /\ lock \in Threads \cup {Free}
  /\ pc \in [Threads -> Steps]
  /\ path \in [Threads -> Plugins]
  /\ before \in [Threads -> SUBSET Classes]
  /\ plugin \in [Threads -> Plugins]
  /\ version \in [Threads -> Nat]
  /\ unloaded \in SUBSET Plugins

\* A process that starts: nothing is loaded and no thread works.
Fresh ==
  /\ booting = Plugins /\ up = FALSE
  /\ constants = {} /\ features = {} /\ registered = {} /\ lock = Free
  /\ pc = [t \in Threads |-> "idle"]
  /\ path \in {[t \in Threads |-> p] : p \in Plugins}
  /\ plugin = path
  /\ before = [t \in Threads |-> {}]
  /\ version = [t \in Threads |-> 0]

Init ==
  /\ tracked = [p \in Plugins |-> {}]
  /\ tables = [x \in Tables |-> {}]
  /\ rows = {}
  /\ source \in [Plugins -> Classes]
  /\ \A p \in Plugins : NameOf[source[p]] = p
  /\ changed = {}
  /\ Fresh
  /\ unloaded = {}

Goto(t, step) == pc' = [pc EXCEPT ![t] = step]

-----------------------------------------------------------------------------
(* The environment. *)

\* A developer saves plugin.rb, with the same class or with a renamed one.
EditFile(p, c) ==
  /\ up
  /\ NameOf[c] = p
  /\ source' = [source EXCEPT ![p] = c]
  /\ changed' = changed \cup {p}
  /\ UNCHANGED <<database, process, threads, unloaded>>

\* A request stores data through a registered plugin.
StoreRow(x) ==
  /\ up /\ x \in Stored
  /\ tables[x] # {}
  /\ \E p \in registered : \E k \in DOMAIN Schema[p] : Schema[p][k].on = x
  /\ rows' = rows \cup {x}
  /\ UNCHANGED <<tracked, tables, files, process, threads, unloaded>>

\* The process is killed and starts again.
Crash ==
  /\ CrashAllowed
  /\ booting' = Plugins /\ up' = FALSE
  /\ constants' = {} /\ features' = {} /\ registered' = {} /\ lock' = Free
  /\ pc' = [t \in Threads |-> "idle"]
  /\ before' = [t \in Threads |-> {}]
  /\ version' = [t \in Threads |-> 0]
  /\ changed' = {}
  /\ UNCHANGED <<database, source, path, plugin, unloaded>>

-----------------------------------------------------------------------------
(* What sets a thread to work on a file. *)

\* boot! loads every file it finds; then the watcher starts and Puma serves.
BootLoad(p) ==
  /\ ~up /\ pc[Boot] = "idle" /\ p \in booting
  /\ booting' = booting \ {p}
  /\ path' = [path EXCEPT ![Boot] = p]
  /\ Goto(Boot, "snapshot")
  /\ UNCHANGED <<database, files, up, constants, features, registered, lock,
                 before, plugin, version, unloaded>>

BootDone ==
  /\ ~up /\ pc[Boot] = "idle" /\ booting = {}
  /\ up' = TRUE
  /\ UNCHANGED <<database, files, booting, constants, features, registered,
                 lock, threads, unloaded>>

\* handle_change: a modified or added file.
HandleChange(p) ==
  /\ up /\ pc[Listener] = "idle" /\ p \in changed
  /\ changed' = changed \ {p}
  /\ path' = [path EXCEPT ![Listener] = p]
  /\ Goto(Listener, "unregister")
  /\ UNCHANGED <<database, source, process, before, plugin, version, unloaded>>

\* POST /plugins/:name/reload: 404 unless the registry finds the plugin.
PostReload(t, p) ==
  /\ up /\ pc[t] = "idle" /\ lock = Free /\ p \in registered
  /\ path' = [path EXCEPT ![t] = p]
  /\ Goto(t, "unregister")
  /\ UNCHANGED <<database, files, process, before, plugin, version, unloaded>>

-----------------------------------------------------------------------------
(* reload_file, first part: PluginRegistry#unregister, holding the monitor   *)
(* across on_unload and PluginSchema.rollback!.                              *)

\* Mutant: the plugin is deleted from the registry after the rollback only.
MutUnregister(t) ==
  /\ pc[t] = "unregister" /\ lock = Free
  /\ IF path[t] \in registered
     THEN /\ lock' = t
          /\ plugin' = [plugin EXCEPT ![t] = path[t]]
          /\ Goto(t, "unload")
     ELSE /\ Goto(t, "forget")
          /\ UNCHANGED <<lock, plugin>>
  /\ UNCHANGED <<database, files, booting, up, constants, features, registered,
                 path, before, version, unloaded>>

Unregister(t) ==
  /\ pc[t] = "unregister" /\ lock = Free
  /\ registered' = registered \ {path[t]}
  /\ IF path[t] \in registered
     THEN /\ lock' = t
          /\ plugin' = [plugin EXCEPT ![t] = path[t]]
          /\ Goto(t, "unload")
     ELSE /\ Goto(t, "forget")
          /\ UNCHANGED <<lock, plugin>>
  /\ UNCHANGED <<database, files, booting, up, constants, features, path,
                 before, version, unloaded>>

\* Mutant: the monitor is released before the rollback.
MutOnUnload(t) ==
  /\ pc[t] = "unload"
  /\ lock' = Free
  /\ version' = [version EXCEPT ![t] = 1]
  /\ unloaded' = unloaded \cup {plugin[t]}
  /\ Goto(t, "drop")
  /\ UNCHANGED <<database, files, booting, up, constants, features, registered,
                 path, before, plugin>>

OnUnload(t) ==
  /\ pc[t] = "unload"
  /\ version' = [version EXCEPT ![t] = 1]
  /\ unloaded' = unloaded \cup {plugin[t]}
  /\ Goto(t, "drop")
  /\ UNCHANGED <<database, files, process, path, before, plugin>>

\* Mutant: an explicit enter and exit of the monitor without an ensure.
MutOnUnloadKeepsLock(t) ==
  /\ pc[t] = "unload" /\ MayRaise
  /\ Goto(t, "idle")
  /\ UNCHANGED <<database, files, process, path, before, plugin, version, unloaded>>

\* on_unload raises: neither the rollback nor the rest of reload_file runs.
OnUnloadRaises(t) ==
  /\ pc[t] = "unload" /\ MayRaise
  /\ lock' = Free
  /\ Goto(t, "idle")
  /\ UNCHANGED <<database, files, booting, up, constants, features, registered,
                 path, before, plugin, version, unloaded>>

Migration(t) == Schema[plugin[t]][version[t]]
HasMigration(t) == version[t] \in DOMAIN Schema[plugin[t]]
\* Mutant: any tracked version counts as this one.
MutApplied(t) == tracked[plugin[t]] # {}

Applied(t) == version[t] \in tracked[plugin[t]]
NextVersion(t) == version' = [version EXCEPT ![t] = @ + 1]

\* drop_table? for a tracked version that declares a table.
RollbackDrop(t) ==
  LET x == Migration(t).on IN
  /\ pc[t] = "drop" /\ HasMigration(t) /\ Applied(t)
  /\ IF Migration(t).drops
     THEN tables' = [tables EXCEPT ![x] = {}] /\ rows' = rows \ {x}
     ELSE UNCHANGED <<tables, rows>>
  /\ Goto(t, "untrack")
  /\ UNCHANGED <<tracked, files, process, path, before, plugin, version, unloaded>>

\* Mutant: a migration that declares no table is not rolled back at all.
MutRollbackUntrack(t) ==
  /\ pc[t] = "untrack"
  /\ tracked' = IF Migration(t).drops
                THEN [tracked EXCEPT ![plugin[t]] = @ \ {version[t]}] ELSE tracked
  /\ NextVersion(t)
  /\ Goto(t, "drop")
  /\ UNCHANGED <<tables, rows, files, process, path, before, plugin, unloaded>>

RollbackUntrack(t) ==
  /\ pc[t] = "untrack"
  /\ tracked' = [tracked EXCEPT ![plugin[t]] = @ \ {version[t]}]
  /\ NextVersion(t)
  /\ Goto(t, "drop")
  /\ UNCHANGED <<tables, rows, files, process, path, before, plugin, unloaded>>

RollbackSkip(t) ==
  /\ pc[t] = "drop" /\ HasMigration(t) /\ ~Applied(t)
  /\ NextVersion(t)
  /\ UNCHANGED <<database, files, process, pc, path, before, plugin, unloaded>>

RollbackDone(t) ==
  /\ pc[t] = "drop" /\ ~HasMigration(t)
  /\ lock' = Free
  /\ Goto(t, "forget")
  /\ UNCHANGED <<database, files, booting, up, constants, features, registered,
                 path, before, plugin, version, unloaded>>

\* $LOADED_FEATURES.delete
Forget(t) ==
  /\ pc[t] = "forget"
  /\ features' = features \ {path[t]}
  /\ Goto(t, "snapshot")
  /\ UNCHANGED <<database, files, booting, up, constants, registered, lock,
                 path, before, plugin, version, unloaded>>

-----------------------------------------------------------------------------
(* load_file *)

Snapshot(t) ==
  /\ pc[t] = "snapshot"
  /\ before' = [before EXCEPT ![t] = constants]
  /\ Goto(t, "require")
  /\ UNCHANGED <<database, files, process, path, plugin, version, unloaded>>

\* require runs the file unless it is among the loaded features.  Running it
\* again reopens a class that exists; it never removes one.
Require(t) ==
  /\ pc[t] = "require"
  /\ constants' = IF path[t] \in features THEN constants
                  ELSE constants \cup {source[path[t]]}
  /\ features' = features \cup {path[t]}
  /\ Goto(t, "resolve")
  /\ UNCHANGED <<database, files, booting, up, registered, lock, path, before,
                 plugin, version, unloaded>>

\* Mutant: load_file rescues nothing that the file raises.
MutRequireFails(t, e) ==
  /\ pc[t] = "require" /\ path[t] \notin features
  /\ constants' \in {constants, constants \cup {source[path[t]]}}
  /\ Goto(t, IF t \in Requests THEN "idle" ELSE "ended")
  /\ UNCHANGED <<database, files, booting, up, features, registered, lock, path,
                 before, plugin, version, unloaded>>

\* Running the file raises, before or after its class is there.  load_file
\* rescues a StandardError.  A ScriptError (a file that does not parse, or one
\* that requires what is not installed) is none: it ends the request, which
\* Puma answers with an error, or the thread of boot or of the watcher, whose
\* own rescue is of StandardErrors too.
RequireFails(t, e) ==
  /\ pc[t] = "require" /\ path[t] \notin features
  /\ constants' \in {constants, constants \cup {source[path[t]]}}
  /\ Goto(t, IF e = "StandardError" \/ t \in Requests THEN "idle" ELSE "ended")
  /\ UNCHANGED <<database, files, booting, up, features, registered, lock, path,
                 before, plugin, version, unloaded>>

\* The first new constant that is a plugin class is instantiated.
Resolve(t, c) ==
  /\ pc[t] = "resolve"
  /\ c \in constants \ before[t]
  /\ plugin' = [plugin EXCEPT ![t] = NameOf[c]]
  /\ version' = [version EXCEPT ![t] = 1]
  /\ Goto(t, "apply")
  /\ UNCHANGED <<database, files, process, path, before, unloaded>>

\* "no BasePlugin subclass found": load_file returns nil.
ResolveNothing(t) ==
  /\ pc[t] = "resolve"
  /\ constants \subseteq before[t]
  /\ Goto(t, "idle")
  /\ UNCHANGED <<database, files, process, path, before, plugin, version, unloaded>>

\* run_migration: return if the version is tracked ...
ApplySkip(t) ==
  /\ pc[t] = "apply" /\ HasMigration(t) /\ Applied(t)
  /\ NextVersion(t)
  /\ UNCHANGED <<database, files, process, pc, path, before, plugin, unloaded>>

ApplyPending(t) ==
  /\ pc[t] = "apply" /\ HasMigration(t) /\ ~Applied(t)
  /\ Goto(t, "migrate")
  /\ UNCHANGED <<database, files, process, path, before, plugin, version, unloaded>>

\* ... otherwise migrate and track in one transaction.  It fails, and with it
\* load_file, when the version is tracked by now or the table to alter is gone.
Migratable(t) ==
  ~Applied(t) /\ (Migration(t).creates \/ tables[Migration(t).on] # {})

Migrate(t) ==
  LET m == Migration(t)  k == version[t] IN
  /\ pc[t] = "migrate" /\ Migratable(t)
  /\ tables' = [tables EXCEPT ![m.on] =
       IF m.creates /\ @ # {} THEN @ ELSE @ \cup {k}]
  /\ tracked' = [tracked EXCEPT ![plugin[t]] = @ \cup {k}]
  /\ NextVersion(t)
  /\ Goto(t, "apply")
  /\ UNCHANGED <<rows, files, process, path, before, plugin, unloaded>>

MigrateFails(t) ==
  /\ pc[t] = "migrate" /\ ~Migratable(t)
  /\ Goto(t, "idle")
  /\ UNCHANGED <<database, files, process, path, before, plugin, version, unloaded>>

ApplyDone(t) ==
  /\ pc[t] = "apply" /\ ~HasMigration(t)
  /\ Goto(t, "register")
  /\ UNCHANGED <<database, files, process, path, before, plugin, version, unloaded>>

\* Mutant: the registry is keyed by class instead of by name.
MutRegister(t) ==
  /\ pc[t] = "register" /\ lock = Free
  /\ registered' = registered \cup {source[path[t]]}
  /\ Goto(t, "idle")
  /\ UNCHANGED <<database, files, booting, up, constants, features, lock, path,
                 before, plugin, version, unloaded>>

\* PluginRegistry#register.  A name it has already is refused, which leaves the
\* registry as it is too.
Register(t) ==
  /\ pc[t] = "register" /\ lock = Free
  /\ registered' = registered \cup {plugin[t]}
  /\ Goto(t, "idle")
  /\ UNCHANGED <<database, files, booting, up, constants, features, lock, path,
                 before, plugin, version, unloaded>>

\* on_load raises; load_file rescues it and returns nil.
OnLoadRaises(t) ==
  /\ pc[t] = "register" /\ lock = Free /\ MayRaise
  /\ plugin[t] \notin registered
  /\ Goto(t, "idle")
  /\ UNCHANGED <<database, files, process, path, before, plugin, version, unloaded>>

-----------------------------------------------------------------------------
ThreadStep(t) ==
  \/ Unregister(t) \/ OnUnload(t) \/ OnUnloadRaises(t)
  \/ RollbackDrop(t) \/ RollbackUntrack(t) \/ RollbackSkip(t) \/ RollbackDone(t)
  \/ Forget(t) \/ Snapshot(t) \/ Require(t)
  \/ \E e \in FileErrors : RequireFails(t, e)
  \/ \E c \in Classes : Resolve(t, c)
  \/ ResolveNothing(t)
  \/ ApplySkip(t) \/ ApplyPending(t) \/ Migrate(t) \/ MigrateFails(t) \/ ApplyDone(t)
  \/ Register(t) \/ OnLoadRaises(t)

BootStep == BootDone \/ \E p \in Plugins : BootLoad(p)

Next ==
  \/ \E t \in Threads : ThreadStep(t)
  \/ BootStep
  \/ \E p \in Plugins : HandleChange(p)
  \/ \E t \in Requests, p \in Plugins : PostReload(t, p)
  \/ \E p \in Plugins, c \in Classes : EditFile(p, c)
  \/ \E x \in Tables : StoreRow(x)
  \/ Crash

Spec == Init /\ [][Next]_vars

\* Threads run; a thread waiting for the monitor gets it; the watcher handles
\* its events.  Nobody owes a reload request, an edit or a crash.
Fairness ==
  /\ WF_vars(BootStep)
  /\ WF_vars(\E p \in Plugins : HandleChange(p))
  /\ \A t \in Threads : SF_vars(ThreadStep(t))

FairSpec == Spec /\ Fairness

-----------------------------------------------------------------------------
\* The plugin's tables are as its migrations leave them, and tracked as such.
Complete(p) ==
  \A k \in DOMAIN Schema[p] : k \in tracked[p] /\ k \in tables[Schema[p][k].on]

\* Every version that is tracked has left its effect.
TrackedMeansAppliedTo(p) ==
  \A k \in tracked[p] : k \in tables[Schema[p][k].on]

Loading(p) == \E t \in Threads :
  pc[t] \in {"apply", "migrate", "register"} /\ plugin[t] = p

(* Safety that holds whatever crashes, raises or interleaves. *)

\* A plugin whose rollback never began keeps its data and its schema: applying
\* migrations is safe to interrupt anywhere and to run by several threads, and
\* nothing that happens to other plugins touches its tables.
UntouchedIsSound ==
  \A p \in Plugins \ unloaded :
    /\ TrackedMeansAppliedTo(p)
    /\ p \in registered => Complete(p)

\* Data stored by a plugin is lost only in the rollback of that plugin.
DataLostOnlyByRollback ==
  [][\A x \in rows \ rows' :
       \E t \in Threads : /\ pc[t] = "drop" /\ lock = t
                          /\ plugin[t] \notin registered
                          /\ \E k \in DOMAIN Schema[plugin[t]] :
                               Schema[plugin[t]][k].on = x]_vars

\* While a plugin's tables are being rolled back the registry does not serve
\* it, so no new request can reach them.
RollbackIsExclusive ==
  \A t \in Threads : pc[t] \in {"unload", "drop", "untrack"} =>
    lock = t /\ plugin[t] \notin registered

(* Safety with one reloading thread at a time and no crash. *)

\* A plugin the registry serves has its whole schema, and one that is neither
\* served nor being loaded or rolled back has a consistent one.
RegisteredIsComplete ==
  /\ \A p \in registered : Complete(p)
  /\ lock = Free => \A p \in Plugins : TrackedMeansAppliedTo(p)

(* Liveness, while files raise nothing but StandardErrors. *)

\* A load or reload ends and its thread can begin another, successfully or not:
\* no thread keeps the registry's monitor or waits for it for ever, though the
\* file, its migrations, on_unload and on_load may raise.
ReloadEnds == \A t \in Threads : pc[t] # "idle" ~> pc[t] = "idle"

\* Boot goes through all plugin files and the process serves, whichever of them
\* fail to load, and however they fail.
BootEnds == ~up ~> up

(* What comments and docs say. *)

\* The reload process removes the old class, requires the file again and ends
\* with the new instance loaded: a reload in which nothing raises registers the
\* plugin.
ReloadRegisters ==
  [][\A t \in Requests :
       (pc[t] = "resolve" /\ pc'[t] = "idle") => path[t] \in registered']_vars

\* "Returns the plugin instance on success, nil on failure": whatever is wrong
\* with a plugin file, load_file returns to the thread that called it.
LoadReturns == \A t \in Threads : pc[t] # "ended"

\* load_file returns the instance of the file it was given.
LoadsItsOwnFile ==
  \A t \in Threads : pc[t] \in {"apply", "migrate", "register"} => plugin[t] = path[t]
=============================================================================
