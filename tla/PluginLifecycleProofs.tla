------------------------ MODULE PluginLifecycleProofs ------------------------
(***************************************************************************)
(* Proofs about PluginLifecycle, for any plugins, schemas and request      *)
(* threads, with or without kills and raising hooks.                       *)
(*                                                                         *)
(* Position ties a thread's place in load_file or unregister to the        *)
(* migration it works on and to the monitor; Untouched says of a plugin    *)
(* whose rollback never began that its tracking table is a prefix of its   *)
(* migrations and agrees with its tables.                                  *)
(***************************************************************************)
EXTENDS PluginLifecycle, SequenceTheorems, TLAPS

\* Where a thread stands.
Position ==
  \A t \in Threads :
    /\ pc[t] \in {"untrack", "migrate"} => HasMigration(t)
    /\ pc[t] \in {"drop", "untrack"} => plugin[t] \in unloaded
    /\ pc[t] \in {"apply", "migrate"} => version[t] >= 1

Owns(p, x) == \E k \in DOMAIN Schema[p] : Schema[p][k].on = x

\* The database as seen by a plugin that was never rolled back.
Untouched ==
  \A p \in Plugins \ unloaded :
    /\ tracked[p] \subseteq DOMAIN Schema[p]
    /\ \A j \in tracked[p], i \in DOMAIN Schema[p] : i < j => i \in tracked[p]
    /\ \A x \in Tables : Owns(p, x) =>
         tables[x] = {k \in tracked[p] : Schema[p][k].on = x}

\* What apply! has done so far for a plugin that was never rolled back.
Progressed ==
  \A p \in Plugins \ unloaded :
    /\ p \in registered => tracked[p] = DOMAIN Schema[p]
    /\ \A t \in Threads : plugin[t] = p =>
         /\ pc[t] \in {"apply", "migrate"} =>
              \A k \in DOMAIN Schema[p] : k < version[t] => k \in tracked[p]
         /\ pc[t] = "register" => tracked[p] = DOMAIN Schema[p]

-----------------------------------------------------------------------------
\* What the assumption on Schema says of its migrations.
LEMMA SchemaFacts ==
  ASSUME NEW p \in Plugins
  PROVE  /\ DOMAIN Schema[p] \subseteq Versions
         /\ DOMAIN Schema[p] \subseteq Nat \ {0}
         /\ \A k \in DOMAIN Schema[p] : /\ Schema[p][k].on \in Tables
                                        /\ Schema[p][k].creates \in BOOLEAN
                                        /\ Schema[p][k].drops \in BOOLEAN
         /\ \A k \in DOMAIN Schema[p], i \in Nat \ {0} : i < k => i \in DOMAIN Schema[p]
<1>1. Schema[p] \in Seq([on : Tables, creates : BOOLEAN, drops : BOOLEAN])
  BY SchemaAssumption
<1>2. DOMAIN Schema[p] = 1 .. Len(Schema[p]) /\ Len(Schema[p]) \in Nat
  BY <1>1
<1>3. \A k \in DOMAIN Schema[p] :
        Schema[p][k] \in [on : Tables, creates : BOOLEAN, drops : BOOLEAN]
  BY <1>1, <1>2, ElementOfSeq
<1>4. DOMAIN Schema[p] \subseteq Versions
  BY DEF Versions
<1>5. DOMAIN Schema[p] \subseteq Nat \ {0}
      /\ \A k \in DOMAIN Schema[p], i \in Nat \ {0} : i < k => i \in DOMAIN Schema[p]
  BY <1>2
<1> QED
  BY <1>3, <1>4, <1>5

\* A step keeps the types; Migrate and Resolve need the facts on Schema and NameOf.
LEMMA TypeStep == TypeOK /\ Position /\ [Next]_vars => TypeOK'
<1> SUFFICES ASSUME TypeOK, Position, [Next]_vars PROVE TypeOK'
  OBVIOUS
<1> USE DEF TypeOK, database, files, process, threads, Goto, Steps
<1>1. CASE UNCHANGED vars
  BY <1>1 DEF vars
<1>2. ASSUME NEW t \in Threads, ThreadStep(t) PROVE TypeOK'
  <2>1. CASE Unregister(t)
    BY <2>1 DEF Unregister
  <2>2. CASE OnUnload(t)
    BY <2>2 DEF OnUnload
  <2>3. CASE OnUnloadRaises(t)
    BY <2>3 DEF OnUnloadRaises
  <2>4. CASE RollbackDrop(t)
    BY <2>4 DEF RollbackDrop
  <2>5. CASE RollbackUntrack(t)
    BY <2>5 DEF RollbackUntrack, NextVersion
  <2>6. CASE RollbackSkip(t)
    BY <2>6 DEF RollbackSkip, NextVersion
  <2>7. CASE RollbackDone(t)
    BY <2>7 DEF RollbackDone
  <2>8. CASE Forget(t)
    BY <2>8 DEF Forget
  <2>9. CASE Snapshot(t)
    BY <2>9 DEF Snapshot
  <2>10. CASE Require(t)
    BY <2>10 DEF Require
  <2>20. ASSUME NEW e \in FileErrors, RequireFails(t, e) PROVE TypeOK'
    BY <2>20 DEF RequireFails
  <2>11. ASSUME NEW c \in Classes, Resolve(t, c) PROVE TypeOK'
    BY <2>11, NamesAssumption DEF Resolve
  <2>12. CASE ResolveNothing(t)
    BY <2>12 DEF ResolveNothing
  <2>13. CASE ApplySkip(t)
    BY <2>13 DEF ApplySkip, NextVersion
  <2>14. CASE ApplyPending(t)
    BY <2>14 DEF ApplyPending
  <2>15. CASE Migrate(t)
    <3>1. plugin[t] \in Plugins /\ version[t] \in DOMAIN Schema[plugin[t]]
      BY <2>15 DEF Migrate, Position, HasMigration
    <3>2. version[t] \in Versions /\ Migration(t).on \in Tables
      BY <3>1, SchemaFacts DEF Migration
    <3>3. tables' \in [Tables -> SUBSET Versions]
      BY <2>15, <3>2 DEF Migrate
    <3>4. tracked' \in [Plugins -> SUBSET Versions]
      BY <2>15, <3>1, <3>2 DEF Migrate
    <3> QED
      BY <2>15, <3>3, <3>4 DEF Migrate, NextVersion
  <2>16. CASE MigrateFails(t)
    BY <2>16 DEF MigrateFails
  <2>17. CASE ApplyDone(t)
    BY <2>17 DEF ApplyDone
  <2>18. CASE Register(t)
    BY <2>18 DEF Register
  <2>19. CASE OnLoadRaises(t)
    BY <2>19 DEF OnLoadRaises
  <2> QED
    BY <1>2, <2>1, <2>2, <2>3, <2>4, <2>5, <2>6, <2>7, <2>8, <2>9, <2>10, <2>11,
       <2>12, <2>13, <2>14, <2>15, <2>16, <2>17, <2>18, <2>19, <2>20 DEF ThreadStep
<1>3. CASE BootDone
  BY <1>3 DEF BootDone
<1>4. ASSUME NEW p \in Plugins, BootLoad(p) PROVE TypeOK'
  BY <1>4 DEF BootLoad, Threads
<1>5. ASSUME NEW p \in Plugins, HandleChange(p) PROVE TypeOK'
  BY <1>5 DEF HandleChange, Threads
<1>6. ASSUME NEW t \in Requests, NEW p \in Plugins, PostReload(t, p) PROVE TypeOK'
  BY <1>6 DEF PostReload, Threads
<1>7. ASSUME NEW p \in Plugins, NEW c \in Classes, EditFile(p, c) PROVE TypeOK'
  BY <1>7 DEF EditFile
<1>8. ASSUME NEW x \in Tables, StoreRow(x) PROVE TypeOK'
  BY <1>8 DEF StoreRow
<1>9. CASE Crash
  BY <1>9 DEF Crash
<1> QED
  BY <1>1, <1>2, <1>3, <1>4, <1>5, <1>6, <1>7, <1>8, <1>9 DEF Next, BootStep

\* A step keeps threads at migrations that exist.
LEMMA PositionStep == TypeOK /\ Position /\ [Next]_vars => Position'
<1> SUFFICES ASSUME TypeOK, Position, [Next]_vars PROVE Position'
  OBVIOUS
<1> USE DEF TypeOK, database, files, process, threads, Goto, Position, HasMigration, Migration
<1>1. CASE UNCHANGED vars
  BY <1>1 DEF vars
<1>2. ASSUME NEW t \in Threads, ThreadStep(t) PROVE Position'
  <2>1. CASE Unregister(t)
    BY <2>1 DEF Unregister
  <2>2. CASE OnUnload(t)
    BY <2>2 DEF OnUnload
  <2>3. CASE OnUnloadRaises(t)
    BY <2>3 DEF OnUnloadRaises
  <2>4. CASE RollbackDrop(t)
    BY <2>4 DEF RollbackDrop
  <2>5. CASE RollbackUntrack(t)
    BY <2>5 DEF RollbackUntrack, NextVersion
  <2>6. CASE RollbackSkip(t)
    BY <2>6 DEF RollbackSkip, NextVersion
  <2>7. CASE RollbackDone(t)
    BY <2>7 DEF RollbackDone
  <2>8. CASE Forget(t)
    BY <2>8 DEF Forget
  <2>9. CASE Snapshot(t)
    BY <2>9 DEF Snapshot
  <2>10. CASE Require(t)
    BY <2>10 DEF Require
  <2>20. ASSUME NEW e \in FileErrors, RequireFails(t, e) PROVE Position'
    BY <2>20 DEF RequireFails
  <2>11. ASSUME NEW c \in Classes, Resolve(t, c) PROVE Position'
    BY <2>11 DEF Resolve
  <2>12. CASE ResolveNothing(t)
    BY <2>12 DEF ResolveNothing
  <2>13. CASE ApplySkip(t)
    BY <2>13 DEF ApplySkip, NextVersion
  <2>14. CASE ApplyPending(t)
    BY <2>14 DEF ApplyPending
  <2>15. CASE Migrate(t)
    BY <2>15 DEF Migrate, NextVersion
  <2>16. CASE MigrateFails(t)
    BY <2>16 DEF MigrateFails
  <2>17. CASE ApplyDone(t)
    BY <2>17 DEF ApplyDone
  <2>18. CASE Register(t)
    BY <2>18 DEF Register
  <2>19. CASE OnLoadRaises(t)
    BY <2>19 DEF OnLoadRaises
  <2> QED
    BY <1>2, <2>1, <2>2, <2>3, <2>4, <2>5, <2>6, <2>7, <2>8, <2>9, <2>10, <2>11,
       <2>12, <2>13, <2>14, <2>15, <2>16, <2>17, <2>18, <2>19, <2>20 DEF ThreadStep
<1>3. CASE BootDone
  BY <1>3 DEF BootDone
<1>4. ASSUME NEW p \in Plugins, BootLoad(p) PROVE Position'
  BY <1>4 DEF BootLoad, Threads
<1>5. ASSUME NEW p \in Plugins, HandleChange(p) PROVE Position'
  BY <1>5 DEF HandleChange, Threads
<1>6. ASSUME NEW t \in Requests, NEW p \in Plugins, PostReload(t, p) PROVE Position'
  BY <1>6 DEF PostReload, Threads
<1>7. ASSUME NEW p \in Plugins, NEW c \in Classes, EditFile(p, c) PROVE Position'
  BY <1>7 DEF EditFile
<1>8. ASSUME NEW x \in Tables, StoreRow(x) PROVE Position'
  BY <1>8 DEF StoreRow
<1>9. CASE Crash
  BY <1>9 DEF Crash
<1> QED
  BY <1>1, <1>2, <1>3, <1>4, <1>5, <1>6, <1>7, <1>8, <1>9 DEF Next, BootStep

\* A step keeps rollbacks inside the monitor: only the holder rolls back, and
\* register needs the monitor.
LEMMA ExclusiveStep == TypeOK /\ RollbackIsExclusive /\ [Next]_vars => RollbackIsExclusive'
<1> SUFFICES ASSUME TypeOK, RollbackIsExclusive, [Next]_vars PROVE RollbackIsExclusive'
  OBVIOUS
<1> USE DEF TypeOK, database, files, process, threads, Goto, RollbackIsExclusive
<1>1. CASE UNCHANGED vars
  BY <1>1 DEF vars
<1>2. ASSUME NEW t \in Threads, ThreadStep(t) PROVE RollbackIsExclusive'
  <2>1. CASE Unregister(t)
    BY <2>1, ThreadsAssumption DEF Unregister
  <2>2. CASE OnUnload(t)
    BY <2>2 DEF OnUnload
  <2>3. CASE OnUnloadRaises(t)
    BY <2>3 DEF OnUnloadRaises
  <2>4. CASE RollbackDrop(t)
    BY <2>4 DEF RollbackDrop
  <2>5. CASE RollbackUntrack(t)
    BY <2>5 DEF RollbackUntrack, NextVersion
  <2>6. CASE RollbackSkip(t)
    BY <2>6 DEF RollbackSkip, NextVersion
  <2>7. CASE RollbackDone(t)
    BY <2>7 DEF RollbackDone
  <2>8. CASE Forget(t)
    BY <2>8 DEF Forget
  <2>9. CASE Snapshot(t)
    BY <2>9 DEF Snapshot
  <2>10. CASE Require(t)
    BY <2>10 DEF Require
  <2>20. ASSUME NEW e \in FileErrors, RequireFails(t, e) PROVE RollbackIsExclusive'
    BY <2>20 DEF RequireFails
  <2>11. ASSUME NEW c \in Classes, Resolve(t, c) PROVE RollbackIsExclusive'
    BY <2>11 DEF Resolve
  <2>12. CASE ResolveNothing(t)
    BY <2>12 DEF ResolveNothing
  <2>13. CASE ApplySkip(t)
    BY <2>13 DEF ApplySkip, NextVersion
  <2>14. CASE ApplyPending(t)
    BY <2>14 DEF ApplyPending
  <2>15. CASE Migrate(t)
    BY <2>15 DEF Migrate, NextVersion
  <2>16. CASE MigrateFails(t)
    BY <2>16 DEF MigrateFails
  <2>17. CASE ApplyDone(t)
    BY <2>17 DEF ApplyDone
  <2>18. CASE Register(t)
    BY <2>18, ThreadsAssumption DEF Register
  <2>19. CASE OnLoadRaises(t)
    BY <2>19 DEF OnLoadRaises
  <2> QED
    BY <1>2, <2>1, <2>2, <2>3, <2>4, <2>5, <2>6, <2>7, <2>8, <2>9, <2>10, <2>11,
       <2>12, <2>13, <2>14, <2>15, <2>16, <2>17, <2>18, <2>19, <2>20 DEF ThreadStep
<1>3. CASE BootDone
  BY <1>3 DEF BootDone
<1>4. ASSUME NEW p \in Plugins, BootLoad(p) PROVE RollbackIsExclusive'
  BY <1>4 DEF BootLoad, Threads
<1>5. ASSUME NEW p \in Plugins, HandleChange(p) PROVE RollbackIsExclusive'
  BY <1>5 DEF HandleChange, Threads
<1>6. ASSUME NEW t \in Requests, NEW p \in Plugins, PostReload(t, p) PROVE RollbackIsExclusive'
  BY <1>6 DEF PostReload, Threads
<1>7. ASSUME NEW p \in Plugins, NEW c \in Classes, EditFile(p, c) PROVE RollbackIsExclusive'
  BY <1>7 DEF EditFile
<1>8. ASSUME NEW x \in Tables, StoreRow(x) PROVE RollbackIsExclusive'
  BY <1>8 DEF StoreRow
<1>9. CASE Crash
  BY <1>9 DEF Crash
<1> QED
  BY <1>1, <1>2, <1>3, <1>4, <1>5, <1>6, <1>7, <1>8, <1>9 DEF Next, BootStep

-----------------------------------------------------------------------------
\* The steps that change tables or tracking rows, and what all others keep.
LEMMA DatabaseSteps ==
  ASSUME [Next]_vars
  PROVE  \/ UNCHANGED <<tracked, tables>> /\ unloaded \subseteq unloaded'
         \/ \E t \in Threads : RollbackDrop(t) \/ RollbackUntrack(t) \/ Migrate(t)
<1> USE DEF database
<1>1. CASE UNCHANGED vars
  BY <1>1 DEF vars
<1>2. ASSUME NEW t \in Threads, ThreadStep(t),
             ~RollbackDrop(t), ~RollbackUntrack(t), ~Migrate(t)
      PROVE  UNCHANGED <<tracked, tables>> /\ unloaded \subseteq unloaded'
  BY <1>2 DEF ThreadStep, Unregister, OnUnload, OnUnloadRaises, RollbackSkip,
       RollbackDone, Forget, Snapshot, Require, Resolve, RequireFails, ResolveNothing, ApplySkip,
       ApplyPending, MigrateFails, ApplyDone, Register, OnLoadRaises
<1>3. CASE BootStep
  BY <1>3 DEF BootStep, BootDone, BootLoad
<1>4. ASSUME NEW p \in Plugins, HandleChange(p)
      PROVE  UNCHANGED <<tracked, tables>> /\ unloaded \subseteq unloaded'
  BY <1>4 DEF HandleChange
<1>5. ASSUME NEW t \in Requests, NEW p \in Plugins, PostReload(t, p)
      PROVE  UNCHANGED <<tracked, tables>> /\ unloaded \subseteq unloaded'
  BY <1>5 DEF PostReload
<1>6. ASSUME NEW p \in Plugins, NEW c \in Classes, EditFile(p, c)
      PROVE  UNCHANGED <<tracked, tables>> /\ unloaded \subseteq unloaded'
  BY <1>6 DEF EditFile
<1>7. ASSUME NEW x \in Tables, StoreRow(x)
      PROVE  UNCHANGED <<tracked, tables>> /\ unloaded \subseteq unloaded'
  BY <1>7 DEF StoreRow
<1>8. CASE Crash
  BY <1>8 DEF Crash
<1> QED
  BY <1>1, <1>2, <1>3, <1>4, <1>5, <1>6, <1>7, <1>8 DEF Next

\* A step keeps the schema of plugins that were never rolled back: rollbacks and
\* migrations of other plugins touch other tables, and a migration of the plugin
\* itself comes after all earlier ones.
LEMMA UntouchedStep ==
  TypeOK /\ Position /\ Untouched /\ Progressed /\ [Next]_vars => Untouched'
<1> SUFFICES ASSUME TypeOK, Position, Untouched, Progressed, [Next]_vars,
                    NEW p \in Plugins, p \notin unloaded'
             PROVE  /\ tracked'[p] \subseteq DOMAIN Schema[p]
                    /\ \A j \in tracked'[p], i \in DOMAIN Schema[p] :
                         i < j => i \in tracked'[p]
                    /\ \A x \in Tables : Owns(p, x) =>
                         tables'[x] = {k \in tracked'[p] : Schema[p][k].on = x}
  BY DEF Untouched, Owns
<1>1. CASE UNCHANGED <<tracked, tables>> /\ unloaded \subseteq unloaded'
  BY <1>1 DEF Untouched
<1>2. ASSUME NEW t \in Threads, RollbackDrop(t) \/ RollbackUntrack(t) \/ Migrate(t)
      PROVE  UNCHANGED unloaded /\ plugin[t] \in Plugins
  BY <1>2 DEF RollbackDrop, RollbackUntrack, Migrate, TypeOK
<1>3. ASSUME NEW t \in Threads, RollbackDrop(t) PROVE UNCHANGED <<tracked, unloaded>> /\
        \A x \in Tables : Owns(p, x) => tables'[x] = tables[x]
  <2>1. plugin[t] \in unloaded /\ plugin[t] \in Plugins /\ UNCHANGED <<tracked, unloaded>>
    BY <1>3 DEF RollbackDrop, Position, TypeOK
  <2>2. Owns(plugin[t], Migration(t).on)
    BY <1>3 DEF RollbackDrop, HasMigration, Migration, Owns
  <2>3. ~Owns(p, Migration(t).on)
    BY <2>1, <2>2, TablesAssumption DEF Owns
  <2> QED
    BY <1>3, <2>1, <2>3 DEF RollbackDrop, TypeOK
<1>4. ASSUME NEW t \in Threads, RollbackUntrack(t) PROVE
        UNCHANGED <<tables, unloaded>> /\ tracked'[p] = tracked[p]
  BY <1>4 DEF RollbackUntrack, Position, TypeOK
<1>5. ASSUME NEW t \in Threads, Migrate(t), plugin[t] # p PROVE
        UNCHANGED unloaded /\ tracked'[p] = tracked[p]
        /\ \A x \in Tables : Owns(p, x) => tables'[x] = tables[x]
  <2>1. Owns(plugin[t], Migration(t).on) /\ plugin[t] \in Plugins
    BY <1>5 DEF Migrate, Position, HasMigration, Migration, Owns, TypeOK
  <2>2. ~Owns(p, Migration(t).on)
    BY <1>5, <2>1, TablesAssumption DEF Owns
  <2> QED
    BY <1>5, <2>2 DEF Migrate, TypeOK
<1>6. ASSUME NEW t \in Threads, Migrate(t), plugin[t] = p
      PROVE  /\ tracked'[p] \subseteq DOMAIN Schema[p]
             /\ \A j \in tracked'[p], i \in DOMAIN Schema[p] : i < j => i \in tracked'[p]
             /\ \A x \in Tables : Owns(p, x) =>
                  tables'[x] = {k \in tracked'[p] : Schema[p][k].on = x}
  <2> DEFINE k == version[t]
             y == Schema[p][k].on
  <2>1. k \in DOMAIN Schema[p] /\ k \notin tracked[p] /\ pc[t] = "migrate"
    BY <1>6 DEF Migrate, Migratable, Applied, Position, HasMigration
  <2>2. p \notin unloaded /\ tracked'[p] = tracked[p] \cup {k}
    BY <1>6 DEF Migrate, TypeOK
  <2>3. \A i \in DOMAIN Schema[p] : i < k => i \in tracked[p]
    BY <1>6, <2>1, <2>2 DEF Progressed
  <2>4. DOMAIN Schema[p] \subseteq Nat \ {0} /\ y \in Tables
    BY <2>1, SchemaFacts
  <2>5. tables[y] = {j \in tracked[p] : Schema[p][j].on = y}
    BY <2>1, <2>2, <2>4 DEF Untouched, Owns
  <2>6. Schema[p][k].creates => tables[y] = {}
    <3> SUFFICES ASSUME Schema[p][k].creates,
                        NEW j \in tracked[p], Schema[p][j].on = y
                 PROVE  FALSE
      BY <2>5
    <3>1. j \in DOMAIN Schema[p] /\ j \in Nat /\ k \in Nat /\ j # k
      BY <2>1, <2>2, <2>4 DEF Untouched
    <3>2. ~(k < j)
      BY <2>1, <2>2, <3>1 DEF Untouched
    <3>3. ~(j < k)
      BY <2>1, <3>1, CreatesAssumption
    <3> QED
      BY <3>1, <3>2, <3>3
  <2>7. tables' = [tables EXCEPT ![y] = @ \cup {k}]
    BY <1>6, <2>4, <2>6 DEF Migrate, Migration, TypeOK
  <2>8. \A x \in Tables : Owns(p, x) =>
          tables'[x] = {j \in tracked'[p] : Schema[p][j].on = x}
    <3> SUFFICES ASSUME NEW x \in Tables, Owns(p, x)
                 PROVE  tables'[x] = {j \in tracked'[p] : Schema[p][j].on = x}
      OBVIOUS
    <3>1. tables[x] = {j \in tracked[p] : Schema[p][j].on = x}
      BY <2>2 DEF Untouched
    <3> QED
      BY <2>2, <2>4, <2>7, <3>1 DEF TypeOK
  <2>9. tracked[p] \subseteq DOMAIN Schema[p]
        /\ \A j \in tracked[p], i \in DOMAIN Schema[p] : i < j => i \in tracked[p]
    BY <2>2 DEF Untouched
  <2> QED
    BY <2>1, <2>2, <2>3, <2>8, <2>9
<1>7. p \notin unloaded
  BY <1>2, <1>1, DatabaseSteps
<1> QED
  BY <1>1, <1>3, <1>4, <1>5, <1>6, <1>7, DatabaseSteps DEF Untouched

\* A step keeps the progress of apply!: a thread passes a version only when it is
\* tracked, and what is tracked stays so until a rollback.
LEMMA ProgressedStep ==
  TypeOK /\ Position /\ Untouched /\ Progressed /\ [Next]_vars => Progressed'
<1> SUFFICES ASSUME TypeOK, Position, Untouched, Progressed, [Next]_vars PROVE Progressed'
  OBVIOUS
<1> USE DEF TypeOK, database, files, process, threads, Goto
<1>1. CASE UNCHANGED vars
  BY <1>1 DEF vars, Progressed
<1>2. ASSUME NEW t \in Threads, ThreadStep(t) PROVE Progressed'
  <2>1. CASE Unregister(t)
    BY <2>1 DEF Unregister, Progressed
  <2>2. CASE OnUnload(t)
    BY <2>2 DEF OnUnload, Progressed
  <2>3. CASE OnUnloadRaises(t)
    BY <2>3 DEF OnUnloadRaises, Progressed
  <2>4. CASE RollbackDrop(t)
    BY <2>4 DEF RollbackDrop, Progressed
  <2>5. CASE RollbackUntrack(t)
    BY <2>5 DEF RollbackUntrack, NextVersion, Position, Progressed
  <2>6. CASE RollbackSkip(t)
    BY <2>6 DEF RollbackSkip, NextVersion, Progressed
  <2>7. CASE RollbackDone(t)
    BY <2>7 DEF RollbackDone, Progressed
  <2>8. CASE Forget(t)
    BY <2>8 DEF Forget, Progressed
  <2>9. CASE Snapshot(t)
    BY <2>9 DEF Snapshot, Progressed
  <2>10. CASE Require(t)
    BY <2>10 DEF Require, Progressed
  <2>20. ASSUME NEW e \in FileErrors, RequireFails(t, e) PROVE Progressed'
    BY <2>20 DEF RequireFails, Progressed
  <2>11. ASSUME NEW c \in Classes, Resolve(t, c) PROVE Progressed'
    <3>1. \A p \in Plugins : \A k \in DOMAIN Schema[p] : ~(k < 1)
      BY SchemaFacts
    <3> QED
      BY <2>11, <3>1 DEF Resolve, Progressed
  <2>12. CASE ResolveNothing(t)
    BY <2>12 DEF ResolveNothing, Progressed
  <2>13. CASE ApplySkip(t)
    <3>1. \A k \in DOMAIN Schema[plugin[t]] : k < version[t] + 1 => k < version[t] \/ k = version[t]
      <4>1. DOMAIN Schema[plugin[t]] \subseteq Nat /\ version[t] \in Nat
        BY SchemaFacts
      <4> QED
        BY <4>1
    <3> QED
      BY <2>13, <3>1 DEF ApplySkip, NextVersion, Applied, Progressed
  <2>14. CASE ApplyPending(t)
    BY <2>14 DEF ApplyPending, Progressed
  <2>15. CASE Migrate(t)
    <3>1. \A k \in DOMAIN Schema[plugin[t]] : k < version[t] + 1 => k < version[t] \/ k = version[t]
      <4>1. DOMAIN Schema[plugin[t]] \subseteq Nat /\ version[t] \in Nat
        BY SchemaFacts
      <4> QED
        BY <4>1
    <3>2. version[t] \in DOMAIN Schema[plugin[t]] /\ pc[t] = "migrate"
      BY <2>15 DEF Migrate, Position, HasMigration
    <3>3. tracked' = [tracked EXCEPT ![plugin[t]] = @ \cup {version[t]}]
          /\ version' = [version EXCEPT ![t] = @ + 1] /\ pc' = [pc EXCEPT ![t] = "apply"]
          /\ UNCHANGED <<plugin, registered, unloaded>>
      BY <2>15 DEF Migrate, NextVersion
    <3> QED
      BY <3>1, <3>2, <3>3 DEF Progressed
  <2>16. CASE MigrateFails(t)
    BY <2>16 DEF MigrateFails, Progressed
  <2>17. CASE ApplyDone(t)
    <3> DEFINE p == plugin[t]
    <3>1. p \in Plugins /\ version[t] \in Nat \ {0} /\ version[t] \notin DOMAIN Schema[p]
      BY <2>17 DEF ApplyDone, HasMigration, Position
    <3>2. \A k \in DOMAIN Schema[p] : k < version[t]
      <4> SUFFICES ASSUME NEW k \in DOMAIN Schema[p], ~(k < version[t]) PROVE FALSE
        OBVIOUS
      <4>1. DOMAIN Schema[p] \subseteq Nat \ {0}
            /\ \A i \in Nat \ {0} : i < k => i \in DOMAIN Schema[p]
        BY <3>1, SchemaFacts
      <4>2. k \in Nat /\ k # version[t]
        BY <3>1, <4>1
      <4>3. version[t] < k
        BY <3>1, <4>2
      <4> QED
        BY <3>1, <4>1, <4>3
    <3>3. p \notin unloaded => tracked[p] = DOMAIN Schema[p]
      BY <2>17, <3>1, <3>2 DEF ApplyDone, Progressed, Untouched
    <3> QED
      BY <2>17, <3>3 DEF ApplyDone, Progressed
  <2>18. CASE Register(t)
    BY <2>18 DEF Register, Progressed
  <2>19. CASE OnLoadRaises(t)
    BY <2>19 DEF OnLoadRaises, Progressed
  <2> QED
    BY <1>2, <2>1, <2>2, <2>3, <2>4, <2>5, <2>6, <2>7, <2>8, <2>9, <2>10, <2>11,
       <2>12, <2>13, <2>14, <2>15, <2>16, <2>17, <2>18, <2>19, <2>20 DEF ThreadStep
<1>3. CASE BootDone
  BY <1>3 DEF BootDone, Progressed
<1>4. ASSUME NEW p \in Plugins, BootLoad(p) PROVE Progressed'
  BY <1>4 DEF BootLoad, Threads, Progressed
<1>5. ASSUME NEW p \in Plugins, HandleChange(p) PROVE Progressed'
  BY <1>5 DEF HandleChange, Threads, Progressed
<1>6. ASSUME NEW t \in Requests, NEW p \in Plugins, PostReload(t, p) PROVE Progressed'
  BY <1>6 DEF PostReload, Threads, Progressed
<1>7. ASSUME NEW p \in Plugins, NEW c \in Classes, EditFile(p, c) PROVE Progressed'
  BY <1>7 DEF EditFile, Progressed
<1>8. ASSUME NEW x \in Tables, StoreRow(x) PROVE Progressed'
  BY <1>8 DEF StoreRow, Progressed
<1>9. CASE Crash
  BY <1>9 DEF Crash, Progressed
<1> QED
  BY <1>1, <1>2, <1>3, <1>4, <1>5, <1>6, <1>7, <1>8, <1>9 DEF Next, BootStep

-----------------------------------------------------------------------------
\* What every theorem rests on.
LEMMA Base == Spec => [](TypeOK /\ Position)
<1>1. ASSUME Init PROVE TypeOK /\ Position
  <2>1. path \in [Threads -> Plugins] /\ plugin = path
    BY <1>1 DEF Init, Fresh
  <2>2. pc = [t \in Threads |-> "idle"]
    BY <1>1 DEF Init, Fresh
  <2>3. Position
    BY <2>2 DEF Position
  <2> QED
    BY <1>1, <2>1, <2>2, <2>3 DEF Init, Fresh, TypeOK, Steps
<1> QED
  BY <1>1, TypeStep, PositionStep, PTL DEF Spec

\* Every variable keeps its type, whatever the threads, hooks and kills do.
THEOREM TypeCorrect == Spec => []TypeOK
  BY Base, PTL

\* While unregister rolls a plugin back its thread holds the registry's monitor
\* and the registry does not serve the plugin.
THEOREM Exclusive == Spec => []RollbackIsExclusive
<1>1. Init => RollbackIsExclusive
  BY DEF Init, Fresh, RollbackIsExclusive
<1> QED
  BY <1>1, Base, ExclusiveStep, PTL DEF Spec

\* A plugin whose rollback never began has, of the migrations its tracking table
\* names, every effect, and all of them once it is registered: loading may be
\* interrupted anywhere and done by any number of threads.
THEOREM UntouchedSound == Spec => []UntouchedIsSound
<1>1. Init => Untouched /\ Progressed
  BY DEF Init, Fresh, Untouched, Progressed
<1>2. TypeOK /\ Untouched /\ Progressed => UntouchedIsSound
  <2> SUFFICES ASSUME TypeOK, Untouched, Progressed, NEW p \in Plugins, p \notin unloaded
               PROVE  TrackedMeansAppliedTo(p) /\ (p \in registered => Complete(p))
    BY DEF UntouchedIsSound
  <2>1. TrackedMeansAppliedTo(p)
    BY SchemaFacts DEF Untouched, Owns, TrackedMeansAppliedTo
  <2> QED
    BY <2>1 DEF Progressed, TrackedMeansAppliedTo, Complete
<1> QED
  BY <1>1, <1>2, Base, UntouchedStep, ProgressedStep, PTL DEF Spec

\* Stored data goes away only when the plugin that owns its table is being
\* rolled back by the holder of the monitor.
THEOREM LossOnlyByRollback == Spec => DataLostOnlyByRollback
<1> DEFINE Lost == \A x \in rows \ rows' :
       \E t \in Threads : /\ pc[t] = "drop" /\ lock = t
                          /\ plugin[t] \notin registered
                          /\ \E k \in DOMAIN Schema[plugin[t]] :
                               Schema[plugin[t]][k].on = x
<1>1. ASSUME RollbackIsExclusive, [Next]_vars PROVE Lost
  <2> USE DEF database
  <2>1. CASE UNCHANGED vars
    BY <2>1 DEF vars
  <2>2. ASSUME NEW t \in Threads, RollbackDrop(t) PROVE Lost
    BY <1>1, <2>2 DEF RollbackDrop, RollbackIsExclusive, HasMigration, Migration
  <2>3. ASSUME NEW t \in Threads, ThreadStep(t), ~RollbackDrop(t) PROVE rows \subseteq rows'
    BY <2>3 DEF ThreadStep, Unregister, OnUnload, OnUnloadRaises, RollbackUntrack,
         RollbackSkip, RollbackDone, Forget, Snapshot, Require, Resolve, RequireFails, ResolveNothing,
         ApplySkip, ApplyPending, Migrate, MigrateFails, ApplyDone, Register, OnLoadRaises
  <2>4. CASE BootStep
    BY <2>4 DEF BootStep, BootDone, BootLoad
  <2>5. ASSUME NEW p \in Plugins, HandleChange(p) PROVE rows \subseteq rows'
    BY <2>5 DEF HandleChange
  <2>6. ASSUME NEW t \in Requests, NEW p \in Plugins, PostReload(t, p)
        PROVE  rows \subseteq rows'
    BY <2>6 DEF PostReload
  <2>7. ASSUME NEW p \in Plugins, NEW c \in Classes, EditFile(p, c)
        PROVE  rows \subseteq rows'
    BY <2>7 DEF EditFile
  <2>8. ASSUME NEW x \in Tables, StoreRow(x) PROVE rows \subseteq rows'
    BY <2>8 DEF StoreRow
  <2>9. CASE Crash
    BY <2>9 DEF Crash
  <2> QED
    BY <1>1, <2>1, <2>2, <2>3, <2>4, <2>5, <2>6, <2>7, <2>8, <2>9 DEF Next
<1>2. RollbackIsExclusive /\ [Next]_vars => [Lost]_vars
  BY <1>1
<1> QED
  BY <1>2, Exclusive, PTL DEF Spec, DataLostOnlyByRollback

-----------------------------------------------------------------------------
(* One reloading thread at a time and no kill.                               *)

\* The watcher is the only one to reload and the process is not killed.
Serial == Requests = {} /\ CrashAllowed = FALSE

\* Boot works before the process is up and the watcher after that, so no two
\* threads work at a time.
OneWorks ==
  /\ pc[Boot] # "idle" => ~up
  /\ pc[Listener] # "idle" => up

RollingBack(p) ==
  \E t \in Threads : pc[t] \in {"drop", "untrack"} /\ plugin[t] = p

\* The database when no thread rolls back a plugin, whatever was unloaded before.
Consistent ==
  \A p \in Plugins :
    /\ tracked[p] \subseteq DOMAIN Schema[p]
    /\ ~RollingBack(p) => TrackedMeansAppliedTo(p)
    /\ \A k \in DOMAIN Schema[p] :
         Schema[p][k].creates /\ tables[Schema[p][k].on] # {}
           => k \in tables[Schema[p][k].on]

\* How far the thread that works has come.
Advanced ==
  /\ \A p \in registered : tracked[p] = DOMAIN Schema[p]
  /\ \A t \in Threads :
       /\ pc[t] \in {"drop", "untrack"} =>
            version[t] >= 1 /\ \A k \in tracked[plugin[t]] : k >= version[t]
       /\ pc[t] \in {"apply", "migrate"} =>
            \A k \in DOMAIN Schema[plugin[t]] : k < version[t] => k \in tracked[plugin[t]]
       /\ pc[t] = "register" => tracked[plugin[t]] = DOMAIN Schema[plugin[t]]

\* Two threads that both work are the same thread.
LEMMA WorkerIsOne ==
  ASSUME Serial, OneWorks, NEW t \in Threads, NEW u \in Threads,
         pc[t] # "idle", pc[u] # "idle"
  PROVE  t = u
BY DEF Serial, OneWorks, Threads

\* A step keeps the watcher and boot apart: boot ends before the process is up.
LEMMA OneWorksStep ==
  Serial /\ TypeOK /\ OneWorks /\ [Next]_vars => OneWorks'
<1> SUFFICES ASSUME Serial, TypeOK, OneWorks, [Next]_vars PROVE OneWorks'
  OBVIOUS
<1> USE DEF TypeOK, database, files, process, threads, Goto
<1>1. CASE UNCHANGED vars
  BY <1>1 DEF vars, OneWorks
<1>2. ASSUME NEW t \in Threads, ThreadStep(t) PROVE OneWorks'
  <2>1. UNCHANGED up /\ \A u \in Threads : u # t => pc'[u] = pc[u]
    BY <1>2 DEF ThreadStep, Unregister, OnUnload, OnUnloadRaises, RollbackDrop,
         RollbackUntrack, RollbackSkip, RollbackDone, Forget, Snapshot, Require, Resolve,
         RequireFails, ResolveNothing, ApplySkip, ApplyPending, Migrate, MigrateFails, ApplyDone,
         Register, OnLoadRaises
  <2>2. pc[t] # "idle"
    BY <1>2 DEF ThreadStep, Unregister, OnUnload, OnUnloadRaises, RollbackDrop,
         RollbackUntrack, RollbackSkip, RollbackDone, Forget, Snapshot, Require, Resolve,
         RequireFails, ResolveNothing, ApplySkip, ApplyPending, Migrate, MigrateFails, ApplyDone,
         Register, OnLoadRaises
  <2> QED
    BY <2>1, <2>2 DEF OneWorks, Threads
<1>3. CASE BootDone
  BY <1>3 DEF BootDone, OneWorks
<1>4. ASSUME NEW p \in Plugins, BootLoad(p) PROVE OneWorks'
  BY <1>4, ThreadsAssumption DEF BootLoad, OneWorks, Threads
<1>5. ASSUME NEW p \in Plugins, HandleChange(p) PROVE OneWorks'
  BY <1>5, ThreadsAssumption DEF HandleChange, OneWorks, Threads
<1>6. ASSUME NEW p \in Plugins, NEW c \in Classes, EditFile(p, c) PROVE OneWorks'
  BY <1>6 DEF EditFile, OneWorks
<1>7. ASSUME NEW x \in Tables, StoreRow(x) PROVE OneWorks'
  BY <1>7 DEF StoreRow, OneWorks
<1> QED
  BY <1>1, <1>2, <1>3, <1>4, <1>5, <1>6, <1>7 DEF Next, BootStep, Crash, Serial

\* A rollback that has passed every migration has left nothing tracked.
LEMMA NothingTracked ==
  ASSUME TypeOK, Consistent, Advanced, NEW t \in Threads, RollbackDone(t)
  PROVE  tracked[plugin[t]] = {}
<1> SUFFICES ASSUME NEW k \in tracked[plugin[t]] PROVE FALSE
  OBVIOUS
<1>1. plugin[t] \in Plugins /\ version[t] \in Nat \ {0} /\ k >= version[t]
  BY DEF TypeOK, RollbackDone, Advanced
<1>2. k \in DOMAIN Schema[plugin[t]] /\ version[t] \notin DOMAIN Schema[plugin[t]]
  BY <1>1 DEF Consistent, RollbackDone, HasMigration
<1>3. k \in Nat \ {0} /\ \A i \in Nat \ {0} : i < k => i \in DOMAIN Schema[plugin[t]]
  BY <1>1, <1>2, SchemaFacts
<1> QED
  BY <1>1, <1>2, <1>3

\* While a thread works every other thread is idle, and stays so.
LEMMA OthersIdle ==
  ASSUME Serial, OneWorks, NEW t \in Threads, ThreadStep(t), TypeOK
  PROVE  /\ pc[t] # "idle"
         /\ \A u \in Threads \ {t} : pc[u] = "idle" /\ pc'[u] = "idle"
<1>1. pc[t] # "idle" /\ \A u \in Threads : u # t => pc'[u] = pc[u]
  BY DEF ThreadStep, Unregister, OnUnload, OnUnloadRaises, RollbackDrop,
     RollbackUntrack, RollbackSkip, RollbackDone, Forget, Snapshot, Require, Resolve,
     RequireFails, ResolveNothing, ApplySkip, ApplyPending, Migrate, MigrateFails, ApplyDone,
     Register, OnLoadRaises, Goto, TypeOK, threads
<1> QED
  BY <1>1, WorkerIsOne

\* A step keeps tables and tracking rows consistent: a rollback ends with nothing
\* tracked, and a migration that finds its table created finds its own effect.
LEMMA ConsistentStep ==
  ASSUME Serial, TypeOK, Position, OneWorks, Consistent, Advanced, [Next]_vars
  PROVE  Consistent'
<1> USE DEF database, files, process, threads, Goto
<1>1. ASSUME UNCHANGED <<tracked, tables>>,
             \A p \in Plugins : RollingBack(p) => RollingBack(p)'
      PROVE  Consistent'
  BY <1>1 DEF Consistent, TrackedMeansAppliedTo
<1>2. ASSUME UNCHANGED <<pc, plugin>>
      PROVE  \A p \in Plugins : RollingBack(p) => RollingBack(p)'
  BY <1>2 DEF RollingBack
<1>3. ASSUME NEW t \in Threads, ThreadStep(t) PROVE Consistent'
  <2>1. /\ pc[t] # "idle"
        /\ \A u \in Threads \ {t} : pc[u] = "idle" /\ pc'[u] = "idle"
    BY <1>3, OthersIdle
  <2>2. ASSUME NEW p \in Plugins
        PROVE  /\ RollingBack(p) <=> (pc[t] \in {"drop", "untrack"} /\ plugin[t] = p)
               /\ RollingBack(p)' <=> (pc'[t] \in {"drop", "untrack"} /\ plugin'[t] = p)
    BY <2>1 DEF RollingBack
  <2>3. CASE RollbackDrop(t)
    <3> DEFINE q == plugin[t]
               x == Migration(t).on
    <3>1. q \in Plugins /\ version[t] \in DOMAIN Schema[q] /\ pc[t] = "drop"
          /\ pc'[t] = "untrack" /\ UNCHANGED <<tracked, plugin>>
      BY <2>3 DEF RollbackDrop, HasMigration, TypeOK
    <3>2. \A y \in Tables : tables'[y] = tables[y] \/ (y = x /\ tables'[y] = {})
      BY <2>3 DEF RollbackDrop, TypeOK
    <3>3. \A p \in Plugins : p # q => \A k \in DOMAIN Schema[p] : Schema[p][k].on # x
      BY <3>1, TablesAssumption DEF Migration
    <3>4. \A p \in Plugins : p # q => \A k \in DOMAIN Schema[p] :
            tables'[Schema[p][k].on] = tables[Schema[p][k].on]
      BY <3>2, <3>3, SchemaFacts
    <3>5. RollingBack(q)' /\ \A p \in Plugins : p # q => ~RollingBack(p)
      BY <2>2, <3>1
    <3>6. \A p \in Plugins : p # q => TrackedMeansAppliedTo(p)'
      BY <3>1, <3>4, <3>5 DEF Consistent, TrackedMeansAppliedTo
    <3>7. \A p \in Plugins : \A k \in DOMAIN Schema[p] :
            Schema[p][k].creates /\ tables'[Schema[p][k].on] # {}
              => k \in tables'[Schema[p][k].on]
      BY <3>2, SchemaFacts DEF Consistent
    <3> QED
      BY <3>1, <3>5, <3>6, <3>7 DEF Consistent
  <2>4. CASE RollbackUntrack(t)
    <3>1. /\ pc[t] = "untrack" /\ pc'[t] = "drop" /\ UNCHANGED <<tables, plugin>>
          /\ tracked' = [tracked EXCEPT ![plugin[t]] = @ \ {version[t]}]
      BY <2>4 DEF RollbackUntrack, TypeOK
    <3>2. \A p \in Plugins : tracked'[p] \subseteq tracked[p]
      BY <3>1 DEF TypeOK
    <3>3. \A p \in Plugins : RollingBack(p) <=> RollingBack(p)'
      BY <2>2, <3>1
    <3> QED
      BY <3>1, <3>2, <3>3 DEF Consistent, TrackedMeansAppliedTo
  <2>5. CASE RollbackDone(t)
    <3>1. tracked[plugin[t]] = {}
      BY <2>5, NothingTracked
    <3>2. UNCHANGED <<tracked, tables, plugin>> /\ pc[t] = "drop"
      BY <2>5 DEF RollbackDone
    <3>3. \A p \in Plugins : TrackedMeansAppliedTo(p)
      BY <2>2, <3>1 DEF Consistent, TrackedMeansAppliedTo
    <3> QED
      BY <3>2, <3>3 DEF Consistent, TrackedMeansAppliedTo
  <2>6. CASE Migrate(t)
    <3> DEFINE q == plugin[t]
               k == version[t]
               x == Schema[q][k].on
    <3>1. q \in Plugins /\ k \in DOMAIN Schema[q] /\ x \in Tables /\ pc[t] = "migrate"
          /\ UNCHANGED plugin
      BY <2>6, SchemaFacts DEF Migrate, Position, HasMigration, TypeOK
    <3>2. /\ Schema[q][k].creates \/ tables[x] # {}
          /\ tables' = [tables EXCEPT ![x] =
               IF Schema[q][k].creates /\ @ # {} THEN @ ELSE @ \cup {k}]
          /\ tracked' = [tracked EXCEPT ![q] = @ \cup {k}]
      BY <2>6 DEF Migrate, Migratable, Migration
    <3>3. k \in tables'[x] /\ tables[x] \subseteq tables'[x]
          /\ \A y \in Tables : y # x => tables'[y] = tables[y]
      BY <3>1, <3>2 DEF Consistent, TypeOK
    <3>4. \A p \in Plugins : tracked'[p] \subseteq DOMAIN Schema[p]
      BY <3>1, <3>2 DEF Consistent, TypeOK
    <3>5. \A p \in Plugins : TrackedMeansAppliedTo(p)
      BY <2>2, <3>1 DEF Consistent
    <3>6. \A p \in Plugins : TrackedMeansAppliedTo(p)'
      <4> SUFFICES ASSUME NEW p \in Plugins, NEW j \in tracked'[p]
                   PROVE  j \in tables'[Schema[p][j].on]
        BY DEF TrackedMeansAppliedTo
      <4>1. Schema[p][j].on \in Tables
        BY <3>4, SchemaFacts
      <4>2. CASE p = q /\ j = k
        BY <4>2, <3>3
      <4>3. CASE ~(p = q /\ j = k)
        <5>1. j \in tracked[p]
          BY <4>3, <3>1, <3>2 DEF TypeOK
        <5> QED
          BY <5>1, <4>1, <3>3, <3>5 DEF TrackedMeansAppliedTo
      <4> QED
        BY <4>2, <4>3
    <3>7. ASSUME NEW p \in Plugins, NEW j \in DOMAIN Schema[p], Schema[p][j].creates,
                 tables'[Schema[p][j].on] # {}
          PROVE  j \in tables'[Schema[p][j].on]
      <4>1. Schema[p][j].on \in Tables
        BY SchemaFacts
      <4>2. CASE Schema[p][j].on # x \/ tables[x] # {}
        BY <3>3, <3>7, <4>1, <4>2 DEF Consistent
      <4>3. CASE Schema[p][j].on = x /\ tables[x] = {}
        <5>1. p = q
          BY <4>3, <3>1, TablesAssumption
        <5>2. Schema[q][k].creates /\ j \in Nat /\ k \in Nat
          BY <4>3, <3>1, <3>2, SchemaFacts
        <5>3. ~(j < k) /\ ~(k < j)
          BY <3>1, <3>7, <4>3, <5>1, <5>2, CreatesAssumption
        <5> QED
          BY <3>3, <4>3, <5>2, <5>3
      <4> QED
        BY <4>2, <4>3
    <3> QED
      BY <3>4, <3>6, <3>7 DEF Consistent
  <2>7. ASSUME ~RollbackDrop(t), ~RollbackUntrack(t), ~RollbackDone(t), ~Migrate(t)
        PROVE  /\ UNCHANGED <<tracked, tables>>
               /\ pc[t] \in {"drop", "untrack"} =>
                    pc'[t] \in {"drop", "untrack"} /\ plugin'[t] = plugin[t]
    BY <1>3, <2>7 DEF ThreadStep, Unregister, OnUnload, OnUnloadRaises, RollbackSkip,
         Forget, Snapshot, Require, Resolve, RequireFails, ResolveNothing, ApplySkip,
         ApplyPending, MigrateFails, ApplyDone, Register, OnLoadRaises, TypeOK
  <2> QED
    BY <1>1, <2>2, <2>3, <2>4, <2>5, <2>6, <2>7
<1>4. CASE UNCHANGED vars
  BY <1>1, <1>2, <1>4 DEF vars
<1>5. CASE BootDone
  BY <1>1, <1>2, <1>5 DEF BootDone
<1>6. ASSUME NEW p \in Plugins, BootLoad(p) PROVE Consistent'
  BY <1>1, <1>6, ThreadsAssumption DEF BootLoad, RollingBack, TypeOK, Threads
<1>7. ASSUME NEW p \in Plugins, HandleChange(p) PROVE Consistent'
  BY <1>1, <1>7, ThreadsAssumption DEF HandleChange, RollingBack, TypeOK, Threads
<1>8. ASSUME NEW p \in Plugins, NEW c \in Classes, EditFile(p, c) PROVE Consistent'
  BY <1>1, <1>2, <1>8 DEF EditFile
<1>9. ASSUME NEW x \in Tables, StoreRow(x) PROVE Consistent'
  BY <1>1, <1>2, <1>9 DEF StoreRow
<1> QED
  BY <1>3, <1>4, <1>5, <1>6, <1>7, <1>8, <1>9 DEF Next, BootStep, Crash, Serial

\* A step keeps the progress of the thread that works.
LEMMA AdvancedStep ==
  ASSUME Serial, TypeOK, Position, RollbackIsExclusive, OneWorks, Consistent, Advanced,
         [Next]_vars
  PROVE  Advanced'
<1> USE DEF TypeOK, database, files, process, threads, Goto
<1>1. CASE UNCHANGED vars
  BY <1>1 DEF vars, Advanced
<1>2. ASSUME NEW t \in Threads, ThreadStep(t) PROVE Advanced'
  <2> DEFINE q == plugin[t]
  <2>1. \A u \in Threads \ {t} : pc[u] = "idle" /\ pc'[u] = "idle"
    BY <1>2, OthersIdle
  <2>2. \A p \in Plugins : DOMAIN Schema[p] \subseteq Nat \ {0}
    BY SchemaFacts
  <2>next. \A k \in DOMAIN Schema[q] : k < version[t] + 1 => k < version[t] \/ k = version[t]
    <3>1. DOMAIN Schema[q] \subseteq Nat /\ version[t] \in Nat
      BY <2>2
    <3> QED
      BY <3>1
  <2>3. CASE Unregister(t)
    BY <2>1, <2>3 DEF Unregister, Advanced
  <2>4. CASE OnUnload(t)
    <3>1. version'[t] = 1 /\ pc' = [pc EXCEPT ![t] = "drop"]
          /\ UNCHANGED <<tracked, plugin, registered>>
      BY <2>4 DEF OnUnload
    <3>2. \A k \in tracked[q] : k >= 1
      BY <2>2 DEF Consistent
    <3> QED
      BY <2>1, <3>1, <3>2 DEF Advanced
  <2>5. CASE RollbackDrop(t)
    BY <2>1, <2>5 DEF RollbackDrop, Advanced
  <2>6. CASE RollbackUntrack(t)
    <3>1. /\ tracked' = [tracked EXCEPT ![q] = @ \ {version[t]}]
          /\ pc[t] = "untrack" /\ version' = [version EXCEPT ![t] = @ + 1]
          /\ pc' = [pc EXCEPT ![t] = "drop"] /\ UNCHANGED <<plugin, registered>>
      BY <2>6 DEF RollbackUntrack, NextVersion
    <3>2. q \notin registered
      BY <3>1 DEF RollbackIsExclusive
    <3>3. version[t] \in Nat /\ \A k \in tracked[q] : k \in Nat
      BY <2>2 DEF Consistent
    <3>4. version[t] >= 1 /\ \A k \in tracked[q] : k >= version[t]
      BY <3>1 DEF Advanced
    <3>5. version'[t] >= 1 /\ \A k \in tracked'[q] : k >= version'[t]
      BY <3>1, <3>3, <3>4
    <3> QED
      BY <2>1, <3>1, <3>2, <3>5 DEF Advanced
  <2>7. CASE RollbackSkip(t)
    <3>1. /\ version' = [version EXCEPT ![t] = @ + 1] /\ version[t] \notin tracked[q]
          /\ pc[t] = "drop" /\ UNCHANGED <<pc, plugin, registered, tracked>>
      BY <2>7 DEF RollbackSkip, NextVersion, Applied
    <3>2. version[t] \in Nat /\ \A k \in tracked[q] : k \in Nat
      BY <2>2 DEF Consistent
    <3>3. version[t] >= 1 /\ \A k \in tracked[q] : k >= version[t]
      BY <3>1 DEF Advanced
    <3>4. version'[t] >= 1 /\ \A k \in tracked'[q] : k >= version'[t]
      BY <3>1, <3>2, <3>3
    <3> QED
      BY <2>1, <3>1, <3>4 DEF Advanced
  <2>8. ASSUME NEW c \in Classes, Resolve(t, c) PROVE Advanced'
    <3>1. \A p \in Plugins : \A k \in DOMAIN Schema[p] : ~(k < 1)
      BY <2>2
    <3>2. NameOf[c] \in Plugins
      BY NamesAssumption
    <3> QED
      BY <2>1, <2>8, <3>1, <3>2 DEF Resolve, Advanced
  <2>9. CASE ApplySkip(t)
    <3>2. /\ version' = [version EXCEPT ![t] = @ + 1] /\ version[t] \in tracked[q]
          /\ pc[t] = "apply" /\ UNCHANGED <<pc, plugin, registered, tracked>>
      BY <2>9 DEF ApplySkip, NextVersion, Applied
    <3> QED
      BY <2>1, <2>next, <3>2 DEF Advanced
  <2>10. CASE ApplyPending(t)
    BY <2>1, <2>10 DEF ApplyPending, Advanced
  <2>11. CASE Migrate(t)
    <3>2. version[t] \in DOMAIN Schema[q] /\ pc[t] = "migrate"
      BY <2>11 DEF Migrate, Position, HasMigration
    <3>3. tracked' = [tracked EXCEPT ![q] = @ \cup {version[t]}]
          /\ version' = [version EXCEPT ![t] = @ + 1] /\ pc' = [pc EXCEPT ![t] = "apply"]
          /\ UNCHANGED <<plugin, registered>>
      BY <2>11 DEF Migrate, NextVersion
    <3>4. \A p \in registered : tracked'[p] = DOMAIN Schema[p]
      BY <3>2, <3>3 DEF Advanced
    <3>5. \A k \in DOMAIN Schema[q] : k < version'[t] => k \in tracked'[q]
      BY <2>next, <3>2, <3>3 DEF Advanced
    <3> QED
      BY <2>1, <3>3, <3>4, <3>5 DEF Advanced
  <2>12. CASE ApplyDone(t)
    <3>1. q \in Plugins /\ version[t] \in Nat \ {0} /\ version[t] \notin DOMAIN Schema[q]
      BY <2>12 DEF ApplyDone, HasMigration, Position
    <3>2. ASSUME NEW k \in DOMAIN Schema[q] PROVE k < version[t]
      <4>1. k \in Nat \ {0} /\ \A i \in Nat \ {0} : i < k => i \in DOMAIN Schema[q]
        BY <3>1, <3>2, SchemaFacts
      <4> QED
        BY <3>1, <3>2, <4>1
    <3>3. tracked[q] = DOMAIN Schema[q]
      BY <2>12, <3>1, <3>2 DEF ApplyDone, Advanced, Consistent
    <3> QED
      BY <2>1, <2>12, <3>3 DEF ApplyDone, Advanced
  <2>13. CASE Register(t)
    BY <2>1, <2>13 DEF Register, Advanced
  <2>14. CASE OnUnloadRaises(t) \/ RollbackDone(t) \/ Forget(t) \/ Snapshot(t) \/ Require(t)
              \/ (\E e \in FileErrors : RequireFails(t, e))
              \/ ResolveNothing(t) \/ MigrateFails(t) \/ OnLoadRaises(t)
    <3>1. UNCHANGED <<tracked, registered>>
          /\ pc'[t] \in {"idle", "ended", "forget", "snapshot", "require", "resolve"}
      BY <2>14 DEF OnUnloadRaises, RollbackDone, Forget, Snapshot, Require,
           RequireFails, ResolveNothing, MigrateFails, OnLoadRaises
    <3> QED
      BY <2>1, <3>1 DEF Advanced
  <2> QED
    BY <1>2, <2>3, <2>4, <2>5, <2>6, <2>7, <2>8, <2>9, <2>10, <2>11, <2>12, <2>13,
       <2>14 DEF ThreadStep
<1>3. CASE BootDone
  BY <1>3 DEF BootDone, Advanced
<1>4. ASSUME NEW p \in Plugins, BootLoad(p) PROVE Advanced'
  BY <1>4 DEF BootLoad, Threads, Advanced
<1>5. ASSUME NEW p \in Plugins, HandleChange(p) PROVE Advanced'
  BY <1>5 DEF HandleChange, Threads, Advanced
<1>6. ASSUME NEW p \in Plugins, NEW c \in Classes, EditFile(p, c) PROVE Advanced'
  BY <1>6 DEF EditFile, Advanced
<1>7. ASSUME NEW x \in Tables, StoreRow(x) PROVE Advanced'
  BY <1>7 DEF StoreRow, Advanced
<1> QED
  BY <1>1, <1>2, <1>3, <1>4, <1>5, <1>6, <1>7 DEF Next, BootStep, Crash, Serial

\* With one reloading thread and no kill a plugin the registry serves has its
\* whole schema, and whenever nobody rolls back, every tracked version of every
\* plugin has its effect, though plugins were unloaded and loaded before.
THEOREM RegisteredComplete == Serial /\ Spec => []RegisteredIsComplete
<1> SUFFICES ASSUME Serial PROVE Spec => []RegisteredIsComplete
  OBVIOUS
<1>1. ASSUME Init PROVE OneWorks /\ Consistent /\ Advanced
  <2>1. /\ \A p \in Plugins : tracked[p] = {}
        /\ \A x \in Tables : tables[x] = {}
        /\ registered = {} /\ \A t \in Threads : pc[t] = "idle"
    BY <1>1 DEF Init, Fresh
  <2>2. OneWorks
    BY <2>1 DEF OneWorks, Threads
  <2>3. Consistent
    BY <2>1, SchemaFacts DEF Consistent, TrackedMeansAppliedTo
  <2>4. Advanced
    BY <2>1 DEF Advanced
  <2> QED
    BY <2>2, <2>3, <2>4
<1>2. TypeOK /\ Position /\ RollbackIsExclusive /\ OneWorks /\ Consistent
        /\ Advanced /\ [Next]_vars => OneWorks' /\ Consistent' /\ Advanced'
  BY OneWorksStep, ConsistentStep, AdvancedStep
<1>3. ASSUME TypeOK, RollbackIsExclusive, Consistent, Advanced
      PROVE  RegisteredIsComplete
  <2>1. ASSUME NEW p \in registered PROVE Complete(p)
    <3>1. p \in Plugins /\ ~RollingBack(p)
      BY <1>3, <2>1 DEF RollbackIsExclusive, RollingBack, TypeOK
    <3> QED
      BY <1>3, <2>1, <3>1 DEF Consistent, Advanced, TrackedMeansAppliedTo, Complete
  <2>2. ASSUME lock = Free, NEW p \in Plugins PROVE TrackedMeansAppliedTo(p)
    <3>1. ~RollingBack(p)
      BY <1>3, <2>2, ThreadsAssumption DEF RollbackIsExclusive, RollingBack
    <3> QED
      BY <1>3, <3>1 DEF Consistent
  <2> QED
    BY <2>1, <2>2 DEF RegisteredIsComplete
<1> QED
  BY <1>1, <1>2, <1>3, Base, Exclusive, PTL DEF Spec
=============================================================================
