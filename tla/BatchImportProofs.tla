------------------------- MODULE BatchImportProofs --------------------------
(***************************************************************************)
(* Proofs about BatchImport, for any files, folder, jobs and bounds, and,  *)
(* in the last part, about Inventory, whose rows the import creates.       *)
(*                                                                         *)
(* FlagsAt, StatusAt and BatchAt say how the list, the loop and the        *)
(* counters of one visit belong together; AwaitInv says which job a loop   *)
(* waits for.  CountInv counts, for a file, the visits that have still to  *)
(* process it and the jobs that have still to create or to report it.      *)
(***************************************************************************)
EXTENDS BatchImport, Inventory, SelectionProofs

-----------------------------------------------------------------------------
(* The inductive invariant. *)

\* The page runs while its loop has not ended, and the loop waits for a job
\* exactly while a file of its list is in process.
FlagsAt(v) ==
  /\ running[v] <=> loop[v] # "idle"
  /\ running[v] => ~done[v]
  /\ loop[v] = "waiting" <=> awaited[v] # None
  /\ awaited[v] # None => pending[v] # <<>>
  /\ IsInjective(pending[v])

\* What a loop has still to process is pending, but for the file it waits for.
StatusAt(v) ==
  /\ loop[v] # "idle" => \A p \in ToSet(pending[v]) :
       fileMap[v][p] = IF awaited[v] # None /\ p = Head(pending[v]) THEN "processing"
                       ELSE "pending"
  /\ \A p \in Paths : fileMap[v][p] = "processing" =>
       awaited[v] # None /\ p = Head(pending[v])

\* The counters are those of the files the loop was started for.
BatchAt(v) ==
  /\ loop[v] # "idle" =>
       /\ ToSet(pending[v]) \subseteq batch[v]
       /\ \A p \in batch[v] :
            fileMap[v][p] \in {"pending", "processing"} => p \in ToSet(pending[v])
  /\ loop[v] # "idle" \/ done[v] =>
       /\ \A p \in batch[v] : fileMap[v][p] # "absent"
       /\ progress[v].total = Cardinality(batch[v])
       /\ \A o \in Outcomes : progress[v][o] = Cardinality(With(v, o))
  /\ running[v] => /\ shown[v].total = progress[v].total
                   /\ \A o \in Outcomes : shown[v][o] <= progress[v][o]
  /\ done[v] => /\ shown[v] = progress[v]
                /\ (\E p \in batch[v] : fileMap[v][p] = "pending") => abort[v]

PageInv == \A v \in Visits : FlagsAt(v) /\ StatusAt(v) /\ BatchAt(v)

\* A loop waits for a job that has not ended, about the file it is at, and no
\* two loops wait for one job.
AwaitInv == \A v \in Visits : awaited[v] # None =>
  /\ job[awaited[v]] # None /\ job[awaited[v]].path = Head(pending[v])
  /\ \A w \in Visits : awaited[w] = awaited[v] => w = v

Queued(p) == {v \in Visits : fileMap[v][p] = "pending"}
Creating(p) == {j \in JobIds : job[j] # None /\ job[j].path = p /\ job[j].step = "create"}
Past(p) == {j \in JobIds : job[j] # None /\ job[j].path = p /\ job[j].step # "create"}

\* Every listing of a file stands for a resource at most: one created, one
\* about to be, or one that may still be.  Every job past its first request
\* and every report has a resource of its own.
CountInv == \A p \in Paths :
  /\ created[p] + Cardinality(Queued(p)) + Cardinality(Creating(p)) <= listed[p]
  /\ reported[p] + Cardinality(Past(p)) <= created[p]

-----------------------------------------------------------------------------
(* What a step may do to the pages. *)

\* The variables of the pages the invariant is about.
board == <<filePaths, fileMap, running, done, abort, loop, pending, progress, shown,
           awaited, batch>>

Adding(v, paths) ==
  /\ AddPaths(v, paths)
  /\ UNCHANGED <<running, done, abort, loop, pending, progress, shown, awaited, batch>>

\* The file at the head gets its verdict and the loop goes on.
Verdict(v, outcome) ==
  /\ loop[v] \in {"next", "waiting"} /\ pending[v] # <<>>
  /\ Settle(v, outcome) /\ Resume(v)
  /\ UNCHANGED <<filePaths, running, done, abort, shown, batch>>

BoardStep(v) ==
  \/ \E paths \in Seq(Paths) : IsInjective(paths) /\ Adding(v, paths)
  \/ \E p \in Paths : Unlist(v, p)
  \/ Clear(v) \/ Start(v) \/ LogReady(v) \/ LogFails(v) \/ Stop(v) \/ Flush(v)
  \/ Process(v) \/ Finish(v)
  \/ \E outcome \in Outcomes : Verdict(v, outcome)

LEMMA SingletonPath ==
  ASSUME NEW p \in Paths
  PROVE  <<p>> \in Seq(Paths) /\ IsInjective(<<p>>)
  BY DEF IsInjective

\* A job that ends.
LEMMA EndSteps ==
  ASSUME TypeOK, PageInv, NEW j \in JobIds, NEW outcome \in Outcomes, End(j, outcome), JobFrame
  PROVE  UNCHANGED board \/ \E v \in Visits : awaited[v] = j /\ Verdict(v, outcome)
<1>1. CASE \E v \in Visits : awaited[v] = j
  <2>1. PICK v \in Visits : awaited[v] = j /\ Settle(v, outcome) /\ Resume(v)
    BY <1>1 DEF End
  <2>2. awaited[v] # None  BY <2>1, ImportBoundsAssumption
  <2>3. loop[v] = "waiting" /\ pending[v] # <<>>  BY <2>2 DEF PageInv, FlagsAt
  <2> QED BY <2>1, <2>3 DEF Verdict, JobFrame
<1>2. CASE ~ \E v \in Visits : awaited[v] = j
  BY <1>2 DEF End, JobFrame, board
<1> QED BY <1>1, <1>2

LEMMA BoardSteps ==
  ASSUME TypeOK, PageInv, [Next]_vars
  PROVE  UNCHANGED board \/ \E v \in Visits : BoardStep(v)
<1>1. ASSUME NEW v \in Visits, NEW p \in Paths, PickFiles(v, p) \/ Drop(v, p)
      PROVE  BoardStep(v)
  BY <1>1, SingletonPath DEF PickFiles, Drop, Adding, BoardStep
<1>2. ASSUME NEW v \in Visits, Scanned(v) PROVE BoardStep(v)
  BY <1>2, FilesAssumption DEF Scanned, Adding, BoardStep
<1>3. ASSUME NEW v \in Visits, Skip(v) PROVE BoardStep(v)
  <2>1. awaited[v] = None  BY <1>3 DEF Skip, PageInv, FlagsAt
  <2>2. Resume(v)  BY <1>3, <2>1 DEF Skip, Resume, TypeOK
  <2>3. Verdict(v, "skipped")  BY <1>3, <2>2 DEF Skip, Verdict
  <2> QED BY <2>3 DEF BoardStep, Outcomes
<1>4. ASSUME NEW v \in Visits, Timeout(v) PROVE BoardStep(v)
  <2>1. loop[v] = "waiting" /\ pending[v] # <<>>  BY <1>4 DEF Timeout, PageInv, FlagsAt
  <2>2. Verdict(v, "error")  BY <1>4, <2>1 DEF Timeout, Verdict
  <2> QED BY <2>2 DEF BoardStep, Outcomes
<1>5. ASSUME NEW j \in JobIds, NEW outcome \in Outcomes, End(j, outcome), JobFrame
      PROVE  UNCHANGED board \/ \E v \in Visits : BoardStep(v)
  BY <1>5, EndSteps DEF BoardStep
<1>6. ASSUME NEW j \in JobIds, NEW step, GoOn(j, step), JobFrame PROVE UNCHANGED board
  BY <1>6 DEF GoOn, JobFrame, board
<1>7. ASSUME NEW j \in JobIds,
             Created(j) \/ CreateFails(j) \/ ExtractFails(j) \/ MetaPosted(j) \/ CoverPosted(j)
      PROVE  UNCHANGED board \/ \E v \in Visits : BoardStep(v)
  BY <1>5, <1>6, <1>7
  DEF Created, CreateFails, ExtractFails, MetaPosted, CoverPosted, Outcomes
<1>8. ASSUME NEW j \in JobIds, Extract(j)
      PROVE  UNCHANGED board \/ \E v \in Visits : BoardStep(v)
  <2>1. JobFrame  BY <1>8 DEF Extract
  <2>2. \/ UNCHANGED <<fileMap, progress, pending, reported, awaited, loop>>
        \/ GoOn(j, "cover")
        \/ End(j, "done")
    BY <1>8 DEF Extract
  <2> QED BY <1>5, <1>6, <2>1, <2>2 DEF JobFrame, board, Outcomes
<1>9. CASE Leave \/ Return \/ UNCHANGED vars
  BY <1>9 DEF Leave, Return, vars, page, board
<1>10. ASSUME NEW v \in Visits, PickDirectory(v) PROVE UNCHANGED board
  BY <1>10 DEF PickDirectory, board
<1> QED
  BY <1>1, <1>2, <1>3, <1>4, <1>7, <1>8, <1>9, <1>10 DEF Next, BoardStep

-----------------------------------------------------------------------------
(* The pages. *)

\* A visit none of whose variables changes.
Still(v) ==
  /\ fileMap'[v] = fileMap[v] /\ running'[v] = running[v] /\ done'[v] = done[v]
  /\ abort'[v] = abort[v] /\ loop'[v] = loop[v] /\ pending'[v] = pending[v]
  /\ progress'[v] = progress[v] /\ shown'[v] = shown[v] /\ awaited'[v] = awaited[v]
  /\ batch'[v] = batch[v]

LEMMA StillKeeps ==
  ASSUME NEW v \in Visits, Still(v), FlagsAt(v), StatusAt(v), BatchAt(v)
  PROVE  (FlagsAt(v) /\ StatusAt(v) /\ BatchAt(v))'
<1>1. FlagsAt(v)'  BY DEF Still, FlagsAt
<1>2. StatusAt(v)'  BY DEF Still, StatusAt
<1>3. \A o : With(v, o)' = With(v, o)  BY DEF Still, With
<1>4. BatchAt(v)'  BY <1>3 DEF Still, BatchAt
<1> QED BY <1>1, <1>2, <1>4

\* A step of one visit leaves the others as they are.
LEMMA OthersStill ==
  ASSUME TypeOK, NEW v \in Visits, BoardStep(v), NEW w \in Visits, w # v
  PROVE  Still(w)
<1>1. ASSUME NEW paths \in Seq(Paths), Adding(v, paths) PROVE Still(w)
  BY <1>1 DEF Adding, AddPaths, Still, TypeOK
<1>2. ASSUME NEW p \in Paths, Unlist(v, p) PROVE Still(w)
  BY <1>2 DEF Unlist, Still, TypeOK
<1>3. CASE Clear(v)  BY <1>3 DEF Clear, Still, TypeOK
<1>4. CASE Start(v)  BY <1>4 DEF Start, Still, TypeOK
<1>5. CASE LogReady(v) \/ LogFails(v)  BY <1>5 DEF LogReady, LogFails, Still, TypeOK
<1>6. CASE Stop(v) \/ Flush(v)  BY <1>6 DEF Stop, Flush, Still, TypeOK
<1>7. CASE Process(v)  BY <1>7 DEF Process, Still, TypeOK
<1>8. CASE Finish(v)  BY <1>8 DEF Finish, LastFlush, Still, TypeOK
<1>9. ASSUME NEW o \in Outcomes, Verdict(v, o) PROVE Still(w)
  BY <1>9 DEF Verdict, Settle, Resume, Still, TypeOK
<1> QED BY <1>1, <1>2, <1>3, <1>4, <1>5, <1>6, <1>7, <1>8, <1>9 DEF BoardStep

\* Files are put on the list.
LEMMA NewFacts ==
  ASSUME TypeOK, NEW v \in Visits, NEW paths \in Seq(Paths), IsInjective(paths)
  PROVE  /\ NewPaths(v, paths) \in Seq(Paths) /\ IsInjective(NewPaths(v, paths))
         /\ ToSet(NewPaths(v, paths)) = {p \in ToSet(paths) : fileMap[v][p] = "absent"}
<1>1. ToSet(paths) \subseteq Paths  BY DEF ToSet
<1> QED BY <1>1, KeptFacts DEF NewPaths

LEMMA AddingKeeps ==
  ASSUME TypeOK, NEW v \in Visits, FlagsAt(v), StatusAt(v), BatchAt(v),
         NEW paths \in Seq(Paths), IsInjective(paths), Adding(v, paths)
  PROVE  (FlagsAt(v) /\ StatusAt(v) /\ BatchAt(v))'
<1> DEFINE new == ToSet(NewPaths(v, paths))
<1>1. \A p \in new : fileMap[v][p] = "absent"  BY NewFacts
<1>2. \A p \in Paths : fileMap'[v][p] = IF p \in new THEN "pending" ELSE fileMap[v][p]
  BY DEF Adding, AddPaths, TypeOK
<1>3. UNCHANGED <<running, done, abort, loop, pending, progress, shown, awaited, batch>>
  BY DEF Adding
<1>4. ToSet(pending[v]) \subseteq Paths /\ batch[v] \subseteq Paths  BY DEF TypeOK, ToSet
<1> HIDE DEF new
<1>5. FlagsAt(v)'  BY <1>3 DEF FlagsAt
<1>6. StatusAt(v)'  BY <1>1, <1>2, <1>3, <1>4 DEF StatusAt
<1>7. ASSUME loop[v] # "idle" \/ done[v]
      PROVE  \A p \in batch[v] : fileMap'[v][p] = fileMap[v][p]
  BY <1>1, <1>2, <1>4, <1>7 DEF BatchAt
<1>8. ASSUME loop[v] # "idle" \/ done[v] PROVE \A o : With(v, o)' = With(v, o)
  BY <1>3, <1>7, <1>8 DEF With
<1>9. BatchAt(v)'  BY <1>3, <1>7, <1>8 DEF BatchAt
<1> QED BY <1>5, <1>6, <1>9

LEMMA ListingKeeps ==
  ASSUME TypeOK, NEW v \in Visits, FlagsAt(v), StatusAt(v), BatchAt(v),
         (\E p \in Paths : Unlist(v, p)) \/ Clear(v)
  PROVE  (FlagsAt(v) /\ StatusAt(v) /\ BatchAt(v))'
<1>1. ~running[v] /\ UNCHANGED <<running, loop, pending, awaited>>
  <2>1. ASSUME NEW p \in Paths, Unlist(v, p)
        PROVE  ~running[v] /\ UNCHANGED <<running, loop, pending, awaited>>
    BY <2>1 DEF Unlist, ListShown
  <2>2. Clear(v) => ~running[v] /\ UNCHANGED <<running, loop, pending, awaited>>
    BY DEF Clear, ClearShown
  <2> QED BY <2>1, <2>2
<1>2. ASSUME NEW p \in Paths, Unlist(v, p) PROVE ~done'[v]
  BY <1>2 DEF Unlist, ListShown
<1>3. Clear(v) => ~done'[v]
  BY DEF Clear, TypeOK
<1>4. ~done'[v]
  BY <1>2, <1>3
<1>5. ASSUME NEW p \in Paths, fileMap'[v][p] = "processing"
      PROVE  fileMap[v][p] = "processing"
  <2>1. ASSUME NEW q \in Paths, Unlist(v, q) PROVE fileMap[v][p] = "processing"
    BY <1>5, <2>1 DEF Unlist, TypeOK
  <2>2. ~Clear(v)  BY <1>5 DEF Clear, TypeOK
  <2> QED BY <2>1, <2>2
<1>6. loop[v] = "idle"  BY <1>1 DEF FlagsAt
<1> QED BY <1>1, <1>4, <1>5, <1>6 DEF FlagsAt, StatusAt, BatchAt

\* The loop starts with the files that are pending.
LEMMA PendingFacts ==
  ASSUME TypeOK, NEW v \in Visits
  PROVE  /\ PendingFiles(v) \in Seq(Paths) /\ IsInjective(PendingFiles(v))
         /\ ToSet(PendingFiles(v)) = {p \in Paths : fileMap[v][p] = "pending"}
<1>1. filePaths[v] \in Seq(Paths) /\ IsInjective(filePaths[v])
      /\ ToSet(filePaths[v]) = {p \in Paths : fileMap[v][p] # "absent"}
  BY DEF TypeOK
<1> QED BY <1>1, KeptFacts DEF PendingFiles

LEMMA StartKeeps ==
  ASSUME TypeOK, NEW v \in Visits, FlagsAt(v), StatusAt(v), BatchAt(v), Start(v)
  PROVE  (FlagsAt(v) /\ StatusAt(v) /\ BatchAt(v))'
<1> DEFINE files == PendingFiles(v)
<1>1. /\ files \in Seq(Paths) /\ IsInjective(files)
      /\ ToSet(files) = {p \in Paths : fileMap[v][p] = "pending"}
  BY PendingFacts
<1>2. IsFiniteSet(ToSet(files)) /\ Cardinality(ToSet(files)) = Len(files)
  BY <1>1, InjectiveLength
<1>3. loop[v] = "idle" /\ awaited[v] = None
  BY DEF Start, StartEnabled, FlagsAt
<1>4. /\ running'[v] = TRUE /\ done'[v] = FALSE /\ pending'[v] = files
      /\ progress'[v] = [NoProgress EXCEPT !.total = Len(files)]
      /\ shown'[v] = progress'[v] /\ batch'[v] = ToSet(files) /\ loop'[v] = "logging"
      /\ UNCHANGED <<fileMap, awaited>>
  BY DEF Start, Started, TypeOK
<1> HIDE DEF files
<1>5. FlagsAt(v)'  BY <1>1, <1>3, <1>4 DEF FlagsAt
<1>6. StatusAt(v)'  BY <1>1, <1>3, <1>4 DEF StatusAt
<1>7. \A o \in Outcomes : With(v, o)' = {}  BY <1>1, <1>4 DEF With, Outcomes
<1>8. Cardinality({}) = 0  BY FS_EmptySet
<1>9. progress'[v].total = Len(files) /\ \A o \in Outcomes : progress'[v][o] = 0
  BY <1>4 DEF NoProgress, Outcomes
<1>10. BatchAt(v)'
  <2>1. /\ ToSet(pending'[v]) \subseteq batch'[v]
        /\ \A p \in batch'[v] : p \in ToSet(pending'[v]) /\ fileMap'[v][p] # "absent"
    BY <1>1, <1>4
  <2>2. progress'[v].total = Cardinality(batch'[v])  BY <1>2, <1>4, <1>9
  <2>3. \A o \in Outcomes : progress'[v][o] = Cardinality(With(v, o)')
    BY <1>7, <1>8, <1>9
  <2>4. shown'[v].total = progress'[v].total
        /\ \A o \in Outcomes : shown'[v][o] <= progress'[v][o]
    BY <1>4, <1>9
  <2> QED BY <1>4, <2>1, <2>2, <2>3, <2>4 DEF BatchAt
<1> QED BY <1>5, <1>6, <1>10

\* The counters are numbers.
LEMMA CounterTypes ==
  ASSUME TypeOK, NEW v \in Visits
  PROVE  /\ Cardinality(Paths) \in Nat
         /\ \A o \in Outcomes \cup {"total"} : progress[v][o] \in Nat /\ shown[v][o] \in Nat
<1>1. Cardinality(Paths) \in Nat  BY FilesAssumption, FS_CardinalityType
<1>2. Count \subseteq Nat  BY <1>1 DEF Count
<1> DEFINE Counters == [total : Count, done : Count, error : Count, skipped : Count]
<1>3. progress[v] \in Counters /\ shown[v] \in Counters  BY DEF TypeOK
<1> QED BY <1>1, <1>2, <1>3 DEF Outcomes

\* The loop waits for its log file, is told to stop, and is shown.
LEMMA LoopKeeps ==
  ASSUME TypeOK, NEW v \in Visits, FlagsAt(v), StatusAt(v), BatchAt(v),
         LogReady(v) \/ LogFails(v) \/ Stop(v) \/ Flush(v)
  PROVE  (FlagsAt(v) /\ StatusAt(v) /\ BatchAt(v))'
<1>1. \A o : With(v, o)' = With(v, o)
  BY DEF LogReady, LogFails, Stop, Flush, With
<1>2. CASE LogReady(v) \/ LogFails(v)
  <2>1. /\ loop[v] = "logging" /\ loop'[v] \in {"next", "broken"}
        /\ UNCHANGED <<fileMap, running, done, abort, pending, progress, shown, awaited, batch>>
    BY <1>2 DEF LogReady, LogFails, TypeOK
  <2> QED BY <1>1, <2>1 DEF FlagsAt, StatusAt, BatchAt
<1>3. CASE Stop(v)
  <2>1. /\ abort'[v]
        /\ UNCHANGED <<fileMap, running, done, loop, pending, progress, shown, awaited, batch>>
    BY <1>3 DEF Stop, TypeOK
  <2> QED BY <1>1, <2>1 DEF FlagsAt, StatusAt, BatchAt
<1>4. CASE Flush(v)
  <2>1. /\ shown'[v] = progress[v] /\ loop[v] \in {"next", "waiting"}
        /\ UNCHANGED <<fileMap, running, done, abort, loop, pending, progress, awaited, batch>>
    BY <1>4 DEF Flush, TypeOK
  <2>2. \A o \in Outcomes : progress[v][o] \in Nat
    BY CounterTypes
  <2> QED BY <1>1, <2>1, <2>2 DEF FlagsAt, StatusAt, BatchAt
<1> QED BY <1>2, <1>3, <1>4

LEMMA ProcessKeeps ==
  ASSUME TypeOK, NEW v \in Visits, FlagsAt(v), StatusAt(v), BatchAt(v), Process(v)
  PROVE  (FlagsAt(v) /\ StatusAt(v) /\ BatchAt(v))'
<1> DEFINE head == Head(pending[v])
<1>1. /\ head \in Paths /\ head \in ToSet(pending[v]) /\ ToSet(pending[v]) \subseteq Paths
  BY TailElements DEF Process, FlagsAt, TypeOK, ToSet
<1>2. /\ loop[v] = "next" /\ loop'[v] = "waiting" /\ pending[v] # <<>>
      /\ awaited'[v] \in JobIds /\ awaited'[v] # None
      /\ \A p \in Paths : fileMap'[v][p] = IF p = head THEN "processing" ELSE fileMap[v][p]
      /\ UNCHANGED <<running, done, abort, pending, progress, shown, batch>>
  BY ImportBoundsAssumption DEF Process, TypeOK
<1>3. awaited[v] = None  BY <1>2 DEF FlagsAt
<1>4. fileMap[v][head] = "pending" /\ head \in batch[v]
  BY <1>1, <1>2, <1>3 DEF StatusAt, BatchAt
<1> HIDE DEF head
<1>5. FlagsAt(v)'  BY <1>2, <1>3 DEF FlagsAt
<1>6. StatusAt(v)'  BY <1>1, <1>2, <1>3 DEF StatusAt, head
<1>7. batch[v] \subseteq Paths  BY DEF TypeOK
<1>8. \A o \in Outcomes : With(v, o)' = With(v, o)
  BY <1>2, <1>4, <1>7 DEF With, Outcomes
<1>9. ~done[v]  BY <1>2 DEF FlagsAt
<1>10. \A p \in batch[v] : /\ fileMap'[v][p] # "absent"
                           /\ fileMap'[v][p] \in {"pending", "processing"} => p \in ToSet(pending[v])
  BY <1>1, <1>2, <1>7 DEF BatchAt
<1>11. BatchAt(v)'  BY <1>2, <1>8, <1>9, <1>10 DEF BatchAt
<1> QED BY <1>5, <1>6, <1>11

LEMMA FinishKeeps ==
  ASSUME TypeOK, NEW v \in Visits, FlagsAt(v), StatusAt(v), BatchAt(v), Finish(v)
  PROVE  (FlagsAt(v) /\ StatusAt(v) /\ BatchAt(v))'
<1>1. /\ loop[v] = "next" /\ (abort[v] \/ pending[v] = <<>>)
      /\ loop'[v] = "idle" /\ ~running'[v] /\ done'[v] /\ shown'[v] = progress[v]
      /\ UNCHANGED <<fileMap, abort, pending, progress, awaited, batch>>
  BY DEF Finish, LastFlush, TypeOK
<1>2. \A o : With(v, o)' = With(v, o)  BY <1>1 DEF With
<1>3. FlagsAt(v)'  BY <1>1 DEF FlagsAt
<1>4. StatusAt(v)'  BY <1>1 DEF StatusAt
<1>5. ASSUME NEW p \in batch[v], fileMap[v][p] = "pending" PROVE abort[v]
  BY <1>1, <1>5, EmptyElements DEF BatchAt
<1>6. BatchAt(v)'  BY <1>1, <1>2, <1>5 DEF BatchAt
<1> QED BY <1>3, <1>4, <1>6

\* A file gets its verdict: one more of an outcome.
LEMMA VerdictKeeps ==
  ASSUME TypeOK, NEW v \in Visits, FlagsAt(v), StatusAt(v), BatchAt(v),
         NEW outcome \in Outcomes, Verdict(v, outcome)
  PROVE  /\ (FlagsAt(v) /\ StatusAt(v) /\ BatchAt(v))'
         /\ Head(pending[v]) \in Paths
         /\ fileMap[v][Head(pending[v])] =
              IF awaited[v] # None THEN "processing" ELSE "pending"
         /\ progress[v][outcome] + 1 <= Cardinality(Paths)
<1> DEFINE head == Head(pending[v])
           rest == Tail(pending[v])
<1>1. /\ head \in Paths /\ head \in ToSet(pending[v]) /\ rest \in Seq(Paths)
      /\ IsInjective(rest) /\ ToSet(rest) = ToSet(pending[v]) \ {head}
      /\ ToSet(pending[v]) \subseteq Paths
  <2>1. pending[v] \in Seq(Paths) /\ pending[v] # <<>> /\ IsInjective(pending[v])
    BY DEF Verdict, FlagsAt, TypeOK
  <2>2. ToSet(pending[v]) \subseteq Paths  BY <2>1 DEF ToSet
  <2> QED BY <2>1, <2>2, TailElements
<1>2. /\ loop[v] \in {"next", "waiting"} /\ loop'[v] = "next" /\ awaited'[v] = None
      /\ \A p \in Paths : fileMap'[v][p] = IF p = head THEN outcome ELSE fileMap[v][p]
      /\ pending'[v] = rest
      /\ UNCHANGED <<running, done, abort, shown, batch>>
  BY DEF Verdict, Settle, Resume, TypeOK
<1>3. /\ \A o \in Outcomes : progress'[v][o] = progress[v][o] + IF o = outcome THEN 1 ELSE 0
      /\ progress'[v].total = progress[v].total
  <2>1. progress' = [progress EXCEPT ![v][outcome] = @ + 1]  BY DEF Verdict, Settle
  <2>2. \A o \in Outcomes \cup {"total"} : progress[v][o] \in Nat  BY CounterTypes
  <2>3. progress[v] \in [total : Count, done : Count, error : Count, skipped : Count]
    BY DEF TypeOK
  <2> QED BY <2>1, <2>2, <2>3 DEF Outcomes, TypeOK
<1> HIDE DEF head, rest
<1>4. /\ fileMap[v][head] = IF awaited[v] # None THEN "processing" ELSE "pending"
      /\ head \in batch[v]
  BY <1>1, <1>2 DEF StatusAt, BatchAt, head
<1>5. FlagsAt(v)'  BY <1>1, <1>2 DEF FlagsAt
<1>6. StatusAt(v)'
  <2>1. ASSUME NEW p \in ToSet(rest) PROVE fileMap'[v][p] = "pending"
    BY <1>1, <1>2, <2>1 DEF StatusAt, head
  <2>2. \A p \in Paths : fileMap'[v][p] # "processing"
    BY <1>2 DEF StatusAt, head, Outcomes
  <2> QED BY <1>2, <2>1, <2>2 DEF StatusAt
<1>7. batch[v] \subseteq Paths  BY DEF TypeOK
<1>8. \A o \in Outcomes : With(v, o)' =
        IF o = outcome THEN With(v, o) \cup {head} ELSE With(v, o)
  BY <1>2, <1>4, <1>7 DEF With, Outcomes
<1>9. /\ \A o \in Outcomes : IsFiniteSet(With(v, o)) /\ head \notin With(v, o)
      /\ With(v, outcome) \cup {head} \subseteq Paths
  <2>1. \A o : With(v, o) \subseteq Paths  BY <1>7 DEF With
  <2> QED BY <1>1, <1>4, <2>1, FilesAssumption, FS_Subset DEF With, Outcomes
<1>10. \A o \in Outcomes : progress'[v][o] = Cardinality(With(v, o)')
  <2>1. \A o \in Outcomes : progress[v][o] = Cardinality(With(v, o))
    BY <1>2 DEF BatchAt
  <2>2. Cardinality(With(v, outcome) \cup {head}) = Cardinality(With(v, outcome)) + 1
    BY <1>9, FS_AddElement
  <2>3. ASSUME NEW o \in Outcomes PROVE progress'[v][o] = Cardinality(With(v, o)')
    <3>1. CASE o = outcome  BY <1>3, <1>8, <2>1, <2>2, <3>1
    <3>2. CASE o # outcome
      <4>1. progress[v][o] \in Nat  BY CounterTypes
      <4> QED BY <1>3, <1>8, <2>1, <3>2, <4>1
    <3> QED BY <3>1, <3>2
  <2> QED BY <2>3
<1>11. BatchAt(v)'
  <2>1. running[v] /\ ~done[v]  BY <1>2 DEF FlagsAt
  <2>2. \A o \in Outcomes : shown[v][o] <= progress'[v][o]
    <3>1. \A o \in Outcomes : shown[v][o] <= progress[v][o]  BY <2>1 DEF BatchAt
    <3>2. \A o \in Outcomes : shown[v][o] \in Nat /\ progress[v][o] \in Nat  BY CounterTypes
    <3> QED BY <1>3, <3>1, <3>2
  <2>3. \A p \in batch[v] :
          /\ fileMap'[v][p] # "absent"
          /\ fileMap'[v][p] \in {"pending", "processing"} => p \in ToSet(rest)
    BY <1>1, <1>2, <1>7 DEF BatchAt, Outcomes
  <2>4. ToSet(rest) \subseteq batch[v]  BY <1>1, <1>2 DEF BatchAt
  <2>5. progress'[v].total = Cardinality(batch[v]) /\ shown[v].total = progress'[v].total
    BY <1>2, <1>3, <2>1 DEF BatchAt
  <2> QED BY <1>2, <1>10, <2>1, <2>2, <2>3, <2>4, <2>5 DEF BatchAt
<1>12. progress[v][outcome] + 1 <= Cardinality(Paths)
  <2>1. progress[v][outcome] = Cardinality(With(v, outcome))  BY <1>2 DEF BatchAt
  <2>2. Cardinality(With(v, outcome) \cup {head}) = Cardinality(With(v, outcome)) + 1
    BY <1>9, FS_AddElement
  <2>3. Cardinality(With(v, outcome) \cup {head}) <= Cardinality(Paths)
    BY <1>9, FilesAssumption, FS_Subset
  <2> QED BY <2>1, <2>2, <2>3
<1> QED BY <1>1, <1>4, <1>5, <1>6, <1>11, <1>12 DEF head

\* The pages stay in order, whatever they and their jobs do.
LEMMA PageStep ==
  ASSUME TypeOK, PageInv, [Next]_vars
  PROVE  PageInv'
<1>1. CASE UNCHANGED board
  BY <1>1, StillKeeps DEF PageInv, Still, board
<1>2. ASSUME NEW v \in Visits, BoardStep(v) PROVE PageInv'
  <2>1. FlagsAt(v) /\ StatusAt(v) /\ BatchAt(v)  BY DEF PageInv
  <2>2. (FlagsAt(v) /\ StatusAt(v) /\ BatchAt(v))'
    BY <1>2, <2>1, AddingKeeps, ListingKeeps, StartKeeps, LoopKeeps, ProcessKeeps,
       FinishKeeps, VerdictKeeps
    DEF BoardStep
  <2>3. ASSUME NEW w \in Visits, w # v PROVE (FlagsAt(w) /\ StatusAt(w) /\ BatchAt(w))'
    BY <1>2, <2>3, OthersStill, StillKeeps DEF PageInv
  <2> QED BY <2>2, <2>3 DEF PageInv
<1> QED BY <1>1, <1>2, BoardSteps

-----------------------------------------------------------------------------
(* Types. *)

BoardTypeOK ==
  /\ filePaths \in [Visits -> Seq(Paths)]
  /\ fileMap \in [Visits -> [Paths -> {"absent", "pending", "processing"} \cup Outcomes]]
  /\ running \in [Visits -> BOOLEAN] /\ done \in [Visits -> BOOLEAN]
  /\ abort \in [Visits -> BOOLEAN]
  /\ loop \in [Visits -> {"idle", "logging", "next", "waiting", "broken"}]
  /\ pending \in [Visits -> Seq(Paths)]
  /\ progress \in [Visits -> [total : Count, done : Count, error : Count, skipped : Count]]
  /\ shown \in [Visits -> [total : Count, done : Count, error : Count, skipped : Count]]
  /\ awaited \in [Visits -> JobIds \cup {None}]
  /\ batch \in [Visits -> SUBSET Paths]

\* The list has the files of the map, each once.
ListOK == \A v \in Visits :
  /\ IsInjective(filePaths[v])
  /\ ToSet(filePaths[v]) = {p \in Paths : fileMap[v][p] # "absent"}

ServerTypeOK ==
  /\ visit \in Visits /\ open \in BOOLEAN /\ scanning \in [Visits -> BOOLEAN]
  /\ job \in [JobIds -> Jobs \cup {None}]
  /\ created \in [Paths -> Nat] /\ listed \in [Paths -> Nat] /\ reported \in [Paths -> Nat]

LEMMA TypeParts == TypeOK <=> BoardTypeOK /\ ListOK /\ ServerTypeOK
  BY DEF TypeOK, BoardTypeOK, ListOK, ServerTypeOK

LEMMA TypePartsPrimed == TypeOK' <=> (BoardTypeOK /\ ListOK /\ ServerTypeOK)'
  BY DEF TypeOK, BoardTypeOK, ListOK, ServerTypeOK

\* Files are put on the list and taken off.
LEMMA ListTypes ==
  ASSUME TypeOK, NEW v \in Visits,
         \/ \E paths \in Seq(Paths) : IsInjective(paths) /\ Adding(v, paths)
         \/ \E p \in Paths : Unlist(v, p)
         \/ Clear(v)
  PROVE  BoardTypeOK' /\ ListOK'
<1>1. BoardTypeOK /\ ListOK  BY TypeParts
<1>2. ASSUME NEW paths \in Seq(Paths), IsInjective(paths), Adding(v, paths)
      PROVE  BoardTypeOK' /\ ListOK'
  <2> DEFINE new == NewPaths(v, paths)
  <2>1. /\ new \in Seq(Paths) /\ IsInjective(new)
        /\ ToSet(new) = {p \in ToSet(paths) : fileMap[v][p] = "absent"}
    BY <1>2, NewFacts
  <2>2. ToSet(paths) \subseteq Paths  BY DEF ToSet
  <2>3. /\ filePaths' = [filePaths EXCEPT ![v] = @ \o new]
        /\ fileMap' = [fileMap EXCEPT ![v] =
             [p \in Paths |-> IF p \in ToSet(new) THEN "pending" ELSE @[p]]]
        /\ UNCHANGED <<running, done, abort, loop, pending, progress, shown, awaited, batch>>
    BY <1>2 DEF Adding, AddPaths
  <2>4. /\ filePaths[v] \in Seq(Paths) /\ IsInjective(filePaths[v])
        /\ ToSet(filePaths[v]) = {p \in Paths : fileMap[v][p] # "absent"}
    BY <1>1 DEF BoardTypeOK, ListOK
  <2> HIDE DEF new
  <2>5. /\ filePaths[v] \o new \in Seq(Paths)
        /\ ToSet(filePaths[v] \o new) = ToSet(filePaths[v]) \cup ToSet(new)
        /\ IsInjective(filePaths[v] \o new)
    <3>1. ToSet(filePaths[v]) \cap ToSet(new) = {}  BY <2>1, <2>4
    <3> QED BY <2>1, <2>4, <3>1, ConcatElements
  <2>6. BoardTypeOK'
    <3>1. filePaths' \in [Visits -> Seq(Paths)]
      BY <1>1, <2>3, <2>5 DEF BoardTypeOK
    <3>2. fileMap' \in [Visits -> [Paths -> {"absent", "pending", "processing"} \cup Outcomes]]
      BY <1>1, <2>3 DEF BoardTypeOK
    <3> QED BY <1>1, <2>3, <3>1, <3>2 DEF BoardTypeOK
  <2>7. ASSUME NEW w \in Visits
        PROVE  /\ IsInjective(filePaths'[w])
               /\ ToSet(filePaths'[w]) = {p \in Paths : fileMap'[w][p] # "absent"}
    <3>1. CASE w = v
      <4>1. filePaths'[v] = filePaths[v] \o new  BY <1>1, <2>3 DEF BoardTypeOK
      <4>2. \A p \in Paths : fileMap'[v][p] = IF p \in ToSet(new) THEN "pending"
                                              ELSE fileMap[v][p]
        BY <1>1, <2>3 DEF BoardTypeOK
      <4>3. ToSet(filePaths'[v]) = {p \in Paths : fileMap'[v][p] # "absent"}
        BY <2>1, <2>2, <2>4, <2>5, <4>1, <4>2
      <4> QED BY <2>5, <3>1, <4>1, <4>3
    <3>2. CASE w # v
      <4>1. filePaths'[w] = filePaths[w] /\ fileMap'[w] = fileMap[w]
        BY <1>1, <2>3, <3>2 DEF BoardTypeOK
      <4> QED BY <1>1, <4>1 DEF ListOK
    <3> QED BY <3>1, <3>2
  <2> QED BY <2>6, <2>7 DEF ListOK
<1>3. ASSUME NEW p \in Paths, Unlist(v, p) PROVE BoardTypeOK' /\ ListOK'
  <2> DEFINE left == Kept(filePaths[v], Paths \ {p})
  <2>1. /\ filePaths[v] \in Seq(Paths) /\ IsInjective(filePaths[v])
        /\ ToSet(filePaths[v]) = {q \in Paths : fileMap[v][q] # "absent"}
    BY <1>1 DEF BoardTypeOK, ListOK
  <2>2. /\ left \in Seq(Paths) /\ IsInjective(left)
        /\ ToSet(left) = ToSet(filePaths[v]) \cap (Paths \ {p})
    BY <2>1, KeptFacts
  <2>3. /\ filePaths' = [filePaths EXCEPT ![v] = left]
        /\ fileMap' = [fileMap EXCEPT ![v][p] = "absent"]
        /\ UNCHANGED <<running, done, abort, loop, pending, progress, shown, awaited, batch>>
    BY <1>3 DEF Unlist
  <2> HIDE DEF left
  <2>4. BoardTypeOK'
    <3>1. filePaths' \in [Visits -> Seq(Paths)]
      BY <1>1, <2>2, <2>3 DEF BoardTypeOK
    <3>2. fileMap' \in [Visits -> [Paths -> {"absent", "pending", "processing"} \cup Outcomes]]
      BY <1>1, <2>3 DEF BoardTypeOK
    <3> QED BY <1>1, <2>3, <3>1, <3>2 DEF BoardTypeOK
  <2>5. ASSUME NEW w \in Visits
        PROVE  /\ IsInjective(filePaths'[w])
               /\ ToSet(filePaths'[w]) = {q \in Paths : fileMap'[w][q] # "absent"}
    <3>1. CASE w = v
      <4>1. filePaths'[v] = left  BY <1>1, <2>3 DEF BoardTypeOK
      <4>2. \A q \in Paths : fileMap'[v][q] = IF q = p THEN "absent" ELSE fileMap[v][q]
        BY <1>1, <2>3 DEF BoardTypeOK
      <4>3. ToSet(filePaths'[v]) = {q \in Paths : fileMap'[v][q] # "absent"}
        BY <2>1, <2>2, <4>1, <4>2
      <4> QED BY <2>2, <3>1, <4>1, <4>3
    <3>2. CASE w # v
      <4>1. filePaths'[w] = filePaths[w] /\ fileMap'[w] = fileMap[w]
        BY <1>1, <2>3, <3>2 DEF BoardTypeOK
      <4> QED BY <1>1, <4>1 DEF ListOK
    <3> QED BY <3>1, <3>2
  <2> QED BY <2>4, <2>5 DEF ListOK
<1>4. ASSUME Clear(v) PROVE BoardTypeOK' /\ ListOK'
  <2>1. /\ filePaths' = [filePaths EXCEPT ![v] = <<>>]
        /\ fileMap' = [fileMap EXCEPT ![v] = [p \in Paths |-> "absent"]]
    BY <1>4 DEF Clear
  <2>2. BoardTypeOK'
    <3>1. NoProgress \in [total : Count, done : Count, error : Count, skipped : Count]
      BY CounterTypes DEF NoProgress, Count
    <3>2. filePaths' \in [Visits -> Seq(Paths)]  BY <1>1, <2>1 DEF BoardTypeOK
    <3>3. fileMap' \in [Visits -> [Paths -> {"absent", "pending", "processing"} \cup Outcomes]]
      BY <1>1, <2>1 DEF BoardTypeOK
    <3> QED BY <1>1, <1>4, <3>1, <3>2, <3>3 DEF BoardTypeOK, Clear
  <2>3. ASSUME NEW w \in Visits
        PROVE  /\ IsInjective(filePaths'[w])
               /\ ToSet(filePaths'[w]) = {q \in Paths : fileMap'[w][q] # "absent"}
    <3>1. CASE w = v
      <4>1. filePaths'[v] = <<>> /\ \A q \in Paths : fileMap'[v][q] = "absent"
        BY <1>1, <2>1 DEF BoardTypeOK
      <4> QED BY <3>1, <4>1, EmptyElements
    <3>2. CASE w # v
      <4>1. filePaths'[w] = filePaths[w] /\ fileMap'[w] = fileMap[w]
        BY <1>1, <2>1, <3>2 DEF BoardTypeOK
      <4> QED BY <1>1, <4>1 DEF ListOK
    <3> QED BY <3>1, <3>2
  <2> QED BY <2>2, <2>3 DEF ListOK
<1> QED BY <1>2, <1>3, <1>4
\* The loop: it leaves the list, and every status but pending ones, alone.
LEMMA LoopTypes ==
  ASSUME TypeOK, NEW v \in Visits,
         LogReady(v) \/ LogFails(v) \/ Stop(v) \/ Flush(v) \/ Finish(v) \/ Start(v)
  PROVE  BoardTypeOK' /\ ListOK'
<1>1. BoardTypeOK /\ ListOK  BY TypeParts
<1>2. filePaths' = filePaths /\ fileMap' = fileMap
  BY DEF LogReady, LogFails, Stop, Flush, Finish, Start
<1>3. ListOK'  BY <1>1, <1>2 DEF ListOK
<1>4. CASE LogReady(v) \/ LogFails(v)  BY <1>1, <1>3, <1>4 DEF LogReady, LogFails, BoardTypeOK
<1>5. CASE Stop(v) \/ Flush(v)  BY <1>1, <1>3, <1>5 DEF Stop, Flush, BoardTypeOK
<1>6. CASE Finish(v)  BY <1>1, <1>3, <1>6 DEF Finish, LastFlush, BoardTypeOK
<1>7. CASE Start(v)
  <2> DEFINE files == PendingFiles(v)
             fresh == [NoProgress EXCEPT !.total = Len(files)]
             Counters == [total : Count, done : Count, error : Count, skipped : Count]
  <2>1. /\ files \in Seq(Paths) /\ IsInjective(files)
        /\ ToSet(files) = {p \in Paths : fileMap[v][p] = "pending"}
    BY PendingFacts
  <2>2. Cardinality(ToSet(files)) = Len(files) /\ ToSet(files) \subseteq Paths
    BY <2>1, InjectiveLength
  <2>3. Len(files) \in Count /\ 0 \in Count
    <3>1. Cardinality(ToSet(files)) <= Cardinality(Paths)
      BY <2>2, FilesAssumption, FS_Subset
    <3>2. Cardinality(Paths) \in Nat  BY FilesAssumption, FS_CardinalityType
    <3>3. Len(files) \in Nat  BY <2>1
    <3> QED BY <2>2, <3>1, <3>2, <3>3 DEF Count
  <2>4. fresh \in Counters  BY <2>3 DEF NoProgress
  <2>5. /\ running' = [running EXCEPT ![v] = TRUE] /\ done' = [done EXCEPT ![v] = FALSE]
        /\ abort' = [abort EXCEPT ![v] = FALSE] /\ loop' = [loop EXCEPT ![v] = "logging"]
        /\ pending' = [pending EXCEPT ![v] = files]
        /\ progress' = [progress EXCEPT ![v] = fresh]
        /\ shown' = [shown EXCEPT ![v] = progress'[v]]
        /\ batch' = [batch EXCEPT ![v] = ToSet(files)] /\ awaited' = awaited
    BY <1>7 DEF Start, Started
  <2> HIDE DEF files, fresh
  <2>6. progress' \in [Visits -> Counters] /\ progress'[v] \in Counters
    BY <1>1, <2>4, <2>5 DEF BoardTypeOK
  <2> HIDE DEF Counters
  <2>7. shown' \in [Visits -> Counters]
    BY <1>1, <2>5, <2>6 DEF BoardTypeOK, Counters
  <2>8. pending' \in [Visits -> Seq(Paths)] /\ batch' \in [Visits -> SUBSET Paths]
    BY <1>1, <2>1, <2>2, <2>5 DEF BoardTypeOK
  <2>9. /\ running' \in [Visits -> BOOLEAN] /\ done' \in [Visits -> BOOLEAN]
        /\ abort' \in [Visits -> BOOLEAN]
        /\ loop' \in [Visits -> {"idle", "logging", "next", "waiting", "broken"}]
    BY <1>1, <2>5 DEF BoardTypeOK
  <2> QED BY <1>1, <1>2, <1>3, <2>5, <2>6, <2>7, <2>8, <2>9 DEF BoardTypeOK, Counters
<1> QED BY <1>4, <1>5, <1>6, <1>7

\* A listed file that changes its status stays listed.
LEMMA ListStays ==
  ASSUME TypeOK, NEW v \in Visits, NEW p \in Paths, NEW status,
         fileMap[v][p] # "absent", status \in {"processing"} \cup Outcomes,
         fileMap' = [fileMap EXCEPT ![v][p] = status], filePaths' = filePaths
  PROVE  /\ ListOK'
         /\ fileMap' \in [Visits -> [Paths -> {"absent", "pending", "processing"} \cup Outcomes]]
<1>1. BoardTypeOK /\ ListOK  BY TypeParts
<1>2. \A w \in Visits, q \in Paths :
        fileMap'[w][q] = IF w = v /\ q = p THEN status ELSE fileMap[w][q]
  BY <1>1 DEF BoardTypeOK
<1>3. status # "absent"  BY DEF Outcomes
<1>4. \A w \in Visits, q \in Paths : fileMap'[w][q] # "absent" <=> fileMap[w][q] # "absent"
  BY <1>2, <1>3
<1>5. ListOK'  BY <1>1, <1>4 DEF ListOK
<1>6. fileMap' \in [Visits -> [Paths -> {"absent", "pending", "processing"} \cup Outcomes]]
  BY <1>1 DEF BoardTypeOK
<1> QED BY <1>5, <1>6

LEMMA ProcessTypes ==
  ASSUME TypeOK, PageInv, NEW v \in Visits, Process(v)
  PROVE  BoardTypeOK' /\ ListOK'
<1> DEFINE head == Head(pending[v])
<1>1. BoardTypeOK /\ ListOK  BY TypeParts
<1>2. /\ loop[v] = "next" /\ pending[v] # <<>> /\ pending[v] \in Seq(Paths)
      /\ IsInjective(pending[v])
  BY DEF Process, TypeOK, PageInv, FlagsAt
<1>3. head \in Paths /\ head \in ToSet(pending[v])  BY <1>2, TailElements
<1>4. fileMap[v][head] # "absent"  BY <1>2, <1>3 DEF PageInv, FlagsAt, StatusAt
<1>5. /\ fileMap' = [fileMap EXCEPT ![v][head] = "processing"] /\ filePaths' = filePaths
      /\ loop' = [loop EXCEPT ![v] = "waiting"]
      /\ \E j \in JobIds : awaited' = [awaited EXCEPT ![v] = j]
      /\ UNCHANGED <<running, done, abort, pending, progress, shown, batch>>
  BY DEF Process
<1> HIDE DEF head
<1>6. ListOK' /\ fileMap' \in [Visits -> [Paths -> {"absent", "pending", "processing"} \cup Outcomes]]
  BY <1>3, <1>4, <1>5, ListStays
<1> QED BY <1>1, <1>5, <1>6 DEF BoardTypeOK

LEMMA VerdictTypes ==
  ASSUME TypeOK, PageInv, NEW v \in Visits, NEW outcome \in Outcomes, Verdict(v, outcome)
  PROVE  BoardTypeOK' /\ ListOK'
<1> DEFINE head == Head(pending[v])
           Counters == [total : Count, done : Count, error : Count, skipped : Count]
<1>1. BoardTypeOK /\ ListOK  BY TypeParts
<1>2. FlagsAt(v) /\ StatusAt(v) /\ BatchAt(v)  BY DEF PageInv
<1>3. /\ head \in Paths /\ fileMap[v][head] # "absent"
      /\ progress[v][outcome] + 1 <= Cardinality(Paths)
  BY <1>2, VerdictKeeps
<1>4. pending[v] \in Seq(Paths) /\ pending[v] # <<>> /\ IsInjective(pending[v])
  BY <1>2 DEF Verdict, FlagsAt, TypeOK
<1>5. Tail(pending[v]) \in Seq(Paths)  BY <1>4, TailElements
<1>6. /\ fileMap' = [fileMap EXCEPT ![v][head] = outcome] /\ filePaths' = filePaths
      /\ progress' = [progress EXCEPT ![v][outcome] = @ + 1]
      /\ pending' = [pending EXCEPT ![v] = Tail(@)]
      /\ awaited' = [awaited EXCEPT ![v] = None] /\ loop' = [loop EXCEPT ![v] = "next"]
      /\ UNCHANGED <<running, done, abort, shown, batch>>
  BY DEF Verdict, Settle, Resume
<1> HIDE DEF head
<1>7. ListOK' /\ fileMap' \in [Visits -> [Paths -> {"absent", "pending", "processing"} \cup Outcomes]]
  BY <1>3, <1>6, ListStays
<1>8. progress' \in [Visits -> Counters]
  <2>1. progress[v][outcome] \in Nat /\ Cardinality(Paths) \in Nat  BY CounterTypes
  <2>2. progress[v][outcome] + 1 \in Count  BY <1>3, <2>1 DEF Count
  <2>3. progress[v] \in Counters  BY <1>1 DEF BoardTypeOK
  <2>4. [progress[v] EXCEPT ![outcome] = progress[v][outcome] + 1] \in Counters
    <3>1. CASE outcome = "done"  BY <2>2, <2>3, <3>1
    <3>2. CASE outcome = "error"  BY <2>2, <2>3, <3>2
    <3>3. CASE outcome = "skipped"  BY <2>2, <2>3, <3>3
    <3> QED BY <3>1, <3>2, <3>3 DEF Outcomes
  <2> HIDE DEF Counters
  <2>5. progress \in [Visits -> Counters]  BY <1>1 DEF BoardTypeOK, Counters
  <2> QED BY <1>6, <2>4, <2>5
<1>9. pending' \in [Visits -> Seq(Paths)]  BY <1>1, <1>5, <1>6 DEF BoardTypeOK
<1> QED BY <1>1, <1>6, <1>7, <1>8, <1>9 DEF BoardTypeOK

LEMMA BoardTypes ==
  ASSUME TypeOK, PageInv, [Next]_vars
  PROVE  BoardTypeOK' /\ ListOK'
<1>1. CASE UNCHANGED board
  <2>1. BoardTypeOK /\ ListOK  BY TypeParts
  <2> QED BY <1>1, <2>1 DEF board, BoardTypeOK, ListOK
<1>2. ASSUME NEW v \in Visits, BoardStep(v) PROVE BoardTypeOK' /\ ListOK'
  BY <1>2, ListTypes, LoopTypes, ProcessTypes, VerdictTypes DEF BoardStep
<1> QED BY <1>1, <1>2, BoardSteps

-----------------------------------------------------------------------------
(* Jobs. *)

\* A job goes on, its first request behind it.
Moves(j, new) ==
  /\ job' = [job EXCEPT ![j] = new]
  /\ new \in Jobs /\ new.path = job[j].path /\ new.step # "create"
  /\ UNCHANGED <<fileMap, progress, pending, reported, awaited, loop>>

\* The first request of a job has created the resource.
Gain(j) == created' = Inserted(j)

JobStep(j) ==
  /\ job[j] # None /\ JobFrame
  /\ \/ /\ \E new : Moves(j, new)
        /\ IF job[j].step = "create" THEN Gain(j) ELSE UNCHANGED created
     \/ /\ End(j, "done")
        /\ IF job[j].step = "create" THEN Gain(j) ELSE UNCHANGED created
     \/ End(j, "error") /\ job[j].step = "create" /\ (Gain(j) \/ UNCHANGED created)

LEMMA FindingTypes == \A f \in EbookFindings \cup MusicFindings : f.cover \in BOOLEAN
<1>1. \A f \in VideoFindings : f.cover = FALSE  BY DEF VideoFindings
<1>2. \A f \in MusicFindings : f.cover = FALSE  BY <1>1 DEF MusicFindings
<1>3. \A f \in MusicFindings : [f EXCEPT !.cover = TRUE].cover = TRUE
  <2>1. \A f \in MusicFindings : "cover" \in DOMAIN f
    BY DEF MusicFindings, VideoFindings
  <2> QED BY <2>1
<1> QED BY <1>2, <1>3 DEF EbookFindings

LEMMA GoOnMoves ==
  ASSUME TypeOK, NEW j \in JobIds, job[j] # None,
         NEW step \in {"extract", "meta", "cover"}, GoOn(j, step)
  PROVE  \E new : Moves(j, new)
<1> DEFINE new == [job[j] EXCEPT !.step = step]
<1>1. job[j] \in Jobs  BY DEF TypeOK
<1>2. new \in Jobs /\ new.path = job[j].path /\ new.step # "create"
  BY <1>1 DEF Jobs
<1>3. job' = [job EXCEPT ![j] = new]  BY DEF GoOn
<1> QED BY <1>2, <1>3 DEF Moves, GoOn

LEMMA JobSteps ==
  ASSUME TypeOK, NEW j \in JobIds,
         Created(j) \/ CreateFails(j) \/ Extract(j) \/ ExtractFails(j)
           \/ MetaPosted(j) \/ CoverPosted(j)
  PROVE  JobStep(j)
<1>1. CASE Created(j)
  <2>1. job[j] # None /\ job[j].step = "create" /\ Gain(j) /\ JobFrame
    BY <1>1 DEF Created, At, Gain
  <2>2. GoOn(j, "extract") \/ End(j, "done")  BY <1>1 DEF Created
  <2> QED BY <2>1, <2>2, GoOnMoves DEF JobStep
<1>2. CASE CreateFails(j)  BY <1>2 DEF CreateFails, At, JobStep, Gain
<1>3. CASE Extract(j)
  <2>1. job[j] # None /\ job[j].step = "extract" /\ UNCHANGED created /\ JobFrame
    BY <1>3 DEF Extract, At
  <2>2. PICK f \in EbookFindings \cup MusicFindings :
           \/ /\ job' = [job EXCEPT ![j].step = "meta", ![j].cover = f.cover]
              /\ UNCHANGED <<fileMap, progress, pending, reported, awaited, loop>>
           \/ GoOn(j, "cover")
           \/ End(j, "done")
    BY <1>3 DEF Extract
  <2>3. ASSUME job' = [job EXCEPT ![j].step = "meta", ![j].cover = f.cover],
               UNCHANGED <<fileMap, progress, pending, reported, awaited, loop>>
        PROVE  \E new : Moves(j, new)
    <3> DEFINE new == [[job[j] EXCEPT !.step = "meta"] EXCEPT !.cover = f.cover]
    <3>1. job[j] \in Jobs /\ f.cover \in BOOLEAN  BY <2>1, FindingTypes DEF TypeOK
    <3>2. new \in Jobs /\ new.path = job[j].path /\ new.step # "create"
      BY <3>1 DEF Jobs
    <3>3. job' = [job EXCEPT ![j] = new]  BY <2>3 DEF TypeOK
    <3> QED BY <2>3, <3>2, <3>3 DEF Moves
  <2> QED BY <2>1, <2>2, <2>3, GoOnMoves DEF JobStep
<1>4. CASE ExtractFails(j)  BY <1>4 DEF ExtractFails, At, JobStep
<1>5. CASE MetaPosted(j)
  <2>1. job[j] # None /\ job[j].step = "meta" /\ UNCHANGED created /\ JobFrame
    BY <1>5 DEF MetaPosted, At
  <2>2. GoOn(j, "cover") \/ End(j, "done")  BY <1>5 DEF MetaPosted
  <2> QED BY <2>1, <2>2, GoOnMoves DEF JobStep
<1>6. CASE CoverPosted(j)  BY <1>6 DEF CoverPosted, At, JobStep
<1> QED BY <1>1, <1>2, <1>3, <1>4, <1>5, <1>6

\* The steps of the system that are not steps of a job.
PageStepOf(v) ==
  \/ \E p \in Paths : PickFiles(v, p) \/ Drop(v, p) \/ Unlist(v, p)
  \/ PickDirectory(v) \/ Scanned(v) \/ Clear(v)
  \/ Start(v) \/ LogReady(v) \/ LogFails(v) \/ Stop(v) \/ Flush(v)
  \/ Skip(v) \/ Process(v) \/ Timeout(v) \/ Finish(v)

LEMMA NextSteps ==
  ASSUME TypeOK, [Next]_vars
  PROVE  \/ \E v \in Visits : PageStepOf(v)
         \/ \E j \in JobIds : JobStep(j)
         \/ Leave \/ Return \/ UNCHANGED vars
  BY JobSteps DEF Next, PageStepOf

\* What a verdict does to the count of reports.
LEMMA ReportTypes ==
  ASSUME TypeOK, NEW v \in Visits, NEW outcome, Settle(v, outcome)
  PROVE  reported' \in [Paths -> Nat]
<1> DEFINE more == IF outcome = "done" THEN 1 ELSE 0
<1>1. reported \in [Paths -> Nat] /\ more \in Nat  BY DEF TypeOK
<1>2. PICK p : reported' = [reported EXCEPT ![p] = reported[p] + more]  BY DEF Settle
<1> HIDE DEF more
<1>3. CASE p \in Paths
  <2>1. reported[p] + more \in Nat  BY <1>1, <1>3
  <2> QED BY <1>1, <1>2, <2>1
<1>4. CASE p \notin Paths  BY <1>1, <1>2, <1>4
<1> QED BY <1>3, <1>4

LEMMA ServerTypes ==
  ASSUME TypeOK, [Next]_vars
  PROVE  ServerTypeOK'
<1>1. ServerTypeOK  BY TypeParts
<1>2. ASSUME NEW v \in Visits, NEW paths, AddPaths(v, paths),
             UNCHANGED <<visit, open, job, created, reported>>, scanning' \in [Visits -> BOOLEAN]
      PROVE  ServerTypeOK'
  BY <1>1, <1>2 DEF AddPaths, ServerTypeOK
<1>3. ASSUME NEW v \in Visits, NEW p \in Paths, PickFiles(v, p) \/ Drop(v, p)
      PROVE  ServerTypeOK'
  BY <1>1, <1>2, <1>3 DEF PickFiles, Drop, ServerTypeOK
<1>4. ASSUME NEW v \in Visits, Scanned(v) PROVE ServerTypeOK'
  BY <1>1, <1>2, <1>4 DEF Scanned, ServerTypeOK
<1>5. ASSUME NEW v \in Visits, NEW p \in Paths, Unlist(v, p) PROVE ServerTypeOK'
  BY <1>1, <1>5 DEF Unlist, ServerTypeOK
<1>6. ASSUME NEW v \in Visits, PickDirectory(v) \/ Clear(v) \/ Start(v) PROVE ServerTypeOK'
  BY <1>1, <1>6 DEF PickDirectory, Clear, Start, ServerTypeOK
<1>7. ASSUME NEW v \in Visits, LogReady(v) \/ LogFails(v) \/ Stop(v) \/ Flush(v) \/ Finish(v)
      PROVE  ServerTypeOK'
  BY <1>1, <1>7 DEF LogReady, LogFails, Stop, Flush, Finish, ServerTypeOK
<1>8. ASSUME NEW v \in Visits, Skip(v) \/ Timeout(v) PROVE ServerTypeOK'
  BY <1>1, <1>8, ReportTypes DEF Skip, Timeout, ServerTypeOK
<1>9. ASSUME NEW v \in Visits, Process(v) PROVE ServerTypeOK'
  <2>1. pending[v] \in Seq(Paths) /\ pending[v] # <<>>  BY <1>9 DEF Process, TypeOK
  <2>2. Head(pending[v]) \in Paths  BY <2>1
  <2>3. [path |-> Head(pending[v]), step |-> "create", cover |-> FALSE] \in Jobs
    BY <2>2 DEF Jobs
  <2>4. job' \in [JobIds -> Jobs \cup {None}]
    BY <1>1, <1>9, <2>3 DEF Process, ServerTypeOK
  <2> QED BY <1>1, <1>9, <2>4 DEF Process, ServerTypeOK
<1>10. ASSUME NEW j \in JobIds, JobStep(j) PROVE ServerTypeOK'
  <2>1. JobFrame  BY <1>10 DEF JobStep
  <2>2. job' \in [JobIds -> Jobs \cup {None}] /\ reported' \in [Paths -> Nat]
    <3>1. ASSUME NEW outcome, End(j, outcome)
          PROVE  job' \in [JobIds -> Jobs \cup {None}] /\ reported' \in [Paths -> Nat]
      <4>1. job' \in [JobIds -> Jobs \cup {None}]  BY <1>1, <3>1 DEF End, ServerTypeOK
      <4>2. reported' = reported \/ \E v \in Visits : Settle(v, outcome)  BY <3>1 DEF End
      <4> QED BY <1>1, <4>1, <4>2, ReportTypes DEF ServerTypeOK
    <3>2. ASSUME NEW new, Moves(j, new)
          PROVE  job' \in [JobIds -> Jobs \cup {None}] /\ reported' \in [Paths -> Nat]
      BY <1>1, <3>2 DEF Moves, ServerTypeOK
    <3> QED BY <1>10, <3>1, <3>2 DEF JobStep
  <2>3. created' \in [Paths -> Nat]  BY <1>1, <1>10 DEF JobStep, Gain, Inserted, ServerTypeOK
  <2> QED BY <1>1, <2>1, <2>2, <2>3 DEF JobFrame, ServerTypeOK
<1>11. CASE Leave  BY <1>1, <1>11 DEF Leave, page, ServerTypeOK
<1>12. CASE Return
  BY <1>1, <1>12, ImportBoundsAssumption DEF Return, page, ServerTypeOK, Visits
<1>13. CASE UNCHANGED vars  BY <1>1, <1>13 DEF vars, page, ServerTypeOK
<1> QED
  BY <1>3, <1>4, <1>5, <1>6, <1>7, <1>8, <1>9, <1>10, <1>11, <1>12, <1>13, NextSteps
  DEF PageStepOf

LEMMA TypeStep ==
  ASSUME TypeOK, PageInv, [Next]_vars
  PROVE  TypeOK'
  BY BoardTypes, ServerTypes, TypePartsPrimed

-----------------------------------------------------------------------------
(* Waiting. *)

\* A loop that waits after a step has waited before it, for the same job.
WaitsOn == \A v \in Visits : awaited'[v] # None =>
  /\ awaited'[v] = awaited[v] /\ pending'[v] = pending[v]
  /\ job'[awaited[v]] # None /\ job'[awaited[v]].path = job[awaited[v]].path

LEMMA WaitsOnKeeps ==
  ASSUME AwaitInv, WaitsOn
  PROVE  AwaitInv'
  BY DEF AwaitInv, WaitsOn

\* A job that ends is not waited for any more.
LEMMA EndWaits ==
  ASSUME TypeOK, AwaitInv, NEW j \in JobIds, NEW outcome, End(j, outcome)
  PROVE  WaitsOn
<1>1. job' = [job EXCEPT ![j] = None] /\ job \in [JobIds -> Jobs \cup {None}]
      /\ awaited \in [Visits -> JobIds \cup {None}]
  BY DEF End, TypeOK
<1>2. \A v \in Visits : awaited[v] # None /\ awaited[v] # j =>
        job'[awaited[v]] = job[awaited[v]] /\ job[awaited[v]] # None
  BY <1>1 DEF AwaitInv
<1>3. j # None  BY ImportBoundsAssumption
<1>4. CASE \E v \in Visits : awaited[v] = j
  <2>1. PICK v \in Visits : awaited[v] = j /\ Settle(v, outcome) /\ Resume(v)
    BY <1>4 DEF End
  <2>2. awaited'[v] = None
    BY <1>1, <2>1 DEF Resume
  <2>3. ASSUME NEW w \in Visits, w # v
        PROVE  awaited'[w] = awaited[w] /\ pending'[w] = pending[w] /\ awaited[w] # j
    BY <1>1, <1>3, <2>1, <2>3 DEF Resume, Settle, AwaitInv, TypeOK
  <2> QED BY <1>2, <2>2, <2>3 DEF WaitsOn
<1>5. CASE ~ \E v \in Visits : awaited[v] = j
  BY <1>2, <1>5 DEF End, WaitsOn
<1> QED BY <1>4, <1>5

LEMMA MovesWaits ==
  ASSUME TypeOK, AwaitInv, NEW j \in JobIds, NEW new, Moves(j, new)
  PROVE  WaitsOn
<1>1. /\ job' = [job EXCEPT ![j] = new] /\ new \in Jobs /\ new.path = job[j].path
      /\ job \in [JobIds -> Jobs \cup {None}] /\ awaited \in [Visits -> JobIds \cup {None}]
      /\ awaited' = awaited /\ pending' = pending
  BY DEF Moves, TypeOK
<1>2. new # None  BY <1>1, ImportBoundsAssumption
<1>3. \A i \in JobIds : job[i] # None => job'[i] # None /\ job'[i].path = job[i].path
  BY <1>1, <1>2
<1>4. \A v \in Visits : awaited[v] # None => awaited[v] \in JobIds /\ job[awaited[v]] # None
  BY <1>1 DEF AwaitInv
<1> QED BY <1>1, <1>3, <1>4 DEF WaitsOn

\* A job that starts is waited for by the loop that started it.
LEMMA ProcessWaits ==
  ASSUME TypeOK, PageInv, AwaitInv, NEW v \in Visits, Process(v)
  PROVE  AwaitInv'
<1> DEFINE new == [path |-> Head(pending[v]), step |-> "create", cover |-> FALSE]
<1>1. PICK j \in JobIds : /\ job[j] = None /\ job' = [job EXCEPT ![j] = new]
                          /\ awaited' = [awaited EXCEPT ![v] = j]
  BY DEF Process
<1>2. pending' = pending /\ pending[v] \in Seq(Paths) /\ pending[v] # <<>>
  BY DEF Process, TypeOK
<1>3. new \in Jobs /\ new.path = Head(pending[v])
  <2>1. Head(pending[v]) \in Paths  BY <1>2
  <2> QED BY <2>1 DEF Jobs
<1>4. new # None  BY <1>3, ImportBoundsAssumption
<1> HIDE DEF new
<1>5. job \in [JobIds -> Jobs \cup {None}] /\ awaited \in [Visits -> JobIds \cup {None}]
  BY DEF TypeOK
<1>6. job'[j] = new /\ awaited'[v] = j  BY <1>1, <1>5
<1>7. \A w \in Visits : w # v => awaited'[w] = awaited[w]  BY <1>1, <1>5
<1>8. \A w \in Visits : awaited[w] # None =>
        awaited[w] # j /\ job'[awaited[w]] = job[awaited[w]]
  BY <1>1, <1>5 DEF AwaitInv
<1> QED BY <1>2, <1>3, <1>4, <1>6, <1>7, <1>8 DEF AwaitInv

LEMMA AwaitStep ==
  ASSUME TypeOK, PageInv, AwaitInv, [Next]_vars
  PROVE  AwaitInv'
<1>1. ASSUME UNCHANGED <<awaited, job>>,
             \A v \in Visits : awaited[v] # None => pending'[v] = pending[v]
      PROVE  AwaitInv'
  BY <1>1 DEF AwaitInv
<1>2. ASSUME NEW v \in Visits, NEW p \in Paths, PickFiles(v, p) \/ Drop(v, p) \/ Unlist(v, p)
      PROVE  AwaitInv'
  BY <1>1, <1>2 DEF PickFiles, Drop, Unlist
<1>3. ASSUME NEW v \in Visits, PickDirectory(v) \/ Scanned(v) \/ Clear(v) PROVE AwaitInv'
  BY <1>1, <1>3 DEF PickDirectory, Scanned, Clear
<1>4. ASSUME NEW v \in Visits, LogReady(v) \/ LogFails(v) \/ Stop(v) \/ Flush(v) \/ Finish(v)
      PROVE  AwaitInv'
  BY <1>1, <1>4 DEF LogReady, LogFails, Stop, Flush, Finish
<1>5. ASSUME NEW v \in Visits, Start(v) PROVE AwaitInv'
  <2>1. awaited[v] = None  BY <1>5 DEF Start, StartEnabled, PageInv, FlagsAt
  <2>2. \A w \in Visits : w # v => pending'[w] = pending[w]  BY <1>5 DEF Start, TypeOK
  <2>3. UNCHANGED <<awaited, job>>  BY <1>5 DEF Start
  <2> QED BY <1>1, <2>1, <2>2, <2>3
<1>6. ASSUME NEW v \in Visits, Skip(v) PROVE AwaitInv'
  <2>1. awaited[v] = None  BY <1>6 DEF Skip, PageInv, FlagsAt
  <2>2. \A w \in Visits : w # v => pending'[w] = pending[w]
    BY <1>6 DEF Skip, Settle, TypeOK
  <2>3. UNCHANGED <<awaited, job>>  BY <1>6 DEF Skip
  <2> QED BY <1>1, <2>1, <2>2, <2>3
<1>7. ASSUME NEW v \in Visits, Timeout(v) PROVE AwaitInv'
  <2>1. awaited'[v] = None /\ job' = job
    BY <1>7 DEF Timeout, Resume, TypeOK
  <2>2. \A w \in Visits : w # v => awaited'[w] = awaited[w] /\ pending'[w] = pending[w]
    BY <1>7 DEF Timeout, Settle, Resume, TypeOK
  <2>3. WaitsOn  BY <2>1, <2>2 DEF WaitsOn, AwaitInv
  <2> QED BY <2>3, WaitsOnKeeps
<1>8. ASSUME NEW j \in JobIds, JobStep(j) PROVE AwaitInv'
  BY <1>8, EndWaits, MovesWaits, WaitsOnKeeps DEF JobStep
<1>9. CASE Leave \/ Return \/ UNCHANGED vars
  BY <1>1, <1>9 DEF Leave, Return, vars, page
<1> QED
  BY <1>2, <1>3, <1>4, <1>5, <1>6, <1>7, <1>8, <1>9, ProcessWaits, NextSteps DEF PageStepOf

-----------------------------------------------------------------------------
(* Counting. *)

LEMMA CountTypes ==
  ASSUME TypeOK, NEW p \in Paths
  PROVE  /\ IsFiniteSet(Queued(p)) /\ IsFiniteSet(Creating(p)) /\ IsFiniteSet(Past(p))
         /\ Cardinality(Queued(p)) \in Nat /\ Cardinality(Creating(p)) \in Nat
         /\ Cardinality(Past(p)) \in Nat
         /\ created[p] \in Nat /\ listed[p] \in Nat /\ reported[p] \in Nat
<1>1. IsFiniteSet(Visits) /\ IsFiniteSet(JobIds)
  BY ImportBoundsAssumption, FS_Interval DEF Visits
<1>2. Queued(p) \subseteq Visits /\ Creating(p) \subseteq JobIds /\ Past(p) \subseteq JobIds
  BY DEF Queued, Creating, Past
<1>3. created[p] \in Nat /\ listed[p] \in Nat /\ reported[p] \in Nat  BY DEF TypeOK
<1> QED BY <1>1, <1>2, <1>3, FS_Subset, FS_CardinalityType

\* Steps that neither list nor create nor report, and start no job.
LEMMA FewerKeeps ==
  ASSUME TypeOK, CountInv, UNCHANGED <<job, created, listed>>,
         \A p \in Paths : Queued(p)' \subseteq Queued(p) /\ reported'[p] = reported[p]
  PROVE  CountInv'
<1>1. ASSUME NEW p \in Paths
      PROVE  /\ (created[p] + Cardinality(Queued(p)) + Cardinality(Creating(p)) <= listed[p])'
             /\ (reported[p] + Cardinality(Past(p)) <= created[p])'
  <2>1. Creating(p)' = Creating(p) /\ Past(p)' = Past(p)  BY DEF Creating, Past
  <2>2. Cardinality(Queued(p)') <= Cardinality(Queued(p)) /\ Cardinality(Queued(p)') \in Nat
    BY CountTypes, FS_Subset, FS_CardinalityType
  <2>3. /\ created[p] + Cardinality(Queued(p)) + Cardinality(Creating(p)) <= listed[p]
        /\ reported[p] + Cardinality(Past(p)) <= created[p]
    BY DEF CountInv
  <2> QED BY <2>1, <2>2, <2>3, CountTypes
<1> QED BY <1>1 DEF CountInv

\* A file that is put on a list adds one to both sides.
LEMMA AddingCounts ==
  ASSUME TypeOK, CountInv, NEW v \in Visits, NEW paths \in Seq(Paths), IsInjective(paths),
         AddPaths(v, paths), UNCHANGED <<job, created, reported>>
  PROVE  CountInv'
<1> DEFINE new == ToSet(NewPaths(v, paths))
<1>1. new = {p \in ToSet(paths) : fileMap[v][p] = "absent"}  BY NewFacts
<1>2. \A w \in Visits, p \in Paths :
        fileMap'[w][p] = IF w = v /\ p \in new THEN "pending" ELSE fileMap[w][p]
  BY DEF AddPaths, TypeOK
<1>3. \A p \in Paths : listed'[p] = listed[p] + IF p \in new THEN 1 ELSE 0
  BY <1>1 DEF AddPaths
<1> HIDE DEF new
<1>4. ASSUME NEW p \in Paths
      PROVE  /\ (created[p] + Cardinality(Queued(p)) + Cardinality(Creating(p)) <= listed[p])'
             /\ (reported[p] + Cardinality(Past(p)) <= created[p])'
  <2>1. Creating(p)' = Creating(p) /\ Past(p)' = Past(p)  BY DEF Creating, Past
  <2>2. /\ created[p] + Cardinality(Queued(p)) + Cardinality(Creating(p)) <= listed[p]
        /\ reported[p] + Cardinality(Past(p)) <= created[p]
    BY DEF CountInv
  <2>3. CASE p \in new
    <3>1. Queued(p)' = Queued(p) \cup {v}  BY <1>2, <2>3 DEF Queued
    <3>2. v \notin Queued(p)  BY <1>1, <2>3 DEF Queued
    <3>3. Cardinality(Queued(p)') = Cardinality(Queued(p)) + 1
      BY <3>1, <3>2, CountTypes, FS_AddElement
    <3>4. listed'[p] = listed[p] + 1  BY <1>3, <2>3
    <3> QED BY <2>1, <2>2, <3>3, <3>4, CountTypes
  <2>4. CASE p \notin new
    <3>1. Queued(p)' = Queued(p)  BY <1>2, <2>4 DEF Queued
    <3>2. listed'[p] = listed[p]  BY <1>3, <2>4, CountTypes
    <3> QED BY <2>1, <2>2, <3>1, <3>2, CountTypes
  <2> QED BY <2>3, <2>4
<1> QED BY <1>4 DEF CountInv

\* A file whose job starts is pending no more and about to be created.
LEMMA ProcessCounts ==
  ASSUME TypeOK, PageInv, CountInv, NEW v \in Visits, Process(v)
  PROVE  CountInv'
<1> DEFINE head == Head(pending[v])
           new == [path |-> head, step |-> "create", cover |-> FALSE]
<1>1. /\ loop[v] = "next" /\ pending[v] # <<>> /\ pending[v] \in Seq(Paths)
      /\ IsInjective(pending[v]) /\ awaited[v] = None
  BY DEF Process, TypeOK, PageInv, FlagsAt
<1>2. head \in Paths /\ head \in ToSet(pending[v])  BY <1>1, TailElements
<1>3. fileMap[v][head] = "pending"  BY <1>1, <1>2 DEF PageInv, StatusAt
<1>4. PICK j \in JobIds : job[j] = None /\ job' = [job EXCEPT ![j] = new]
  BY DEF Process
<1>5. fileMap' = [fileMap EXCEPT ![v][head] = "processing"]
      /\ UNCHANGED <<created, listed, reported>>
  BY DEF Process
<1>6. new # None /\ new.path = head /\ new.step = "create"
  <2>1. new \in Jobs  BY <1>2 DEF Jobs
  <2> QED BY <2>1, ImportBoundsAssumption
<1> HIDE DEF head, new
<1>7. \A w \in Visits, p \in Paths :
        fileMap'[w][p] = IF w = v /\ p = head THEN "processing" ELSE fileMap[w][p]
  BY <1>5 DEF TypeOK
<1>8. \A i \in JobIds : job'[i] = IF i = j THEN new ELSE job[i]  BY <1>4 DEF TypeOK
<1>9. ASSUME NEW p \in Paths
      PROVE  /\ (created[p] + Cardinality(Queued(p)) + Cardinality(Creating(p)) <= listed[p])'
             /\ (reported[p] + Cardinality(Past(p)) <= created[p])'
  <2>1. Past(p)' = Past(p)  BY <1>4, <1>6, <1>8 DEF Past
  <2>2. /\ created[p] + Cardinality(Queued(p)) + Cardinality(Creating(p)) <= listed[p]
        /\ reported[p] + Cardinality(Past(p)) <= created[p]
    BY DEF CountInv
  <2>3. CASE p = head
    <3>1. Queued(p)' = Queued(p) \ {v} /\ v \in Queued(p)
      BY <1>3, <1>7, <2>3 DEF Queued
    <3>2. Cardinality(Queued(p)') = Cardinality(Queued(p)) - 1
      BY <3>1, CountTypes, FS_RemoveElement
    <3>3. Creating(p)' = Creating(p) \cup {j} /\ j \notin Creating(p)
      BY <1>4, <1>6, <1>8, <2>3 DEF Creating
    <3>4. Cardinality(Creating(p)') = Cardinality(Creating(p)) + 1
      BY <3>3, CountTypes, FS_AddElement
    <3> QED BY <1>5, <2>1, <2>2, <3>2, <3>4, CountTypes
  <2>4. CASE p # head
    <3>1. Queued(p)' = Queued(p)  BY <1>7, <2>4 DEF Queued
    <3>2. Creating(p)' = Creating(p)  BY <1>4, <1>6, <1>8, <2>4 DEF Creating
    <3> QED BY <1>5, <2>1, <2>2, <3>1, <3>2
  <2> QED BY <2>3, <2>4
<1> QED BY <1>9 DEF CountInv

\* A verdict takes a file off the list of its loop; "done" is a report.
LEMMA SettleCounts ==
  ASSUME TypeOK, NEW v \in Visits, NEW outcome \in Outcomes, Settle(v, outcome),
         NEW p \in Paths
  PROVE  /\ Queued(p)' \subseteq Queued(p)
         /\ reported'[p] = reported[p] +
              IF p = Head(pending[v]) /\ outcome = "done" THEN 1 ELSE 0
<1>1. \A w \in Visits : fileMap'[w][p] # "pending" \/ fileMap'[w][p] = fileMap[w][p]
  BY DEF Settle, TypeOK, Outcomes
<1>2. Queued(p)' \subseteq Queued(p)  BY <1>1 DEF Queued
<1> DEFINE head == Head(pending[v])
           more == IF outcome = "done" THEN 1 ELSE 0
<1>3. reported' = [reported EXCEPT ![head] = reported[head] + more]  BY DEF Settle
<1>4. reported[p] \in Nat /\ reported \in [Paths -> Nat]  BY DEF TypeOK
<1>5. CASE p = head
  <2> HIDE DEF head
  <2>1. reported'[p] = reported[p] + more  BY <1>3, <1>4, <1>5
  <2> QED BY <1>2, <1>5, <2>1 DEF head
<1>6. CASE p # head
  <2> HIDE DEF head
  <2>1. reported'[p] = reported[p]  BY <1>3, <1>4, <1>6
  <2> QED BY <1>2, <1>4, <1>6, <2>1 DEF head
<1> QED BY <1>5, <1>6

\* A job that ends is reported by the loop that waits for it, if any.
LEMMA EndCounts ==
  ASSUME TypeOK, AwaitInv, NEW j \in JobIds, NEW outcome \in Outcomes, End(j, outcome),
         NEW p \in Paths
  PROVE  /\ Queued(p)' \subseteq Queued(p)
         /\ \/ reported'[p] = reported[p]
            \/ /\ p = job[j].path /\ outcome = "done"
               /\ reported'[p] = reported[p] + 1
<1>1. CASE \E v \in Visits : awaited[v] = j
  <2>1. PICK v \in Visits : awaited[v] = j /\ Settle(v, outcome)  BY <1>1 DEF End
  <2>2. j # None  BY ImportBoundsAssumption
  <2>3. job[j].path = Head(pending[v])  BY <2>1, <2>2 DEF AwaitInv
  <2>4. reported[p] \in Nat  BY CountTypes
  <2> QED BY <2>1, <2>3, <2>4, SettleCounts
<1>2. CASE ~ \E v \in Visits : awaited[v] = j
  <2>1. UNCHANGED <<fileMap, reported>>  BY <1>2 DEF End
  <2> QED BY <2>1 DEF Queued
<1> QED BY <1>1, <1>2

LEMMA JobCounts ==
  ASSUME TypeOK, AwaitInv, CountInv, NEW j \in JobIds, JobStep(j)
  PROVE  CountInv'
<1> DEFINE path == job[j].path
           first == job[j].step = "create"
<1>1. job[j] # None /\ listed' = listed  BY DEF JobStep, JobFrame
<1>2. job \in [JobIds -> Jobs \cup {None}] /\ created \in [Paths -> Nat]  BY DEF TypeOK
<1>3. path \in Paths  BY <1>1, <1>2 DEF Jobs
<1>4. ASSUME NEW p \in Paths
      PROVE  /\ (created[p] + Cardinality(Queued(p)) + Cardinality(Creating(p)) <= listed[p])'
             /\ (reported[p] + Cardinality(Past(p)) <= created[p])'
  <2>1. /\ created[p] + Cardinality(Queued(p)) + Cardinality(Creating(p)) <= listed[p]
        /\ reported[p] + Cardinality(Past(p)) <= created[p]
    BY DEF CountInv
  <2>2. Gain(j) => created'[p] = created[p] + IF p = path THEN 1 ELSE 0
    BY <1>2 DEF Gain, Inserted
  <2>3. \* what is left of the sets of jobs when j is taken out
        /\ Cardinality(Creating(p) \ {j}) \in Nat /\ Cardinality(Past(p) \ {j}) \in Nat
        /\ IsFiniteSet(Past(p) \ {j})
        /\ Cardinality(Creating(p) \ {j}) =
             Cardinality(Creating(p)) - IF p = path /\ first THEN 1 ELSE 0
        /\ Cardinality(Past(p) \ {j}) =
             Cardinality(Past(p)) - IF p = path /\ ~first THEN 1 ELSE 0
    <3>1. j \in Creating(p) <=> p = path /\ first  BY <1>1 DEF Creating
    <3>2. j \in Past(p) <=> p = path /\ ~first  BY <1>1 DEF Past
    <3>3. j \notin Creating(p) => Creating(p) \ {j} = Creating(p)  OBVIOUS
    <3>4. j \notin Past(p) => Past(p) \ {j} = Past(p)  OBVIOUS
    <3>5. j \in Creating(p) => Cardinality(Creating(p) \ {j}) = Cardinality(Creating(p)) - 1
      BY CountTypes, FS_RemoveElement
    <3>6. j \in Past(p) => Cardinality(Past(p) \ {j}) = Cardinality(Past(p)) - 1
      BY CountTypes, FS_RemoveElement
    <3>7. IsFiniteSet(Creating(p) \ {j}) /\ IsFiniteSet(Past(p) \ {j})
      BY CountTypes, FS_Subset
    <3>8. Cardinality(Creating(p) \ {j}) \in Nat /\ Cardinality(Past(p) \ {j}) \in Nat
      BY <3>7, FS_CardinalityType
    <3> HIDE DEF path, first
    <3> QED BY <3>1, <3>2, <3>3, <3>4, <3>5, <3>6, <3>7, <3>8, CountTypes
  <2>4. ASSUME NEW new, Moves(j, new), IF first THEN Gain(j) ELSE UNCHANGED created
        PROVE  /\ (created[p] + Cardinality(Queued(p)) + Cardinality(Creating(p)) <= listed[p])'
               /\ (reported[p] + Cardinality(Past(p)) <= created[p])'
    <3>1. /\ \A i \in JobIds : job'[i] = IF i = j THEN new ELSE job[i]
          /\ new # None /\ new.path = path /\ new.step # "create"
          /\ fileMap' = fileMap /\ reported' = reported
      BY <1>2, <2>4, ImportBoundsAssumption DEF Moves
    <3>2. Queued(p)' = Queued(p)  BY <3>1 DEF Queued
    <3>3. Creating(p)' = Creating(p) \ {j}  BY <3>1 DEF Creating
    <3>4. Past(p)' = IF p = path THEN (Past(p) \ {j}) \cup {j} ELSE Past(p) \ {j}
      BY <1>1, <3>1 DEF Past
    <3>5. Cardinality((Past(p) \ {j}) \cup {j}) = Cardinality(Past(p) \ {j}) + 1
      BY <2>3, FS_AddElement
    <3>6. Cardinality(Past(p)') = Cardinality(Past(p) \ {j}) + IF p = path THEN 1 ELSE 0
      <4> HIDE DEF path
      <4>1. CASE p = path  BY <3>4, <3>5, <4>1
      <4>2. CASE p # path  BY <2>3, <3>4, <4>2
      <4> QED BY <4>1, <4>2
    <3>7. created'[p] = created[p] + IF p = path /\ first THEN 1 ELSE 0
      <4> HIDE DEF path
      <4>1. CASE first  BY <2>2, <2>4, <4>1
      <4>2. CASE ~first  BY <2>4, <4>2, CountTypes
      <4> QED BY <4>1, <4>2
    <3>8. reported'[p] = reported[p] /\ listed'[p] = listed[p]  BY <1>1, <3>1
    <3> HIDE DEF path, first
    <3> QED BY <2>1, <2>3, <3>2, <3>3, <3>6, <3>7, <3>8, CountTypes
  <2>5. ASSUME NEW outcome \in Outcomes, End(j, outcome),
               \/ first /\ Gain(j)
               \/ ~first /\ UNCHANGED created
               \/ outcome # "done" /\ UNCHANGED created
        PROVE  /\ (created[p] + Cardinality(Queued(p)) + Cardinality(Creating(p)) <= listed[p])'
               /\ (reported[p] + Cardinality(Past(p)) <= created[p])'
    <3>1. \A i \in JobIds : job'[i] = IF i = j THEN None ELSE job[i]
      BY <1>2, <2>5 DEF End
    <3>2. Creating(p)' = Creating(p) \ {j} /\ Past(p)' = Past(p) \ {j}
      BY <3>1 DEF Creating, Past
    <3>3. /\ Queued(p)' \subseteq Queued(p)
          /\ \/ reported'[p] = reported[p]
             \/ p = path /\ outcome = "done" /\ reported'[p] = reported[p] + 1
      BY <2>5, EndCounts
    <3>4. Cardinality(Queued(p)') <= Cardinality(Queued(p)) /\ Cardinality(Queued(p)') \in Nat
      BY <3>3, CountTypes, FS_Subset, FS_CardinalityType
    <3>5. listed'[p] = listed[p]  BY <1>1
    <3> HIDE DEF path, first
    <3>6. CASE first /\ Gain(j)
      BY <2>1, <2>2, <2>3, <3>2, <3>3, <3>4, <3>5, <3>6, CountTypes
    <3>7. CASE ~first /\ UNCHANGED created
      BY <2>1, <2>3, <3>2, <3>3, <3>4, <3>5, <3>7, CountTypes
    <3>8. CASE outcome # "done" /\ UNCHANGED created
      BY <2>1, <2>3, <3>2, <3>3, <3>4, <3>5, <3>8, CountTypes
    <3> QED BY <2>5, <3>6, <3>7, <3>8
  <2>6. CASE \E new : Moves(j, new) /\ IF first THEN Gain(j) ELSE UNCHANGED created
    BY <2>4, <2>6
  <2>7. CASE End(j, "done") /\ IF first THEN Gain(j) ELSE UNCHANGED created
    BY <2>5, <2>7 DEF Outcomes
  <2>8. CASE End(j, "error") /\ first /\ (Gain(j) \/ UNCHANGED created)
    BY <2>5, <2>8 DEF Outcomes
  <2> QED BY <2>6, <2>7, <2>8 DEF JobStep
<1> QED BY <1>4 DEF CountInv

LEMMA CountStep ==
  ASSUME TypeOK, PageInv, AwaitInv, CountInv, [Next]_vars
  PROVE  CountInv'
<1>1. ASSUME UNCHANGED <<fileMap, job, created, listed, reported>> PROVE CountInv'
  BY <1>1, FewerKeeps DEF Queued
<1>2. ASSUME NEW v \in Visits, NEW p \in Paths, PickFiles(v, p) \/ Drop(v, p)
      PROVE  CountInv'
  BY <1>2, SingletonPath, AddingCounts DEF PickFiles, Drop
<1>3. ASSUME NEW v \in Visits, Scanned(v) PROVE CountInv'
  BY <1>3, FilesAssumption, AddingCounts DEF Scanned
<1>4. ASSUME NEW v \in Visits, (\E p \in Paths : Unlist(v, p)) \/ Clear(v) PROVE CountInv'
  <2>1. UNCHANGED <<job, created, listed, reported>>
    BY <1>4 DEF Unlist, Clear
  <2>2. \A w \in Visits, q \in Paths : fileMap'[w][q] # "pending" \/ fileMap'[w][q] = fileMap[w][q]
    <3>1. ASSUME NEW p \in Paths, Unlist(v, p)
          PROVE  \A w \in Visits, q \in Paths :
                   fileMap'[w][q] # "pending" \/ fileMap'[w][q] = fileMap[w][q]
      BY <3>1 DEF Unlist, TypeOK
    <3>2. ASSUME Clear(v)
          PROVE  \A w \in Visits, q \in Paths :
                   fileMap'[w][q] # "pending" \/ fileMap'[w][q] = fileMap[w][q]
      BY <3>2 DEF Clear, TypeOK
    <3> QED BY <1>4, <3>1, <3>2
  <2>3. \A q \in Paths : Queued(q)' \subseteq Queued(q)  BY <2>2 DEF Queued
  <2> QED BY <2>1, <2>3, FewerKeeps
<1>5. ASSUME NEW v \in Visits,
             PickDirectory(v) \/ Start(v) \/ LogReady(v) \/ LogFails(v) \/ Stop(v) \/ Flush(v)
               \/ Finish(v)
      PROVE  CountInv'
  BY <1>1, <1>5 DEF PickDirectory, Start, LogReady, LogFails, Stop, Flush, Finish
<1>6. ASSUME NEW v \in Visits, NEW outcome \in Outcomes, outcome # "done",
             Settle(v, outcome), UNCHANGED <<job, created, listed>>
      PROVE  CountInv'
  <2>1. \A p \in Paths : Queued(p)' \subseteq Queued(p) /\ reported'[p] = reported[p]
    BY <1>6, SettleCounts, CountTypes
  <2> QED BY <1>6, <2>1, FewerKeeps
<1>7. ASSUME NEW v \in Visits, Skip(v) \/ Timeout(v) PROVE CountInv'
  BY <1>6, <1>7 DEF Skip, Timeout, Outcomes
<1>8. CASE Leave \/ Return \/ UNCHANGED vars
  BY <1>1, <1>8 DEF Leave, Return, vars, page
<1> QED
  BY <1>2, <1>3, <1>4, <1>5, <1>7, <1>8, ProcessCounts, JobCounts, NextSteps DEF PageStepOf

-----------------------------------------------------------------------------
(* The theorems. *)

LEMMA Base ==
  ASSUME Init
  PROVE  TypeOK /\ PageInv /\ AwaitInv /\ CountInv
<1>1. Cardinality({}) = 0 /\ IsFiniteSet({})  BY FS_EmptySet
<1>2. Cardinality(Paths) \in Nat  BY FilesAssumption, FS_CardinalityType
<1>3. NoProgress \in [total : Count, done : Count, error : Count, skipped : Count]
  BY <1>2 DEF NoProgress, Count
<1>4. BoardTypeOK  BY <1>3 DEF Init, BoardTypeOK
<1>5. ListOK  BY EmptyElements DEF Init, ListOK
<1>6. ServerTypeOK  BY ImportBoundsAssumption DEF Init, ServerTypeOK, Visits
<1>7. PageInv
  <2>1. \A v \in Visits : FlagsAt(v)  BY EmptyElements DEF Init, FlagsAt
  <2>2. \A v \in Visits : StatusAt(v) /\ BatchAt(v)  BY DEF Init, StatusAt, BatchAt
  <2> QED BY <2>1, <2>2 DEF PageInv
<1>8. AwaitInv  BY DEF Init, AwaitInv
<1>9. CountInv
  <2>1. \A p \in Paths : Queued(p) = {} /\ Creating(p) = {} /\ Past(p) = {}
    BY DEF Init, Queued, Creating, Past
  <2>2. \A p \in Paths : created[p] = 0 /\ listed[p] = 0 /\ reported[p] = 0  BY DEF Init
  <2> QED BY <1>1, <2>1, <2>2 DEF CountInv
<1> QED BY <1>4, <1>5, <1>6, <1>7, <1>8, <1>9, TypeParts

ImportInv == TypeOK /\ PageInv /\ AwaitInv /\ CountInv

LEMMA ImportInvariant == Spec => []ImportInv
<1>1. Init => ImportInv  BY Base DEF ImportInv
<1>2. ImportInv /\ [Next]_vars => ImportInv'
  BY TypeStep, PageStep, AwaitStep, CountStep DEF ImportInv
<1> QED BY <1>1, <1>2, PTL DEF Spec

\* Every variable keeps its type, the counters of a loop never exceed the number
\* of files, and the list has exactly the files of the map, each once.
THEOREM TypeCorrect == Spec => []TypeOK
<1>1. ImportInv => TypeOK  BY DEF ImportInv
<1> QED BY <1>1, ImportInvariant, PTL

LEMMA SummaryFollows ==
  ASSUME ImportInv
  PROVE  SummaryExact
<1>1. ASSUME NEW v \in Visits, loop[v] # "idle" \/ done[v]
      PROVE  /\ progress[v].total = Cardinality(batch[v])
             /\ \A o \in Outcomes : progress[v][o] = Cardinality(With(v, o))
             /\ With(v, "processing") =
                  IF awaited[v] = None THEN {} ELSE {job[awaited[v]].path}
             /\ ProgressShown(v) => /\ shown[v].total = progress[v].total
                                    /\ \A o \in Outcomes : shown[v][o] <= progress[v][o]
             /\ SummaryShown(v) => shown[v] = progress[v]
             /\ done[v] => (With(v, "pending") # {} => abort[v])
  <2>1. FlagsAt(v) /\ StatusAt(v) /\ BatchAt(v) /\ TypeOK /\ AwaitInv
    BY DEF ImportInv, PageInv
  <2>2. With(v, "processing") = IF awaited[v] = None THEN {} ELSE {job[awaited[v]].path}
    <3>1. batch[v] \subseteq Paths /\ pending[v] \in Seq(Paths)  BY <2>1 DEF TypeOK
    <3>2. CASE awaited[v] = None
      BY <2>1, <3>1, <3>2 DEF With, StatusAt
    <3>3. CASE awaited[v] # None
      <4>1. pending[v] # <<>> /\ loop[v] # "idle" /\ IsInjective(pending[v])
        BY <2>1, <3>3 DEF FlagsAt
      <4>2. Head(pending[v]) \in ToSet(pending[v])
        BY <3>1, <4>1, TailElements
      <4>3. Head(pending[v]) \in batch[v] /\ fileMap[v][Head(pending[v])] = "processing"
        BY <2>1, <3>3, <4>1, <4>2 DEF StatusAt, BatchAt
      <4>4. With(v, "processing") = {Head(pending[v])}
        BY <2>1, <3>1, <4>3 DEF With, StatusAt
      <4>5. job[awaited[v]].path = Head(pending[v])  BY <2>1, <3>3 DEF AwaitInv
      <4> QED BY <3>3, <4>4, <4>5
    <3> QED BY <3>2, <3>3
  <2>3. done[v] => (With(v, "pending") # {} => abort[v])
    BY <2>1 DEF With, BatchAt
  <2> QED BY <1>1, <2>1, <2>2, <2>3 DEF BatchAt, ProgressShown, SummaryShown
<1> QED BY <1>1 DEF SummaryExact

\* The counters of every import are those of the files it was started for, and
\* the summary shows them, whichever requests fail, time out or are answered
\* after the loop has given them up.
THEOREM SummaryCorrect == Spec => []SummaryExact
<1>1. ImportInv => SummaryExact  BY SummaryFollows
<1> QED BY <1>1, ImportInvariant, PTL

\* No file has more resources than it was listed times, and none is reported as
\* done more often than it has resources.
THEOREM NoneLost == Spec => []NoneLostNoneRepeated
<1>1. ASSUME ImportInv PROVE NoneLostNoneRepeated
  BY <1>1, CountTypes DEF ImportInv, CountInv, NoneLostNoneRepeated
<1> QED BY <1>1, ImportInvariant, PTL
-----------------------------------------------------------------------------
(***************************************************************************)
(* Proofs about Inventory, which the import fills, for any resources,      *)
(* rules, patches, drafts and request threads.                             *)
(***************************************************************************)

\* A row has the tag of every rule that matches it.
Settled(row) == row.plugin \in Taggable => Added(row) = <<>>

SameTagging(row, mine) ==
  row.name = mine.name /\ row.plugin = mine.plugin /\ row.tags = mine.tags

\* A request that is done works on nothing, and a row a request works on is
\* missing only while a request that sends every column has still to save it.
WorkInv ==
  /\ \A t \in Requests : pc[t] = "idle" => DOMAIN copy[t] = {}
  /\ \A t \in Requests : \A r \in DOMAIN copy[t] :
       rows[r] = Absent => pc[t] = "save" /\ write[t][r] \in Row

\* Two requests work on a resource only after they were seen to overlap.
OverlapInv ==
  \A t, u \in Requests : t # u => DOMAIN copy[t] \cap DOMAIN copy[u] \subseteq mixed

\* Of a resource on which no other request works: what the tagger has still to
\* see is the request's own copy, and everything else that is stored is settled,
\* unless the tagger failed on it.
TaggerInv ==
  \A t \in Requests : \A r \in DOMAIN copy[t] \ mixed :
    /\ (pc[t] = "save" /\ r \in todo[t]) => write[t][r] = copy[t][r]
    /\ (pc[t] = "save" /\ r \notin todo[t]) =>
         DOMAIN write[t][r] \cap {"name", "plugin", "tags"} = {}
    /\ (pc[t] = "tag" /\ r \in todo[t]) => SameTagging(rows[r], copy[t][r])
    /\ ((pc[t] = "save" \/ r \notin todo[t]) /\ rows[r] # Absent /\ r \notin untagged) =>
         Settled(rows[r])

\* What a request will write includes what it was asked to.
NamedInv ==
  \A t \in Requests : (pc[t] = "save" /\ todo[t] # {}) =>
    \A r \in DOMAIN attrs[t] : \A c \in DOMAIN attrs[t][r] :
      c \in DOMAIN write[t][r] /\ write[t][r][c] = attrs[t][r][c]

InventoryInv ==
  /\ InventoryTypeOK /\ WorkInv /\ OverlapInv /\ TaggerInv /\ NamedInv /\ TagsMatchRules

-----------------------------------------------------------------------------
(* The tagger. *)

LEMMA SameOperators ==
  /\ \A s : ToSet(s) = ToSet(s)
  /\ \A s, T : Kept(s, T) = Kept(s, T)
BY DEF ToSet, ToSet, Kept, Kept, KeptOfPrefix, KeptOfPrefix

LEMMA NoElements ==
  ASSUME NEW X, NEW s \in Seq(X), ToSet(s) = {}
  PROVE  s = <<>>
<1> SUFFICES ASSUME s # <<>> PROVE FALSE  OBVIOUS
<1>1. 1 \in DOMAIN s  OBVIOUS
<1> QED BY <1>1 DEF ToSet

\* The tags of the rules that match depend on the name and the plugin only.
LEMMA NewTagsFacts ==
  ASSUME NEW row
  PROVE  /\ NewTags(row) \in Seq(TagNames)
         /\ \A other : (other.name = row.name /\ other.plugin = row.plugin) =>
                          NewTags(other) = NewTags(row)
<1> DEFINE Rule == [names : SUBSET Names, tag : TagNames, plugins : SUBSET PluginNames]
           Hit == {rule \in ToSet(Rules) : row.name \in rule.names /\ row.plugin \in rule.plugins}
           hits == Kept(Rules, Hit)
<1>1. Rules \in Seq(Rule)  BY RulesAssumption
<1>2. hits \in Seq(Rule)
  <2> HIDE DEF Rule, Hit
  <2> QED BY <1>1, KeptFacts
<1>3. NewTags(row) = [i \in DOMAIN hits |-> hits[i].tag]
  BY SameOperators DEF NewTags
<1>4. NewTags(row) \in Seq(TagNames)
  <2>1. Len(hits) \in Nat /\ DOMAIN hits = 1 .. Len(hits)
        /\ \A i \in 1 .. Len(hits) : hits[i] \in Rule
    <3> HIDE DEF hits, Rule
    <3> QED BY <1>2
  <2>2. \A i \in 1 .. Len(hits) : hits[i].tag \in TagNames  BY <2>1
  <2>3. [i \in DOMAIN hits |-> hits[i].tag] \in [1 .. Len(hits) -> TagNames]
    <3> HIDE DEF hits, Rule
    <3> QED BY <2>1, <2>2
  <2> HIDE DEF hits, Rule
  <2> QED BY <1>3, <2>1, <2>3
<1>5. ASSUME NEW other, other.name = row.name, other.plugin = row.plugin
      PROVE  NewTags(other) = NewTags(row)
  BY <1>5 DEF NewTags
<1> QED BY <1>4, <1>5

LEMMA AddedFacts ==
  ASSUME NEW row
  PROVE  /\ Added(row) \in Seq(TagNames)
         /\ ToSet(Added(row)) = ToSet(NewTags(row)) \cap (TagNames \ ToSet(row.tags))
         /\ Added(row) = <<>> <=> ToSet(NewTags(row)) \subseteq ToSet(row.tags)
<1> DEFINE tags == NewTags(row)
           Missing == TagNames \ ToSet(row.tags)
<1>1. tags \in Seq(TagNames)  BY NewTagsFacts
<1>2. Added(row) = Kept(tags, Missing)  BY SameOperators DEF Added
<1>3. Kept(tags, Missing) \in Seq(TagNames)
      /\ ToSet(Kept(tags, Missing)) = ToSet(tags) \cap Missing
  <2> HIDE DEF tags, Missing
  <2> QED BY <1>1, KeptFacts
<1>4. ToSet(tags) \subseteq TagNames
  <2> HIDE DEF tags
  <2> QED BY <1>1 DEF ToSet
<1>5. Added(row) = <<>> => ToSet(Added(row)) = {}  BY EmptyElements
<1>6. ToSet(Added(row)) = {} => Added(row) = <<>>  BY <1>2, <1>3, NoElements
<1> HIDE DEF tags
<1> QED BY <1>2, <1>3, <1>4, <1>5, <1>6 DEF tags

LEMMA SettledSame ==
  ASSUME NEW row, NEW mine, SameTagging(row, mine)
  PROVE  Settled(row) <=> Settled(mine)
<1>1. NewTags(row) = NewTags(mine)  BY NewTagsFacts DEF SameTagging
<1>2. Added(row) = Added(mine)  BY <1>1 DEF SameTagging, Added
<1> QED BY <1>2 DEF SameTagging, Settled

\* The tags the tagger adds settle a row.
LEMMA TaggedIsSettled ==
  ASSUME NEW row, NEW mine \in Row, SameTagging(row, mine),
         NEW tagged, tagged.name = row.name, tagged.plugin = row.plugin,
         tagged.tags = mine.tags \o Added(mine)
  PROVE  Settled(tagged)
<1> DEFINE added == Added(mine)
<1>1. mine.tags \in Seq(TagNames)  BY DEF Row, RowsNamed
<1>2. added \in Seq(TagNames)
      /\ ToSet(added) = ToSet(NewTags(mine)) \cap (TagNames \ ToSet(mine.tags))
  BY AddedFacts
<1>3. ToSet(mine.tags \o added) = ToSet(mine.tags) \cup ToSet(added)
  <2> HIDE DEF added
  <2> QED BY <1>1, <1>2, ConcatElements
<1>4. ToSet(NewTags(mine)) \subseteq TagNames
  <2>1. NewTags(mine) \in Seq(TagNames)  BY NewTagsFacts
  <2> QED BY <2>1 DEF ToSet
<1>5. NewTags(tagged) = NewTags(mine)  BY NewTagsFacts DEF SameTagging
<1>6. ToSet(NewTags(tagged)) \subseteq ToSet(tagged.tags)
  BY <1>2, <1>3, <1>4, <1>5
<1>7. Added(tagged) = <<>>  BY <1>6, AddedFacts
<1> QED BY <1>7 DEF Settled

-----------------------------------------------------------------------------
(* How a request begins. *)

LEMMA OverFacts ==
  ASSUME NEW p, Fits(p, Names), NEW row \in Row
  PROVE  /\ Over(p, row) \in Row
         /\ \A c \in DOMAIN p : Over(p, row)[c] = p[c]
         /\ \A c \in Columns \ DOMAIN p : Over(p, row)[c] = row[c]
<1>1. DOMAIN row = Columns  BY DEF Row, RowsNamed, Columns
<1>2. Over(p, row) \in Row  BY DEF Over, Fits, Row, RowsNamed, Columns
<1> QED BY <1>1, <1>2 DEF Over, Fits

LEMMA RowFits ==
  ASSUME NEW row \in Row
  PROVE  Fits(row, Names) /\ DOMAIN row = Columns
BY DEF Row, RowsNamed, Columns, Fits

LEMMA BusyFacts ==
  \A r : r \in Busy <=> \E t \in Requests : r \in DOMAIN copy[t]
BY DEF Busy

\* A request that has loaded rows as they are, and will write what the tagger
\* is to see or nothing the tagger looks at, keeps the invariant.
LEMMA BeginKeeps ==
  ASSUME InventoryInv, NEW t \in Requests,
         NEW ids \in SUBSET Resources, ids # {}, NEW named, NEW loaded, NEW columns, NEW tag,
         Accept(t, ids), Begin(t, named, loaded, columns, tag),
         DOMAIN named = ids, DOMAIN loaded = ids, DOMAIN columns = ids, tag \subseteq ids,
         \A r \in ids : loaded[r] \in Row /\ Fits(named[r], Names) /\ Fits(columns[r], Names),
         \A r \in ids : rows[r] = Absent => columns[r] \in Row /\ r \in tag,
         \A r \in tag : columns[r] = loaded[r],
         \A r \in ids \ tag : DOMAIN columns[r] \cap {"name", "plugin", "tags"} = {},
         \A r \in tag : \A c \in DOMAIN named[r] :
           c \in DOMAIN columns[r] /\ columns[r][c] = named[r][c],
         tag = {} \/ tag = ids
  PROVE  InventoryInv'
<1>1. /\ pc[t] = "idle" /\ started < MaxRequests /\ started' = started + 1
      /\ mixed' = mixed \cup (ids \cap Busy) /\ rows' = rows
      /\ pc' = [pc EXCEPT ![t] = "save"] /\ attrs' = [attrs EXCEPT ![t] = named]
      /\ copy' = [copy EXCEPT ![t] = loaded] /\ write' = [write EXCEPT ![t] = columns]
      /\ todo' = [todo EXCEPT ![t] = tag] /\ saved' = saved /\ untagged' = untagged
  BY DEF Accept, Begin
<1>2. InventoryTypeOK /\ DOMAIN copy[t] = {}  BY <1>1 DEF InventoryInv, WorkInv
<1>3. /\ pc'[t] = "save" /\ attrs'[t] = named /\ copy'[t] = loaded /\ write'[t] = columns
      /\ todo'[t] = tag
      /\ \A u \in Requests : u # t => /\ pc'[u] = pc[u] /\ attrs'[u] = attrs[u]
                                      /\ copy'[u] = copy[u] /\ write'[u] = write[u]
                                      /\ todo'[u] = todo[u]
  BY <1>1, <1>2 DEF InventoryTypeOK
<1>4. \A r : r \in Busy' <=> r \in Busy \/ r \in ids
  <2>1. \A r : r \in Busy' <=> \E u \in Requests : r \in DOMAIN copy'[u]  BY DEF Busy
  <2> QED BY <1>2, <1>3, <2>1, BusyFacts
<1>5. InventoryTypeOK'
  <2>1. started' \in 0 .. MaxRequests
    BY <1>1, <1>2, MaxRequestsAssumption DEF InventoryTypeOK
  <2>2. /\ pc' \in [Requests -> {"idle", "save", "tag"}]
        /\ todo' \in [Requests -> SUBSET Resources]
        /\ Requests = DOMAIN attrs' /\ Requests = DOMAIN copy' /\ Requests = DOMAIN write'
        /\ mixed' \subseteq Resources /\ untagged' \subseteq Resources
        /\ saved' \in [Requests -> SUBSET Resources]
    BY <1>1, <1>2 DEF InventoryTypeOK
  <2>3. ASSUME NEW u \in Requests
        PROVE /\ DOMAIN copy'[u] \subseteq Resources /\ todo'[u] \subseteq DOMAIN copy'[u]
              /\ DOMAIN attrs'[u] = DOMAIN copy'[u] /\ DOMAIN write'[u] = DOMAIN copy'[u]
              /\ \A r \in DOMAIN copy'[u] : /\ copy'[u][r] \in Row
                                            /\ Fits(attrs'[u][r], Names)
                                            /\ Fits(write'[u][r], Names)
    <3>1. CASE u = t  BY <1>3, <3>1
    <3>2. CASE u # t
      <4>1. /\ attrs'[u] = attrs[u] /\ copy'[u] = copy[u] /\ write'[u] = write[u]
            /\ todo'[u] = todo[u]
        BY <1>3, <3>2
      <4> QED BY <1>2, <4>1 DEF InventoryTypeOK
    <3> QED BY <3>1, <3>2
  <2>4. \A u \in Requests : \A r \in DOMAIN copy'[u] :
          Fits(attrs[u][r], Names)' /\ Fits(write[u][r], Names)'
    BY <2>3 DEF Fits, Columns
  <2>5. rows' \in [Resources -> Row \cup {Absent}]  BY <1>1, <1>2 DEF InventoryTypeOK
  <2> QED BY <2>1, <2>2, <2>3, <2>4, <2>5 DEF InventoryTypeOK
<1>6. WorkInv'
  BY <1>1, <1>3 DEF InventoryInv, WorkInv
<1>7. OverlapInv'
  <2> SUFFICES ASSUME NEW u \in Requests, NEW v \in Requests, u # v,
                      NEW r \in DOMAIN copy'[u] \cap DOMAIN copy'[v]
               PROVE  r \in mixed'
    BY DEF OverlapInv
  <2>1. CASE u # t /\ v # t  BY <1>1, <1>3, <2>1 DEF InventoryInv, OverlapInv
  <2>2. CASE u = t \/ v = t  BY <1>1, <1>3, <2>2, BusyFacts
  <2> QED BY <2>1, <2>2
<1>8. \A r \in ids \ mixed' : rows[r] # Absent /\ r \notin untagged => Settled(rows[r])
  <2> SUFFICES ASSUME NEW r \in ids \ mixed', rows[r] # Absent, r \notin untagged
               PROVE  Settled(rows[r])
    OBVIOUS
  <2>1. r \in Resources \ (Busy \cup mixed \cup untagged)  BY <1>1
  <2> QED BY <2>1 DEF InventoryInv, TagsMatchRules, Settled
<1>9. TaggerInv'
  <2> SUFFICES ASSUME NEW u \in Requests, NEW r \in DOMAIN copy'[u] \ mixed'
               PROVE  /\ (pc'[u] = "save" /\ r \in todo'[u]) => write'[u][r] = copy'[u][r]
                      /\ (pc'[u] = "save" /\ r \notin todo'[u]) =>
                           DOMAIN write'[u][r] \cap {"name", "plugin", "tags"} = {}
                      /\ (pc'[u] = "tag" /\ r \in todo'[u]) => SameTagging(rows[r], copy'[u][r])
                      /\ ((pc'[u] = "save" \/ r \notin todo'[u]) /\ rows[r] # Absent
                            /\ r \notin untagged) => Settled(rows[r])
    <3>1. \A r : Settled(rows[r])' <=> Settled(rows[r])
      BY <1>1 DEF Settled, Added, NewTags
    <3> QED BY <1>1, <3>1 DEF TaggerInv, SameTagging
  <2>1. CASE u = t  BY <1>3, <1>8, <2>1
  <2>2. CASE u # t
    <3>1. /\ copy'[u] = copy[u] /\ write'[u] = write[u] /\ todo'[u] = todo[u] /\ pc'[u] = pc[u]
          /\ r \in DOMAIN copy[u] \ mixed
      BY <1>1, <1>3, <2>2
    <3> QED BY <3>1 DEF InventoryInv, TaggerInv
  <2> QED BY <2>1, <2>2
<1>10. NamedInv'
  <2> SUFFICES ASSUME NEW u \in Requests, pc'[u] = "save", todo'[u] # {},
                      NEW r \in DOMAIN attrs'[u], NEW c \in DOMAIN attrs'[u][r]
               PROVE  c \in DOMAIN write'[u][r] /\ write'[u][r][c] = attrs'[u][r][c]
    BY DEF NamedInv
  <2>1. CASE u = t  BY <1>3, <2>1
  <2>2. CASE u # t  BY <1>3, <2>2 DEF InventoryInv, NamedInv
  <2> QED BY <2>1, <2>2
<1>11. TagsMatchRules'
  <2> SUFFICES ASSUME NEW r \in Resources \ (Busy' \cup mixed' \cup untagged), rows[r] # Absent
               PROVE  Settled(rows[r])
    BY <1>1 DEF TagsMatchRules, Settled, Added, NewTags
  <2>1. r \in Resources \ (Busy \cup mixed \cup untagged)  BY <1>1, <1>4
  <2> QED BY <2>1 DEF InventoryInv, TagsMatchRules, Settled
<1> QED BY <1>5, <1>6, <1>7, <1>9, <1>10, <1>11 DEF InventoryInv

LEMMA CreateKeeps ==
  ASSUME InventoryInv, NEW t \in Requests, NEW r \in Resources,
         NEW draft \in Drafts, Create(t, r, draft)
  PROVE  InventoryInv'
<1> DEFINE one == [x \in {r} |-> draft]
<1>1. Accept(t, {r}) /\ rows[r] = Absent /\ draft.name # Blank /\ Begin(t, one, one, one, {r})
  BY DEF Create, Valid
<1>2. draft \in Row
  <2>1. draft \in RowsNamed(Names \cup {Blank})
    BY DraftsAssumption
  <2> QED BY <1>1, <2>1 DEF Row, RowsNamed
<1>3. Fits(draft, Names)  BY <1>2, RowFits
<1>4. DOMAIN one = {r} /\ one[r] = draft  OBVIOUS
<1> HIDE DEF one
<1> QED BY <1>1, <1>2, <1>3, <1>4, BeginKeeps

LEMMA PresentRows ==
  ASSUME InventoryTypeOK, NEW r \in Resources, rows[r] # Absent
  PROVE  rows[r] \in Row
BY DEF InventoryTypeOK

LEMMA UpdateKeeps ==
  ASSUME InventoryInv, NEW t \in Requests,
         NEW ids \in SUBSET Resources, NEW f \in [ids -> Patches], Update(t, f)
  PROVE  InventoryInv'
<1> DEFINE set == [r \in ids |-> Over(f[r], rows[r])]
<1>1. /\ Accept(t, ids) /\ ids # {} /\ \A r \in ids : rows[r] # Absent
      /\ \A r \in ids : set[r].name # Blank
      /\ Begin(t, f, set, set, ids)
  <2>1. DOMAIN f = ids  OBVIOUS
  <2> QED BY <2>1 DEF Update, Exist, Valid
<1>2. ASSUME NEW r \in ids
      PROVE  /\ set[r] \in Row /\ Fits(f[r], Names) /\ Fits(set[r], Names)
             /\ \A c \in DOMAIN f[r] : c \in DOMAIN set[r] /\ set[r][c] = f[r][c]
  <2>1. rows[r] \in Row  BY <1>1, PresentRows DEF InventoryInv
  <2>2. Fits(f[r], Names \cup {Blank})  BY PatchesAssumption
  <2>3. "name" \in DOMAIN f[r] => f[r].name # Blank
    <3>1. "name" \in DOMAIN f[r] => Over(f[r], rows[r]).name = f[r].name  BY DEF Over
    <3> QED BY <1>1, <3>1
  <2>4. Fits(f[r], Names)  BY <2>2, <2>3 DEF Fits
  <2>5. /\ Over(f[r], rows[r]) \in Row
        /\ \A c \in DOMAIN f[r] : Over(f[r], rows[r])[c] = f[r][c]
    BY <2>1, <2>4, OverFacts
  <2>6. set[r] = Over(f[r], rows[r])  OBVIOUS
  <2>7. Fits(set[r], Names) /\ DOMAIN set[r] = Columns  BY <2>5, <2>6, RowFits
  <2>8. DOMAIN f[r] \subseteq Columns  BY <2>4 DEF Fits
  <2> QED BY <2>4, <2>5, <2>6, <2>7, <2>8
<1>3. DOMAIN f = ids /\ DOMAIN set = ids  OBVIOUS
<1> HIDE DEF set
<1> QED BY <1>1, <1>2, <1>3, BeginKeeps

\* A request that writes one column, or none, which the tagger does not see.
LEMMA ColumnKeeps ==
  ASSUME InventoryInv, NEW t \in Requests, NEW r \in Resources,
         NEW new, Fits(new, Names), DOMAIN new \cap {"name", "plugin", "tags"} = {},
         NEW changed, changed = new \/ changed = <<>>, Accept(t, {r}), rows[r] # Absent,
         Begin(t, [x \in {r} |-> new], [x \in {r} |-> rows[r]],
                 [x \in {r} |-> changed], {})
  PROVE  InventoryInv'
<1> DEFINE named == [x \in {r} |-> new]
           loaded == [x \in {r} |-> rows[r]]
           columns == [x \in {r} |-> changed]
<1>1. rows[r] \in Row  BY PresentRows DEF InventoryInv
<1>2. Fits(<<>>, Names) /\ DOMAIN <<>> = {}
  <2>1. DOMAIN <<>> = {}  OBVIOUS
  <2> QED BY <2>1 DEF Fits
<1>3. columns[r] = changed  OBVIOUS
<1>4. Fits(columns[r], Names) /\ DOMAIN columns[r] \cap {"name", "plugin", "tags"} = {}
  <2> HIDE DEF columns
  <2> QED BY <1>2, <1>3
<1>5. /\ DOMAIN named = {r} /\ DOMAIN loaded = {r} /\ DOMAIN columns = {r}
      /\ named[r] = new /\ loaded[r] = rows[r]
  OBVIOUS
<1>6. Begin(t, named, loaded, columns, {})  OBVIOUS
<1> HIDE DEF named, loaded, columns
<1>7. {r} \in SUBSET Resources /\ {r} # {} /\ {} \subseteq {r}  OBVIOUS
<1> QED BY <1>1, <1>4, <1>5, <1>6, <1>7, BeginKeeps

LEMMA DeleteKeeps ==
  ASSUME InventoryInv, NEW t \in Requests, NEW r \in Resources,
         Delete(t, r)
  PROVE  InventoryInv'
<1> DEFINE new == [active |-> FALSE]
<1>1. DOMAIN new = {"active"} /\ new.active = FALSE  OBVIOUS
<1> PICK changed : changed = IF rows[r].active THEN new ELSE <<>>  OBVIOUS
<1>2. /\ changed = new \/ changed = <<>>
      /\ Accept(t, {r}) /\ rows[r] # Absent
      /\ Begin(t, [x \in {r} |-> new], [x \in {r} |-> rows[r]], [x \in {r} |-> changed], {})
  BY DEF Delete, Exist
<1> HIDE DEF new
<1>3. Fits(new, Names)  BY <1>1 DEF Fits, Columns
<1>4. DOMAIN new \cap {"name", "plugin", "tags"} = {}  BY <1>1
<1> QED BY <1>2, <1>3, <1>4, ColumnKeeps

LEMMA ChecksumKeeps ==
  ASSUME InventoryInv, NEW t \in Requests, NEW r \in Resources,
         NEW sum \in Sums, Checksum(t, r, sum)
  PROVE  InventoryInv'
<1> DEFINE new == [checksum |-> sum]
<1>1. DOMAIN new = {"checksum"} /\ new.checksum = sum  OBVIOUS
<1> PICK changed : changed = IF rows[r].checksum # sum THEN new ELSE <<>>  OBVIOUS
<1>2. /\ changed = new \/ changed = <<>>
      /\ Accept(t, {r}) /\ rows[r] # Absent
      /\ Begin(t, [x \in {r} |-> new], [x \in {r} |-> rows[r]], [x \in {r} |-> changed], {})
  BY DEF Checksum, Exist
<1> HIDE DEF new
<1>3. Fits(new, Names)  BY <1>1 DEF Fits, Columns
<1>4. DOMAIN new \cap {"name", "plugin", "tags"} = {}  BY <1>1
<1> QED BY <1>2, <1>3, <1>4, ColumnKeeps

LEMMA BulkDeleteKeeps ==
  ASSUME InventoryInv, NEW t \in Requests, NEW ids \in SUBSET Resources,
         BulkDelete(t, ids)
  PROVE  InventoryInv'
<1>1. /\ InventoryTypeOK /\ started < MaxRequests /\ started' = started + 1
      /\ mixed' = mixed \cup (ids \cap Busy)
      /\ rows' = [r \in Resources |-> IF r \in ids /\ rows[r] # Absent
                    THEN [rows[r] EXCEPT !.active = FALSE] ELSE rows[r]]
      /\ UNCHANGED <<pc, attrs, copy, write, saved, todo, untagged>>
  BY DEF BulkDelete, Accept, InventoryInv
<1>2. Busy' = Busy  BY <1>1 DEF Busy
<1>3. ASSUME NEW r \in Resources
      PROVE  /\ rows'[r] = Absent <=> rows[r] = Absent
             /\ rows'[r] \in Row \cup {Absent}
             /\ Settled(rows[r]) => Settled(rows'[r])
             /\ r \notin ids => rows'[r] = rows[r]
  <2>1. CASE r \in ids /\ rows[r] # Absent
    <3>1. rows[r] \in Row  BY <1>1, <2>1, PresentRows
    <3>2. rows'[r] = [rows[r] EXCEPT !.active = FALSE]  BY <1>1, <2>1
    <3>3. rows'[r] \in Row /\ SameTagging(rows'[r], rows[r])
      BY <3>1, <3>2 DEF Row, RowsNamed, SameTagging
    <3>4. rows'[r] # Absent  BY <3>3, AbsentAssumption
    <3>5. Settled(rows'[r]) <=> Settled(rows[r])
      <4>1. PICK row : row = rows'[r]  OBVIOUS
      <4> QED BY <3>3, <4>1, SettledSame
    <3> QED BY <2>1, <3>3, <3>4, <3>5
  <2>2. CASE ~(r \in ids /\ rows[r] # Absent)
    <3>1. rows'[r] = rows[r]  BY <1>1, <2>2
    <3> QED BY <1>1, <3>1 DEF InventoryTypeOK
  <2> QED BY <2>1, <2>2
<1>4. InventoryTypeOK'
  <2>1. started' \in 0 .. MaxRequests
    BY <1>1, MaxRequestsAssumption DEF InventoryTypeOK
  <2>2. rows' \in [Resources -> Row \cup {Absent}]  BY <1>1, <1>3
  <2>3. mixed' \subseteq Resources  BY <1>1 DEF InventoryTypeOK
  <2>4. \A u \in Requests : \A r \in DOMAIN copy[u] :
          Fits(attrs[u][r], Names)' /\ Fits(write[u][r], Names)'
    BY <1>1 DEF InventoryTypeOK, Fits, Columns
  <2> QED BY <1>1, <2>1, <2>2, <2>3, <2>4 DEF InventoryTypeOK
<1>5. WorkInv'
  <2>1. \A u \in Requests : DOMAIN copy[u] \subseteq Resources  BY <1>1 DEF InventoryTypeOK
  <2> QED BY <1>1, <1>3, <2>1 DEF InventoryInv, WorkInv
<1>6. OverlapInv'  BY <1>1 DEF InventoryInv, OverlapInv
<1>7. NamedInv'  BY <1>1 DEF InventoryInv, NamedInv
<1>8. \A r : Settled(rows[r])' <=> Settled(rows'[r])  BY DEF Settled, Added, NewTags
<1>9. TaggerInv'
  <2>1. ASSUME NEW u \in Requests, NEW r \in DOMAIN copy[u] \ mixed'
        PROVE  r \in DOMAIN copy[u] \ mixed /\ r \in Resources /\ rows'[r] = rows[r]
    <3>1. r \in Busy /\ r \in Resources  BY BusyFacts, <1>1 DEF InventoryTypeOK
    <3> QED BY <1>1, <1>3, <2>1, <3>1
  <2>2. ASSUME NEW u \in Requests, NEW r \in DOMAIN copy[u] \ mixed'
        PROVE  /\ (pc[u] = "save" /\ r \in todo[u]) => write[u][r] = copy[u][r]
               /\ (pc[u] = "save" /\ r \notin todo[u]) =>
                    DOMAIN write[u][r] \cap {"name", "plugin", "tags"} = {}
               /\ (pc[u] = "tag" /\ r \in todo[u]) => SameTagging(rows'[r], copy[u][r])
               /\ ((pc[u] = "save" \/ r \notin todo[u]) /\ rows'[r] # Absent
                     /\ r \notin untagged) => Settled(rows'[r])
    BY <2>1, <2>2 DEF InventoryInv, TaggerInv
  <2>3. /\ pc' = pc /\ copy' = copy /\ write' = write /\ todo' = todo
        /\ untagged' = untagged
    BY <1>1
  <2> QED BY <1>8, <2>2, <2>3 DEF TaggerInv, SameTagging
<1>10. TagsMatchRules'
  <2> SUFFICES ASSUME NEW r \in Resources \ (Busy' \cup mixed' \cup untagged), rows'[r] # Absent
               PROVE  Settled(rows'[r])
    BY <1>1 DEF TagsMatchRules, Settled, Added, NewTags
  <2>1. r \in Resources \ (Busy \cup mixed \cup untagged)  BY <1>1, <1>2
  <2>2. Settled(rows[r])
    BY <1>3, <2>1 DEF InventoryInv, TagsMatchRules, Settled
  <2> QED BY <1>3, <2>2
<1> QED BY <1>4, <1>5, <1>6, <1>7, <1>9, <1>10 DEF InventoryInv

-----------------------------------------------------------------------------
(* How it ends. *)

\* A step to a request's tagger, or to its end, that leaves what the tagger has
\* still to see as the request's copies say and everything else settled, missing
\* or among the untagged, keeps the invariant.
LEMMA WriteKeeps ==
  ASSUME InventoryInv, NEW t \in Requests,
         NEW left \in SUBSET todo[t],
         IF left = {} THEN Answer(t)
         ELSE /\ pc' = [pc EXCEPT ![t] = "tag"] /\ todo' = [todo EXCEPT ![t] = left]
              /\ UNCHANGED <<attrs, copy, write>>,
         UNCHANGED <<started, mixed>>, saved' \in [Requests -> SUBSET Resources],
         untagged' \subseteq Resources,
         \A r \in Resources \ DOMAIN copy[t] :
           rows'[r] = rows[r] /\ (r \in untagged' <=> r \in untagged),
         rows' \in [Resources -> Row \cup {Absent}],
         \A r \in Resources : rows'[r] = Absent =>
           rows[r] = Absent /\ (left = {} \/ r \notin DOMAIN copy[t]),
         \A r \in DOMAIN copy[t] \ mixed :
           IF r \in left THEN SameTagging(rows'[r], copy[t][r])
           ELSE rows'[r] # Absent /\ r \notin untagged' => Settled(rows'[r])
  PROVE  InventoryInv'
<1>1. InventoryTypeOK /\ WorkInv /\ OverlapInv /\ TaggerInv /\ NamedInv /\ TagsMatchRules
  BY DEF InventoryInv
<1>2. \A u \in Requests : u # t => /\ pc'[u] = pc[u] /\ attrs'[u] = attrs[u]
                                   /\ copy'[u] = copy[u] /\ write'[u] = write[u]
                                   /\ todo'[u] = todo[u]
  BY <1>1 DEF InventoryTypeOK, Answer
<1>3. /\ pc' \in [Requests -> {"idle", "save", "tag"}]
      /\ todo' \in [Requests -> SUBSET Resources]
      /\ Requests = DOMAIN attrs' /\ Requests = DOMAIN copy' /\ Requests = DOMAIN write'
  <2>1. left \in SUBSET Resources  BY <1>1 DEF InventoryTypeOK
  <2>2. CASE left = {}
    <3>1. Answer(t)  BY <2>2
    <3>2. /\ pc \in [Requests -> {"idle", "save", "tag"}]
          /\ todo \in [Requests -> SUBSET Resources]
          /\ Requests = DOMAIN attrs /\ Requests = DOMAIN copy /\ Requests = DOMAIN write
      BY <1>1 DEF InventoryTypeOK
    <3> QED BY <3>1, <3>2 DEF Answer
  <2>3. CASE left # {}
    <3>1. /\ pc' = [pc EXCEPT ![t] = "tag"] /\ todo' = [todo EXCEPT ![t] = left]
          /\ attrs' = attrs /\ copy' = copy /\ write' = write
      BY <2>3
    <3>2. /\ pc \in [Requests -> {"idle", "save", "tag"}]
          /\ todo \in [Requests -> SUBSET Resources]
          /\ Requests = DOMAIN attrs /\ Requests = DOMAIN copy /\ Requests = DOMAIN write
      BY <1>1 DEF InventoryTypeOK
    <3> QED BY <2>1, <3>1, <3>2
  <2> QED BY <2>2, <2>3
<1>4. CASE left = {}
  <2>1. Answer(t)  BY <1>4
  <2> DEFINE e == <<>>
  <2>2. DOMAIN e = {}  OBVIOUS
  <2>3. pc'[t] = "idle" /\ attrs'[t] = e /\ copy'[t] = e /\ write'[t] = e /\ todo'[t] = {}
    BY <1>1, <2>1 DEF InventoryTypeOK, Answer
  <2> HIDE DEF e
  <2>4. /\ pc'[t] = "idle" /\ DOMAIN attrs'[t] = {} /\ DOMAIN copy'[t] = {}
        /\ DOMAIN write'[t] = {} /\ todo'[t] = {}
    BY <2>2, <2>3
  <2>5. InventoryTypeOK'
    <3>1. ASSUME NEW u \in Requests
          PROVE /\ DOMAIN copy'[u] \subseteq Resources /\ todo'[u] \subseteq DOMAIN copy'[u]
                /\ DOMAIN attrs'[u] = DOMAIN copy'[u] /\ DOMAIN write'[u] = DOMAIN copy'[u]
                /\ \A r \in DOMAIN copy'[u] : /\ copy'[u][r] \in Row
                                              /\ Fits(attrs[u][r], Names)'
                                              /\ Fits(write[u][r], Names)'
      <4>1. CASE u = t  BY <2>4, <4>1
      <4>2. CASE u # t  BY <1>1, <1>2, <4>2 DEF InventoryTypeOK, Fits, Columns
      <4> QED BY <4>1, <4>2
    <3> QED BY <1>1, <1>3, <3>1 DEF InventoryTypeOK
  <2>6. WorkInv'
    <3> SUFFICES ASSUME NEW u \in Requests, u # t,
                        NEW r \in DOMAIN copy'[u], rows'[r] = Absent
                 PROVE  pc'[u] = "save" /\ write'[u][r] \in Row
      BY <1>1, <1>2, <2>4 DEF WorkInv
    <3>1. copy'[u] = copy[u] /\ pc'[u] = pc[u] /\ write'[u] = write[u]  BY <1>2
    <3>2. r \in Resources /\ rows[r] = Absent  BY <1>1, <3>1 DEF InventoryTypeOK
    <3> QED BY <1>1, <3>1, <3>2 DEF WorkInv
  <2>7. OverlapInv'  BY <1>1, <1>2, <2>4 DEF OverlapInv
  <2>8. TaggerInv'
    <3>1. ASSUME NEW u \in Requests, NEW r \in DOMAIN copy'[u] \ mixed
          PROVE  /\ (pc'[u] = "save" /\ r \in todo'[u]) => write'[u][r] = copy'[u][r]
                 /\ (pc'[u] = "save" /\ r \notin todo'[u]) =>
                      DOMAIN write'[u][r] \cap {"name", "plugin", "tags"} = {}
                 /\ (pc'[u] = "tag" /\ r \in todo'[u]) => SameTagging(rows'[r], copy'[u][r])
                 /\ ((pc'[u] = "save" \/ r \notin todo'[u]) /\ rows'[r] # Absent
                       /\ r \notin untagged') => Settled(rows'[r])
      <4>1. u # t  BY <2>4, <3>1
      <4>2. /\ copy'[u] = copy[u] /\ pc'[u] = pc[u] /\ write'[u] = write[u]
            /\ todo'[u] = todo[u]
        BY <1>2, <4>1
      <4>3. r \notin DOMAIN copy[t]  BY <1>1, <4>1, <4>2 DEF OverlapInv
      <4>4. rows'[r] = rows[r] /\ (r \in untagged' <=> r \in untagged)
        BY <1>1, <4>2, <4>3 DEF InventoryTypeOK
      <4>5. /\ (pc[u] = "save" /\ r \in todo[u]) => write[u][r] = copy[u][r]
            /\ (pc[u] = "save" /\ r \notin todo[u]) =>
                 DOMAIN write[u][r] \cap {"name", "plugin", "tags"} = {}
            /\ (pc[u] = "tag" /\ r \in todo[u]) => SameTagging(rows[r], copy[u][r])
            /\ ((pc[u] = "save" \/ r \notin todo[u]) /\ rows[r] # Absent
                  /\ r \notin untagged) => Settled(rows[r])
        BY <1>1, <4>2 DEF TaggerInv
      <4> QED BY <4>2, <4>4, <4>5
    <3>2. \A r : Settled(rows[r])' <=> Settled(rows'[r])  BY DEF Settled, Added, NewTags
    <3> QED BY <3>1, <3>2 DEF TaggerInv, SameTagging
  <2>9. NamedInv'  BY <1>1, <1>2, <2>4 DEF NamedInv
  <2>10. TagsMatchRules'
    <3> SUFFICES ASSUME NEW r \in Resources \ (Busy' \cup mixed \cup untagged'),
                        rows'[r] # Absent
                 PROVE  Settled(rows'[r])
      BY DEF TagsMatchRules, Settled, Added, NewTags
    <3>1. CASE r \in DOMAIN copy[t]  BY <1>4, <3>1
    <3>2. CASE r \notin DOMAIN copy[t]
      <4>1. \A u \in Requests : r \notin DOMAIN copy'[u]  BY DEF Busy
      <4>2. \A u \in Requests : r \notin DOMAIN copy[u]  BY <1>2, <3>2, <4>1
      <4>3. r \notin Busy /\ r \notin untagged /\ rows'[r] = rows[r]
        BY <3>2, <4>2, BusyFacts
      <4> QED BY <1>1, <4>3 DEF TagsMatchRules, Settled
    <3> QED BY <3>1, <3>2
  <2> QED BY <2>5, <2>6, <2>7, <2>8, <2>9, <2>10 DEF InventoryInv
<1>5. CASE left # {}
  <2>1. /\ pc' = [pc EXCEPT ![t] = "tag"] /\ todo' = [todo EXCEPT ![t] = left]
        /\ UNCHANGED <<attrs, copy, write>>
    BY <1>5
  <2>2. pc'[t] = "tag" /\ todo'[t] = left  BY <1>1, <2>1 DEF InventoryTypeOK
  <2>3. InventoryTypeOK'
    <3>1. ASSUME NEW u \in Requests
          PROVE /\ DOMAIN copy'[u] \subseteq Resources /\ todo'[u] \subseteq DOMAIN copy'[u]
                /\ DOMAIN attrs'[u] = DOMAIN copy'[u] /\ DOMAIN write'[u] = DOMAIN copy'[u]
                /\ \A r \in DOMAIN copy'[u] : /\ copy'[u][r] \in Row
                                              /\ Fits(attrs[u][r], Names)'
                                              /\ Fits(write[u][r], Names)'
      <4>1. todo'[u] \subseteq todo[u]  BY <1>2, <2>2
      <4> QED BY <1>1, <2>1, <4>1 DEF InventoryTypeOK, Fits, Columns
    <3> QED BY <1>1, <1>3, <3>1 DEF InventoryTypeOK
  <2>4. WorkInv'
    <3>1. DOMAIN copy[t] # {}  BY <1>1, <1>5 DEF InventoryTypeOK
    <3>2. ASSUME NEW u \in Requests, NEW r \in DOMAIN copy[u], rows'[r] = Absent
          PROVE  pc'[u] = "save" /\ write[u][r] \in Row
      <4>1. r \in Resources  BY <1>1, <3>2 DEF InventoryTypeOK
      <4>2. rows[r] = Absent /\ u # t  BY <1>5, <3>2, <4>1
      <4> QED BY <1>1, <1>2, <3>2, <4>2 DEF WorkInv
    <3>3. \A u \in Requests : pc'[u] = "idle" => DOMAIN copy[u] = {}
      BY <1>1, <1>2, <2>2 DEF WorkInv
    <3> QED BY <2>1, <3>2, <3>3 DEF WorkInv
  <2>5. OverlapInv'  BY <1>1, <2>1 DEF OverlapInv
  <2>6. TaggerInv'
    <3>1. ASSUME NEW u \in Requests, NEW r \in DOMAIN copy[u] \ mixed
          PROVE  /\ (pc'[u] = "save" /\ r \in todo'[u]) => write[u][r] = copy[u][r]
                 /\ (pc'[u] = "save" /\ r \notin todo'[u]) =>
                      DOMAIN write[u][r] \cap {"name", "plugin", "tags"} = {}
                 /\ (pc'[u] = "tag" /\ r \in todo'[u]) => SameTagging(rows'[r], copy[u][r])
                 /\ ((pc'[u] = "save" \/ r \notin todo'[u]) /\ rows'[r] # Absent
                       /\ r \notin untagged') => Settled(rows'[r])
      <4>1. CASE u = t  BY <2>2, <4>1
      <4>2. CASE u # t
        <5>1. pc'[u] = pc[u] /\ todo'[u] = todo[u]  BY <1>2, <4>2
        <5>2. r \notin DOMAIN copy[t]  BY <1>1, <4>2 DEF OverlapInv
        <5>3. rows'[r] = rows[r] /\ (r \in untagged' <=> r \in untagged)
          BY <1>1, <5>2 DEF InventoryTypeOK
        <5>4. /\ (pc[u] = "save" /\ r \in todo[u]) => write[u][r] = copy[u][r]
              /\ (pc[u] = "save" /\ r \notin todo[u]) =>
                   DOMAIN write[u][r] \cap {"name", "plugin", "tags"} = {}
              /\ (pc[u] = "tag" /\ r \in todo[u]) => SameTagging(rows[r], copy[u][r])
              /\ ((pc[u] = "save" \/ r \notin todo[u]) /\ rows[r] # Absent
                    /\ r \notin untagged) => Settled(rows[r])
          BY <1>1 DEF TaggerInv
        <5> QED BY <5>1, <5>3, <5>4
      <4> QED BY <4>1, <4>2
    <3>2. \A r : Settled(rows[r])' <=> Settled(rows'[r])  BY DEF Settled, Added, NewTags
    <3> QED BY <2>1, <3>1, <3>2 DEF TaggerInv, SameTagging
  <2>7. NamedInv'  BY <1>1, <1>2, <2>1, <2>2 DEF NamedInv
  <2>8. TagsMatchRules'
    <3> SUFFICES ASSUME NEW r \in Resources \ (Busy' \cup mixed \cup untagged'),
                        rows'[r] # Absent
                 PROVE  Settled(rows'[r])
      BY DEF TagsMatchRules, Settled, Added, NewTags
    <3>1. Busy' = Busy  BY <2>1 DEF Busy
    <3>2. r \notin DOMAIN copy[t]  BY <3>1, BusyFacts
    <3>3. rows'[r] = rows[r] /\ r \notin untagged  BY <3>2
    <3> QED BY <1>1, <3>1, <3>3 DEF TagsMatchRules, Settled
  <2> QED BY <2>3, <2>4, <2>5, <2>6, <2>7, <2>8 DEF InventoryInv
<1> QED BY <1>4, <1>5

\* What a save leaves of a row: it has every column that was to be written.
LEMMA StoredFacts ==
  ASSUME InventoryInv, NEW t \in Requests, pc[t] = "save",
         NEW r \in DOMAIN copy[t]
  PROVE  /\ Stored(t, r) \in Row
         /\ \A c \in DOMAIN write[t][r] : Stored(t, r)[c] = write[t][r][c]
         /\ r \notin mixed =>
              IF r \in todo[t] THEN SameTagging(Stored(t, r), copy[t][r])
              ELSE r \notin untagged => Settled(Stored(t, r))
<1>1. /\ r \in Resources /\ r \in DOMAIN write[t] /\ Fits(write[t][r], Names)
      /\ rows[r] = Absent \/ rows[r] \in Row
  BY DEF InventoryInv, InventoryTypeOK
<1>2. rows[r] = Absent => write[t][r] \in Row  BY DEF InventoryInv, WorkInv
<1>3. Stored(t, r) = IF rows[r] = Absent THEN write[t][r] ELSE Over(write[t][r], rows[r])
  BY DEF Stored
<1>4. /\ Stored(t, r) \in Row
      /\ \A c \in DOMAIN write[t][r] : Stored(t, r)[c] = write[t][r][c]
      /\ rows[r] # Absent => \A c \in Columns \ DOMAIN write[t][r] :
                               Stored(t, r)[c] = rows[r][c]
  <2>1. CASE rows[r] = Absent  BY <1>2, <1>3, <2>1
  <2>2. CASE rows[r] # Absent
    <3>1. rows[r] \in Row  BY <1>1, <2>2
    <3>2. Stored(t, r) = Over(write[t][r], rows[r])  BY <1>3, <2>2
    <3> QED BY <1>1, <3>1, <3>2, OverFacts
  <2> QED BY <2>1, <2>2
<1>5. ASSUME r \notin mixed, r \in todo[t]
      PROVE  SameTagging(Stored(t, r), copy[t][r])
  <2>1. write[t][r] = copy[t][r] /\ copy[t][r] \in Row
    BY <1>5 DEF InventoryInv, TaggerInv, InventoryTypeOK
  <2>2. DOMAIN write[t][r] = Columns  BY <2>1, RowFits
  <2>3. {"name", "plugin", "tags"} \subseteq DOMAIN write[t][r]  BY <2>2 DEF Columns
  <2> QED BY <1>4, <2>1, <2>3 DEF SameTagging
<1>6. ASSUME r \notin mixed, r \notin todo[t], r \notin untagged
      PROVE  Settled(Stored(t, r))
  <2>1. DOMAIN write[t][r] \cap {"name", "plugin", "tags"} = {}
    BY <1>6 DEF InventoryInv, TaggerInv
  <2>2. rows[r] # Absent
    <3> SUFFICES ASSUME rows[r] = Absent PROVE FALSE  OBVIOUS
    <3>1. DOMAIN write[t][r] = Columns  BY <1>2, RowFits
    <3> QED BY <2>1, <3>1 DEF Columns
  <2>5. Settled(rows[r])  BY <1>6, <2>2 DEF InventoryInv, TaggerInv
  <2>3. SameTagging(Stored(t, r), rows[r])
    BY <1>4, <2>1, <2>2 DEF SameTagging, Columns
  <2>4. PICK row : row = Stored(t, r)  OBVIOUS
  <2> QED BY <2>3, <2>4, <2>5, SettledSame
<1> QED BY <1>4, <1>5, <1>6

\* What is committed of a request's rows, and what its columns are.
LEMMA CommitFacts ==
  ASSUME InventoryInv, NEW t \in Requests, Commit(t)
  PROVE  /\ pc[t] = "save" /\ DOMAIN copy[t] \subseteq Resources
         /\ rows' = [r \in Resources |-> IF r \in DOMAIN copy[t] THEN Stored(t, r) ELSE rows[r]]
<1>1. DOMAIN write[t] = DOMAIN copy[t] /\ DOMAIN copy[t] \subseteq Resources
  BY DEF InventoryInv, InventoryTypeOK
<1> QED BY <1>1 DEF Commit

LEMMA CommitKeeps ==
  ASSUME InventoryInv, NEW t \in Requests, Commit(t)
  PROVE  InventoryInv'
<1> DEFINE left == todo[t]
<1>1. /\ UNCHANGED <<started, mixed, untagged>> /\ saved' = [saved EXCEPT ![t] = {}]
      /\ IF left = {} THEN Answer(t)
         ELSE pc' = [pc EXCEPT ![t] = "tag"] /\ UNCHANGED <<attrs, copy, write, todo>>
  BY DEF Commit
<1>2. /\ todo' = [todo EXCEPT ![t] = left] \/ left = {}
      /\ saved' \in [Requests -> SUBSET Resources] /\ untagged' \subseteq Resources
      /\ rows \in [Resources -> Row \cup {Absent}]
  BY <1>1 DEF InventoryInv, InventoryTypeOK
<1>3. /\ pc[t] = "save" /\ DOMAIN copy[t] \subseteq Resources
      /\ rows' = [r \in Resources |-> IF r \in DOMAIN copy[t] THEN Stored(t, r) ELSE rows[r]]
  BY CommitFacts
<1>4. ASSUME NEW r \in DOMAIN copy[t]
      PROVE  /\ rows'[r] \in Row /\ rows'[r] # Absent
             /\ r \notin mixed => IF r \in left THEN SameTagging(rows'[r], copy[t][r])
                                  ELSE r \notin untagged' => Settled(rows'[r])
  <2>1. rows'[r] = Stored(t, r)  BY <1>3
  <2>2. /\ Stored(t, r) \in Row
        /\ r \notin mixed => IF r \in todo[t] THEN SameTagging(Stored(t, r), copy[t][r])
                             ELSE r \notin untagged => Settled(Stored(t, r))
    BY <1>3, StoredFacts
  <2> QED BY <1>1, <2>1, <2>2, AbsentAssumption
<1>5. rows' \in [Resources -> Row \cup {Absent}]  BY <1>2, <1>3, <1>4
<1>6. \A r \in Resources \ DOMAIN copy[t] :
        rows'[r] = rows[r] /\ (r \in untagged' <=> r \in untagged)
  BY <1>1, <1>3
<1>7. \A r \in Resources : rows'[r] = Absent => rows[r] = Absent /\ r \notin DOMAIN copy[t]
  BY <1>4, <1>6
<1>8. PICK rest \in SUBSET todo[t] : rest = left  OBVIOUS
<1> HIDE DEF left
<1> QED BY <1>1, <1>2, <1>4, <1>5, <1>6, <1>7, <1>8, WriteKeeps

\* A request that ends with an error leaves the rows as they are.
LEMMA FailKeeps ==
  ASSUME InventoryInv, NEW t \in Requests, SaveFails(t) \/ TaggersFail(t)
  PROVE  InventoryInv'
<1>1. /\ InventoryTypeOK /\ TaggerInv /\ Answer(t) /\ UNCHANGED <<rows, started, mixed>>
      /\ saved' = saved \/ saved' = [saved EXCEPT ![t] = {}]
      /\ \/ pc[t] = "save" /\ untagged' = untagged
         \/ pc[t] = "tag" /\ untagged' = untagged \cup todo[t]
  BY DEF InventoryInv, SaveFails, TaggersFail
<1>2. /\ saved' \in [Requests -> SUBSET Resources] /\ untagged' \subseteq Resources
      /\ \A r \in Resources \ DOMAIN copy[t] : r \in untagged' <=> r \in untagged
      /\ rows' \in [Resources -> Row \cup {Absent}]
  BY <1>1 DEF InventoryTypeOK
<1>3. \A r \in DOMAIN copy[t] \ mixed :
        rows'[r] # Absent /\ r \notin untagged' => Settled(rows'[r])
  BY <1>1 DEF TaggerInv
<1>4. PICK left \in SUBSET todo[t] : left = {}  OBVIOUS
<1> QED BY <1>1, <1>2, <1>3, <1>4, WriteKeeps

LEMMA RunTaggersKeeps ==
  ASSUME InventoryInv, NEW t \in Requests, NEW r \in Resources,
         RunTaggers(t, r)
  PROVE  InventoryInv'
<1> DEFINE mine == copy[t][r]
           tagging == mine.plugin \in Taggable /\ Added(mine) # <<>>
           tagged == [rows[r] EXCEPT !.tags = mine.tags \o Added(mine)]
<1>1. /\ pc[t] = "tag" /\ r \in todo[t] /\ UNCHANGED <<saved, started, mixed>>
      /\ untagged' = untagged \ {r}
      /\ rows' = IF tagging THEN [rows EXCEPT ![r] = tagged] ELSE rows
      /\ IF todo[t] = {r} THEN Answer(t)
         ELSE todo' = [todo EXCEPT ![t] = todo[t] \ {r}] /\ UNCHANGED <<pc, attrs, copy, write>>
  BY DEF RunTaggers
<1>2. /\ InventoryTypeOK /\ r \in DOMAIN copy[t] /\ mine \in Row
      /\ \A x \in DOMAIN copy[t] : rows[x] \in Row
  <2>1. InventoryTypeOK /\ r \in DOMAIN copy[t] /\ mine \in Row
    BY <1>1 DEF InventoryInv, InventoryTypeOK
  <2>2. \A x \in DOMAIN copy[t] : rows[x] # Absent  BY <1>1 DEF InventoryInv, WorkInv
  <2> QED BY <2>1, <2>2 DEF InventoryTypeOK
<1>3. tagged \in Row /\ tagged.name = rows[r].name /\ tagged.plugin = rows[r].plugin
      /\ tagged.tags = mine.tags \o Added(mine)
  <2>1. Added(mine) \in Seq(TagNames)  BY AddedFacts
  <2>2. mine.tags \in Seq(TagNames)  BY <1>2 DEF Row, RowsNamed
  <2>3. mine.tags \o Added(mine) \in Seq(TagNames)
    <3> HIDE DEF mine
    <3> QED BY <2>1, <2>2
  <2>4. rows[r] \in Row  BY <1>2
  <2> HIDE DEF mine
  <2> QED BY <2>3, <2>4 DEF Row, RowsNamed
<1>4. r \notin mixed => SameTagging(rows[r], mine)
  BY <1>1, <1>2 DEF InventoryInv, TaggerInv
<1>5. r \notin mixed => Settled(rows'[r])
  <2> SUFFICES ASSUME r \notin mixed PROVE Settled(rows'[r])  OBVIOUS
  <2>1. CASE tagging
    <3>1. rows'[r] = tagged  BY <1>1, <1>2, <2>1 DEF InventoryTypeOK
    <3>2. Settled(tagged)
      <4> HIDE DEF mine, tagged
      <4>1. PICK row : row = rows[r]  OBVIOUS
      <4> QED BY <1>2, <1>3, <1>4, <4>1, TaggedIsSettled
    <3> QED BY <3>1, <3>2
  <2>2. CASE ~tagging
    <3>1. rows' = rows  BY <1>1, <2>2
    <3>2. Settled(mine)  BY <2>2 DEF Settled
    <3>3. Settled(rows[r])
      <4> HIDE DEF mine
      <4>1. PICK row : row = rows[r]  OBVIOUS
      <4> QED BY <1>4, <3>2, <4>1, SettledSame
    <3> QED BY <3>1, <3>3
  <2> QED BY <2>1, <2>2
<1>6. /\ rows' \in [Resources -> Row \cup {Absent}]
      /\ rows'[r] \in Row /\ \A x \in Resources : x # r => rows'[x] = rows[x]
  <2> HIDE DEF tagging
  <2>1. CASE tagging
    <3>1. rows' = [rows EXCEPT ![r] = tagged] /\ rows \in [Resources -> Row \cup {Absent}]
      BY <1>1, <1>2, <2>1 DEF InventoryTypeOK
    <3> HIDE DEF tagged
    <3> QED BY <1>3, <3>1
  <2>2. CASE ~tagging
    <3>1. rows' = rows /\ rows \in [Resources -> Row \cup {Absent}]
      BY <1>1, <1>2, <2>2 DEF InventoryTypeOK
    <3> QED BY <1>2, <3>1
  <2> QED BY <2>1, <2>2
<1>7. \A x \in DOMAIN copy[t] \ mixed : x # r =>
        IF x \in todo[t] THEN SameTagging(rows'[x], copy[t][x])
        ELSE rows'[x] # Absent /\ x \notin untagged => Settled(rows'[x])
  <2>1. DOMAIN copy[t] \subseteq Resources  BY <1>2 DEF InventoryTypeOK
  <2> QED BY <1>1, <1>6, <2>1 DEF InventoryInv, TaggerInv
<1> HIDE DEF mine, tagging, tagged
<1>8. PICK left \in SUBSET todo[t] : left = todo[t] \ {r}  OBVIOUS
<1>9. pc' = [pc EXCEPT ![t] = "tag"] \/ left = {}
  BY <1>1, <1>2, <1>8 DEF InventoryTypeOK
<1>10. IF left = {} THEN Answer(t)
       ELSE /\ pc' = [pc EXCEPT ![t] = "tag"] /\ todo' = [todo EXCEPT ![t] = left]
            /\ UNCHANGED <<attrs, copy, write>>
  BY <1>1, <1>8, <1>9
<1>11. \A x \in Resources : rows'[x] = Absent => rows[x] = Absent /\ x \notin DOMAIN copy[t]
  BY <1>2, <1>6, AbsentAssumption
<1>12. \A x \in DOMAIN copy[t] \ mixed :
         IF x \in left THEN SameTagging(rows'[x], copy[t][x])
         ELSE rows'[x] # Absent /\ x \notin untagged' => Settled(rows'[x])
  BY <1>1, <1>5, <1>7, <1>8
<1>13. /\ saved' \in [Requests -> SUBSET Resources] /\ untagged' \subseteq Resources
       /\ \A x \in Resources \ DOMAIN copy[t] :
            rows'[x] = rows[x] /\ (x \in untagged' <=> x \in untagged)
  BY <1>1, <1>2, <1>6 DEF InventoryTypeOK
<1> QED BY <1>1, <1>2, <1>6, <1>10, <1>11, <1>12, <1>13, WriteKeeps

-----------------------------------------------------------------------------
(* Theorems. *)

LEMMA InventoryBegins ==
  ASSUME InventoryInit
  PROVE  InventoryInv
<1> DEFINE e == <<>>
<1>1. DOMAIN e = {}  OBVIOUS
<1>2. /\ rows = [r \in Resources |-> Absent] /\ pc = [t \in Requests |-> "idle"]
      /\ attrs = [t \in Requests |-> e] /\ copy = [t \in Requests |-> e]
      /\ write = [t \in Requests |-> e] /\ todo = [t \in Requests |-> {}]
      /\ saved = [t \in Requests |-> {}] /\ started = 0 /\ mixed = {} /\ untagged = {}
  BY DEF InventoryInit
<1> HIDE DEF e
<1>3. InventoryTypeOK
  BY <1>1, <1>2, MaxRequestsAssumption DEF InventoryTypeOK
<1>4. WorkInv /\ OverlapInv /\ TaggerInv /\ NamedInv
  BY <1>1, <1>2 DEF WorkInv, OverlapInv, TaggerInv, NamedInv
<1>5. TagsMatchRules  BY <1>2 DEF TagsMatchRules
<1> QED BY <1>3, <1>4, <1>5 DEF InventoryInv

\* A save inside a transaction changes nothing the invariant is about.
LEMMA InventoryStutters ==
  ASSUME InventoryInv,
         UNCHANGED inventoryVars \/ \E t \in Requests, r \in Resources : SaveRow(t, r)
  PROVE  InventoryInv'
<1>1. /\ UNCHANGED <<rows, pc, attrs, copy, write, todo, started, mixed, untagged>>
      /\ saved' \in [Requests -> SUBSET Resources]
  BY DEF inventoryVars, SaveRow, InventoryInv, InventoryTypeOK
<1>2. InventoryTypeOK'
  <2>1. InventoryTypeOK  BY DEF InventoryInv
  <2>2. \A t \in Requests : \A r \in DOMAIN copy[t] :
          Fits(attrs[t][r], Names)' /\ Fits(write[t][r], Names)'
    BY <1>1, <2>1 DEF InventoryTypeOK, Fits, Columns
  <2> QED BY <1>1, <2>1, <2>2 DEF InventoryTypeOK
<1>3. \A r : Settled(rows[r])' <=> Settled(rows[r])
  BY <1>1 DEF Settled, Added, NewTags
<1>4. TaggerInv'  BY <1>1, <1>3 DEF InventoryInv, TaggerInv, SameTagging
<1>5. WorkInv' /\ OverlapInv' /\ NamedInv'
  BY <1>1 DEF InventoryInv, WorkInv, OverlapInv, NamedInv
<1>6. Busy' = Busy  BY <1>1 DEF Busy
<1>7. TagsMatchRules'
  BY <1>1, <1>6 DEF InventoryInv, TagsMatchRules, Added, NewTags
<1> QED BY <1>2, <1>4, <1>5, <1>7 DEF InventoryInv

LEMMA InventoryInvariant == InventorySpec => []InventoryInv
<1>1. InventoryInit => InventoryInv  BY InventoryBegins
<1>2. InventoryInv /\ [InventoryNext]_inventoryVars => InventoryInv'
  BY CreateKeeps, UpdateKeeps, DeleteKeeps, ChecksumKeeps, BulkDeleteKeeps, CommitKeeps,
     FailKeeps, RunTaggersKeeps, InventoryStutters DEF InventoryNext
<1> QED BY <1>1, <1>2, PTL DEF InventorySpec

\* The table holds rows that pass validation, whatever copies of them requests
\* hold, and a request's copies, columns and tagger's list match.
THEOREM InventoryTypes == InventorySpec => []InventoryTypeOK
<1>1. InventoryInv => InventoryTypeOK  BY DEF InventoryInv
<1> QED BY <1>1, InventoryInvariant, PTL

\* Every save runs the tagger on what it saved: a resource no request is working
\* on has the tag of every rule that matches it, unless requests for it have
\* overlapped, however many rules and resources there are.
THEOREM TagsFollowRules == InventorySpec => []TagsMatchRules
<1>1. InventoryInv => TagsMatchRules  BY DEF InventoryInv
<1> QED BY <1>1, InventoryInvariant, PTL

-----------------------------------------------------------------------------
(* The refinement of Catalogue. *)

\* What a save will do to the resources on which no other request works: enter
\* a new row, mark one inactive or leave it as it is, or amend them all.
Amends(p, row) ==
  \E a \in Patches \cup {[checksum |-> s] : s \in Sums} : p = a \/ p = Over(a, row)

Enters(t) == \E r \in Resources : /\ DOMAIN copy[t] = {r} /\ write[t][r] \in Drafts
                                  /\ r \notin mixed => rows[r] = Absent

Withdraws(t) == \E r \in Resources : /\ DOMAIN copy[t] = {r}
                                     /\ write[t][r] = [active |-> FALSE] \/ write[t][r] = <<>>
                                     /\ r \notin mixed => rows[r] # Absent

AmendsAll(t) == \A r \in DOMAIN copy[t] \ mixed :
                  rows[r] # Absent /\ Amends(write[t][r], rows[r])

PlanInv == \A t \in Requests : pc[t] = "save" => Enters(t) \/ Withdraws(t) \/ AmendsAll(t)

\* A request that is still to save finds its rows as they were, unless another
\* request has overlapped it.
LEMMA OthersKeepOut ==
  ASSUME InventoryInv, [InventoryNext]_inventoryVars, NEW t \in Requests,
         pc[t] = "save", pc'[t] = "save"
  PROVE  /\ copy'[t] = copy[t] /\ write'[t] = write[t] /\ mixed \subseteq mixed'
         /\ \A r \in DOMAIN copy[t] \ mixed' : rows'[r] = rows[r]
<1> DEFINE Goal == /\ copy'[t] = copy[t] /\ write'[t] = write[t] /\ mixed \subseteq mixed'
                   /\ \A r \in DOMAIN copy[t] \ mixed' : rows'[r] = rows[r]
<1>1. /\ InventoryTypeOK /\ OverlapInv /\ pc \in [Requests -> {"idle", "save", "tag"}]
      /\ Requests = DOMAIN copy /\ Requests = DOMAIN write
  BY DEF InventoryInv, InventoryTypeOK
<1>2. ASSUME NEW u \in Requests, NEW ids, NEW named, NEW loaded, NEW columns, NEW tag,
             Accept(u, ids), Begin(u, named, loaded, columns, tag)
      PROVE  Goal
  <2>1. /\ pc[u] = "idle" /\ copy' = [copy EXCEPT ![u] = loaded]
        /\ write' = [write EXCEPT ![u] = columns] /\ rows' = rows /\ mixed \subseteq mixed'
    BY <1>2 DEF Accept, Begin
  <2>2. u # t  BY <2>1
  <2> QED BY <1>1, <2>1, <2>2
<1>3. ASSUME NEW u \in Requests, Commit(u) PROVE Goal
  <2>1. pc' = [pc EXCEPT ![u] = "idle"] \/ pc' = [pc EXCEPT ![u] = "tag"]
    BY <1>3 DEF Commit, Answer
  <2>2. u # t  BY <1>1, <2>1
  <2>3. copy'[t] = copy[t] /\ write'[t] = write[t] /\ mixed' = mixed
    BY <1>1, <1>3, <2>2 DEF Commit, Answer
  <2>4. ASSUME NEW r \in DOMAIN copy[t] \ mixed PROVE rows'[r] = rows[r]
    <3>1. r \in Resources /\ r \notin DOMAIN copy[u]
      BY <1>1, <2>2 DEF InventoryTypeOK, OverlapInv
    <3> QED BY <1>3, <3>1, CommitFacts
  <2> QED BY <2>3, <2>4
<1>4. ASSUME NEW u \in Requests, NEW r \in Resources, RunTaggers(u, r) PROVE Goal
  <2>1. pc[u] = "tag" /\ r \in todo[u] /\ mixed' = mixed  BY <1>4 DEF RunTaggers
  <2>2. u # t  BY <2>1
  <2>3. copy'[t] = copy[t] /\ write'[t] = write[t]
    BY <1>1, <1>4, <2>2 DEF RunTaggers, Answer
  <2>4. \A x \in Resources : x # r => rows'[x] = rows[x]
    BY <1>1, <1>4 DEF RunTaggers, InventoryTypeOK
  <2>5. \A x \in DOMAIN copy[t] \ mixed : x # r /\ x \in Resources
    BY <1>1, <2>1, <2>2 DEF InventoryTypeOK, OverlapInv
  <2> QED BY <2>1, <2>3, <2>4, <2>5
<1>5. ASSUME NEW u \in Requests, NEW ids \in SUBSET Resources, BulkDelete(u, ids) PROVE Goal
  <2>1. copy' = copy /\ write' = write /\ mixed' = mixed \cup (ids \cap Busy)
    BY <1>5 DEF BulkDelete, Accept
  <2>2. ASSUME NEW r \in DOMAIN copy[t] \ mixed' PROVE rows'[r] = rows[r]
    <3>1. r \in Resources /\ r \notin ids  BY <1>1, <2>1, BusyFacts DEF InventoryTypeOK
    <3> QED BY <1>5, <3>1 DEF BulkDelete
  <2> QED BY <2>1, <2>2
<1>6. ASSUME UNCHANGED inventoryVars PROVE Goal  BY <1>6 DEF inventoryVars
<1>12. ASSUME NEW u \in Requests, NEW r \in Resources, SaveRow(u, r) PROVE Goal
  BY <1>12 DEF SaveRow
<1>13. ASSUME NEW u \in Requests, SaveFails(u) \/ TaggersFail(u) PROVE Goal
  <2>1. pc' = [pc EXCEPT ![u] = "idle"] /\ rows' = rows /\ mixed' = mixed /\ Answer(u)
    BY <1>13 DEF SaveFails, TaggersFail, Answer
  <2>2. u # t  BY <1>1, <2>1
  <2>3. copy'[t] = copy[t] /\ write'[t] = write[t]  BY <1>1, <2>1, <2>2 DEF Answer
  <2> QED BY <2>1, <2>3
<1> HIDE DEF Goal
<1>7. ASSUME NEW u \in Requests, NEW r \in Resources, NEW draft \in Drafts, Create(u, r, draft)
      PROVE Goal
  BY <1>2, <1>7 DEF Create
<1>8. ASSUME NEW u \in Requests, NEW r \in Resources, Delete(u, r) PROVE Goal
  BY <1>2, <1>8 DEF Delete
<1>9. ASSUME NEW u \in Requests, NEW r \in Resources, NEW sum \in Sums, Checksum(u, r, sum)
      PROVE Goal
  BY <1>2, <1>9 DEF Checksum
<1>10. ASSUME NEW u \in Requests, NEW ids \in SUBSET Resources, NEW f \in [ids -> Patches],
              Update(u, f)
       PROVE Goal
  BY <1>2, <1>10 DEF Update
<1>11. Goal
  BY <1>3, <1>4, <1>5, <1>6, <1>7, <1>8, <1>9, <1>10, <1>12, <1>13 DEF InventoryNext
<1> QED BY <1>11 DEF Goal

\* A request stops saving with its commit or with an error.
LEMMA SavingEnds ==
  ASSUME InventoryInv, [InventoryNext]_inventoryVars, NEW t \in Requests,
         pc[t] = "save", pc'[t] # "save"
  PROVE  Commit(t) \/ SaveFails(t)
<1>1. pc \in [Requests -> {"idle", "save", "tag"}]  BY DEF InventoryInv, InventoryTypeOK
<1>2. ASSUME NEW u \in Requests, NEW ids, NEW named, NEW loaded, NEW columns, NEW tag,
             Accept(u, ids), Begin(u, named, loaded, columns, tag)
      PROVE  FALSE
  <2>1. pc[u] = "idle" /\ pc' = [pc EXCEPT ![u] = "save"]  BY <1>2 DEF Accept, Begin
  <2> QED BY <1>1, <2>1
<1>3. ASSUME NEW u \in Requests, Commit(u) \/ SaveFails(u) PROVE u = t
  <2>1. pc' = [pc EXCEPT ![u] = "idle"] \/ pc' = [pc EXCEPT ![u] = "tag"]
    BY <1>3 DEF Commit, SaveFails, Answer
  <2> QED BY <1>1, <2>1
<1>4. ASSUME NEW u \in Requests,
             TaggersFail(u) \/ \E r \in Resources : RunTaggers(u, r)
      PROVE  FALSE
  <2>1. pc[u] = "tag" /\ (pc' = [pc EXCEPT ![u] = "idle"] \/ pc' = pc)
    BY <1>4 DEF TaggersFail, RunTaggers, Answer
  <2> QED BY <1>1, <2>1
<1>5. pc' # pc  OBVIOUS
<1>6. ~UNCHANGED inventoryVars  BY <1>5 DEF inventoryVars
<1>7. ASSUME NEW u \in Requests, NEW ids \in SUBSET Resources, BulkDelete(u, ids) PROVE FALSE
  BY <1>5, <1>7 DEF BulkDelete
<1>8. ASSUME NEW u \in Requests, NEW r \in Resources, NEW draft \in Drafts, Create(u, r, draft)
      PROVE FALSE
  BY <1>2, <1>8 DEF Create
<1>9. ASSUME NEW u \in Requests, NEW r \in Resources, Delete(u, r) PROVE FALSE
  BY <1>2, <1>9 DEF Delete
<1>10. ASSUME NEW u \in Requests, NEW r \in Resources, NEW sum \in Sums, Checksum(u, r, sum)
       PROVE FALSE
  BY <1>2, <1>10 DEF Checksum
<1>11. ASSUME NEW u \in Requests, NEW ids \in SUBSET Resources, NEW f \in [ids -> Patches],
              Update(u, f)
       PROVE FALSE
  BY <1>2, <1>11 DEF Update
<1>12. ASSUME NEW u \in Requests, NEW r \in Resources, SaveRow(u, r) PROVE FALSE
  BY <1>5, <1>12 DEF SaveRow
<1> QED BY <1>3, <1>4, <1>6, <1>7, <1>8, <1>9, <1>10, <1>11, <1>12 DEF InventoryNext

\* The saves of a batch are one transaction: a row of it no other request works
\* on is seen to change only in the commit, which gives every row every column
\* the batch names, whatever other requests have written to the others since
\* they were loaded; a save that fails leaves all rows as they were.
THEOREM BatchesAreWhole == InventorySpec => BatchAllOrNothing
<1> DEFINE Whole ==
      \A t \in Requests :
        (/\ pc[t] = "save" /\ todo[t] # {}
         /\ \E r \in DOMAIN attrs[t] \ mixed' : rows'[r] # rows[r]) =>
           \A r \in DOMAIN attrs[t] : \A c \in DOMAIN attrs[t][r] : rows'[r][c] = attrs[t][r][c]
<1>1. InventoryInv /\ [InventoryNext]_inventoryVars => Whole
  <2> SUFFICES ASSUME InventoryInv, [InventoryNext]_inventoryVars, NEW t \in Requests,
                      pc[t] = "save", todo[t] # {},
                      NEW x \in DOMAIN attrs[t] \ mixed', rows'[x] # rows[x],
                      NEW r \in DOMAIN attrs[t], NEW c \in DOMAIN attrs[t][r]
               PROVE  rows'[r][c] = attrs[t][r][c]
    OBVIOUS
  <2>1. DOMAIN attrs[t] = DOMAIN copy[t]  BY DEF InventoryInv, InventoryTypeOK
  <2>2. pc'[t] # "save"  BY <2>1, OthersKeepOut
  <2>3. ~SaveFails(t)  BY DEF SaveFails
  <2>4. Commit(t)  BY <2>2, <2>3, SavingEnds
  <2>5. rows'[r] = Stored(t, r)  BY <2>1, <2>4, CommitFacts
  <2>6. c \in DOMAIN write[t][r] /\ write[t][r][c] = attrs[t][r][c]
    BY DEF InventoryInv, NamedInv
  <2> QED BY <2>1, <2>5, <2>6, StoredFacts
<1>2. InventoryInv /\ [InventoryNext]_inventoryVars => [Whole]_inventoryVars  BY <1>1
<1> QED BY <1>2, InventoryInvariant, PTL DEF InventorySpec, BatchAllOrNothing

LEMMA BeginSets ==
  ASSUME InventoryTypeOK, NEW u \in Requests, NEW ids, NEW named, NEW loaded, NEW columns, NEW tag,
         Accept(u, ids), Begin(u, named, loaded, columns, tag)
  PROVE  /\ copy'[u] = loaded /\ write'[u] = columns /\ rows' = rows
         /\ \A t \in Requests : t # u => pc'[t] = pc[t]
BY DEF InventoryTypeOK, Accept, Begin

LEMMA AmendsAfter ==
  ASSUME NEW t \in Requests,
         \A r \in DOMAIN copy'[t] \ mixed' : rows'[r] # Absent /\ Amends(write'[t][r], rows'[r])
  PROVE  AmendsAll(t)'
BY DEF AmendsAll, Amends, Over

\* A request that begins plans what its handler does.
LEMMA BeginPlans ==
  ASSUME InventoryInv, InventoryNext, NEW t \in Requests, pc[t] # "save", pc'[t] = "save"
  PROVE  (Enters(t) \/ Withdraws(t) \/ AmendsAll(t))'
<1>1. InventoryTypeOK  BY DEF InventoryInv
<1>2. ASSUME NEW u \in Requests, NEW r \in Resources, NEW draft \in Drafts, Create(u, r, draft)
      PROVE  u = t => Enters(t)'
  <2> DEFINE one == [x \in {r} |-> draft]
  <2>1. Accept(u, {r}) /\ rows[r] = Absent /\ Begin(u, one, one, one, {r})
    BY <1>2 DEF Create
  <2>2. DOMAIN one = {r} /\ one[r] = draft  OBVIOUS
  <2> HIDE DEF one
  <2>3. copy'[u] = one /\ write'[u] = one /\ rows' = rows  BY <1>1, <2>1, BeginSets
  <2> QED BY <2>1, <2>2, <2>3 DEF Enters
<1>3. ASSUME NEW u \in Requests, NEW r \in Resources, Delete(u, r)
      PROVE  u = t => Withdraws(t)'
  <2> DEFINE new == [active |-> FALSE]
             named == [x \in {r} |-> new]
             loaded == [x \in {r} |-> rows[r]]
             columns == [x \in {r} |-> IF rows[r].active THEN new ELSE <<>>]
  <2>1. Accept(u, {r}) /\ rows[r] # Absent /\ Begin(u, named, loaded, columns, {})
    BY <1>3 DEF Delete, Exist
  <2>2. DOMAIN loaded = {r} /\ (columns[r] = new \/ columns[r] = <<>>)  OBVIOUS
  <2> HIDE DEF named, loaded, columns
  <2>3. copy'[u] = loaded /\ write'[u] = columns /\ rows' = rows  BY <1>1, <2>1, BeginSets
  <2> QED BY <2>1, <2>2, <2>3 DEF Withdraws
<1>4. ASSUME NEW u \in Requests, NEW r \in Resources, NEW sum \in Sums, Checksum(u, r, sum)
      PROVE  u = t => (Withdraws(t) \/ AmendsAll(t))'
  <2> DEFINE new == [checksum |-> sum]
             named == [x \in {r} |-> new]
             loaded == [x \in {r} |-> rows[r]]
             columns == [x \in {r} |-> IF rows[r].checksum # sum THEN new ELSE <<>>]
  <2>1. Accept(u, {r}) /\ rows[r] # Absent /\ Begin(u, named, loaded, columns, {})
    BY <1>4 DEF Checksum, Exist
  <2>2. DOMAIN loaded = {r} /\ (columns[r] = new \/ columns[r] = <<>>)  OBVIOUS
  <2>3. new \in {[checksum |-> s] : s \in Sums}  OBVIOUS
  <2> HIDE DEF named, loaded, columns, new
  <2>4. copy'[u] = loaded /\ write'[u] = columns /\ rows' = rows  BY <1>1, <2>1, BeginSets
  <2>5. CASE columns[r] = <<>>  BY <2>1, <2>2, <2>4, <2>5 DEF Withdraws
  <2>6. CASE columns[r] = new
    <3>1. Amends(columns[r], rows[r])  BY <2>3, <2>6 DEF Amends
    <3>2. rows'[r] # Absent /\ Amends(write'[u][r], rows'[r]) /\ DOMAIN copy'[u] = {r}
      BY <2>1, <2>2, <2>4, <3>1
    <3>3. u = t => AmendsAll(t)'  BY <3>2, AmendsAfter
    <3> QED BY <3>3
  <2> QED BY <2>2, <2>5, <2>6
<1>5. ASSUME NEW u \in Requests, NEW ids \in SUBSET Resources, NEW f \in [ids -> Patches],
             Update(u, f)
      PROVE  u = t => AmendsAll(t)'
  <2> DEFINE set == [r \in ids |-> Over(f[r], rows[r])]
  <2>1. Accept(u, ids) /\ (\A r \in ids : rows[r] # Absent) /\ Begin(u, f, set, set, ids)
    <3>1. DOMAIN f = ids  OBVIOUS
    <3> QED BY <1>5, <3>1 DEF Update, Exist
  <2>2. DOMAIN set = ids /\ \A r \in ids : set[r] = Over(f[r], rows[r]) /\ f[r] \in Patches
    OBVIOUS
  <2> HIDE DEF set
  <2>3. copy'[u] = set /\ write'[u] = set /\ rows' = rows  BY <1>1, <2>1, BeginSets
  <2>4. \A r \in ids : Amends(set[r], rows[r])  BY <2>2 DEF Amends
  <2>5. \A r \in DOMAIN copy'[u] : rows'[r] # Absent /\ Amends(write'[u][r], rows'[r])
    BY <2>1, <2>2, <2>3, <2>4
  <2> QED BY <2>5, AmendsAfter
<1>6. ASSUME NEW u \in Requests, NEW ids, NEW named, NEW loaded, NEW columns, NEW tag,
             Accept(u, ids), Begin(u, named, loaded, columns, tag)
      PROVE  u = t
  BY <1>1, <1>6, BeginSets
<1>7. ASSUME NEW u \in Requests, Commit(u) \/ SaveFails(u) \/ TaggersFail(u) PROVE FALSE
  <2>1. pc' = [pc EXCEPT ![u] = "idle"] \/ pc' = [pc EXCEPT ![u] = "tag"]
    BY <1>7 DEF Commit, SaveFails, TaggersFail, Answer
  <2> QED BY <1>1, <2>1 DEF InventoryTypeOK
<1>8. ASSUME NEW u \in Requests, NEW r \in Resources, RunTaggers(u, r) PROVE FALSE
  <2>1. pc' = [pc EXCEPT ![u] = "idle"] \/ pc' = pc  BY <1>8 DEF RunTaggers, Answer
  <2> QED BY <1>1, <2>1 DEF InventoryTypeOK
<1>9. ASSUME NEW u \in Requests, NEW ids \in SUBSET Resources, BulkDelete(u, ids) PROVE FALSE
  BY <1>9 DEF BulkDelete
<1>10. ASSUME NEW u \in Requests, NEW r \in Resources, NEW draft \in Drafts,
              Create(u, r, draft)
       PROVE  Enters(t)'
  BY <1>2, <1>6, <1>10 DEF Create
<1>11. ASSUME NEW u \in Requests, NEW r \in Resources, Delete(u, r) PROVE Withdraws(t)'
  BY <1>3, <1>6, <1>11 DEF Delete
<1>12. ASSUME NEW u \in Requests, NEW r \in Resources, NEW sum \in Sums, Checksum(u, r, sum)
       PROVE  (Withdraws(t) \/ AmendsAll(t))'
  BY <1>4, <1>6, <1>12 DEF Checksum
<1>13. ASSUME NEW u \in Requests, NEW ids \in SUBSET Resources, NEW f \in [ids -> Patches],
              Update(u, f)
       PROVE  AmendsAll(t)'
  BY <1>5, <1>6, <1>13 DEF Update
<1>14. ASSUME NEW u \in Requests, NEW r \in Resources, SaveRow(u, r) PROVE FALSE
  BY <1>14 DEF SaveRow
<1> QED BY <1>7, <1>8, <1>9, <1>10, <1>11, <1>12, <1>13, <1>14 DEF InventoryNext

LEMMA PlanStep ==
  ASSUME InventoryInv, PlanInv, [InventoryNext]_inventoryVars
  PROVE  PlanInv'
<1> SUFFICES ASSUME NEW t \in Requests, pc'[t] = "save"
             PROVE  (Enters(t) \/ Withdraws(t) \/ AmendsAll(t))'
  BY DEF PlanInv
<1>1. CASE pc[t] # "save"
  <2>1. pc' # pc  BY <1>1
  <2> QED BY <1>1, <2>1, BeginPlans DEF inventoryVars
<1>2. CASE pc[t] = "save"
  <2>1. /\ copy'[t] = copy[t] /\ write'[t] = write[t] /\ mixed \subseteq mixed'
        /\ \A r \in DOMAIN copy[t] \ mixed' : rows'[r] = rows[r]
    BY <1>2, OthersKeepOut
  <2>2. CASE Enters(t)  BY <2>1, <2>2 DEF Enters
  <2>3. CASE Withdraws(t)  BY <2>1, <2>3 DEF Withdraws
  <2>4. CASE AmendsAll(t)
    <3>1. \A r \in DOMAIN copy[t] \ mixed' : rows[r] # Absent /\ Amends(write[t][r], rows[r])
      BY <2>1, <2>4 DEF AmendsAll
    <3> QED BY <2>1, <3>1, AmendsAfter
  <2> QED BY <1>2, <2>2, <2>3, <2>4 DEF PlanInv
<1> QED BY <1>1, <1>2

\* The catalogue the table stands for.
Shelf == [r \in Resources |-> IF r \in mixed THEN Mixed ELSE rows[r]]

LEMMA ShelfSteps ==
  /\ \A i \in Resources : \A entry \in Drafts :
       (Shelf[i] = Absent /\ Shelf' = [Shelf EXCEPT ![i] = entry]) => Books!CNext
  /\ \A S \in SUBSET Resources : \A T \in SUBSET Resources :
       /\ \A i \in S : Shelf[i] \notin {Absent, Mixed}
       /\ Shelf' = [i \in Resources |-> IF i \in T THEN Mixed
                                        ELSE IF i \in S THEN [Shelf[i] EXCEPT !.active = FALSE]
                                        ELSE Shelf[i]]
       => Books!CNext
  /\ \A S \in SUBSET Resources :
       \A f \in [S -> Patches \cup {[checksum |-> s] : s \in Sums}] :
         /\ \A i \in S : Shelf[i] \notin {Absent, Mixed}
         /\ Shelf' = [i \in Resources |-> IF i \in S THEN Over(f[i], Shelf[i]) ELSE Shelf[i]]
         => Books!CNext
  /\ \A i \in Resources :
       /\ Shelf[i] \notin {Absent, Mixed}
       /\ Shelf'[i].tags # <<>>
       /\ SubSeq(Shelf'[i].tags, 1, Len(Shelf[i].tags)) = Shelf[i].tags
       /\ Shelf' = [Shelf EXCEPT ![i] = [Shelf[i] EXCEPT !.tags = Shelf'[i].tags]]
       => Books!CNext
<1>1. ASSUME NEW i \in Resources, NEW entry \in Drafts,
             Shelf[i] = Absent, Shelf' = [Shelf EXCEPT ![i] = entry]
      PROVE  Books!CNext
  <2>1. Books!Put(i, entry)  BY <1>1 DEF Shelf, Books!Put
  <2> QED BY <2>1 DEF Books!CNext
<1>2. ASSUME NEW S \in SUBSET Resources, NEW T \in SUBSET Resources,
             \A i \in S : Shelf[i] \notin {Absent, Mixed},
             Shelf' = [i \in Resources |-> IF i \in T THEN Mixed
                                           ELSE IF i \in S THEN [Shelf[i] EXCEPT !.active = FALSE]
                                           ELSE Shelf[i]]
      PROVE  Books!CNext
  <2>1. Books!Withdraw(S, T)  BY <1>2 DEF Shelf, Books!Withdraw, Books!Present
  <2> QED BY <2>1 DEF Books!CNext
<1>3. ASSUME NEW S \in SUBSET Resources,
             NEW f \in [S -> Patches \cup {[checksum |-> s] : s \in Sums}],
             \A i \in S : Shelf[i] \notin {Absent, Mixed},
             Shelf' = [i \in Resources |-> IF i \in S THEN Over(f[i], Shelf[i]) ELSE Shelf[i]]
      PROVE  Books!CNext
  <2>1. DOMAIN f = S  OBVIOUS
  <2>2. Books!Amend(f)
    BY <1>3, <2>1 DEF Shelf, Books!Amend, Books!Present, Books!Over, Over
  <2> QED BY <2>2 DEF Books!CNext
<1>4. ASSUME NEW i \in Resources, Shelf[i] \notin {Absent, Mixed}, Shelf'[i].tags # <<>>,
             SubSeq(Shelf'[i].tags, 1, Len(Shelf[i].tags)) = Shelf[i].tags,
             Shelf' = [Shelf EXCEPT ![i] = [Shelf[i] EXCEPT !.tags = Shelf'[i].tags]]
      PROVE  Books!CNext
  <2>1. Books!Label(i)  BY <1>4 DEF Shelf, Books!Label, Books!Present
  <2> QED BY <2>1 DEF Books!CNext
<1> QED BY <1>1, <1>2, <1>3, <1>4

LEMMA ShelfFacts ==
  ASSUME InventoryTypeOK, NEW r \in Resources
  PROVE  /\ Shelf[r] \notin {Absent, Mixed} <=> (r \notin mixed /\ rows[r] # Absent)
         /\ r \notin mixed => Shelf[r] = rows[r] /\ rows[r] # Mixed
BY AbsentAssumption DEF InventoryTypeOK, Shelf

LEMMA BeginMaps ==
  ASSUME NEW T \in SUBSET Resources, mixed' = mixed \cup T, rows' = rows
  PROVE  Books!CNext
<1>1. Shelf' = [i \in Resources |-> IF i \in T THEN Mixed
                                    ELSE IF i \in {} THEN [Shelf[i] EXCEPT !.active = FALSE]
                                    ELSE Shelf[i]]
  BY DEF Shelf
<1>2. {} \in SUBSET Resources /\ \A i \in {} : Shelf[i] \notin {Absent, Mixed}  OBVIOUS
<1> QED BY <1>1, <1>2, ShelfSteps

LEMMA BulkDeleteMaps ==
  ASSUME InventoryInv, NEW t \in Requests, NEW ids \in SUBSET Resources,
         BulkDelete(t, ids)
  PROVE  Books!CNext
<1> DEFINE T == ids \cap Busy
           S == {r \in ids : r \notin mixed /\ rows[r] # Absent}
<1>1. /\ mixed' = mixed \cup T
      /\ rows' = [r \in Resources |-> IF r \in ids /\ rows[r] # Absent
                    THEN [rows[r] EXCEPT !.active = FALSE] ELSE rows[r]]
  BY DEF BulkDelete, Accept
<1> PICK over : over = T  OBVIOUS
<1> PICK gone : gone = S  OBVIOUS
<1>2. over \in SUBSET Resources /\ gone \in SUBSET Resources  OBVIOUS
<1>3. \A i \in gone : Shelf[i] \notin {Absent, Mixed}
  BY ShelfFacts DEF InventoryInv
<1>4. ASSUME NEW i \in Resources
      PROVE  Shelf'[i] = IF i \in over THEN Mixed
                         ELSE IF i \in gone THEN [Shelf[i] EXCEPT !.active = FALSE] ELSE Shelf[i]
  <2>1. Shelf'[i] = IF i \in mixed \/ i \in over THEN Mixed ELSE rows'[i]
    BY <1>1 DEF Shelf
  <2>2. CASE i \in mixed
    <3>1. Shelf[i] = Mixed /\ i \notin gone  BY <2>2 DEF Shelf
    <3> QED BY <2>1, <2>2, <3>1
  <2>3. CASE i \notin mixed
    <3>1. Shelf[i] = rows[i]  BY <2>3 DEF Shelf
    <3>2. i \in gone <=> i \in ids /\ rows[i] # Absent  BY <2>3
    <3> QED BY <1>1, <2>1, <2>3, <3>1, <3>2
  <2> QED BY <2>2, <2>3
<1>5. Shelf' = [i \in Resources |-> IF i \in over THEN Mixed
                                    ELSE IF i \in gone THEN [Shelf[i] EXCEPT !.active = FALSE]
                                    ELSE Shelf[i]]
  BY <1>4 DEF Shelf
<1> QED BY <1>2, <1>3, <1>5, ShelfSteps

\* Switching a row off changes its active column and nothing else.
LEMMA SwitchedOff ==
  ASSUME NEW row \in Row
  PROVE  Over([active |-> FALSE], row) = [row EXCEPT !.active = FALSE]
<1> DEFINE p == [active |-> FALSE]
           on == Over(p, row)
           off == [row EXCEPT !.active = FALSE]
<1>1. DOMAIN p = {"active"} /\ p["active"] = FALSE  OBVIOUS
<1>2. DOMAIN row = Columns /\ row = [c \in Columns |-> row[c]]  BY DEF Row, RowsNamed, Columns
<1>3. "active" \in Columns  BY DEF Columns
<1>4. off = [c \in Columns |-> IF c = "active" THEN FALSE ELSE row[c]]  BY <1>2, <1>3
<1> HIDE DEF p
<1>5. on = [c \in Columns |-> IF c = "active" THEN FALSE ELSE row[c]]
  BY <1>1, <1>2, <1>3 DEF Over
<1> QED BY <1>4, <1>5 DEF p

LEMMA CommitMaps ==
  ASSUME InventoryInv, PlanInv, NEW t \in Requests, Commit(t)
  PROVE  Books!CNext \/ Shelf' = Shelf
<1>1. /\ pc[t] = "save" /\ mixed' = mixed /\ InventoryTypeOK
      /\ DOMAIN copy[t] \subseteq Resources
      /\ rows' = [r \in Resources |-> IF r \in DOMAIN copy[t] THEN Stored(t, r) ELSE rows[r]]
  BY CommitFacts DEF Commit, InventoryInv
<1>2. \A i \in Resources : Shelf'[i] =
        IF i \in mixed THEN Mixed
        ELSE IF i \notin DOMAIN copy[t] THEN rows[i]
        ELSE IF rows[i] = Absent THEN write[t][i] ELSE Over(write[t][i], rows[i])
  BY <1>1 DEF Shelf, Stored
<1>3. /\ Shelf' = [i \in Resources |-> Shelf'[i]] /\ Shelf = [i \in Resources |-> Shelf[i]]
      /\ \A i \in Resources : Shelf[i] = IF i \in mixed THEN Mixed ELSE rows[i]
  BY DEF Shelf
<1>4. ASSUME NEW r \in DOMAIN copy[t], DOMAIN copy[t] = {r}, r \in mixed
      PROVE  Shelf' = Shelf
  <2>1. \A i \in Resources : Shelf'[i] = Shelf[i]  BY <1>2, <1>3, <1>4
  <2> QED BY <1>3, <2>1
<1>5. CASE Enters(t)
  <2>1. PICK r \in Resources : /\ DOMAIN copy[t] = {r} /\ write[t][r] \in Drafts
                               /\ r \notin mixed => rows[r] = Absent
    BY <1>5 DEF Enters
  <2>2. CASE r \notin mixed
    <3>1. Shelf[r] = Absent  BY <1>3, <2>1, <2>2
    <3>2. PICK entry \in Drafts : entry = write[t][r]  BY <2>1
    <3>3. \A i \in Resources : Shelf'[i] = IF i = r THEN entry ELSE Shelf[i]
      BY <1>2, <1>3, <2>1, <2>2, <3>2
    <3>4. Shelf' = [Shelf EXCEPT ![r] = entry]  BY <1>3, <3>3
    <3> QED BY <3>1, <3>4, ShelfSteps
  <2> QED BY <1>4, <2>1, <2>2
<1>6. CASE Withdraws(t)
  <2>1. PICK r \in Resources : /\ DOMAIN copy[t] = {r}
                               /\ write[t][r] = [active |-> FALSE] \/ write[t][r] = <<>>
                               /\ r \notin mixed => rows[r] # Absent
    BY <1>6 DEF Withdraws
  <2>2. CASE r \notin mixed
    <3>1. rows[r] \in Row /\ Shelf[r] = rows[r] /\ Shelf[r] \notin {Absent, Mixed}
      BY <1>1, <1>3, <2>1, <2>2, PresentRows, ShelfFacts
    <3>2. \A i \in Resources : Shelf'[i] = IF i = r THEN Over(write[t][r], rows[r]) ELSE Shelf[i]
      BY <1>2, <1>3, <2>1, <2>2
    <3>3. CASE write[t][r] = <<>>
      <4>1. DOMAIN <<>> = {}  OBVIOUS
      <4>2. Over(<<>>, rows[r]) = rows[r]
        <5> DEFINE e == <<>>
        <5>1. DOMAIN e = {}  BY <4>1
        <5> HIDE DEF e
        <5>2. Over(e, rows[r]) = rows[r]
          BY <3>1, <5>1 DEF Over, Row, RowsNamed
        <5> QED BY <5>2 DEF e
      <4>3. \A i \in Resources : Shelf'[i] = Shelf[i]  BY <3>1, <3>2, <3>3, <4>2
      <4> QED BY <1>3, <4>3
    <3>4. CASE write[t][r] = [active |-> FALSE]
      <4>1. Over([active |-> FALSE], rows[r]) = [rows[r] EXCEPT !.active = FALSE]
        BY <3>1, SwitchedOff
      <4>2. \A i \in Resources : Shelf'[i] =
              IF i \in {} THEN Mixed
              ELSE IF i \in {r} THEN [Shelf[i] EXCEPT !.active = FALSE] ELSE Shelf[i]
        BY <3>1, <3>2, <3>4, <4>1
      <4>3. Shelf' = [i \in Resources |->
              IF i \in {} THEN Mixed
              ELSE IF i \in {r} THEN [Shelf[i] EXCEPT !.active = FALSE] ELSE Shelf[i]]
        BY <1>3, <4>2
      <4>4. {r} \in SUBSET Resources /\ {} \in SUBSET Resources
            /\ \A i \in {r} : Shelf[i] \notin {Absent, Mixed}
        BY <3>1
      <4> QED BY <4>3, <4>4, ShelfSteps
    <3> QED BY <2>1, <3>3, <3>4
  <2> QED BY <1>4, <2>1, <2>2
<1>7. CASE AmendsAll(t)
  <2> DEFINE Amendments == Patches \cup {[checksum |-> s] : s \in Sums}
             S == DOMAIN copy[t] \ mixed
  <2>1. \A r \in S : rows[r] # Absent /\ \E a \in Amendments :
                       write[t][r] = a \/ write[t][r] = Over(a, rows[r])
    BY <1>7 DEF AmendsAll, Amends
  <2> DEFINE f == [r \in S |-> CHOOSE a \in Amendments :
                                 write[t][r] = a \/ write[t][r] = Over(a, rows[r])]
  <2>2. ASSUME NEW r \in S
        PROVE  /\ f[r] \in Amendments
               /\ Over(write[t][r], rows[r]) = Over(f[r], rows[r])
    <3>1. f[r] \in Amendments /\ (write[t][r] = f[r] \/ write[t][r] = Over(f[r], rows[r]))
      <4> HIDE DEF Amendments
      <4> QED BY <2>1
    <3>2. PICK a : a = f[r]  OBVIOUS
    <3>3. Over(Over(a, rows[r]), rows[r]) = Over(a, rows[r])  BY DEF Over
    <3> HIDE DEF f
    <3> QED BY <3>1, <3>2, <3>3
  <2>3. f \in [S -> Amendments]
    <3> HIDE DEF Amendments
    <3> QED BY <2>2
  <2>4. S \in SUBSET Resources  BY <1>1
  <2> HIDE DEF f, Amendments
  <2>5. \A i \in S : Shelf[i] \notin {Absent, Mixed} /\ Shelf[i] = rows[i]
    BY <1>1, <1>3, <2>1, ShelfFacts
  <2>6. \A i \in Resources : Shelf'[i] = IF i \in S THEN Over(f[i], Shelf[i]) ELSE Shelf[i]
    BY <1>2, <1>3, <2>1, <2>2, <2>5
  <2> PICK ids \in SUBSET Resources : ids = S  BY <2>4
  <2>7. Shelf' = [i \in Resources |-> IF i \in ids THEN Over(f[i], Shelf[i]) ELSE Shelf[i]]
    BY <1>3, <2>6
  <2> HIDE DEF S
  <2>8. f \in [ids -> Patches \cup {[checksum |-> s] : s \in Sums}]
    BY <2>3 DEF Amendments
  <2> QED BY <2>5, <2>7, <2>8, ShelfSteps
<1> QED BY <1>1, <1>5, <1>6, <1>7 DEF PlanInv

LEMMA RunTaggersMaps ==
  ASSUME InventoryInv, NEW t \in Requests, NEW r \in Resources,
         RunTaggers(t, r)
  PROVE  Books!CNext \/ Shelf' = Shelf
<1> DEFINE mine == copy[t][r]
           added == Added(mine)
<1>1. /\ InventoryTypeOK /\ pc[t] = "tag" /\ r \in DOMAIN copy[t] /\ mixed' = mixed /\ r \in todo[t]
      /\ rows' = IF mine.plugin \in Taggable /\ added # <<>>
                 THEN [rows EXCEPT ![r] = [rows[r] EXCEPT !.tags = mine.tags \o added]] ELSE rows
  BY DEF RunTaggers, InventoryInv, InventoryTypeOK
<1>2. CASE rows' = rows  BY <1>1, <1>2 DEF Shelf
<1>3. CASE r \in mixed /\ rows' # rows
  <2>1. \A i \in Resources \ mixed : rows'[i] = rows[i]  BY <1>1, <1>3 DEF InventoryTypeOK
  <2> QED BY <1>1, <2>1 DEF Shelf
<1>4. CASE r \notin mixed /\ rows' # rows
  <2>1. /\ rows' = [rows EXCEPT ![r] = [rows[r] EXCEPT !.tags = mine.tags \o added]]
        /\ added # <<>>
    BY <1>1, <1>4
  <2>2. rows[r] # Absent /\ rows[r] \in Row /\ SameTagging(rows[r], mine)
    BY <1>1, <1>4, PresentRows DEF InventoryInv, WorkInv, TaggerInv
  <2>3. Shelf[r] \notin {Absent, Mixed} /\ Shelf[r] = rows[r]  BY <1>1, <1>4, <2>2, ShelfFacts
  <2>4. added \in Seq(TagNames)  BY AddedFacts
  <2>5. rows[r].tags \in Seq(TagNames) /\ rows[r].tags = mine.tags
    BY <2>2 DEF SameTagging, Row, RowsNamed
  <2>6. PICK tags : tags = rows[r].tags  OBVIOUS
  <2>7. PICK more : more = added  OBVIOUS
  <2>8. /\ tags \in Seq(TagNames) /\ more \in Seq(TagNames) /\ more # <<>>
    BY <2>1, <2>4, <2>5, <2>6, <2>7
  <2>9. tags \o more # <<>> /\ SubSeq(tags \o more, 1, Len(tags)) = tags
    <3>1. /\ Len(tags) \in Nat /\ Len(more) \in Nat /\ Len(more) > 0 /\ tags \o more \in Seq(TagNames)
          /\ Len(tags \o more) = Len(tags) + Len(more)
          /\ \A i \in 1 .. Len(tags) : (tags \o more)[i] = tags[i]
      BY <2>8
    <3>2. tags \o more # <<>>  BY <3>1
    <3>3. PICK both : both = tags \o more  OBVIOUS
    <3>4. SubSeq(both, 1, Len(tags)) = [i \in 1 .. Len(tags) |-> both[i]]
      BY <3>1, <3>3
    <3>5. tags = [i \in 1 .. Len(tags) |-> tags[i]]  BY <2>8
    <3> QED BY <3>1, <3>2, <3>3, <3>4, <3>5
  <2>10. rows' = [rows EXCEPT ![r] = [rows[r] EXCEPT !.tags = tags \o more]]
    BY <2>1, <2>5, <2>6, <2>7
  <2> HIDE DEF mine, added
  <2>11. PICK all : all = tags \o more  OBVIOUS
  <2>12. Shelf'[r] = [rows[r] EXCEPT !.tags = all] /\ Shelf'[r].tags = all
    <3>1. Shelf'[r] = rows'[r]  BY <1>1, <1>4 DEF Shelf
    <3>2. rows'[r] = [rows[r] EXCEPT !.tags = all]  BY <1>1, <2>10, <2>11 DEF InventoryTypeOK
    <3>3. [rows[r] EXCEPT !.tags = all].tags = all  BY <2>2 DEF Row, RowsNamed
    <3> QED BY <3>1, <3>2, <3>3
  <2>13. \A i \in Resources : i # r => Shelf'[i] = Shelf[i]
    BY <1>1, <2>10 DEF InventoryTypeOK, Shelf
  <2>14. Shelf' = [Shelf EXCEPT ![r] = [Shelf[r] EXCEPT !.tags = Shelf'[r].tags]]
    <3>1. Shelf' = [i \in Resources |-> Shelf'[i]] /\ Shelf = [i \in Resources |-> Shelf[i]]
      BY DEF Shelf
    <3> QED BY <2>3, <2>12, <2>13, <3>1
  <2> QED BY <2>3, <2>6, <2>9, <2>11, <2>12, <2>14, ShelfSteps
<1> QED BY <1>2, <1>3, <1>4

\* Requests and the tagger's changes are the atomic changes of Catalogue, on the
\* resources for which requests have not overlapped: a save puts, withdraws or
\* amends exactly what its request named, and starting a request for a resource
\* another one works on is where the promise ends.
THEOREM RequestsAreAtomic == InventorySpec => ImplementsCatalogue
<1>1. InventoryInit => InventoryInv /\ PlanInv /\ Books!CInit
  <2> SUFFICES ASSUME InventoryInit PROVE InventoryInv /\ PlanInv /\ Books!CInit  OBVIOUS
  <2>1. PlanInv  BY DEF InventoryInit, PlanInv
  <2>2. Books!CInit  BY DEF InventoryInit, Books!CInit
  <2> QED BY <2>1, <2>2, InventoryBegins
<1>2. InventoryInv /\ PlanInv /\ [InventoryNext]_inventoryVars => PlanInv'  BY PlanStep
<1>3. InventoryInv /\ PlanInv /\ [InventoryNext]_inventoryVars =>
        [Books!CNext]_([r \in Resources |-> IF r \in mixed THEN Mixed ELSE rows[r]])
  <2> SUFFICES ASSUME InventoryInv, PlanInv, [InventoryNext]_inventoryVars
               PROVE  Books!CNext \/ Shelf' = Shelf
    BY DEF Shelf
  <2>1. ASSUME NEW t \in Requests, NEW ids \in SUBSET Resources, NEW named, NEW loaded,
               NEW columns, NEW tag, Accept(t, ids), Begin(t, named, loaded, columns, tag)
        PROVE  Books!CNext
    <3>1. PICK T \in SUBSET Resources : T = ids \cap Busy  OBVIOUS
    <3>2. mixed' = mixed \cup T /\ rows' = rows  BY <2>1, <3>1 DEF Accept, Begin
    <3> QED BY <3>2, BeginMaps
  <2>2. ASSUME NEW t \in Requests, NEW r \in Resources, NEW draft \in Drafts, Create(t, r, draft)
        PROVE  Books!CNext
    <3>1. {r} \in SUBSET Resources  OBVIOUS
    <3> QED BY <2>1, <2>2, <3>1 DEF Create
  <2>3. ASSUME NEW t \in Requests, NEW r \in Resources, Delete(t, r) PROVE Books!CNext
    <3>1. {r} \in SUBSET Resources  OBVIOUS
    <3> QED BY <2>1, <2>3, <3>1 DEF Delete
  <2>4. ASSUME NEW t \in Requests, NEW r \in Resources, NEW sum \in Sums, Checksum(t, r, sum)
        PROVE  Books!CNext
    <3>1. {r} \in SUBSET Resources  OBVIOUS
    <3> QED BY <2>1, <2>4, <3>1 DEF Checksum
  <2>5. ASSUME NEW t \in Requests, NEW ids \in SUBSET Resources, NEW f \in [ids -> Patches],
               Update(t, f)
        PROVE  Books!CNext
    <3>1. DOMAIN f = ids  OBVIOUS
    <3> QED BY <2>1, <2>5, <3>1 DEF Update
  <2>6. ASSUME UNCHANGED inventoryVars PROVE Shelf' = Shelf  BY <2>6 DEF inventoryVars, Shelf
  <2>7. ASSUME NEW t \in Requests,
               SaveFails(t) \/ TaggersFail(t) \/ \E r \in Resources : SaveRow(t, r)
        PROVE  Shelf' = Shelf
    BY <2>7 DEF SaveFails, TaggersFail, SaveRow, Shelf
  <2> QED BY <2>2, <2>3, <2>4, <2>5, <2>6, <2>7, BulkDeleteMaps, CommitMaps, RunTaggersMaps
          DEF InventoryNext
<1> QED BY <1>1, <1>2, <1>3, InventoryInvariant, PTL
        DEF InventorySpec, ImplementsCatalogue, Books!CSpec
=============================================================================
