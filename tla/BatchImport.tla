---------------------------- MODULE BatchImport ----------------------------
(***************************************************************************)
(* Importing files in bulk: BatchImportPage.tsx and the processing of one  *)
(* file, batchImport.ts, in the desktop client.                            *)
(*                                                                         *)
(* The user lists files and starts a loop that processes them in order,    *)
(* one job per file.  A job creates the resource, extracts metadata from   *)
(* the file and posts it; its requests are answered at any time or never.  *)
(* processFile races a job against a timer: when the timer wins the loop   *)
(* goes on, and so does the job.  Leaving the page does not end its loop   *)
(* either: the page that is opened next (a visit) starts with empty state. *)
(* Between two awaits the code runs to completion.                         *)
(***************************************************************************)
EXTENDS Naturals, Sequences, FiniteSets, SequencesExt, FiniteSetsExt, Selection,
        Extraction

CONSTANTS
  Paths,           \* files on the disk
  Known,           \* those whose extension names a plugin
  Extracted,       \* those metadata is extracted from
  Epubs,           \* those that are ebooks: they may have a cover
  Folder,          \* what scanning the directory returns, a sequence
  None,            \* no job
  MaxVisits,       \* bound: how often the page is opened
  MaxListings,     \* bound: how many files are put on a list
  JobIds           \* bound: jobs under way at a time

ASSUME FilesAssumption ==
  /\ Epubs \subseteq Extracted /\ Extracted \subseteq Known /\ Known \subseteq Paths
  /\ IsFiniteSet(Paths)
  /\ Folder \in Seq(Paths) /\ IsInjective(Folder)
Jobs == [path : Paths, step : {"create", "extract", "meta", "cover"}, cover : BOOLEAN]

ASSUME ImportBoundsAssumption ==
  /\ MaxVisits \in Nat \ {0} /\ MaxListings \in Nat
  /\ JobIds # {} /\ JobIds \subseteq Nat /\ IsFiniteSet(JobIds)
  /\ None \notin JobIds /\ None \notin Jobs

Visits == 1 .. MaxVisits
Outcomes == {"done", "error", "skipped"}

VARIABLES
  visit,      \* the page that was opened last
  open,       \* is it still open?
  filePaths,  \* per visit: the list of files
  fileMap,    \* per visit: the status of each file, "absent" if not listed
  running, done, abort,
  scanning,   \* per visit: is a directory being scanned?
  loop,       \* per visit: where handleStart stands
  pending,    \* per visit: the files the loop has still to process
  progress,   \* per visit: the counters of the loop (progressRef)
  shown,      \* per visit: the counters as the page shows them
  awaited,    \* per visit: the job the loop waits for
  job,        \* per id: a job that has not ended
  created,    \* server: how many resources each file has
  batch, listed, reported
              \* history: the files of the last start of a visit; how often a
              \* file was put on a list and was reported as done

page == <<filePaths, fileMap, running, done, abort, scanning, loop, pending,
          progress, shown, awaited, batch>>
vars == <<visit, open, page, job, created, listed, reported>>

NoProgress == [total |-> 0, done |-> 0, error |-> 0, skipped |-> 0]
Count == 0 .. Cardinality(Paths)

TypeOK ==
  /\ visit \in Visits /\ open \in BOOLEAN
  /\ filePaths \in [Visits -> Seq(Paths)]
  /\ fileMap \in [Visits -> [Paths -> {"absent", "pending", "processing"} \cup Outcomes]]
  /\ {running, done, abort, scanning} \subseteq [Visits -> BOOLEAN]
  /\ loop \in [Visits -> {"idle", "logging", "next", "waiting", "broken"}]
  /\ pending \in [Visits -> Seq(Paths)]
  /\ {progress, shown} \subseteq
       [Visits -> [total : Count, done : Count, error : Count, skipped : Count]]
  /\ awaited \in [Visits -> JobIds \cup {None}]
  /\ job \in [JobIds -> Jobs \cup {None}]
  /\ {created, listed, reported} \subseteq [Paths -> Nat]
  /\ batch \in [Visits -> SUBSET Paths]
  \* the list has the files of the map, each once
  /\ \A v \in Visits : /\ IsInjective(filePaths[v])
                       /\ ToSet(filePaths[v]) = {p \in Paths : fileMap[v][p] # "absent"}

Init ==
  /\ visit = 1 /\ open = TRUE
  /\ filePaths = [v \in Visits |-> <<>>]
  /\ fileMap = [v \in Visits |-> [p \in Paths |-> "absent"]]
  /\ running = [v \in Visits |-> FALSE]
  /\ done = [v \in Visits |-> FALSE]
  /\ abort = [v \in Visits |-> FALSE]
  /\ scanning = [v \in Visits |-> FALSE]
  /\ loop = [v \in Visits |-> "idle"]
  /\ pending = [v \in Visits |-> <<>>]
  /\ progress = [v \in Visits |-> NoProgress]
  /\ shown = [v \in Visits |-> NoProgress]
  /\ awaited = [v \in Visits |-> None]
  /\ job = [j \in JobIds |-> None]
  /\ created = [p \in Paths |-> 0]
  /\ batch = [v \in Visits |-> {}]
  /\ listed = [p \in Paths |-> 0]
  /\ reported = [p \in Paths |-> 0]

-----------------------------------------------------------------------------
(* What the page offers. *)

Listed(v, p) == p \in ToSet(filePaths[v])

PendingFiles(v) == Kept(filePaths[v], {p \in Paths : fileMap[v][p] = "pending"})

PickEnabled(v) == open /\ v = visit /\ ~running[v]
DropEnabled(v) == open /\ v = visit
ClearShown(v) == open /\ v = visit /\ filePaths[v] # <<>> /\ ~running[v]
ListShown(v) == open /\ v = visit /\ filePaths[v] # <<>> /\ ~running[v] /\ ~done[v]
StartEnabled(v) ==
  open /\ v = visit /\ filePaths[v] # <<>> /\ ~running[v] /\ PendingFiles(v) # <<>>
StopShown(v) == open /\ v = visit /\ filePaths[v] # <<>> /\ running[v]

\* The counters are shown while a loop runs, and as a summary after it.
ProgressShown(v) == open /\ v = visit /\ running[v]
SummaryShown(v) == open /\ v = visit /\ done[v]

-----------------------------------------------------------------------------
(* The list of files. *)

\* Mutant: a file that is listed already is listed again.
MutNewPaths(v, paths) == paths

\* addPaths leaves out the files it knows.
NewPaths(v, paths) == Kept(paths, {p \in Paths : fileMap[v][p] = "absent"})

AddPaths(v, paths) ==
  LET new == NewPaths(v, paths) IN
  /\ filePaths' = [filePaths EXCEPT ![v] = @ \o new]
  /\ fileMap' = [fileMap EXCEPT ![v] =
       [p \in Paths |-> IF p \in ToSet(new) THEN "pending" ELSE @[p]]]
  /\ listed' = [p \in Paths |->
       listed[p] + IF p \in ToSet(paths) /\ fileMap[v][p] = "absent" THEN 1 ELSE 0]
  /\ MapThenSumSet(LAMBDA p : listed'[p], Paths) <= MaxListings

\* The dialog is modal: between opening and closing it nothing is clicked.
PickFiles(v, p) ==
  /\ PickEnabled(v)
  /\ AddPaths(v, <<p>>)
  /\ UNCHANGED <<visit, open, running, done, abort, scanning, loop, pending, progress,
                 shown, awaited, batch, job, created, reported>>

\* Files are dropped while a loop is running, too.
Drop(v, p) ==
  /\ DropEnabled(v)
  /\ AddPaths(v, <<p>>)
  /\ UNCHANGED <<visit, open, running, done, abort, scanning, loop, pending, progress,
                 shown, awaited, batch, job, created, reported>>

\* A directory is picked, and scanned while the page goes on.
PickDirectory(v) ==
  /\ PickEnabled(v) /\ ~scanning[v]
  /\ scanning' = [scanning EXCEPT ![v] = TRUE]
  /\ UNCHANGED <<visit, open, filePaths, fileMap, running, done, abort, loop, pending,
                 progress, shown, awaited, batch, job, created, listed, reported>>

Scanned(v) ==
  /\ scanning[v]
  /\ AddPaths(v, Folder)
  /\ scanning' = [scanning EXCEPT ![v] = FALSE]
  /\ UNCHANGED <<visit, open, running, done, abort, loop, pending, progress, shown,
                 awaited, batch, job, created, reported>>

Unlist(v, p) ==
  /\ ListShown(v) /\ Listed(v, p)
  /\ filePaths' = [filePaths EXCEPT ![v] = Kept(@, Paths \ {p})]
  /\ fileMap' = [fileMap EXCEPT ![v][p] = "absent"]
  /\ UNCHANGED <<visit, open, running, done, abort, scanning, loop, pending, progress,
                 shown, awaited, batch, job, created, listed, reported>>

Clear(v) ==
  /\ ClearShown(v)
  /\ filePaths' = [filePaths EXCEPT ![v] = <<>>]
  /\ fileMap' = [fileMap EXCEPT ![v] = [p \in Paths |-> "absent"]]
  /\ shown' = [shown EXCEPT ![v] = NoProgress]
  /\ done' = [done EXCEPT ![v] = FALSE]
  /\ batch' = [batch EXCEPT ![v] = {}]
  /\ UNCHANGED <<visit, open, running, abort, scanning, loop, pending, progress, awaited,
                 job, created, listed, reported>>
-----------------------------------------------------------------------------
(* The loop of handleStart. *)

Started(v, files) == [NoProgress EXCEPT !.total = Len(files)]

Start(v) ==
  /\ StartEnabled(v)
  /\ running' = [running EXCEPT ![v] = TRUE]
  /\ done' = [done EXCEPT ![v] = FALSE]
  /\ abort' = [abort EXCEPT ![v] = FALSE]
  /\ pending' = [pending EXCEPT ![v] = PendingFiles(v)]
  /\ progress' = [progress EXCEPT ![v] = Started(v, PendingFiles(v))]
  /\ shown' = [shown EXCEPT ![v] = progress'[v]]
  /\ batch' = [batch EXCEPT ![v] = ToSet(PendingFiles(v))]
  /\ loop' = [loop EXCEPT ![v] = "logging"]
  /\ UNCHANGED <<visit, open, filePaths, fileMap, scanning, awaited, job, created, listed,
                 reported>>

\* The main process has opened the log file.
LogReady(v) ==
  /\ loop[v] = "logging"
  /\ loop' = [loop EXCEPT ![v] = "next"]
  /\ UNCHANGED <<visit, open, filePaths, fileMap, running, done, abort, scanning, pending,
                 progress, shown, awaited, batch, job, created, listed, reported>>

\* writeFileSync raises: handleStart is rejected and nothing resets `running`.
LogFails(v) ==
  /\ loop[v] = "logging"
  /\ loop' = [loop EXCEPT ![v] = "broken"]
  /\ UNCHANGED <<visit, open, filePaths, fileMap, running, done, abort, scanning, pending,
                 progress, shown, awaited, batch, job, created, listed, reported>>

Stop(v) ==
  /\ StopShown(v) /\ ~abort[v]
  /\ abort' = [abort EXCEPT ![v] = TRUE]
  /\ UNCHANGED <<visit, open, filePaths, fileMap, running, done, scanning, loop, pending,
                 progress, shown, awaited, batch, job, created, listed, reported>>

\* The timer that shows the counters, every 300 ms while the page is open.
Flush(v) ==
  /\ open /\ v = visit /\ loop[v] \in {"next", "waiting"}
  /\ shown[v] # progress[v]
  /\ shown' = [shown EXCEPT ![v] = progress[v]]
  /\ UNCHANGED <<visit, open, filePaths, fileMap, running, done, abort, scanning, loop,
                 pending, progress, awaited, batch, job, created, listed, reported>>

\* The verdict on the file at the head of the list.
Settle(v, outcome) ==
  LET p == Head(pending[v]) IN
  /\ fileMap' = [fileMap EXCEPT ![v][p] = outcome]
  /\ progress' = [progress EXCEPT ![v][outcome] = @ + 1]
  /\ pending' = [pending EXCEPT ![v] = Tail(@)]
  /\ reported' = [reported EXCEPT ![p] = @ + IF outcome = "done" THEN 1 ELSE 0]

\* A file of unknown type is skipped without a request.
Skip(v) ==
  /\ loop[v] = "next" /\ ~abort[v] /\ pending[v] # <<>>
  /\ Head(pending[v]) \notin Known
  /\ Settle(v, "skipped")
  /\ UNCHANGED <<visit, open, filePaths, running, done, abort, scanning, loop, shown,
                 awaited, batch, job, created, listed>>

\* Any other starts a job, whose first request is to create the resource.
Process(v) ==
  /\ loop[v] = "next" /\ ~abort[v] /\ pending[v] # <<>>
  /\ Head(pending[v]) \in Known
  /\ \E j \in JobIds :
       /\ job[j] = None
       /\ \A i \in JobIds : job[i] = None => j <= i
       /\ job' = [job EXCEPT ![j] =
            [path |-> Head(pending[v]), step |-> "create", cover |-> FALSE]]
       /\ awaited' = [awaited EXCEPT ![v] = j]
  /\ fileMap' = [fileMap EXCEPT ![v][Head(pending[v])] = "processing"]
  /\ loop' = [loop EXCEPT ![v] = "waiting"]
  /\ UNCHANGED <<visit, open, filePaths, running, done, abort, scanning, pending, progress,
                 shown, batch, created, listed, reported>>

\* Mutant: the counters are shown by the timer only.
MutLastFlush(v) == shown

LastFlush(v) == [shown EXCEPT ![v] = progress[v]]

\* The list is worked off, or the user has stopped the import.
Finish(v) ==
  /\ loop[v] = "next" /\ (abort[v] \/ pending[v] = <<>>)
  /\ loop' = [loop EXCEPT ![v] = "idle"]
  /\ running' = [running EXCEPT ![v] = FALSE]
  /\ done' = [done EXCEPT ![v] = TRUE]
  /\ shown' = LastFlush(v)
  /\ UNCHANGED <<visit, open, filePaths, fileMap, abort, scanning, pending, progress,
                 awaited, batch, job, created, listed, reported>>

Resume(v) ==
  /\ awaited' = [awaited EXCEPT ![v] = None]
  /\ loop' = [loop EXCEPT ![v] = "next"]

\* Mutant: the timer covers the first request only.
MutTimeout(v) ==
  /\ awaited[v] # None /\ job[awaited[v]].step = "create"
  /\ Settle(v, "error")
  /\ Resume(v)
  /\ UNCHANGED <<visit, open, filePaths, running, done, abort, scanning, shown, batch,
                 job, created, listed>>

\* processFile's timer wins: the file is reported as failed.  Its job stays.
Timeout(v) ==
  /\ awaited[v] # None
  /\ Settle(v, "error")
  /\ Resume(v)
  /\ UNCHANGED <<visit, open, filePaths, running, done, abort, scanning, shown, batch,
                 job, created, listed>>

-----------------------------------------------------------------------------
(* Jobs: _processFile, processEbook and processMusicOrVideo. *)

\* A job ends, as its last line of log says; the loop goes on if it waits.
End(j, outcome) ==
  /\ job' = [job EXCEPT ![j] = None]
  /\ IF \E v \in Visits : awaited[v] = j
     THEN \E v \in Visits : awaited[v] = j /\ Settle(v, outcome) /\ Resume(v)
     ELSE UNCHANGED <<fileMap, progress, pending, reported, awaited, loop>>

GoOn(j, step) ==
  /\ job' = [job EXCEPT ![j].step = step]
  /\ UNCHANGED <<fileMap, progress, pending, reported, awaited, loop>>

At(j, step) == job[j] # None /\ job[j].step = step

\* Nothing else of the pages changes when a job takes a step.
JobFrame ==
  UNCHANGED <<visit, open, filePaths, running, done, abort, scanning, shown, batch, listed>>

\* POST /resources adds a resource.
Inserted(j) == [created EXCEPT ![job[j].path] = @ + 1]

\* The resource is created ...
Created(j) ==
  /\ At(j, "create")
  /\ created' = Inserted(j)
  /\ IF job[j].path \in Extracted THEN GoOn(j, "extract") ELSE End(j, "done")
  /\ JobFrame

\* Mutant: a failed request is logged, and the job goes on.
MutCreateFails(j) ==
  /\ At(j, "create") /\ End(j, "done") /\ JobFrame
  /\ created' \in {created, Inserted(j)}

\* ... or the request fails, before or after the server has created it, or the
\* answer is lost, and the job ends.
CreateFails(j) ==
  /\ At(j, "create") /\ End(j, "error") /\ JobFrame
  /\ created' \in {created, Inserted(j)}

\* The file is read, and its metadata, its cover, both or nothing are found.
Extract(j) ==
  /\ At(j, "extract")
  /\ \E f \in IF job[j].path \in Epubs THEN EbookFindings ELSE MusicFindings :
       CASE f.found -> /\ job' = [job EXCEPT ![j].step = "meta", ![j].cover = f.cover]
                       /\ UNCHANGED <<fileMap, progress, pending, reported, awaited, loop>>
         [] ~f.found /\ f.cover -> GoOn(j, "cover")
         [] OTHER -> End(j, "done")
  /\ JobFrame /\ UNCHANGED created

\* The file cannot be read, is too large, or takes too long: a warning is logged
\* and the job is done.
ExtractFails(j) == At(j, "extract") /\ End(j, "done") /\ JobFrame /\ UNCHANGED created

\* The metadata is posted.  A failure is logged as an error, and then the job
\* logs "Done" like any other: the last line counts.
MetaPosted(j) ==
  /\ At(j, "meta")
  /\ IF job[j].cover THEN GoOn(j, "cover") ELSE End(j, "done")
  /\ JobFrame /\ UNCHANGED created

\* The cover is uploaded, or the upload fails with a warning.
CoverPosted(j) == At(j, "cover") /\ End(j, "done") /\ JobFrame /\ UNCHANGED created

-----------------------------------------------------------------------------
(* Navigation. *)

\* Leaving the page ends its interval, not its loop.
Leave ==
  /\ open
  /\ open' = FALSE
  /\ UNCHANGED <<visit, page, job, created, listed, reported>>

Return ==
  /\ ~open /\ visit < MaxVisits
  /\ open' = TRUE
  /\ visit' = visit + 1
  /\ UNCHANGED <<page, job, created, listed, reported>>

Next ==
  \/ \E v \in Visits :
       \/ \E p \in Paths : PickFiles(v, p) \/ Drop(v, p) \/ Unlist(v, p)
       \/ PickDirectory(v) \/ Scanned(v) \/ Clear(v)
       \/ Start(v) \/ LogReady(v) \/ LogFails(v) \/ Stop(v) \/ Flush(v)
       \/ Skip(v) \/ Process(v) \/ Timeout(v) \/ Finish(v)
  \/ \E j \in JobIds : \/ Created(j) \/ CreateFails(j) \/ Extract(j) \/ ExtractFails(j)
                       \/ MetaPosted(j) \/ CoverPosted(j)
  \/ Leave \/ Return

Spec == Init /\ [][Next]_vars

\* The loop runs when it can and timers go off.  Servers and users owe nothing.
ImportFairness ==
  \A v \in Visits : /\ WF_vars(LogReady(v) \/ LogFails(v))
                    /\ WF_vars(Skip(v) \/ Process(v) \/ Finish(v))
                    /\ WF_vars(Timeout(v))

FairSpec == Spec /\ ImportFairness

-----------------------------------------------------------------------------
(* Properties. *)

With(v, outcome) == {p \in batch[v] : fileMap[v][p] = outcome}

\* The numbers of a loop are those of the files it was started for, however its
\* jobs end: each outcome is counted once, a file is in process only while the
\* loop waits for it, and nothing is left when the loop has ended unless it was
\* stopped.  The page is never ahead of them, and its summary has these numbers.
SummaryExact == \A v \in Visits :
  loop[v] # "idle" \/ done[v] =>
    /\ progress[v].total = Cardinality(batch[v])
    /\ \A o \in Outcomes : progress[v][o] = Cardinality(With(v, o))
    /\ With(v, "processing") =
         IF awaited[v] = None THEN {} ELSE {job[awaited[v]].path}
    /\ ProgressShown(v) => /\ shown[v].total = progress[v].total
                           /\ \A o \in Outcomes : shown[v][o] <= progress[v][o]
    /\ SummaryShown(v) => shown[v] = progress[v]
    /\ done[v] => (With(v, "pending") # {} => abort[v])

\* No import is repeated and none is made up: a file has at most as many
\* resources as it was put on a list, and at least as many as it was reported as
\* done, with jobs that outlive their time-out and loops that outlive their page.
NoneLostNoneRepeated == \A p \in Paths :
  reported[p] <= created[p] /\ created[p] <= listed[p]

\* An import ends even if no request is ever answered, unless its log file
\* cannot be written.
ImportEnds == \A v \in Visits : running[v] ~> (~running[v] \/ loop[v] = "broken")

\* batchImport.ts:48: the time-out is the budget of everything that is done for
\* a file.  So no resource is created for a file nobody waits for any more.
BudgetIsTotal == [][\A j \in JobIds :
  (\A v \in Visits : awaited[v] # j) => ~Created(j)]_vars
=============================================================================
