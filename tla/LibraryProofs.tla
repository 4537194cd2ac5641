--------------------------- MODULE LibraryProofs ---------------------------
(***************************************************************************)
(* Proofs about Library, for any resources, filter and handlers.           *)
(*                                                                         *)
(* SomeCopyKept is strengthened by naming the copy that survives: while    *)
(* commands are given one at a time and on an up-to-date group, there is   *)
(* an active copy that no running handler is going to delete.              *)
(***************************************************************************)
EXTENDS Library, FiniteSetTheorems, TLAPS

\* The group that is shown, or comes with the fetch under way, consists of copies.
GroupInv ==
  /\ Shown("dups") \subseteq Copies
  /\ fetch["dups"] \notin {None, Sent} => fetch["dups"] \subseteq Copies

\* A fetch that brings a copy deleted since was left running by an invalidation.
FetchInv == fetch["dups"] \notin {None, Sent} =>
  \A c \in fetch["dups"] : ~active[c] => outrun \/ dead

Safe(c) == active[c] /\ \A t \in Running : c \notin task[t].todo

KeptInv == ~reckless => \E c \in Copies : Safe(c)

-----------------------------------------------------------------------------
(* Cardinalities. *)

\* Of two or more, one is another.
LEMMA AnotherOne ==
  ASSUME NEW S, IsFiniteSet(S), Cardinality(S) > 1, NEW x
  PROVE  \E y \in S : y # x
<1> SUFFICES ASSUME S \subseteq {x} PROVE FALSE
  OBVIOUS
<1>1. CASE S = {}
  BY <1>1, FS_EmptySet
<1>2. CASE S = {x}
  BY <1>2, FS_Singleton
<1> QED
  BY <1>1, <1>2

\* A group of duplicates that is not empty has at least two members.
LEMMA GroupSize ==
  ASSUME StoreTypeOK, NEW x \in Duplicates
  PROVE  /\ active[x]
         /\ \E y \in Duplicates : y # x
<1>1. Duplicates = Active \cap Copies /\ Cardinality(Active \cap Copies) > 1
  BY DEF Duplicates
<1>2. IsFiniteSet(Active \cap Copies)
  BY CopiesAssumption, FS_Subset
<1>3. \E y \in Active \cap Copies : y # x
  BY <1>1, <1>2, AnotherOne
<1> QED
  BY <1>1, <1>3 DEF Active

\* There is a copy.
LEMMA CopyExists == \E c \in Copies : TRUE
<1> SUFFICES ASSUME Copies = {} PROVE FALSE
  OBVIOUS
<1> QED
  BY CopiesAssumption, FS_EmptySet

-----------------------------------------------------------------------------
(* The drafts of the batch edit. *)

\* Drafts leave out only what could not be loaded.
LEMMA DraftsAreWhole ==
  ASSUME NEW is, NEW r, NEW f, MadeDrafts(is, r, f) # <<>>
  PROVE  is \ f \subseteq DOMAIN MadeDrafts(is, r, f)
  BY DEF MadeDrafts

\* Drafts are of the resources that are edited.
LEMMA DraftsType ==
  ASSUME NEW is \in SUBSET Ids, NEW r \in [Ids -> BOOLEAN \cup {None}], NEW f
  PROVE  MadeDrafts(is, r, f) \in Drafts /\ DOMAIN MadeDrafts(is, r, f) \subseteq is
<1> DEFINE loaded == {i \in is : r[i] # None}
<1>1. [i \in loaded |-> r[i]] \in [loaded -> BOOLEAN]
  OBVIOUS
<1>2. loaded \subseteq Ids /\ loaded \subseteq is
  OBVIOUS
<1>3. [i \in loaded |-> r[i]] \in Drafts
  BY <1>1, <1>2 DEF Drafts
<1>4. <<>> \in [{} -> BOOLEAN]
  OBVIOUS
<1>5. <<>> \in Drafts /\ DOMAIN <<>> = {}
  BY <1>4 DEF Drafts
<1> QED
  BY <1>1, <1>2, <1>3, <1>5 DEF MadeDrafts

-----------------------------------------------------------------------------
(* Types. *)

\* What the store is, apart from the resources themselves.
CacheOK ==
  /\ fetch \in [Lists -> (SUBSET Ids) \cup {None, Sent}]
  /\ stale \in BOOLEAN /\ outrun \in BOOLEAN /\ late \in BOOLEAN
  /\ outrun => fetch["dups"] \notin {None, Sent}
  /\ fetch["dups"] \notin {None, Sent} => fetch["dups"] \subseteq Copies

\* An invalidation starts fetches and leaves others running.
LEMMA InvalidateType ==
  ASSUME StoreTypeOK, GroupInv, NEW ks, Invalidate(ks)
  PROVE  CacheOK'
<1>1. fetch' \in [Lists -> (SUBSET Ids) \cup {None, Sent}]
      /\ fetch'["dups"] \in {fetch["dups"], Sent}
  BY DEF Invalidate, StoreTypeOK, Lists
<1>2. CASE "dups" \in ks /\ LeftRunning("dups")
  <2>1. fetch'["dups"] = fetch["dups"] /\ fetch["dups"] \notin {None, Sent}
    BY <1>2 DEF Invalidate, LeftRunning, Lists
  <2> QED
    BY <1>1, <1>2, <2>1 DEF Invalidate, StoreTypeOK, GroupInv, CacheOK
<1>3. CASE "dups" \in ks /\ ~LeftRunning("dups")
  <2>1. outrun' = FALSE /\ stale' \in BOOLEAN /\ late' = late
    BY <1>3 DEF Invalidate, LeftRunning
  <2> QED
    BY <1>1, <2>1 DEF StoreTypeOK, GroupInv, CacheOK
<1>4. CASE "dups" \notin ks
  <2>1. fetch'["dups"] = fetch["dups"] /\ outrun' = outrun /\ late' = late /\ stale' = stale
    BY <1>4 DEF Invalidate, Lists, StoreTypeOK
  <2> QED
    BY <1>1, <2>1 DEF StoreTypeOK, GroupInv, CacheOK
<1> QED
  BY <1>2, <1>3, <1>4

\* The store after a step of a fetch.
LEMMA FetchType ==
  ASSUME StoreTypeOK, GroupInv, NEW k \in Lists,
         Fetch(k) \/ Serve(k) \/ Fetched(k) \/ FetchFails(k)
  PROVE  StoreTypeOK' /\ GroupInv'
<1>1. CASE Fetch(k)
  BY <1>1 DEF Fetch, StoreTypeOK, GroupInv, Shown, Lists
<1>2. CASE Serve(k)
  <2>1. Served(k) \in SUBSET Ids /\ (k = "dups" => Served(k) \subseteq Copies)
    BY DEF Served, Active, Duplicates
  <2>2. fetch' \in [Lists -> (SUBSET Ids) \cup {None, Sent}]
    BY <1>2, <2>1 DEF Serve, StoreTypeOK
  <2>3. fetch'["dups"] = IF k = "dups" THEN Served(k) ELSE fetch["dups"]
    BY <1>2 DEF Serve, StoreTypeOK, Lists
  <2>4. k = "dups" => ~outrun
    BY <1>2 DEF Serve, StoreTypeOK
  <2> QED
    BY <1>2, <2>1, <2>2, <2>3, <2>4 DEF Serve, StoreTypeOK, GroupInv, Shown
<1>3. CASE Fetched(k)
  <2>1. fetch[k] \in SUBSET Ids
    BY <1>3 DEF Fetched, StoreTypeOK
  <2>2. lists' \in [Lists -> (SUBSET Ids) \cup {None}]
        /\ fetch' \in [Lists -> (SUBSET Ids) \cup {None, Sent}]
    BY <1>3, <2>1 DEF Fetched, StoreTypeOK
  <2>3. lists'["dups"] = IF k = "dups" THEN fetch[k] ELSE lists["dups"]
    BY <1>3 DEF Fetched, StoreTypeOK, Lists
  <2>4. fetch'["dups"] = IF k = "dups" THEN None ELSE fetch["dups"]
    BY <1>3 DEF Fetched, StoreTypeOK, Lists
  <2>5. StoreTypeOK'
    BY <1>3, <2>2, <2>4 DEF Fetched, StoreTypeOK
  <2>6. GroupInv'
    BY <1>3, <2>3, <2>4 DEF Fetched, GroupInv, Shown
  <2> QED
    BY <2>5, <2>6
<1>4. CASE FetchFails(k)
  <2>1. fetch' \in [Lists -> (SUBSET Ids) \cup {None, Sent}]
    BY <1>4 DEF FetchFails, StoreTypeOK
  <2>2. fetch'["dups"] = IF k = "dups" THEN None ELSE fetch["dups"]
    BY <1>4 DEF FetchFails, StoreTypeOK, Lists
  <2> QED
    BY <1>4, <2>1, <2>2 DEF FetchFails, StoreTypeOK, GroupInv, Shown
<1> QED
  BY <1>1, <1>2, <1>3, <1>4

\* The store keeps its types.
LEMMA StoreTypes ==
  ASSUME TypeOK, GroupInv, [Next]_vars
  PROVE  StoreTypeOK' /\ GroupInv'
<1> USE DEF TypeOK
<1>1. ASSUME UNCHANGED <<lists, rows>>, active' \in [Ids -> BOOLEAN],
             page' \in {"list", "edit", "conflicts"}, CacheOK'
      PROVE  StoreTypeOK' /\ GroupInv'
  BY <1>1 DEF StoreTypeOK, GroupInv, Shown, CacheOK
<1>2. active \in [Ids -> BOOLEAN] /\ page \in {"list", "edit", "conflicts"} /\ CacheOK
  BY DEF StoreTypeOK, GroupInv, CacheOK
<1>3. UNCHANGED <<stale, fetching>> => CacheOK'
  BY <1>2 DEF fetching, CacheOK
<1>4. CASE UNCHANGED store
  BY <1>1, <1>2, <1>3, <1>4 DEF store
<1>5. CASE UNCHANGED vars
  BY <1>4, <1>5 DEF vars
<1>6. ASSUME NEW p \in {"list", "conflicts"}, Goto(p) PROVE StoreTypeOK' /\ GroupInv'
  BY <1>1, <1>2, <1>3, <1>6 DEF Goto
<1>7. CASE EditSelected
  BY <1>1, <1>2, <1>3, <1>7 DEF EditSelected
<1>8. ASSUME NEW k \in Lists, Fetch(k) \/ Serve(k) \/ Fetched(k) \/ FetchFails(k)
      PROVE  StoreTypeOK' /\ GroupInv'
  BY <1>8, FetchType
<1>9. CASE Refresh
  BY <1>1, <1>2, <1>9, InvalidateType DEF Refresh
<1>10. CASE ListStep
  BY <1>4, <1>10 DEF ListStep, ToggleOne, ToggleAll, DeleteSelected
<1>11. CASE EditStep
  <2>1. ASSUME NEW i \in Ids, RowLoaded(i) PROVE StoreTypeOK' /\ GroupInv'
    <3>1. rows' \in [Ids -> BOOLEAN \cup {None}]
      BY <2>1 DEF RowLoaded, StoreTypeOK
    <3> QED
      BY <1>2, <2>1, <3>1 DEF RowLoaded, fetching, StoreTypeOK, GroupInv, Shown
  <2>2. CASE UNCHANGED store
    BY <1>4, <2>2
  <2> QED
    BY <1>11, <2>1, <2>2 DEF EditStep, RowFails, CopyToAll, UpdateDraft, Save
<1>12. CASE ConflictsStep
  BY <1>4, <1>12 DEF ConflictsStep, KeepOnly, Delete
<1>13. CASE BulkEnds
  <2>1. Deleted \in [Ids -> BOOLEAN]
    BY DEF Deleted, StoreTypeOK
  <2> QED
    BY <1>1, <1>2, <1>3, <1>13, <2>1, InvalidateType DEF BulkEnds, BulkAnswered, BulkFails
<1>14. CASE SaveEnds
  <2>1. save # None => Written \in [Ids -> BOOLEAN]
    BY DEF Written, StoreTypeOK, EditTypeOK, Saves, Drafts
  <2> QED
    BY <1>1, <1>2, <1>3, <1>14, <2>1, InvalidateType DEF SaveEnds, SaveAnswered, SaveFails
<1>15. ASSUME NEW t \in Tasks, TaskEnds(t) PROVE StoreTypeOK' /\ GroupInv'
  <2>1. Gone(t) \in [Ids -> BOOLEAN]
    BY DEF Gone, StoreTypeOK
  <2> QED
    BY <1>1, <1>2, <1>3, <1>15, <2>1, InvalidateType DEF TaskEnds, Answered, Fails
<1> QED
  BY <1>5, <1>6, <1>7, <1>8, <1>9, <1>10, <1>11, <1>12, <1>13, <1>14, <1>15 DEF Next

\* The list page keeps its types, and has no state when it is not shown.
LEMMA ListTypes ==
  ASSUME TypeOK, [Next]_vars
  PROVE  ListTypeOK'
<1> USE DEF TypeOK
<1>1. CASE UNCHANGED listPage /\ UNCHANGED page
  BY <1>1 DEF ListTypeOK, listPage
<1>2. CASE ListClosed
  BY <1>2 DEF ListTypeOK, ListClosed, Bulks
<1>3. CASE UNCHANGED vars
  BY <1>1, <1>3 DEF vars, store
<1>4. ASSUME NEW p \in {"list", "conflicts"}, Goto(p) PROVE ListTypeOK'
  BY <1>2, <1>4 DEF Goto
<1>5. CASE EditSelected
  BY <1>2, <1>5 DEF EditSelected
<1>6. ASSUME NEW k \in Lists, Fetch(k) \/ Serve(k) \/ Fetched(k) \/ FetchFails(k)
      PROVE  ListTypeOK'
  BY <1>1, <1>6 DEF Fetch, Serve, Fetched, FetchFails
<1>13. CASE Refresh
  BY <1>1, <1>13 DEF Refresh
<1>7. CASE ListStep
  <2>1. Shown("list") \subseteq Ids
    BY DEF StoreTypeOK, Shown, Lists
  <2>2. ASSUME NEW i \in Ids, ToggleOne(i) PROVE ListTypeOK'
    BY <2>2 DEF ToggleOne, RowListed, TableShown, ListTypeOK, store
  <2>3. CASE ToggleAll
    BY <2>1, <2>3 DEF ToggleAll, TableShown, ListTypeOK, store
  <2>4. CASE DeleteSelected
    BY <2>4 DEF DeleteSelected, DeleteEnabled, ButtonsShown, ListTypeOK, Bulks, store
  <2> QED
    BY <1>7, <2>2, <2>3, <2>4 DEF ListStep
<1>8. CASE EditStep
  BY <1>1, <1>8 DEF EditStep, RowLoaded, RowFails, CopyToAll, UpdateDraft, Save, store
<1>9. CASE ConflictsStep
  BY <1>1, <1>9 DEF ConflictsStep, KeepOnly, Delete, store
<1>10. CASE BulkEnds
  <2>1. bulk' = None /\ UNCHANGED page
    BY <1>10 DEF BulkEnds, BulkAnswered, BulkFails
  <2>2. CASE UNCHANGED <<selected, deleting>>
    BY <2>1, <2>2 DEF ListTypeOK
  <2>3. CASE selected' = {} /\ deleting' = FALSE
    BY <2>1, <2>3 DEF ListTypeOK
  <2> QED
    BY <1>10, <2>2, <2>3 DEF BulkEnds, BulkAnswered, BulkFails
<1>11. CASE SaveEnds
  <2>1. CASE SaveAnswered /\ page = "list" /\ UNCHANGED listPage
    BY <1>1, <2>1 DEF SaveAnswered
  <2>2. CASE SaveFails /\ UNCHANGED listPage
    BY <1>1, <2>2 DEF SaveFails
  <2> QED
    BY <1>2, <1>11, <2>1, <2>2 DEF SaveEnds
<1>12. ASSUME NEW t \in Tasks, TaskEnds(t) PROVE ListTypeOK'
  BY <1>1, <1>12 DEF TaskEnds, Answered, Fails
<1> QED
  BY <1>3, <1>4, <1>5, <1>6, <1>7, <1>8, <1>9, <1>10, <1>11, <1>12, <1>13 DEF Next

\* The batch edit keeps its types.
LEMMA EditTypes ==
  ASSUME TypeOK, [Next]_vars
  PROVE  EditTypeOK'
<1> USE DEF TypeOK
<1>1. CASE UNCHANGED editPage /\ UNCHANGED page
  BY <1>1 DEF EditTypeOK, editPage
<1>2. ASSUME drafts' = <<>>, ids' = {}, failed' = {}, saving' = FALSE,
             save' = None \/ (save # None /\ save' = [save EXCEPT !.mine = FALSE])
      PROVE  EditTypeOK'
  <2>1. {} \subseteq Ids /\ drafts' \in Drafts /\ DOMAIN drafts' = {}
    <3>1. <<>> \in [{} -> BOOLEAN]
      OBVIOUS
    <3> QED
      BY <1>2, <3>1 DEF Drafts
  <2>2. save' \in Saves \cup {None}
    BY <1>2 DEF EditTypeOK, Saves
  <2>3. save' = None \/ ~save'.mine
    BY <1>2 DEF EditTypeOK, Saves
  <2> QED
    BY <1>2, <2>1, <2>2, <2>3 DEF EditTypeOK
<1>3. CASE EditClosed
  BY <1>2, <1>3 DEF EditClosed
<1>4. CASE UNCHANGED vars
  BY <1>1, <1>4 DEF vars, store
<1>5. ASSUME NEW p \in {"list", "conflicts"}, Goto(p) PROVE EditTypeOK'
  BY <1>3, <1>5 DEF Goto
<1>6. CASE EditSelected
  <2>1. selected \in SUBSET Ids /\ rows \in [Ids -> BOOLEAN \cup {None}]
    BY DEF ListTypeOK, StoreTypeOK
  <2>2. drafts' \in Drafts /\ DOMAIN drafts' \subseteq ids' /\ ids' \subseteq Ids
    BY <1>6, <2>1, DraftsType DEF EditSelected, EditOpened
  <2>3. page = "list" /\ page' = "edit" /\ failed' = {} /\ saving' = FALSE /\ save' = save
    BY <1>6 DEF EditSelected, EditOpened, ButtonsShown
  <2>4. ~(save # None /\ save.mine)
    BY <2>3 DEF EditTypeOK
  <2> QED
    BY <2>2, <2>3, <2>4 DEF EditTypeOK
<1>7. ASSUME NEW k \in Lists, Fetch(k) \/ Serve(k) \/ Fetched(k) \/ FetchFails(k)
      PROVE  EditTypeOK'
  BY <1>1, <1>7 DEF Fetch, Serve, Fetched, FetchFails
<1>15. CASE Refresh
  BY <1>1, <1>15 DEF Refresh
<1>8. CASE ListStep
  BY <1>1, <1>8 DEF ListStep, ToggleOne, ToggleAll, DeleteSelected, store
<1>9. ASSUME UNCHANGED <<page, ids, saving, save>>, failed' \subseteq ids,
             drafts' \in Drafts, DOMAIN drafts' \subseteq ids
      PROVE  EditTypeOK'
  BY <1>9 DEF EditTypeOK
<1>10. CASE EditStep
  <2>1. ids \in SUBSET Ids /\ rows \in [Ids -> BOOLEAN \cup {None}]
        /\ drafts \in Drafts /\ DOMAIN drafts \subseteq ids /\ failed \subseteq ids
    BY DEF EditTypeOK, StoreTypeOK
  <2>2. \A s \in [DOMAIN drafts -> BOOLEAN] : s \in Drafts /\ DOMAIN s \subseteq ids
    BY <2>1 DEF Drafts
  <2>3. drafts \in [DOMAIN drafts -> BOOLEAN]
    BY <2>1 DEF Drafts
  <2>4. ASSUME NEW i \in Ids, RowLoaded(i) PROVE EditTypeOK'
    <3>1. rows' \in [Ids -> BOOLEAN \cup {None}]
      BY <2>4 DEF RowLoaded, StoreTypeOK
    <3> QED
      BY <1>9, <2>1, <2>4, <3>1, DraftsType DEF RowLoaded
  <2>5. ASSUME NEW i \in Ids, RowFails(i) PROVE EditTypeOK'
    BY <1>9, <2>1, <2>5, DraftsType DEF RowFails, store
  <2>6. ASSUME NEW i \in Ids, CopyToAll(i) PROVE EditTypeOK'
    <3>1. drafts' \in [DOMAIN drafts -> BOOLEAN]
      BY <2>3, <2>6 DEF CopyToAll, CopyShown, DraftShown
    <3> QED
      BY <1>9, <2>1, <2>2, <2>6, <3>1 DEF CopyToAll, store
  <2>7. ASSUME NEW i \in Ids, NEW v \in BOOLEAN, UpdateDraft(i, v) PROVE EditTypeOK'
    <3>1. drafts' \in [DOMAIN drafts -> BOOLEAN]
      BY <2>3, <2>7 DEF UpdateDraft
    <3> QED
      BY <1>9, <2>1, <2>2, <2>7, <3>1 DEF UpdateDraft, store
  <2>8. CASE Save
    <3>1. save' \in Saves /\ save'.mine
      BY <2>1, <2>8 DEF Save, Saves
    <3> QED
      BY <2>8, <3>1, SavesAssumption DEF Save, SaveEnabled, EditShown, EditTypeOK, store
  <2> QED
    BY <1>10, <2>4, <2>5, <2>6, <2>7, <2>8 DEF EditStep
<1>11. CASE ConflictsStep
  BY <1>1, <1>11 DEF ConflictsStep, KeepOnly, Delete, store
<1>12. CASE BulkEnds
  BY <1>1, <1>12 DEF BulkEnds, BulkAnswered, BulkFails
<1>13. CASE SaveEnds
  <2>1. CASE SaveAnswered
    BY <1>2, <2>1 DEF SaveAnswered
  <2>2. CASE SaveFails
    BY <2>2 DEF SaveFails, EditTypeOK
  <2> QED
    BY <1>13, <2>1, <2>2 DEF SaveEnds
<1>14. ASSUME NEW t \in Tasks, TaskEnds(t) PROVE EditTypeOK'
  BY <1>1, <1>14 DEF TaskEnds, Answered, Fails
<1> QED
  BY <1>4, <1>5, <1>6, <1>7, <1>8, <1>10, <1>11, <1>12, <1>13, <1>14, <1>15 DEF Next

-----------------------------------------------------------------------------
(* The handlers of the conflicts page. *)

\* What a handler that starts or goes on leaves in the table of handlers.
HandlersOK(f) ==
  /\ f \in [Tasks -> TaskRecords \cup {None}]
  /\ \A t \in Tasks : f[t] # None => f[t].at \in f[t].todo

\* A handler starts.
LEMMA RunType ==
  ASSUME ConflictsTypeOK, NEW todo \in SUBSET Copies, Run(todo)
  PROVE  HandlersOK(task')
<1>1. PICK t \in Tasks, i \in todo :
        task' = [task EXCEPT ![t] = [todo |-> todo, at |-> i, mine |-> TRUE]]
  BY DEF Run
<1>2. [todo |-> todo, at |-> i, mine |-> TRUE] \in TaskRecords
  BY DEF TaskRecords
<1> QED
  BY <1>1, <1>2 DEF HandlersOK, ConflictsTypeOK, Running

\* A handler goes on or ends.
LEMMA EndType ==
  ASSUME ConflictsTypeOK, NEW t \in Tasks, TaskEnds(t)
  PROVE  HandlersOK(task')
<1>1. CASE task' = [task EXCEPT ![t] = None]
  BY <1>1 DEF HandlersOK, ConflictsTypeOK, Running
<1>2. ASSUME NEW i \in task[t].todo \ {task[t].at}, task[t] # None,
             task' = [task EXCEPT ![t] = [@ EXCEPT !.todo = task[t].todo \ {task[t].at},
                                                   !.at = i]]
      PROVE  HandlersOK(task')
  <2> DEFINE r == [task[t] EXCEPT !.todo = task[t].todo \ {task[t].at}, !.at = i]
  <2>1. task[t] \in TaskRecords
    BY <1>2 DEF ConflictsTypeOK
  <2>2. r \in TaskRecords /\ r.at \in r.todo
    BY <1>2, <2>1 DEF TaskRecords
  <2>3. task' = [task EXCEPT ![t] = r]
    BY <1>2
  <2> HIDE DEF r
  <2> QED
    BY <2>2, <2>3 DEF HandlersOK, ConflictsTypeOK, Running
<1> QED
  BY <1>1, <1>2 DEF TaskEnds, Answered, Fails

\* The card goes away, its handlers go on.
LEMMA CardClosedType ==
  ASSUME ConflictsTypeOK, CardClosed
  PROVE  HandlersOK(task') /\ busy' = NotBusy
<1>1. \A t \in Tasks : task[t] # None =>
        /\ [task[t] EXCEPT !.mine = FALSE] \in TaskRecords
        /\ [task[t] EXCEPT !.mine = FALSE].at = task[t].at
        /\ [task[t] EXCEPT !.mine = FALSE].todo = task[t].todo
  BY DEF ConflictsTypeOK, TaskRecords
<1> QED
  BY <1>1 DEF CardClosed, HandlersOK, ConflictsTypeOK, Running

\* The conflicts page keeps its types.
LEMMA ConflictsTypes ==
  ASSUME TypeOK, GroupInv, [Next]_vars
  PROVE  ConflictsTypeOK'
<1> USE DEF TypeOK
<1> DEFINE Marks == [Copies -> {"keeping", "deleting", None}]
<1>1. ASSUME HandlersOK(task'), busy' \in Marks,
             {reckless', dead'} \subseteq BOOLEAN, page' # "conflicts" => busy' = NotBusy
      PROVE  ConflictsTypeOK'
  BY <1>1 DEF ConflictsTypeOK, HandlersOK, Running
<1>2. NotBusy \in Marks
  BY DEF NotBusy
<1>3. /\ HandlersOK(task) /\ busy \in Marks /\ reckless \in BOOLEAN /\ dead \in BOOLEAN
      /\ page # "conflicts" => busy = NotBusy
  BY DEF ConflictsTypeOK, HandlersOK, Running
<1> HIDE DEF Marks
<1>4. CASE UNCHANGED <<task, busy, page>> /\ {reckless', dead'} \subseteq BOOLEAN
  BY <1>1, <1>3, <1>4
<1>5. CASE CardClosed /\ {reckless', dead'} \subseteq BOOLEAN
  BY <1>1, <1>2, <1>5, CardClosedType
<1>6. CASE UNCHANGED vars
  BY <1>3, <1>4, <1>6 DEF vars, store, conflictsPage
<1>7. ASSUME NEW p \in {"list", "conflicts"}, Goto(p) PROVE ConflictsTypeOK'
  BY <1>3, <1>5, <1>7 DEF Goto, ConflictsClosed
<1>8. CASE EditSelected
  BY <1>1, <1>2, <1>3, <1>8 DEF EditSelected, ButtonsShown, conflictsPage
<1>9. ASSUME NEW k \in Lists, Fetch(k) \/ Serve(k) \/ Fetched(k) \/ FetchFails(k)
      PROVE  ConflictsTypeOK'
  BY <1>3, <1>4, <1>5, <1>9 DEF Fetch, Serve, Fetched, FetchFails, conflictsPage
<1>16. CASE Refresh
  BY <1>3, <1>4, <1>16 DEF Refresh, conflictsPage
<1>10. CASE ListStep
  BY <1>3, <1>4, <1>10 DEF ListStep, ToggleOne, ToggleAll, DeleteSelected, conflictsPage, store
<1>11. CASE EditStep
  BY <1>3, <1>4, <1>11 DEF EditStep, RowLoaded, RowFails, CopyToAll, UpdateDraft, Save,
                           conflictsPage, store
<1>12. CASE ConflictsStep
  <2>1. page' = "conflicts" /\ UNCHANGED dead /\ reckless' \in BOOLEAN
    BY <1>12 DEF ConflictsStep, KeepOnly, Delete, Enabled, CopyRow, CardShown, Noted, store
  <2>2. ASSUME NEW k \in Copies, KeepOnly(k) PROVE ConflictsTypeOK'
    <3>1. HandlersOK(task')
      BY <2>2, RunType DEF KeepOnly, Others, GroupInv
    <3>2. busy' \in Marks
      BY <2>2 DEF KeepOnly, Marks
    <3> QED
      BY <1>1, <1>3, <2>1, <3>1, <3>2
  <2>3. ASSUME NEW i \in Copies, Delete(i) PROVE ConflictsTypeOK'
    <3>1. HandlersOK(task')
      BY <2>3, RunType DEF Delete
    <3>2. busy' \in Marks
      BY <1>3, <2>3 DEF Delete, Marks
    <3> QED
      BY <1>1, <1>3, <2>1, <3>1, <3>2
  <2> QED
    BY <1>12, <2>2, <2>3 DEF ConflictsStep
<1>13. CASE BulkEnds
  BY <1>3, <1>4, <1>13 DEF BulkEnds, BulkAnswered, BulkFails, Elsewhere
<1>14. CASE SaveEnds
  <2>1. reckless' \in BOOLEAN /\ dead' \in BOOLEAN
    BY <1>3, <1>14 DEF SaveEnds, Elsewhere
  <2>2. CASE SaveAnswered /\ page = "list" /\ UNCHANGED <<busy, task>>
    BY <1>3, <1>4, <2>1, <2>2 DEF SaveAnswered
  <2>3. CASE CardClosed
    BY <1>5, <2>1, <2>3
  <2>4. CASE SaveFails /\ UNCHANGED <<busy, task>>
    BY <1>3, <1>4, <2>1, <2>4 DEF SaveFails
  <2> QED
    BY <1>14, <2>2, <2>3, <2>4 DEF SaveEnds
<1>15. ASSUME NEW t \in Tasks, TaskEnds(t) PROVE ConflictsTypeOK'
  <2>1. busy' \in {busy, NotBusy} /\ UNCHANGED page /\ UNCHANGED reckless
        /\ dead' \in BOOLEAN
    BY <1>3, <1>15 DEF TaskEnds, Answered, Fails
  <2> QED
    BY <1>1, <1>2, <1>3, <1>15, <2>1, EndType
<1> QED
  BY <1>6, <1>7, <1>8, <1>9, <1>10, <1>11, <1>12, <1>13, <1>14, <1>15, <1>16 DEF Next

-----------------------------------------------------------------------------
(* A copy is kept. *)

\* A copy stays safe while it stays active and no handler gets more to delete.
LEMMA StaysSafe ==
  ASSUME KeptInv, ~reckless' => ~reckless,
         ~reckless' => \A c \in Copies : Safe(c) => active'[c],
         \A t \in Running' : t \in Running /\ task'[t].todo \subseteq task[t].todo
  PROVE  KeptInv'
  BY DEF KeptInv, Safe

\* A handler that starts leaves one copy alone.
LEMMA StartKeeps ==
  ASSUME TypeOK, NEW todo, Run(todo), Running = {}, UNCHANGED active,
         NEW c \in Copies, active[c], c \notin todo
  PROVE  Safe(c)'
<1>1. PICK t \in Tasks, i \in todo :
        task' = [task EXCEPT ![t] = [todo |-> todo, at |-> i, mine |-> TRUE]]
  BY DEF Run
<1>2. \A u \in Running' : u = t /\ task'[u].todo = todo
  BY <1>1 DEF Running, TypeOK, ConflictsTypeOK
<1> QED
  BY <1>2 DEF Safe

\* A step keeps a copy out of every handler's reach.
LEMMA KeptStep ==
  ASSUME TypeOK, GroupInv, KeptInv, [Next]_vars
  PROVE  KeptInv'
<1>1. CASE UNCHANGED <<active, task, reckless>>
  BY <1>1 DEF KeptInv, Safe, Running
<1>2. CASE CardClosed /\ UNCHANGED <<active, reckless>>
  <2>1. \A t \in Running' : t \in Running /\ task'[t].todo = task[t].todo
    BY <1>2 DEF CardClosed, Running, TypeOK, ConflictsTypeOK, TaskRecords
  <2> QED
    BY <1>2, <2>1, StaysSafe DEF Safe
<1>3. CASE UNCHANGED vars
  BY <1>1, <1>3 DEF vars, store, conflictsPage
<1>4. ASSUME NEW p \in {"list", "conflicts"}, Goto(p) PROVE KeptInv'
  BY <1>2, <1>4 DEF Goto, ConflictsClosed
<1>5. CASE EditSelected
  BY <1>1, <1>5 DEF EditSelected, conflictsPage
<1>6. ASSUME NEW k \in Lists, Fetch(k) \/ Serve(k) \/ Fetched(k) \/ FetchFails(k)
      PROVE  KeptInv'
  BY <1>1, <1>2, <1>6 DEF Fetch, Serve, Fetched, FetchFails, conflictsPage
<1>14. CASE Refresh
  BY <1>1, <1>14 DEF Refresh, conflictsPage
<1>7. CASE ListStep
  BY <1>1, <1>7 DEF ListStep, ToggleOne, ToggleAll, DeleteSelected, conflictsPage, store
<1>8. CASE EditStep
  BY <1>1, <1>8 DEF EditStep, RowLoaded, RowFails, CopyToAll, UpdateDraft, Save,
                    conflictsPage, store
<1>9. CASE ConflictsStep
  <2>1. UNCHANGED active /\ Noted
    BY <1>9 DEF ConflictsStep, KeepOnly, Delete, store
  <2>2. CASE reckless'
    BY <2>2 DEF KeptInv
  <2>3. CASE ~reckless'
    <3>1. Running = {} /\ Shown("dups") = Duplicates
      BY <2>1, <2>3 DEF Noted
    <3>2. ASSUME NEW k \in Copies, KeepOnly(k) PROVE KeptInv'
      <4>1. active[k]
        BY <3>1, <3>2, GroupSize DEF KeepOnly, Enabled, CopyRow, TypeOK
      <4>2. Safe(k)'
        BY <2>1, <3>1, <3>2, <4>1, StartKeeps DEF KeepOnly, Others
      <4> QED
        BY <4>2 DEF KeptInv
    <3>3. ASSUME NEW i \in Copies, Delete(i) PROVE KeptInv'
      <4>1. PICK c \in Duplicates : c # i
        BY <3>1, <3>3, GroupSize DEF Delete, Enabled, CopyRow, TypeOK
      <4>2. c \in Copies /\ active[c]
        BY <3>1, <4>1, GroupSize DEF GroupInv, TypeOK
      <4>3. Safe(c)'
        BY <2>1, <3>1, <3>3, <4>1, <4>2, StartKeeps DEF Delete
      <4> QED
        BY <4>2, <4>3 DEF KeptInv
    <3> QED
      BY <1>9, <3>2, <3>3 DEF ConflictsStep
  <2> QED
    BY <2>2, <2>3
<1>10. CASE Elsewhere /\ UNCHANGED task
  BY <1>10, StaysSafe DEF Elsewhere, Safe, Running
<1>11. CASE Elsewhere /\ CardClosed
  <2>1. \A t \in Running' : t \in Running /\ task'[t].todo = task[t].todo
    BY <1>11 DEF CardClosed, Running, TypeOK, ConflictsTypeOK, TaskRecords
  <2> QED
    BY <1>11, <2>1, StaysSafe DEF Elsewhere, Safe
<1>12. CASE BulkEnds \/ SaveEnds
  BY <1>10, <1>11, <1>12 DEF BulkEnds, SaveEnds
<1>13. ASSUME NEW t \in Tasks, TaskEnds(t) PROVE KeptInv'
  <2>1. t \in Running /\ task[t].at \in task[t].todo
    BY <1>13 DEF TaskEnds, Answered, Fails, Running, TypeOK, ConflictsTypeOK
  <2>2. active' \in {active, [active EXCEPT ![task[t].at] = FALSE]}
    BY <1>13 DEF TaskEnds, Answered, Fails, Gone
  <2>3. \A c \in Copies : Safe(c) => active'[c]
    BY <2>1, <2>2, CopiesAssumption DEF Safe, TypeOK, StoreTypeOK
  <2>4. \A u \in Running' : u \in Running /\ task'[u].todo \subseteq task[u].todo
    <3>1. CASE task' = [task EXCEPT ![t] = None]
      BY <3>1 DEF Running, TypeOK, ConflictsTypeOK
    <3>2. ASSUME NEW i,
                 task' = [task EXCEPT ![t] = [@ EXCEPT !.todo = task[t].todo \ {task[t].at},
                                                       !.at = i]]
          PROVE  \A u \in Running' : u \in Running /\ task'[u].todo \subseteq task[u].todo
      <4>1. task[t] \in TaskRecords
        BY <2>1 DEF Running, TypeOK, ConflictsTypeOK
      <4>2. task'[t].todo = task[t].todo \ {task[t].at}
        BY <3>2, <4>1 DEF TaskRecords, TypeOK, ConflictsTypeOK
      <4>3. \A u \in Tasks \ {t} : task'[u] = task[u]
        BY <3>2 DEF TypeOK, ConflictsTypeOK
      <4> QED
        BY <2>1, <4>2, <4>3 DEF Running
    <3> QED
      BY <1>13, <3>1, <3>2 DEF TaskEnds, Answered, Fails
  <2>5. UNCHANGED reckless
    BY <1>13 DEF TaskEnds, Answered, Fails
  <2> QED
    BY <2>3, <2>4, <2>5, StaysSafe
<1> QED
  BY <1>3, <1>4, <1>5, <1>6, <1>7, <1>8, <1>9, <1>12, <1>13, <1>14 DEF Next

-----------------------------------------------------------------------------
(* Drafts and deleted rows. *)

\* A step leaves no loaded resource out of the drafts.
LEMMA WholeStep ==
  ASSUME TypeOK, BatchIsWhole, [Next]_vars
  PROVE  BatchIsWhole'
<1>1. CASE UNCHANGED editPage
  BY <1>1 DEF BatchIsWhole, editPage
<1>2. CASE drafts' = <<>>
  BY <1>2 DEF BatchIsWhole
<1>3. CASE UNCHANGED <<ids, failed>> /\ drafts # <<>> /\ DOMAIN drafts' = DOMAIN drafts
  BY <1>3 DEF BatchIsWhole
<1>4. CASE EditSelected
  <2>1. failed' = {} /\ drafts' = MadeDrafts(ids', rows, {})
    BY <1>4 DEF EditSelected, EditOpened
  <2> QED
    BY <2>1, DraftsAreWhole DEF BatchIsWhole
<1>5. CASE EditStep
  <2>1. ASSUME NEW i \in Ids, RowLoaded(i) PROVE BatchIsWhole'
    BY <2>1, DraftsAreWhole DEF RowLoaded, BatchIsWhole
  <2>2. ASSUME NEW i \in Ids, RowFails(i) PROVE BatchIsWhole'
    BY <2>2, DraftsAreWhole DEF RowFails, BatchIsWhole
  <2>3. ASSUME NEW i \in Ids, CopyToAll(i) PROVE BatchIsWhole'
    BY <1>3, <2>3 DEF CopyToAll, CopyShown, DraftShown, EditShown
  <2>4. ASSUME NEW i \in Ids, NEW v \in BOOLEAN, UpdateDraft(i, v) PROVE BatchIsWhole'
    BY <1>3, <2>4 DEF UpdateDraft, DraftShown, EditShown
  <2>5. CASE Save
    BY <2>5 DEF Save, BatchIsWhole
  <2> QED
    BY <1>5, <2>1, <2>2, <2>3, <2>4, <2>5 DEF EditStep
<1>6. CASE SaveEnds
  BY <1>2, <1>6 DEF SaveEnds, SaveAnswered, SaveFails, BatchIsWhole
<1> QED
  BY <1>1, <1>2, <1>4, <1>5, <1>6
  DEF Next, Goto, EditClosed, Fetch, Serve, Fetched, FetchFails, Refresh, ListStep,
      ConflictsStep, BulkEnds, TaskEnds, vars

\* After an invalidation what is shown is marked, and what is under way excused.
LEMMA InvalidateMarks ==
  ASSUME StoreTypeOK, NEW ks, "dups" \in ks, Invalidate(ks), UNCHANGED lists
  PROVE  DeletedIsRefetched' /\ FetchInv'
<1>1. stale'
  BY DEF Invalidate
<1>2. ASSUME LeftRunning("dups") PROVE FetchInv'
  BY <1>2 DEF Invalidate, FetchInv
<1>3. ASSUME ~LeftRunning("dups") PROVE FetchInv'
  <2>1. fetch'["dups"] \in {None, Sent}
    BY <1>3 DEF Invalidate, LeftRunning, StoreTypeOK, Lists
  <2> QED
    BY <2>1 DEF FetchInv
<1>4. FetchInv'
  BY <1>2, <1>3
<1> QED
  BY <1>1, <1>4 DEF DeletedIsRefetched

\* A step leaves no deleted copy on the conflicts page without marking it.
LEMMA DeletedStep ==
  ASSUME TypeOK, DeletedIsRefetched, FetchInv, [Next]_vars
  PROVE  DeletedIsRefetched' /\ FetchInv'
<1> DEFINE P == DeletedIsRefetched /\ FetchInv
<1>1. CASE UNCHANGED <<active, lists, stale, fetching, dead>>
  BY <1>1 DEF DeletedIsRefetched, FetchInv, Shown, fetching
<1>2. CASE dead'
  BY <1>2 DEF DeletedIsRefetched, FetchInv
<1>3. ASSUME NEW ks, "dups" \in ks, Invalidate(ks), UNCHANGED lists PROVE P'
  BY <1>3, InvalidateMarks DEF TypeOK
<1>4. ASSUME NEW k \in Lists, Fetch(k) \/ Serve(k) \/ Fetched(k) \/ FetchFails(k)
      PROVE  P'
  <2>1. UNCHANGED <<active, dead>>
    BY <1>4 DEF Fetch, Serve, Fetched, FetchFails, conflictsPage
  <2>2. CASE k # "dups"
    <3>1. UNCHANGED <<stale, outrun, late>> /\ fetch'["dups"] = fetch["dups"]
          /\ lists'["dups"] = lists["dups"]
      BY <1>4, <2>2 DEF Fetch, Serve, Fetched, FetchFails, TypeOK, StoreTypeOK, Lists
    <3> QED
      BY <2>1, <3>1 DEF DeletedIsRefetched, FetchInv, Shown
  <2>3. CASE k = "dups" /\ (Fetch(k) \/ FetchFails(k))
    <3>1. fetch'["dups"] \in {None, Sent} /\ UNCHANGED <<lists, stale, late>>
      BY <2>3 DEF Fetch, FetchFails, TypeOK, StoreTypeOK, Lists
    <3> QED
      BY <2>1, <3>1 DEF DeletedIsRefetched, FetchInv, Shown
  <2>4. CASE k = "dups" /\ Serve(k)
    <3>1. fetch'["dups"] = Duplicates /\ UNCHANGED <<lists, stale, late>>
      BY <2>4 DEF Serve, Served, TypeOK, StoreTypeOK, Lists
    <3>2. Duplicates \subseteq Active
      BY DEF Duplicates
    <3> QED
      BY <2>1, <3>1, <3>2 DEF DeletedIsRefetched, FetchInv, Shown, Active
  <2>5. CASE k = "dups" /\ Fetched(k)
    <3>1. lists'["dups"] = fetch["dups"] /\ fetch'["dups"] = None /\ late' = outrun
          /\ fetch["dups"] \notin {None, Sent}
      BY <2>5 DEF Fetched, TypeOK, StoreTypeOK, Lists
    <3> QED
      BY <2>1, <3>1 DEF DeletedIsRefetched, FetchInv, Shown
  <2> QED
    BY <1>4, <2>2, <2>3, <2>4, <2>5
<1>5. CASE BulkEnds
  BY <1>2, <1>3, <1>5 DEF BulkEnds, BulkAnswered, Lists
<1>6. CASE SaveEnds
  BY <1>2, <1>3, <1>6 DEF SaveEnds, SaveAnswered, Lists
<1>7. ASSUME NEW t \in Tasks, TaskEnds(t) PROVE P'
  BY <1>2, <1>3, <1>7 DEF TaskEnds, Answered, Fails
<1>8. CASE EditStep
  BY <1>1, <1>8 DEF EditStep, RowLoaded, RowFails, CopyToAll, UpdateDraft, Save,
                    conflictsPage, store
<1>9. CASE ListStep \/ ConflictsStep
  BY <1>1, <1>9 DEF ListStep, ToggleOne, ToggleAll, DeleteSelected, ConflictsStep, KeepOnly,
                    Delete, conflictsPage, store
<1>10. CASE Refresh
  BY <1>3, <1>10 DEF Refresh
<1> QED
  BY <1>1, <1>4, <1>5, <1>6, <1>7, <1>8, <1>9, <1>10
  DEF Next, Goto, ConflictsClosed, EditSelected, conflictsPage, vars, store

-----------------------------------------------------------------------------
\* What every theorem below rests on.
LEMMA Base == Spec => [](TypeOK /\ GroupInv)
<1>1. Init => GroupInv
  BY DEF Init, StoreInit, GroupInv, Shown, Lists
<1>2. Init => StoreTypeOK
  BY DEF Init, StoreInit, StoreTypeOK
<1>3. Init => ListTypeOK
  BY DEF Init, ListInit, StoreInit, ListTypeOK
<1>4. Init => EditTypeOK
  <2>1. <<>> \in [{} -> BOOLEAN]
    OBVIOUS
  <2>2. <<>> \in Drafts /\ DOMAIN <<>> = {}
    BY <2>1 DEF Drafts
  <2> QED
    BY <2>2 DEF Init, EditInit, StoreInit, EditTypeOK
<1>5. Init => ConflictsTypeOK
  BY DEF Init, ConflictsInit, StoreInit, ConflictsTypeOK, NotBusy, Running
<1>6. Init => TypeOK
  BY <1>2, <1>3, <1>4, <1>5 DEF TypeOK
<1>7. TypeOK /\ GroupInv /\ [Next]_vars => (TypeOK /\ GroupInv)'
  BY StoreTypes, ListTypes, EditTypes, ConflictsTypes DEF TypeOK
<1> QED
  BY <1>1, <1>6, <1>7, PTL DEF Spec

\* Every variable keeps its type, and a page that is not shown has no state,
\* whatever its requests do after it was left.
THEOREM TypeCorrect == Spec => []TypeOK
  BY Base, PTL

\* Resolving duplicates leaves a copy of any number of copies, as long as each
\* command is given on an up-to-date group when no other is running.
THEOREM CopyKept == Spec => []SomeCopyKept
<1>1. Init => KeptInv
  BY CopyExists, CopiesAssumption
  DEF Init, StoreInit, ConflictsInit, KeptInv, Safe, Running
<1>2. KeptInv => SomeCopyKept
  BY DEF KeptInv, SomeCopyKept, Safe
<1>3. TypeOK /\ GroupInv /\ KeptInv /\ [Next]_vars => KeptInv'
  BY KeptStep
<1> QED
  BY <1>1, <1>2, <1>3, Base, PTL DEF Spec

\* A batch edit has drafts of all its resources that could be loaded, in
\* whatever order they were.
THEOREM BatchWhole == Spec => []BatchIsWhole
<1>1. Init => BatchIsWhole
  BY DEF Init, EditInit, BatchIsWhole
<1>2. TypeOK /\ BatchIsWhole /\ [Next]_vars => BatchIsWhole'
  BY WholeStep
<1> QED
  BY <1>1, <1>2, Base, PTL DEF Spec

\* What this client has deleted leaves the conflicts page with the next fetch,
\* unless an answer was lost or what is shown comes from a fetch that was served
\* before the deletion and left running by its invalidation.
THEOREM DeletedRefetched == Spec => []DeletedIsRefetched
<1>1. Init => DeletedIsRefetched /\ FetchInv
  BY DEF Init, StoreInit, DeletedIsRefetched, FetchInv, Shown, Lists
<1>2. TypeOK /\ DeletedIsRefetched /\ FetchInv /\ [Next]_vars
      => (DeletedIsRefetched /\ FetchInv)'
  BY DeletedStep
<1> QED
  BY <1>1, <1>2, Base, PTL DEF Spec
=============================================================================
