------------------------------ MODULE BatchEdit ------------------------------
(***************************************************************************)
(* Editing several resources at once, BatchEditPage.tsx.  The page loads   *)
(* each resource through the cache and makes its drafts once, from what is *)
(* there when the last query has ended.  Saving writes all drafts in one   *)
(* request and leaves for the list.                                        *)
(***************************************************************************)
EXTENDS ResourceStore

VARIABLES
  ids,        \* what the page was opened for
  failed,     \* the resources whose query has failed on this visit
  drafts,     \* the drafts, <<>> until they are made
  saving,     \* is the save button disabled?
  save        \* PATCH /resources: its drafts, and whether the page that sent
              \* it is still there

editPage == <<ids, failed, drafts, saving, save>>

Drafts == UNION {[s -> BOOLEAN] : s \in SUBSET Ids}
Saves == [drafts : Drafts, mine : BOOLEAN]

ASSUME SavesAssumption == None \notin Saves

EditTypeOK ==
  /\ ids \subseteq Ids /\ failed \subseteq ids
  /\ drafts \in Drafts /\ DOMAIN drafts \subseteq ids
  /\ saving \in BOOLEAN
  /\ save \in Saves \cup {None}
  /\ page # "edit" => ids = {} /\ ~saving
  /\ saving <=> save # None /\ save.mine

EditInit == ids = {} /\ failed = {} /\ drafts = <<>> /\ saving = FALSE /\ save = None

\* Mutant: the effect does not wait for the queries that are still loading.
MutMadeDrafts(is, r, f) ==
  LET loaded == {i \in is : r[i] # None} IN [i \in loaded |-> r[i]]

\* The effect on the queries: `is` are the ids, `r` the cached rows and `f` the
\* queries that have failed.  A resource that could not be loaded is left out.
MadeDrafts(is, r, f) ==
  LET loaded == {i \in is : r[i] # None} IN
  IF is = loaded \cup f THEN [i \in loaded |-> r[i]] ELSE <<>>

EditOpened(is) ==
  /\ ids' = is /\ failed' = {} /\ saving' = FALSE
  /\ drafts' = MadeDrafts(is, rows, {})
  /\ UNCHANGED save

EditClosed ==
  /\ ids' = {} /\ failed' = {} /\ drafts' = <<>> /\ saving' = FALSE
  /\ save' = IF save = None THEN None ELSE [save EXCEPT !.mine = FALSE]

\* A resource is fetched: for the first time or again.
RowLoaded(i) ==
  /\ page = "edit" /\ i \in ids
  /\ rows' = [rows EXCEPT ![i] = active[i]]
  /\ drafts' = IF drafts = <<>> THEN MadeDrafts(ids, rows', failed) ELSE drafts
  /\ UNCHANGED <<active, lists, stale, fetching, page, ids, failed, saving, save>>

\* The fetch and its retry fail; data that are there stay.
RowFails(i) ==
  /\ page = "edit" /\ i \in ids \ failed /\ rows[i] = None
  /\ failed' = failed \cup {i}
  /\ drafts' = IF drafts = <<>> THEN MadeDrafts(ids, rows, failed') ELSE drafts
  /\ UNCHANGED <<store, ids, saving, save>>

-----------------------------------------------------------------------------
(* The table of drafts, loading until there are some. *)

EditShown == page = "edit" /\ drafts # <<>>
DraftShown(i) == EditShown /\ i \in DOMAIN drafts
CopyShown(i) == DraftShown(i) /\ Cardinality(DOMAIN drafts) > 1
SaveEnabled == EditShown /\ ~saving

\* updateDraft.
UpdateDraft(i, v) ==
  /\ DraftShown(i) /\ drafts[i] # v
  /\ drafts' = [drafts EXCEPT ![i] = v]
  /\ UNCHANGED <<store, ids, failed, saving, save>>

CopyToAll(i) ==
  /\ CopyShown(i)
  /\ drafts' = [j \in DOMAIN drafts |-> drafts[i]]
  /\ UNCHANGED <<store, ids, failed, saving, save>>

\* handleSave sends the drafts as they are.
Save ==
  /\ SaveEnabled /\ save = None
  /\ saving' = TRUE
  /\ save' = [drafts |-> drafts, mine |-> TRUE]
  /\ UNCHANGED <<store, ids, failed, drafts>>

Written == [i \in Ids |-> IF i \in DOMAIN save.drafts THEN save.drafts[i] ELSE active[i]]

\* The lists are fetched again, the resources themselves are not.  The answer
\* leads to the list from wherever the user is.
SaveAnswered ==
  /\ save # None
  /\ active' = Written
  /\ Invalidate(Lists)
  /\ page' = "list"
  /\ save' = None
  /\ ids' = {} /\ failed' = {} /\ drafts' = <<>> /\ saving' = FALSE
  /\ UNCHANGED <<lists, rows>>

\* Mutant: no `finally`.
MutSaveFails ==
  /\ save # None
  /\ active' \in {active, Written}
  /\ save' = None
  /\ UNCHANGED <<lists, rows, stale, fetching, page, ids, failed, drafts, saving>>

\* The request or its answer is lost: an error is shown.
SaveFails ==
  /\ save # None
  /\ active' \in {active, Written}
  /\ save' = None
  /\ saving' = FALSE
  /\ UNCHANGED <<lists, rows, stale, fetching, page, ids, failed, drafts>>
=============================================================================
