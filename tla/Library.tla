------------------------------ MODULE Library ------------------------------
(***************************************************************************)
(* The pages of one client on which resources are deleted and edited in    *)
(* bulk, composed: the list, the batch edit and the conflicts page over    *)
(* one query cache and one server.  One page is shown at a time; requests  *)
(* go on when theirs is left.                                              *)
(***************************************************************************)
EXTENDS ResourceList, BatchEdit, Conflicts

CONSTANTS
  Pages,           \* bound: the pages that are opened
  MaxUnderWay,     \* bound: bulk requests and handlers at a time
  MaxFetches       \* bound: fetches that are under way when a page starts one

ASSUME PagesAssumption == Pages \subseteq {"list", "edit", "conflicts"}
ASSUME BoundsAssumption == {MaxUnderWay, MaxFetches} \subseteq Nat

vars == <<store, listPage, editPage, conflictsPage>>

TypeOK == StoreTypeOK /\ ListTypeOK /\ EditTypeOK /\ ConflictsTypeOK

Init == StoreInit /\ ListInit /\ EditInit /\ ConflictsInit

UnderWay == Cardinality(Running) + (IF bulk = None THEN 0 ELSE 1)
                                + (IF save = None THEN 0 ELSE 1)
Bounded == UnderWay' <= MaxUnderWay

-----------------------------------------------------------------------------
\* A link of the navigation.
Goto(p) ==
  /\ page # p /\ p \in Pages
  /\ page' = p
  /\ ListClosed /\ EditClosed /\ ConflictsClosed
  /\ UNCHANGED <<active, lists, rows, stale, fetching>>

\* editSelected, also while the selection is being deleted.
EditSelected ==
  /\ ButtonsShown /\ "edit" \in Pages
  /\ page' = "edit"
  /\ ListClosed /\ EditOpened(selected)
  /\ UNCHANGED <<active, lists, rows, stale, fetching, conflictsPage>>

\* A list that is shown is fetched: for the first time, after an invalidation,
\* or because its data have become stale ...
Fetch(k) ==
  /\ page = PageOf(k) /\ fetch[k] = None
  /\ Cardinality({l \in Lists : fetch[l] # None}) <= MaxFetches
  /\ fetch' = [fetch EXCEPT ![k] = Sent]
  /\ UNCHANGED <<active, lists, rows, stale, page, outrun, late, listPage, editPage,
                 conflictsPage>>

Serve(k) ==
  /\ fetch[k] = Sent
  /\ fetch' = [fetch EXCEPT ![k] = Served(k)]
  /\ UNCHANGED <<active, lists, rows, stale, page, outrun, late, listPage, editPage,
                 conflictsPage>>

\* ... and the answer takes the mark of the invalidation away.
Fetched(k) ==
  /\ fetch[k] \notin {None, Sent}
  /\ lists' = [lists EXCEPT ![k] = fetch[k]]
  /\ fetch' = [fetch EXCEPT ![k] = None]
  /\ IF k = "dups" THEN stale' = FALSE /\ late' = outrun /\ outrun' = FALSE
     ELSE UNCHANGED <<stale, late, outrun>>
  /\ IF k = "dups" /\ fetch[k] = {} THEN CardClosed ELSE UNCHANGED <<busy, task>>
  /\ UNCHANGED <<active, rows, page, listPage, editPage, reckless, dead>>

\* The fetch and its retry fail; data that are there stay.
FetchFails(k) ==
  /\ fetch[k] # None
  /\ fetch' = [fetch EXCEPT ![k] = None]
  /\ outrun' = (outrun /\ k # "dups")
  /\ UNCHANGED <<active, lists, rows, stale, page, late, listPage, editPage, conflictsPage>>

\* The button of the conflicts page.
Refresh ==
  /\ page = "conflicts"
  /\ Invalidate({"dups"})
  /\ UNCHANGED <<active, lists, rows, page, listPage, editPage, conflictsPage>>

ListStep ==
  /\ (\E i \in Ids : ToggleOne(i)) \/ ToggleAll \/ DeleteSelected
  /\ UNCHANGED <<editPage, conflictsPage>>
  /\ Bounded

EditStep ==
  /\ \/ \E i \in Ids : \/ RowLoaded(i) \/ RowFails(i) \/ CopyToAll(i)
                       \/ \E v \in BOOLEAN : UpdateDraft(i, v)
     \/ Save
  /\ UNCHANGED <<listPage, conflictsPage>>
  /\ Bounded

ConflictsStep ==
  /\ \E i \in Copies : KeepOnly(i) \/ Delete(i)
  /\ UNCHANGED <<listPage, editPage>>
  /\ Bounded

\* A copy that goes by the request of another page.
Elsewhere == reckless' = (reckless \/ \E c \in Copies : active[c] /\ ~active'[c])

BulkEnds ==
  /\ \/ BulkAnswered /\ UNCHANGED dead
     \/ BulkFails /\ dead' = TRUE
  /\ Elsewhere
  /\ UNCHANGED <<editPage, busy, task>>

SaveEnds ==
  /\ \/ /\ SaveAnswered
        /\ IF page = "list" THEN UNCHANGED <<listPage, busy, task>>
           ELSE ListClosed /\ CardClosed
        /\ UNCHANGED dead
     \/ SaveFails /\ dead' = TRUE /\ UNCHANGED <<listPage, busy, task>>
  /\ Elsewhere

TaskEnds(t) == (Answered(t) \/ Fails(t)) /\ UNCHANGED <<listPage, editPage>>

Next ==
  \/ \E p \in {"list", "conflicts"} : Goto(p)
  \/ EditSelected
  \/ \E k \in Lists : Fetch(k) \/ Serve(k) \/ Fetched(k) \/ FetchFails(k)
  \/ Refresh
  \/ ListStep \/ EditStep \/ ConflictsStep
  \/ BulkEnds \/ SaveEnds
  \/ \E t \in Tasks : TaskEnds(t)

Spec == Init /\ [][Next]_vars

-----------------------------------------------------------------------------
(* Properties. *)

\* Resolving duplicates leaves one copy, through failures, pages left and late
\* answers, as long as each command is given on an up-to-date group when no
\* other is running.
SomeCopyKept == ~reckless => \E c \in Copies : active[c]

\* A batch is edited whole: no resource is left out because it was still being
\* loaded when others were there, in any order of their answers.
BatchIsWhole == drafts # <<>> => ids \ failed \subseteq DOMAIN drafts

\* When the conflicts page shows a resource this client has deleted, on whatever
\* page, it is going to fetch the group again, unless the answer to the deletion
\* was lost or the group comes from a fetch that was served before the deletion
\* and that the invalidation has left running: the first one, or one of a page
\* that was left.
DeletedIsRefetched == \A c \in Copies :
  c \in Shown("dups") /\ ~active[c] => stale \/ late \/ dead

\* translation.json:28: a deletion cannot be undone, by accident least of all.
DeletionIsFinal == [][\A i \in Ids : active'[i] => active[i]]_vars
=============================================================================
