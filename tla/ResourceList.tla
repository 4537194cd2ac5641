---------------------------- MODULE ResourceList ----------------------------
(***************************************************************************)
(* The list of resources, ResourceListPage.tsx: rows are selected and then *)
(* deleted or edited together.  The filter is not changed, and one page     *)
(* shows all that match it.                                                *)
(***************************************************************************)
EXTENDS ResourceStore

VARIABLES
  selected,   \* the selection
  deleting,   \* is the delete button disabled?
  bulk        \* DELETE /resources: its ids, and whether the page that sent it
              \* is still there

listPage == <<selected, deleting, bulk>>

Bulks == [ids : SUBSET Ids, mine : BOOLEAN]

ListTypeOK ==
  /\ selected \subseteq Ids /\ deleting \in BOOLEAN
  /\ bulk \in Bulks \cup {None}
  /\ page # "list" => selected = {} /\ ~deleting
  /\ bulk # None => bulk.ids # {} /\ (bulk.mine => page = "list" /\ deleting)

ListInit == selected = {} /\ deleting = FALSE /\ bulk = None

ListClosed ==
  /\ selected' = {} /\ deleting' = FALSE
  /\ bulk' = IF bulk = None THEN None ELSE [bulk EXCEPT !.mine = FALSE]

-----------------------------------------------------------------------------
(* What the page offers. *)

TableShown == page = "list" /\ lists["list"] # None
RowListed(i) == TableShown /\ i \in Shown("list")
ButtonsShown == page = "list" /\ selected # {}
DeleteEnabled == ButtonsShown /\ ~deleting

-----------------------------------------------------------------------------
\* A click on the cell of a row; one on the checkbox in it toggles twice.
ToggleOne(i) ==
  /\ RowListed(i)
  /\ selected' = IF i \in selected THEN selected \ {i} ELSE selected \cup {i}
  /\ UNCHANGED <<store, deleting, bulk>>

AllSelected == Shown("list") # {} /\ Shown("list") \subseteq selected

\* A row that has left the list stays selected.
ToggleAll ==
  /\ TableShown
  /\ selected' = IF AllSelected THEN selected \ Shown("list")
                 ELSE selected \cup Shown("list")
  /\ UNCHANGED <<store, deleting, bulk>>

\* deleteSelected, confirmed.
DeleteSelected ==
  /\ DeleteEnabled /\ bulk = None
  /\ deleting' = TRUE
  /\ bulk' = [ids |-> selected, mine |-> TRUE]
  /\ UNCHANGED <<store, selected>>

Deleted == [i \in Ids |-> active[i] /\ i \notin bulk.ids]

\* Mutant: the list is invalidated, the duplicates are not.
MutBulkAnswered ==
  /\ bulk # None
  /\ active' = Deleted
  /\ IF bulk.mine THEN selected' = {} /\ deleting' = FALSE
     ELSE UNCHANGED <<selected, deleting>>
  /\ bulk' = None
  /\ Invalidate({"list"})
  /\ UNCHANGED <<lists, rows, page>>

\* What has been selected meanwhile is forgotten, too.
BulkAnswered ==
  /\ bulk # None
  /\ active' = Deleted
  /\ IF bulk.mine THEN selected' = {} /\ deleting' = FALSE
     ELSE UNCHANGED <<selected, deleting>>
  /\ bulk' = None
  /\ Invalidate(Lists)
  /\ UNCHANGED <<lists, rows, page>>

\* The request or its answer is lost.  The button stays disabled: nothing
\* resets `deleting`.
BulkFails ==
  /\ bulk # None
  /\ active' \in {active, Deleted}
  /\ bulk' = None
  /\ UNCHANGED <<lists, rows, stale, fetching, page, selected, deleting>>
=============================================================================
