--------------------------- MODULE ResourceStore ---------------------------
(***************************************************************************)
(* What the resource pages of one client share: the server's resources and *)
(* the client's query cache (the QueryClient of main.tsx).                 *)
(*                                                                         *)
(* A page shows cached data at once and fetches them again when they are   *)
(* missing, were invalidated, or have become stale with time; so what it   *)
(* shows may be out of date at any time, and it is fetched again at any    *)
(* time.  A fetch is sent, served and answered; it goes on when the page   *)
(* is left, and its answer is taken for the newest state.                  *)
(*                                                                         *)
(* Of a resource only `active` is kept: deleting sets it to false, lists   *)
(* and duplicates leave inactive resources out, GET /resources/:id does    *)
(* not.  A request that writes takes effect when it is answered.           *)
(***************************************************************************)
EXTENDS Naturals, FiniteSets

CONSTANTS
  Ids,             \* the resources
  Matching,        \* those that match the filter of the list
  Copies,          \* those with one and the same checksum
  None,
  Sent             \* a fetch that is still to be served

ASSUME CopiesAssumption ==
  Copies \subseteq Ids /\ IsFiniteSet(Copies) /\ Cardinality(Copies) >= 2
ASSUME MatchingAssumption == Matching \subseteq Ids
ASSUME NoneAssumption == None # Sent /\ \A s \in SUBSET Ids : s # None /\ s # Sent

VARIABLES
  active,     \* server: the column `active` of each resource
  lists,      \* cache: ["resources", filter] and ["resources", "duplicates"]
  rows,       \* cache: ["resource", id]
  stale,      \* cache: were the duplicates invalidated since they were fetched?
  fetch,      \* the fetch of a list that is under way, with what it was served
  page,       \* the page that is shown
  outrun,     \* history: is a fetch of the duplicates under way that was served
              \* before they were invalidated?
  late        \* history: has such a fetch brought the duplicates in the cache?

fetching == <<fetch, outrun, late>>
store == <<active, lists, rows, stale, fetching, page>>

Lists == {"list", "dups"}

StoreTypeOK ==
  /\ active \in [Ids -> BOOLEAN]
  /\ lists \in [Lists -> (SUBSET Ids) \cup {None}]
  /\ rows \in [Ids -> BOOLEAN \cup {None}]
  /\ stale \in BOOLEAN
  /\ fetch \in [Lists -> (SUBSET Ids) \cup {None, Sent}]
  /\ outrun \in BOOLEAN /\ late \in BOOLEAN
  /\ outrun => fetch["dups"] \notin {None, Sent}
  /\ page \in {"list", "edit", "conflicts"}

StoreInit ==
  /\ active = [i \in Ids |-> TRUE]
  /\ lists = [k \in Lists |-> None]
  /\ rows = [i \in Ids |-> None]
  /\ stale = FALSE
  /\ fetch = [k \in Lists |-> None] /\ outrun = FALSE /\ late = FALSE
  /\ page = "list"

\* GET /resources and GET /resources/duplicates.
Active == {i \in Ids : active[i]}
Duplicates == IF Cardinality(Active \cap Copies) > 1 THEN Active \cap Copies ELSE {}
Served(k) == IF k = "list" THEN Active \cap Matching ELSE Duplicates

PageOf(k) == IF k = "list" THEN "list" ELSE "conflicts"

\* Is the fetch of k, which has been served, left running by an invalidation?
\* It is cancelled only when the page is there and has data.
LeftRunning(k) == /\ fetch[k] \notin {None, Sent}
                  /\ page # PageOf(k) \/ lists[k] = None

\* invalidateQueries: what was fetched is out of date, and what is shown is
\* fetched again at once.
Invalidate(ks) ==
  /\ stale' = (stale \/ "dups" \in ks)
  /\ fetch' = [k \in Lists |->
       IF k \in ks /\ page = PageOf(k) /\ ~LeftRunning(k) THEN Sent ELSE fetch[k]]
  /\ outrun' = IF "dups" \in ks THEN LeftRunning("dups") ELSE outrun
  /\ UNCHANGED late

\* What the page shows of a list: nothing while it is loaded for the first time.
Shown(k) == IF lists[k] = None THEN {} ELSE lists[k]
=============================================================================
