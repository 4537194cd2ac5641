----------------------------- MODULE Conflicts -----------------------------
(***************************************************************************)
(* Resolving duplicates, ConflictsPage.tsx: a group of copies with buttons *)
(* to delete one and to keep only one.  Keeping one deletes the others of  *)
(* the group that was shown, one request after another; a failure ends it. *)
(* It goes on when the page is left.                                       *)
(***************************************************************************)
EXTENDS ResourceStore

CONSTANTS
  Tasks            \* bound: handlers that run at a time

ASSUME TasksAssumption == Tasks \subseteq Nat

VARIABLES
  busy,       \* the card's mark on each row
  task,       \* per id: a handler that runs: the resources it has still to
              \* delete, the one it is at, and whether the card that started it
              \* is still there
  reckless,   \* history: was a handler started while another one ran, or on a
              \* group that is out of date, or a copy deleted on another page?
  dead        \* history: has a handler failed?

conflictsPage == <<busy, task, reckless, dead>>

TaskRecords == [todo : SUBSET Copies, at : Copies, mine : BOOLEAN]

NotBusy == [i \in Copies |-> None]
Running == {t \in Tasks : task[t] # None}

ConflictsTypeOK ==
  /\ busy \in [Copies -> {"keeping", "deleting", None}]
  /\ task \in [Tasks -> TaskRecords \cup {None}]
  /\ {reckless, dead} \subseteq BOOLEAN
  /\ page # "conflicts" => busy = NotBusy
  /\ \A t \in Running : task[t].at \in task[t].todo

ConflictsInit ==
  /\ busy = NotBusy /\ task = [t \in Tasks |-> None]
  /\ reckless = FALSE /\ dead = FALSE

\* The card is gone: its handlers go on without it.
CardClosed ==
  /\ busy' = NotBusy
  /\ task' = [t \in Tasks |->
       IF task[t] = None THEN None ELSE [task[t] EXCEPT !.mine = FALSE]]

ConflictsClosed == CardClosed /\ UNCHANGED <<reckless, dead>>

\* The card of the group, its rows, and the buttons of a row.
CardShown == page = "conflicts" /\ Shown("dups") # {}
CopyRow(i) == CardShown /\ i \in Shown("dups")
Enabled(i) == CopyRow(i) /\ busy[i] = None

Run(todo) ==
  \E t \in Tasks \ Running, i \in todo :
    /\ \A u \in Tasks \ Running : t <= u
    /\ task' = [task EXCEPT ![t] = [todo |-> todo, at |-> i, mine |-> TRUE]]

Noted == reckless' = (reckless \/ Running # {} \/ Shown("dups") # Duplicates)

\* Mutant: the resource to keep is in the list of those to delete.
MutOthers(k) == Shown("dups")

Others(k) == Shown("dups") \ {k}

\* handleKeepOnly.
KeepOnly(k) ==
  /\ Enabled(k)
  /\ busy' = [i \in Copies |-> IF i = k THEN "keeping"
                              ELSE IF i \in Others(k) THEN "deleting" ELSE None]
  /\ Run(Others(k))
  /\ Noted
  /\ UNCHANGED <<store, dead>>

\* handleDelete.
Delete(i) ==
  /\ Enabled(i)
  /\ busy' = [busy EXCEPT ![i] = "deleting"]
  /\ Run({i})
  /\ Noted
  /\ UNCHANGED <<store, dead>>

Gone(t) == [active EXCEPT ![task[t].at] = FALSE]

\* onSuccess, and then the next resource or the end.  The handler that ends
\* first clears the marks of all.
Answered(t) ==
  /\ task[t] # None
  /\ active' = Gone(t)
  /\ Invalidate({"dups"})
  /\ LET left == task[t].todo \ {task[t].at} IN
     IF left = {}
     THEN /\ task' = [task EXCEPT ![t] = None]
          /\ busy' = IF task[t].mine THEN NotBusy ELSE busy
     ELSE /\ \E i \in left : task' = [task EXCEPT ![t] = [@ EXCEPT !.todo = left, !.at = i]]
          /\ UNCHANGED busy
  /\ UNCHANGED <<lists, rows, page, reckless, dead>>

\* The request or its answer is lost, and the handler is rejected: the marks
\* stay, and with them disabled buttons.
Fails(t) ==
  /\ task[t] # None
  /\ active' \in {active, Gone(t)}
  /\ task' = [task EXCEPT ![t] = None]
  /\ dead' = TRUE
  /\ UNCHANGED <<lists, rows, stale, fetching, page, busy, reckless>>
=============================================================================
