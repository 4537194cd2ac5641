------------------------------ MODULE Progress ------------------------------
(***************************************************************************)
(* Reading and playback progress: POST progress of the ebook, music, video *)
(* and online_viewer plugins (update_progress), the pushes that follow it, *)
(* and the "Save current" button of ProgressPanel.tsx.                     *)
(*                                                                         *)
(* A request thread writes the row of a resource and a device and then     *)
(* publishes what the request said on the topic of the resource.  The hub  *)
(* is used through its contract, TopicBus, which module Hub implements.    *)
(* Nothing orders the threads: saves of one device may write in one order  *)
(* and publish in another.                                                 *)
(*                                                                         *)
(* The plugins differ in their columns only: one of them is pushed, some   *)
(* become 0 or "" in a new row when a request leaves them out, some are    *)
(* only written by an insert (the url and the token of online_viewer).     *)
(* (The provider of online_viewer is a part of the device here; video's    *)
(* `completed` flag and the timestamps are left out.)                      *)
(***************************************************************************)
EXTENDS Naturals, Sequences, SequencesExt

CONSTANTS
  Resources, Devices,
  Columns,
  Pushed,          \* the column that is pushed
  ZeroOnInsert,    \* the columns a new row has as 0 when they are left out
  InsertOnly,      \* the columns an update leaves alone
  Values, Zero, Null,
  Bodies,          \* what clients post: functions on some of the columns
  Workers, Idle,   \* request threads; a thread without a request
  Viewers,         \* sockets subscribed to the topic of one resource
  Tabs, PageOf,    \* browser tabs; the <<resource, device>> a tab saves for
  Percent,         \* what the panel saves: percentage, a column or not
  Nobody,          \* a request that comes from no tab
  MaxSaves         \* bound: saves in a behaviour

Keys == Resources \X Devices
Content == Values \cup {Zero, Null}

\* A save from its write to its answer, and what a click of the panel sends.
Requests == [key : Keys, value : Content, tab : Tabs \cup {Nobody}]
Clicks == [{} -> Content] \cup [{Percent} -> Content]

ASSUME PushedAssumption == Pushed \in Columns \ InsertOnly /\ ZeroOnInsert \subseteq Columns
ASSUME PageOfAssumption == PageOf \in [Tabs -> Keys]
ASSUME BodiesAssumption == \A body \in Bodies : \A c \in DOMAIN body : body[c] \in Content
ASSUME IdleAssumption == Idle \notin Requests \cup Clicks
ASSUME MaxSavesAssumption == MaxSaves \in Nat

VARIABLES
  rows,    \* the progress table: a row per key, in the order of insertion
  saving,  \* per worker: the key it has written and the value it will push
  panel,   \* per tab: the percentage shown, and the body of a click until
           \* its request starts
  pushes,  \* the device and value of every event of the bus
  saves,   \* saves so far
  recent,  \* no state of the program: per key, the values pushed by the saves
           \* that have run since one last started alone, that one's included
  bus, member, start, got  \* the hub

hub == <<bus, member, start, got>>
progressVars == <<rows, saving, panel, pushes, saves, recent, bus, member, start, got>>

Channel == INSTANCE TopicBus WITH Subscribers <- Viewers, Subjects <- Resources

ProgressTypeOK ==
  /\ rows \in Seq([key : Keys, row : [Columns -> Content]])
  /\ saving \in [Workers -> Requests \cup {Idle}]
  /\ panel \in [Tabs -> [shown : Content, click : Clicks \cup {Idle}]]
  /\ bus \in Seq(Resources)
  /\ pushes \in Seq([device : Devices, value : Content])
  /\ Len(pushes) = Len(bus)
  /\ saves \in 0 .. MaxSaves
  /\ recent \in [Keys -> SUBSET Content]

ProgressInit ==
  /\ rows = <<>>
  /\ saving = [w \in Workers |-> Idle]
  /\ panel = [t \in Tabs |-> [shown |-> Null, click |-> Idle]]
  /\ pushes = <<>>
  /\ saves = 0
  /\ recent = [k \in Keys |-> {}]
  /\ Channel!BInit

-----------------------------------------------------------------------------
(* Requests. *)

Field(body, c) == IF c \in DOMAIN body THEN body[c] ELSE Null

\* The two halves of the upsert: columns left out become NULL in an existing
\* row, and the defaults in a new one.
Updated(row, body) == [c \in Columns |-> IF c \in InsertOnly THEN row[c] ELSE Field(body, c)]

\* Mutant: a new row has only the columns that are sent.
MutInserted(body) == body

Inserted(body) == [c \in Columns |->
  IF c \in ZeroOnInsert \ DOMAIN body THEN Zero ELSE Field(body, c)]

Has(k) == \E i \in DOMAIN rows : rows[i].key = k

\* Mutant: a conflict leaves the row as it is.
MutUpsert(k, body) ==
  rows' = IF Has(k) THEN rows ELSE Append(rows, [key |-> k, row |-> Inserted(body)])

Upsert(k, body) ==
  rows' = IF Has(k)
          THEN [i \in DOMAIN rows |->
                  IF rows[i].key = k THEN [rows[i] EXCEPT !.row = Updated(@, body)] ELSE rows[i]]
          ELSE Append(rows, [key |-> k, row |-> Inserted(body)])

Busy == {w \in Workers : saving[w] # Idle}

\* No save of k is in progress.
Unsaved(k) == \A w \in Busy : saving[w].key # k

\* update_progress, the write.
Store(w, k, body, tab) ==
  /\ saving[w] = Idle
  /\ saves < MaxSaves
  /\ Upsert(k, body)
  /\ saving' = [saving EXCEPT ![w] =
       [key |-> k, value |-> Field(body, Pushed), tab |-> tab]]
  /\ recent' = [recent EXCEPT ![k] =
       (IF Unsaved(k) THEN {} ELSE @) \cup {Field(body, Pushed)}]
  /\ saves' = saves + 1
  /\ UNCHANGED <<pushes, hub>>

\* A client's request.
Save(w, k, body) == Store(w, k, body, Nobody) /\ UNCHANGED panel

\* Mutant: a NULL is not published.
MutPublish(w) ==
  /\ saving[w] # Idle
  /\ IF saving[w].value = Null THEN UNCHANGED <<pushes, hub>>
     ELSE /\ Channel!Emit(saving[w].key[1])
          /\ pushes' = Append(pushes, [device |-> saving[w].key[2], value |-> saving[w].value])
  /\ saving' = [saving EXCEPT ![w] = Idle]
  /\ UNCHANGED <<rows, panel, saves, recent>>

\* update_progress, the publish and the answer.
Publish(w) ==
  /\ saving[w] # Idle
  /\ Channel!Emit(saving[w].key[1])
  /\ pushes' = Append(pushes, [device |-> saving[w].key[2], value |-> saving[w].value])
  /\ saving' = [saving EXCEPT ![w] = Idle]
  /\ UNCHANGED <<rows, panel, saves, recent>>

-----------------------------------------------------------------------------
(* The panel. *)

RowsOf(r) == {i \in DOMAIN rows : rows[i].key[1] = r}

\* The tab fetches the records; it shows the last one.
Fetch(t) ==
  LET records == RowsOf(PageOf[t][1])
      latest == IF records = {} THEN <<>> ELSE rows[Max(records)].row
  IN /\ panel' = [panel EXCEPT ![t].shown = Field(latest, Percent)]
     /\ UNCHANGED <<rows, saving, pushes, saves, recent, hub>>

\* The button is disabled until the answer of the last click has come.
Pending(t) == panel[t].click # Idle
              \/ \E w \in Busy : saving[w].tab = t

\* "Save current": undefined and null both arrive as nothing.
Click(t) ==
  /\ ~Pending(t)
  /\ panel' = [panel EXCEPT ![t].click =
       IF panel[t].shown = Null THEN <<>> ELSE [c \in {Percent} |-> panel[t].shown]]
  /\ UNCHANGED <<rows, saving, pushes, saves, recent, hub>>

\* The request of a click.
SaveCurrent(t, w) ==
  /\ panel[t].click # Idle
  /\ Store(w, PageOf[t], panel[t].click, t)
  /\ panel' = [panel EXCEPT ![t].click = Idle]

-----------------------------------------------------------------------------
(* Viewers. *)

Watch(s, r) == Channel!Attach(s, {r}) /\ UNCHANGED <<rows, saving, panel, pushes, saves, recent>>
Leave(s) == Channel!Detach(s) /\ UNCHANGED <<rows, saving, panel, pushes, saves, recent>>
Receive(s) == Channel!Deliver(s) /\ UNCHANGED <<rows, saving, panel, pushes, saves, recent>>

-----------------------------------------------------------------------------
ProgressNext ==
  \/ \E w \in Workers : \/ \E k \in Keys, body \in Bodies : Save(w, k, body)
                        \/ Publish(w)
                        \/ \E t \in Tabs : SaveCurrent(t, w)
  \/ \E t \in Tabs : Fetch(t) \/ Click(t)
  \/ \E s \in Viewers : (\E r \in Resources : Watch(s, r)) \/ Leave(s) \/ Receive(s)

ProgressSpec == ProgressInit /\ [][ProgressNext]_progressVars

\* A request that has written publishes, and the hub delivers (BFairSpec).
ProgressFairness ==
  /\ \A w \in Workers : WF_progressVars(Publish(w))
  /\ \A s \in Viewers : WF_progressVars(Receive(s))

ProgressFairSpec == ProgressSpec /\ ProgressFairness

-----------------------------------------------------------------------------
(* Properties. *)

Stored(k) == rows[CHOOSE i \in DOMAIN rows : rows[i].key = k].row[Pushed]

\* A push that names no value stands for NULL, or for the 0 of a new row.
Agrees(value, stored) == value = stored \/ (value = Null /\ stored = Zero)

\* The events about a device, by their positions in the bus.
About(k) == {i \in DOMAIN bus : bus[i] = k[1] /\ pushes[i].device = k[2]}

\* However the saves of a device interleave their writes and their publishes:
\* when none is in progress, the last event about it tells what one of the saves
\* that ran together last has pushed, and the table holds what one of them has
\* written.  So an event is never older than the saves that overlapped, and the
\* two tell the same as soon as a save of the device runs alone.
LastPushIsRecent ==
  \A k \in Keys : Unsaved(k) =>
    IF About(k) = {} THEN ~Has(k)
    ELSE /\ Has(k)
         /\ pushes[Max(About(k))].value \in recent[k]
         /\ \E value \in recent[k] : Agrees(value, Stored(k))

\* The last event a viewer has of a device, if it has any, is recent.
InSync(s, k) ==
  LET events == SelectSeq(got[s], LAMBDA i : i > start[s] /\ i \in About(k)) IN
  events # <<>> => pushes[Last(events)].value \in recent[k]

Missed(s, k) == \E i \in About(k) : i > start[s] /\ i \notin ToSet(got[s])

\* Once a device stops saving, a viewer that stays has been told of every save
\* since it joined, in whatever order they published, and shows what one of the
\* saves that ran together last has pushed: the stored value if one ran alone.
ViewersCatchUp ==
  \A s \in Viewers, k \in Keys :
    []<>(k[1] \in member[s] => ~Missed(s, k) /\ InSync(s, k))

\* "Save current" saves the percentage: it does not lose the page, the position
\* or the duration the device has stored.
SaveCurrentKeepsPlace ==
  [][\A t \in Tabs : (panel[t].click # Idle /\ panel'[t].click = Idle) =>
       \A i \in DOMAIN rows : rows[i].key = PageOf[t] =>
         \A c \in Columns \ {Percent} : rows'[i].row[c] = rows[i].row[c]]_progressVars
=============================================================================
