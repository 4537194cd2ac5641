# Verification of res-mgr

res-mgr is a server for media collections (Ruby: Roda, Sequel, Puma,
faye-websocket) with a web client (React) and an Electron shell.  This directory
holds TLA+ models of its stateful parts, the TLC configurations that check them
and TLAPS proofs about them.  Paths below are relative to `src/`.

    tlc -workers 2 -config Hub.cfg MCHub        # a run: the cfg and the MC module
    tlc -workers 2 -config P2PRooms.cfg P2PRooms # the one without an MC module
    tlapm P2PSignalingProofs.tla                # the proofs

`PROJECT.json` lists the components, the runs, for every property a mutation of
the code that breaks it, the source lines of every definition, the hazards and
the theorems.

## 1. The system

One Puma process with up to five request threads (`config/puma.rb`: `threads 1, 5`),
an event-loop thread that runs the WebSocket handlers, and in development the
thread of the file watcher.  All of them share one database and the singletons
`PluginRegistry`, `WebSocketHub` and `P2PSignaling`, each protected by a monitor.

| Part | State | Operations | Hard behaviour | What makes it correct |
|---|---|---|---|---|
| P2P signaling, `core/websocket/p2p_signaling.rb` | `@rooms`, `@peers` | join, leave, offer/answer/ice, close of a socket | `leave_room` is three critical sections and a broadcast outside them; sockets drop in the middle | tables agree, clients know exactly who is in their room, departures are announced |
| Event hub, `core/websocket/hub.rb` | `@subscriptions`, `@connections` | connect (subscribe), close (unsubscribe_all), publish | several publishing threads, sockets that come and go or fail while events are sent | every event of a topic once, in one order, to every open subscriber |
| Plugin lifecycle, `core/plugin_registry.rb`, `plugin_schema.rb`, `plugin_loader/file.rb`, `plugin_hot_reload.rb`, `plugin_controller.rb`, `boot.rb` | `@plugins`, `$LOADED_FEATURES`, constants, tables and tracking tables | boot, register, unregister with rollback, reload by the watcher or by request | only register and unregister hold the monitor; DDL and tracking rows; hooks and files that raise; a kill at any statement | schema and tracking agree, served plugins have their schema, data is lost only in the plugin's own rollback, one broken plugin does not end the loading of the others |
| Inventory, `core/inventory/resource_controller.rb`, `resource.rb` | table `resources` | create, update, bulk update, delete, bulk delete, checksum, duplicates | copies loaded by one statement and written by a later one; saves and taggers that fail in the middle of a batch | batches are atomic, requests do not revert each other |
| Config plugins, `core/plugin_loader/config.rb` | none of its own | the tagger runs after every save; scanner, online viewer | works on the request's copy | a saved resource has the tags of the rules that match it |
| Content plugins, `plugins/*/plugin.rb` | progress and metadata tables | `update_progress`, `get_progress`, metadata upserts | write, then publish; two requests of a device, in any order | pushes tell what was saved last |
| P2P rooms over REST, `core/p2p_controller.rb` | table of shared resources | create, list, info, share, revoke | reads the signaling server's memory, creates nothing in it | a room that was created is listed, a listed room is active |
| Devices, `core/inventory/device_controller.rb` | table `devices` | upsert, delete | find, then insert, without a transaction | a name is taken once |
| Client identity, `IdentityGate.tsx`, `SettingsPage.tsx`, `IdentityPicker.tsx`, `store/device.ts` | the device's name and known storages (kept in local storage), inputs, the picker's value | register, reclaim, select, save a detected volume | answers that come when the input, the page or the name has changed; volumes detected in any order | names are shared only knowingly; what is shown is what is filed |
| Batch import, `BatchImportPage.tsx`, `utils/batchImport.ts` | list, status of each file, counters, flags; refs that outlive renders | list, scan, start, stop, clear; per file: create, extract, post metadata and cover | a time-out that does not cancel; a loop that outlives its page; any request failing | counters tell the truth, nothing is imported twice or reported without being imported, imports end |
| Resource form, `ResourceFormPage.tsx` | fields, plugin, metadata, cover, the create mutation | edit, extract from a file, submit | handlers that work with the closure of an earlier render; three requests for one resource | one resource per submission, with what was submitted |
| Resource list, batch edit, conflicts pages, `ResourceListPage.tsx`, `BatchEditPage.tsx`, `ConflictsPage.tsx` | query cache, selection, drafts, busy marks | select, delete, edit in bulk, keep one copy | act on cached rows; fetches that run beside deletions; requests outlive their page; handlers of several requests | a copy is kept, batches are whole, deleted rows go away |
| Progress panel, `ProgressPanel.tsx` | query cache | show and save a percentage | acts on what it has read earlier | does not lose data it did not show |
| Series, `series_controller.rb` | series and members | membership, delete | two statements without a transaction | no dangling membership |
| Authentication, routing, configuration, logging, scripts | none that changes after boot | | | |

Interactions: request handlers save a resource, run the taggers and publish to
the hub; `update_progress` publishes on the resource's topic and viewers receive
it through the hub; the REST room list reads the signaling tables; a plugin
reload runs migrations and rollbacks on tables that progress requests use.  In
the client, the pages of the library share one query cache; the pages that add
resources share the device store with the gate and the settings; the batch import
and the form use the same extraction.

## 2. The modules

| Module | Models | State and actions |
|---|---|---|
| `RoomPresence` | what signaling promises, abstractly | a client is in at most one room; entering, telling and learning are one step; a peer is forgotten only after it left |
| `P2PSignaling` | `p2p_signaling.rb` | `rooms`, `roomKeys` (the keys of `@rooms`), `peers`; `pc` is where a socket's handler stands between two critical sections; `view` is what a client has been told.  `Join` is `join_room`, `Deregister`/`LeaveRemove`/`LeaveSnapshot`/`LeaveSend` are the sections and the sends of `leave_room`, `RelayLookup`/`RelaySend` those of `relay`, `HandleClose` is `handle_close` |
| `P2PRooms` | `p2p_controller.rb` over `P2PSignaling` | the table `shared` and, as history, the rooms `created` over REST; `create_room`, `share_resource`, `revoke_resource` |
| `TopicBus` | what the hub promises, abstractly | one sequence of events; each subscriber receives those of its topics since it joined, in order |
| `Hub` | `hub.rb` | `subscriptions`, `connections`, the monitor `lock`; `PublishLock`/`PublishSend`/`PublishUnlock` is `publish`, with one step per `ws.send` |
| `PluginLifecycle` | the plugin lifecycle | database: `tracked`, `tables`, `rows`; process: `registered`, `constants`, `features`, `lock`; per thread: `pc`, `path`, `before`, `plugin`, `version`.  One action per statement of `unregister`, `rollback!`, `load_file`, `apply!` and `register` between which another thread can run, plus edits of `plugin.rb`, requests that store data, and `Crash`.  `RequireFails` is a file that raises: a `StandardError` is rescued, a `ScriptError` ends the thread (`pc` is ended) |
| `Catalogue` | what the inventory API promises, abstractly | a request changes the columns it names of the rows it names, at once |
| `Inventory` | `resource_controller.rb`, `resource.rb`, the tagger | per request the loaded `copy`, the columns to `write`, the rows it has `saved` and those the tagger has still to see (`todo`); an action for what precedes the write, `SaveRow` per row, `Commit` or `SaveFails`, and `RunTaggers` per row or `TaggersFail`.  History: `mixed`, rows two requests have worked on at the same time, and `untagged`, rows whose tagger has failed |
| `Progress` | `update_progress`/`get_progress` of ebook, music, video, online_viewer; `ProgressPanel.tsx` | the table `rows`, requests between their write and their publish (`saving`), several of one device too, the tab's `panel`; as history the values pushed by saves that overlapped (`recent`); composed with the hub through its contract `TopicBus`, which `Hub` implements |
| `Extraction` | `utils/*Meta.ts` | what extracting metadata from a file may find, used by `BatchImport` and `ResourceForm` |
| `BatchImport` | the batch import | per visit of the page: list (`filePaths`, `fileMap`), flags, the loop of `handleStart` (`loop`, `pending`, `awaited`), the counters as counted and as shown; per id a `job` of `processFile`.  `Process`, `Settle`, `Finish` are the loop; `Created` .. `CoverPosted` the awaits of a job, each with its failure; `Timeout` the other side of `Promise.race`; `Leave` and `Return` unmount and mount the page, whose loop goes on |
| `Identity` | who a client is | the table `devices`, `request`s of `POST /devices` as lookup, insert and answer, other devices that register and reclaim names, the device store, and the state of the gate, the settings and the picker, each lost when its page is left |
| `ResourceForm` | the resource form | `form` is what is rendered; an `extraction` and the `creation` carry the part of the closure they use.  `Created` .. `Finish` are `onSuccess`, with the awaits as steps |
| `ResourceStore` | the query cache and the server's `active` column | what pages have fetched, the fetches under way and what they were served, what was invalidated and what the invalidation leaves running |
| `ResourceList`, `BatchEdit`, `Conflicts` | one page each over `ResourceStore` | selection and bulk delete; drafts and bulk save; the handlers of "keep only" and "delete" |
| `Library` | the three pages composed | navigation between them, fetches as request, reading and answer (`Fetch`, `Serve`, `Fetched`, `FetchFails`), and the ends of requests whose page may be gone |
| `Selection` | `Array#delete`, `Array.prototype.filter` | `Kept(s, T)`, the elements of a sequence that are in a set, as a recursive function the provers can reason about; used by `Hub`, `BatchImport` and `Inventory` |
| `SelectionProofs` | what `Kept` computes | lemmas about filtering, appending, concatenating and injective sequences, used by `HubProofs` and `BatchImportProofs` |
| `HubProofs`, `BatchImportProofs`, `P2PSignalingProofs`, `PluginLifecycleProofs`, `IdentityProofs`, `ResourceFormProofs`, `LibraryProofs` | theorems about the modules of these names; the last part of `HubProofs` is about `Progress`, that of `BatchImportProofs` about `Inventory` | |

`MC*` modules give the constants their values.  Operators whose name begins with
`Mut` are faulty variants of the definition that follows them: each property of
a run fails when one of them takes that definition's place, which shows that the
property depends on the code it is about.

Common abstractions: ids, names and payloads are model values; answers that
report an error and change nothing take no step; a message sent over an open
socket is taken as read, one sent to a dropped socket is lost.

## 3. The runs

Properties that hold:

| Run | Bounds | Shows |
|---|---|---|
| `P2PSignaling` | 2 sockets, 2 rooms, clients leave before they join, fairness | `NoGhost`, `ViewExact`, `RelayFromKnownPeer`, `RegisteredIsMember`; the server implements `RoomPresence` with its promises that dropped clients leave and departures are announced |
| `Hub` | 2 sockets, 2 topics, 2 publishing threads, 2 events, fairness | `TablesMirror`, `ExactlyOnceInOrder`; the fair `TopicBus` is implemented |
| `PluginRace` | 2 plugins of 2 migrations, 3 classes, the boot, watcher and one request thread, a kill anywhere | `UntouchedIsSound`, `RollbackIsExclusive`, `DataLostOnlyByRollback` |
| `PluginSerial` | the same with only the watcher reloading, hooks and files that raise `StandardError`s, no kill, no stored rows, fairness | `RegisteredIsComplete`, `ReloadEnds`, `BootEnds` |
| `Inventory` | 2 resources, 2 request threads, 4 requests, any save or tagger failing | `TagsMatchRules`, the refinement of `Catalogue`, `BatchAllOrNothing` |
| `Progress` | 2 resources, 1 device, 2 threads whose saves may overlap, 1 viewer, 1 tab, 3 saves, fairness | `LastPushIsRecent`, `ViewersCatchUp` |
| `BatchImport` | 3 files (an ebook, a picture, one of unknown type), 2 visits, 2 listings, 2 jobs at a time, fairness | `SummaryExact`, `NoneLostNoneRepeated`, `ImportEnds` |
| `Identity` | 2 names, 1 volume, 2 registrations at a time, other devices that register and reclaim | `SharedOnlyByReclaim`, `RegisteredName`, `FiledAsShown` |
| `ResourceForm` | 1 file, 2 plugins (one with extraction and cover, one without), 2 extractions at a time, 2 resources | `OneResourcePerForm`, `FiledByPlugin`, `SavedAsSubmitted` |
| `Library` | 3 copies of one file, 1 of them in the list, all pages, 1 bulk request or handler and 1 new fetch at a time | `SomeCopyKept`, `DeletedIsRefetched` |

Two further configurations hold; their properties are theorems as well (section 4):

| Configuration | Bounds | Shows |
|---|---|---|
| `P2PSignalingRejoin` | as `P2PSignaling`, clients may join a room while they are in another | `RegisteredIsMember`, `GhostsAreRejoins` |
| `LibraryBatch` | 2 resources in the list, the list and the batch edit, 2 bulk requests at a time | `BatchIsWhole` |

Statements of the documentation or of comments that the code does not keep, each
with a counterexample:

| Run | Statement | What happens |
|---|---|---|
| `PluginReload` | `docs/plugin-development.md:243` the reload removes the old class and instantiates the new one | the class is looked for among the constants `require` has added; re-opening an existing class adds none, so the plugin is unregistered and its tables are dropped |
| `FormName` | `ResourceFormPage.tsx:64` the title becomes the name "if still empty" | the name of the render in which the extraction began is tested: a name typed meanwhile is replaced |

Further configurations with a counterexample, of the same kind:

| Configuration | Statement | What happens |
|---|---|---|
| `P2PSignalingGhost` | `core/p2p_controller.rb:5` "list active rooms" | a client that joins a second room stays in the first for ever, and the list shows that room after the client has gone |
| `P2PRooms` | `docs/api.md:397` "Create a new P2P room", and :391, a listed room of `peer_count` 0 | `create_room` makes up an id and stores nothing; a room is listed while a socket is in it, so one that has just been created is not |
| `PluginBroken` | `core/plugin_loader/file.rb:31` `load_file` returns "the plugin instance on success, nil on failure" | it rescues `StandardError`; a file that does not parse, or requires what is not installed, raises a `ScriptError` that nothing rescues up to boot or the watcher's thread |
| `PluginMixup` | `core/plugin_loader/file.rb:30` load one file, return its instance | the constants another thread has required in between are in the difference too, so a reload can register another file's plugin |
| `InventoryRevive` | `docs/api.md:161,174` PATCH fields are optional, DELETE deactivates | a PATCH that loaded the row before a DELETE saves all columns and undeletes it |
| `ProgressPanel` | `translation.json:192` "Save current" | the request carries the percentage only and the upsert sets the stored page or position to NULL |
| `BatchBudget` | `utils/batchImport.ts:48` "Total per-file processing budget" | the job of a file that timed out goes on and creates its resource after the file was reported as aborted |
| `LibraryRevive` | `translation.json:28` a deletion "cannot be undone" | a batch edit of rows that were cached before the deletion saves them as active again |

Counterexamples met while modelling and not kept as runs:

- A kill between the `DROP` (`core/plugin_schema.rb:45`) and the `DELETE` of a
  rollback leaves a version tracked without its table, and `apply!` skips it.
  This is why `UntouchedIsSound` speaks of plugins that were never rolled back.
- With two reloading threads a plugin can be registered without its tables
  (`apply!` runs outside the monitor): `RegisteredIsComplete` is checked with one.
- Two overlapping saves of one device can publish in the other order than they
  were stored, and viewers then show the value of the other one until the next
  save of that device.  This is why `LastPushIsRecent` and `ViewersCatchUp` speak of
  the values of all saves that ran together last (`recent`) and say that pushes and
  table agree from the next save that runs alone.
- Inventory: the taggers run after the commit, so one that raises is answered with an
  error although the rows are stored, and leaves those it has not seen without
  tags until they are saved again (`untagged` in `TagsMatchRules`).
- Rooms shared over REST stay shared when nobody is in them any more, and can be
  shared before; no document says otherwise.
- Batch import: a log file that cannot be created (`BatchImportPage.tsx:169`) rejects
  the handler after `running` was set, so the page stays running (`loop = "broken"`
  in `ImportEnds`).  A failed metadata upload is followed by "Done" and counts as
  done.  Files dropped while a loop runs are listed and not processed by it.
- Identity: a 201 from the settings page that comes when a page with a picker is
  open leaves the picker at the old name (`renamed`), and typing on while a
  registration is under way lets a device take a name nobody registered (`retyped`):
  the name the gate says "is already registered on another device"
  (`IdentityGate.tsx:55`), and takes when the user confirms, is the one in the input
  when the answer comes.  A picker that comes back after an import selects the
  volume detected last over what the user had chosen (`IdentityPicker.tsx:42`).
- Resource form: the plugin changed while a creation is under way posts the
  metadata under the other plugin; the first of two extractions to end clears
  "extracting"; a creation that ends after the form was left takes the user to the
  resource (`ResourceFormPage.tsx:218`).  A reader of `utils/videoMeta.ts` has no
  `onerror`, so an extraction may never end: nothing here assumes that it does.
- Conflicts: a second "Keep only", given after the page was left and opened again or
  on a group that was not fetched since, deletes the last copy (`reckless` in
  `SomeCopyKept`).  A delete that fails leaves the marks and disabled buttons.
- Query cache: an invalidation restarts a fetch only if its page is shown and has
  data. The first fetch of the duplicates, or one of a page that was left, goes on;
  served before a deletion, it brings the deleted copy back, and its success takes
  the mark of the invalidation away, so the copy is shown until data are fetched for
  another reason (`late` in `DeletedIsRefetched`).  The conflicts page invalidates
  the duplicates only (`ConflictsPage.tsx:81`): the list, if it is in the cache and
  not yet stale, shows what was deleted there.
- List: a deletion that fails leaves its button disabled (`ResourceListPage.tsx:79`),
  and a click on the checkbox itself toggles its row twice (lines 207 and 212).
- Batch edit: saving invalidates the lists but not the resources, so a second batch
  edit starts from the rows before the first one (`BatchEditPage.tsx:148`).
- `docs/api.md:370` documents `POST /plugins/reload`, for which there is no route.

### Why the bounds are enough

- Signaling: its races are between the sections of one `leave_room` and the
  handlers of another socket, and liveness is about the one that goes and the one
  that stays: two sockets.  A second room is what a stale registration needs.  The
  invariants and the safety part of the refinement are proved for any number, which
  covers a bystander who must be told as well.
- Hub: two events by two threads give every order of overlapping publishes; a
  second socket shows a different order, a gap or a failing send before it in the
  list.  Queries that name a topic twice or none are among the inputs.
- Plugins: one plugin creates and then alters a table and declares it for both
  migrations (as `plugins/game`), the other declares it for the first only (as
  `plugins/ebook`'s later migrations).  A third class is the renamed one that
  lets a reload find something.  Rows are stored in the run about data loss only
  (`Stored`), since no step of loading looks at them.
- Inventory: two rows make batches and bystanders, two threads every overlap, four
  requests a create, a change, a delete and one more.  A batch of two rows fails
  before, between and after its saves.
- Batch import: a file of each kind (`Skip`, no extraction, extraction with cover),
  and a second listing and a second visit, which are what a repeated import and two
  loops side by side need; two jobs are the one that timed out and the next.
- Identity: the name that was typed and another one; the device, the other devices,
  and a second registration under way; other devices take either name in both ways
  the code has.  One volume that becomes known, is forgotten and is detected again;
  what a user types for another identity behaves like an unknown volume that is
  selected, so no custom identities are needed.
- Resource form: the plugin is changed to and from one with extraction; the second
  extraction overlaps the first, the second resource is the retry after a lost answer.
- Library: three copies make "keep only" a handler of two requests.  A page starts a
  fetch when none is running (`MaxFetches = 0`); the fetches that invalidations
  start and those of pages that were left run beside it, so two are under way where
  it matters.  One row in the list is deleted, edited and saved beside them; a batch
  of two, loaded in either order, is in `LibraryBatch.cfg`; handlers beside each
  other are covered by the proofs.
- Progress: two columns (the pushed one and another), two values, and a body that
  leaves the pushed column out; one column is written by inserts only, one is 0 in a
  new row.  Three saves make an insert, an update, and one that overlaps it or
  follows.

`CHECK_DEADLOCK FALSE` is set where clients may simply stop or a bound ends the
behaviour.

### Fairness

- A handler that has started runs to its end, and the event loop delivers the
  close event of a dropped connection: weak fairness per socket.
- A publisher that holds the monitor finishes its loop, since `ws.send` does not
  block and errors are rescued inside the loop, and the event loop finishes opening
  a socket: weak fairness.
- Threads of the plugin lifecycle run and get the monitor: strong fairness per
  thread, weak for the boot sequence and for the watcher's queue.
- A save of progress that has written publishes, and an event that was published
  reaches the viewer that stays: weak fairness.
- Batch import: timers go off, and the loop and the local log file go on when they
  can: weak fairness per visit.  No request is assumed to be answered.
- Clients, users, developers, publishers and crashes owe nothing.

## 4. The proofs

`P2PSignalingProofs` proves for all sets of peers and rooms, assuming only that
`NoRoom` is no room (`NoRoomAssumption`):

| Theorem | States |
|---|---|
| `TypeCorrect` | `Spec => []TypeOK` |
| `Registered` | `Spec => []RegisteredIsMember`, with or without rejoining |
| `GhostsByJoinOnly` | `Spec => GhostsAreRejoins`, with or without rejoining |
| `ViewCorrect`, `RelayCorrect` | `~RejoinAllowed => (Spec => []ViewExact)`, and the same for `RelayFromKnownPeer` |
| `PresenceImplemented` | `~RejoinAllowed => (Spec => ImplementsPresence)`, the safety part of the refinement of `RoomPresence` |

None of the properties is inductive by itself.  `HandlerInv` ties the position
of a handler to its socket's registration: while `leave_room` works on a room
(`pc` is remove, announce or notify) the socket has no registration, and a new
socket has none.  With it, removing a socket from a room cannot remove a
registered one, and a `leaving` room is a room.  `GhostsByJoinOnly` needs nothing
else: a member that is neither registered nor being removed (a `Ghost`) comes from
a join of another room and goes by a join of its own room only, so closing a socket
never repairs one.  Clients that leave before they join make none (the lemma
`GhostFree`, from which the theorems with `~RejoinAllowed` start; no document forbids
rejoining, so they are about well-behaved clients).  `NoGhost` and `HandlerInv` give
that a member of a room is registered there or is just being removed, from which
the step lemma of `ViewExact` follows action by action: `Join` gives the joiner
the members and the members the joiner, a peer that is not a member any more
still has its `peer_left` due, and `LeaveSend` takes it out of the view.
`RelayCorrect` follows: a handler that relays is registered, so it is a member of
its room, and a receiver registered in the same room knows it.

`PresenceImplemented` maps a peer to the room `@rooms` has it in.  `NoGhost` and
`HandlerInv` give that there is at most one (`OneRoom`), before and after a step.
Then `Join` is `Enter`, `LeaveRemove` is `Exit` (or nothing, if the peer is no
member), a `LeaveSend` that reaches a socket with the leaver in its view is
`Forget`, `Open` and `Drop` are `Connect` and `Disconnect`, and every other step
leaves the mapped variables alone.

`PluginLifecycleProofs` proves for all plugins, classes, schemas and request
threads, with or without kills, raising hooks and files, assuming that a class has a
name, that a table belongs to one plugin and is created by the first migration
that names it only, and that threads are distinct (the named assumptions of
`PluginLifecycle`, which the plugins in `plugins/` satisfy):

| Theorem | States |
|---|---|
| `TypeCorrect` | `Spec => []TypeOK` |
| `Exclusive` | `Spec => []RollbackIsExclusive` |
| `UntouchedSound` | `Spec => []UntouchedIsSound` |
| `LossOnlyByRollback` | `Spec => DataLostOnlyByRollback` |
| `RegisteredComplete` | `Serial /\ Spec => []RegisteredIsComplete`, where `Serial` is: only boot and the watcher load, and nothing is killed |

`RollbackIsExclusive` is inductive with the types: the registry's monitor is what
keeps a second thread from registering the plugin meanwhile.  `UntouchedIsSound`
needs three more facts.  `Position`: a thread that migrates or untracks stands at
a migration that exists, and one that rolls back has marked its plugin.
`Untouched`: the tracking table of a plugin that was never rolled back is a
prefix of its migrations and its tables hold exactly their effects; the prefix
is why a `create_table?` never meets a table that is there already, whose columns
it would leave out.  `Progressed`: a thread in `apply!` has only passed versions
that are tracked, so one that is about to register finds all of them, whichever
thread ran them.  `DataLostOnlyByRollback` follows from `RollbackIsExclusive`:
only `drop_table?` takes rows away.

`RegisteredComplete` has the hypothesis under which the run `PluginSerial` checks its
property; without it the property fails (section 3).  It speaks of plugins that were
unloaded as well, so `Untouched` is of no use.  `OneWorks`: boot works before the
process is up and the watcher after that, so two threads that work are one.
`Consistent`: a plugin nobody is rolling back has the effect of every version it
tracks, and a table that is there has the effect of the migration that creates it;
that is why a `create_table?` that finds its table, left behind by a rollback that
does not drop it, may be tracked.  `Advanced`: a rollback at version `k` has left no
version below `k` tracked, so that at its end nothing is, and a load at `k` has passed
tracked versions only.

`IdentityProofs` proves for all sets of names, volumes and custom identities and any
number of registrations at a time, assuming that `None` is none of them and that
request ids are numbers (`IdentityAssumption`):

| Theorem | States |
|---|---|
| `TypeCorrect` | `Spec => []TypeOK` |
| `SharedKnowingly` | `Spec => []SharedOnlyByReclaim` |
| `NameRegistered` | `Spec => []RegisteredName` |
| `FiledCorrectly` | `Spec => []FiledAsShown` |

`InputInv` (the settings page's input is not empty, and a request that reports to
that page finds it open) makes the types inductive: leaving the page detaches its
requests.  `NamesInv` says what the server has promised: the name of a request that
has found or inserted it is in the table, and what one has inserted was new
(`mine`), since `Insert` fails on names that are there; another device has such a
name only by a reclaim of its own (`mine \cap others \subseteq claimed`).  A 201 can
therefore never give the device another's name, whatever the others reclaim.  What
is proved is that nobody shares a name unasked: the device whose name another one
reclaims is not told, and `SharedOnlyByReclaim` says so by naming the reclaims of
both sides.  `AskedInv` says that as long as nobody types on, requests are about the
name in the input, so that what a 200 asks about is registered.  `PickerInv` says
that a picker that is shown holds one of the identities it offers or none; it holds
through removed storages because these are removed on another page.

`ResourceFormProofs` proves for all files, plugins, numbers of extractions and of
resources, assuming that `Ebook` is among the plugins with extraction, that `None` is
no value, plugin or extraction, and that ids are numbers (`FormAssumption`,
`ExtractionsAssumption`):

| Theorem | States |
|---|---|
| `TypeCorrect` | `Spec => []TypeOK` |
| `OneResource` | `Spec => []OneResourcePerForm` |
| `PluginCorrect` | `Spec => []FiledByPlugin` |
| `SubmittedSaved` | `Spec => []SavedAsSubmitted` |

`CountInv` counts a resource once its insertion was answered or its answer lost; it
is inductive because a form that is done is closed, so nothing is submitted from it
again.  `WayInv` says that everything under way (extractions, the creation, the
handler's posts, the last resource) is about the plugin of the form; only a change
of plugin while something is under way breaks it, which is what `crossed` records.
`SavedInv` follows the submitted form through the steps of the handler.

`LibraryProofs` proves for all resources, filters, handlers and numbers of requests
under way, assuming that the copies are finitely many and at least two and that
`None` is no request (`CopiesAssumption`, `SavesAssumption`):

| Theorem | States |
|---|---|
| `TypeCorrect` | `Spec => []TypeOK` |
| `CopyKept` | `Spec => []SomeCopyKept` |
| `BatchWhole` | `Spec => []BatchIsWhole` |
| `DeletedRefetched` | `Spec => []DeletedIsRefetched` |

`SomeCopyKept` is strengthened by naming the survivor (`KeptInv`): there is an
active copy that no running handler is going to delete.  A handler that starts on an
up-to-date group leaves one such copy, since a group has at least two members; a
request that ends takes only what its handler had listed.  `GroupInv` and `FetchInv`
say the same of the group that is shown and of the one a fetch brings: both consist
of copies, and a fetch that brings a deleted one was left running by an invalidation
(`outrun`) or follows a lost answer.  With it `DeletedIsRefetched` goes through step
by step (`InvalidateMarks` for the invalidations).  `BatchIsWhole` is inductive with
the types.

`SelectionProofs` proves what `HubProofs` and `BatchImportProofs` need of sequences,
from no assumption.  Its proofs are inductions over the length of a sequence: the
set of the lengths for which a claim fails has no least member (`Induction`, by the
library's theorem that `<` is well-founded on the naturals, which takes a set and
not, like its induction theorems, an operator).  `KeptSteps` says what the filter
does with one more element, `KeptFacts` that its elements are those of the sequence
that are in the set and that it keeps injectivity, `KeptAppend` and `KeptSame` what
changes when the sequence or the set grows, `KeptLast` what a filter of the
positions ends with.

`HubProofs` proves for all sockets, topics, queries, publishing threads and numbers of
events, assuming that the default topic is a topic, that queries name topics, and that
`Free` is no publisher:

| Theorem | States |
|---|---|
| `TypeCorrect` | `Spec => []TypeOK` |
| `TablesCorrect` | `Spec => []TablesMirror` |
| `DeliveryCorrect` | `Spec => []ExactlyOnceInOrder` |
| `ImplementsTopicBus` | `Spec => Bus!BSpec`, the safety part of the refinement of `TopicBus` |

`MonitorInv`: only the holder of the monitor has sockets left to send to, each of them
once, and what it sends them is the last event, of which they are subscribers and
which is newer than their subscription.  `TablesInv`: `TablesMirror`, with each socket
at most once under a topic, and no entry of a socket that has not come yet.
`DeliveryInv` extends `ExactlyOnceInOrder` to a publisher that is half-way through its
loop: a socket it has still to send to lacks the last event and nothing else.  The
property follows when the monitor is free; and it is what makes the refinement go
through, since `Deliver` hands out the oldest event a subscriber is owed, and by
`OwedFacts` a publisher's `PublishSend` hands out the only one.

`BatchImportProofs` proves for all files, folders, visits, listings and jobs, assuming
that files and job ids are finitely many, that a directory listing names a file
once, that the kinds of files are contained in each other as named, and that `None` is
no job (`FilesAssumption`, `ImportBoundsAssumption`):

| Theorem | States |
|---|---|
| `TypeCorrect` | `Spec => []TypeOK` |
| `SummaryCorrect` | `Spec => []SummaryExact` |
| `NoneLost` | `Spec => []NoneLostNoneRepeated` |

`PageInv` ties the parts of one visit together: the flags to the place of the loop
(`FlagsAt`), the status of a file to what the loop has still to process (`StatusAt`),
the counters to the status of the files of the batch (`BatchAt`).  `AwaitInv`: the job
a loop waits for has not ended, is about the file at the head, and is awaited by that
loop only, so that the answer of a job that timed out cannot be taken for that of
the next one.  `CountInv` is the strengthening `NoneLostNoneRepeated` needs: every
listing of a file pays for one resource, created, about to be created by a job, or
still to be asked for by a visit; every report and every job past its first request
has a resource of its own.

The last parts of `HubProofs` and `BatchImportProofs` are about `Progress` and
`Inventory`, which they extend beside their own modules: what every module has
(`Spec`, `TypeOK`) has the module's name before it there.

`HubProofs` proves of `Progress`, for all resources, devices, columns, bodies,
threads, viewers and tabs, assuming that the pushed column is a column, that bodies
carry values of columns, that a tab shows a resource, and that `Idle` is no request:

| Theorem | States |
|---|---|
| `ProgressTypes` | `ProgressSpec => []ProgressTypeOK` |
| `PushesTell` | `ProgressSpec => []LastPushIsRecent`, however saves of a device overlap |

`KeysInv`: a device has one row of a resource, which `INSERT ... ON CONFLICT` keeps
so. `StoredFirst`: whatever is about to be pushed, or was, has a row.  `SavingInv`:
what a save in progress will push is recent.  `RowInv`: the table has what a recent
save has written.  `ToldInv` names the event `LastPushIsRecent` is about: of the
events about a key nobody saves, the newest tells a recent value (`MaxIsLargest`
makes it the `Max` of the property).  A save that begins alone forgets the values of
the saves before it, which nobody can push any more; one that begins beside others
adds its own. Nothing is assumed about the order in which threads write and publish.

`BatchImportProofs` proves of `Inventory`, for all resources, rules, patches, drafts,
threads and numbers of requests, assuming that `Blank` is no name, that `Absent` and
`Mixed` are no rows, and that rules, patches and drafts are made of names, plugins and
columns:

| Theorem | States |
|---|---|
| `InventoryTypes` | `InventorySpec => []InventoryTypeOK`: the table holds rows that pass validation |
| `TagsFollowRules` | `InventorySpec => []TagsMatchRules` |
| `BatchesAreWhole` | `InventorySpec => BatchAllOrNothing`, however requests overlap and whichever saves fail |
| `RequestsAreAtomic` | `InventorySpec => ImplementsCatalogue`, the refinement of `Catalogue` |

`TagsMatchRules` speaks of rows at rest; `InventoryInv` says what a request owes in
between.  `WorkInv`: an idle request works on nothing, and a row that is worked on
and missing is one the request is about to insert with all its columns. 
`OverlapInv`: two requests work on one row only if it is `mixed`.  `TaggerInv`: of a
row that is not, what the tagger has still to see is the request's own copy, what it
has seen has its tags unless the tagger failed on it, and a request without a
tagger's turn writes no column the tagger looks at.  `NamedInv`, which holds for
`mixed` rows too, is what `BatchesAreWhole` needs: what will be written includes
what was asked for.  A row can differ after a step of a request that saves only if
that step is its `Commit` (`OthersKeepOut`, `SavingEnds`), which writes all rows;
`SaveRow` and `SaveFails` change none.  That the statements of an open transaction
are seen by nobody and that a rollback undoes them is what the database promises and
the model assumes (`core/inventory/resource_controller.rb:153` opens the
transaction).  `NewTagsFacts` and `AddedFacts` say what the tagger adds: tags of
rules, none the row has, and after adding them nothing more (`TaggedIsSettled`).

`RequestsAreAtomic` maps a row to `Mixed` once requests for it have overlapped, and
needs to know from which request a pending save comes (`PlanInv`): a creation
(`Enters`), a deletion (`Withdraws`), or changes that are amendments of the row as
it is now (`AmendsAll`), which is where the rows that are not `mixed` come in, since
nobody has changed them between load and save.  Then `Commit` is `Put`, `Withdraw`
or `Amend`, `SaveRow`, `SaveFails` and `TaggersFail` are nothing, `RunTaggers` is
`Label`, `BulkDelete` is `Withdraw`, and a request that starts to overlap another is
a `Withdraw` of nothing that makes its rows `Mixed`.

What is model-checked only:

- Liveness (`ReloadEnds`, `BootEnds`, `ImportEnds`, `ViewersCatchUp`) and what the
  refinements of `RoomPresence` and `TopicBus` say about fairness
  (`ImplementsFairPresence`, `ImplementsFairTopicBus`; their safety parts are
  proved): out of the prover's reach.
- The statements of the documentation the code does not keep (section 3): TLC has
  the counterexamples.

Every invariant and action property of the passing runs is a theorem (`NoGhost` a
lemma), and so is the safety part of every refinement.

## 5. What is not modelled, and the plan

Not planned: authentication (a pure decision on headers), routing, configuration,
logging, windows and menus of the Electron shell, scripts, and the pages of the web
client that only show or send one thing.  `PluginRegistry#reload` is called by tests
only, `DELETE /devices/:name` by no client.  Puma in cluster mode (`WEB_CONCURRENCY`
above 0) gives every worker a hub and a signaling server of its own; one process is
modelled.

Abstractions a reader should know of: `BatchEdit` edits the column `active` only
(the others are edited and saved alike); the filter of the list is fixed and its
rows are one page; the metadata fields of a plugin are one value in `ResourceForm`;
locations and the log of the batch import are left out; in `ResourceStore` a request
that writes takes effect when it is answered, and data become stale at any time; in
`Identity` nobody calls `DELETE /devices/:name`, after which a name could be
registered again while a device still goes by it; in `Progress` the `completed` flag
of videos is left out.

Planned, in this order:

1. `Series`: members and the two-statement delete.
2. The metadata panel, whose form may be opened before its data are there; config
   plugins other than the tagger.

To keep the number of runs small, a run that refutes a statement makes room for a
run of a new module and stays beside it as a configuration.
