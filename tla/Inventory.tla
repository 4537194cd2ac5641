------------------------------ MODULE Inventory -----------------------------
(***************************************************************************)
(* The resource inventory, core/inventory/resource_controller.rb, with the *)
(* Resource model and the config-based tagger that every save runs         *)
(* (core/plugin_loader/config.rb, TaggerPlugin).                           *)
(*                                                                         *)
(* A request thread loads a row, works on its copy and writes the row      *)
(* later.  `save` writes every column of the copy, `update` and            *)
(* `save_changes` only those that differ from what was loaded.  No row is  *)
(* ever removed.  Of the columns, `name` and `plugin` decide what the      *)
(* tagger does; type, locations and language behave like `name` and are    *)
(* left out.  One tagger plugin is loaded.                                 *)
(*                                                                         *)
(* Statements of the database may fail, and end their request.  Of a       *)
(* transaction the database promises that its writes become visible        *)
(* together or, when one of them fails, not at all; the locks it takes     *)
(* only choose an order of two commits, and the model allows both.         *)
(***************************************************************************)
EXTENDS Naturals, Sequences, SequencesExt, Selection

CONSTANTS
  Resources, Absent,
  Requests,        \* request threads
  Names, Blank,    \* Blank fails validation ("is required")
  PluginNames,
  Taggable,        \* the plugins that are loaded and taggable
  Sums, NoSum,     \* checksums; NULL
  Rules,           \* the tagger's rules, in order: the names the pattern
                   \* matches, the tag, and the plugins it applies to
  Patches,         \* bodies of PATCH: the columns named and their values
  Drafts,          \* rows as POST sends them
  Mixed,           \* see Catalogue
  MaxRequests      \* bound: requests in a behaviour

Columns == {"name", "plugin", "tags", "checksum", "active"}

TagNames == {Rules[i].tag : i \in DOMAIN Rules} \cup
            UNION {IF "tags" \in DOMAIN p THEN ToSet(p.tags) ELSE {} : p \in Patches \cup Drafts}

\* Rows with the names of `names`, and values for some of the columns of one.
RowsNamed(names) ==
  [name : names, plugin : PluginNames, tags : Seq(TagNames),
   checksum : Sums \cup {NoSum}, active : BOOLEAN]

Row == RowsNamed(Names)

Fits(p, names) ==
  /\ DOMAIN p \subseteq Columns
  /\ "name" \in DOMAIN p => p.name \in names
  /\ "plugin" \in DOMAIN p => p.plugin \in PluginNames
  /\ "tags" \in DOMAIN p => p.tags \in Seq(TagNames)
  /\ "checksum" \in DOMAIN p => p.checksum \in Sums \cup {NoSum}
  /\ "active" \in DOMAIN p => p.active \in BOOLEAN

ASSUME BlankAssumption == Blank \notin Names
ASSUME AbsentAssumption == {Absent, Mixed} \cap Row = {} /\ Absent # Mixed
ASSUME TaggableAssumption == Taggable \subseteq PluginNames
ASSUME RulesAssumption ==
  Rules \in Seq([names : SUBSET Names, tag : TagNames, plugins : SUBSET PluginNames])
ASSUME PatchesAssumption == \A p \in Patches : Fits(p, Names \cup {Blank})
ASSUME DraftsAssumption == Drafts \subseteq RowsNamed(Names \cup {Blank})
ASSUME MaxRequestsAssumption == MaxRequests \in Nat

VARIABLES
  rows,    \* the resources table
  pc,      \* "idle", "save", "tag"
  attrs,   \* per request: the columns it names, for each of its resources
  copy,    \* per request: its in-memory resources
  write,   \* per request: the columns its save will write
  saved,   \* per request: resources its open transaction has written
  todo,    \* per request: resources the tagger has still to see
  started, \* requests so far
  mixed,   \* history: the resources for which two requests have overlapped
  untagged \* history: those stored by a request whose tagger then failed

inventoryVars == <<rows, pc, attrs, copy, write, saved, todo, started, mixed, untagged>>

InventoryTypeOK ==
  /\ rows \in [Resources -> Row \cup {Absent}]
  /\ pc \in [Requests -> {"idle", "save", "tag"}]
  /\ saved \in [Requests -> SUBSET Resources]
  /\ todo \in [Requests -> SUBSET Resources]
  /\ Requests = DOMAIN attrs /\ Requests = DOMAIN copy /\ Requests = DOMAIN write
  /\ \A t \in Requests :
       /\ DOMAIN copy[t] \subseteq Resources /\ todo[t] \subseteq DOMAIN copy[t]
       /\ DOMAIN attrs[t] = DOMAIN copy[t] /\ DOMAIN write[t] = DOMAIN copy[t]
       /\ \A r \in DOMAIN copy[t] : /\ copy[t][r] \in Row
                                    /\ Fits(attrs[t][r], Names) /\ Fits(write[t][r], Names)
  /\ started \in 0 .. MaxRequests
  /\ mixed \subseteq Resources /\ untagged \subseteq Resources

InventoryInit ==
  /\ rows = [r \in Resources |-> Absent]
  /\ pc = [t \in Requests |-> "idle"]
  /\ attrs = [t \in Requests |-> <<>>]
  /\ copy = [t \in Requests |-> <<>>]
  /\ write = [t \in Requests |-> <<>>]
  /\ saved = [t \in Requests |-> {}]
  /\ todo = [t \in Requests |-> {}]
  /\ started = 0
  /\ mixed = {} /\ untagged = {}

-----------------------------------------------------------------------------
(* How a request begins. *)

\* Resources some request is working on.
Busy == UNION {DOMAIN copy[t] : t \in Requests}

\* A request for ids comes in.
Accept(t, ids) ==
  /\ pc[t] = "idle" /\ started < MaxRequests
  /\ started' = started + 1
  /\ mixed' = mixed \cup (ids \cap Busy)

\* Request t has loaded the resources of `loaded`, will write `columns`, and
\* then passes the ones in `tag` to the tagger.
Begin(t, named, loaded, columns, tag) ==
  /\ pc' = [pc EXCEPT ![t] = "save"]
  /\ attrs' = [attrs EXCEPT ![t] = named]
  /\ copy' = [copy EXCEPT ![t] = loaded]
  /\ write' = [write EXCEPT ![t] = columns]
  /\ todo' = [todo EXCEPT ![t] = tag]
  /\ UNCHANGED <<rows, saved, untagged>>

\* A row with the columns of p changed.
Over(p, row) == [c \in DOMAIN p \cup DOMAIN row |-> IF c \in DOMAIN p THEN p[c] ELSE row[c]]

Exist(ids) == \A r \in ids : rows[r] # Absent

\* Mutant: no `valid?`.
MutValid(row) == TRUE

Valid(row) == row.name # Blank

\* create_resource, up to `valid?`.
Create(t, r, draft) ==
  LET one == [x \in {r} |-> draft] IN
  /\ Accept(t, {r})
  /\ rows[r] = Absent /\ r \notin Busy
  /\ Valid(draft)
  /\ Begin(t, one, one, one, {r})

\* update_resource and bulk_update, up to the last `valid?`: all entries are
\* found and valid or nothing is saved.  The copies carry every column.
Update(t, f) ==
  LET ids == DOMAIN f
      set == [r \in ids |-> Over(f[r], rows[r])]
  IN /\ Accept(t, ids)
     /\ ids # {} /\ Exist(ids)
     /\ \A r \in ids : Valid(set[r])
     /\ Begin(t, f, set, set, ids)

\* delete_resource: update(active: false) writes nothing if the copy is
\* inactive already.
Delete(t, r) ==
  LET gone == [x \in {r} |-> [active |-> FALSE]] IN
  /\ Accept(t, {r}) /\ Exist({r})
  /\ Begin(t, gone, [x \in {r} |-> rows[r]],
           [x \in {r} |-> IF rows[r].active THEN gone[r] ELSE <<>>], {})

\* compute_checksum: the digest of a file is computed after the row is loaded.
Checksum(t, r, sum) ==
  LET new == [x \in {r} |-> [checksum |-> sum]] IN
  /\ Accept(t, {r}) /\ Exist({r})
  /\ Begin(t, new, [x \in {r} |-> rows[r]],
           [x \in {r} |-> IF rows[r].checksum # sum THEN new[r] ELSE <<>>], {})

\* bulk_delete: one UPDATE statement, nothing loaded; ids not found are ignored.
BulkDelete(t, ids) ==
  /\ Accept(t, ids) /\ ids # {}
  /\ rows' = [r \in Resources |->
       IF r \in ids /\ rows[r] # Absent THEN [rows[r] EXCEPT !.active = FALSE] ELSE rows[r]]
  /\ UNCHANGED <<pc, attrs, copy, write, saved, todo, untagged>>

-----------------------------------------------------------------------------
(* How it ends. *)

Answer(t) ==
  /\ pc' = [pc EXCEPT ![t] = "idle"]
  /\ attrs' = [attrs EXCEPT ![t] = <<>>]
  /\ copy' = [copy EXCEPT ![t] = <<>>]
  /\ write' = [write EXCEPT ![t] = <<>>]
  /\ todo' = [todo EXCEPT ![t] = {}]

\* The row a save leaves.
Stored(t, r) == IF rows[r] = Absent THEN write[t][r] ELSE Over(write[t][r], rows[r])

\* Mutant: no transaction, so every save can be seen at once.
MutSaveRow(t, r) ==
  /\ pc[t] = "save" /\ r \in DOMAIN write[t] \ saved[t]
  /\ rows' = [rows EXCEPT ![r] = Stored(t, r)]
  /\ saved' = [saved EXCEPT ![t] = @ \cup {r}]
  /\ UNCHANGED <<pc, attrs, copy, write, todo, started, mixed, untagged>>

\* A save inside the transaction: nobody sees it yet.
SaveRow(t, r) ==
  /\ pc[t] = "save" /\ r \in DOMAIN write[t] \ saved[t]
  /\ saved' = [saved EXCEPT ![t] = @ \cup {r}]
  /\ UNCHANGED <<rows, pc, attrs, copy, write, todo, started, mixed, untagged>>

\* A statement fails: the transaction is rolled back, the request answered with
\* an error.
SaveFails(t) ==
  /\ pc[t] = "save"
  /\ saved' = [saved EXCEPT ![t] = {}]
  /\ Answer(t)
  /\ UNCHANGED <<rows, started, mixed, untagged>>

\* All rows are saved and the transaction ends.
Commit(t) ==
  /\ pc[t] = "save" /\ saved[t] = DOMAIN write[t]
  /\ rows' = [r \in Resources |-> IF r \in saved[t] THEN Stored(t, r) ELSE rows[r]]
  /\ saved' = [saved EXCEPT ![t] = {}]
  /\ IF todo[t] = {} THEN Answer(t)
     ELSE pc' = [pc EXCEPT ![t] = "tag"] /\ UNCHANGED <<attrs, copy, write, todo>>
  /\ UNCHANGED <<started, mixed, untagged>>

\* TaggerPlugin#run!: the tags of the rules that match, those the resource has
\* taken out.  Two rules with one tag yield it twice.
NewTags(row) ==
  LET hits == Kept(Rules, {rule \in ToSet(Rules) : row.name \in rule.names
                                                    /\ row.plugin \in rule.plugins})
  IN [i \in DOMAIN hits |-> hits[i].tag]

Added(row) == Kept(NewTags(row), TagNames \ ToSet(row.tags))

\* Mutant: the new tags replace the ones the resource has.
MutRunTaggers(t, r) ==
  LET mine == copy[t][r] IN
  /\ pc[t] = "tag"
  /\ r \in todo[t]
  /\ rows' = IF mine.plugin \in Taggable /\ Added(mine) # <<>>
             THEN [rows EXCEPT ![r].tags = Added(mine)] ELSE rows
  /\ IF todo[t] = {r} THEN Answer(t)
     ELSE todo' = [todo EXCEPT ![t] = @ \ {r}] /\ UNCHANGED <<pc, attrs, copy, write>>
  /\ untagged' = untagged \ {r}
  /\ UNCHANGED <<saved, started, mixed>>

\* Mutant: the tagger runs on the first resource of a batch only.
MutRunTaggersOnce(t, r) ==
  LET mine == copy[t][r] IN
  /\ pc[t] = "tag"
  /\ r \in todo[t]
  /\ rows' = IF mine.plugin \in Taggable /\ Added(mine) # <<>>
             THEN [rows EXCEPT ![r].tags = mine.tags \o Added(mine)] ELSE rows
  /\ Answer(t)
  /\ untagged' = untagged \ {r}
  /\ UNCHANGED <<saved, started, mixed>>

\* run_taggers! on one saved resource: the tags column is written from the
\* request's own copy.
RunTaggers(t, r) ==
  LET mine == copy[t][r] IN
  /\ pc[t] = "tag"
  /\ r \in todo[t]
  /\ rows' = IF mine.plugin \in Taggable /\ Added(mine) # <<>>
             THEN [rows EXCEPT ![r].tags = mine.tags \o Added(mine)] ELSE rows
  /\ IF todo[t] = {r} THEN Answer(t)
     ELSE todo' = [todo EXCEPT ![t] = @ \ {r}] /\ UNCHANGED <<pc, attrs, copy, write>>
  /\ untagged' = untagged \ {r}
  /\ UNCHANGED <<saved, started, mixed>>

\* The tagger raises: what is committed stays, and the resources it has not seen
\* stay as they are.
TaggersFail(t) ==
  /\ pc[t] = "tag"
  /\ untagged' = untagged \cup todo[t]
  /\ Answer(t)
  /\ UNCHANGED <<rows, saved, started, mixed>>

-----------------------------------------------------------------------------
InventoryNext ==
  \E t \in Requests :
    \/ \E r \in Resources :
         \/ \E draft \in Drafts : Create(t, r, draft)
         \/ Delete(t, r)
         \/ \E sum \in Sums : Checksum(t, r, sum)
         \/ SaveRow(t, r)
         \/ RunTaggers(t, r)
    \/ \E ids \in SUBSET Resources :
         BulkDelete(t, ids) \/ \E f \in [ids -> Patches] : Update(t, f)
    \/ Commit(t) \/ SaveFails(t) \/ TaggersFail(t)

InventorySpec == InventoryInit /\ [][InventoryNext]_inventoryVars

-----------------------------------------------------------------------------
(* Safety, however requests overlap. *)

\* A batch is all or nothing, though each row is saved by itself and any save
\* may fail: as long as it is saving, no row of it is seen to change, but for
\* those other requests work on too, until a step that gives every row of it
\* every column the batch names.
BatchAllOrNothing ==
  [][\A t \in Requests :
       (/\ pc[t] = "save" /\ todo[t] # {}
        /\ \E r \in DOMAIN attrs[t] \ mixed' : rows'[r] # rows[r]) =>
          \A r \in DOMAIN attrs[t] : \A c \in DOMAIN attrs[t][r] :
            rows'[r][c] = attrs[t][r][c]]_inventoryVars

(* Safety of the resources for which requests have not overlapped. *)

\* A resource no request is working on has the tag of every rule that matches
\* it, whatever name, plugin or tags the last request gave it and whatever saves
\* have failed, unless the tagger failed on it and has not seen it since.
TagsMatchRules ==
  \A r \in Resources \ (Busy \cup mixed \cup untagged) :
    (rows[r] # Absent /\ rows[r].plugin \in Taggable) => Added(rows[r]) = <<>>

\* Requests are the atomic changes Catalogue describes, each followed by the
\* tagger's, on the resources for which requests have not overlapped.
Books == INSTANCE Catalogue WITH
  Items <- Resources, Amendments <- Patches \cup {[checksum |-> s] : s \in Sums},
  Entries <- Drafts,
  shelf <- [r \in Resources |-> IF r \in mixed THEN Mixed ELSE rows[r]]

ImplementsCatalogue == Books!CSpec

(* What the documentation says. *)

\* DELETE sets active to false, and the fields of a PATCH body are optional: a
\* resource becomes active again only through a request that says so.
DeletedStaysDeleted ==
  [][\A r \in Resources :
       (rows[r] # Absent /\ ~rows[r].active /\ rows'[r].active) =>
         \E t \in Requests : /\ r \in DOMAIN attrs[t]
                             /\ "active" \in DOMAIN attrs[t][r]
                             /\ attrs[t][r].active]_inventoryVars
=============================================================================
