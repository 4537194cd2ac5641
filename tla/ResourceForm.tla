---------------------------- MODULE ResourceForm ----------------------------
(***************************************************************************)
(* Adding one resource: ResourceFormPage.tsx.                              *)
(*                                                                         *)
(* Metadata is extracted from a file while the user goes on with the form: *)
(* an extraction works with the form of the moment it was begun, and lays  *)
(* its result over that.  Submitting creates the resource with the form of *)
(* that moment; when the answer comes, metadata and cover are posted from  *)
(* the form as it is then, one after the other, and the page is left.  The *)
(* form is not locked meanwhile, and a creation goes on when it is left.   *)
(*                                                                         *)
(* The fields of a plugin's metadata are one: empty, typed or extracted    *)
(* from a file.  Location, language and identity go with the name into the *)
(* request that creates the resource and are left out.                     *)
(***************************************************************************)
EXTENDS Naturals, Sequences, Extraction

CONSTANTS
  Files,           \* files the user has
  Plugins,         \* content plugins
  Extractable,     \* those with extraction: EXTRACTABLE
  Titled,          \* those whose files have a title
  Ebook,           \* the plugin with covers
  Typed,           \* what the user types
  None,            \* empty
  ExtractIds,      \* bound: extractions under way at a time
  MaxResources     \* bound: resources on the server

ASSUME FormAssumption ==
  /\ Ebook \in Extractable /\ Titled \subseteq Extractable /\ Extractable \subseteq Plugins
  /\ Typed \notin Files \cup {None} /\ None \notin Files \cup Plugins
  /\ MaxResources \in Nat \ {0} /\ ExtractIds \subseteq Nat

VARIABLES
  open,            \* is the page open?
  form,            \* what the user sees in it
  extracting,      \* is "extracting" shown?
  extraction,      \* per id: an extraction and the form it was begun with
  creation,        \* the create mutation, with its closure
  resources,       \* server: the resources created by this form
  lost,            \* history: creations whose answer was lost
  submitted,       \* history: the form that was submitted, unless it has
                   \* changed before the answer
  crossed          \* history: was the plugin changed while something was
                   \* under way?

page == <<open, form, extracting, extraction>>
history == <<lost, submitted, crossed>>
vars == <<page, creation, resources, history>>

Values == Files \cup {Typed, None}
Metas == [Plugins -> Values]
NoMeta == [p \in Plugins |-> None]
Forms == [name : Values, plugin : Plugins, meta : Metas, cover : Files \cup {None}]
EmptyForm == [name |-> None, plugin |-> Ebook, meta |-> NoMeta, cover |-> None]

Extractions == [file : Files, plugin : Extractable, name : Values, meta : Metas]

ASSUME ExtractionsAssumption == None \notin Extractions

Resources == [plugin : Plugins, metaOf : Plugins \cup {None}, meta : Metas,
              cover : Files \cup {None}, failed : SUBSET {"meta", "cover"}]

Idle == [step |-> "idle"]
Creations == [step : {"sent"}, plugin : Plugins]
  \cup [step : {"meta", "cover"}, plugin : Plugins, meta : Metas, cover : Files \cup {None}]
  \cup [step : {"idle", "created", "error", "done"}]

Pending == creation.step \in {"sent", "created", "meta", "cover"}

TypeOK ==
  /\ {open, extracting, crossed} \subseteq BOOLEAN
  /\ form \in Forms /\ submitted \in Forms \cup {None}
  /\ extraction \in [ExtractIds -> Extractions \cup {None}]
  /\ creation \in Creations
  /\ resources \in Seq(Resources) /\ Len(resources) <= MaxResources
  /\ lost \in Nat
  \* extraction is shown only while there is some
  /\ extracting => \E x \in ExtractIds : extraction[x] # None

Init ==
  /\ open = TRUE /\ form = EmptyForm
  /\ extracting = FALSE
  /\ extraction = [x \in ExtractIds |-> None]
  /\ creation = Idle
  /\ resources = <<>>
  /\ lost = 0 /\ submitted = None /\ crossed = FALSE

-----------------------------------------------------------------------------
(* The fields. *)

\* What the page shows for extraction and metadata, and when it can be sent.
ExtractShown == open /\ form.plugin \in Extractable

\* Mutant: the button is not disabled while a creation is under way.
MutSubmitEnabled == open /\ form.name # None

SubmitEnabled == open /\ ~Pending /\ form.name # None

SetForm(f) ==
  /\ form' = f
  /\ submitted' = IF creation.step \in {"sent", "created"} /\ f # form THEN None
                  ELSE submitted

TypeName(v) ==
  /\ open /\ form.name # v
  /\ SetForm([form EXCEPT !.name = v])
  /\ UNCHANGED <<open, extracting, extraction, creation, resources, lost, crossed>>

TypeMeta(v) ==
  /\ open /\ form.meta[form.plugin] # v
  /\ SetForm([form EXCEPT !.meta[form.plugin] = v])
  /\ UNCHANGED <<open, extracting, extraction, creation, resources, lost, crossed>>

\* Mutant: the metadata of the old plugin is kept.
MutChanged(p) == [form EXCEPT !.plugin = p]

\* changePlugin empties the metadata, and leaves the cover.
Changed(p) == [form EXCEPT !.plugin = p, !.meta = NoMeta]

ChangePlugin(p) ==
  /\ open /\ p # form.plugin
  /\ SetForm(Changed(p))
  /\ crossed' = (crossed \/ Pending \/ \E x \in ExtractIds : extraction[x] # None)
  /\ UNCHANGED <<open, extracting, extraction, creation, resources, lost>>

-----------------------------------------------------------------------------
(* Extraction. *)

\* extractFromFile, up to its await, with the form that is shown.
Begin(file) ==
  \E x \in ExtractIds :
    /\ extraction[x] = None
    /\ \A y \in ExtractIds : extraction[y] = None => x <= y
    /\ extraction' = [extraction EXCEPT ![x] =
         [file |-> file, plugin |-> form.plugin, name |-> form.name, meta |-> form.meta]]
    /\ extracting' = TRUE

\* handleLocalFile.
PickFile(file) ==
  /\ ExtractShown
  /\ Begin(file)
  /\ UNCHANGED <<open, form, creation, resources, history>>

\* handleDrop: the file becomes the location, and is extracted if it can be.
DropFile(file) ==
  /\ open /\ form.plugin \in Extractable
  /\ Begin(file)
  /\ UNCHANGED <<open, form, creation, resources, history>>

\* applyExtracted: what was found is laid over the metadata the extraction was
\* begun with, and the title becomes the name if there was none then.
Applied(x, f) ==
  [form EXCEPT !.meta = IF f.found THEN [x.meta EXCEPT ![x.plugin] = x.file] ELSE x.meta,
               !.name = IF f.title /\ x.name = None THEN x.file ELSE @]

Findings(p) ==
  IF p = Ebook THEN EbookFindings
  ELSE IF p \in Titled THEN MusicFindings ELSE VideoFindings

Extracted(x) ==
  /\ extraction[x] # None
  /\ LET e == extraction[x] IN
     \E f \in Findings(e.plugin) :
       SetForm(IF e.plugin # Ebook THEN Applied(e, f)
               ELSE [Applied(e, f) EXCEPT !.cover = IF f.cover THEN e.file ELSE None])
  /\ extracting' = FALSE
  /\ extraction' = [extraction EXCEPT ![x] = None]
  /\ UNCHANGED <<open, creation, resources, lost, crossed>>

\* Mutant: a failure leaves "extracting" on.
MutExtractFails(x) ==
  /\ extraction[x] # None
  /\ extraction' = [extraction EXCEPT ![x] = None]
  /\ UNCHANGED <<open, form, extracting, creation, resources, history>>

\* What an earlier file has given stays.
ExtractFails(x) ==
  /\ extraction[x] # None
  /\ extracting' = FALSE
  /\ extraction' = [extraction EXCEPT ![x] = None]
  /\ UNCHANGED <<open, form, creation, resources, history>>

-----------------------------------------------------------------------------
(* The create mutation. *)

Submit ==
  /\ SubmitEnabled
  /\ creation' = [step |-> "sent", plugin |-> form.plugin]
  /\ submitted' = form
  /\ UNCHANGED <<page, resources, lost, crossed>>

\* POST /resources: the server creates the resource ...
Insert ==
  /\ creation.step = "sent" /\ Len(resources) < MaxResources
  /\ resources' = Append(resources,
       [plugin |-> creation.plugin, metaOf |-> None, meta |-> NoMeta, cover |-> None,
        failed |-> {}])
  /\ creation' = [step |-> "created"]
  /\ UNCHANGED <<page, history>>

\* ... or the request fails, or its answer is lost.
CreateFails ==
  /\ creation.step \in {"sent", "created"}
  /\ creation' = [step |-> "error"]
  /\ lost' = lost + IF creation.step = "created" THEN 1 ELSE 0
  /\ submitted' = None
  /\ form' = IF open THEN form ELSE EmptyForm
  /\ UNCHANGED <<open, extracting, extraction, resources, crossed>>

Last == Len(resources)

\* navigate: the form is left for the resource, from wherever the user is.
Finish(r) ==
  /\ creation' = [step |-> "done"]
  /\ resources' = [resources EXCEPT ![Last] = r]
  /\ open' = FALSE
  /\ form' = EmptyForm
  /\ extraction' = [x \in ExtractIds |-> None]
  /\ extracting' = FALSE

\* The cover is posted next, or the page is left.
GoOn(c, r) ==
  IF c.plugin = Ebook /\ c.cover # None
  THEN /\ creation' = [c EXCEPT !.step = "cover"]
       /\ resources' = [resources EXCEPT ![Last] = r]
       /\ UNCHANGED <<open, form, extraction, extracting>>
  ELSE Finish(r)

\* onSuccess runs with the form of the last render.
Created ==
  /\ creation.step = "created"
  /\ LET c == [step |-> "meta", plugin |-> form.plugin, meta |-> form.meta,
               cover |-> form.cover] IN
     IF form.meta = NoMeta THEN GoOn(c, resources[Last])
     ELSE creation' = c /\ UNCHANGED <<page, resources>>
  /\ UNCHANGED history

\* The metadata is posted under the plugin of the form.
MetaSaved ==
  /\ creation.step = "meta"
  /\ GoOn(creation, [resources[Last] EXCEPT !.metaOf = creation.plugin,
                                            !.meta = creation.meta])
  /\ UNCHANGED history

\* Mutant: a failure ends the handler.
MutMetaFails ==
  /\ creation.step = "meta"
  /\ Finish([resources[Last] EXCEPT !.failed = {"meta"}])
  /\ UNCHANGED history

\* A failure is swallowed, and the cover is posted all the same.
MetaFails ==
  /\ creation.step = "meta"
  /\ GoOn(creation, [resources[Last] EXCEPT !.failed = {"meta"}])
  /\ UNCHANGED history

CoverSaved ==
  /\ creation.step = "cover"
  /\ Finish([resources[Last] EXCEPT !.cover = creation.cover])
  /\ UNCHANGED history

CoverFails ==
  /\ creation.step = "cover"
  /\ Finish([resources[Last] EXCEPT !.failed = @ \cup {"cover"}])
  /\ UNCHANGED history

\* The page is left by its cancel button or another link.  Its form lives on in
\* the closure of a creation that is under way.
Leave ==
  /\ open
  /\ open' = FALSE
  /\ form' = IF Pending THEN form ELSE EmptyForm
  /\ extraction' = [x \in ExtractIds |-> None]
  /\ extracting' = FALSE
  /\ UNCHANGED <<creation, resources, history>>

Next ==
  \/ \E v \in {Typed, None} : TypeName(v)
  \/ TypeMeta(Typed)
  \/ \E f \in Files : PickFile(f) \/ DropFile(f)
  \/ \E p \in Plugins : ChangePlugin(p)
  \/ \E x \in ExtractIds : Extracted(x) \/ ExtractFails(x)
  \/ Submit \/ Insert \/ CreateFails \/ Created
  \/ MetaSaved \/ MetaFails \/ CoverSaved \/ CoverFails \/ Leave

Spec == Init /\ [][Next]_vars

-----------------------------------------------------------------------------
(* Properties. *)

\* A form gives one resource, and one more for every answer that was lost:
\* retries and slow answers create no other.
OneResourcePerForm == Len(resources) <= 1 + lost

\* A resource never gets the metadata of another plugin, nor a cover without
\* being an ebook, however files are extracted and failures are retried, unless
\* the plugin was changed while an extraction or a creation was under way.
FiledByPlugin == ~crossed =>
  \A i \in 1 .. Len(resources) : LET r == resources[i] IN
    /\ r.metaOf \in {r.plugin, None}
    /\ \A p \in Plugins : r.meta[p] # None => p = r.plugin
    /\ r.cover # None => r.plugin = Ebook

\* When the page goes to the resource, that has the metadata and the cover that
\* were submitted, but for a request of its own that failed, unless the form was
\* changed before the creation was answered.
SavedAsSubmitted == creation.step = "done" /\ submitted # None =>
  LET r == resources[Last] IN
  /\ r.meta = submitted.meta \/ "meta" \in r.failed
  /\ submitted.plugin = Ebook => r.cover = submitted.cover \/ "cover" \in r.failed

\* ResourceFormPage.tsx:64: the title found in a file becomes the name only
\* while there is no name.
NameFilledOnlyIfEmpty == [][
  (\E x \in ExtractIds : Extracted(x)) /\ form.name # None => form'.name = form.name]_vars
=============================================================================
