------------------------- MODULE ResourceFormProofs -------------------------
(***************************************************************************)
(* Proofs about ResourceForm, for any files, plugins and extractions.      *)
(*                                                                         *)
(* CountInv says where the creation under way stands among the resources   *)
(* that exist; FiledInv says which plugin's metadata are where, SavedInv   *)
(* what the steps after a submission still have of it.                     *)
(***************************************************************************)
EXTENDS ResourceForm, SequenceTheorems, TLAPS

Handling == creation.step \in {"created", "meta", "cover"}

\* A resource is counted once its insertion was answered, or its answer lost.
CountInv ==
  /\ Len(resources) <= lost + IF Handling \/ creation.step = "done" THEN 1 ELSE 0
  /\ Handling => Len(resources) > 0
  /\ creation.step = "done" => ~open /\ Len(resources) > 0
  /\ ~open => \A x \in ExtractIds : extraction[x] = None

\* A handler that posts metadata or a cover, and what it posts.
Handlers == [step : {"meta", "cover"}, plugin : Plugins, meta : Metas,
             cover : Files \cup {None}]

-----------------------------------------------------------------------------
(* Types. *)

\* The records of a creation.
LEMMA CreationFields ==
  ASSUME creation \in Creations
  PROVE  /\ creation.step = "sent" => creation.plugin \in Plugins
         /\ creation.step \in {"meta", "cover"} => creation \in Handlers
  BY DEF Creations, Handlers

\* The steps a creation can be at.
LEMMA CreationTypes ==
  /\ \A p \in Plugins : [step |-> "sent", plugin |-> p] \in Creations
  /\ \A s \in {"idle", "created", "error", "done"} : [step |-> s] \in Creations
  /\ Handlers \subseteq Creations
  BY DEF Creations, Handlers

\* The empty form.
LEMMA EmptyFormType == EmptyForm \in Forms /\ NoMeta \in Metas
  BY FormAssumption DEF EmptyForm, Forms, NoMeta, Metas, Values

\* The resource that was created last.
LEMMA LastResource ==
  ASSUME TypeOK, Len(resources) > 0, NEW r \in Resources
  PROVE  /\ Last \in 1 .. Len(resources) /\ resources[Last] \in Resources
         /\ [resources EXCEPT ![Last] = r] \in Seq(Resources)
         /\ Len([resources EXCEPT ![Last] = r]) = Len(resources)
         /\ \A i \in 1 .. Len(resources) :
              [resources EXCEPT ![Last] = r][i] = IF i = Last THEN r ELSE resources[i]
<1>1. resources \in Seq(Resources) /\ Len(resources) \in Nat
  BY DEF TypeOK
<1>2. Last \in 1 .. Len(resources)
  BY <1>1 DEF Last
<1> QED
  BY <1>1, <1>2, ElementOfSeq, ExceptSeq

\* A form that takes the place of the one that is shown.
LEMMA SetFormType ==
  ASSUME TypeOK, NEW f \in Forms, SetForm(f)
  PROVE  form' \in Forms /\ submitted' \in Forms \cup {None}
  BY DEF SetForm, TypeOK

\* What an extraction lays over the form.
LEMMA AppliedType ==
  ASSUME TypeOK, NEW x \in Extractions, NEW f
  PROVE  Applied(x, f) \in Forms
<1>1. x.file \in Values /\ x.plugin \in Plugins /\ x.meta \in Metas
  BY FormAssumption DEF Extractions, Values
<1>2. [x.meta EXCEPT ![x.plugin] = x.file] \in Metas
  BY <1>1 DEF Metas
<1>3. form \in Forms
  BY DEF TypeOK
<1> QED
  BY <1>1, <1>2, <1>3 DEF Applied, Forms

\* An extraction begins.
LEMMA BeginType ==
  ASSUME TypeOK, NEW file \in Files, form.plugin \in Extractable, Begin(file)
  PROVE  /\ extraction' \in [ExtractIds -> Extractions \cup {None}]
         /\ \E x \in ExtractIds : extraction'[x] # None
<1> DEFINE e == [file |-> file, plugin |-> form.plugin, name |-> form.name,
                 meta |-> form.meta]
<1>1. PICK x \in ExtractIds : extraction' = [extraction EXCEPT ![x] = e]
  BY DEF Begin
<1>2. e \in Extractions
  BY DEF Extractions, TypeOK, Forms
<1> HIDE DEF e
<1> QED
  BY <1>1, <1>2, ExtractionsAssumption DEF TypeOK

\* The handler ends: the page is left.
LEMMA FinishStep ==
  ASSUME TypeOK, CountInv, Handling, NEW r \in Resources, Finish(r), UNCHANGED history
  PROVE  TypeOK' /\ CountInv'
<1>1. resources' \in Seq(Resources) /\ Len(resources') = Len(resources)
  BY LastResource DEF Finish, CountInv
<1>2. creation' \in Creations /\ creation'.step = "done"
  BY CreationTypes DEF Finish
<1>3. form' \in Forms
  BY EmptyFormType DEF Finish
<1>4. extraction' \in [ExtractIds -> Extractions \cup {None}]
      /\ \A x \in ExtractIds : extraction'[x] = None
  BY DEF Finish
<1>5. TypeOK'
  BY <1>1, <1>2, <1>3, <1>4 DEF TypeOK, Finish, history
<1>6. CountInv'
  BY <1>1, <1>2, <1>4 DEF CountInv, Finish, history, Handling
<1> QED
  BY <1>5, <1>6

\* The handler goes on to the cover, or ends.
LEMMA GoOnStep ==
  ASSUME TypeOK, CountInv, Handling, NEW c \in Handlers, NEW r \in Resources, GoOn(c, r),
         UNCHANGED history
  PROVE  TypeOK' /\ CountInv'
<1>1. CASE Finish(r)
  BY <1>1, FinishStep
<1>2. CASE /\ creation' = [c EXCEPT !.step = "cover"]
           /\ resources' = [resources EXCEPT ![Last] = r]
           /\ UNCHANGED page
  <2>1. resources' \in Seq(Resources) /\ Len(resources') = Len(resources)
    BY <1>2, LastResource DEF CountInv
  <2>2. creation' \in Creations /\ creation'.step = "cover"
    BY <1>2, CreationTypes DEF Handlers
  <2>3. TypeOK'
    BY <1>2, <2>1, <2>2 DEF TypeOK, page, history
  <2>4. CountInv'
    BY <1>2, <2>1, <2>2 DEF CountInv, page, history, Handling
  <2> QED
    BY <2>3, <2>4
<1> QED
  BY <1>1, <1>2 DEF GoOn, page

\* A step keeps types and counts.
LEMMA TypeStep ==
  ASSUME TypeOK, CountInv, [Next]_vars
  PROVE  TypeOK' /\ CountInv'
<1>1. /\ resources \in Seq(Resources) /\ Len(resources) \in Nat /\ lost \in Nat
      /\ creation \in Creations /\ form \in Forms
      /\ extraction \in [ExtractIds -> Extractions \cup {None}]
  BY DEF TypeOK
<1>2. CASE UNCHANGED vars
  BY <1>2 DEF vars, page, history, TypeOK, CountInv, Handling
<1>3. ASSUME NEW f \in Forms, SetForm(f), UNCHANGED <<open, extracting, extraction,
             creation, resources, lost>>, crossed' \in BOOLEAN
      PROVE  TypeOK' /\ CountInv'
  BY <1>3, SetFormType DEF TypeOK, CountInv, Handling
<1>4. ASSUME NEW v \in {Typed, None}, TypeName(v) PROVE TypeOK' /\ CountInv'
  <2>1. [form EXCEPT !.name = v] \in Forms
    BY <1>1 DEF Forms, Values
  <2> QED
    BY <1>3, <1>4, <2>1 DEF TypeName, TypeOK
<1>5. CASE TypeMeta(Typed)
  <2>1. [form EXCEPT !.meta[form.plugin] = Typed] \in Forms
    BY <1>1 DEF Forms, Metas, Values
  <2> QED
    BY <1>3, <1>5, <2>1 DEF TypeMeta, TypeOK
<1>6. ASSUME NEW p \in Plugins, ChangePlugin(p) PROVE TypeOK' /\ CountInv'
  <2>1. Changed(p) \in Forms
    BY <1>1, EmptyFormType DEF Changed, Forms
  <2>2. crossed' \in BOOLEAN
    BY <1>6 DEF ChangePlugin
  <2> QED
    BY <1>3, <1>6, <2>1, <2>2 DEF ChangePlugin
<1>7. ASSUME NEW f \in Files, PickFile(f) \/ DropFile(f) PROVE TypeOK' /\ CountInv'
  <2>1. open /\ form.plugin \in Extractable /\ Begin(f)
        /\ UNCHANGED <<open, form, creation, resources, history>>
    BY <1>7 DEF PickFile, DropFile, ExtractShown
  <2>2. /\ extraction' \in [ExtractIds -> Extractions \cup {None}]
        /\ \E x \in ExtractIds : extraction'[x] # None
        /\ extracting' = TRUE
    BY <2>1, BeginType DEF Begin
  <2>3. TypeOK'
    BY <2>1, <2>2 DEF TypeOK, history
  <2>4. CountInv'
    BY <2>1 DEF CountInv, history, Handling
  <2> QED
    BY <2>3, <2>4
<1>8. ASSUME NEW x \in ExtractIds, Extracted(x) PROVE TypeOK' /\ CountInv'
  <2>1. extraction[x] \in Extractions /\ extraction[x] # None
    BY <1>1, <1>8 DEF Extracted
  <2>2. PICK f \in Forms : SetForm(f)
    <3>1. PICK g : SetForm(IF extraction[x].plugin # Ebook THEN Applied(extraction[x], g)
                 ELSE [Applied(extraction[x], g) EXCEPT
                         !.cover = IF g.cover THEN extraction[x].file ELSE None])
      BY <1>8 DEF Extracted
    <3>2. Applied(extraction[x], g) \in Forms
      BY <2>1, AppliedType
    <3>3. [Applied(extraction[x], g) EXCEPT
             !.cover = IF g.cover THEN extraction[x].file ELSE None] \in Forms
      BY <2>1, <3>2 DEF Forms, Extractions
    <3> QED
      BY <3>1, <3>2, <3>3
  <2>3. /\ extracting' = FALSE /\ extraction' = [extraction EXCEPT ![x] = None]
        /\ UNCHANGED <<open, creation, resources, lost, crossed>>
    BY <1>8 DEF Extracted
  <2>4. TypeOK'
    BY <1>1, <2>2, <2>3, SetFormType DEF TypeOK
  <2>5. CountInv'
    BY <1>1, <2>3 DEF CountInv, Handling
  <2> QED
    BY <2>4, <2>5
<1>9. ASSUME NEW x \in ExtractIds, ExtractFails(x) PROVE TypeOK' /\ CountInv'
  BY <1>1, <1>9 DEF ExtractFails, TypeOK, CountInv, Handling, history
<1>10. CASE Submit
  <2>1. creation' \in Creations /\ creation'.step = "sent"
    BY <1>1, <1>10, CreationTypes DEF Submit, Forms
  <2>2. open /\ creation.step # "done"
    BY <1>10 DEF Submit, SubmitEnabled, CountInv
  <2>3. TypeOK'
    BY <1>1, <1>10, <2>1 DEF Submit, TypeOK, page
  <2>4. CountInv'
    BY <1>1, <1>10, <2>1, <2>2 DEF Submit, SubmitEnabled, Pending, CountInv, Handling, page
  <2> QED
    BY <2>3, <2>4
<1>11. CASE Insert
  <2> DEFINE r == [plugin |-> creation.plugin, metaOf |-> None, meta |-> NoMeta,
                   cover |-> None, failed |-> {}]
  <2>1. r \in Resources
    BY <1>1, <1>11, CreationFields, EmptyFormType DEF Insert, Resources
  <2>2. resources' = Append(resources, r)
    BY <1>11 DEF Insert
  <2> HIDE DEF r
  <2>3. resources' \in Seq(Resources) /\ Len(resources') = Len(resources) + 1
    BY <1>1, <2>1, <2>2, AppendProperties
  <2>4. creation' \in Creations /\ creation'.step = "created"
    BY <1>11, CreationTypes DEF Insert
  <2>5. Len(resources') <= MaxResources
    BY <1>1, <1>11, <2>3, FormAssumption DEF Insert
  <2>6. TypeOK'
    BY <1>1, <1>11, <2>3, <2>4, <2>5 DEF Insert, TypeOK, page, history
  <2>7. CountInv'
    BY <1>1, <1>11, <2>3, <2>4 DEF Insert, CountInv, Handling, page, history
  <2> QED
    BY <2>6, <2>7
<1>12. CASE CreateFails
  <2>1. creation' \in Creations /\ creation'.step = "error"
    BY <1>12, CreationTypes DEF CreateFails
  <2>2. form' \in Forms
    BY <1>1, <1>12, EmptyFormType DEF CreateFails
  <2>3. TypeOK'
    BY <1>1, <1>12, <2>1, <2>2 DEF CreateFails, TypeOK
  <2>4. CountInv'
    BY <1>1, <1>12, <2>1 DEF CreateFails, CountInv, Handling
  <2> QED
    BY <2>3, <2>4
<1>13. CASE Created
  <2> DEFINE c == [step |-> "meta", plugin |-> form.plugin, meta |-> form.meta,
                   cover |-> form.cover]
  <2>1. c \in Handlers /\ c.step = "meta"
    BY <1>1 DEF Handlers, Forms
  <2>2. Handling /\ UNCHANGED history
    BY <1>13 DEF Created, Handling
  <2>3. GoOn(c, resources[Last]) \/ (creation' = c /\ UNCHANGED <<page, resources>>)
    BY <1>13 DEF Created
  <2> HIDE DEF c
  <2>4. CASE GoOn(c, resources[Last])
    <3>1. resources[Last] \in Resources
      BY <1>1, <2>2, ElementOfSeq DEF CountInv, Last
    <3> QED
      BY <2>1, <2>2, <2>4, <3>1, GoOnStep
  <2>5. CASE creation' = c /\ UNCHANGED <<page, resources>>
    <3>1. creation' \in Creations /\ creation'.step = "meta"
      BY <2>1, <2>5, CreationTypes
    <3>2. TypeOK'
      BY <2>2, <2>5, <3>1 DEF TypeOK, page, history
    <3>3. CountInv'
      BY <2>2, <2>5, <3>1 DEF CountInv, Handling, page, history
    <3> QED
      BY <3>2, <3>3
  <2> QED
    BY <2>3, <2>4, <2>5
<1>14. CASE MetaSaved \/ MetaFails \/ CoverSaved \/ CoverFails
  <2>1. Handling /\ creation \in Handlers /\ UNCHANGED history
    BY <1>1, <1>14, CreationFields DEF MetaSaved, MetaFails, CoverSaved, CoverFails, Handling
  <2>2. resources[Last] \in Resources
    BY <1>1, <2>1, ElementOfSeq DEF CountInv, Last
  <2>3. PICK r \in Resources : GoOn(creation, r) \/ Finish(r)
    <3>1. CASE MetaSaved
      <4>1. [resources[Last] EXCEPT !.metaOf = creation.plugin, !.meta = creation.meta]
              \in Resources
        BY <2>1, <2>2 DEF Resources, Handlers
      <4> QED
        BY <3>1, <4>1 DEF MetaSaved
    <3>2. CASE MetaFails
      <4>1. [resources[Last] EXCEPT !.failed = {"meta"}] \in Resources
        BY <2>2 DEF Resources
      <4> QED
        BY <3>2, <4>1 DEF MetaFails
    <3>3. CASE CoverSaved
      <4>1. [resources[Last] EXCEPT !.cover = creation.cover] \in Resources
        BY <2>1, <2>2 DEF Resources, Handlers
      <4> QED
        BY <3>3, <4>1 DEF CoverSaved
    <3>4. CASE CoverFails
      <4>1. [resources[Last] EXCEPT !.failed = @ \cup {"cover"}] \in Resources
        BY <2>2 DEF Resources
      <4> QED
        BY <3>4, <4>1 DEF CoverFails
    <3> QED
      BY <1>14, <3>1, <3>2, <3>3, <3>4
  <2> QED
    BY <2>1, <2>3, GoOnStep, FinishStep
<1>15. CASE Leave
  <2>1. form' \in Forms
    BY <1>1, <1>15, EmptyFormType DEF Leave
  <2>2. /\ extraction' \in [ExtractIds -> Extractions \cup {None}]
        /\ \A x \in ExtractIds : extraction'[x] = None
    BY <1>15 DEF Leave
  <2>3. TypeOK'
    BY <1>15, <2>1, <2>2 DEF Leave, TypeOK, history
  <2>4. CountInv'
    BY <1>15, <2>2 DEF Leave, CountInv, Handling, history
  <2> QED
    BY <2>3, <2>4
<1> QED
  BY <1>2, <1>4, <1>5, <1>6, <1>7, <1>8, <1>9, <1>10, <1>11, <1>12, <1>13, <1>14, <1>15
  DEF Next

-----------------------------------------------------------------------------
(* Whose metadata are where. *)

\* Metadata of one plugin only.
Under(m, p) == \A q \in Plugins : m[q] # None => q = p

Filed(r) ==
  /\ r.metaOf \in {r.plugin, None}
  /\ Under(r.meta, r.plugin)
  /\ r.cover # None => r.plugin = Ebook

\* Unless the plugin was changed while something was under way, everything
\* under way is about the plugin of the form.
WayInv ==
  /\ Under(form.meta, form.plugin)
  /\ \A x \in ExtractIds : extraction[x] # None =>
       /\ extraction[x].plugin = form.plugin
       /\ Under(extraction[x].meta, form.plugin)
  /\ creation.step = "sent" => creation.plugin = form.plugin
  /\ Handling => resources[Last].plugin = form.plugin
  /\ creation.step \in {"meta", "cover"} =>
       /\ creation.plugin = form.plugin
       /\ Under(creation.meta, form.plugin)
  /\ creation.step = "cover" => creation.plugin = Ebook

AllFiled == \A i \in 1 .. Len(resources) : Filed(resources[i])

FiledInv == ~crossed => AllFiled /\ WayInv

\* The empty form has no metadata.
LEMMA EmptyUnder == Under(EmptyForm.meta, EmptyForm.plugin) /\ \A p : Under(NoMeta, p)
  BY DEF Under, EmptyForm, NoMeta

\* Replacing the last resource by one that is filed.
LEMMA PutFiled ==
  ASSUME TypeOK, CountInv, Handling, AllFiled, NEW r \in Resources, Filed(r),
         resources' = [resources EXCEPT ![Last] = r]
  PROVE  AllFiled' /\ Last' = Last /\ resources'[Last] = r
<1>1. Len(resources') = Len(resources)
      /\ \A i \in 1 .. Len(resources) : resources'[i] = IF i = Last THEN r ELSE resources[i]
  BY LastResource DEF CountInv
<1>2. Last \in 1 .. Len(resources)
  BY LastResource DEF CountInv
<1> QED
  BY <1>1, <1>2 DEF AllFiled, Last, Filed

\* The handler ends.
LEMMA FinishFiled ==
  ASSUME TypeOK, CountInv, Handling, FiledInv, ~crossed, UNCHANGED crossed,
         NEW r \in Resources, Filed(r), Finish(r)
  PROVE  FiledInv'
<1>1. AllFiled'
  BY PutFiled DEF Finish, FiledInv
<1>2. Under(form'.meta, form'.plugin)
  BY EmptyUnder DEF Finish
<1>3. /\ \A x \in ExtractIds : extraction'[x] = None
      /\ creation'.step = "done"
  BY DEF Finish
<1>4. WayInv'
  BY <1>2, <1>3 DEF WayInv, Handling
<1> QED
  BY <1>1, <1>4 DEF FiledInv

\* The handler goes on to the cover, or ends.
LEMMA GoOnFiled ==
  ASSUME TypeOK, CountInv, Handling, FiledInv, ~crossed, UNCHANGED crossed,
         NEW c \in Handlers, c.plugin = form.plugin, Under(c.meta, form.plugin),
         NEW r \in Resources, Filed(r), r.plugin = form.plugin, GoOn(c, r)
  PROVE  FiledInv'
<1>1. CASE Finish(r)
  BY <1>1, FinishFiled
<1>2. CASE /\ c.plugin = Ebook
           /\ creation' = [c EXCEPT !.step = "cover"]
           /\ resources' = [resources EXCEPT ![Last] = r]
           /\ UNCHANGED <<form, extraction>>
  <2>1. AllFiled' /\ resources'[Last'] = r
    BY <1>2, PutFiled DEF FiledInv
  <2>2. creation'.step = "cover" /\ creation'.plugin = c.plugin /\ creation'.meta = c.meta
    BY <1>2 DEF Handlers
  <2>3. WayInv'
    BY <1>2, <2>1, <2>2 DEF WayInv, FiledInv
  <2> QED
    BY <2>1, <2>3 DEF FiledInv
<1> QED
  BY <1>1, <1>2 DEF GoOn

\* A step files nothing under another plugin.
LEMMA FiledStep ==
  ASSUME TypeOK, CountInv, FiledInv, [Next]_vars
  PROVE  FiledInv'
<1> SUFFICES ASSUME ~crossed' PROVE FiledInv'
  BY DEF FiledInv
<1>1. ~crossed
  BY DEF Next, TypeName, TypeMeta, ChangePlugin, PickFile, DropFile, Extracted, ExtractFails,
         Submit, Insert, CreateFails, Created, MetaSaved, MetaFails, CoverSaved, CoverFails,
         Leave, history, vars
<1>2. AllFiled /\ WayInv
  BY <1>1 DEF FiledInv
<1>3. /\ resources \in Seq(Resources) /\ Len(resources) \in Nat /\ creation \in Creations
      /\ form \in Forms /\ extraction \in [ExtractIds -> Extractions \cup {None}]
  BY DEF TypeOK
<1>4. CASE UNCHANGED vars
  BY <1>2, <1>4 DEF vars, page, history, FiledInv, AllFiled, WayInv, Handling, Last
<1>5. ASSUME UNCHANGED <<creation, resources>>, form'.plugin = form.plugin,
             Under(form'.meta, form.plugin),
             \A x \in ExtractIds : extraction'[x] \in {extraction[x], None}
      PROVE  FiledInv'
  BY <1>2, <1>5 DEF FiledInv, AllFiled, WayInv, Handling, Last
<1>6. ASSUME NEW v \in {Typed, None}, TypeName(v) PROVE FiledInv'
  <2>1. form'.plugin = form.plugin /\ form'.meta = form.meta
    BY <1>3, <1>6 DEF TypeName, SetForm, Forms
  <2> QED
    BY <1>2, <1>5, <1>6, <2>1 DEF TypeName, WayInv
<1>7. CASE TypeMeta(Typed)
  <2>1. form'.plugin = form.plugin /\ form'.meta = [form.meta EXCEPT ![form.plugin] = Typed]
    BY <1>3, <1>7 DEF TypeMeta, SetForm, Forms
  <2>2. Under(form'.meta, form.plugin)
    BY <1>2, <1>3, <2>1 DEF WayInv, Under, Forms, Metas
  <2> QED
    BY <1>5, <1>7, <2>1, <2>2 DEF TypeMeta
<1>8. ASSUME NEW p \in Plugins, ChangePlugin(p) PROVE FiledInv'
  <2>1. ~Pending /\ \A x \in ExtractIds : extraction[x] = None
    BY <1>8 DEF ChangePlugin
  <2>2. form'.meta = NoMeta
    BY <1>3, <1>8 DEF ChangePlugin, SetForm, Changed, Forms
  <2>3. UNCHANGED <<creation, resources, extraction>>
    BY <1>8 DEF ChangePlugin
  <2>4. AllFiled'
    BY <1>2, <2>3 DEF AllFiled
  <2>5. WayInv'
    BY <2>1, <2>2, <2>3, EmptyUnder DEF WayInv, Pending, Handling
  <2> QED
    BY <2>4, <2>5 DEF FiledInv
<1>9. ASSUME NEW f \in Files, PickFile(f) \/ DropFile(f) PROVE FiledInv'
  <2> DEFINE e == [file |-> f, plugin |-> form.plugin, name |-> form.name,
                   meta |-> form.meta]
  <2>1. Begin(f) /\ UNCHANGED <<form, creation, resources>>
    BY <1>9 DEF PickFile, DropFile
  <2>2. PICK x \in ExtractIds : extraction' = [extraction EXCEPT ![x] = e]
    BY <2>1 DEF Begin
  <2>3. e.plugin = form.plugin /\ e.meta = form.meta
    OBVIOUS
  <2> HIDE DEF e
  <2>4. AllFiled'
    BY <1>2, <2>1 DEF AllFiled
  <2>5. WayInv'
    BY <1>2, <1>3, <2>1, <2>2, <2>3 DEF WayInv, Handling, Last
  <2> QED
    BY <2>4, <2>5 DEF FiledInv
<1>10. ASSUME NEW x \in ExtractIds, Extracted(x) PROVE FiledInv'
  <2> DEFINE e == extraction[x]
  <2>1. e \in Extractions /\ e.plugin = form.plugin /\ Under(e.meta, form.plugin)
    BY <1>2, <1>3, <1>10 DEF Extracted, WayInv
  <2>2. PICK g : form' = IF e.plugin # Ebook THEN Applied(e, g)
                         ELSE [Applied(e, g) EXCEPT
                                 !.cover = IF g.cover THEN e.file ELSE None]
    BY <1>10 DEF Extracted, SetForm
  <2> HIDE DEF e
  <2>3. Applied(e, g) \in Forms
    BY <2>1, AppliedType
  <2>4. form'.plugin = Applied(e, g).plugin /\ form'.meta = Applied(e, g).meta
    BY <2>2, <2>3 DEF Forms
  <2>5. /\ Applied(e, g).plugin = form.plugin
        /\ Applied(e, g).meta \in {[e.meta EXCEPT ![e.plugin] = e.file], e.meta}
    BY <1>3 DEF Applied, Forms
  <2>6. Under([e.meta EXCEPT ![e.plugin] = e.file], form.plugin)
    BY <2>1 DEF Under, Extractions, Metas
  <2>7. \A y \in ExtractIds : extraction'[y] \in {extraction[y], None}
    BY <1>3, <1>10 DEF Extracted
  <2>8. UNCHANGED <<creation, resources>>
    BY <1>10 DEF Extracted
  <2> QED
    BY <1>5, <2>1, <2>4, <2>5, <2>6, <2>7, <2>8
<1>11. ASSUME NEW x \in ExtractIds, ExtractFails(x) PROVE FiledInv'
  BY <1>2, <1>3, <1>5, <1>11 DEF ExtractFails, WayInv
<1>12. CASE Submit
  <2>1. /\ creation'.step = "sent" /\ creation'.plugin = form.plugin
        /\ UNCHANGED <<form, extraction, resources>>
    BY <1>12 DEF Submit, page
  <2>2. AllFiled'
    BY <1>2, <2>1 DEF AllFiled
  <2>3. WayInv'
    BY <1>2, <2>1 DEF WayInv, Handling
  <2> QED
    BY <2>2, <2>3 DEF FiledInv
<1>13. CASE Insert
  <2> DEFINE r == [plugin |-> creation.plugin, metaOf |-> None, meta |-> NoMeta,
                   cover |-> None, failed |-> {}]
  <2>1. r \in Resources /\ Filed(r) /\ r.plugin = form.plugin
    BY <1>2, <1>3, <1>13, CreationFields, EmptyFormType, EmptyUnder
    DEF Insert, Resources, Filed, WayInv
  <2>2. resources' = Append(resources, r)
    BY <1>13 DEF Insert
  <2> HIDE DEF r
  <2>3. /\ Len(resources') = Len(resources) + 1
        /\ \A i \in 1 .. Len(resources) : resources'[i] = resources[i]
        /\ resources'[Last'] = r
    BY <1>3, <2>1, <2>2, AppendProperties DEF Last
  <2>4. AllFiled'
    BY <1>2, <1>3, <2>1, <2>3 DEF AllFiled, Last
  <2>5. creation'.step = "created" /\ UNCHANGED <<form, extraction>>
    BY <1>13 DEF Insert, page
  <2>6. WayInv'
    BY <1>2, <2>1, <2>3, <2>5 DEF WayInv
  <2> QED
    BY <2>4, <2>6 DEF FiledInv
<1>14. CASE CreateFails
  <2>1. creation'.step = "error" /\ UNCHANGED <<extraction, resources>>
    BY <1>14 DEF CreateFails
  <2>2. AllFiled'
    BY <1>2, <2>1 DEF AllFiled
  <2>3. CASE form' = form
    <3>1. WayInv'
      BY <1>2, <2>1, <2>3 DEF WayInv, Handling
    <3> QED
      BY <2>2, <3>1 DEF FiledInv
  <2>4. CASE ~open /\ form' = EmptyForm
    <3>1. \A x \in ExtractIds : extraction'[x] = None
      BY <2>1, <2>4 DEF CountInv
    <3>2. WayInv'
      BY <2>1, <2>4, <3>1, EmptyUnder DEF WayInv, Handling
    <3> QED
      BY <2>2, <3>2 DEF FiledInv
  <2> QED
    BY <1>14, <2>3, <2>4 DEF CreateFails
<1>15. CASE Created
  <2> DEFINE c == [step |-> "meta", plugin |-> form.plugin, meta |-> form.meta,
                   cover |-> form.cover]
  <2>1. c \in Handlers /\ c.step = "meta" /\ c.plugin = form.plugin /\ c.meta = form.meta
    BY <1>3 DEF Handlers, Forms
  <2>2. Handling /\ UNCHANGED crossed
    BY <1>15 DEF Created, Handling, history
  <2>3. GoOn(c, resources[Last]) \/ (creation' = c /\ UNCHANGED <<page, resources>>)
    BY <1>15 DEF Created
  <2> HIDE DEF c
  <2>4. CASE GoOn(c, resources[Last])
    <3>1. resources[Last] \in Resources /\ Filed(resources[Last])
          /\ resources[Last].plugin = form.plugin
      BY <1>2, <1>3, <2>2, ElementOfSeq DEF CountInv, Last, AllFiled, WayInv
    <3> QED
      BY <1>1, <1>2, <2>1, <2>2, <2>4, <3>1, GoOnFiled DEF WayInv
  <2>5. CASE creation' = c /\ UNCHANGED <<page, resources>>
    <3>1. AllFiled'
      BY <1>2, <2>5 DEF AllFiled
    <3>2. WayInv'
      BY <1>2, <2>1, <2>2, <2>5 DEF WayInv, page, Last
    <3> QED
      BY <3>1, <3>2 DEF FiledInv
  <2> QED
    BY <2>3, <2>4, <2>5
<1>16. CASE MetaSaved \/ MetaFails \/ CoverSaved \/ CoverFails
  <2> DEFINE last == resources[Last]
  <2>1. /\ Handling /\ creation \in Handlers /\ UNCHANGED crossed
        /\ creation.step \in {"meta", "cover"}
    BY <1>3, <1>16, CreationFields
    DEF MetaSaved, MetaFails, CoverSaved, CoverFails, Handling, history
  <2>2. last \in Resources /\ Filed(last) /\ last.plugin = form.plugin
    BY <1>2, <1>3, <2>1, ElementOfSeq DEF CountInv, Last, AllFiled, WayInv
  <2>3. creation.plugin = form.plugin /\ Under(creation.meta, form.plugin)
    BY <1>2, <2>1 DEF WayInv
  <2> HIDE DEF last
  <2>4. PICK r \in Resources :
          Filed(r) /\ r.plugin = form.plugin /\ (GoOn(creation, r) \/ Finish(r))
    <3>1. CASE MetaSaved
      <4> DEFINE r == [last EXCEPT !.metaOf = creation.plugin, !.meta = creation.meta]
      <4>1. r \in Resources /\ Filed(r) /\ r.plugin = form.plugin
        BY <2>1, <2>2, <2>3 DEF Resources, Handlers, Filed
      <4> QED
        BY <3>1, <4>1 DEF MetaSaved, last
    <3>2. CASE MetaFails
      <4> DEFINE r == [last EXCEPT !.failed = {"meta"}]
      <4>1. r \in Resources /\ Filed(r) /\ r.plugin = form.plugin
        BY <2>2 DEF Resources, Filed
      <4> QED
        BY <3>2, <4>1 DEF MetaFails, last
    <3>3. CASE CoverSaved
      <4> DEFINE r == [last EXCEPT !.cover = creation.cover]
      <4>1. creation.plugin = Ebook
        BY <1>2, <3>3 DEF CoverSaved, WayInv
      <4>2. r \in Resources /\ Filed(r) /\ r.plugin = form.plugin
        BY <2>1, <2>2, <2>3, <4>1 DEF Resources, Handlers, Filed
      <4> QED
        BY <3>3, <4>2 DEF CoverSaved, last
    <3>4. CASE CoverFails
      <4> DEFINE r == [last EXCEPT !.failed = @ \cup {"cover"}]
      <4>1. r \in Resources /\ Filed(r) /\ r.plugin = form.plugin
        BY <2>2 DEF Resources, Filed
      <4> QED
        BY <3>4, <4>1 DEF CoverFails, last
    <3> QED
      BY <1>16, <3>1, <3>2, <3>3, <3>4
  <2> QED
    BY <1>1, <2>1, <2>3, <2>4, GoOnFiled, FinishFiled
<1>17. CASE Leave
  <2>1. /\ \A x \in ExtractIds : extraction'[x] = None
        /\ UNCHANGED <<creation, resources>>
    BY <1>17 DEF Leave
  <2>2. CASE form' = form
    BY <1>2, <1>5, <2>1, <2>2 DEF WayInv
  <2>3. CASE ~Pending /\ form' = EmptyForm
    <3>1. AllFiled'
      BY <1>2, <2>1 DEF AllFiled
    <3>2. WayInv'
      BY <2>1, <2>3, EmptyUnder DEF WayInv, Pending, Handling
    <3> QED
      BY <3>1, <3>2 DEF FiledInv
  <2> QED
    BY <1>17, <2>2, <2>3 DEF Leave
<1> QED
  BY <1>4, <1>6, <1>7, <1>8, <1>9, <1>10, <1>11, <1>12, <1>13, <1>14, <1>15, <1>16, <1>17
  DEF Next

-----------------------------------------------------------------------------
(* What was submitted is saved. *)

\* The posts of the handler are about what was submitted.
Carries(c) ==
  /\ c.plugin = submitted.plugin
  /\ c.meta = submitted.meta
  /\ c.cover = submitted.cover

MetaDone(r) == r.meta = submitted.meta \/ "meta" \in r.failed

SavedInv == submitted # None =>
  /\ creation.step \in {"sent", "created"} => form = submitted
  /\ creation.step \in {"created", "meta"} => resources[Last].cover = None
  /\ creation.step = "created" => resources[Last].meta = NoMeta
  /\ creation.step \in {"meta", "cover"} => Carries(creation)
  /\ creation.step = "cover" => MetaDone(resources[Last])
  /\ SavedAsSubmitted

\* The handler ends with all done.
LEMMA FinishSaved ==
  ASSUME TypeOK, CountInv, Handling, UNCHANGED submitted, NEW r \in Resources, Finish(r),
         submitted # None =>
           /\ MetaDone(r)
           /\ submitted.plugin = Ebook => r.cover = submitted.cover \/ "cover" \in r.failed
  PROVE  SavedInv'
<1>1. creation'.step = "done"
  BY DEF Finish
<1>2. resources'[Last'] = r
  BY LastResource DEF Finish, CountInv, Last
<1> QED
  BY <1>1, <1>2 DEF SavedInv, SavedAsSubmitted, MetaDone

\* The handler goes on to the cover, or ends because there is none to post.
LEMMA GoOnSaved ==
  ASSUME TypeOK, CountInv, Handling, UNCHANGED submitted, NEW c \in Handlers,
         NEW r \in Resources, GoOn(c, r),
         submitted # None => Carries(c) /\ MetaDone(r) /\ r.cover = None
  PROVE  SavedInv'
<1>1. CASE Finish(r) /\ ~(c.plugin = Ebook /\ c.cover # None)
  BY <1>1, FinishSaved DEF Carries
<1>2. CASE /\ creation' = [c EXCEPT !.step = "cover"]
           /\ resources' = [resources EXCEPT ![Last] = r]
  <2>1. resources'[Last'] = r
    BY <1>2, LastResource DEF CountInv, Last
  <2>2. /\ creation'.step = "cover" /\ creation'.plugin = c.plugin
        /\ creation'.meta = c.meta /\ creation'.cover = c.cover
    BY <1>2 DEF Handlers
  <2> QED
    BY <2>1, <2>2 DEF SavedInv, SavedAsSubmitted, MetaDone, Carries
<1> QED
  BY <1>1, <1>2 DEF GoOn

\* A step loses nothing of what was submitted.
LEMMA SavedStep ==
  ASSUME TypeOK, CountInv, SavedInv, [Next]_vars
  PROVE  SavedInv'
<1>1. /\ resources \in Seq(Resources) /\ Len(resources) \in Nat /\ creation \in Creations
      /\ form \in Forms
  BY DEF TypeOK
<1>2. CASE UNCHANGED <<form, submitted, creation, resources>>
  BY <1>2 DEF SavedInv, SavedAsSubmitted, Carries, MetaDone, Last
<1>3. CASE submitted' = None
  BY <1>3 DEF SavedInv
<1>4. CASE UNCHANGED <<submitted, creation, resources>>
           /\ creation.step \notin {"sent", "created"}
  BY <1>4 DEF SavedInv, SavedAsSubmitted, Carries, MetaDone, Last
<1>5. ASSUME NEW f, SetForm(f), UNCHANGED <<creation, resources>> PROVE SavedInv'
  BY <1>2, <1>3, <1>4, <1>5 DEF SetForm
<1>6. CASE UNCHANGED vars
  BY <1>2, <1>6 DEF vars, page, history
<1>7. ASSUME NEW v \in {Typed, None}, TypeName(v) PROVE SavedInv'
  BY <1>5, <1>7 DEF TypeName
<1>8. CASE TypeMeta(Typed)
  BY <1>5, <1>8 DEF TypeMeta
<1>9. ASSUME NEW p \in Plugins, ChangePlugin(p) PROVE SavedInv'
  BY <1>5, <1>9 DEF ChangePlugin
<1>10. ASSUME NEW f \in Files, PickFile(f) \/ DropFile(f) PROVE SavedInv'
  BY <1>2, <1>10 DEF PickFile, DropFile, history
<1>11. ASSUME NEW x \in ExtractIds, Extracted(x) PROVE SavedInv'
  BY <1>5, <1>11 DEF Extracted
<1>12. ASSUME NEW x \in ExtractIds, ExtractFails(x) PROVE SavedInv'
  BY <1>2, <1>12 DEF ExtractFails, history
<1>13. CASE Submit
  <2>1. creation'.step = "sent" /\ form' = form /\ submitted' = form
    BY <1>13 DEF Submit, page
  <2> QED
    BY <2>1 DEF SavedInv, SavedAsSubmitted
<1>14. CASE Insert
  <2> DEFINE r == [plugin |-> creation.plugin, metaOf |-> None, meta |-> NoMeta,
                   cover |-> None, failed |-> {}]
  <2>1. r \in Resources /\ r.meta = NoMeta /\ r.cover = None
    BY <1>1, <1>14, CreationFields, EmptyFormType DEF Insert, Resources
  <2>2. resources' = Append(resources, r)
    BY <1>14 DEF Insert
  <2> HIDE DEF r
  <2>3. resources'[Last'] = r
    BY <1>1, <2>1, <2>2, AppendProperties DEF Last
  <2>4. /\ creation.step = "sent" /\ creation'.step = "created"
        /\ UNCHANGED <<form, submitted>>
    BY <1>14 DEF Insert, page, history
  <2> QED
    BY <2>1, <2>3, <2>4 DEF SavedInv, SavedAsSubmitted
<1>15. CASE CreateFails
  BY <1>3, <1>15 DEF CreateFails
<1>16. CASE Created
  <2> DEFINE c == [step |-> "meta", plugin |-> form.plugin, meta |-> form.meta,
                   cover |-> form.cover]
  <2>1. c \in Handlers /\ c.step = "meta" /\ c.plugin = form.plugin /\ c.meta = form.meta
        /\ c.cover = form.cover
    BY <1>1 DEF Handlers, Forms
  <2>2. creation.step = "created" /\ Handling /\ UNCHANGED submitted
    BY <1>16 DEF Created, Handling, history
  <2>3. \/ form.meta = NoMeta /\ GoOn(c, resources[Last])
        \/ creation' = c /\ UNCHANGED resources
    BY <1>16 DEF Created
  <2>4. submitted # None => Carries(c)
    BY <2>1, <2>2 DEF SavedInv, Carries
  <2>5. resources[Last] \in Resources
    BY <1>1, <2>2, ElementOfSeq DEF CountInv, Last
  <2> HIDE DEF c
  <2>6. CASE form.meta = NoMeta /\ GoOn(c, resources[Last])
    <3>1. submitted # None => MetaDone(resources[Last]) /\ resources[Last].cover = None
      BY <2>2, <2>6 DEF SavedInv, MetaDone
    <3> QED
      BY <2>1, <2>2, <2>4, <2>5, <2>6, <3>1, GoOnSaved
  <2>7. CASE creation' = c /\ UNCHANGED resources
    BY <2>1, <2>2, <2>4, <2>7 DEF SavedInv, SavedAsSubmitted, Carries, Last
  <2> QED
    BY <2>3, <2>6, <2>7
<1>17. CASE MetaSaved \/ MetaFails
  <2> DEFINE last == resources[Last]
  <2>1. creation.step = "meta" /\ Handling /\ creation \in Handlers /\ UNCHANGED submitted
    BY <1>1, <1>17, CreationFields DEF MetaSaved, MetaFails, Handling, history
  <2>2. last \in Resources
    BY <1>1, <2>1, ElementOfSeq DEF CountInv, Last
  <2>3. submitted # None => Carries(creation) /\ last.cover = None
    BY <2>1 DEF SavedInv
  <2> HIDE DEF last
  <2>4. CASE MetaSaved
    <3> DEFINE r == [last EXCEPT !.metaOf = creation.plugin, !.meta = creation.meta]
    <3>1. r \in Resources /\ r.meta = creation.meta /\ r.cover = last.cover
      BY <2>1, <2>2 DEF Resources, Handlers
    <3>2. GoOn(creation, r)
      BY <2>4 DEF MetaSaved, last
    <3> HIDE DEF r
    <3> QED
      BY <2>1, <2>3, <3>1, <3>2, GoOnSaved DEF Carries, MetaDone
  <2>5. CASE MetaFails
    <3> DEFINE r == [last EXCEPT !.failed = {"meta"}]
    <3>1. r \in Resources /\ "meta" \in r.failed /\ r.cover = last.cover
      BY <2>2 DEF Resources
    <3>2. GoOn(creation, r)
      BY <2>5 DEF MetaFails, last
    <3> HIDE DEF r
    <3> QED
      BY <2>1, <2>3, <3>1, <3>2, GoOnSaved DEF MetaDone
  <2> QED
    BY <1>17, <2>4, <2>5
<1>18. CASE CoverSaved \/ CoverFails
  <2> DEFINE last == resources[Last]
  <2>1. creation.step = "cover" /\ Handling /\ creation \in Handlers /\ UNCHANGED submitted
    BY <1>1, <1>18, CreationFields DEF CoverSaved, CoverFails, Handling, history
  <2>2. last \in Resources
    BY <1>1, <2>1, ElementOfSeq DEF CountInv, Last
  <2>3. submitted # None => Carries(creation) /\ MetaDone(last)
    BY <2>1 DEF SavedInv
  <2> HIDE DEF last
  <2>4. CASE CoverSaved
    <3> DEFINE r == [last EXCEPT !.cover = creation.cover]
    <3>1. r \in Resources /\ r.meta = last.meta /\ r.failed = last.failed
          /\ r.cover = creation.cover
      BY <2>1, <2>2 DEF Resources, Handlers
    <3>2. Finish(r)
      BY <2>4 DEF CoverSaved, last
    <3> HIDE DEF r
    <3> QED
      BY <2>1, <2>3, <3>1, <3>2, FinishSaved DEF Carries, MetaDone
  <2>5. CASE CoverFails
    <3> DEFINE r == [last EXCEPT !.failed = @ \cup {"cover"}]
    <3>1. r \in Resources /\ r.meta = last.meta /\ r.failed = last.failed \cup {"cover"}
      BY <2>2 DEF Resources
    <3>2. Finish(r)
      BY <2>5 DEF CoverFails, last
    <3> HIDE DEF r
    <3> QED
      BY <2>1, <2>3, <3>1, <3>2, FinishSaved DEF MetaDone
  <2> QED
    BY <1>18, <2>4, <2>5
<1>19. CASE Leave
  BY <1>2, <1>4, <1>19 DEF Leave, Pending, history
<1> QED
  BY <1>6, <1>7, <1>8, <1>9, <1>10, <1>11, <1>12, <1>13, <1>14, <1>15, <1>16, <1>17, <1>18,
     <1>19 DEF Next

-----------------------------------------------------------------------------
\* What every theorem below rests on.
LEMMA Base == Spec => [](TypeOK /\ CountInv)
<1>1. Init => TypeOK
  <2> SUFFICES ASSUME Init PROVE TypeOK
    OBVIOUS
  <2>1. creation \in Creations
    BY DEF Init, Idle, Creations
  <2>2. resources \in Seq(Resources) /\ Len(resources) = 0
    BY EmptySeq DEF Init
  <2>3. Len(resources) <= MaxResources
    BY <2>2, FormAssumption
  <2>4. extraction \in [ExtractIds -> Extractions \cup {None}]
    BY DEF Init
  <2>5. form \in Forms /\ submitted \in Forms \cup {None} /\ lost \in Nat
    BY EmptyFormType DEF Init
  <2>6. {open, extracting, crossed} \subseteq BOOLEAN /\ ~extracting
    BY DEF Init
  <2> QED
    BY <2>1, <2>2, <2>3, <2>4, <2>5, <2>6 DEF TypeOK
<1>2. Init => CountInv
  BY EmptySeq DEF Init, CountInv, Handling, Idle
<1>3. TypeOK /\ CountInv /\ [Next]_vars => (TypeOK /\ CountInv)'
  BY TypeStep
<1> QED
  BY <1>1, <1>2, <1>3, PTL DEF Spec

\* Every variable keeps its type, and "extracting" is shown only while an
\* extraction is under way.
THEOREM TypeCorrect == Spec => []TypeOK
  BY Base, PTL

\* A form gives at most one resource, and one for every answer that was lost,
\* however often and late it is submitted again.
THEOREM OneResource == Spec => []OneResourcePerForm
<1>1. TypeOK /\ CountInv => OneResourcePerForm
  BY DEF TypeOK, CountInv, OneResourcePerForm
<1> QED
  BY <1>1, Base, PTL

\* No resource gets the metadata or the cover of another plugin, for any number
\* of extractions and retries, unless the plugin was changed meanwhile.
THEOREM PluginCorrect == Spec => []FiledByPlugin
<1>1. Init => FiledInv
  <2> SUFFICES ASSUME Init PROVE AllFiled /\ WayInv
    BY DEF FiledInv
  <2>1. Len(resources) = 0
    BY EmptySeq DEF Init
  <2>2. AllFiled
    BY <2>1 DEF AllFiled
  <2>3. WayInv
    BY EmptyUnder DEF Init, WayInv, Idle, Handling
  <2> QED
    BY <2>2, <2>3
<1>2. FiledInv => FiledByPlugin
  BY DEF FiledInv, FiledByPlugin, AllFiled, Filed, Under
<1>3. TypeOK /\ CountInv /\ FiledInv /\ [Next]_vars => FiledInv'
  BY FiledStep
<1> QED
  BY <1>1, <1>2, <1>3, Base, PTL DEF Spec

\* The resource the page goes to has the metadata and the cover that were
\* submitted, but for what failed, unless the form was changed before the answer.
THEOREM SubmittedSaved == Spec => []SavedAsSubmitted
<1>1. Init => SavedInv
  BY DEF Init, SavedInv
<1>2. SavedInv => SavedAsSubmitted
  BY DEF SavedInv, SavedAsSubmitted
<1>3. TypeOK /\ CountInv /\ SavedInv /\ [Next]_vars => SavedInv'
  BY SavedStep
<1> QED
  BY <1>1, <1>2, <1>3, Base, PTL DEF Spec
=============================================================================
