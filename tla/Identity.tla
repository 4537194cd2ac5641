------------------------------ MODULE Identity ------------------------------
(***************************************************************************)
(* Who a client is: the name its device registers under (IdentityGate.tsx, *)
(* SettingsPage.tsx, device_controller.rb) and the identity it files       *)
(* locations under (IdentityPicker.tsx on the pages that add resources),   *)
(* both kept in the device store, store/device.ts.                         *)
(*                                                                         *)
(* The gate stands before every page until the device has a name.  POST    *)
(* /devices looks the name up and then inserts it; its answer finds the    *)
(* components as they are then.  When a page is left its state is lost,    *)
(* and what its requests set with it, except for the device store.  Other  *)
(* devices, which run the same code, register and reclaim names meanwhile. *)
(* DELETE /devices/:name, which no client calls, is left out.              *)
(***************************************************************************)
EXTENDS Naturals, FiniteSets

CONSTANTS
  Names,           \* names that users type
  Volumes,         \* identifiers of storage volumes
  Custom,          \* what users type for another identity
  None,            \* null, and the empty text
  ReqIds           \* bound: registrations under way at a time

ASSUME IdentityAssumption ==
  /\ None \notin Names \cup Volumes \cup Custom
  /\ ReqIds \subseteq Nat

VARIABLES
  devices,        \* server: the table of names
  request,        \* per id: a POST /devices and where it stands
  deviceName, knownStorages,   \* the device store
  place,          \* the page behind the gate
  gate,           \* the gate's step and its input
  form,           \* the device part of the settings page
  picker,         \* the identity picker, and the detection of its page
  mine, others, claimed,
                  \* history: the names that were new when this device registered
                  \* them; the names other devices have taken, and those they
                  \* have taken by confirming a reclaim
  reclaimed, retyped, renamed
                  \* history: is the device's name a confirmed reclaim; has the
                  \* input changed while a registration was under way, or the
                  \* name while a picker was open?

owners == <<mine, others, claimed>>
server == <<devices, request, owners>>
store == <<deviceName, knownStorages>>
pages == <<place, gate, form, picker>>
history == <<reclaimed, retyped, renamed>>
vars == <<server, store, pages, history>>

Identities == Names \cup Volumes \cup Custom

NoGate == [step |-> "form", name |-> None]
NoForm == [name |-> None, status |-> "idle"]
NoPicker == [value |-> None, custom |-> FALSE, offer |-> None, detected |-> None,
             detecting |-> {}, shown |-> FALSE]

Requests == [name : Names, from : {"gate", "settings", "left"},
             step : {"sent", "absent", "created", "exists", "failed"}]

Pickers == [value : Identities \cup {None}, custom : BOOLEAN,
            offer : Volumes \cup {None}, detected : Volumes \cup {None},
            detecting : SUBSET Volumes, shown : BOOLEAN]

TypeOK ==
  /\ (others \ claimed) \cup mine \subseteq devices /\ devices \subseteq Names
  /\ claimed \subseteq others /\ others \subseteq Names
  /\ request \in [ReqIds -> Requests \cup {None}]
  /\ deviceName \in Names \cup {None}
  /\ knownStorages \subseteq Volumes
  /\ place \in {"other", "settings", "adding"}
  /\ gate \in [step : {"form", "confirm"}, name : Names \cup {None}]
  /\ form \in [name : Names \cup {None}, status : {"idle", "confirm"}]
  /\ picker \in Pickers
  /\ {reclaimed, retyped, renamed} \subseteq BOOLEAN
  \* pages are behind the gate, and have state only while they are open
  /\ deviceName = None => place = "other"
  /\ place # "settings" => form = NoForm
  /\ place # "adding" => picker = NoPicker

Init ==
  /\ devices = {} /\ mine = {} /\ others = {} /\ claimed = {}
  /\ request = [r \in ReqIds |-> None]
  /\ deviceName = None /\ knownStorages = {}
  /\ place = "other" /\ gate = NoGate /\ form = NoForm /\ picker = NoPicker
  /\ reclaimed = FALSE /\ retyped = FALSE /\ renamed = FALSE

AtGate == deviceName = None
InSettings == ~AtGate /\ place = "settings"

UnderWay(from) == \E r \in ReqIds : request[r] # None /\ request[r].from = from

\* setDeviceName.  The gate opens, and its state is not used again.  A picker
\* that is open meanwhile keeps its value.
SetDeviceName(n, byReclaim) ==
  /\ deviceName' = n
  /\ gate' = NoGate
  /\ reclaimed' = byReclaim
  /\ renamed' = (renamed \/ place = "adding")
  /\ UNCHANGED knownStorages

-----------------------------------------------------------------------------
(* POST /devices. *)

Send(n, from) ==
  \E r \in ReqIds :
    /\ request[r] = None
    /\ \A q \in ReqIds : request[q] = None => r <= q
    /\ request' = [request EXCEPT ![r] = [name |-> n, from |-> from, step |-> "sent"]]

At(r, step) == request[r] # None /\ request[r].step = step

\* upsert looks the name up ...
Lookup(r) ==
  /\ At(r, "sent")
  /\ request' = [request EXCEPT ![r].step =
       IF request[r].name \in devices THEN "exists" ELSE "absent"]
  /\ UNCHANGED <<devices, owners, store, pages, history>>

\* Mutant: the names in the table need not be unique.
MutInsert(r) ==
  /\ At(r, "absent")
  /\ devices' = devices \cup {request[r].name}
  /\ mine' = mine \cup {request[r].name}
  /\ request' = [request EXCEPT ![r].step = "created"]
  /\ UNCHANGED <<others, claimed, store, pages, history>>

\* ... and inserts it, unless another request was faster: the unique index
\* raises.
Insert(r) ==
  LET taken == request[r].name \in devices IN
  /\ At(r, "absent")
  /\ devices' = devices \cup {request[r].name}
  /\ mine' = IF taken THEN mine ELSE mine \cup {request[r].name}
  /\ request' = [request EXCEPT ![r].step = IF taken THEN "failed" ELSE "created"]
  /\ UNCHANGED <<others, claimed, store, pages, history>>

\* The request or its answer is lost.
Lose(r) ==
  /\ request[r] # None /\ request[r].step # "failed"
  /\ request' = [request EXCEPT ![r].step = "failed"]
  /\ UNCHANGED <<devices, owners, store, pages, history>>

\* Another device registers a name that is new ...
OtherRegisters(n) ==
  /\ n \notin devices
  /\ devices' = devices \cup {n}
  /\ others' = others \cup {n}
  /\ UNCHANGED <<request, mine, claimed, store, pages, history>>

\* ... or is answered 200 and its user confirms the reclaim, of the name the
\* input holds by then.
OtherReclaims(n) ==
  /\ devices # {}
  /\ others' = others \cup {n}
  /\ claimed' = claimed \cup {n}
  /\ UNCHANGED <<devices, request, mine, store, pages, history>>

-----------------------------------------------------------------------------
(* IdentityGate. *)

TypeAtGate(n) ==
  /\ AtGate /\ gate.step = "form" /\ gate.name # n
  /\ gate' = [gate EXCEPT !.name = n]
  /\ retyped' = (retyped \/ UnderWay("gate"))
  /\ UNCHANGED <<server, store, place, form, picker, reclaimed, renamed>>

\* handleSubmit.  The button is disabled while a request is pending, the Enter
\* key is not.
SubmitAtGate ==
  /\ AtGate /\ gate.step = "form" /\ gate.name # None
  /\ Send(gate.name, "gate")
  /\ UNCHANGED <<devices, owners, store, pages, history>>

\* handleConfirm and handleCancel.
ReclaimAtGate ==
  /\ AtGate /\ gate.step = "confirm"
  /\ SetDeviceName(gate.name, TRUE)
  /\ UNCHANGED <<server, place, form, picker, retyped>>

CancelAtGate ==
  /\ AtGate /\ gate.step = "confirm"
  /\ gate' = [gate EXCEPT !.step = "form"]
  /\ UNCHANGED <<server, store, place, form, picker, history>>

-----------------------------------------------------------------------------
(* Navigation, and the device part of SettingsPage. *)

\* Mutant: the picker's state outlives the page it is on.
MutPickerOn(p) == [picker EXCEPT !.value = deviceName, !.shown = TRUE]

PickerOn(p) ==
  IF p = "adding" THEN [NoPicker EXCEPT !.value = deviceName, !.shown = TRUE] ELSE NoPicker

\* Another page is opened: the state of the one that was open is lost.
Goto(p) ==
  /\ ~AtGate /\ place # p
  /\ place' = p
  /\ form' = IF p = "settings" THEN [NoForm EXCEPT !.name = deviceName] ELSE NoForm
  /\ picker' = PickerOn(p)
  /\ request' = [r \in ReqIds |->
       IF request[r] # None /\ request[r].from = "settings"
       THEN [request[r] EXCEPT !.from = "left"] ELSE request[r]]
  /\ renamed' = FALSE
  /\ UNCHANGED <<devices, owners, store, gate, reclaimed, retyped>>

TypeInSettings(n) ==
  /\ InSettings /\ form.name # n
  /\ form' = [name |-> n, status |-> "idle"]
  /\ retyped' = (retyped \/ UnderWay("settings"))
  /\ UNCHANGED <<server, store, place, gate, picker, reclaimed, renamed>>

\* saveDevice.  Its button is there unless a reclaim is asked for.
SubmitInSettings ==
  /\ InSettings /\ form.status # "confirm"
  /\ Send(form.name, "settings")
  /\ UNCHANGED <<devices, owners, store, pages, history>>

\* confirmReclaim, and the button beside it.
ReclaimInSettings ==
  /\ InSettings /\ form.status = "confirm"
  /\ SetDeviceName(form.name, TRUE)
  /\ form' = [form EXCEPT !.status = "idle"]
  /\ UNCHANGED <<server, place, picker, retyped>>

CancelInSettings ==
  /\ InSettings /\ form.status = "confirm"
  /\ form' = [form EXCEPT !.status = "idle"]
  /\ UNCHANGED <<server, store, place, gate, picker, history>>

\* removeStorage.
RemoveStorage(v) ==
  /\ InSettings /\ v \in knownStorages
  /\ knownStorages' = knownStorages \ {v}
  /\ UNCHANGED <<server, deviceName, pages, history>>

-----------------------------------------------------------------------------
(* The answers. *)

\* Mutant: a failed registration is taken for one that exists.
MutAnswerGate(q) ==
  IF q.step = "created" THEN SetDeviceName(q.name, FALSE)
  ELSE /\ gate' = IF AtGate THEN [gate EXCEPT !.step = "confirm"] ELSE gate
       /\ UNCHANGED <<store, reclaimed, renamed>>

\* 201: the device takes the name that was sent.  200: the user is asked to
\* reclaim what the input holds by now.  Otherwise an error is shown.
AnswerGate(q) ==
  IF q.step = "created" THEN SetDeviceName(q.name, FALSE)
  ELSE /\ gate' = IF AtGate /\ q.step = "exists" THEN [gate EXCEPT !.step = "confirm"]
                  ELSE gate
       /\ UNCHANGED <<store, reclaimed, renamed>>

\* The same on the settings page, which may have been left: the name is taken
\* all the same.
AnswerSettings(q) ==
  /\ IF q.step = "created" THEN SetDeviceName(q.name, FALSE)
     ELSE UNCHANGED <<gate, store, reclaimed, renamed>>
  /\ form' = IF q.from = "settings" /\ q.step = "exists"
             THEN [form EXCEPT !.status = "confirm"] ELSE form

Answer(r) ==
  /\ request[r] # None /\ request[r].step \in {"created", "exists", "failed"}
  /\ IF request[r].from = "gate" THEN AnswerGate(request[r]) /\ UNCHANGED form
     ELSE AnswerSettings(request[r])
  /\ request' = [request EXCEPT ![r] = None]
  /\ UNCHANGED <<devices, owners, place, picker, retyped>>

-----------------------------------------------------------------------------
(* IdentityPicker, and the volume detection of the page it is on. *)

KnownIds == {deviceName} \cup knownStorages
PickerShown == ~AtGate /\ picker.shown

\* What the selector shows, and what a location is filed under.
Selected ==
  IF picker.custom THEN None
  ELSE IF picker.value \in KnownIds THEN picker.value ELSE deviceName
Filed == IF picker.value = None THEN deviceName ELSE picker.value

PickerFrame == UNCHANGED <<server, deviceName, place, gate, form, history>>

\* A file is chosen: its volume is asked for.
Detect(v) ==
  /\ PickerShown /\ v \notin picker.detecting
  /\ picker' = [picker EXCEPT !.detecting = @ \cup {v}]
  /\ UNCHANGED knownStorages /\ PickerFrame

\* Mutant: an unknown volume is selected before it is saved.
MutOnDetected(k, v) == [k EXCEPT !.custom = FALSE, !.value = v, !.offer = None]

\* The effect on a new detectedHwId: a known volume is selected, another offered.
OnDetected(k, v) ==
  IF v \in KnownIds THEN [k EXCEPT !.custom = FALSE, !.value = v, !.offer = None]
  ELSE [k EXCEPT !.offer = v]

\* Volumes are detected in any order, and also while the picker is not there.
Detected(v) ==
  /\ v \in picker.detecting
  /\ LET k == [picker EXCEPT !.detecting = @ \ {v}, !.detected = v] IN
     picker' = IF picker.shown /\ picker.detected # v THEN OnDetected(k, v) ELSE k
  /\ UNCHANGED knownStorages /\ PickerFrame

\* The volume of a file is not known.  The form forgets the one before, the
\* batch import does not.
DetectsNothing(v) ==
  /\ v \in picker.detecting
  /\ \E d \in {picker.detected, None} :
       picker' = [picker EXCEPT !.detecting = @ \ {v}, !.detected = d]
  /\ UNCHANGED knownStorages /\ PickerFrame

\* handleSelectChange.
Select(i) ==
  /\ PickerShown /\ i \in KnownIds /\ i # Selected
  /\ picker' = [picker EXCEPT !.offer = None, !.custom = FALSE, !.value = i]
  /\ UNCHANGED knownStorages /\ PickerFrame

SelectCustom ==
  /\ PickerShown /\ ~picker.custom
  /\ picker' = [picker EXCEPT !.offer = None, !.custom = TRUE, !.value = None]
  /\ UNCHANGED knownStorages /\ PickerFrame

TypeCustom(i) ==
  /\ PickerShown /\ picker.custom /\ picker.value # i
  /\ picker' = [picker EXCEPT !.value = i]
  /\ UNCHANGED knownStorages /\ PickerFrame

\* A storage that is there already is only given another name.
addOrUpdateStorage(v) == knownStorages' = knownStorages \cup {v}

\* handleSave: the offered volume becomes a known storage and is selected.
SaveOffer ==
  /\ PickerShown /\ picker.offer # None
  /\ addOrUpdateStorage(picker.offer)
  /\ picker' = [picker EXCEPT !.custom = FALSE, !.value = picker.offer, !.offer = None]
  /\ PickerFrame

Dismiss ==
  /\ PickerShown /\ picker.offer # None
  /\ picker' = [picker EXCEPT !.offer = None]
  /\ UNCHANGED knownStorages /\ PickerFrame

\* The page of the batch import hides the picker while it is running ...
Hide ==
  /\ PickerShown
  /\ picker' = [picker EXCEPT !.shown = FALSE, !.custom = FALSE, !.offer = None]
  /\ UNCHANGED knownStorages /\ PickerFrame

\* ... and then there is a new one, which runs the effect with what was
\* detected last, whatever the user had selected.
Show ==
  /\ ~AtGate /\ place = "adding" /\ ~picker.shown
  /\ LET k == [picker EXCEPT !.shown = TRUE,
                 !.custom = picker.value # None /\ picker.value \notin KnownIds] IN
     picker' = IF k.detected = None THEN k ELSE OnDetected(k, k.detected)
  /\ UNCHANGED knownStorages /\ PickerFrame

-----------------------------------------------------------------------------
Next ==
  \/ \E r \in ReqIds : Lookup(r) \/ Insert(r) \/ Lose(r) \/ Answer(r)
  \/ \E n \in Names : \/ OtherRegisters(n) \/ OtherReclaims(n)
                       \/ TypeAtGate(n) \/ TypeInSettings(n)
  \/ SubmitAtGate \/ ReclaimAtGate \/ CancelAtGate
  \/ \E p \in {"other", "settings", "adding"} : Goto(p)
  \/ SubmitInSettings \/ ReclaimInSettings \/ CancelInSettings
  \/ \E v \in Volumes : \/ RemoveStorage(v)
                         \/ Detect(v) \/ Detected(v) \/ DetectsNothing(v)
  \/ \E i \in Identities : Select(i) \/ TypeCustom(i)
  \/ SelectCustom \/ SaveOffer \/ Dismiss \/ Hide \/ Show

Spec == Init /\ [][Next]_vars

-----------------------------------------------------------------------------
(* Properties. *)

\* The device shares its name with another one only if its user has confirmed a
\* reclaim, or if the name was new when the device registered it and the user of
\* the other one has confirmed a reclaim, however registrations overlap, get lost
\* or are repeated.
SharedOnlyByReclaim ==
  deviceName \in others => reclaimed \/ deviceName \in mine \cap claimed

\* The device is in the server's table under the name it files its progress
\* under, unless its user typed on while a registration was under way.
RegisteredName == deviceName # None /\ ~retyped => deviceName \in devices

\* Locations are filed under the identity the selector shows, through saved and
\* removed storages, late detections and the page's imports, unless the device
\* was renamed meanwhile.
FiledAsShown == PickerShown /\ ~picker.custom /\ ~renamed => Filed = Selected
=============================================================================
