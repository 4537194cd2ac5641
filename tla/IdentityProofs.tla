--------------------------- MODULE IdentityProofs ---------------------------
(***************************************************************************)
(* Proofs about Identity, for any sets of names, volumes and requests.     *)
(*                                                                         *)
(* A registration carries the name it was sent with and its answer meets   *)
(* whatever the inputs hold by then.  NamesInv says what the server has    *)
(* promised about the names of requests that are under way; AskedInv ties  *)
(* those names to the inputs as long as nobody types on; PickerInv says    *)
(* where the value of a picker that is shown comes from.                   *)
(***************************************************************************)
EXTENDS Identity, TLAPS

\* The input of the settings page is never empty, and a request that reports to
\* that page finds it open.
InputInv ==
  /\ place = "settings" => form.name \in Names
  /\ \A r \in ReqIds : request[r] # None /\ request[r].from = "settings" =>
       place = "settings"

\* A request that found its name, or has inserted it, has a registered name,
\* and what it has inserted was new.  So is the device's own name unless it was
\* reclaimed, and another device has it only by a reclaim.
NamesInv ==
  /\ \A r \in ReqIds : request[r] # None =>
       /\ request[r].step \in {"created", "exists"} => request[r].name \in devices
       /\ request[r].step = "created" => request[r].name \in mine
  /\ mine \cap others \subseteq claimed
  /\ ~reclaimed => deviceName \in mine \cup {None}

\* As long as nobody types on, requests are about the name that is shown, and
\* a user is asked about registered names only.
AskedInv ==
  ~retyped =>
    /\ deviceName \in devices \cup {None}
    /\ AtGate =>
         /\ \A r \in ReqIds : request[r] # None /\ request[r].from = "gate" =>
              request[r].name = gate.name
         /\ gate.step = "confirm" => gate.name \in devices
    /\ \A r \in ReqIds : request[r] # None /\ request[r].from = "settings" =>
         request[r].name = form.name
    /\ form.status = "confirm" => form.name \in devices

\* A picker that is shown holds an identity it offers, or none, unless the user
\* types it or the device was renamed meanwhile.
PickerInv ==
  picker.shown /\ ~picker.custom /\ ~renamed => picker.value \in KnownIds \cup {None}

\* The actions of the picker and of the detection of its page.
PickerStep ==
  \/ \E v \in Volumes : Detect(v) \/ Detected(v) \/ DetectsNothing(v)
  \/ \E i \in Identities : Select(i) \/ TypeCustom(i)
  \/ SelectCustom \/ SaveOffer \/ Dismiss \/ Hide \/ Show

-----------------------------------------------------------------------------
(* Types. *)

\* What is sent takes the place of no request.
LEMMA SendType ==
  ASSUME TypeOK, NEW n \in Names, NEW from \in {"gate", "settings"}, Send(n, from)
  PROVE  request' \in [ReqIds -> Requests \cup {None}]
<1>1. PICK r \in ReqIds :
        request' = [request EXCEPT ![r] = [name |-> n, from |-> from, step |-> "sent"]]
  BY DEF Send
<1>2. [name |-> n, from |-> from, step |-> "sent"] \in Requests
  BY DEF Requests
<1> QED
  BY <1>1, <1>2 DEF TypeOK

\* Identities the picker can take.
LEMMA PickerValues == TypeOK /\ ~AtGate => KnownIds \subseteq Identities
  BY DEF TypeOK, AtGate, KnownIds, Identities

\* What a step of the picker leaves alone; the picker is on a page that adds.
LEMMA PickerPlace ==
  TypeOK /\ PickerStep =>
    /\ place = "adding"
    /\ PickerFrame
<1> SUFFICES ASSUME TypeOK, PickerStep PROVE place = "adding" /\ PickerFrame
  OBVIOUS
<1>1. picker.shown \/ picker.detecting # {} => place = "adding"
  BY DEF TypeOK, NoPicker
<1>2. PickerFrame
  BY DEF PickerStep, Detect, Detected, DetectsNothing, Select, TypeCustom, SelectCustom,
         SaveOffer, Dismiss, Hide, Show
<1>3. place = "adding"
  BY <1>1 DEF PickerStep, PickerShown, Detect, Detected, DetectsNothing, Select, TypeCustom,
              SelectCustom, SaveOffer, Dismiss, Hide, Show
<1> QED
  BY <1>2, <1>3

\* A step of the picker keeps the types.
LEMMA PickerTypes == TypeOK /\ PickerStep => TypeOK'
<1> SUFFICES ASSUME TypeOK, PickerStep PROVE TypeOK'
  OBVIOUS
<1>1. picker \in Pickers /\ knownStorages \subseteq Volumes
  BY DEF TypeOK, Pickers
<1>2. Volumes \subseteq Identities
  BY DEF Identities
<1>3. picker' \in Pickers /\ knownStorages' \subseteq Volumes
  <2>1. ASSUME NEW v \in Volumes, Detect(v)
        PROVE  picker' \in Pickers /\ knownStorages' = knownStorages
    BY <1>1, <2>1 DEF Detect, Pickers
  <2>2. ASSUME NEW v \in Volumes, Detected(v)
        PROVE  picker' \in Pickers /\ knownStorages' = knownStorages
    BY <1>1, <1>2, <2>2 DEF Detected, OnDetected, Pickers
  <2>3. ASSUME NEW v \in Volumes, DetectsNothing(v)
        PROVE  picker' \in Pickers /\ knownStorages' = knownStorages
    BY <1>1, <2>3 DEF DetectsNothing, Pickers
  <2>4. ASSUME NEW i \in Identities, Select(i)
        PROVE  picker' \in Pickers /\ knownStorages' = knownStorages
    BY <1>1, <2>4 DEF Select, Pickers
  <2>5. ASSUME NEW i \in Identities, TypeCustom(i)
        PROVE  picker' \in Pickers /\ knownStorages' = knownStorages
    BY <1>1, <2>5 DEF TypeCustom, Pickers
  <2>6. CASE SelectCustom
    BY <1>1, <2>6 DEF SelectCustom, Pickers
  <2>7. CASE SaveOffer
    BY <1>1, <1>2, <2>7 DEF SaveOffer, addOrUpdateStorage, Pickers
  <2>8. CASE Dismiss
    BY <1>1, <2>8 DEF Dismiss, Pickers
  <2>9. CASE Hide
    BY <1>1, <2>9 DEF Hide, Pickers
  <2>10. CASE Show
    BY <1>1, <1>2, <2>10 DEF Show, OnDetected, Pickers
  <2> QED
    BY <1>1, <2>1, <2>2, <2>3, <2>4, <2>5, <2>6, <2>7, <2>8, <2>9, <2>10 DEF PickerStep
<1> QED
  BY <1>3, PickerPlace DEF TypeOK, Pickers, PickerFrame, server, owners, history

\* A step keeps the types.
LEMMA TypeStep == TypeOK /\ InputInv /\ [Next]_vars => TypeOK'
<1> SUFFICES ASSUME TypeOK, InputInv, [Next]_vars PROVE TypeOK'
  OBVIOUS
<1> USE DEF TypeOK, server, owners, store, pages, history, InputInv
<1>1. CASE UNCHANGED vars
  BY <1>1 DEF vars
<1>2. ASSUME NEW r \in ReqIds, Lookup(r) PROVE TypeOK'
  BY <1>2 DEF Lookup, At, Requests
<1>3. ASSUME NEW r \in ReqIds, Insert(r) PROVE TypeOK'
  BY <1>3 DEF Insert, At, Requests
<1>4. ASSUME NEW r \in ReqIds, Lose(r) PROVE TypeOK'
  BY <1>4 DEF Lose, Requests
<1>5. ASSUME NEW r \in ReqIds, Answer(r) PROVE TypeOK'
  <2>1. request' \in [ReqIds -> Requests \cup {None}]
    BY <1>5 DEF Answer
  <2>2. request[r].name \in Names
    BY <1>5 DEF Answer, Requests
  <2>3. ASSUME SetDeviceName(request[r].name, FALSE)
        PROVE  /\ deviceName' \in Names /\ knownStorages' \subseteq Volumes
               /\ gate' \in [step : {"form", "confirm"}, name : Names \cup {None}]
               /\ {reclaimed', renamed'} \subseteq BOOLEAN
    BY <2>2, <2>3 DEF SetDeviceName, NoGate
  <2>4. CASE request[r].from = "gate" /\ request[r].step = "created"
    BY <1>5, <2>1, <2>3, <2>4, IdentityAssumption DEF Answer, AnswerGate
  <2>5. CASE request[r].from = "gate" /\ request[r].step # "created"
    BY <1>5, <2>1, <2>5 DEF Answer, AnswerGate
  <2>6. CASE request[r].from # "gate" /\ request[r].step = "created"
    <3>1. form' = form
      BY <1>5, <2>6 DEF Answer, AnswerSettings
    <3> QED
      BY <1>5, <2>1, <2>3, <2>6, <3>1, IdentityAssumption DEF Answer, AnswerSettings
  <2>7. CASE request[r].from # "gate" /\ request[r].step # "created"
    <3>1. UNCHANGED <<deviceName, knownStorages, gate, reclaimed, renamed>>
      BY <1>5, <2>7 DEF Answer, AnswerSettings
    <3> QED
      BY <1>5, <2>1, <2>7, <3>1 DEF Answer, AnswerSettings
  <2> QED
    BY <2>4, <2>5, <2>6, <2>7
<1>6. ASSUME NEW n \in Names, OtherRegisters(n) \/ OtherReclaims(n) PROVE TypeOK'
  BY <1>6 DEF OtherRegisters, OtherReclaims
<1>7. ASSUME NEW n \in Names, TypeAtGate(n) PROVE TypeOK'
  BY <1>7 DEF TypeAtGate
<1>8. ASSUME NEW n \in Names, TypeInSettings(n) PROVE TypeOK'
  BY <1>8 DEF TypeInSettings, InSettings
<1>9. CASE SubmitAtGate
  <2>1. gate.name \in Names /\ Send(gate.name, "gate")
    BY <1>9 DEF SubmitAtGate
  <2> QED
    BY <1>9, <2>1, SendType DEF SubmitAtGate
<1>10. CASE ReclaimAtGate
  BY <1>10 DEF ReclaimAtGate, SetDeviceName, NoGate, AtGate
<1>11. CASE CancelAtGate
  BY <1>11 DEF CancelAtGate
<1>12. ASSUME NEW p \in {"other", "settings", "adding"}, Goto(p) PROVE TypeOK'
  <2>1. request' \in [ReqIds -> Requests \cup {None}]
    BY <1>12 DEF Goto, Requests
  <2> QED
    BY <1>12, <2>1 DEF Goto, PickerOn, NoForm, NoPicker, AtGate, Identities, Pickers
<1>13. CASE SubmitInSettings
  <2>1. form.name \in Names /\ Send(form.name, "settings")
    BY <1>13 DEF SubmitInSettings, InSettings
  <2> QED
    BY <1>13, <2>1, SendType DEF SubmitInSettings
<1>14. CASE ReclaimInSettings
  BY <1>14, IdentityAssumption DEF ReclaimInSettings, InSettings, SetDeviceName, NoGate
<1>15. CASE CancelInSettings
  BY <1>15 DEF CancelInSettings, InSettings
<1>16. ASSUME NEW v \in Volumes, RemoveStorage(v) PROVE TypeOK'
  BY <1>16 DEF RemoveStorage
<1>17. CASE PickerStep
  BY <1>17, PickerTypes
<1> QED
  BY <1>1, <1>2, <1>3, <1>4, <1>5, <1>6, <1>7, <1>8, <1>9, <1>10, <1>11,
     <1>12, <1>13, <1>14, <1>15, <1>16, <1>17 DEF Next, PickerStep

\* The input of the settings page is a name as long as that page is open.
LEMMA InputStep == TypeOK /\ InputInv /\ [Next]_vars => InputInv'
<1> SUFFICES ASSUME TypeOK, InputInv, [Next]_vars PROVE InputInv'
  OBVIOUS
<1> USE DEF TypeOK, InputInv, server, owners, store, pages, history
<1>1. CASE UNCHANGED vars
  BY <1>1 DEF vars
<1>2. ASSUME NEW r \in ReqIds, Lookup(r) \/ Insert(r) \/ Lose(r) PROVE InputInv'
  BY <1>2 DEF Lookup, Insert, Lose, At, Requests
<1>3. ASSUME NEW r \in ReqIds, Answer(r) PROVE InputInv'
  <2>1. UNCHANGED place /\ form'.name = form.name
    BY <1>3 DEF Answer, AnswerSettings
  <2> QED
    BY <1>3, <2>1 DEF Answer, Requests
<1>4. ASSUME NEW n \in Names, OtherRegisters(n) \/ OtherReclaims(n) \/ TypeAtGate(n) PROVE InputInv'
  BY <1>4 DEF OtherRegisters, OtherReclaims, TypeAtGate
<1>5. ASSUME NEW n \in Names, TypeInSettings(n) PROVE InputInv'
  BY <1>5 DEF TypeInSettings
<1>6. CASE SubmitAtGate
  <2>1. \A r \in ReqIds : request'[r] # None /\ request'[r].from = "settings" =>
          request[r] # None /\ request[r].from = "settings"
    BY <1>6 DEF SubmitAtGate, Send
  <2> QED
    BY <1>6, <2>1 DEF SubmitAtGate
<1>7. CASE ReclaimAtGate \/ CancelAtGate
  BY <1>7 DEF ReclaimAtGate, CancelAtGate
<1>8. ASSUME NEW p \in {"other", "settings", "adding"}, Goto(p) PROVE InputInv'
  <2>1. \A r \in ReqIds : request'[r] # None => request'[r].from # "settings"
    BY <1>8 DEF Goto, Requests
  <2>2. p = "settings" => form'.name = deviceName /\ deviceName \in Names
    BY <1>8 DEF Goto, AtGate, NoForm
  <2> QED
    BY <1>8, <2>1, <2>2 DEF Goto
<1>9. CASE SubmitInSettings
  BY <1>9 DEF SubmitInSettings, InSettings
<1>10. CASE ReclaimInSettings \/ CancelInSettings
  BY <1>10 DEF ReclaimInSettings, CancelInSettings
<1>11. ASSUME NEW v \in Volumes, RemoveStorage(v) PROVE InputInv'
  BY <1>11 DEF RemoveStorage
<1>12. CASE PickerStep
  BY <1>12, PickerPlace DEF PickerFrame
<1> QED
  BY <1>1, <1>2, <1>3, <1>4, <1>5, <1>6, <1>7, <1>8, <1>9, <1>10, <1>11, <1>12
     DEF Next, PickerStep

-----------------------------------------------------------------------------
(* Names. *)

\* A step keeps the promises of the server.
LEMMA NamesStep == TypeOK /\ InputInv /\ NamesInv /\ [Next]_vars => NamesInv'
<1> SUFFICES ASSUME TypeOK, InputInv, NamesInv, [Next]_vars PROVE NamesInv'
  OBVIOUS
<1> USE DEF TypeOK, NamesInv, server, owners, store, pages, history
<1>1. CASE UNCHANGED vars
  BY <1>1 DEF vars
<1>2. ASSUME NEW r \in ReqIds, Lookup(r) PROVE NamesInv'
  BY <1>2 DEF Lookup, At, Requests
<1>3. ASSUME NEW r \in ReqIds, Insert(r) PROVE NamesInv'
  BY <1>3 DEF Insert, At, Requests
<1>4. ASSUME NEW r \in ReqIds, Lose(r) PROVE NamesInv'
  BY <1>4 DEF Lose, Requests
<1>5. ASSUME NEW r \in ReqIds, Answer(r) PROVE NamesInv'
  <2>1. \A q \in ReqIds : request'[q] # None => request'[q] = request[q]
    BY <1>5 DEF Answer
  <2>2. \/ UNCHANGED <<deviceName, reclaimed>>
        \/ deviceName' = request[r].name /\ request[r].step = "created"
    BY <1>5 DEF Answer, AnswerGate, AnswerSettings, SetDeviceName
  <2> QED
    BY <1>5, <2>1, <2>2 DEF Answer
<1>6. ASSUME NEW n \in Names, OtherRegisters(n) \/ OtherReclaims(n) PROVE NamesInv'
  BY <1>6 DEF OtherRegisters, OtherReclaims
<1>7. ASSUME NEW n \in Names, TypeAtGate(n) \/ TypeInSettings(n) PROVE NamesInv'
  BY <1>7 DEF TypeAtGate, TypeInSettings
<1>8. CASE SubmitAtGate \/ SubmitInSettings
  <2>1. \A r \in ReqIds : request'[r] = request[r] \/ request'[r].step = "sent"
    BY <1>8 DEF SubmitAtGate, SubmitInSettings, Send
  <2> QED
    BY <1>8, <2>1 DEF SubmitAtGate, SubmitInSettings
<1>9. CASE ReclaimAtGate \/ ReclaimInSettings
  BY <1>9 DEF ReclaimAtGate, ReclaimInSettings, SetDeviceName
<1>10. CASE CancelAtGate \/ CancelInSettings
  BY <1>10 DEF CancelAtGate, CancelInSettings
<1>11. ASSUME NEW p \in {"other", "settings", "adding"}, Goto(p) PROVE NamesInv'
  <2>1. \A r \in ReqIds : request'[r] # None =>
          /\ request[r] # None
          /\ request'[r].step = request[r].step /\ request'[r].name = request[r].name
    BY <1>11 DEF Goto, Requests
  <2> QED
    BY <1>11, <2>1 DEF Goto
<1>12. ASSUME NEW v \in Volumes, RemoveStorage(v) PROVE NamesInv'
  BY <1>12 DEF RemoveStorage
<1>13. CASE PickerStep
  BY <1>13, PickerPlace DEF PickerFrame
<1> QED
  BY <1>1, <1>2, <1>3, <1>4, <1>5, <1>6, <1>7, <1>8, <1>9, <1>10, <1>11, <1>12,
     <1>13 DEF Next, PickerStep

\* A step asks about the name that is shown, unless the user types on.
LEMMA AskedStep ==
  TypeOK /\ InputInv /\ NamesInv /\ AskedInv /\ [Next]_vars => AskedInv'
<1> SUFFICES ASSUME TypeOK, InputInv, NamesInv, AskedInv, [Next]_vars, ~retyped'
             PROVE AskedInv'
  BY DEF AskedInv
<1> USE DEF TypeOK, AskedInv, AtGate, server, owners, store, pages, history
<1>1. CASE UNCHANGED vars
  BY <1>1 DEF vars
<1>2. ASSUME NEW r \in ReqIds, Lookup(r) \/ Insert(r) \/ Lose(r) PROVE AskedInv'
  <2>1. \A q \in ReqIds : request'[q] # None =>
          /\ request[q] # None
          /\ request'[q].name = request[q].name /\ request'[q].from = request[q].from
    BY <1>2 DEF Lookup, Insert, Lose, At, Requests
  <2>2. devices \subseteq devices'
    BY <1>2 DEF Lookup, Insert, Lose
  <2>3. UNCHANGED <<store, pages, history>>
    BY <1>2 DEF Lookup, Insert, Lose
  <2> QED
    BY <2>1, <2>2, <2>3
<1>3. ASSUME NEW r \in ReqIds, Answer(r) PROVE AskedInv'
  <2>1. \A q \in ReqIds : request'[q] # None => request'[q] = request[q]
    BY <1>3 DEF Answer
  <2>2. UNCHANGED <<devices, place, retyped>> /\ ~retyped
    BY <1>3 DEF Answer
  <2>3. request[r] # None /\ request[r] \in Requests
    BY <1>3 DEF Answer
  <2>4. CASE request[r].from = "gate"
    <3>1. CASE request[r].step = "created"
      <4>1. deviceName' \in devices /\ deviceName' \in Names
        BY <1>3, <2>3, <2>4, <3>1 DEF Answer, AnswerGate, SetDeviceName, NamesInv, Requests
      <4> QED
        BY <1>3, <2>1, <2>2, <2>4, <4>1, IdentityAssumption DEF Answer
    <3>2. CASE request[r].step # "created"
      <4>1. UNCHANGED <<deviceName, form>>
        BY <1>3, <2>4, <3>2 DEF Answer, AnswerGate
      <4>2. AtGate => gate'.name = gate.name
        BY <1>3, <2>4, <3>2 DEF Answer, AnswerGate
      <4>3. AtGate /\ gate'.step = "confirm" => gate.name \in devices
        BY <1>3, <2>2, <2>3, <2>4, <3>2 DEF Answer, AnswerGate, NamesInv
      <4> QED
        BY <2>1, <2>2, <4>1, <4>2, <4>3
    <3> QED
      BY <3>1, <3>2
  <2>5. CASE request[r].from # "gate"
    <3>1. form'.name = form.name
      BY <1>3, <2>5 DEF Answer, AnswerSettings
    <3>2. form'.status = "confirm" => form.name \in devices
      BY <1>3, <2>2, <2>3, <2>5 DEF Answer, AnswerSettings, NamesInv
    <3>3. \/ UNCHANGED <<deviceName, gate>>
          \/ deviceName' \in devices /\ deviceName' \in Names
      BY <1>3, <2>3, <2>5 DEF Answer, AnswerSettings, SetDeviceName, NamesInv, Requests
    <3> QED
      BY <2>1, <2>2, <3>1, <3>2, <3>3, IdentityAssumption
  <2> QED
    BY <2>4, <2>5
<1>4. ASSUME NEW n \in Names, OtherRegisters(n) \/ OtherReclaims(n) PROVE AskedInv'
  BY <1>4 DEF OtherRegisters, OtherReclaims
<1>5. ASSUME NEW n \in Names, TypeAtGate(n) PROVE AskedInv'
  <2>1. ~UnderWay("gate") /\ ~retyped
    BY <1>5 DEF TypeAtGate
  <2> QED
    BY <1>5, <2>1 DEF TypeAtGate, UnderWay
<1>6. ASSUME NEW n \in Names, TypeInSettings(n) PROVE AskedInv'
  <2>1. ~UnderWay("settings") /\ ~retyped
    BY <1>6 DEF TypeInSettings
  <2> QED
    BY <1>6, <2>1 DEF TypeInSettings, UnderWay, InSettings
<1>7. CASE SubmitAtGate
  <2>1. \A r \in ReqIds : request'[r] = request[r]
          \/ (request'[r].name = gate.name /\ request'[r].from = "gate")
    BY <1>7 DEF SubmitAtGate, Send
  <2> QED
    BY <1>7, <2>1 DEF SubmitAtGate
<1>8. CASE SubmitInSettings
  <2>1. \A r \in ReqIds : request'[r] = request[r]
          \/ (request'[r].name = form.name /\ request'[r].from = "settings")
    BY <1>8 DEF SubmitInSettings, Send
  <2> QED
    BY <1>8, <2>1 DEF SubmitInSettings, InSettings
<1>9. CASE ReclaimAtGate
  BY <1>9, IdentityAssumption DEF ReclaimAtGate, SetDeviceName
<1>10. CASE ReclaimInSettings
  BY <1>10, IdentityAssumption DEF ReclaimInSettings, InSettings, SetDeviceName
<1>11. CASE CancelAtGate
  BY <1>11 DEF CancelAtGate
<1>12. CASE CancelInSettings
  BY <1>12 DEF CancelInSettings
<1>13. ASSUME NEW p \in {"other", "settings", "adding"}, Goto(p) PROVE AskedInv'
  <2>1. \A r \in ReqIds : request'[r] # None => request'[r].from # "settings"
    BY <1>13 DEF Goto, Requests
  <2>2. form'.status = "idle"
    BY <1>13 DEF Goto, NoForm
  <2> QED
    BY <1>13, <2>1, <2>2 DEF Goto
<1>14. ASSUME NEW v \in Volumes, RemoveStorage(v) PROVE AskedInv'
  BY <1>14 DEF RemoveStorage
<1>15. CASE PickerStep
  BY <1>15, PickerPlace DEF PickerFrame
<1> QED
  BY <1>1, <1>2, <1>3, <1>4, <1>5, <1>6, <1>7, <1>8, <1>9, <1>10, <1>11, <1>12,
     <1>13, <1>14, <1>15 DEF Next, PickerStep

-----------------------------------------------------------------------------
(* The picker. *)

\* A step keeps what a picker may hold.
LEMMA PickerInvStep == TypeOK /\ InputInv /\ PickerInv /\ [Next]_vars => PickerInv'
<1> SUFFICES ASSUME TypeOK, InputInv, PickerInv, [Next]_vars PROVE PickerInv'
  OBVIOUS
<1>1. picker \in Pickers /\ (place # "adding" => ~picker.shown)
  BY DEF TypeOK, NoPicker
<1>2. CASE UNCHANGED <<picker, deviceName, knownStorages>> /\ (renamed => renamed')
  BY <1>2 DEF PickerInv, KnownIds
<1>3. CASE ~picker'.shown
  BY <1>3 DEF PickerInv
<1>4. ASSUME NEW n, NEW b, SetDeviceName(n, b), UNCHANGED picker PROVE PickerInv'
  BY <1>1, <1>4 DEF PickerInv, SetDeviceName
<1>5. ASSUME NEW r \in ReqIds, Answer(r) PROVE PickerInv'
  BY <1>2, <1>4, <1>5 DEF Answer, AnswerGate, AnswerSettings, store
<1>6. CASE ReclaimAtGate \/ ReclaimInSettings
  BY <1>4, <1>6 DEF ReclaimAtGate, ReclaimInSettings, server, owners
<1>7. ASSUME NEW p \in {"other", "settings", "adding"}, Goto(p) PROVE PickerInv'
  <2>1. CASE p = "adding"
    <3>1. picker'.value = deviceName /\ deviceName' = deviceName
      BY <1>7, <2>1 DEF Goto, PickerOn, NoPicker, store
    <3> QED
      BY <3>1 DEF PickerInv, KnownIds
  <2>2. CASE p # "adding"
    BY <1>3, <1>7, <2>2 DEF Goto, PickerOn, NoPicker
  <2> QED
    BY <2>1, <2>2
<1>8. ASSUME NEW v \in Volumes, RemoveStorage(v) PROVE PickerInv'
  BY <1>1, <1>3, <1>8 DEF RemoveStorage, InSettings, pages
<1>9. CASE PickerStep
  <2>1. UNCHANGED <<deviceName, renamed>>
    BY <1>9, PickerPlace DEF PickerFrame, history
  <2>2. knownStorages \subseteq knownStorages'
    BY <1>9 DEF PickerStep, Detect, Detected, DetectsNothing, Select, TypeCustom,
                SelectCustom, SaveOffer, addOrUpdateStorage, Dismiss, Hide, Show
  <2>3. KnownIds \subseteq KnownIds'
    BY <2>1, <2>2 DEF KnownIds
  <2> DEFINE Held == \/ ~picker'.shown \/ picker'.custom
                     \/ picker'.value \in KnownIds' \cup {None}
                     \/ picker.shown /\ ~picker.custom /\ picker'.value = picker.value
  <2>4. ASSUME NEW v \in Volumes, Detect(v) PROVE Held
    BY <1>1, <2>4 DEF Detect, Pickers
  <2>5. ASSUME NEW v \in Volumes, Detected(v) PROVE Held
    BY <1>1, <2>3, <2>5 DEF Detected, OnDetected, Pickers
  <2>6. ASSUME NEW v \in Volumes, DetectsNothing(v) PROVE Held
    BY <1>1, <2>6 DEF DetectsNothing, Pickers
  <2>7. ASSUME NEW i \in Identities, Select(i) PROVE Held
    BY <1>1, <2>3, <2>7 DEF Select, Pickers
  <2>8. ASSUME NEW i \in Identities, TypeCustom(i) PROVE Held
    BY <1>1, <2>8 DEF TypeCustom, Pickers
  <2>9. ASSUME SelectCustom PROVE Held
    BY <1>1, <2>9 DEF SelectCustom, Pickers
  <2>10. ASSUME SaveOffer PROVE Held
    BY <1>1, <2>10 DEF SaveOffer, addOrUpdateStorage, Pickers, KnownIds
  <2>11. ASSUME Dismiss PROVE Held
    BY <1>1, <2>11 DEF Dismiss, Pickers
  <2>12. ASSUME Hide PROVE Held
    BY <1>1, <2>12 DEF Hide, Pickers
  <2>13. ASSUME Show PROVE Held
    BY <1>1, <2>3, <2>13 DEF Show, OnDetected, Pickers
  <2>14. Held
    BY <1>9, <2>4, <2>5, <2>6, <2>7, <2>8, <2>9, <2>10, <2>11, <2>12, <2>13 DEF PickerStep
  <2> QED
    BY <2>1, <2>3, <2>14 DEF PickerInv
<1>10. CASE UNCHANGED vars
  BY <1>2, <1>10 DEF vars, store, pages, history
<1>11. ASSUME NEW r \in ReqIds, Lookup(r) \/ Insert(r) \/ Lose(r) PROVE PickerInv'
  BY <1>2, <1>11 DEF Lookup, Insert, Lose, store, pages, history
<1>12. ASSUME NEW n \in Names, OtherRegisters(n) \/ OtherReclaims(n) \/ TypeAtGate(n) \/ TypeInSettings(n)
       PROVE  PickerInv'
  BY <1>2, <1>12 DEF OtherRegisters, OtherReclaims, TypeAtGate, TypeInSettings, store, pages, history
<1>13. CASE SubmitAtGate \/ CancelAtGate \/ SubmitInSettings \/ CancelInSettings
  BY <1>2, <1>13 DEF SubmitAtGate, CancelAtGate, SubmitInSettings, CancelInSettings,
                     store, pages, history
<1> QED
  BY <1>5, <1>6, <1>7, <1>8, <1>9, <1>10, <1>11, <1>12, <1>13 DEF Next, PickerStep

-----------------------------------------------------------------------------
\* What every theorem below rests on.
LEMMA Base == Spec => [](TypeOK /\ InputInv /\ NamesInv)
<1>1. Init => TypeOK
  <2>1. NoPicker \in Pickers
    BY DEF NoPicker, Pickers
  <2>2. NoForm \in [name : Names \cup {None}, status : {"idle", "confirm"}]
    BY DEF NoForm
  <2>3. NoGate \in [step : {"form", "confirm"}, name : Names \cup {None}]
    BY DEF NoGate
  <2> QED
    BY <2>1, <2>2, <2>3 DEF Init, TypeOK
<1>2. Init => InputInv /\ NamesInv
  BY DEF Init, InputInv, NamesInv
<1> QED
  BY <1>1, <1>2, TypeStep, InputStep, NamesStep, PTL DEF Spec

\* Every variable keeps its type, and a page that is not open has no state,
\* whatever requests and detections are under way.
THEOREM TypeCorrect == Spec => []TypeOK
  BY Base, PTL

\* A device shares its name with another one only after its user, or if the name
\* was new to it the user of the other one, has confirmed a reclaim, however many
\* registrations overlap: what the answers 200 and 201 of POST /devices are for.
THEOREM SharedKnowingly == Spec => []SharedOnlyByReclaim
<1>1. TypeOK /\ NamesInv => SharedOnlyByReclaim
  BY IdentityAssumption DEF TypeOK, NamesInv, SharedOnlyByReclaim
<1> QED
  BY <1>1, Base, PTL

\* The device is registered under the name it files its progress under, as long
\* as its user does not type while a registration is under way.
THEOREM NameRegistered == Spec => []RegisteredName
<1>1. Init => AskedInv
  BY DEF Init, AskedInv, NoForm, NoGate
<1>2. AskedInv => RegisteredName
  BY DEF AskedInv, RegisteredName
<1> QED
  BY <1>1, <1>2, Base, AskedStep, PTL DEF Spec

\* A location is filed under the identity that the picker shows, unless the user
\* types it or the device was renamed with the picker open.
THEOREM FiledCorrectly == Spec => []FiledAsShown
<1>1. Init => PickerInv
  BY DEF Init, PickerInv, NoPicker
<1>2. TypeOK /\ PickerInv => FiledAsShown
  <2> SUFFICES ASSUME TypeOK, PickerInv, PickerShown, ~picker.custom, ~renamed
               PROVE  Filed = Selected
    BY DEF FiledAsShown
  <2>1. picker.value \in KnownIds \cup {None}
    BY DEF PickerInv, PickerShown
  <2>2. None \notin KnownIds
    BY IdentityAssumption DEF PickerShown, AtGate, KnownIds, TypeOK
  <2> QED
    BY <2>1, <2>2 DEF Filed, Selected
<1> QED
  BY <1>1, <1>2, Base, PickerInvStep, PTL DEF Spec
=============================================================================
