--------------------------- MODULE MDNSDaemon_proof ---------------------------
(***************************************************************************)
(* Theorems about MDNSDaemon for services without subtypes, with any set   *)
(* of extra records.  With a subtype they do not hold: the code frees what *)
(* the engine still has in its lists.                                      *)
(***************************************************************************)
EXTENDS MDNSDaemon, MDNSService_proof

--------------------------------------------------------------------------------
(* The service is a step or a stutter of MDNSService *)

\* While the set belongs to the engine the PTR record is listed, and the rest
\* of a set that has lost its name is gone
LonePTR ==
  /\ owner = "engine" => "PTR" \in ResourceRecords
  /\ Conflict => ResourceRecords = {}

\* Callbacks are called from the engine that is open, but for the last
CallbackPhases ==
  /\ result \in {"NoError", "NameConflict"} => phase = "open"
  /\ result \in Final => owner = "client"

SetInv == ServiceInv /\ LonePTR /\ CallbackPhases

LEMMA SetInit == Init => SetInv
BY InvInit DEF Init, SetInv, LonePTR, CallbackPhases, Final

\* Removing records of a set keeps this if nothing but the PTR record is retracted
LEMMA SetRemove ==
  ASSUME Subtype = {}, SetInv, ServiceInv', NEW parts, NEW goodbyes \in SUBSET Shared,
         goodbyes \subseteq ResourceRecords, NEW conflict \in BOOLEAN,
         Remove(parts, goodbyes, conflict), Conflict' = conflict, phase' = phase,
         result = "None" \/ result = "NoError",
         conflict => ResourceRecords' = {},
         result' = "NameConflict" => phase = "open"
  PROVE  SetInv'
<1>1. Shared = {"PTR"}
  BY DEF Shared
<1>2. TypeOK /\ TypesFit
  BY DEF SetInv, ServiceInv
<1>. DEFINE freed == (parts \intersect ResourceRecords) \ goodbyes
            types == [p \in Part |-> IF p \in freed THEN "Unregistered"
                                     ELSE IF p \in goodbyes THEN "Deregistering"
                                     ELSE RecordType[p]]
<1>3. /\ ResourceRecords' = ResourceRecords \ freed
      /\ Report(freed, types, conflict)
  BY DEF Remove
<1>4. CASE "PTR" \in freed
  <2>1. "PTR" \in Part /\ types["PTR"] = "Unregistered"
    BY <1>4 DEF Part, Main
  <2>2. freed \intersect Shared # {} /\ AllDone(types)
    BY <1>1, <1>4, <2>1 DEF AllDone
  <2>3. owner' = "client" /\ result' \in Final
    BY <1>3, <2>2 DEF Report, Final
  <2>. QED  BY <2>3 DEF SetInv, LonePTR, CallbackPhases, Final
<1>5. CASE "PTR" \notin freed
  <2>1. UNCHANGED <<result, owner>>
    BY <1>1, <1>3, <1>5 DEF Report
  <2>. QED  BY <1>3, <1>5, <2>1 DEF SetInv, LonePTR, CallbackPhases, Final
<1>. QED  BY <1>4, <1>5

\* Under a conflict no goodbye is sent: nothing is left
LEMMA ConflictLeavesNothing ==
  ASSUME Subtype = {}, SetInv, phase = "open", "SRV" \in ResourceRecords,
         NEW goodbyes \in SpokenFor(TRUE), Remove(Main \union Extras, goodbyes, TRUE)
  PROVE  ResourceRecords' = {}
<1>1. goodbyes = {}
  BY DEF SpokenFor, Announced, Shared, SetInv, ServiceInv, TypeOK
<1>2. ResourceRecords' = ResourceRecords \ (Main \union Extras)
  BY <1>1 DEF Remove
<1>3. ResourceRecords \subseteq Main \union Extra /\ ResourceRecords \intersect Extra = Extras
  BY DEF SetInv, ServiceInv, TypeOK, Part, ExtrasFollow
<1>. QED  BY <1>2, <1>3

LEMMA SetRegister ==
  ASSUME SetInv, phase = "open", NEW extras \in SUBSET Extra,
         RegisterRecords(extras), result' = "None"
  PROVE  SetInv'
<1>1. ServiceInv'
  BY RegisterInv DEF SetInv
<1>2. owner' = "engine" /\ "PTR" \in ResourceRecords' /\ Conflict' = FALSE
  BY DEF RegisterRecords, SetUp, Main
<1>. QED  BY <1>1, <1>2 DEF SetInv, LonePTR, CallbackPhases, Final

LEMMA SetRegisterFails ==
  ASSUME SetInv, phase = "open", RegisterFails, result' = "None"
  PROVE  SetInv' /\ ResourceRecords' = {} /\ ResourceRecords = {} /\ owner' = "client"
<1>1. ServiceInv'
  BY RegisterFailsInv DEF SetInv
<1>2. owner' = "client" /\ ResourceRecords' = ResourceRecords /\ ResourceRecords = {}
      /\ Conflict' = FALSE
  BY DEF RegisterFails, SetUp, SetInv, ServiceInv, ReleasedWhenGone, LeftByClose
<1>. QED  BY <1>1, <1>2 DEF SetInv, LonePTR, CallbackPhases, Final

LEMMA SetDeregister ==
  ASSUME Subtype = {}, SetInv, result \in {"None", "NoError"}, DeregisterService
  PROVE  /\ SetInv'
         /\ ResourceRecords' \subseteq {"PTR"}
         /\ result' = result \/ (result' = "MemFree" /\ owner = "engine")
         /\ owner' \in {owner, "client"}
         /\ Extras' = Extras
<1>0. TypeOK /\ TypesFit /\ Conflict \in BOOLEAN /\ phase = "open"
  BY DEF SetInv, ServiceInv, TypeOK, DeregisterService, ClientMayCall
<1>1. PICK goodbyes \in SpokenFor(FALSE) :
        Remove(Main \union Extras, goodbyes, Conflict)
  BY DEF DeregisterService, DeregisterRecords
<1>2. goodbyes \in SUBSET Shared /\ goodbyes \subseteq ResourceRecords
  BY <1>0, SpokenForFacts
<1>3. ResourceRecords' = ResourceRecords \ ((Main \union Extras) \ goodbyes)
  BY <1>1, <1>2 DEF Remove
<1>4. ResourceRecords' \subseteq {"PTR"}
  <2>1. ResourceRecords \subseteq Main \union Extras
    BY <1>0 DEF SetInv, ServiceInv, TypeOK, Part, ExtrasFollow
  <2>. QED  BY <1>2, <1>3, <2>1 DEF Shared
<1>5. Conflict => ResourceRecords' = {}
  BY <1>3 DEF SetInv, LonePTR
<1>6. ServiceInv'
  BY DeregisterInv DEF SetInv
<1>7. UNCHANGED <<Conflict, phase, lost>>
  BY DEF DeregisterService
<1>8. /\ RecordType' \in [Part -> {"Unregistered", "Unique", "Verified", "Shared",
                                   "Advisory", "Deregistering"}]
      /\ ResourceRecords' = ResourceRecords \ ((Main \union Extras) \ goodbyes)
      /\ CurrentRecord' = CurrentRecord \ (Main \union Extras)
      /\ \A p \in Part : RecordType'[p] =
           IF p \in goodbyes THEN "Deregistering"
           ELSE IF p \in (Main \union Extras) \intersect ResourceRecords
                THEN "Unregistered" ELSE RecordType[p]
      /\ \/ UNCHANGED <<result, owner>>
         \/ /\ result' = IF Conflict THEN "NameConflict" ELSE "MemFree"
            /\ owner' = "client"
            /\ ((Main \union Extras) \intersect ResourceRecords) \intersect Shared # {}
            /\ Shared \intersect ResourceRecords' = {}
  BY <1>0, <1>1, <1>2, RemoveFacts, ZenonT(60)
<1>9. /\ result' = result \/ (result' = "MemFree" /\ owner = "engine")
      /\ owner' \in {owner, "client"}
  <2>1. CASE UNCHANGED <<result, owner>>
    BY <2>1
  <2>2. CASE ~UNCHANGED <<result, owner>>
    <3>1. Shared \intersect ResourceRecords # {} /\ owner' = "client"
          /\ result' = IF Conflict THEN "NameConflict" ELSE "MemFree"
      BY <1>8, <2>2
    <3>2. ~Conflict
      BY <3>1 DEF SetInv, LonePTR
    <3>. QED  BY <3>1, <3>2, OwnedByEngine DEF SetInv
  <2>. QED  BY <2>1, <2>2
<1>10. SetInv'
  BY <1>0, <1>1, <1>2, <1>5, <1>6, <1>7, <1>9, SetRemove
<1>. QED  BY <1>4, <1>7, <1>9, <1>10 DEF DeregisterService

\* What the engine does of its own accord, and mDNS_Close
Quiet ==
  /\ Extras' = Extras
  /\ ResourceRecords' \subseteq ResourceRecords
  /\ owner' = "engine" => owner = "engine"
  /\ result' = result \/ owner = "engine"
  /\ result' \in {"NoError", "NameConflict"} => "SRV" \in ResourceRecords

LEMMA SetCloseRecord ==
  ASSUME Subtype = {}, SetInv, NEW p \in Part, CloseRecord(p) \/ CompleteDeregistration(p)
  PROVE  SetInv' /\ Quiet
<1>0. TypeOK /\ TypesFit /\ Conflict \in BOOLEAN /\ result = "None" /\ lost' = Conflict
      /\ UNCHANGED <<Extras, Conflict, phase>> /\ p \in ResourceRecords
  BY DEF SetInv, ServiceInv, TypeOK, ConflictIsLoss, CloseRecord, CompleteDeregistration
<1>1. PICK goodbyes \in SUBSET {p} : goodbyes \subseteq Shared /\ Remove({p}, goodbyes, Conflict)
  <2>1. CASE CompleteDeregistration(p)
    BY <2>1 DEF CompleteDeregistration
  <2>2. CASE CloseRecord(p) /\ RecordType[p] = "Deregistering"
    <3>1. p \in Shared  BY <1>0, <2>2 DEF TypesFit
    <3>. QED  BY <2>2, <3>1 DEF CloseRecord
  <2>3. CASE CloseRecord(p) /\ RecordType[p] # "Deregistering"
    BY <1>0, <2>3, SpokenForFacts DEF CloseRecord
  <2>. QED  BY <2>1, <2>2, <2>3
<1>2. goodbyes \in SUBSET Shared /\ goodbyes \subseteq ResourceRecords
      /\ Remove({p}, goodbyes, Conflict)
  BY <1>0, <1>1
<1>3. ~Conflict
  BY <1>0 DEF SetInv, LonePTR
<1>4. ServiceInv'
  <2>1. CASE CompleteDeregistration(p)
    <3>1. p \in Shared
      BY <1>0, <2>1 DEF CompleteDeregistration, TypesFit
    <3>. QED  BY <2>1, <3>1, CompleteDeregistrationInv DEF SetInv
  <2>2. CASE CloseRecord(p)
    BY <2>2, CloseRecordInv DEF SetInv
  <2>. QED  BY <2>1, <2>2
<1>5. ServiceInv /\ [Next]_vars
  <2>1. CASE CompleteDeregistration(p)
    <3>1. p \in Shared
      BY <1>0, <2>1 DEF CompleteDeregistration, TypesFit
    <3>. QED  BY <2>1, <3>1 DEF Next, Engine, SetInv
  <2>2. CASE CloseRecord(p)
    BY <2>2 DEF Next, CloseStep, SetInv
  <2>. QED  BY <2>1, <2>2
<1>6. ResourceRecords' \subseteq ResourceRecords
  BY <1>2 DEF Remove
<1>7. result' = "None" \/ (result' = "MemFree" /\ owner = "engine" /\ owner' = "client")
      \/ result' \in Final
  BY <1>0, <1>2 DEF Remove, Report, Final
<1>8. result' \in Final => owner = "engine" /\ result' = "MemFree"
  BY <1>0, <1>3, <1>5, NextReports DEF Final
<1>9. owner' \in {owner, "client"}
  BY <1>2 DEF Remove, Report
<1>10. SetInv'
  BY <1>0, <1>2, <1>3, <1>4, <1>8, SetRemove DEF Final
<1>11. Quiet
  BY <1>0, <1>6, <1>7, <1>8, <1>9 DEF Quiet
<1>. QED  BY <1>10, <1>11

LEMMA SetNameConflict ==
  ASSUME Subtype = {}, SetInv, NameConflict
  PROVE  SetInv' /\ Quiet
<1>0. TypeOK /\ TypesFit /\ phase = "open" /\ "SRV" \in ResourceRecords /\ result = "None"
      /\ UNCHANGED <<Extras, phase>> /\ Conflict' = TRUE
  BY DEF SetInv, ServiceInv, NameConflict
<1>1. PICK goodbyes \in SpokenFor(TRUE) : Remove(Main \union Extras, goodbyes, TRUE)
  BY DEF NameConflict
<1>2. goodbyes \in SUBSET Shared /\ goodbyes \subseteq ResourceRecords
  BY <1>0, SpokenForFacts
<1>3. ResourceRecords' = {}
  BY <1>0, <1>1, ConflictLeavesNothing
<1>4. ServiceInv'
  BY NameConflictInv DEF SetInv
<1>5. SetInv'
  BY <1>0, <1>1, <1>2, <1>3, <1>4, SetRemove
<1>6. owner = "engine"
  BY <1>0 DEF SetInv, ServiceInv, TypeOK, ReleasedWhenGone, LeftByClose, Part, Main, SRVListed,
              GoneWithSRV
<1>. QED  BY <1>0, <1>3, <1>5, <1>6 DEF Quiet

LEMMA SetEngine ==
  ASSUME Subtype = {}, SetInv, Engine \/ BeginClose \/ CloseStep
  PROVE  SetInv' /\ Quiet
<1>1. CASE NameConflict  BY <1>1, SetNameConflict
<1>2. CASE \E p \in Shared : CompleteDeregistration(p)
  BY <1>2, SetCloseRecord, PartFacts
<1>3. CASE \E p \in Part : CloseRecord(p)
  BY <1>3, SetCloseRecord
<1>4. CASE CompleteProbing
  <2>1. ServiceInv'
    BY <1>4, EngineInv DEF SetInv
  <2>2. owner = "engine"
    BY <1>4, PartFacts DEF CompleteProbing, SetInv, ServiceInv, TypeOK, ReleasedWhenGone, LeftByClose
  <2>. QED
    BY <1>4, <2>1, <2>2 DEF CompleteProbing, SetInv, LonePTR, CallbackPhases, Final, Quiet
<1>5. CASE Reprobe \/ (\E p \in Shared : Announce(p)) \/ BeginClose \/ EndClose \/ EndCloseWalk
  <2>1. ServiceInv'
    BY <1>5, EngineInv, EndCloseWalkInv DEF SetInv
  <2>2. UNCHANGED <<result, owner, ResourceRecords, Conflict, Extras>> /\ result = "None"
    BY <1>5 DEF Reprobe, Announce, BeginClose, EndClose, EndCloseWalk
  <2>. QED  BY <2>1, <2>2 DEF SetInv, LonePTR, CallbackPhases, Final, Quiet
<1>. QED  BY <1>1, <1>2, <1>3, <1>4, <1>5 DEF Engine, CloseStep

--------------------------------------------------------------------------------
(* The daemon *)

\* The memory is there while the engine, or a callback yet to be made, needs it
HeldWhileNeeded ==
  owner = "engine" \/ result \in Final => service = "live"

\* Until then the two lists of extra records agree
ListsInStep ==
  service = "live" /\ (owner = "engine" \/ result # "None") => Extras = entries

\* What the engine knows of a service whose request is not there
RequestGone ==
  /\ request = "none" => /\ ResourceRecords = {} /\ result = "None" /\ owner = "client"
                         /\ entries = {} /\ allocated = {}
  /\ request \in {"aborting", "freed"} => /\ "SRV" \notin ResourceRecords
                                          /\ result # "NameConflict"
  /\ request = "freed" => result # "NoError"

DaemonInv ==
  /\ SetInv
  /\ DaemonTypeOK
  /\ HeldWhileNeeded
  /\ ListsInStep
  /\ RequestGone

LEMMA DaemonInvInit == DaemonInit => DaemonInv
BY SetInit DEF DaemonInit, Init, DaemonInv, DaemonTypeOK, HeldWhileNeeded, ListsInStep,
               RequestGone, Final

\* A registered service that is listed with its SRV record is the engine's
LEMMA SRVOwned ==
  ASSUME SetInv, phase = "open", "SRV" \in ResourceRecords
  PROVE  owner = "engine" /\ "PTR" \in ResourceRecords /\ Registered
<1>1. owner = "engine"
  BY DEF SetInv, ServiceInv, TypeOK, ReleasedWhenGone, LeftByClose
<1>2. "PTR" \in ResourceRecords
  BY <1>1 DEF SetInv, LonePTR
<1>. QED  BY <1>1, <1>2 DEF SetInv, ServiceInv, TypesFit, GoneWithSRV, Registered

LEMMA RegisterDaemon ==
  ASSUME DaemonInv, HandleRegister
  PROVE  DaemonInv'
<1>0. SetInv /\ phase = "open" /\ {} \in SUBSET Extra /\ RegisterRecords({})
      /\ result' = "None"
  BY DEF DaemonInv, HandleRegister, AtRest
<1>1. SetInv'
  BY <1>0, SetRegister
<1>2. Extras' = {} /\ entries' = {} /\ allocated' = {} /\ result' = "None"
      /\ request' = "registered" /\ service' = "live"
  BY <1>0 DEF DaemonInv, RequestGone, HandleRegister, RegisterRecords
<1>. QED
  BY <1>1, <1>2 DEF DaemonInv, DaemonTypeOK, HeldWhileNeeded, ListsInStep, RequestGone, Final,
                    HandleRegister

LEMMA RegisterFailsDaemon ==
  ASSUME DaemonInv, HandleRegisterFails
  PROVE  DaemonInv'
<1>0. SetInv /\ phase = "open" /\ RegisterFails /\ result' = "None"
  BY DEF DaemonInv, HandleRegisterFails, AtRest
<1>1. SetInv' /\ ResourceRecords' = {} /\ owner' = "client"
  BY <1>0, SetRegisterFails
<1>. QED
  BY <1>0, <1>1 DEF DaemonInv, DaemonTypeOK, HeldWhileNeeded, ListsInStep, RequestGone, Final,
                    HandleRegisterFails

LEMMA AddDaemon ==
  ASSUME DaemonInv, NEW e \in Extra, HandleAdd(e)
  PROVE  DaemonInv'
<1>0. SetInv /\ ServiceInv /\ AddRecord(e) /\ owner = "engine"
  BY DEF DaemonInv, SetInv, HandleAdd, AddRecord
<1>1. ServiceInv'
  BY <1>0, AddRecordInv
<1>2. SetInv'
  BY <1>0, <1>1 DEF SetInv, LonePTR, CallbackPhases, AddRecord
<1>. QED
  BY <1>0, <1>2 DEF DaemonInv, DaemonTypeOK, HeldWhileNeeded, ListsInStep, RequestGone,
                    HandleAdd, AddRecord

LEMMA RemoveDaemon ==
  ASSUME Subtype = {}, DaemonInv, NEW e \in Extra, HandleRemove(e)
  PROVE  DaemonInv'
<1>0. SetInv /\ ServiceInv /\ TypeOK /\ TypesFit /\ Conflict \in BOOLEAN
      /\ result = "None" /\ request = "registered"
  BY DEF DaemonInv, SetInv, ServiceInv, TypeOK, HandleRemove, AtRest
<1>1. CASE e \in Extras
  <2>1. RemoveRecord(e) /\ Remove({e}, {}, Conflict) /\ owner = "engine"
        /\ UNCHANGED <<Conflict, phase>>
    BY <1>1 DEF HandleRemove, RemoveRecord
  <2>2. ServiceInv'
    BY <1>0, <2>1, RemoveRecordInv
  <2>3. "PTR" \notin {e} /\ Shared \intersect {e} = {}
    BY PartFacts DEF Shared
  <2>4. UNCHANGED <<result, owner>> /\ ResourceRecords' = ResourceRecords \ {e}
    BY <2>1, <2>3 DEF Remove, Report
  <2>5. SetInv'
    BY <1>0, <2>1, <2>2, <2>3, <2>4 DEF SetInv, LonePTR, CallbackPhases
  <2>6. Extras = entries /\ Extras' = entries'
    BY <1>1, <2>1 DEF DaemonInv, HeldWhileNeeded, ListsInStep, HandleRemove, RemoveRecord
  <2>. QED
    BY <1>0, <2>4, <2>5, <2>6
    DEF DaemonInv, DaemonTypeOK, HeldWhileNeeded, ListsInStep, RequestGone, HandleRemove
<1>2. CASE e \notin Extras
  <2>1. UNCHANGED vars /\ allocated' = allocated /\ entries' = entries \ {e} /\ e \in entries
    BY <1>2 DEF HandleRemove, RemoveFrees
  <2>2. ~(service = "live" /\ owner = "engine")
    BY <1>2, <2>1 DEF DaemonInv, ListsInStep
  <2>3. SetInv'
    BY <1>0, <2>1, StutterInv DEF SetInv, LonePTR, CallbackPhases, vars
  <2>. QED
    BY <1>0, <2>1, <2>2, <2>3
    DEF vars, DaemonInv, DaemonTypeOK, HeldWhileNeeded, ListsInStep, RequestGone, HandleRemove
<1>. QED  BY <1>1, <1>2

\* The service of a request that is aborted keeps its memory if the engine needs it
LEMMA AbortDaemon ==
  ASSUME Subtype = {}, DaemonInv, result \in {"None", "NoError"}, phase = "open", Abort
  PROVE  DaemonInv'
<1>0. SetInv /\ ServiceInv /\ TypesFit /\ request' = "aborting" /\ request = "registered"
      /\ UNCHANGED <<renames, entries, allocated>>
  BY DEF DaemonInv, SetInv, ServiceInv, Abort
<1>1. owner = "engine" => DeregisterStatus = "NoError"
  BY <1>0 DEF SetInv, LonePTR, TypesFit, DeregisterStatus, Registered
<1>2. /\ SetInv'
      /\ "SRV" \notin ResourceRecords'
      /\ result' = result \/ (result' = "MemFree" /\ owner = "engine")
      /\ owner' \in {owner, "client"}
      /\ Extras' = Extras
  <2>1. CASE Registered
    <3>1. DeregisterService
      BY <2>1 DEF Abort, Terminate, DeregisterService, ClientMayCall
    <3>. QED  BY <1>0, <3>1, SetDeregister
  <2>2. CASE ~Registered
    <3>1. UNCHANGED vars
      BY <2>2 DEF Abort, Terminate, vars
    <3>2. SetInv'
      BY <1>0, <3>1, StutterInv DEF SetInv, LonePTR, CallbackPhases, vars
    <3>3. "SRV" \notin ResourceRecords
      BY <1>0, <2>2, SRVOwned
    <3>. QED  BY <3>1, <3>2, <3>3 DEF vars
  <2>. QED  BY <2>1, <2>2
<1>3. owner' = "engine" \/ result' \in Final => owner = "engine"
  BY <1>2 DEF Final
<1>4. owner = "engine" => UNCHANGED <<service, fault>>
  BY <1>1 DEF Abort, Terminate
<1>5. service' = service \/ service' = "freed"
  BY DEF Abort, Terminate
<1>6. DaemonTypeOK'
  BY <1>0, <1>5 DEF DaemonInv, DaemonTypeOK, Abort, Terminate
<1>7. HeldWhileNeeded'
  BY <1>3, <1>4 DEF DaemonInv, HeldWhileNeeded
<1>8. ListsInStep'
  BY <1>0, <1>2, <1>5 DEF DaemonInv, ListsInStep
<1>9. RequestGone'
  BY <1>0, <1>2 DEF RequestGone
<1>. QED  BY <1>2, <1>6, <1>7, <1>8, <1>9 DEF DaemonInv

\* The callback returns, and nothing else happens in the engine
LEMMA SetReturns ==
  ASSUME SetInv, CallbackReturns
  PROVE  /\ SetInv' /\ result' = "None"
         /\ UNCHANGED <<ResourceRecords, owner, Extras>>
<1>1. ServiceInv'
  BY EngineInv DEF SetInv
<1>. QED  BY <1>1 DEF SetInv, LonePTR, CallbackPhases, Final, CallbackReturns

LEMMA FinishDaemon ==
  ASSUME DaemonInv, FinishAbort
  PROVE  DaemonInv'
<1>1. SetInv'
  <2>1. CASE result = "None"
    <3>1. UNCHANGED vars
      BY <2>1 DEF FinishAbort, vars
    <3>. QED  BY <3>1, StutterInv DEF DaemonInv, SetInv, LonePTR, CallbackPhases, vars
  <2>2. CASE result # "None"
    <3>1. CallbackReturns
      BY <2>2 DEF FinishAbort, CallbackReturns
    <3>. QED  BY <3>1, SetReturns DEF DaemonInv
  <2>. QED  BY <2>1, <2>2
<1>. QED
  BY <1>1 DEF FinishAbort, DaemonInv, DaemonTypeOK, HeldWhileNeeded, ListsInStep,
              RequestGone, Final

LEMMA HandlerDaemon ==
  ASSUME Subtype = {}, DaemonInv, Handler
  PROVE  DaemonInv'
<1>0. SetInv /\ (result \in Final => owner = "client")
      /\ (result \in {"NoError", "NameConflict"} => phase = "open")
  BY DEF DaemonInv, SetInv, CallbackPhases
<1>1. CASE HandleNoError
  <2>1. CallbackReturns /\ UNCHANGED daemonVars /\ request = "registered"
    BY <1>1 DEF HandleNoError
  <2>2. SetInv' /\ result' = "None" /\ UNCHANGED <<ResourceRecords, owner, Extras>>
    BY <1>0, <2>1, SetReturns
  <2>. QED
    BY <2>1, <2>2 DEF daemonVars, DaemonInv, DaemonTypeOK, HeldWhileNeeded, ListsInStep,
                      RequestGone, Final
<1>2. CASE HandleNoErrorGone
  BY <1>0, <1>2, AbortDaemon DEF HandleNoErrorGone, Called
<1>3. CASE HandleMemFree
  <2>1. CallbackReturns /\ owner = "client" /\ request # "none"
    BY <1>0, <1>3 DEF HandleMemFree, Called, Final, DaemonInv, RequestGone
  <2>2. SetInv' /\ result' = "None" /\ UNCHANGED <<ResourceRecords, owner, Extras>>
    BY <1>0, <2>1, SetReturns
  <2>3. service' = "freed" /\ entries' = {} /\ allocated' \subseteq allocated
        /\ UNCHANGED <<request, renames, fault>>
    BY <1>3 DEF HandleMemFree
  <2>. QED
    BY <2>1, <2>2, <2>3 DEF DaemonInv, DaemonTypeOK, HeldWhileNeeded, ListsInStep,
                            RequestGone, Final
<1>4. CASE Rename
  <2>1. RegisterRecords(Extras) /\ result' = "None" /\ phase = "open" /\ UNCHANGED daemonVars
        /\ result = "NameConflict" /\ Extras \in SUBSET Extra
    BY <1>0, <1>4 DEF Rename, Called, SetInv, ServiceInv, TypeOK
  <2>2. SetInv' /\ Extras' = Extras
    BY <1>0, <2>1, SetRegister DEF RegisterRecords
  <2>3. service = "live" /\ Extras = entries /\ request = "registered"
    BY <2>1 DEF DaemonInv, DaemonTypeOK, HeldWhileNeeded, ListsInStep, RequestGone, Final
  <2>. QED
    BY <2>1, <2>2, <2>3 DEF daemonVars, DaemonInv, DaemonTypeOK, HeldWhileNeeded,
                            ListsInStep, RequestGone, Final
<1>5. CASE RenameFails
  <2>1. RegisterFails /\ result' = "None" /\ phase = "open" /\ UNCHANGED daemonVars
        /\ result = "NameConflict"
    BY <1>0, <1>5 DEF RenameFails, Called
  <2>2. SetInv' /\ owner' = "client"
    BY <1>0, <2>1, SetRegisterFails
  <2>3. request = "registered"
    BY <2>1 DEF DaemonInv, DaemonTypeOK, RequestGone
  <2>. QED
    BY <2>1, <2>2, <2>3 DEF daemonVars, DaemonInv, DaemonTypeOK, HeldWhileNeeded,
                            ListsInStep, RequestGone, Final
<1>6. CASE ConflictFrees
  <2>1. CallbackReturns /\ owner = "client" /\ result = "NameConflict"
    BY <1>0, <1>6 DEF ConflictFrees, Called, Final
  <2>2. SetInv' /\ result' = "None" /\ UNCHANGED <<ResourceRecords, owner, Extras>>
    BY <1>0, <2>1, SetReturns
  <2>3. service' = "freed" /\ entries' = {} /\ fault' = TRUE
        /\ UNCHANGED <<request, renames, allocated>>
    BY <1>6 DEF ConflictFrees
  <2>. QED
    BY <2>1, <2>2, <2>3 DEF DaemonInv, DaemonTypeOK, HeldWhileNeeded, ListsInStep,
                            RequestGone, Final
<1>. QED  BY <1>1, <1>2, <1>3, <1>4, <1>5, <1>6 DEF Handler

LEMMA ServedDaemon ==
  ASSUME Subtype = {}, DaemonInv, Served(Engine) \/ Served(BeginClose) \/ Served(CloseStep)
  PROVE  DaemonInv'
<1>1. (Engine \/ BeginClose \/ CloseStep) /\ UNCHANGED daemonVars /\ request # "aborting"
  BY DEF Served
<1>2. SetInv' /\ Quiet
  BY <1>1, SetEngine DEF DaemonInv
<1>3. owner' \in {"client", "engine"}
  BY <1>2 DEF SetInv, ServiceInv, TypeOK
<1>4. DaemonTypeOK'
  BY <1>1 DEF daemonVars, DaemonInv, DaemonTypeOK
<1>5. HeldWhileNeeded' /\ ListsInStep'
  BY <1>1, <1>2 DEF daemonVars, DaemonInv, HeldWhileNeeded, ListsInStep, Quiet, Final
<1>6. RequestGone'
  BY <1>1, <1>2, <1>3 DEF daemonVars, DaemonInv, RequestGone, Quiet
<1>. QED  BY <1>2, <1>4, <1>5, <1>6 DEF DaemonInv

LEMMA DaemonInvNext ==
  ASSUME Subtype = {}, DaemonInv, [DaemonNext]_allVars
  PROVE  DaemonInv'
<1>1. CASE HandleRegister  BY <1>1, RegisterDaemon
<1>2. CASE HandleRegisterFails  BY <1>2, RegisterFailsDaemon
<1>3. CASE \E e \in Extra : HandleAdd(e) \/ HandleRemove(e)
  BY <1>3, AddDaemon, RemoveDaemon
<1>4. CASE ClientGone
  BY <1>4, AbortDaemon DEF ClientGone, AtRest
<1>5. CASE Handler  BY <1>5, HandlerDaemon
<1>6. CASE FinishAbort  BY <1>6, FinishDaemon
<1>7. CASE Served(Engine) \/ Served(BeginClose) \/ Served(CloseStep)
  BY <1>7, ServedDaemon
<1>8. CASE UNCHANGED allVars
  <2>1. UNCHANGED vars /\ UNCHANGED daemonVars
    BY <1>8 DEF allVars
  <2>2. SetInv'
    BY <2>1, StutterInv DEF DaemonInv, SetInv, LonePTR, CallbackPhases, vars
  <2>. QED
    BY <2>1, <2>2 DEF vars, daemonVars, DaemonInv, DaemonTypeOK, HeldWhileNeeded,
                      ListsInStep, RequestGone
<1>. QED
  BY <1>1, <1>2, <1>3, <1>4, <1>5, <1>6, <1>7, <1>8 DEF DaemonNext, Request

LEMMA DaemonInvAlways ==
  ASSUME Subtype = {}
  PROVE  DaemonSpec => []DaemonInv
<1>1. DaemonInv /\ [DaemonNext]_allVars => DaemonInv'
  BY DaemonInvNext
<1>. QED  BY <1>1, DaemonInvInit, PTL DEF DaemonSpec

--------------------------------------------------------------------------------
(* Theorems *)

\* No callback, abort or request frees what the engine still has in its lists
THEOREM ServiceMemoryStands ==
  ASSUME Subtype = {}
  PROVE  DaemonSpec => []MemoryStands
<1>1. DaemonInv => MemoryStands
  <2>. SUFFICES ASSUME DaemonInv PROVE MemoryStands
    OBVIOUS
  <2>1. ServiceInv /\ TypeOK
    BY DEF DaemonInv, SetInv, ServiceInv
  <2>2. ResourceRecords \ (Extra \union LeftByClose) # {} => service = "live"
    BY <2>1 DEF ServiceInv, ReleasedWhenGone, TypeOK, DaemonInv, HeldWhileNeeded
  <2>3. CASE phase = "open"
    <3>1. CASE "SRV" \in ResourceRecords
      <4>1. owner = "engine"
        BY <2>3, <3>1, SRVOwned DEF DaemonInv
      <4>2. ResourceRecords \intersect Extra = entries
        BY <2>1, <2>3, <3>1, <4>1
        DEF ServiceInv, ExtrasFollow, DaemonInv, HeldWhileNeeded, ListsInStep
      <4>. QED  BY <2>2, <4>2 DEF MemoryStands, DaemonInv, DaemonTypeOK
    <3>2. CASE "SRV" \notin ResourceRecords
      BY <2>1, <2>2, <2>3, <3>2 DEF ServiceInv, ExtrasFollow, MemoryStands
    <3>. QED  BY <3>1, <3>2
  <2>4. CASE phase = "closing"
    BY <2>2, <2>4 DEF MemoryStands
  <2>5. CASE phase \in {"draining", "closed"}
    <3>1. ResourceRecords \intersect Extra = {}
      BY <2>1, <2>5, PartFacts DEF ServiceInv, PassedIsRetracted
    <3>. QED  BY <2>2, <3>1 DEF MemoryStands
  <2>. QED  BY <2>1, <2>3, <2>4, <2>5 DEF TypeOK
<1>. QED  BY <1>1, DaemonInvAlways, PTL

\* No name is probed for or held for a client that is gone
THEOREM DeadHoldNoService ==
  ASSUME Subtype = {}
  PROVE  DaemonSpec => []NoServiceOfTheDead
<1>1. DaemonInv => NoServiceOfTheDead
  BY DEF DaemonInv, SetInv, ServiceInv, TypeOK, Final, RequestGone, NoServiceOfTheDead
<1>. QED  BY <1>1, DaemonInvAlways, PTL

\* The daemon's list of the extra records is the engine's
THEOREM ExtrasAgree ==
  ASSUME Subtype = {}
  PROVE  DaemonSpec => []ExtrasInStep
<1>1. DaemonInv => ExtrasInStep
  BY DEF DaemonInv, ListsInStep, ExtrasInStep
<1>. QED  BY <1>1, DaemonInvAlways, PTL
===============================================================================
