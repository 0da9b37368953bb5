------------------------------ MODULE MDNSService ------------------------------
(***************************************************************************)
(* A ServiceRecordSet of one mDNS engine (mDNS.c): the records that make   *)
(* up an advertised service, registered and deregistered together, and the *)
(* callback that gives the set back to its client only when the last of    *)
(* them is gone.                                                           *)
(*                                                                         *)
(* The engine treats each record as MDNSRecords does; of that life only    *)
(* what the set depends on is kept here: which records are in a list,      *)
(* their types and whether they have been announced.  Another set may      *)
(* hold the same record: the engine keeps one of the two in                *)
(* DuplicateRecords and hands over to it instead of saying goodbye.  Which *)
(* records may have such a twin is a constant; whether they have one at a  *)
(* time, and which of the two waits, is left open.                         *)
(***************************************************************************)
EXTENDS Integers

CONSTANTS
  Subtype,   \* the AuthRecords of sr->SubTypes
  Extra,     \* the ExtraResourceRecords a client may add
  Twin       \* the records that another set may hold too

Main   == {"SRV", "TXT", "ADV", "PTR"} \union Subtype
Part   == Main \union Extra
Shared == {"PTR"} \union Subtype

ASSUME PartAssumption ==
  /\ Subtype \intersect Extra = {}
  /\ (Subtype \union Extra) \intersect {"SRV", "TXT", "ADV", "PTR"} = {}

\* Of two sets with the same SRV, TXT or extra record one would not be probed for:
\* that is left out
ASSUME TwinAssumption == Twin \subseteq {"ADV"} \union Shared

VARIABLES
  RecordType,       \* of every record of the set
  ResourceRecords,  \* those in ResourceRecords or DuplicateRecords
  announced,        \* those whose AnnounceCount is below InitialAnnounceCount
  Acknowledged,     \* of the SRV record: its client has been given NoError
  Conflict,         \* sr->Conflict
  Extras,           \* sr->Extras
  result,           \* what sr->ServiceCallback is being called with, or "None"
  CurrentRecord,    \* what the walk of mDNS_Close has still to visit
  phase,            \* "open", "closing" (that walk), "draining" or "closed"
  owner,            \* history: who may use the set's memory
  lost              \* history: the name was lost since it was registered

vars == <<RecordType, ResourceRecords, announced, Acknowledged, Conflict,
          Extras, result, CurrentRecord, phase, owner, lost>>

Kind == [p \in Part |-> IF p \in Shared THEN "Shared"
                        ELSE IF p = "ADV" THEN "Advisory" ELSE "Unique"]

\* TXT and the extra records depend on SRV to find conflicts for them
RegisteredType == [p \in Part |-> IF Kind[p] = "Unique" /\ p # "SRV"
                                  THEN "Verified" ELSE Kind[p]]

Final == {"MemFree", "NameConflict"}

TypeOK ==
  /\ RecordType \in [Part -> {"Unregistered", "Unique", "Verified", "Shared",
                              "Advisory", "Deregistering"}]
  /\ ResourceRecords \subseteq Part
  /\ announced \subseteq Shared
  /\ Acknowledged \in BOOLEAN
  /\ Conflict \in BOOLEAN
  /\ Extras \subseteq Extra
  /\ result \in {"None", "NoError"} \union Final
  /\ CurrentRecord \subseteq ResourceRecords
  /\ phase \in {"open", "closing", "draining", "closed"}
  /\ owner \in {"client", "engine"}
  /\ lost \in BOOLEAN

Init ==
  /\ RecordType = [p \in Part |-> "Unregistered"]
  /\ ResourceRecords = {}
  /\ announced = {}
  /\ Acknowledged = FALSE
  /\ Conflict = FALSE
  /\ Extras = {}
  /\ result = "None"
  /\ CurrentRecord = {}
  /\ phase = "open"
  /\ owner = "client"
  /\ lost = FALSE

--------------------------------------------------------------------------------
(* mDNS_RegisterService and mDNS_RenameAndReregisterService *)

ClientMayCall == phase = "open"

\* Slip: the flag of an earlier conflict stays up
SetUpKeepingConflict ==
  /\ announced' = {}
  /\ Acknowledged' = FALSE
  /\ lost' = FALSE
  /\ UNCHANGED Conflict

SetUp ==
  /\ announced' = {}
  /\ Acknowledged' = FALSE
  /\ Conflict' = FALSE
  /\ lost' = FALSE

\* Every record is registered; extras: those of an earlier registration that
\* mDNS_RenameAndReregisterService adds again
RegisterRecords(extras) ==
  /\ owner = "client"
  /\ SetUp
  /\ RecordType' = [p \in Part |-> IF p \in Main \union extras
                                   THEN RegisteredType[p] ELSE RecordType[p]]
  /\ ResourceRecords' = ResourceRecords \union Main \union extras
  /\ Extras' = extras
  /\ owner' = "engine"
  /\ UNCHANGED <<CurrentRecord, phase>>

\* The data of SRV or of TXT is invalid, or its interface unknown: the records
\* registered before it are deregistered again, never having been announced
RegisterFails ==
  /\ owner = "client"
  /\ SetUp
  /\ \E bad \in {"SRV", "TXT"} :
       RecordType' = [p \in Part |->
         IF p \in Extra THEN RecordType[p]
         ELSE IF p = "SRV" /\ bad = "TXT" THEN "Unregistered"
         ELSE IF p = "TXT" /\ bad = "TXT" THEN "Verified"
         ELSE Kind[p]]
  /\ Extras' = {}
  /\ UNCHANGED <<ResourceRecords, CurrentRecord, phase, owner>>

RegisterService ==
  /\ ClientMayCall
  /\ RegisterRecords({})
  /\ UNCHANGED result

RenameAndReregisterService ==
  /\ ClientMayCall
  /\ RegisterRecords(Extras)
  /\ UNCHANGED result

RegisterServiceFails ==
  /\ ClientMayCall
  /\ RegisterFails
  /\ UNCHANGED result

--------------------------------------------------------------------------------
(* Deregistering records, and ServiceCallback *)

\* Slip: the callback looks at the PTR record alone
AllDoneByPTR(types) == types["PTR"] = "Unregistered"

\* Slip: every freed record is passed on
AllDoneEach(types) == TRUE

\* ServiceCallback, after a MemFree: no shared record is still being retracted
AllDone(types) == \A p \in Shared : types[p] = "Unregistered"

\* The final callback, if freed records make for one
Report(freed, types, conflict) ==
  IF freed \intersect Shared # {} /\ AllDone(types)
  THEN /\ result' = IF conflict THEN "NameConflict" ELSE "MemFree"
       /\ owner' = "client"
  ELSE UNCHANGED <<result, owner>>

\* Slip: a walk keeps its pointer to the record
RemoveWithoutBump(parts, goodbyes, conflict) ==
  LET freed == (parts \intersect ResourceRecords) \ goodbyes
      types == [p \in Part |-> IF p \in freed THEN "Unregistered"
                               ELSE IF p \in goodbyes THEN "Deregistering"
                               ELSE RecordType[p]]
  IN /\ RecordType' = types
     /\ ResourceRecords' = ResourceRecords \ freed
     /\ CurrentRecord' = CurrentRecord
     /\ Report(freed, types, conflict)

\* The records of parts leave, except those of goodbyes, which are retracted
\* first.  A record without a listed place is left as it is
Remove(parts, goodbyes, conflict) ==
  LET freed == (parts \intersect ResourceRecords) \ goodbyes
      types == [p \in Part |-> IF p \in freed THEN "Unregistered"
                               ELSE IF p \in goodbyes THEN "Deregistering"
                               ELSE RecordType[p]]
  IN /\ RecordType' = types
     /\ ResourceRecords' = ResourceRecords \ freed
     /\ CurrentRecord' = CurrentRecord \ parts
     /\ Report(freed, types, conflict)

\* The shared records that need a goodbye, if no twin takes over.  A conflict
\* sets the PTR record's AnnounceCount so that it needs none
Announced(conflict) ==
  {p \in ResourceRecords \intersect announced :
     RecordType[p] = "Shared" /\ (conflict => p # "PTR")}

\* Those that get it
SpokenFor(conflict) ==
  {goodbyes \in SUBSET Announced(conflict) : Announced(conflict) \ Twin \subseteq goodbyes}

\* mDNS_DeregisterService goes on only if this holds; otherwise it returns
\* BadReferenceErr (PTR "Unregistered") or NoError ("Deregistering")
Registered == RecordType["PTR"] \notin {"Unregistered", "Deregistering"}

\* What it returns
DeregisterStatus ==
  IF RecordType["PTR"] = "Deregistering" \/ (Registered /\ "PTR" \in ResourceRecords)
  THEN "NoError" ELSE "BadReferenceErr"

\* Slip: the subtypes are forgotten
DeregisterMain ==
  \E goodbyes \in SpokenFor(FALSE) :
    Remove((Main \ Subtype) \union Extras, goodbyes \ Subtype, Conflict)

\* Slip: the extra records are left to the client
DeregisterOwn ==
  \E goodbyes \in SpokenFor(FALSE) : Remove(Main, goodbyes, Conflict)

DeregisterRecords ==
  \E goodbyes \in SpokenFor(FALSE) :
    Remove(Main \union Extras, goodbyes, Conflict)

DeregisterService ==
  /\ ClientMayCall
  /\ Registered
  /\ DeregisterRecords
  /\ UNCHANGED <<announced, Acknowledged, Conflict, Extras, phase, lost>>

\* The SRV record loses a conflict and goes; ServiceCallback deregisters the rest
NameConflict ==
  /\ phase = "open"
  /\ result = "None"
  /\ "SRV" \in ResourceRecords
  /\ Conflict' = TRUE
  /\ lost' = TRUE
  /\ \E goodbyes \in SpokenFor(TRUE) :
       Remove(Main \union Extras, goodbyes, TRUE)
  /\ announced' = announced \ {"PTR"}
  /\ UNCHANGED <<Acknowledged, Extras, phase>>

--------------------------------------------------------------------------------
(* mDNS_AddRecordToService and mDNS_RemoveRecordFromService *)

\* A client adds a record that is not in use to a service it has registered.
\* The record depends on SRV: once that is gone the call fails
AddRecord(e) ==
  /\ ClientMayCall
  /\ owner = "engine"
  /\ e \notin Extras \union ResourceRecords
  /\ RecordType["SRV"] \in {"Unique", "Verified"}
  /\ RecordType' = [RecordType EXCEPT ![e] = "Verified"]
  /\ ResourceRecords' = ResourceRecords \union {e}
  /\ Extras' = Extras \union {e}
  /\ UNCHANGED <<announced, Acknowledged, Conflict, result, CurrentRecord, phase,
                 owner, lost>>

\* BadReferenceErr if it has already left the engine's list; it leaves
\* sr->Extras in any case
RemoveRecord(e) ==
  /\ ClientMayCall
  /\ owner = "engine"
  /\ e \in Extras
  /\ Extras' = Extras \ {e}
  /\ Remove({e}, {}, Conflict)
  /\ UNCHANGED <<announced, Acknowledged, Conflict, phase, lost>>

--------------------------------------------------------------------------------
(* What the engine does of its own accord *)

\* SRV has been probed for: its client is told, once
CompleteProbing ==
  /\ phase = "open"
  /\ result = "None"
  /\ "SRV" \in ResourceRecords
  /\ RecordType["SRV"] = "Unique"
  /\ RecordType' = [RecordType EXCEPT !["SRV"] = "Verified"]
  /\ Acknowledged' = TRUE
  /\ result' = IF Acknowledged THEN "None" ELSE "NoError"
  /\ UNCHANGED <<ResourceRecords, announced, Conflict, Extras, CurrentRecord,
                 phase, owner, lost>>

\* A record with SRV's name and other data is seen, or an interface comes up:
\* probe again
Reprobe ==
  /\ phase = "open"
  /\ result = "None"
  /\ "SRV" \in ResourceRecords
  /\ RecordType["SRV"] = "Verified"
  /\ RecordType' = [RecordType EXCEPT !["SRV"] = "Unique"]
  /\ UNCHANGED <<ResourceRecords, announced, Acknowledged, Conflict, Extras,
                 result, CurrentRecord, phase, owner, lost>>

\* Shared records are announced once SRV and TXT, which go along, are verified
Announce(p) ==
  /\ phase = "open"
  /\ result = "None"
  /\ p \in (Shared \intersect ResourceRecords) \ announced
  /\ RecordType[p] = "Shared"
  /\ RecordType["SRV"] = "Verified"
  /\ RecordType["TXT"] = "Verified"
  /\ announced' = announced \union {p}
  /\ UNCHANGED <<RecordType, ResourceRecords, Acknowledged, Conflict, Extras,
                 result, CurrentRecord, phase, owner, lost>>

\* Slip: mDNS_Close does not send the last responses
CompleteDeregistrationOpen(p) ==
  /\ phase = "open"
  /\ result = "None"
  /\ p \in ResourceRecords
  /\ RecordType[p] = "Deregistering"
  /\ Remove({p}, {}, Conflict)
  /\ UNCHANGED <<announced, Acknowledged, Conflict, Extras, phase, lost>>

\* SendResponses has sent the goodbye: CompleteDeregistration
CompleteDeregistration(p) ==
  /\ phase \in {"open", "draining"}
  /\ result = "None"
  /\ p \in ResourceRecords
  /\ RecordType[p] = "Deregistering"
  /\ Remove({p}, {}, Conflict)
  /\ UNCHANGED <<announced, Acknowledged, Conflict, Extras, phase, lost>>

CallbackReturns ==
  /\ result # "None"
  /\ result' = "None"
  /\ UNCHANGED <<RecordType, ResourceRecords, announced, Acknowledged, Conflict,
                 Extras, CurrentRecord, phase, owner, lost>>
--------------------------------------------------------------------------------
(* mDNS_Close, with the records of this set in ResourceRecords in the order in *)
(* which they were registered.  Clients do not register anew in their callbacks *)

Rank == [p \in Part |-> IF p = "SRV" THEN 1
                        ELSE IF p = "TXT" THEN 2
                        ELSE IF p = "ADV" THEN 3
                        ELSE IF p \in Subtype THEN 4
                        ELSE IF p = "PTR" THEN 5
                        ELSE 6]

\* The records that may be in DuplicateRecords: those a twin speaks for
MayWait ==
  {p \in (Twin \intersect ResourceRecords) \ announced : RecordType[p] # "Deregistering"}

\* The walk is over ResourceRecords.  Where a record of the set waits behind its
\* twin, the walk hands over to it, splicing it in behind the next record it has
\* already saved: it does not come to it
BeginClose ==
  /\ phase = "open"
  /\ result = "None"
  /\ phase' = "closing"
  /\ \E waiting \in SUBSET MayWait : CurrentRecord' = ResourceRecords \ waiting
  /\ UNCHANGED <<RecordType, ResourceRecords, announced, Acknowledged, Conflict,
                 Extras, result, owner, lost>>

CloseRecord(p) ==
  /\ phase = "closing"
  /\ result = "None"
  /\ p \in CurrentRecord
  /\ \A q \in CurrentRecord : Rank[p] <= Rank[q]
  /\ IF RecordType[p] = "Deregistering" THEN Remove({p}, {p}, Conflict)
     ELSE \E goodbyes \in SpokenFor(FALSE) : Remove({p}, goodbyes \intersect {p}, Conflict)
  /\ UNCHANGED <<announced, Acknowledged, Conflict, Extras, phase, lost>>

EndCloseWalk ==
  /\ phase = "closing"
  /\ result = "None"
  /\ CurrentRecord = {}
  /\ phase' = "draining"
  /\ UNCHANGED <<RecordType, ResourceRecords, announced, Acknowledged, Conflict,
                 Extras, result, CurrentRecord, owner, lost>>

EndClose ==
  /\ phase = "draining"
  /\ result = "None"
  /\ ResourceRecords = {}
  /\ phase' = "closed"
  /\ UNCHANGED <<RecordType, ResourceRecords, announced, Acknowledged, Conflict,
                 Extras, result, CurrentRecord, owner, lost>>

--------------------------------------------------------------------------------
ClientCall ==
  \/ RegisterService
  \/ RegisterServiceFails
  \/ RenameAndReregisterService
  \/ DeregisterService
  \/ \E e \in Extra : AddRecord(e) \/ RemoveRecord(e)

Engine ==
  \/ NameConflict
  \/ CompleteProbing
  \/ Reprobe
  \/ \E p \in Shared : Announce(p) \/ CompleteDeregistration(p)

CloseStep ==
  \/ \E p \in Part : CloseRecord(p)
  \/ EndCloseWalk
  \/ EndClose

Next ==
  \/ ClientCall
  \/ Engine
  \/ CallbackReturns
  \/ BeginClose
  \/ CloseStep

\* Responses are sent whenever a goodbye waits for it, callbacks return, and
\* mDNS_Close goes on once it has begun
Fairness ==
  /\ WF_vars(CallbackReturns)
  /\ WF_vars(CloseStep)
  /\ \A p \in Shared : WF_vars(CompleteDeregistration(p))

Spec == Init /\ [][Next]_vars

FairSpec == Spec /\ Fairness

--------------------------------------------------------------------------------
(* What must hold *)

\* What mDNS_Close may leave listed when it gives the set back: the extra records,
\* to which it comes last, after the PTR, and for good a record it does not come to
LeftByClose ==
  IF phase = "open" THEN {}
  ELSE (Twin \intersect {"ADV"}) \union (IF phase = "closing" THEN Extra ELSE {})

\* "make sure we've deregistered all our records and done any other necessary
\* cleanup before that happens": when the client may free the set, no list has
\* a record of it, but for what mDNS_Close leaves
ReleasedWhenGone == owner = "client" => ResourceRecords \subseteq LeftByClose

\* The set is given back once: a client that has freed it is not called again
ReleasedOnce ==
  [][result = "None" /\ result' \in Final => owner = "engine"]_vars

\* A client is told of a conflict if it lost its name in this registration, and
\* only then, however many conflicts and renames went before
ToldTheReason ==
  [][result = "None" /\ result' \in Final => (result' = "NameConflict" <=> lost')]_vars

\* The extra records follow the service through conflicts, renames and removals:
\* none is left behind in the engine, none is forgotten by it
ExtrasFollow ==
  phase = "open" =>
    ResourceRecords \intersect Extra = (IF "SRV" \in ResourceRecords THEN Extras ELSE {})

\* A shared record waited for its twin when mDNS_Close walked past, and is left
PassedOver ==
  phase = "draining" /\ \E p \in Shared \intersect ResourceRecords : RecordType[p] = "Shared"

\* Once its SRV record has gone, for whatever reason, the set comes back to its
\* client: no goodbye that is waited for and no conflict leaves it in between,
\* only a record that mDNS_Close has passed over
ReleaseComes ==
  owner = "engine" /\ "SRV" \notin ResourceRecords ~> owner = "client" \/ PassedOver
================================================================================
