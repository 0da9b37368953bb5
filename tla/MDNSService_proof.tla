--------------------------- MODULE MDNSService_proof ---------------------------
(***************************************************************************)
(* Theorems about MDNSService, for every set of subtypes, of extra records *)
(* and of records that another set may hold too.                           *)
(***************************************************************************)
EXTENDS MDNSService, TLAPS

LEMMA PartFacts ==
  /\ Shared \subseteq Part /\ Main \subseteq Part /\ Extra \subseteq Part
  /\ Shared \intersect Extra = {} /\ Main \intersect Extra = {}
  /\ Shared \subseteq Main /\ Main = {"SRV", "TXT", "ADV"} \union Shared
  /\ {"SRV", "TXT", "ADV"} \intersect Shared = {}
  /\ Twin \subseteq {"ADV"} \union Shared
BY PartAssumption, TwinAssumption DEF Part, Main, Shared

LEMMA KindFacts ==
  ASSUME NEW p \in Part
  PROVE  /\ Kind[p] \in {"Shared", "Advisory", "Unique"}
         /\ RegisteredType[p] \in {"Shared", "Advisory", "Unique", "Verified"}
BY DEF Kind, RegisteredType

--------------------------------------------------------------------------------
(* The invariant *)

\* A listed record is registered, and only shared records are retracted
TypesFit ==
  /\ \A p \in ResourceRecords : RecordType[p] # "Unregistered"
  /\ \A p \in Part : RecordType[p] = "Deregistering" => p \in Shared

\* While the set has its SRV record nothing is retracted; afterwards nothing but
\* shared records that are retracted is left
GoneWithSRV ==
  phase = "open" =>
    /\ "SRV" \in ResourceRecords =>
         \A p \in ResourceRecords : RecordType[p] # "Deregistering"
    /\ "SRV" \notin ResourceRecords =>
         \A p \in ResourceRecords : p \in Shared /\ RecordType[p] = "Deregistering"

\* What the walk of mDNS_Close has passed is gone or retracted, unless it has a twin
PassedIsRetracted ==
  /\ phase # "open" =>
       \A p \in ResourceRecords \ CurrentRecord :
         p \in Twin \/ (p \in Shared /\ RecordType[p] = "Deregistering")
  /\ phase # "closing" => CurrentRecord = {}

\* While the set is the engine's, its SRV record has a type only if it is listed
SRVListed ==
  owner = "engine" /\ "SRV" \notin ResourceRecords => RecordType["SRV"] = "Unregistered"

\* sr->Conflict tells of this registration
ConflictIsLoss == Conflict = lost

ServiceInv ==
  /\ TypeOK
  /\ TypesFit
  /\ GoneWithSRV
  /\ PassedIsRetracted
  /\ SRVListed
  /\ ConflictIsLoss
  /\ ReleasedWhenGone
  /\ ExtrasFollow

LEMMA InvInit == Init => ServiceInv
BY DEF Init, ServiceInv, TypeOK, TypesFit, GoneWithSRV, PassedIsRetracted,
       SRVListed, ConflictIsLoss, ReleasedWhenGone, LeftByClose, ExtrasFollow

--------------------------------------------------------------------------------
(* Deregistering *)

\* What Remove does, with the report it makes
LEMMA RemoveFacts ==
  ASSUME TypeOK, TypesFit, NEW parts, NEW goodbyes \in SUBSET Shared,
         NEW conflict \in BOOLEAN, goodbyes \subseteq ResourceRecords,
         Remove(parts, goodbyes, conflict)
  PROVE  /\ RecordType' \in [Part -> {"Unregistered", "Unique", "Verified", "Shared",
                                      "Advisory", "Deregistering"}]
         /\ ResourceRecords' = ResourceRecords \ (parts \ goodbyes)
         /\ CurrentRecord' = CurrentRecord \ parts
         /\ \A p \in Part : RecordType'[p] =
              IF p \in goodbyes THEN "Deregistering"
              ELSE IF p \in parts \intersect ResourceRecords THEN "Unregistered" ELSE RecordType[p]
         /\ \/ UNCHANGED <<result, owner>>
            \/ /\ result' = IF conflict THEN "NameConflict" ELSE "MemFree"
               /\ owner' = "client"
               /\ (parts \intersect ResourceRecords) \intersect Shared # {}
               /\ Shared \intersect ResourceRecords' = {}
<1>. DEFINE freed == (parts \intersect ResourceRecords) \ goodbyes
            types == [p \in Part |-> IF p \in freed THEN "Unregistered"
                                     ELSE IF p \in goodbyes THEN "Deregistering"
                                     ELSE RecordType[p]]
<1>1. /\ RecordType' = types
      /\ ResourceRecords' = ResourceRecords \ freed
      /\ CurrentRecord' = CurrentRecord \ parts
      /\ Report(freed, types, conflict)
  BY DEF Remove
<1>2. RecordType' \in [Part -> {"Unregistered", "Unique", "Verified", "Shared",
                                "Advisory", "Deregistering"}]
  BY <1>1 DEF TypeOK
<1>3. \A p \in Part : RecordType'[p] =
        IF p \in goodbyes THEN "Deregistering"
        ELSE IF p \in parts \intersect ResourceRecords THEN "Unregistered" ELSE RecordType[p]
  BY <1>1 DEF TypeOK
<1>4. CASE freed \intersect Shared # {} /\ AllDone(types)
  <2>1. /\ result' = IF conflict THEN "NameConflict" ELSE "MemFree"
        /\ owner' = "client"
    BY <1>1, <1>4 DEF Report
  <2>2. \A p \in Shared : types[p] = "Unregistered"
    BY <1>4 DEF AllDone
  <2>3. Shared \intersect ResourceRecords' = {}
    BY <1>1, <2>2, PartFacts DEF TypesFit, TypeOK
  <2>. QED  BY <1>1, <1>2, <1>3, <1>4, <2>1, <2>3
<1>5. CASE ~(freed \intersect Shared # {} /\ AllDone(types))
  <2>1. UNCHANGED <<result, owner>>
    BY <1>1, <1>5 DEF Report
  <2>. QED  BY <1>1, <1>2, <1>3, <2>1
<1>. QED  BY <1>4, <1>5

\* When a freed record makes the report, the set was the engine's
LEMMA OwnedByEngine ==
  ASSUME ServiceInv, Shared \intersect ResourceRecords # {}
  PROVE  owner = "engine"
BY PartFacts DEF ServiceInv, TypeOK, ReleasedWhenGone, LeftByClose

LEMMA SpokenForFacts ==
  ASSUME TypeOK, NEW conflict \in BOOLEAN
  PROVE  \A goodbyes \in SpokenFor(conflict) :
           /\ goodbyes \in SUBSET Shared
           /\ goodbyes \subseteq ResourceRecords
           /\ \A p \in goodbyes : RecordType[p] = "Shared"
BY DEF SpokenFor, Announced, TypeOK

\* All records of the set leave, by DeregisterService and by NameConflict
LEMMA RemoveAll ==
  ASSUME ServiceInv, phase = "open", UNCHANGED <<phase, Extras>>,
         NEW conflict \in BOOLEAN, NEW final \in BOOLEAN,
         NEW goodbyes \in SpokenFor(final),
         Remove(Main \union Extras, goodbyes, conflict),
         announced' \subseteq announced, Acknowledged' = Acknowledged,
         Conflict' = conflict, lost' = conflict
  PROVE  ServiceInv'
<1>0. TypeOK /\ TypesFit
  BY DEF ServiceInv
<1>1. goodbyes \in SUBSET Shared /\ goodbyes \subseteq ResourceRecords
  BY <1>0, SpokenForFacts
<1>2. /\ RecordType' \in [Part -> {"Unregistered", "Unique", "Verified", "Shared",
                                   "Advisory", "Deregistering"}]
      /\ ResourceRecords' = ResourceRecords \ ((Main \union Extras) \ goodbyes)
      /\ CurrentRecord' = CurrentRecord \ (Main \union Extras)
      /\ \A p \in Part : RecordType'[p] =
           IF p \in goodbyes THEN "Deregistering"
           ELSE IF p \in (Main \union Extras) \intersect ResourceRecords
                THEN "Unregistered" ELSE RecordType[p]
      /\ \/ UNCHANGED <<result, owner>>
         \/ /\ result' = IF conflict THEN "NameConflict" ELSE "MemFree"
            /\ owner' = "client"
            /\ ((Main \union Extras) \intersect ResourceRecords) \intersect Shared # {}
            /\ Shared \intersect ResourceRecords' = {}
  BY <1>0, <1>1, RemoveFacts, ZenonT(30)
<1>. USE PartFacts DEF ServiceInv
<1>3. ResourceRecords \intersect Extra \subseteq Extras
  BY DEF ExtrasFollow
<1>4. ResourceRecords \subseteq Main \union Extras
  BY <1>3 DEF TypeOK, Part
<1>5. ResourceRecords' = goodbyes
  BY <1>1, <1>2, <1>4
<1>6. CurrentRecord' = {}
  BY <1>2 DEF PassedIsRetracted
<1>7. TypeOK'
  BY <1>1, <1>2, <1>5, <1>6 DEF TypeOK, Final
<1>8. TypesFit' /\ GoneWithSRV' /\ PassedIsRetracted'
  BY <1>1, <1>2, <1>5, <1>6 DEF TypesFit, GoneWithSRV, PassedIsRetracted
<1>9. ConflictIsLoss' /\ SRVListed'
  BY <1>1, <1>2, <1>5 DEF ConflictIsLoss, SRVListed, TypeOK, Main, Part
<1>10. ReleasedWhenGone'
  BY <1>1, <1>2, <1>5 DEF ReleasedWhenGone, LeftByClose
<1>11. ExtrasFollow'
  BY <1>1, <1>5 DEF ExtrasFollow
<1>. QED  BY <1>7, <1>8, <1>9, <1>10, <1>11
--------------------------------------------------------------------------------
(* One lemma for each action *)

LEMMA RegisterInv ==
  ASSUME ServiceInv, phase = "open", NEW extras \in SUBSET Extra,
         RegisterRecords(extras), result' \in {result, "None"}
  PROVE  ServiceInv'
<1>. USE PartFacts DEF ServiceInv, RegisterRecords, SetUp
<1>1. ResourceRecords = {}
  BY DEF ReleasedWhenGone, LeftByClose
<1>2. RecordType' \in [Part -> {"Unregistered", "Unique", "Verified", "Shared",
                                "Advisory", "Deregistering"}]
  BY KindFacts DEF TypeOK
<1>3. TypeOK'
  BY <1>1, <1>2 DEF TypeOK
<1>4. \A p \in ResourceRecords' : RecordType'[p] \notin {"Unregistered", "Deregistering"}
  BY <1>1, KindFacts DEF TypeOK
<1>5. "SRV" \in ResourceRecords' /\ ResourceRecords' \intersect Extra = Extras'
  BY <1>1
<1>6. TypesFit' /\ GoneWithSRV' /\ PassedIsRetracted' /\ SRVListed'
  BY <1>4, <1>5 DEF SRVListed, TypesFit, GoneWithSRV, PassedIsRetracted
<1>7. ConflictIsLoss' /\ ReleasedWhenGone' /\ ExtrasFollow'
  BY <1>5 DEF ConflictIsLoss, ReleasedWhenGone, LeftByClose, ExtrasFollow
<1>. QED  BY <1>3, <1>6, <1>7

LEMMA RegisterFailsInv ==
  ASSUME ServiceInv, phase = "open", RegisterFails, result' \in {result, "None"}
  PROVE  ServiceInv'
<1>. USE PartFacts DEF ServiceInv, RegisterFails, SetUp
<1>1. ResourceRecords = {} /\ ResourceRecords' = {}
  BY DEF ReleasedWhenGone, LeftByClose
<1>2. RecordType' \in [Part -> {"Unregistered", "Unique", "Verified", "Shared",
                                "Advisory", "Deregistering"}]
  BY KindFacts DEF TypeOK
<1>3. TypeOK'
  BY <1>1, <1>2 DEF TypeOK
<1>3a. \A p \in Part : RecordType'[p] = "Deregistering" => p \in Shared
  BY KindFacts DEF TypesFit, TypeOK
<1>4. TypesFit' /\ GoneWithSRV' /\ PassedIsRetracted' /\ SRVListed'
  BY <1>1, <1>3a DEF SRVListed, ReleasedWhenGone, LeftByClose, TypeOK, TypesFit, GoneWithSRV, PassedIsRetracted
<1>5. ConflictIsLoss' /\ ReleasedWhenGone' /\ ExtrasFollow'
  BY <1>1 DEF ConflictIsLoss, ReleasedWhenGone, LeftByClose, ExtrasFollow
<1>. QED  BY <1>3, <1>4, <1>5

LEMMA DeregisterInv ==
  ASSUME ServiceInv, DeregisterService
  PROVE  ServiceInv'
<1>1. /\ phase = "open"
      /\ UNCHANGED <<announced, Acknowledged, Conflict, Extras, phase, lost>>
  BY DEF DeregisterService, ClientMayCall
<1>2. PICK goodbyes \in SpokenFor(FALSE) :
        Remove(Main \union Extras, goodbyes, Conflict)
  BY DEF DeregisterService, DeregisterRecords
<1>3. Conflict \in BOOLEAN /\ Conflict = lost /\ TypeOK
  BY DEF ServiceInv, TypeOK, ConflictIsLoss
<1>. QED  BY <1>1, <1>2, <1>3, RemoveAll

LEMMA NameConflictInv ==
  ASSUME ServiceInv, NameConflict
  PROVE  ServiceInv'
<1>1. PICK goodbyes \in SpokenFor(TRUE) : Remove(Main \union Extras, goodbyes, TRUE)
  BY DEF NameConflict
<1>2. /\ phase = "open"
      /\ UNCHANGED <<Acknowledged, Extras, phase>>
      /\ announced' \subseteq announced
      /\ Conflict' = TRUE
      /\ lost' = TRUE
  BY DEF NameConflict
<1>. QED  BY <1>1, <1>2, RemoveAll
LEMMA AddRecordInv ==
  ASSUME ServiceInv, NEW e \in Extra, AddRecord(e)
  PROVE  ServiceInv'
<1>. USE PartFacts DEF ServiceInv, AddRecord, ClientMayCall
<1>1. "SRV" \in ResourceRecords
  BY DEF SRVListed
<1>2. TypeOK'
  BY DEF TypeOK
<1>3. TypesFit' /\ GoneWithSRV' /\ PassedIsRetracted' /\ SRVListed'
  BY <1>1 DEF TypeOK, TypesFit, GoneWithSRV, PassedIsRetracted, SRVListed
<1>4. ConflictIsLoss' /\ ReleasedWhenGone' /\ ExtrasFollow'
  BY <1>1 DEF ConflictIsLoss, ReleasedWhenGone, LeftByClose, ExtrasFollow
<1>. QED  BY <1>2, <1>3, <1>4

LEMMA RemoveRecordInv ==
  ASSUME ServiceInv, NEW e \in Extra, RemoveRecord(e)
  PROVE  ServiceInv'
<1>0. TypeOK /\ TypesFit /\ Conflict \in BOOLEAN /\ {} \in SUBSET Shared
      /\ {} \subseteq ResourceRecords /\ Remove({e}, {}, Conflict)
  BY DEF ServiceInv, TypeOK, RemoveRecord
<1>1. /\ RecordType' \in [Part -> {"Unregistered", "Unique", "Verified", "Shared",
                                   "Advisory", "Deregistering"}]
      /\ ResourceRecords' = ResourceRecords \ ({e} \ {})
      /\ CurrentRecord' = CurrentRecord \ {e}
      /\ \A p \in Part : RecordType'[p] =
           IF p \in {} THEN "Deregistering"
           ELSE IF p \in {e} \intersect ResourceRecords THEN "Unregistered" ELSE RecordType[p]
      /\ \/ UNCHANGED <<result, owner>>
         \/ /\ result' = IF Conflict THEN "NameConflict" ELSE "MemFree"
            /\ owner' = "client"
            /\ ({e} \intersect ResourceRecords) \intersect Shared # {}
            /\ Shared \intersect ResourceRecords' = {}
  BY <1>0, RemoveFacts, ZenonT(30)
<1>. USE PartFacts DEF ServiceInv, RemoveRecord, ClientMayCall
<1>2. UNCHANGED <<result, owner>>
  BY <1>1
<1>3. TypeOK'
  BY <1>1, <1>2 DEF TypeOK
<1>4. TypesFit' /\ GoneWithSRV' /\ PassedIsRetracted' /\ SRVListed'
  BY <1>1, <1>2, <1>3 DEF TypeOK, Main, TypesFit, GoneWithSRV, PassedIsRetracted, SRVListed
<1>5. ConflictIsLoss' /\ ReleasedWhenGone' /\ ExtrasFollow'
  BY <1>1, <1>2 DEF Main, ConflictIsLoss, ReleasedWhenGone, LeftByClose, ExtrasFollow
<1>. QED  BY <1>3, <1>4, <1>5

LEMMA CompleteDeregistrationInv ==
  ASSUME ServiceInv, NEW p \in Shared, CompleteDeregistration(p)
  PROVE  ServiceInv'
<1>0. TypeOK /\ TypesFit /\ Conflict \in BOOLEAN /\ {} \in SUBSET Shared
      /\ {} \subseteq ResourceRecords /\ Remove({p}, {}, Conflict)
  BY DEF ServiceInv, TypeOK, CompleteDeregistration
<1>1. /\ RecordType' \in [Part -> {"Unregistered", "Unique", "Verified", "Shared",
                                   "Advisory", "Deregistering"}]
      /\ ResourceRecords' = ResourceRecords \ ({p} \ {})
      /\ CurrentRecord' = CurrentRecord \ {p}
      /\ \A q \in Part : RecordType'[q] =
           IF q \in {} THEN "Deregistering"
           ELSE IF q \in {p} \intersect ResourceRecords THEN "Unregistered" ELSE RecordType[q]
      /\ \/ UNCHANGED <<result, owner>>
         \/ /\ result' = IF Conflict THEN "NameConflict" ELSE "MemFree"
            /\ owner' = "client"
            /\ ({p} \intersect ResourceRecords) \intersect Shared # {}
            /\ Shared \intersect ResourceRecords' = {}
  BY <1>0, RemoveFacts, ZenonT(30)
<1>. USE PartFacts DEF ServiceInv, CompleteDeregistration
<1>2. /\ "SRV" \notin ResourceRecords
      /\ ResourceRecords \subseteq Shared \union (Twin \intersect {"ADV"})
      /\ phase = "open" => ResourceRecords \subseteq Shared
  BY DEF GoneWithSRV, PassedIsRetracted
<1>3. TypeOK'
  BY <1>1 DEF TypeOK, Final
<1>4. TypesFit' /\ GoneWithSRV' /\ PassedIsRetracted' /\ SRVListed'
  <2>1. TypesFit' /\ SRVListed'
    BY <1>1, <1>2, <1>3 DEF TypeOK, Main, TypesFit, SRVListed
  <2>2. GoneWithSRV'
    BY <1>1, <1>2, <1>3 DEF TypeOK, Main, TypesFit, GoneWithSRV
  <2>3. PassedIsRetracted'
    BY <1>1, <1>2, <1>3 DEF TypeOK, Main, TypesFit, GoneWithSRV, PassedIsRetracted
  <2>. QED  BY <2>1, <2>2, <2>3
<1>5. ConflictIsLoss' /\ ReleasedWhenGone' /\ ExtrasFollow'
  BY <1>1, <1>2 DEF ConflictIsLoss, ReleasedWhenGone, LeftByClose, ExtrasFollow
<1>. QED  BY <1>3, <1>4, <1>5
\* Steps of the engine that take no record out of a list
LEMMA EngineInv ==
  ASSUME ServiceInv,
         \/ CompleteProbing
         \/ Reprobe
         \/ \E p \in Shared : Announce(p)
         \/ CallbackReturns
         \/ BeginClose
         \/ EndClose
  PROVE  ServiceInv'
<1>. USE PartFacts DEF ServiceInv
<1>1. CASE CompleteProbing \/ Reprobe
  <2>. USE <1>1 DEF CompleteProbing, Reprobe
  <2>1. TypeOK'  BY DEF TypeOK
  <2>2. TypesFit' /\ GoneWithSRV' /\ PassedIsRetracted' /\ SRVListed'
    <3>1. TypesFit' /\ SRVListed'
      BY DEF TypeOK, TypesFit, SRVListed
    <3>2. GoneWithSRV'
      BY DEF TypeOK, TypesFit, GoneWithSRV
    <3>3. PassedIsRetracted'
      BY DEF TypeOK, TypesFit, GoneWithSRV, PassedIsRetracted
    <3>. QED  BY <3>1, <3>2, <3>3
  <2>3. ConflictIsLoss' /\ ReleasedWhenGone' /\ ExtrasFollow'
    BY DEF ConflictIsLoss, ReleasedWhenGone, LeftByClose, ExtrasFollow
  <2>. QED  BY <2>1, <2>2, <2>3
<1>2. CASE (\E p \in Shared : Announce(p)) \/ CallbackReturns
  <2>. USE <1>2 DEF Announce, CallbackReturns
  <2>1. TypeOK'  BY DEF TypeOK
  <2>2. TypesFit' /\ GoneWithSRV' /\ PassedIsRetracted' /\ SRVListed'
    BY DEF TypesFit, GoneWithSRV, PassedIsRetracted, SRVListed
  <2>3. ConflictIsLoss' /\ ReleasedWhenGone' /\ ExtrasFollow'
    BY DEF ConflictIsLoss, ReleasedWhenGone, LeftByClose, ExtrasFollow
  <2>. QED  BY <2>1, <2>2, <2>3
<1>3. CASE BeginClose
  <2>. USE <1>3 DEF BeginClose
  <2>0. ResourceRecords' \ CurrentRecord' \subseteq Twin
    BY DEF MayWait
  <2>1. TypeOK'  BY DEF TypeOK
  <2>2. TypesFit' /\ GoneWithSRV' /\ PassedIsRetracted' /\ SRVListed'
    BY <2>0 DEF TypesFit, GoneWithSRV, PassedIsRetracted, SRVListed
  <2>3. ConflictIsLoss' /\ ReleasedWhenGone' /\ ExtrasFollow'
    BY DEF ConflictIsLoss, ReleasedWhenGone, LeftByClose, ExtrasFollow
  <2>. QED  BY <2>1, <2>2, <2>3
<1>4. CASE EndClose
  <2>. USE <1>4 DEF EndClose
  <2>1. TypeOK'  BY DEF TypeOK
  <2>2. TypesFit' /\ GoneWithSRV' /\ PassedIsRetracted' /\ SRVListed'
    BY DEF TypesFit, GoneWithSRV, PassedIsRetracted, SRVListed
  <2>3. ConflictIsLoss' /\ ReleasedWhenGone' /\ ExtrasFollow'
    BY DEF ConflictIsLoss, ReleasedWhenGone, LeftByClose, ExtrasFollow
  <2>. QED  BY <2>1, <2>2, <2>3
<1>. QED  BY <1>1, <1>2, <1>3, <1>4

\* The walk of mDNS_Close comes to a shared record after SRV, TXT and ADV
LEMMA CloseOrder ==
  ASSUME TypeOK, NEW p \in Shared, NEW q \in {"SRV", "TXT", "ADV"}
  PROVE  ~(Rank[p] <= Rank[q])
<1>1. p \in Part /\ q \in Part /\ p \notin {"SRV", "TXT", "ADV"}
  BY PartFacts DEF Part, Main
<1>2. Rank[p] \in {4, 5}
  BY <1>1 DEF Rank, Shared
<1>3. Rank[q] \in {1, 2, 3}
  BY <1>1 DEF Rank
<1>. QED  BY <1>2, <1>3

LEMMA CloseRecordInv ==
  ASSUME ServiceInv, NEW p \in Part, CloseRecord(p)
  PROVE  ServiceInv'
<1>0. TypeOK /\ TypesFit /\ Conflict \in BOOLEAN /\ p \in ResourceRecords
  BY DEF ServiceInv, TypeOK, CloseRecord
<1>1. PICK goodbyes \in SUBSET {p} :
        /\ goodbyes \subseteq Shared
        /\ RecordType[p] = "Deregistering" => goodbyes = {p}
        /\ Remove({p}, goodbyes, Conflict)
  <2>1. CASE RecordType[p] = "Deregistering"
    BY <1>0, <2>1 DEF TypesFit, CloseRecord
  <2>2. CASE RecordType[p] # "Deregistering"
    BY <1>0, <2>2, SpokenForFacts DEF CloseRecord
  <2>. QED  BY <2>1, <2>2
<1>2. goodbyes \in SUBSET Shared /\ goodbyes \subseteq ResourceRecords
      /\ Remove({p}, goodbyes, Conflict)
  BY <1>0, <1>1
<1>3. /\ RecordType' \in [Part -> {"Unregistered", "Unique", "Verified", "Shared",
                                   "Advisory", "Deregistering"}]
      /\ ResourceRecords' = ResourceRecords \ ({p} \ goodbyes)
      /\ CurrentRecord' = CurrentRecord \ {p}
      /\ \A q \in Part : RecordType'[q] =
           IF q \in goodbyes THEN "Deregistering"
           ELSE IF q \in {p} \intersect ResourceRecords THEN "Unregistered" ELSE RecordType[q]
      /\ \/ UNCHANGED <<result, owner>>
         \/ /\ result' = IF Conflict THEN "NameConflict" ELSE "MemFree"
            /\ owner' = "client"
            /\ ({p} \intersect ResourceRecords) \intersect Shared # {}
            /\ Shared \intersect ResourceRecords' = {}
  BY <1>0, <1>2, RemoveFacts, ZenonT(30)
<1>. USE PartFacts, <1>1 DEF ServiceInv
<1>4. /\ phase = "closing" /\ p \in CurrentRecord
      /\ \A q \in CurrentRecord : Rank[p] <= Rank[q]
      /\ UNCHANGED <<announced, Acknowledged, Conflict, Extras, phase, lost>>
  BY DEF CloseRecord
<1>5. TypeOK'
  BY <1>3, <1>4 DEF TypeOK, Final
<1>6. TypesFit' /\ GoneWithSRV' /\ PassedIsRetracted'
  BY <1>3, <1>4 DEF TypeOK, TypesFit, GoneWithSRV, PassedIsRetracted
<1>7. SRVListed'
  BY <1>3, <1>4 DEF TypeOK, SRVListed, Main, Part
<1>8. ConflictIsLoss' /\ ExtrasFollow'
  BY <1>3, <1>4 DEF ConflictIsLoss, ExtrasFollow
<1>9. ReleasedWhenGone'
  <2>1. CASE UNCHANGED <<result, owner>>
    BY <1>3, <1>4, <2>1 DEF ReleasedWhenGone, LeftByClose
  <2>2. CASE ~UNCHANGED <<result, owner>>
    <3>1. p \in Shared /\ Shared \intersect ResourceRecords' = {}
      BY <1>3, <2>2
    <3>2. \A q \in {"SRV", "TXT", "ADV"} : q \notin CurrentRecord
      BY <1>0, <1>4, <3>1, CloseOrder
    <3>3. \A q \in {"SRV", "TXT", "ADV"} : q \in ResourceRecords' => q \in Twin
      BY <1>3, <1>4, <3>2 DEF PassedIsRetracted
    <3>4. "SRV" \notin ResourceRecords' /\ "TXT" \notin ResourceRecords'
      BY <3>3
    <3>. QED  BY <1>4, <1>5, <3>1, <3>3, <3>4 DEF ReleasedWhenGone, LeftByClose, TypeOK, Part
  <2>. QED  BY <2>1, <2>2
<1>. QED  BY <1>5, <1>6, <1>7, <1>8, <1>9

LEMMA EndCloseWalkInv ==
  ASSUME ServiceInv, EndCloseWalk
  PROVE  ServiceInv'
<1>. USE PartFacts DEF ServiceInv, EndCloseWalk
<1>1. \A p \in ResourceRecords : p \in Twin \/ (p \in Shared /\ RecordType[p] = "Deregistering")
  BY DEF PassedIsRetracted
<1>2. TypeOK'  BY DEF TypeOK
<1>3. TypesFit' /\ GoneWithSRV' /\ PassedIsRetracted' /\ SRVListed'
  BY DEF TypesFit, GoneWithSRV, PassedIsRetracted, SRVListed
<1>4. ConflictIsLoss' /\ ReleasedWhenGone' /\ ExtrasFollow'
  BY <1>1 DEF ConflictIsLoss, ReleasedWhenGone, LeftByClose, ExtrasFollow
<1>. QED  BY <1>2, <1>3, <1>4

LEMMA StutterInv ==
  ASSUME ServiceInv, UNCHANGED vars
  PROVE  ServiceInv'
BY DEF vars, ServiceInv, TypeOK, TypesFit, GoneWithSRV, PassedIsRetracted, SRVListed,
       ConflictIsLoss, ReleasedWhenGone, LeftByClose, ExtrasFollow

LEMMA InvNext == ServiceInv /\ [Next]_vars => ServiceInv'
<1>. SUFFICES ASSUME ServiceInv, [Next]_vars PROVE ServiceInv'
  OBVIOUS
<1>1. CASE RegisterService
  <2>1. phase = "open" /\ {} \in SUBSET Extra /\ RegisterRecords({}) /\ result' = result
    BY <1>1 DEF RegisterService, ClientMayCall
  <2>. QED  BY <2>1, RegisterInv
<1>2. CASE RenameAndReregisterService
  <2>1. phase = "open" /\ Extras \in SUBSET Extra /\ RegisterRecords(Extras) /\ result' = result
    BY <1>2 DEF RenameAndReregisterService, ClientMayCall, ServiceInv, TypeOK
  <2>. QED  BY <2>1, RegisterInv
<1>3. CASE RegisterServiceFails
  BY <1>3, RegisterFailsInv DEF RegisterServiceFails, ClientMayCall
<1>4. CASE DeregisterService  BY <1>4, DeregisterInv
<1>5. CASE \E e \in Extra : AddRecord(e) \/ RemoveRecord(e)
  BY <1>5, AddRecordInv, RemoveRecordInv
<1>6. CASE NameConflict  BY <1>6, NameConflictInv
<1>7. CASE \E p \in Shared : CompleteDeregistration(p)
  BY <1>7, CompleteDeregistrationInv
<1>8. CASE \/ CompleteProbing
           \/ Reprobe
           \/ \E p \in Shared : Announce(p)
           \/ CallbackReturns
           \/ BeginClose
           \/ EndClose
  BY <1>8, EngineInv
<1>9. CASE \E p \in Part : CloseRecord(p)  BY <1>9, CloseRecordInv
<1>10. CASE EndCloseWalk  BY <1>10, EndCloseWalkInv
<1>11. CASE UNCHANGED vars  BY <1>11, StutterInv
<1>. QED
  BY <1>1, <1>2, <1>3, <1>4, <1>5, <1>6, <1>7, <1>8, <1>9, <1>10, <1>11
  DEF Next, ClientCall, Engine, CloseStep

LEMMA InvAlways == Spec => []ServiceInv
BY InvInit, InvNext, PTL DEF Spec

--------------------------------------------------------------------------------
(* Theorems *)

\* Every variable keeps its type
THEOREM ServiceTypes == Spec => []TypeOK
<1>1. ServiceInv => TypeOK  BY DEF ServiceInv
<1>. QED  BY <1>1, InvAlways, PTL

\* When the client may free the set, the engine has no pointer into it left,
\* except, in mDNS_Close, to extra records, which come last, and to an ADV record
\* that waits for its twin when the walk goes past
THEOREM SetReleasedWhenGone == Spec => []ReleasedWhenGone
<1>1. ServiceInv => ReleasedWhenGone  BY DEF ServiceInv
<1>. QED  BY <1>1, InvAlways, PTL

\* The records a client has added are listed exactly as long as the SRV record
THEOREM ExtrasFollowService == Spec => []ExtrasFollow
<1>1. ServiceInv => ExtrasFollow  BY DEF ServiceInv
<1>. QED  BY <1>1, InvAlways, PTL
\* A report of Remove comes while the set is the engine's, and gives the reason
LEMMA RemoveReports ==
  ASSUME ServiceInv, NEW parts, NEW goodbyes \in SUBSET Shared,
         goodbyes \subseteq ResourceRecords, NEW conflict \in BOOLEAN,
         Remove(parts, goodbyes, conflict), lost' = conflict,
         result = "None", result' \in Final
  PROVE  owner = "engine" /\ (result' = "NameConflict" <=> lost')
<1>. DEFINE freed == (parts \intersect ResourceRecords) \ goodbyes
            types == [p \in Part |-> IF p \in freed THEN "Unregistered"
                                     ELSE IF p \in goodbyes THEN "Deregistering"
                                     ELSE RecordType[p]]
<1>1. Report(freed, types, conflict)
  BY DEF Remove
<1>. HIDE DEF types
<1>2. result' # result
  BY DEF Final
<1>3. /\ result' = IF conflict THEN "NameConflict" ELSE "MemFree"
      /\ Shared \intersect ResourceRecords # {}
  BY <1>1, <1>2 DEF Report
<1>. QED  BY <1>3, OwnedByEngine

LEMMA NextReports ==
  ASSUME ServiceInv, [Next]_vars, result = "None", result' \in Final
  PROVE  owner = "engine" /\ (result' = "NameConflict" <=> lost')
<1>0. TypeOK /\ Conflict \in BOOLEAN /\ Conflict = lost /\ "None" \notin Final
      /\ "NoError" \notin Final /\ {} \in SUBSET Shared /\ {} \subseteq ResourceRecords
  BY DEF ServiceInv, TypeOK, ConflictIsLoss, Final
<1>1. CASE \/ RegisterService
           \/ RenameAndReregisterService
           \/ RegisterServiceFails
           \/ \E e \in Extra : AddRecord(e)
           \/ CompleteProbing
           \/ Reprobe
           \/ \E p \in Shared : Announce(p)
           \/ CallbackReturns
           \/ BeginClose
           \/ EndCloseWalk
           \/ EndClose
           \/ UNCHANGED vars
  BY <1>0, <1>1
  DEF RegisterService, RenameAndReregisterService, RegisterServiceFails, AddRecord,
      CompleteProbing, Reprobe, Announce, CallbackReturns, BeginClose, EndCloseWalk,
      EndClose, vars
<1>2. CASE DeregisterService
  <2>1. PICK goodbyes \in SpokenFor(FALSE) :
          Remove(Main \union Extras, goodbyes, Conflict)
    BY <1>2 DEF DeregisterService, DeregisterRecords
  <2>2. goodbyes \in SUBSET Shared /\ goodbyes \subseteq ResourceRecords
    BY <1>0, <2>1, SpokenForFacts
  <2>3. lost' = Conflict
    BY <1>0, <1>2 DEF DeregisterService
  <2>. QED  BY <1>0, <2>1, <2>2, <2>3, RemoveReports
<1>3. CASE NameConflict
  <2>1. PICK goodbyes \in SpokenFor(TRUE) :
          Remove(Main \union Extras, goodbyes, TRUE)
    BY <1>3 DEF NameConflict
  <2>2. goodbyes \in SUBSET Shared /\ goodbyes \subseteq ResourceRecords
    BY <1>0, <2>1, SpokenForFacts
  <2>3. lost' = TRUE
    BY <1>3 DEF NameConflict
  <2>. QED  BY <1>0, <2>1, <2>2, <2>3, RemoveReports
<1>4. ASSUME NEW e \in Extra, RemoveRecord(e)
      PROVE  owner = "engine" /\ (result' = "NameConflict" <=> lost')
  <2>1. Remove({e}, {}, Conflict) /\ lost' = Conflict
    BY <1>0, <1>4 DEF RemoveRecord
  <2>. QED  BY <1>0, <2>1, RemoveReports
<1>5. ASSUME NEW p \in Shared, CompleteDeregistration(p)
      PROVE  owner = "engine" /\ (result' = "NameConflict" <=> lost')
  <2>1. Remove({p}, {}, Conflict) /\ lost' = Conflict
    BY <1>0, <1>5 DEF CompleteDeregistration
  <2>. QED  BY <1>0, <2>1, RemoveReports
<1>6. ASSUME NEW p \in Part, CloseRecord(p)
      PROVE  owner = "engine" /\ (result' = "NameConflict" <=> lost')
  <2>1. PICK goodbyes \in SUBSET {p} :
          goodbyes \subseteq Shared /\ Remove({p}, goodbyes, Conflict)
    <3>1. CASE RecordType[p] = "Deregistering"
      <4>1. p \in Shared  BY <3>1 DEF ServiceInv, TypesFit
      <4>. QED  BY <1>6, <3>1, <4>1 DEF CloseRecord
    <3>2. CASE RecordType[p] # "Deregistering"
      BY <1>0, <1>6, <3>2, SpokenForFacts DEF CloseRecord
    <3>. QED  BY <3>1, <3>2
  <2>2. p \in ResourceRecords /\ lost' = Conflict
    BY <1>0, <1>6 DEF CloseRecord, TypeOK
  <2>. QED  BY <1>0, <2>1, <2>2, RemoveReports
<1>. QED
  BY <1>1, <1>2, <1>3, <1>4, <1>5, <1>6
  DEF Next, ClientCall, Engine, CloseStep

\* The set is given back to its client once
THEOREM SetReleasedOnce == Spec => ReleasedOnce
<1>1. ServiceInv /\ [Next]_vars
      => [result = "None" /\ result' \in Final => owner = "engine"]_vars
  BY NextReports
<1>. QED  BY <1>1, InvAlways, PTL DEF Spec, ReleasedOnce

\* The client is told of a conflict if and only if this registration lost its name
THEOREM ClientToldTheReason == Spec => ToldTheReason
<1>1. ServiceInv /\ [Next]_vars
      => [result = "None" /\ result' \in Final => (result' = "NameConflict" <=> lost')]_vars
  BY NextReports
<1>. QED  BY <1>1, InvAlways, PTL DEF Spec, ToldTheReason
===============================================================================
