-------------------------- MODULE MDNSRecords_proof --------------------------
(***************************************************************************)
(* Theorems about MDNSRecords, for every set of records, every assignment  *)
(* of kinds, data and dependences and all counts.                          *)
(***************************************************************************)
EXTENDS MDNSRecords, TLAPS

--------------------------------------------------------------------------------
(* Types *)

\* Probes sent and probes left never add up to more than a conflict asks for
ProbesBounded == \A r \in Record : probed[r] + ProbeCount[r] <= DefaultProbeCount + 1

TypeInv == TypeOK /\ ProbesBounded

LEMMA CountFacts ==
  /\ DefaultProbeCount \in Nat /\ DefaultProbeCount > 0
  /\ InitialAnnounceCount \in Nat /\ InitialAnnounceCount > 0
  /\ ReannounceCount \in Nat /\ ReannounceCount < InitialAnnounceCount
BY CountAssumption

LEMMA RegisteredTypes ==
  ASSUME NEW r \in Record
  PROVE  /\ RegisteredType(r) \in {"Unique", "Advisory", "Shared", "KnownUnique", "Verified"}
         /\ RegisteredType(r) = "Verified" <=> DependentOn[r] # NoRecord
         /\ DependentOn[r] = NoRecord => RegisteredType(r) = Kind[r]
         /\ Kind[r] = "Shared" => RegisteredType(r) = "Shared"
         /\ DefaultProbeCountForRecordType(RegisteredType(r)) \in 0 .. DefaultProbeCount
BY RecordAssumption, CountFacts DEF RegisteredType, Kinds, DefaultProbeCountForRecordType

\* Registering sets a record up with values of the right types
LEMMA SetUpTypes ==
  ASSUME TypeInv, NEW r \in Record, NEW n \in 0 .. DefaultProbeCount, SetUpRecord(r, n)
  PROVE  /\ RecordType' \in [Record -> RecordTypes]
         /\ Acknowledged' \in [Record -> BOOLEAN]
         /\ ProbeCount' \in [Record -> 0 .. DefaultProbeCount + 1]
         /\ AnnounceCount' \in [Record -> 0 .. InitialAnnounceCount]
         /\ ImmedAnswer' \in [Record -> {"Null", "Link", "All"}]
         /\ probed' \in [Record -> 0 .. DefaultProbeCount + 1]
         /\ ProbesBounded'
<1>. USE CountFacts DEF TypeInv, TypeOK, ProbesBounded, SetUpRecord
<1>1. RecordType' \in [Record -> RecordTypes]
  BY RegisteredTypes DEF RecordTypes, Kinds
<1>2. Acknowledged' \in [Record -> BOOLEAN]  OBVIOUS
<1>3. ProbeCount' \in [Record -> 0 .. DefaultProbeCount + 1]  OBVIOUS
<1>4. AnnounceCount' \in [Record -> 0 .. InitialAnnounceCount]  OBVIOUS
<1>5. ImmedAnswer' \in [Record -> {"Null", "Link", "All"}]  OBVIOUS
<1>6. probed' \in [Record -> 0 .. DefaultProbeCount + 1]  OBVIOUS
<1>7. ProbesBounded'  OBVIOUS
<1>. QED  BY <1>1, <1>2, <1>3, <1>4, <1>5, <1>6, <1>7

LEMMA CutTypes ==
  ASSUME TypeInv, NEW gone, Cut(gone), UNCHANGED <<SleepState, announced>>,
         mode' \in {"idle", "walk", "callback"}
  PROVE  TypeInv'
<1>. USE CountFacts DEF TypeInv, TypeOK, ProbesBounded, Cut
<1>1. RecordType' \in [Record -> RecordTypes]  BY DEF RecordTypes
<1>2. Acknowledged' \in [Record -> BOOLEAN]  OBVIOUS
<1>3. ProbeCount' \in [Record -> 0 .. DefaultProbeCount + 1]  OBVIOUS
<1>4. AnnounceCount' \in [Record -> 0 .. InitialAnnounceCount]  OBVIOUS
<1>5. ImmedAnswer' \in [Record -> {"Null", "Link", "All"}]  OBVIOUS
<1>6. probed' \in [Record -> 0 .. DefaultProbeCount + 1]  OBVIOUS
<1>7. ProbesBounded'  OBVIOUS
<1>. QED  BY <1>1, <1>2, <1>3, <1>4, <1>5, <1>6, <1>7

LEMMA TakeOverTypes ==
  ASSUME TypeInv, NEW r \in Record, NEW t \in RecordTypes,
         NEW n \in 0 .. InitialAnnounceCount, NEW dup \in DuplicateRecords,
         NEW walk \in SUBSET Record, TakeOver(r, t, n, dup, walk),
         UNCHANGED <<SleepState, announced>>, mode' \in {"idle", "walk", "callback"}
  PROVE  TypeInv'
<1>. USE CountFacts DEF TypeInv, TypeOK, ProbesBounded, TakeOver
<1>1. RecordType' \in [Record -> RecordTypes]  BY DEF RecordTypes
<1>2. Acknowledged' \in [Record -> BOOLEAN]  OBVIOUS
<1>3. ProbeCount' \in [Record -> 0 .. DefaultProbeCount + 1]  OBVIOUS
<1>4. AnnounceCount' \in [Record -> 0 .. InitialAnnounceCount]  OBVIOUS
<1>5. ImmedAnswer' \in [Record -> {"Null", "Link", "All"}]  OBVIOUS
<1>6. probed' \in [Record -> 0 .. DefaultProbeCount + 1]  OBVIOUS
<1>7. ProbesBounded'  OBVIOUS
<1>. QED  BY <1>1, <1>2, <1>3, <1>4, <1>5, <1>6, <1>7

\* Sending leaves counts, marks and the walk well typed
LEMMA SendTypes ==
  ASSUME TypeInv, NEW marks \in [Record -> {"Null", "Link", "All"}], NEW ttl0 \in BOOLEAN,
         SendWith(marks, ttl0)
  PROVE  /\ AnnounceCount' \in [Record -> 0 .. InitialAnnounceCount]
         /\ ImmedAnswer' \in [Record -> {"Null", "Link", "All"}]
         /\ announced' \subseteq Datas
         /\ CurrentRecord' \subseteq Record
         /\ mode' \in {"idle", "walk", "callback"}
<1>. USE CountFacts DEF TypeInv, TypeOK
<1>1. PICK due \in SUBSET Announceable :
        \E done \in SUBSET Announcing(MarkForSending(marks, due)) :
          \E last \in SUBSET done :
            /\ due \subseteq done
            /\ PutResponses(MarkForSending(marks, due), done, last, ttl0)
            /\ ClearMarks
            /\ StartWalk
  BY DEF SendWith
<1>. DEFINE imm == MarkForSending(marks, due)
<1>2. PICK done \in SUBSET Announcing(imm) :
        \E last \in SUBSET done :
          PutResponses(imm, done, last, ttl0) /\ ClearMarks /\ StartWalk
  BY <1>1
<1>2a. PICK last \in SUBSET done : PutResponses(imm, done, last, ttl0) /\ ClearMarks /\ StartWalk
  BY <1>2
<1>3. \A r \in done : r \in ResourceRecords /\ AnnounceCount[r] > 0
  BY <1>2 DEF Announcing
<1>. HIDE DEF imm
<1>4. AnnounceCount' \in [Record -> 0 .. InitialAnnounceCount]
  BY <1>2a, <1>3 DEF PutResponses
<1>5. ImmedAnswer' \in [Record -> {"Null", "Link", "All"}]
  BY <1>2a DEF ClearMarks
<1>6. announced' \subseteq Datas
  BY <1>2a, <1>3 DEF PutResponses, Datas
<1>7. CurrentRecord' \subseteq Record /\ mode' \in {"idle", "walk", "callback"}
  BY <1>2a DEF StartWalk
<1>. QED  BY <1>4, <1>5, <1>6, <1>7

LEMMA TypeInit == Init => TypeInv
<1>. SUFFICES ASSUME Init PROVE TypeInv
  OBVIOUS
<1>1. RecordType \in [Record -> RecordTypes]
  BY DEF Init, RecordTypes
<1>2. ProbeCount \in [Record -> 0 .. DefaultProbeCount + 1]
  BY CountFacts DEF Init
<1>3. AnnounceCount \in [Record -> 0 .. InitialAnnounceCount]
  BY CountFacts DEF Init
<1>4. probed \in [Record -> 0 .. DefaultProbeCount + 1]
  BY CountFacts DEF Init
<1>5. ProbesBounded
  <2>1. \A r \in Record : probed[r] = 0 /\ ProbeCount[r] = 0
    BY DEF Init
  <2>2. 0 + 0 <= DefaultProbeCount + 1
    BY CountFacts
  <2>. QED  BY <2>1, <2>2 DEF ProbesBounded
<1>. QED  BY <1>1, <1>2, <1>3, <1>4, <1>5 DEF Init, TypeInv, TypeOK

LEMMA TypeClient ==
  ASSUME TypeInv, NEW r \in Record, ClientCall(r)
  PROVE  TypeInv'
<1>. USE CountFacts
<1>1. CASE RegisterMain(r)
  <2>1. SetUpRecord(r, DefaultProbeCountForRecordType(RegisteredType(r)))
    BY <1>1 DEF RegisterMain
  <2>2. DefaultProbeCountForRecordType(RegisteredType(r)) \in 0 .. DefaultProbeCount
    BY RegisteredTypes
  <2>. QED  BY <1>1, <2>1, <2>2, SetUpTypes DEF RegisterMain, TypeInv, TypeOK
<1>2. CASE RegisterDuplicate(r)
  <2>1. PICK m \in Mains(r) :
          SetUpRecord(r, IF RecordType[m] = "Verified" THEN 0
                         ELSE DefaultProbeCountForRecordType(RegisteredType(r)))
    BY <1>2 DEF RegisterDuplicate
  <2>2. (IF RecordType[m] = "Verified" THEN 0
         ELSE DefaultProbeCountForRecordType(RegisteredType(r))) \in 0 .. DefaultProbeCount
    BY RegisteredTypes
  <2>. QED
    BY <1>2, <2>1, <2>2, SetUpTypes
    DEF RegisterDuplicate, TypeInv, TypeOK, ctlVars
<1>3. CASE DeregisterGoodbye(r)
  BY <1>3 DEF DeregisterGoodbye, TypeInv, TypeOK, ProbesBounded, RecordTypes, listVars,
              ctlVars
<1>4. CASE DeregisterNow(r)
  BY <1>4, CutTypes DEF DeregisterNow, TypeInv, TypeOK
<1>5. CASE DeregisterHandOver(r)
  <2>1. PICK dup \in Heirs(r, RecordType[r]) :
          TakeOver(r, RecordType[r], AnnounceCount[r], dup, CurrentRecord)
    BY <1>5 DEF DeregisterHandOver
  <2>. QED
    BY <1>5, <2>1, TakeOverTypes DEF DeregisterHandOver, Heirs, TypeInv, TypeOK
<1>6. CASE DeregisterDuplicate(r)
  BY <1>6, CutTypes DEF DeregisterDuplicate, TypeInv, TypeOK
<1>. QED  BY <1>1, <1>2, <1>3, <1>4, <1>5, <1>6 DEF ClientCall

LEMMA TypeWalk ==
  ASSUME TypeInv, NEW r \in Record, Walk(r)
  PROVE  TypeInv'
<1>1. CASE CompleteDeregistration(r)
  <2>1. CASE Heirs(r, "Shared") # {}
    <3>1. PICK dup \in Heirs(r, "Shared") :
            TakeOver(r, "Shared", InitialAnnounceCount, dup, CurrentRecord \ {r})
      BY <1>1, <2>1 DEF CompleteDeregistration
    <3>. QED
      BY <1>1, <3>1, TakeOverTypes, CountFacts
      DEF CompleteDeregistration, Heirs, TypeInv, TypeOK, RecordTypes, Kinds
  <2>2. CASE Heirs(r, "Shared") = {}
    BY <1>1, <2>2, CutTypes DEF CompleteDeregistration
  <2>. QED  BY <2>1, <2>2
<1>2. CASE PassRecord(r)
  BY <1>2 DEF PassRecord, TypeInv, TypeOK, ProbesBounded, listVars
<1>. QED  BY <1>1, <1>2 DEF Walk

LEMMA TypeProbing ==
  ASSUME TypeInv, NEW r \in Record, Probing(r)
  PROVE  TypeInv'
<1>. USE CountFacts DEF TypeInv, TypeOK, ProbesBounded, listVars, ctlVars
<1>1. CASE SendProbe(r)
  BY <1>1 DEF SendProbe
<1>2. CASE FinishProbing(r)
  <2>1. ProbeCount' \in [Record -> 0 .. DefaultProbeCount + 1]
    BY <1>2 DEF FinishProbing
  <2>2. ProbesBounded'
    BY <1>2 DEF FinishProbing
  <2>3. RecordType' \in [Record -> RecordTypes]
    BY <1>2 DEF FinishProbing, RecordTypes
  <2>. QED  BY <1>2, <2>1, <2>2, <2>3 DEF FinishProbing
<1>3. CASE AcknowledgeDuplicate(r)
  BY <1>3 DEF AcknowledgeDuplicate
<1>. QED  BY <1>1, <1>2, <1>3 DEF Probing

LEMMA TypePacket ==
  ASSUME TypeInv, NEW r \in Record, Packet(r)
  PROVE  TypeInv'
<1>1. ASSUME NEW how \in {"Null", "Link", "All"}, Mark(r, how), mode' = mode
      PROVE  TypeInv'
  BY <1>1 DEF Mark, TypeInv, TypeOK, ProbesBounded, listVars, ctlVars
<1>2. CASE ReceiveQuery(r)
  BY <1>1, <1>2 DEF ReceiveQuery, Mark, ctlVars
<1>3. CASE ReceiveOurAnswer(r)
  BY <1>1, <1>3 DEF ReceiveOurAnswer, Mark, ctlVars
<1>4. CASE ReceiveLowTTL(r)
  BY <1>1, <1>4 DEF ReceiveLowTTL, Mark, ctlVars
<1>5. CASE ReceiveFlush(r)
  BY <1>1, <1>5 DEF ReceiveFlush, Mark, ctlVars
<1>6. CASE ReceiveConflictVerified(r)
  BY <1>6, CountFacts
  DEF ReceiveConflictVerified, TypeInv, TypeOK, ProbesBounded, RecordTypes, Kinds,
      listVars, ctlVars
<1>7. CASE ReceiveConflictLost(r) \/ LoseTieBreak(r)
  BY <1>7, CutTypes DEF ReceiveConflictLost, LoseTieBreak, DeregisterConflict, TypeInv, TypeOK
<1>. QED  BY <1>2, <1>3, <1>4, <1>5, <1>6, <1>7 DEF Packet

LEMMA TypeSleepWake ==
  ASSUME TypeInv, SendResponses \/ EndWalk \/ Sleep \/ Wake
  PROVE  TypeInv'
<1>. USE CountFacts DEF TypeInv, TypeOK, ProbesBounded, listVars, ctlVars
<1>1. CASE SendResponses
  <2>1. SendWith(ImmedAnswer, FALSE)
    BY <1>1 DEF SendResponses
  <2>. QED  BY <1>1, <2>1, SendTypes DEF SendResponses
<1>2. CASE EndWalk
  BY <1>2 DEF EndWalk
<1>3. CASE Sleep
  <2>. DEFINE marks == [r \in Record |-> IF r \in ResourceRecords /\ NeedsGoodbye(r)
                                        THEN "All" ELSE ImmedAnswer[r]]
  <2>1. marks \in [Record -> {"Null", "Link", "All"}]
    OBVIOUS
  <2>2. SendWith(marks, TRUE)
    BY <1>3 DEF Sleep
  <2>. HIDE DEF marks
  <2>. QED  BY <1>3, <2>1, <2>2, SendTypes DEF Sleep
<1>4. CASE Wake
  <2>1. RecordType' \in [Record -> RecordTypes]
    BY <1>4 DEF Wake, RecordTypes, Kinds
  <2>2. ProbeCount' \in [Record -> 0 .. DefaultProbeCount + 1]
    BY <1>4 DEF Wake, DefaultProbeCountForRecordType
  <2>3. AnnounceCount' \in [Record -> 0 .. InitialAnnounceCount]
    BY <1>4 DEF Wake
  <2>4. probed' \in [Record -> 0 .. DefaultProbeCount + 1]
    BY <1>4 DEF Wake
  <2>5. ProbesBounded'
    BY <1>4 DEF Wake, DefaultProbeCountForRecordType
  <2>. QED  BY <1>4, <2>1, <2>2, <2>3, <2>4, <2>5 DEF Wake
<1>. QED  BY <1>1, <1>2, <1>3, <1>4

LEMMA TypeStep == TypeInv /\ [Next]_vars => TypeInv'
<1>. SUFFICES ASSUME TypeInv, [Next]_vars  PROVE TypeInv'
  OBVIOUS
<1>1. CASE \E r \in Record : ClientCall(r) \/ Walk(r) \/ Probing(r) \/ Packet(r)
  BY <1>1, TypeClient, TypeWalk, TypeProbing, TypePacket
<1>2. CASE SendResponses \/ EndWalk \/ Sleep \/ Wake
  BY <1>2, TypeSleepWake
<1>3. CASE UNCHANGED vars
  BY <1>3 DEF vars, TypeInv, TypeOK, ProbesBounded
<1>. QED  BY <1>1, <1>2, <1>3 DEF Next

\* Every field keeps its range for ever: in particular no probe or announcement
\* is counted below zero, whatever hands a count on or starts it again
THEOREM TypeCorrect == Spec => []TypeOK
<1>1. TypeInv => TypeOK
  BY DEF TypeInv
<1>. QED  BY <1>1, TypeInit, TypeStep, PTL DEF Spec

--------------------------------------------------------------------------------
(* The lists *)

ListsInv == ListsAgree /\ (mode = "idle" => CurrentRecord = {})

LEMMA ListsInit == Init => ListsInv
BY DEF Init, ListsInv, ListsAgree

LEMMA ListsCut ==
  ASSUME TypeInv, ListsInv, NEW gone, Cut(gone), mode' = mode \/ mode' # "idle"
  PROVE  ListsInv'
BY DEF Cut, ListsInv, ListsAgree, TypeInv, TypeOK

LEMMA ListsTakeOver ==
  ASSUME TypeInv, ListsInv, NEW r \in ResourceRecords, NEW t \in RecordTypes \ {"Unregistered"},
         NEW n, NEW dup \in DuplicateRecords, NEW walk \in SUBSET CurrentRecord,
         TakeOver(r, t, n, dup, walk), mode' = mode \/ mode' # "idle"
  PROVE  ListsInv'
<1>1. r # dup /\ r \notin DuplicateRecords /\ dup \notin ResourceRecords
  BY DEF ListsInv, ListsAgree
<1>2. (ResourceRecords \intersect DuplicateRecords)' = {}
  BY <1>1 DEF ListsInv, ListsAgree, TakeOver
<1>3. \A s \in Record : RecordType'[s] = IF s = r THEN "Unregistered"
                                         ELSE IF s = dup THEN t ELSE RecordType[s]
  BY <1>1 DEF TakeOver, TypeInv, TypeOK
<1>4. \A s \in Record :
        RecordType'[s] = "Unregistered" <=> s \notin ResourceRecords' \union DuplicateRecords'
  BY <1>1, <1>3 DEF ListsInv, ListsAgree, TakeOver
<1>5. CurrentRecord' \subseteq ResourceRecords' /\ (CurrentRecord = {} => CurrentRecord' = {})
  BY <1>1 DEF ListsInv, ListsAgree, TakeOver
<1>. QED  BY <1>2, <1>4, <1>5 DEF ListsInv, ListsAgree

LEMMA ListsSend ==
  ASSUME ListsInv, NEW marks, NEW ttl0, SendWith(marks, ttl0), UNCHANGED <<listVars, RecordType>>
  PROVE  ListsInv'
<1>1. StartWalk
  BY DEF SendWith
<1>. QED  BY <1>1 DEF StartWalk, ListsInv, ListsAgree, listVars

LEMMA ListsClient ==
  ASSUME TypeInv, ListsInv, NEW r \in Record, ClientCall(r)
  PROVE  ListsInv'
<1>1. CASE RegisterMain(r)
  <2>1. RecordType' = [RecordType EXCEPT ![r] = RegisteredType(r)]
    BY <1>1 DEF RegisterMain, SetUpRecord
  <2>2. RegisteredType(r) # "Unregistered"
    BY RegisteredTypes
  <2>. QED
    BY <1>1, <2>1, <2>2 DEF RegisterMain, RegisterChecks, ListsInv, ListsAgree, TypeInv, TypeOK
<1>2. CASE RegisterDuplicate(r)
  <2>1. RecordType' = [RecordType EXCEPT ![r] = RegisteredType(r)]
    BY <1>2 DEF RegisterDuplicate, SetUpRecord
  <2>2. RegisteredType(r) # "Unregistered"
    BY RegisteredTypes
  <2>. QED
    BY <1>2, <2>1, <2>2
    DEF RegisterDuplicate, RegisterChecks, ListsInv, ListsAgree, TypeInv, TypeOK, ctlVars
<1>3. CASE DeregisterGoodbye(r)
  BY <1>3 DEF DeregisterGoodbye, ListsInv, ListsAgree, TypeInv, TypeOK, listVars, ctlVars
<1>4. CASE DeregisterNow(r)
  BY <1>4, ListsCut DEF DeregisterNow
<1>5. CASE DeregisterHandOver(r)
  <2>1. PICK dup \in Heirs(r, RecordType[r]) :
          TakeOver(r, RecordType[r], AnnounceCount[r], dup, CurrentRecord)
    BY <1>5 DEF DeregisterHandOver
  <2>2. RecordType[r] \in RecordTypes \ {"Unregistered"} /\ r \in ResourceRecords
    BY <1>5 DEF DeregisterHandOver, ListsInv, ListsAgree, TypeInv, TypeOK
  <2>. QED  BY <1>5, <2>1, <2>2, ListsTakeOver DEF DeregisterHandOver, Heirs
<1>6. CASE DeregisterDuplicate(r)
  BY <1>6, ListsCut DEF DeregisterDuplicate
<1>. QED  BY <1>1, <1>2, <1>3, <1>4, <1>5, <1>6 DEF ClientCall

LEMMA ListsWalk ==
  ASSUME TypeInv, ListsInv, NEW r \in Record, Walk(r)
  PROVE  ListsInv'
<1>1. CASE CompleteDeregistration(r)
  <2>1. r \in ResourceRecords
    BY <1>1 DEF CompleteDeregistration, ListsInv, ListsAgree
  <2>2. CASE Heirs(r, "Shared") # {}
    <3>1. PICK dup \in Heirs(r, "Shared") :
            TakeOver(r, "Shared", InitialAnnounceCount, dup, CurrentRecord \ {r})
      BY <1>1, <2>2 DEF CompleteDeregistration
    <3>. QED
      BY <1>1, <2>1, <3>1, ListsTakeOver DEF CompleteDeregistration, Heirs, RecordTypes, Kinds
  <2>3. CASE Heirs(r, "Shared") = {}
    BY <1>1, <2>3, ListsCut DEF CompleteDeregistration
  <2>. QED  BY <2>2, <2>3
<1>2. CASE PassRecord(r)
  BY <1>2 DEF PassRecord, ListsInv, ListsAgree, listVars
<1>. QED  BY <1>1, <1>2 DEF Walk

LEMMA ListsStep == TypeInv /\ ListsInv /\ [Next]_vars => ListsInv'
<1>. SUFFICES ASSUME TypeInv, ListsInv, [Next]_vars  PROVE ListsInv'
  OBVIOUS
<1>1. ASSUME NEW r \in Record, ClientCall(r) \/ Walk(r) \/ Probing(r) \/ Packet(r)
      PROVE  ListsInv'
  <2>1. CASE Probing(r)
    BY <2>1
    DEF Probing, SendProbe, FinishProbing, AcknowledgeDuplicate, ListsInv, ListsAgree,
        TypeInv, TypeOK, listVars, ctlVars
  <2>2. CASE Packet(r)
    <3>1. CASE ReceiveConflictVerified(r)
      BY <3>1 DEF ReceiveConflictVerified, CanConflict, ListsInv, ListsAgree, TypeInv, TypeOK,
                  listVars, ctlVars
    <3>2. CASE ReceiveConflictLost(r) \/ LoseTieBreak(r)
      BY <3>2, ListsCut DEF ReceiveConflictLost, LoseTieBreak, DeregisterConflict
    <3>3. CASE \E how : Mark(r, how)
      BY <3>3 DEF Mark, ListsInv, ListsAgree, listVars, ctlVars
    <3>. QED
      BY <2>2, <3>1, <3>2, <3>3
      DEF Packet, ReceiveQuery, ReceiveOurAnswer, ReceiveLowTTL, ReceiveFlush
  <2>. QED  BY <1>1, <2>1, <2>2, ListsClient, ListsWalk
<1>2. CASE SendResponses
  BY <1>2, ListsSend DEF SendResponses
<1>3. CASE EndWalk
  BY <1>3 DEF EndWalk, ListsInv, ListsAgree, listVars
<1>4. CASE Sleep
  BY <1>4, ListsSend DEF Sleep
<1>5. CASE Wake
  <2>1. \A r \in Record : RecordType'[r] = "Unregistered" <=> RecordType[r] = "Unregistered"
    BY <1>5 DEF Wake, TypeInv, TypeOK
  <2>. QED  BY <1>5, <2>1 DEF Wake, ListsInv, ListsAgree, listVars
<1>6. CASE UNCHANGED vars
  BY <1>6 DEF vars, ListsInv, ListsAgree
<1>. QED  BY <1>1, <1>2, <1>3, <1>4, <1>5, <1>6 DEF Next

\* No walk ever goes on to a record that has left the list, whatever clients
\* register and deregister from the callbacks the walk makes
THEOREM ListsAlwaysAgree == Spec => []ListsAgree
<1>1. ListsInv => ListsAgree
  BY DEF ListsInv
<1>. QED  BY <1>1, TypeInit, TypeStep, ListsInit, ListsStep, PTL DEF Spec

--------------------------------------------------------------------------------
(* Probing *)

\* Clients that register the same data agree on whether it detects its own
\* conflicts: a TXT record that depends on the SRV record of its service is
\* never registered a second time to stand on its own
SameDependence ==
  \A r, s \in Record : Data[r] = Data[s] => (DependentOn[r] = NoRecord <=> DependentOn[s] = NoRecord)

\* While it probes, the probes sent and the probes left make up the full number
Counted(r) ==
  DependentOn[r] = NoRecord =>
    /\ RecordType[r] = "Unique" => probed[r] + ProbeCount[r] >= DefaultProbeCount
    /\ RecordType[r] = "Verified" => probed[r] >= DefaultProbeCount

ProbesCounted == \A r \in ResourceRecords : Counted(r)

LEMMA CountedInit == Init => ProbesCounted
BY DEF Init, ProbesCounted

LEMMA CountedCut ==
  ASSUME TypeInv, ProbesCounted, NEW gone, Cut(gone)
  PROVE  ProbesCounted'
BY DEF Cut, ProbesCounted, Counted, TypeInv, TypeOK

LEMMA CountedTakeOver ==
  ASSUME TypeInv, ListsInv, ProbesCounted, SameDependence,
         NEW r \in ResourceRecords, NEW t, t \in {RecordType[r], "Shared"}, NEW n,
         NEW dup \in DuplicateRecords, Data[dup] = Data[r], NEW walk,
         TakeOver(r, t, n, dup, walk)
  PROVE  ProbesCounted'
<1>1. r # dup /\ r \in Record /\ dup \in Record
  BY DEF ListsInv, ListsAgree, TypeInv, TypeOK
<1>2. RecordType'[dup] = t /\ ProbeCount'[dup] = ProbeCount[r] /\ probed'[dup] = probed[r]
  BY <1>1 DEF TakeOver, TypeInv, TypeOK
<1>3. Counted(dup)'
  BY <1>1, <1>2 DEF SameDependence, ProbesCounted, Counted
<1>4. ASSUME NEW s \in ResourceRecords, s # r, s # dup  PROVE Counted(s)'
  <2>1. RecordType'[s] = RecordType[s] /\ ProbeCount'[s] = ProbeCount[s] /\ probed'[s] = probed[s]
    BY <1>1, <1>4 DEF TakeOver, TypeInv, TypeOK
  <2>. QED  BY <2>1 DEF ProbesCounted, Counted
<1>. QED  BY <1>3, <1>4 DEF TakeOver, ProbesCounted

LEMMA CountedClient ==
  ASSUME TypeInv, ListsInv, ProbesCounted, SameDependence, NEW r \in Record, ClientCall(r)
  PROVE  ProbesCounted'
<1>1. CASE RegisterMain(r)
  <2>1. RecordType'[r] = RegisteredType(r) /\ probed'[r] = 0
        /\ ProbeCount'[r] = DefaultProbeCountForRecordType(RegisteredType(r))
    BY <1>1 DEF RegisterMain, SetUpRecord, TypeInv, TypeOK
  <2>2. Counted(r)'
    BY <2>1, RegisteredTypes, CountFacts DEF Counted, DefaultProbeCountForRecordType
  <2>3. ASSUME NEW s \in ResourceRecords, s # r  PROVE Counted(s)'
    BY <1>1, <2>3 DEF RegisterMain, SetUpRecord, ProbesCounted, Counted, TypeInv, TypeOK
  <2>. QED  BY <1>1, <2>2, <2>3 DEF RegisterMain, ProbesCounted
<1>2. CASE RegisterDuplicate(r)
  <2>1. PICK n : SetUpRecord(r, n)
    BY <1>2 DEF RegisterDuplicate
  <2>2. ASSUME NEW s \in ResourceRecords  PROVE Counted(s)'
    <3>1. s # r
      BY <1>2 DEF RegisterDuplicate, RegisterChecks
    <3>. QED  BY <2>1, <3>1 DEF SetUpRecord, ProbesCounted, Counted, TypeInv, TypeOK
  <2>. QED  BY <1>2, <2>2 DEF RegisterDuplicate, ProbesCounted
<1>3. CASE DeregisterGoodbye(r)
  BY <1>3 DEF DeregisterGoodbye, ProbesCounted, Counted, TypeInv, TypeOK, listVars
<1>4. CASE DeregisterNow(r) \/ DeregisterDuplicate(r)
  BY <1>4, CountedCut DEF DeregisterNow, DeregisterDuplicate
<1>5. CASE DeregisterHandOver(r)
  <2>1. PICK dup \in Heirs(r, RecordType[r]) :
          TakeOver(r, RecordType[r], AnnounceCount[r], dup, CurrentRecord)
    BY <1>5 DEF DeregisterHandOver
  <2>. QED
    BY <1>5, <2>1, CountedTakeOver DEF DeregisterHandOver, Heirs, RecordIsLocalDuplicate
<1>. QED  BY <1>1, <1>2, <1>3, <1>4, <1>5 DEF ClientCall

LEMMA CountedWalk ==
  ASSUME TypeInv, ListsInv, ProbesCounted, SameDependence, NEW r \in Record, Walk(r)
  PROVE  ProbesCounted'
<1>1. CASE CompleteDeregistration(r)
  <2>1. r \in ResourceRecords
    BY <1>1 DEF CompleteDeregistration, ListsInv, ListsAgree
  <2>2. CASE Heirs(r, "Shared") # {}
    <3>1. PICK dup \in Heirs(r, "Shared") :
            TakeOver(r, "Shared", InitialAnnounceCount, dup, CurrentRecord \ {r})
      BY <1>1, <2>2 DEF CompleteDeregistration
    <3>. QED  BY <2>1, <3>1, CountedTakeOver DEF Heirs, RecordIsLocalDuplicate
  <2>3. CASE Heirs(r, "Shared") = {}
    BY <1>1, <2>3, CountedCut DEF CompleteDeregistration
  <2>. QED  BY <2>2, <2>3
<1>2. CASE PassRecord(r)
  BY <1>2 DEF PassRecord, ProbesCounted, Counted, listVars
<1>. QED  BY <1>1, <1>2 DEF Walk

LEMMA CountedProbing ==
  ASSUME TypeInv, ListsInv, ProbesCounted, NEW r \in Record, Probing(r)
  PROVE  ProbesCounted'
<1>1. CASE SendProbe(r)
  BY <1>1 DEF SendProbe, ProbesCounted, Counted, TypeInv, TypeOK, listVars
<1>2. CASE FinishProbing(r)
  <2>1. ASSUME NEW s \in ResourceRecords  PROVE ProbeCount'[s] = ProbeCount[s]
    BY <1>2, <2>1 DEF FinishProbing, Heirs, ListsInv, ListsAgree, TypeInv, TypeOK
  <2>2. ASSUME NEW s \in ResourceRecords, s # r  PROVE Counted(s)'
    BY <1>2, <2>1, <2>2 DEF FinishProbing, ProbesCounted, Counted, TypeInv, TypeOK
  <2>3. Counted(r)'
    BY <1>2 DEF FinishProbing, ProbesCounted, Counted, TypeInv, TypeOK
  <2>. QED  BY <1>2, <2>2, <2>3 DEF FinishProbing, ProbesCounted, listVars
<1>3. CASE AcknowledgeDuplicate(r)
  BY <1>3 DEF AcknowledgeDuplicate, ProbesCounted, Counted, listVars
<1>. QED  BY <1>1, <1>2, <1>3 DEF Probing

LEMMA CountedPacket ==
  ASSUME TypeInv, ProbesCounted, NEW r \in Record, Packet(r)
  PROVE  ProbesCounted'
<1>1. CASE ReceiveConflictVerified(r)
  BY <1>1, CountFacts
  DEF ReceiveConflictVerified, ProbesCounted, Counted, TypeInv, TypeOK, listVars
<1>2. CASE ReceiveConflictLost(r) \/ LoseTieBreak(r)
  BY <1>2, CountedCut DEF ReceiveConflictLost, LoseTieBreak, DeregisterConflict
<1>3. CASE \E how : Mark(r, how)
  BY <1>3 DEF Mark, ProbesCounted, Counted, listVars
<1>. QED
  BY <1>1, <1>2, <1>3 DEF Packet, ReceiveQuery, ReceiveOurAnswer, ReceiveLowTTL, ReceiveFlush

LEMMA CountedWake ==
  ASSUME TypeInv, ProbesCounted, Wake
  PROVE  ProbesCounted'
<1>1. ASSUME NEW r \in ResourceRecords, DependentOn[r] = NoRecord
      PROVE  Counted(r)'
  <2>1. r \in Record
    BY DEF TypeInv, TypeOK
  <2>2. RecordType'[r] # "Verified"
    BY <1>1, <2>1 DEF Wake, TypeInv, TypeOK
  <2>3. probed'[r] = 0 /\ ProbeCount'[r] = DefaultProbeCountForRecordType(RecordType'[r])
    BY <2>1 DEF Wake
  <2>. QED  BY <2>2, <2>3, CountFacts DEF Counted, DefaultProbeCountForRecordType
<1>. QED  BY <1>1 DEF Wake, ProbesCounted, Counted, listVars

LEMMA CountedStep ==
  SameDependence => (TypeInv /\ ListsInv /\ ProbesCounted /\ [Next]_vars => ProbesCounted')
<1>. SUFFICES ASSUME SameDependence, TypeInv, ListsInv, ProbesCounted, [Next]_vars
              PROVE  ProbesCounted'
  OBVIOUS
<1>1. CASE \E r \in Record : ClientCall(r) \/ Walk(r) \/ Probing(r) \/ Packet(r)
  BY <1>1, CountedClient, CountedWalk, CountedProbing, CountedPacket
<1>2. CASE SendResponses \/ EndWalk \/ Sleep
  BY <1>2 DEF SendResponses, EndWalk, Sleep, ProbesCounted, Counted, listVars
<1>3. CASE Wake
  BY <1>3, CountedWake
<1>4. CASE UNCHANGED vars
  BY <1>4 DEF vars, ProbesCounted, Counted
<1>. QED  BY <1>1, <1>2, <1>3, <1>4 DEF Next

\* No record is taken to be unique before the full number of probes has gone
\* out since it last had reason to doubt it, even when the record that sent
\* them was another, whose place it took
THEOREM VerifiedIsProbed ==
  ASSUME SameDependence
  PROVE  Spec => []VerifiedMeansProbed
<1>1. ProbesCounted => VerifiedMeansProbed
  BY DEF ProbesCounted, Counted, VerifiedMeansProbed
<1>2. TypeInv /\ ListsInv /\ ProbesCounted /\ [Next]_vars => ProbesCounted'
  BY CountedStep
<1>. QED
  BY <1>1, <1>2, TypeInit, TypeStep, ListsInit, ListsStep, CountedInit, PTL DEF Spec

--------------------------------------------------------------------------------
(* Duplicates and mains *)

\* A record on the duplicate list keeps the type it was registered with
DupTypes == \A d \in DuplicateRecords : RecordType[d] = RegisteredType(d)

DupInv == DuplicateHasMain /\ DupTypes

LEMMA DupInit == Init => DupInv
BY DEF Init, DupInv, DuplicateHasMain, DupTypes

LEMMA LDTFacts ==
  ASSUME NEW s, NEW t
  PROVE  /\ RecordLDT(s, t) <=> RecordLDT(t, s)
         /\ RecordLDT("Unique", t) <=> RecordLDT("Verified", t)
         /\ RecordLDT("Deregistering", t) => t = "Deregistering"
         /\ RecordLDT("Shared", t) => t = "Shared"
BY DEF RecordLDT

\* A record whose type has no heir is the main of no duplicate
LEMMA NoHeirs ==
  ASSUME NEW r \in ResourceRecords, NEW d \in DuplicateRecords,
         RecordIsLocalDuplicate(r, RecordType[d], Data[d])
  PROVE  d \in Heirs(r, RecordType[r])
BY LDTFacts DEF Heirs, RecordIsLocalDuplicate

\* A step keeps the duplicates that have a main if it keeps their types and
\* gives every one of their mains a successor
LEMMA DupKept ==
  ASSUME DupInv, DuplicateRecords' \subseteq DuplicateRecords,
         \A d \in DuplicateRecords' : RecordType'[d] = RecordType[d],
         \A d \in DuplicateRecords', m \in ResourceRecords :
           RecordIsLocalDuplicate(m, RecordType[d], Data[d]) =>
             \E n \in ResourceRecords' :
               RecordLDT(RecordType'[n], RecordType[d]) /\ Data[n] = Data[d]
  PROVE  DupInv'
<1>1. DupTypes'
  BY DEF DupInv, DupTypes
<1>2. ASSUME NEW d \in DuplicateRecords'
      PROVE  \E n \in ResourceRecords' : RecordIsLocalDuplicate(n, RecordType[d], Data[d])'
  <2>1. PICK m \in ResourceRecords : RecordIsLocalDuplicate(m, RecordType[d], Data[d])
    BY DEF DupInv, DuplicateHasMain
  <2>2. PICK n \in ResourceRecords' : RecordLDT(RecordType'[n], RecordType[d]) /\ Data[n] = Data[d]
    BY <2>1
  <2>. QED  BY <2>2 DEF RecordIsLocalDuplicate, RecordLDT
<1>. QED  BY <1>1, <1>2 DEF DupInv, DuplicateHasMain

LEMMA DupCut ==
  ASSUME TypeInv, ListsInv, DupInv, NEW r \in ResourceRecords, NEW heirs \in SUBSET DuplicateRecords,
         Heirs(r, RecordType[r]) \subseteq heirs, Cut({r} \union heirs)
  PROVE  DupInv'
<1>1. \A d \in DuplicateRecords' : d \in DuplicateRecords /\ d \notin heirs /\ RecordType'[d] = RecordType[d]
  BY DEF Cut, TypeInv, TypeOK, ListsInv, ListsAgree
<1>2. ASSUME NEW d \in DuplicateRecords', NEW m \in ResourceRecords,
             RecordIsLocalDuplicate(m, RecordType[d], Data[d])
      PROVE  m \in ResourceRecords' /\ RecordType'[m] = RecordType[m]
  <2>1. m # r
    BY <1>1, <1>2, NoHeirs
  <2>. QED  BY <2>1 DEF Cut, TypeInv, TypeOK, ListsInv, ListsAgree
<1>. QED  BY <1>1, <1>2, DupKept DEF RecordIsLocalDuplicate

LEMMA DupTakeOver ==
  ASSUME TypeInv, ListsInv, DupInv, NEW r \in ResourceRecords, NEW t, NEW n, NEW walk,
         t = RecordType[r] \/ RecordType[r] = "Deregistering",
         NEW dup \in DuplicateRecords, Data[dup] = Data[r], TakeOver(r, t, n, dup, walk)
  PROVE  DupInv'
<1>1. /\ r # dup /\ r \in Record /\ dup \in Record
      /\ \A d \in DuplicateRecords' : d \in DuplicateRecords /\ d # dup /\ d # r
      /\ dup \in ResourceRecords' /\ RecordType'[dup] = t
  BY DEF TakeOver, TypeInv, TypeOK, ListsInv, ListsAgree
<1>2. \A d \in DuplicateRecords' : RecordType'[d] = RecordType[d]
  BY <1>1 DEF TakeOver, TypeInv, TypeOK
<1>3. ASSUME NEW d \in DuplicateRecords', NEW m \in ResourceRecords,
             RecordIsLocalDuplicate(m, RecordType[d], Data[d])
      PROVE  \E k \in ResourceRecords' : RecordLDT(RecordType'[k], RecordType[d]) /\ Data[k] = Data[d]
  <2>1. CASE m = r
    <3>1. RecordType[d] # "Deregistering"
      BY <1>1, RegisteredTypes DEF DupInv, DupTypes, TypeInv, TypeOK
    <3>2. t = RecordType[r]
      BY <1>3, <2>1, <3>1, LDTFacts DEF RecordIsLocalDuplicate
    <3>. QED  BY <1>1, <1>3, <2>1, <3>2 DEF RecordIsLocalDuplicate
  <2>2. CASE m # r
    <3>1. m \in ResourceRecords' /\ RecordType'[m] = RecordType[m]
      BY <1>1, <2>2 DEF TakeOver, TypeInv, TypeOK, ListsInv, ListsAgree
    <3>. QED  BY <1>3, <3>1 DEF RecordIsLocalDuplicate
  <2>. QED  BY <2>1, <2>2
<1>. QED  BY <1>1, <1>2, <1>3, DupKept

LEMMA DupClient ==
  ASSUME TypeInv, ListsInv, DupInv, NEW r \in Record, ClientCall(r)
  PROVE  DupInv'
<1>1. CASE RegisterMain(r)
  <2>1. \A s \in Record : s # r => RecordType'[s] = RecordType[s]
    BY <1>1 DEF RegisterMain, SetUpRecord, TypeInv, TypeOK
  <2>2. r \notin ResourceRecords /\ r \notin DuplicateRecords
        /\ ResourceRecords' = ResourceRecords \union {r} /\ DuplicateRecords' = DuplicateRecords
    BY <1>1 DEF RegisterMain, RegisterChecks
  <2>3. ASSUME NEW d \in DuplicateRecords', NEW m \in ResourceRecords
        PROVE  RecordType'[d] = RecordType[d] /\ RecordType'[m] = RecordType[m]
    BY <2>1, <2>2 DEF TypeInv, TypeOK
  <2>4. ASSUME NEW d \in DuplicateRecords', NEW m \in ResourceRecords,
               RecordIsLocalDuplicate(m, RecordType[d], Data[d])
        PROVE  /\ m \in ResourceRecords'
               /\ RecordLDT(RecordType'[m], RecordType[d]) /\ Data[m] = Data[d]
    BY <2>2, <2>3, <2>4 DEF RecordIsLocalDuplicate
  <2>5. \A d \in DuplicateRecords' : RecordType'[d] = RecordType[d]
    BY <2>1, <2>2 DEF TypeInv, TypeOK
  <2>. QED  BY <2>2, <2>4, <2>5, DupKept
<1>2. CASE RegisterDuplicate(r)
  <2>1. PICK m \in Mains(r) : \E n : SetUpRecord(r, n)
    BY <1>2 DEF RegisterDuplicate
  <2>2. r \notin ResourceRecords /\ m \in ResourceRecords /\ ResourceRecords' = ResourceRecords
        /\ DuplicateRecords' = DuplicateRecords \union {r}
    BY <1>2, <2>1 DEF RegisterDuplicate, RegisterChecks, Mains, listVars
  <2>3. RecordType' = [RecordType EXCEPT ![r] = RegisteredType(r)]
    BY <2>1 DEF SetUpRecord
  <2>4. RecordType'[r] = RegisteredType(r) /\ \A s \in Record : s # r => RecordType'[s] = RecordType[s]
    BY <2>3 DEF TypeInv, TypeOK
  <2>5. RecordIsLocalDuplicate(m, RecordType[r], Data[r])'
    BY <2>1, <2>2, <2>4 DEF Mains, RecordIsLocalDuplicate, RecordLDT, TypeInv, TypeOK
  <2>6. ASSUME NEW d \in DuplicateRecords, d # r
        PROVE  /\ RecordType'[d] = RegisteredType(d)
               /\ \E n \in ResourceRecords' : RecordIsLocalDuplicate(n, RecordType[d], Data[d])'
    <3>1. PICK n \in ResourceRecords : RecordIsLocalDuplicate(n, RecordType[d], Data[d])
      BY DEF DupInv, DuplicateHasMain
    <3>2. n # r /\ RecordType'[n] = RecordType[n] /\ RecordType'[d] = RecordType[d]
      BY <2>2, <2>4, <2>6 DEF TypeInv, TypeOK
    <3>. QED  BY <2>2, <3>1, <3>2 DEF RecordIsLocalDuplicate, RecordLDT, DupInv, DupTypes
  <2>. QED  BY <2>2, <2>4, <2>5, <2>6 DEF DupInv, DuplicateHasMain, DupTypes
<1>3. CASE DeregisterGoodbye(r)
  <2>1. /\ r \in ResourceRecords /\ Heirs(r, RecordType[r]) = {}
        /\ ResourceRecords' = ResourceRecords /\ DuplicateRecords' = DuplicateRecords
        /\ \A s \in Record : s # r => RecordType'[s] = RecordType[s]
    BY <1>3 DEF DeregisterGoodbye, listVars, TypeInv, TypeOK
  <2>2. \A d \in DuplicateRecords : d # r /\ d \in Record
    BY <2>1 DEF ListsInv, ListsAgree, TypeInv, TypeOK
  <2>3. ASSUME NEW d \in DuplicateRecords, NEW m \in ResourceRecords,
               RecordIsLocalDuplicate(m, RecordType[d], Data[d])
        PROVE  m # r /\ m \in Record
    BY <2>1, <2>3, NoHeirs DEF TypeInv, TypeOK
  <2>. QED  BY <2>1, <2>2, <2>3, DupKept DEF RecordIsLocalDuplicate
<1>4. CASE DeregisterNow(r)
  <2>1. Cut({r} \union {}) /\ r \in ResourceRecords /\ Heirs(r, RecordType[r]) = {}
    BY <1>4 DEF DeregisterNow
  <2>. QED  BY <2>1, DupCut
<1>5. CASE DeregisterHandOver(r)
  <2>1. PICK dup \in Heirs(r, RecordType[r]) :
          TakeOver(r, RecordType[r], AnnounceCount[r], dup, CurrentRecord)
    BY <1>5 DEF DeregisterHandOver
  <2>. QED  BY <1>5, <2>1, DupTakeOver DEF DeregisterHandOver, Heirs, RecordIsLocalDuplicate
<1>6. CASE DeregisterDuplicate(r)
  <2>1. r \in DuplicateRecords /\ r \notin ResourceRecords
    BY <1>6 DEF DeregisterDuplicate, ListsInv, ListsAgree
  <2>2. DuplicateRecords' = DuplicateRecords \ {r} /\ ResourceRecords' = ResourceRecords
        /\ \A s \in Record : s # r => RecordType'[s] = RecordType[s]
    BY <1>6, <2>1 DEF DeregisterDuplicate, Cut
  <2>. QED  BY <2>1, <2>2, DupKept DEF RecordIsLocalDuplicate, TypeInv, TypeOK
<1>. QED  BY <1>1, <1>2, <1>3, <1>4, <1>5, <1>6 DEF ClientCall

LEMMA DupStep == TypeInv /\ ListsInv /\ DupInv /\ [Next]_vars => DupInv'
<1>. SUFFICES ASSUME TypeInv, ListsInv, DupInv, [Next]_vars  PROVE DupInv'
  OBVIOUS
\* Steps that leave the lists alone and move types only inside their class
<1>1. ASSUME UNCHANGED listVars,
             \A s \in Record \ DuplicateRecords :
               \/ RecordType'[s] = RecordType[s]
               \/ {RecordType[s], RecordType'[s]} = {"Unique", "Verified"},
             \A s \in DuplicateRecords : RecordType'[s] = RecordType[s]
      PROVE  DupInv'
  <2>1. ASSUME NEW d \in DuplicateRecords, NEW m \in ResourceRecords,
               RecordIsLocalDuplicate(m, RecordType[d], Data[d])
        PROVE  RecordLDT(RecordType'[m], RecordType[d]) /\ Data[m] = Data[d]
    <3>1. m \in Record \ DuplicateRecords
      BY DEF ListsInv, ListsAgree, TypeInv, TypeOK
    <3>. QED  BY <1>1, <2>1, <3>1, LDTFacts DEF RecordIsLocalDuplicate
  <2>. QED  BY <1>1, <2>1, DupKept DEF listVars
<1>2. ASSUME NEW r \in Record, Walk(r)  PROVE DupInv'
  <2>1. CASE CompleteDeregistration(r)
    <3>1. r \in ResourceRecords /\ RecordType[r] = "Deregistering"
      BY <2>1 DEF CompleteDeregistration, ListsInv, ListsAgree
    <3>2. CASE Heirs(r, "Shared") # {}
      <4>1. PICK dup \in Heirs(r, "Shared") :
              TakeOver(r, "Shared", InitialAnnounceCount, dup, CurrentRecord \ {r})
        BY <2>1, <3>2 DEF CompleteDeregistration
      <4>. QED  BY <3>1, <4>1, DupTakeOver DEF Heirs, RecordIsLocalDuplicate
    <3>3. CASE Heirs(r, "Shared") = {}
      <4>1. Heirs(r, RecordType[r]) = {}
        BY <3>1, LDTFacts, RegisteredTypes
        DEF Heirs, RecordIsLocalDuplicate, DupInv, DupTypes, TypeInv, TypeOK
      <4>2. Cut({r} \union {})
        BY <2>1, <3>3 DEF CompleteDeregistration
      <4>. QED  BY <3>1, <4>1, <4>2, DupCut
    <3>. QED  BY <3>2, <3>3
  <2>2. CASE PassRecord(r)
    BY <1>1, <2>2 DEF PassRecord
  <2>. QED  BY <1>2, <2>1, <2>2 DEF Walk
<1>3. ASSUME NEW r \in Record, Probing(r)  PROVE DupInv'
  <2>1. CASE SendProbe(r)
    BY <1>1, <2>1 DEF SendProbe
  <2>2. CASE FinishProbing(r)
    <3>1. r \notin DuplicateRecords
      BY <2>2 DEF FinishProbing, ListsInv, ListsAgree
    <3>. QED  BY <1>1, <2>2, <3>1 DEF FinishProbing, TypeInv, TypeOK
  <2>3. CASE AcknowledgeDuplicate(r)
    BY <1>1, <2>3 DEF AcknowledgeDuplicate
  <2>. QED  BY <1>3, <2>1, <2>2, <2>3 DEF Probing
<1>4. ASSUME NEW r \in Record, Packet(r)  PROVE DupInv'
  <2>1. CASE ReceiveConflictVerified(r)
    <3>1. r \notin DuplicateRecords
      BY <2>1 DEF ReceiveConflictVerified, CanConflict, ListsInv, ListsAgree
    <3>. QED  BY <1>1, <2>1, <3>1 DEF ReceiveConflictVerified, TypeInv, TypeOK
  <2>2. CASE ReceiveConflictLost(r) \/ LoseTieBreak(r)
    <3>1. r \in ResourceRecords /\ Cut({r} \union Heirs(r, RecordType[r]))
      BY <2>2 DEF ReceiveConflictLost, LoseTieBreak, CanConflict, DeregisterConflict
    <3>. QED  BY <3>1, DupCut DEF Heirs
  <2>3. CASE \E how : Mark(r, how)
    BY <1>1, <2>3 DEF Mark
  <2>. QED
    BY <1>4, <2>1, <2>2, <2>3 DEF Packet, ReceiveQuery, ReceiveOurAnswer, ReceiveLowTTL, ReceiveFlush
<1>5. CASE SendResponses \/ EndWalk \/ Sleep
  BY <1>1, <1>5 DEF SendResponses, EndWalk, Sleep
<1>6. CASE Wake
  <2>1. \A s \in Record :
          \/ RecordType'[s] = RecordType[s]
          \/ /\ s \in ResourceRecords
             /\ RecordType[s] = "Verified" /\ RecordType'[s] = "Unique"
    BY <1>6 DEF Wake
  <2>2. \A s \in DuplicateRecords : s \in Record /\ s \notin ResourceRecords
    BY DEF ListsInv, ListsAgree, TypeInv, TypeOK
  <2>. QED  BY <1>1, <1>6, <2>1, <2>2 DEF Wake
<1>7. CASE UNCHANGED vars
  BY <1>1, <1>7 DEF vars, listVars
<1>. QED  BY <1>2, <1>3, <1>4, <1>5, <1>6, <1>7, DupClient DEF Next

\* No duplicate is ever left without a record to take over from
THEOREM DuplicatesHaveMains == Spec => []DuplicateHasMain
<1>1. DupInv => DuplicateHasMain
  BY DEF DupInv
<1>. QED  BY <1>1, TypeInit, TypeStep, ListsInit, ListsStep, DupInit, DupStep, PTL DEF Spec

--------------------------------------------------------------------------------
(* One record acts for each piece of data *)

\* The records that stand for the same thing on the link: a record that awaits
\* its goodbye is still a shared one
Class(t) == IF t = "Verified" THEN "Unique" ELSE IF t = "Deregistering" THEN "Shared" ELSE t

MainsApart ==
  \A r, s \in ResourceRecords : r # s /\ Data[r] = Data[s] => Class(RecordType[r]) # Class(RecordType[s])

LEMMA ApartInit == Init => MainsApart
BY DEF Init, MainsApart

\* A step keeps the mains apart if every record it leaves on the list stands in
\* for one that was there, of its data and class, and no two for the same one
LEMMA ApartKept ==
  ASSUME MainsApart, NEW f,
         \A s \in ResourceRecords' :
           /\ f[s] \in ResourceRecords
           /\ Data[f[s]] = Data[s]
           /\ Class(RecordType[f[s]]) = Class(RecordType'[s]),
         \A r, s \in ResourceRecords' : r # s => f[r] # f[s]
  PROVE  MainsApart'
<1>1. ASSUME NEW r \in ResourceRecords', NEW s \in ResourceRecords', r # s, Data[r] = Data[s]
      PROVE  Class(RecordType'[r]) # Class(RecordType'[s])
  <2>1. f[r] \in ResourceRecords /\ f[s] \in ResourceRecords /\ f[r] # f[s]
    BY <1>1
  <2>2. Data[f[r]] = Data[f[s]]
    BY <1>1
  <2>3. Class(RecordType[f[r]]) # Class(RecordType[f[s]])
    BY <2>1, <2>2 DEF MainsApart
  <2>. QED  BY <1>1, <2>3
<1>. QED  BY <1>1 DEF MainsApart, Class

\* The common case: every record stands for itself
LEMMA ApartSame ==
  ASSUME MainsApart, ResourceRecords' \subseteq ResourceRecords,
         \A s \in ResourceRecords' : Class(RecordType'[s]) = Class(RecordType[s])
  PROVE  MainsApart'
BY DEF MainsApart, Class

LEMMA ApartTakeOver ==
  ASSUME TypeInv, ListsInv, MainsApart, NEW r \in ResourceRecords, NEW t, NEW n, NEW walk,
         Class(t) = Class(RecordType[r]),
         NEW dup \in DuplicateRecords, Data[dup] = Data[r], TakeOver(r, t, n, dup, walk)
  PROVE  MainsApart'
<1>. DEFINE f == [s \in Record |-> IF s = dup THEN r ELSE s]
<1>1. r # dup /\ r \in Record /\ dup \in Record /\ dup \notin ResourceRecords
  BY DEF TypeInv, TypeOK, ListsInv, ListsAgree
<1>2. ResourceRecords' = (ResourceRecords \ {r}) \union {dup} /\ ResourceRecords' \subseteq Record
  BY <1>1 DEF TakeOver, TypeInv, TypeOK
<1>3. RecordType'[dup] = t /\ \A s \in Record : s # r /\ s # dup => RecordType'[s] = RecordType[s]
  BY <1>1 DEF TakeOver, TypeInv, TypeOK
<1>4. ASSUME NEW s \in ResourceRecords'
      PROVE  f[s] \in ResourceRecords /\ Data[f[s]] = Data[s]
             /\ Class(RecordType[f[s]]) = Class(RecordType'[s])
  <2>1. CASE s = dup
    BY <1>1, <1>3, <2>1
  <2>2. CASE s # dup
    BY <1>1, <1>2, <1>3, <2>2
  <2>. QED  BY <2>1, <2>2
<1>5. \A x, y \in ResourceRecords' : x # y => f[x] # f[y]
  BY <1>1, <1>2
<1>. HIDE DEF f
<1>. QED  BY <1>4, <1>5, ApartKept

LEMMA ApartClient ==
  ASSUME TypeInv, ListsInv, MainsApart, ~EarlyReuse, NEW r \in Record, ClientCall(r)
  PROVE  MainsApart'
<1>1. CASE RegisterMain(r)
  <2>1. /\ ResourceRecords' = ResourceRecords \union {r} /\ r \notin ResourceRecords
        /\ RecordType'[r] = RegisteredType(r)
        /\ \A s \in ResourceRecords : RecordType'[s] = RecordType[s]
    BY <1>1 DEF RegisterMain, RegisterChecks, SetUpRecord, TypeInv, TypeOK
  <2>2. ASSUME NEW s \in ResourceRecords, Data[s] = Data[r]
        PROVE  Class(RecordType[s]) # Class(RegisteredType(r))
    <3>1. RecordType[s] # "Deregistering"
      BY <1>1, <2>2 DEF RegisterMain, GoodbyePending
    <3>2. ~RecordLDT(RecordType[s], RegisteredType(r))
      BY <1>1, <2>2 DEF RegisterMain, Mains, RecordIsLocalDuplicate
    <3>. QED  BY <3>1, <3>2, RegisteredTypes DEF Class, RecordLDT
  <2>. QED  BY <2>1, <2>2 DEF MainsApart, Class
<1>2. CASE RegisterDuplicate(r)
  <2>1. PICK n : SetUpRecord(r, n)
    BY <1>2 DEF RegisterDuplicate
  <2>. QED
    BY <1>2, <2>1, ApartSame
    DEF RegisterDuplicate, RegisterChecks, SetUpRecord, TypeInv, TypeOK
<1>3. CASE DeregisterGoodbye(r)
  <2>1. \A s \in Record : RecordType'[s] = IF s = r THEN "Deregistering" ELSE RecordType[s]
    BY <1>3 DEF DeregisterGoodbye, TypeInv, TypeOK
  <2>2. \A s \in Record : Class(RecordType'[s]) = Class(RecordType[s])
    BY <1>3, <2>1 DEF DeregisterGoodbye, NeedsGoodbye, Class
  <2>. QED  BY <1>3, <2>2, ApartSame DEF DeregisterGoodbye, listVars, TypeInv, TypeOK
<1>4. CASE DeregisterNow(r) \/ DeregisterDuplicate(r)
  BY <1>4, ApartSame DEF DeregisterNow, DeregisterDuplicate, Cut, TypeInv, TypeOK
<1>5. CASE DeregisterHandOver(r)
  <2>1. PICK dup \in Heirs(r, RecordType[r]) :
          TakeOver(r, RecordType[r], AnnounceCount[r], dup, CurrentRecord)
    BY <1>5 DEF DeregisterHandOver
  <2>. QED  BY <1>5, <2>1, ApartTakeOver DEF DeregisterHandOver, Heirs, RecordIsLocalDuplicate
<1>. QED  BY <1>1, <1>2, <1>3, <1>4, <1>5 DEF ClientCall

LEMMA ApartStep == ~EarlyReuse => (TypeInv /\ ListsInv /\ MainsApart /\ [Next]_vars => MainsApart')
<1>. SUFFICES ASSUME ~EarlyReuse, TypeInv, ListsInv, MainsApart, [Next]_vars  PROVE MainsApart'
  OBVIOUS
<1>1. ASSUME NEW r \in Record, Walk(r)  PROVE MainsApart'
  <2>1. CASE CompleteDeregistration(r)
    <3>1. r \in ResourceRecords /\ Class("Shared") = Class(RecordType[r])
      BY <2>1 DEF CompleteDeregistration, ListsInv, ListsAgree, Class
    <3>2. CASE Heirs(r, "Shared") # {}
      <4>1. PICK dup \in Heirs(r, "Shared") :
              TakeOver(r, "Shared", InitialAnnounceCount, dup, CurrentRecord \ {r})
        BY <2>1, <3>2 DEF CompleteDeregistration
      <4>. QED  BY <3>1, <4>1, ApartTakeOver DEF Heirs, RecordIsLocalDuplicate
    <3>3. CASE Heirs(r, "Shared") = {}
      BY <2>1, <3>3, ApartSame DEF CompleteDeregistration, Cut, TypeInv, TypeOK
    <3>. QED  BY <3>2, <3>3
  <2>2. CASE PassRecord(r)
    BY <2>2, ApartSame DEF PassRecord, listVars
  <2>. QED  BY <1>1, <2>1, <2>2 DEF Walk
<1>2. ASSUME NEW r \in Record, Probing(r)  PROVE MainsApart'
  <2>1. \A s \in Record : Class(RecordType'[s]) = Class(RecordType[s])
    BY <1>2 DEF Probing, SendProbe, FinishProbing, AcknowledgeDuplicate, Class, TypeInv, TypeOK
  <2>. QED
    BY <1>2, <2>1, ApartSame
    DEF Probing, SendProbe, FinishProbing, AcknowledgeDuplicate, listVars, TypeInv, TypeOK
<1>3. ASSUME NEW r \in Record, Packet(r)  PROVE MainsApart'
  <2>1. CASE ReceiveConflictVerified(r)
    <3>1. \A s \in Record : Class(RecordType'[s]) = Class(RecordType[s])
      BY <2>1 DEF ReceiveConflictVerified, Class, TypeInv, TypeOK
    <3>. QED  BY <2>1, <3>1, ApartSame DEF ReceiveConflictVerified, listVars, TypeInv, TypeOK
  <2>2. CASE ReceiveConflictLost(r) \/ LoseTieBreak(r)
    BY <2>2, ApartSame
    DEF ReceiveConflictLost, LoseTieBreak, DeregisterConflict, Cut, TypeInv, TypeOK
  <2>3. CASE \E how : Mark(r, how)
    BY <2>3, ApartSame DEF Mark, listVars
  <2>. QED
    BY <1>3, <2>1, <2>2, <2>3 DEF Packet, ReceiveQuery, ReceiveOurAnswer, ReceiveLowTTL, ReceiveFlush
<1>4. CASE SendResponses \/ EndWalk \/ Sleep
  BY <1>4, ApartSame DEF SendResponses, EndWalk, Sleep, listVars
<1>5. CASE Wake
  <2>1. \A s \in Record : Class(RecordType'[s]) = Class(RecordType[s])
    BY <1>5 DEF Wake, Class
  <2>. QED  BY <1>5, <2>1, ApartSame DEF Wake, listVars, TypeInv, TypeOK
<1>6. CASE UNCHANGED vars
  BY <1>6, ApartSame DEF vars
<1>. QED  BY <1>1, <1>2, <1>3, <1>4, <1>5, <1>6, ApartClient DEF Next

\* As long as clients do not register again what still awaits its goodbye, the
\* engine never acts twice for the same data
THEOREM MainsAreSingle ==
  ASSUME ~EarlyReuse
  PROVE  Spec => []OneMain
<1>1. MainsApart => OneMain
  BY DEF MainsApart, OneMain, RecordIsLocalDuplicate, RecordLDT, Class
<1>2. TypeInv /\ ListsInv /\ MainsApart /\ [Next]_vars => MainsApart'
  BY ApartStep
<1>. QED  BY <1>1, <1>2, TypeInit, TypeStep, ListsInit, ListsStep, ApartInit, PTL DEF Spec

--------------------------------------------------------------------------------
(* Goodbyes *)

\* A shared record is shared until its client withdraws it
SharedTypes ==
  \A r \in ResourceRecords \union DuplicateRecords :
    Kind[r] = "Shared" => RecordType[r] \in {"Shared", "Deregistering"}

\* A goodbye that is due stays due on every link: no packet cancels it
GoodbyeMarked ==
  \A r \in ResourceRecords : RecordType[r] = "Deregistering" => ImmedAnswer[r] = "All"

\* A record that knows its data were announced, or is about to retract them
Retracts(m) == NeedsGoodbye(m) \/ (RecordType[m] = "Deregistering" /\ mode = "idle")

AnnouncedStands ==
  \A d \in announced : SharedOnly(d) => \E m \in ResourceRecords : Data[m] = d /\ Retracts(m)

GoodbyeInv == SharedTypes /\ GoodbyeMarked /\ AnnouncedStands

LEMMA GoodbyeInit == Init => GoodbyeInv
BY DEF Init, GoodbyeInv, SharedTypes, GoodbyeMarked, AnnouncedStands

\* A step that announces nothing keeps AnnouncedStands if every record that
\* retracts some data has a successor that does
LEMMA StandsKept ==
  ASSUME AnnouncedStands, announced' \subseteq announced,
         \A m \in ResourceRecords : Retracts(m) =>
           \E n \in ResourceRecords' : Data[n] = Data[m] /\ Retracts(n)'
  PROVE  AnnouncedStands'
<1>1. ASSUME NEW d \in announced', SharedOnly(d)
      PROVE  \E n \in ResourceRecords' : Data[n] = d /\ Retracts(n)'
  <2>1. PICK m \in ResourceRecords : Data[m] = d /\ Retracts(m)
    BY <1>1 DEF AnnouncedStands
  <2>. QED  BY <2>1
<1>. QED  BY <1>1 DEF AnnouncedStands, SharedOnly

\* Steps that leave lists, types, counts, mode and announcements alone, apart
\* from types that move between Unique and Verified
LEMMA GoodbyeQuiet ==
  ASSUME TypeInv, GoodbyeInv, UNCHANGED <<listVars, mode, announced>>,
         \A s \in ResourceRecords \union DuplicateRecords :
           \/ RecordType'[s] = RecordType[s]
           \/ RecordType[s] \in {"Unique", "Verified"} /\ RecordType'[s] \in {"Unique", "Verified"},
         \A s \in ResourceRecords :
           AnnounceCount[s] < InitialAnnounceCount => AnnounceCount'[s] < InitialAnnounceCount,
         \A s \in ResourceRecords : RecordType[s] = "Deregistering" /\ ImmedAnswer[s] = "All"
                                     => ImmedAnswer'[s] = "All"
  PROVE  GoodbyeInv'
<1>1. SharedTypes'
  BY DEF GoodbyeInv, SharedTypes, listVars
<1>2. GoodbyeMarked'
  BY DEF GoodbyeInv, GoodbyeMarked, listVars
<1>3. ASSUME NEW m \in ResourceRecords, Retracts(m)  PROVE Retracts(m)'
  BY <1>3 DEF Retracts, NeedsGoodbye, listVars
<1>4. AnnouncedStands'
  BY <1>3, StandsKept DEF GoodbyeInv, listVars
<1>. QED  BY <1>1, <1>2, <1>4 DEF GoodbyeInv

LEMMA GoodbyeCut ==
  ASSUME TypeInv, ListsInv, GoodbyeInv, NEW gone, Cut(gone), UNCHANGED announced,
         mode' = mode \/ mode # "idle",
         \A r \in gone \intersect ResourceRecords : ~Retracts(r)
  PROVE  GoodbyeInv'
<1>1. \A s \in (ResourceRecords \union DuplicateRecords)' :
        /\ s \in Record /\ s \notin gone /\ s \in ResourceRecords \union DuplicateRecords
        /\ RecordType'[s] = RecordType[s] /\ AnnounceCount'[s] = AnnounceCount[s]
        /\ ImmedAnswer'[s] = ImmedAnswer[s]
  BY DEF Cut, TypeInv, TypeOK
<1>2. SharedTypes'
  BY <1>1 DEF GoodbyeInv, SharedTypes
<1>3. GoodbyeMarked'
  BY <1>1 DEF GoodbyeInv, GoodbyeMarked, Cut
<1>4. ASSUME NEW m \in ResourceRecords, Retracts(m)
      PROVE  m \in ResourceRecords' /\ Retracts(m)'
  <2>1. m \in ResourceRecords'
    BY <1>4 DEF Cut
  <2>. QED  BY <1>1, <1>4, <2>1 DEF Retracts, NeedsGoodbye
<1>5. AnnouncedStands'
  BY <1>4, StandsKept DEF GoodbyeInv
<1>. QED  BY <1>2, <1>3, <1>5 DEF GoodbyeInv

LEMMA GoodbyeTakeOver ==
  ASSUME TypeInv, ListsInv, GoodbyeInv, NEW r \in ResourceRecords,
         NEW t, t # "Deregistering", NEW n, NEW walk,
         Retracts(r) => t = "Shared" /\ n < InitialAnnounceCount,
         NEW dup \in DuplicateRecords, RecordIsLocalDuplicate(dup, t, Data[r]),
         TakeOver(r, t, n, dup, walk), UNCHANGED announced, mode' = mode \/ mode # "idle"
  PROVE  GoodbyeInv'
<1>1. /\ r # dup /\ r \in Record /\ dup \in Record /\ dup \notin ResourceRecords
      /\ r \notin DuplicateRecords /\ Data[dup] = Data[r] /\ RecordLDT(RecordType[dup], t)
  BY DEF TypeInv, TypeOK, ListsInv, ListsAgree, RecordIsLocalDuplicate
<1>2. /\ ResourceRecords' = (ResourceRecords \ {r}) \union {dup}
      /\ DuplicateRecords' = DuplicateRecords \ {dup}
  BY DEF TakeOver
<1>3. RecordType'[dup] = t /\ AnnounceCount'[dup] = n
  BY <1>1 DEF TakeOver, TypeInv, TypeOK
<1>4. \A s \in (ResourceRecords \union DuplicateRecords) \ {r, dup} :
        /\ RecordType'[s] = RecordType[s] /\ AnnounceCount'[s] = AnnounceCount[s]
        /\ ImmedAnswer'[s] = ImmedAnswer[s]
  BY <1>1 DEF TakeOver, TypeInv, TypeOK
<1>5. Kind[dup] = "Shared" => t = "Shared"
  <2>1. Kind[dup] = "Shared" => RecordType[dup] \in {"Shared", "Deregistering"}
    BY DEF GoodbyeInv, SharedTypes
  <2>. QED  BY <1>1, <2>1 DEF RecordLDT
<1>6. SharedTypes'
  BY <1>1, <1>2, <1>3, <1>4, <1>5 DEF GoodbyeInv, SharedTypes
<1>7. GoodbyeMarked'
  BY <1>1, <1>2, <1>3, <1>4 DEF GoodbyeInv, GoodbyeMarked
<1>8. ASSUME NEW m \in ResourceRecords, Retracts(m)
      PROVE  \E k \in ResourceRecords' : Data[k] = Data[m] /\ Retracts(k)'
  <2>1. CASE m = r
    <3>1. Retracts(dup)'
      BY <1>3, <1>8, <2>1 DEF Retracts, NeedsGoodbye
    <3>. QED  BY <1>1, <1>2, <2>1, <3>1
  <2>2. CASE m # r
    <3>1. Retracts(m)'
      BY <1>1, <1>4, <1>8, <2>2 DEF Retracts, NeedsGoodbye
    <3>. QED  BY <1>2, <2>2, <3>1
  <2>. QED  BY <2>1, <2>2
<1>9. AnnouncedStands'
  BY <1>8, StandsKept DEF GoodbyeInv
<1>. QED  BY <1>6, <1>7, <1>9 DEF GoodbyeInv

\* A packet carries every goodbye that is due
LEMMA GoodbyeSend ==
  ASSUME TypeInv, ListsInv, GoodbyeInv, mode = "idle",
         NEW marks, NEW ttl0 \in BOOLEAN,
         \A r \in ResourceRecords : RecordType[r] = "Deregistering" => marks[r] = "All",
         SendWith(marks, ttl0), UNCHANGED <<listVars, RecordType>>
  PROVE  GoodbyeInv'
<1>1. PICK due \in SUBSET Announceable :
        \E done \in SUBSET Announcing(MarkForSending(marks, due)) :
          \E last \in SUBSET done :
            PutResponses(MarkForSending(marks, due), done, last, ttl0) /\ ClearMarks
  BY DEF SendWith
<1>. DEFINE imm == MarkForSending(marks, due)
<1>2. PICK done \in SUBSET Announcing(imm) :
        \E last \in SUBSET done : PutResponses(imm, done, last, ttl0) /\ ClearMarks
  BY <1>1
<1>3. PICK last \in SUBSET done : PutResponses(imm, done, last, ttl0) /\ ClearMarks
  BY <1>2
<1>4. \A r \in done : r \in ResourceRecords /\ r \in Record /\ AnnounceCount[r] \in 1 .. InitialAnnounceCount
  BY <1>2, CountFacts DEF Announcing, TypeInv, TypeOK
<1>5. ASSUME NEW r \in ResourceRecords, RecordType[r] = "Deregistering"
      PROVE  imm[r] = "All"
  <2>1. r \in Record /\ ~ResourceRecordIsValidAnswer(r) /\ r \notin due
    BY <1>5 DEF ResourceRecordIsValidAnswer, ActiveMask, Announceable, TypeInv, TypeOK
  <2>. QED  BY <1>5, <2>1 DEF MarkForSending, MarkRRSet
<1>. HIDE DEF imm
<1>. DEFINE sent     == {r \in ResourceRecords : imm[r] # "Null"}
            positive == IF ttl0 THEN {} ELSE {r \in sent : RecordType[r] # "Deregistering"}
            goodbyes == {Data[r] : r \in sent \ positive}
<1>6. /\ AnnounceCount' = [r \in Record |-> IF r \in last THEN 0
                                            ELSE IF r \in done THEN AnnounceCount[r] - 1
                                            ELSE AnnounceCount[r]]
      /\ announced' = (announced \ goodbyes) \union {Data[r] : r \in positive \intersect done}
  BY <1>3 DEF PutResponses
<1>7. \A r \in ResourceRecords : AnnounceCount[r] < InitialAnnounceCount \/ r \in done
                                => AnnounceCount'[r] < InitialAnnounceCount
  BY <1>4, <1>6, CountFacts DEF TypeInv, TypeOK
<1>8. ASSUME NEW d \in announced', SharedOnly(d)
      PROVE  \E m \in ResourceRecords : Data[m] = d /\ Retracts(m)'
  <2>1. CASE d \in {Data[r] : r \in positive \intersect done}
    <3>1. PICK r \in positive \intersect done : d = Data[r]
      BY <2>1
    <3>2. r \in ResourceRecords /\ r \in Record /\ RecordType[r] # "Deregistering"
      BY <1>4
    <3>3. RecordType[r] = "Shared"
      BY <1>8, <3>1, <3>2 DEF SharedOnly, GoodbyeInv, SharedTypes
    <3>4. NeedsGoodbye(r)'
      BY <1>7, <3>1, <3>2, <3>3 DEF NeedsGoodbye
    <3>. QED  BY <3>1, <3>2, <3>4 DEF Retracts
  <2>2. CASE d \in announced \ goodbyes
    <3>1. PICK m \in ResourceRecords : Data[m] = d /\ Retracts(m)
      BY <1>8, <2>2 DEF GoodbyeInv, AnnouncedStands
    <3>2. RecordType[m] # "Deregistering"
      <4>1. SUFFICES ASSUME RecordType[m] = "Deregistering"  PROVE FALSE
        OBVIOUS
      <4>2. imm[m] # "Null"
        BY <1>5, <4>1
      <4>3. m \in sent \ positive
        BY <4>1, <4>2
      <4>. QED  BY <2>2, <3>1, <4>3
    <3>3. NeedsGoodbye(m)'
      BY <1>7, <3>1, <3>2 DEF Retracts, NeedsGoodbye
    <3>. QED  BY <3>1, <3>3 DEF Retracts
  <2>. QED  BY <1>6, <1>8, <2>1, <2>2
<1>9. AnnouncedStands'
  BY <1>8 DEF AnnouncedStands, SharedOnly, listVars
<1>10. GoodbyeMarked'
  BY <1>3 DEF ClearMarks, GoodbyeInv, GoodbyeMarked, listVars, TypeInv, TypeOK
<1>11. SharedTypes'
  BY DEF GoodbyeInv, SharedTypes, listVars
<1>. QED  BY <1>9, <1>10, <1>11 DEF GoodbyeInv

LEMMA GoodbyeRegister ==
  ASSUME TypeInv, ListsInv, GoodbyeInv, NEW r \in Record, NEW n, SetUpRecord(r, n),
         r \notin ResourceRecords \union DuplicateRecords, UNCHANGED <<mode, announced>>,
         \/ ResourceRecords' = ResourceRecords /\ DuplicateRecords' = DuplicateRecords \union {r}
         \/ ResourceRecords' = ResourceRecords \union {r} /\ DuplicateRecords' = DuplicateRecords
  PROVE  GoodbyeInv'
<1>1. \A s \in ResourceRecords \union DuplicateRecords :
        /\ s # r /\ s \in Record
        /\ RecordType'[s] = RecordType[s] /\ AnnounceCount'[s] = AnnounceCount[s]
        /\ ImmedAnswer'[s] = ImmedAnswer[s]
  BY DEF SetUpRecord, TypeInv, TypeOK
<1>2. RecordType'[r] = RegisteredType(r)
  BY DEF SetUpRecord, TypeInv, TypeOK
<1>3. SharedTypes'
  BY <1>1, <1>2, RegisteredTypes DEF GoodbyeInv, SharedTypes
<1>4. GoodbyeMarked'
  BY <1>1, <1>2, RegisteredTypes DEF GoodbyeInv, GoodbyeMarked
<1>5. ASSUME NEW m \in ResourceRecords, Retracts(m)
      PROVE  m \in ResourceRecords' /\ Retracts(m)'
  BY <1>1, <1>5 DEF Retracts, NeedsGoodbye
<1>6. AnnouncedStands'
  BY <1>5, StandsKept DEF GoodbyeInv
<1>. QED  BY <1>3, <1>4, <1>6 DEF GoodbyeInv

LEMMA GoodbyeClient ==
  ASSUME ~CallbackCalls, TypeInv, ListsInv, GoodbyeInv, NEW r \in Record, ClientCall(r)
  PROVE  GoodbyeInv'
<1>1. CASE RegisterMain(r)
  BY <1>1, GoodbyeRegister DEF RegisterMain, RegisterChecks
<1>2. CASE RegisterDuplicate(r)
  <2>1. PICK n : SetUpRecord(r, n)
    BY <1>2 DEF RegisterDuplicate
  <2>. QED
    BY <1>2, <2>1, GoodbyeRegister DEF RegisterDuplicate, RegisterChecks, ctlVars
<1>3. CASE DeregisterGoodbye(r)
  <2>1. /\ r \in ResourceRecords /\ mode = "idle" /\ mode' = "idle" /\ announced' = announced
        /\ ResourceRecords' = ResourceRecords /\ DuplicateRecords' = DuplicateRecords
        /\ RecordType[r] = "Shared" /\ RecordType'[r] = "Deregistering"
        /\ ImmedAnswer'[r] = "All" /\ AnnounceCount' = AnnounceCount
    BY <1>3
    DEF DeregisterGoodbye, MayDeregister, ClientMayCall, NeedsGoodbye, TypeInv, TypeOK,
        listVars, ctlVars
  <2>2. \A s \in Record : s # r => RecordType'[s] = RecordType[s] /\ ImmedAnswer'[s] = ImmedAnswer[s]
    BY <1>3 DEF DeregisterGoodbye, TypeInv, TypeOK
  <2>3. SharedTypes'
    BY <2>1, <2>2 DEF GoodbyeInv, SharedTypes, TypeInv, TypeOK
  <2>4. GoodbyeMarked'
    BY <2>1, <2>2 DEF GoodbyeInv, GoodbyeMarked, TypeInv, TypeOK
  <2>5. ASSUME NEW m \in ResourceRecords, Retracts(m)  PROVE Retracts(m)'
    BY <2>1, <2>2, <2>5 DEF Retracts, NeedsGoodbye, TypeInv, TypeOK
  <2>6. AnnouncedStands'
    BY <2>1, <2>5, StandsKept DEF GoodbyeInv
  <2>. QED  BY <2>3, <2>4, <2>6 DEF GoodbyeInv
<1>4. CASE DeregisterNow(r)
  BY <1>4, GoodbyeCut DEF DeregisterNow, MayDeregister, Retracts
<1>5. CASE DeregisterHandOver(r)
  <2>1. PICK dup \in Heirs(r, RecordType[r]) :
          TakeOver(r, RecordType[r], AnnounceCount[r], dup, CurrentRecord)
    BY <1>5 DEF DeregisterHandOver
  <2>2. /\ r \in ResourceRecords /\ RecordType[r] # "Deregistering"
        /\ Retracts(r) => RecordType[r] = "Shared" /\ AnnounceCount[r] < InitialAnnounceCount
    BY <1>5 DEF DeregisterHandOver, MayDeregister, Retracts, NeedsGoodbye
  <2>3. dup \in DuplicateRecords /\ RecordIsLocalDuplicate(dup, RecordType[r], Data[r])
    BY <2>1 DEF Heirs
  <2>. QED  BY <1>5, <2>1, <2>2, <2>3, GoodbyeTakeOver DEF DeregisterHandOver
<1>6. CASE DeregisterDuplicate(r)
  BY <1>6, GoodbyeCut DEF DeregisterDuplicate, ListsInv, ListsAgree
<1>. QED  BY <1>1, <1>2, <1>3, <1>4, <1>5, <1>6 DEF ClientCall

LEMMA GoodbyeWalk ==
  ASSUME TypeInv, ListsInv, GoodbyeInv, NEW r \in Record, Walk(r)
  PROVE  GoodbyeInv'
<1>1. mode # "idle" /\ r \in ResourceRecords
  BY DEF Walk, CompleteDeregistration, PassRecord, ListsInv, ListsAgree
<1>2. CASE CompleteDeregistration(r)
  <2>1. ~Retracts(r)
    BY <1>1, <1>2 DEF CompleteDeregistration, Retracts, NeedsGoodbye
  <2>2. CASE Heirs(r, "Shared") # {}
    <3>1. PICK dup \in Heirs(r, "Shared") :
            TakeOver(r, "Shared", InitialAnnounceCount, dup, CurrentRecord \ {r})
      BY <1>2, <2>2 DEF CompleteDeregistration
    <3>2. dup \in DuplicateRecords /\ RecordIsLocalDuplicate(dup, "Shared", Data[r])
      BY <3>1 DEF Heirs
    <3>. QED
      BY <1>1, <1>2, <2>1, <3>1, <3>2, GoodbyeTakeOver DEF CompleteDeregistration
  <2>3. CASE Heirs(r, "Shared") = {}
    BY <1>1, <1>2, <2>1, <2>3, GoodbyeCut DEF CompleteDeregistration
  <2>. QED  BY <2>2, <2>3
<1>3. CASE PassRecord(r)
  <2>1. ResourceRecords' = ResourceRecords /\ DuplicateRecords' = DuplicateRecords
        /\ RecordType' = RecordType /\ AnnounceCount' = AnnounceCount /\ announced' = announced
        /\ RecordType[r] # "Deregistering"
        /\ \A s \in Record : s # r => ImmedAnswer'[s] = ImmedAnswer[s]
    BY <1>3 DEF PassRecord, listVars, TypeInv, TypeOK
  <2>2. SharedTypes' /\ GoodbyeMarked'
    BY <2>1 DEF GoodbyeInv, SharedTypes, GoodbyeMarked, TypeInv, TypeOK
  <2>3. AnnouncedStands'
    BY <1>1, <2>1, StandsKept DEF GoodbyeInv, Retracts, NeedsGoodbye
  <2>. QED  BY <2>2, <2>3 DEF GoodbyeInv
<1>. QED  BY <1>2, <1>3 DEF Walk

LEMMA GoodbyePacket ==
  ASSUME TypeInv, ListsInv, GoodbyeInv, NEW r \in Record, Packet(r)
  PROVE  GoodbyeInv'
<1>1. CASE ReceiveConflictVerified(r)
  BY <1>1, GoodbyeQuiet DEF ReceiveConflictVerified, TypeInv, TypeOK, ctlVars
<1>2. CASE ReceiveConflictLost(r) \/ LoseTieBreak(r)
  <2>1. /\ Cut({r} \union Heirs(r, RecordType[r])) /\ mode' = mode /\ announced' = announced
        /\ RecordType[r] \in {"Unique", "KnownUnique"}
    BY <1>2 DEF ReceiveConflictLost, LoseTieBreak, DeregisterConflict
  <2>2. ~Retracts(r)
    BY <2>1 DEF Retracts, NeedsGoodbye
  <2>3. \A s \in ({r} \union Heirs(r, RecordType[r])) \intersect ResourceRecords : s = r
    BY DEF Heirs, ListsInv, ListsAgree
  <2>. QED  BY <2>1, <2>2, <2>3, GoodbyeCut
<1>3. ASSUME NEW how, Mark(r, how), r \in ResourceRecords,
             RecordType[r] = "Deregistering" /\ ImmedAnswer[r] = "All" => how = "All"
      PROVE  GoodbyeInv'
  BY <1>3, GoodbyeQuiet DEF Mark, TypeInv, TypeOK, ctlVars
<1>4. CASE ReceiveQuery(r)
  BY <1>3, <1>4 DEF ReceiveQuery
<1>5. CASE ReceiveOurAnswer(r)
  BY <1>3, <1>5 DEF ReceiveOurAnswer
<1>6. CASE ReceiveLowTTL(r)
  BY <1>3, <1>6 DEF ReceiveLowTTL
<1>7. CASE ReceiveFlush(r)
  BY <1>3, <1>7 DEF ReceiveFlush
<1>. QED  BY <1>1, <1>2, <1>4, <1>5, <1>6, <1>7 DEF Packet

LEMMA GoodbyeStep ==
  ~CallbackCalls => (TypeInv /\ ListsInv /\ GoodbyeInv /\ [Next]_vars => GoodbyeInv')
<1>. SUFFICES ASSUME ~CallbackCalls, TypeInv, ListsInv, GoodbyeInv, [Next]_vars  PROVE GoodbyeInv'
  OBVIOUS
<1>1. ASSUME NEW r \in Record, Probing(r)  PROVE GoodbyeInv'
  BY <1>1, GoodbyeQuiet
  DEF Probing, SendProbe, FinishProbing, AcknowledgeDuplicate, TypeInv, TypeOK, ctlVars
<1>2. CASE SendResponses
  <2>1. mode = "idle" /\ SendWith(ImmedAnswer, FALSE) /\ UNCHANGED <<listVars, RecordType>>
    BY <1>2 DEF SendResponses
  <2>. QED  BY <2>1, GoodbyeSend DEF GoodbyeInv, GoodbyeMarked
<1>3. CASE EndWalk
  <2>1. \A m \in ResourceRecords : Retracts(m) => Retracts(m)'
    BY <1>3 DEF EndWalk, Retracts, NeedsGoodbye
  <2>. QED
    BY <1>3, <2>1, StandsKept
    DEF EndWalk, GoodbyeInv, SharedTypes, GoodbyeMarked, listVars
<1>4. CASE Sleep
  <2>. DEFINE marks == [r \in Record |-> IF r \in ResourceRecords /\ NeedsGoodbye(r)
                                        THEN "All" ELSE ImmedAnswer[r]]
  <2>1. \A r \in ResourceRecords : RecordType[r] = "Deregistering" => marks[r] = "All"
    BY DEF GoodbyeInv, GoodbyeMarked, TypeInv, TypeOK
  <2>2. mode = "idle" /\ SendWith(marks, TRUE) /\ UNCHANGED <<listVars, RecordType>>
    BY <1>4 DEF Sleep
  <2>. HIDE DEF marks
  <2>. QED  BY <2>1, <2>2, GoodbyeSend
<1>5. CASE Wake
  <2>1. \A s \in Record :
          \/ RecordType'[s] = RecordType[s]
          \/ RecordType[s] = "Verified" /\ RecordType'[s] = "Unique"
    BY <1>5 DEF Wake
  <2>2. \A s \in Record : AnnounceCount[s] < InitialAnnounceCount
                         => AnnounceCount'[s] < InitialAnnounceCount
    BY <1>5, CountFacts DEF Wake, TypeInv, TypeOK
  <2>. QED  BY <1>5, <2>1, <2>2, GoodbyeQuiet DEF Wake, TypeInv, TypeOK
<1>6. CASE UNCHANGED vars
  BY <1>6, GoodbyeQuiet DEF vars, listVars
<1>. QED
  BY <1>1, <1>2, <1>3, <1>4, <1>5, <1>6, GoodbyeClient, GoodbyeWalk, GoodbyePacket DEF Next

\* As long as clients do not call the engine from their MemFree callbacks, no
\* other host is left with announced data that no record of the engine stands
\* for: through hand-overs, packets, sleeps and wakes a goodbye is always sent
THEOREM GoodbyesAreSent ==
  ASSUME ~CallbackCalls
  PROVE  Spec => []AnnouncedGetsGoodbye
<1>1. GoodbyeInv => AnnouncedGetsGoodbye
  BY DEF GoodbyeInv, AnnouncedStands, AnnouncedGetsGoodbye
<1>2. TypeInv /\ ListsInv /\ GoodbyeInv /\ [Next]_vars => GoodbyeInv'
  BY GoodbyeStep
<1>. QED  BY <1>1, <1>2, TypeInit, TypeStep, ListsInit, ListsStep, GoodbyeInit, PTL DEF Spec

===============================================================================
