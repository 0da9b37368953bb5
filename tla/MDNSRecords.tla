------------------------------ MODULE MDNSRecords ------------------------------
(***************************************************************************)
(* The life of the authoritative records of one mDNS engine (mDNS.c):      *)
(* registering, probing, announcing, answering, handing a name over to a   *)
(* duplicate, saying goodbye, conflicts, sleep and wake.                   *)
(*                                                                         *)
(* Time is abstract: whether a record is due, or a multicast recent, is a  *)
(* free choice among the records whose other conditions hold.  There is    *)
(* one link.  Lists are sets: CurrentRecord is the set of records a walk   *)
(* of the list has still to visit, in an order the model leaves open.      *)
(***************************************************************************)
EXTENDS Integers

CONSTANTS
  Record,                \* AuthRecord objects, owned by clients
  NoRecord,              \* mDNSNULL
  Kind,                  \* the RecordType the client sets before registering
  Data,                  \* name, type, class and rdata of a record
  Signature,             \* name, type and class of a record
  DependentOn,           \* the record this one depends on, or NoRecord
  Additional,            \* the set of its Additional1 and Additional2
  DefaultProbeCount,     \* DefaultProbeCountForTypeUnique, 3 in the code
  InitialAnnounceCount,  \* 10 in the code
  ReannounceCount,       \* 9 in the code
  CallbackCalls,         \* clients call the API from a MemFree callback
  EarlyReuse             \* clients register data whose goodbye is pending

Kinds       == {"Unique", "Advisory", "Shared", "KnownUnique"}
UniqueMask  == {"Unique", "Verified", "KnownUnique"}
ActiveMask  == {"Advisory", "Shared", "Verified", "KnownUnique"}
RecordTypes == Kinds \union {"Unregistered", "Deregistering", "Verified"}

ASSUME RecordAssumption ==
  /\ NoRecord \notin Record
  /\ Kind \in [Record -> Kinds]
  /\ DependentOn \in [Record -> Record \union {NoRecord}]
  /\ Additional \in [Record -> SUBSET Record]
  /\ \A r \in Record : DependentOn[r] # NoRecord => Kind[r] = "Unique"
  /\ \A r, s \in Record : Data[r] = Data[s] => Signature[r] = Signature[s]

ASSUME CountAssumption ==
  /\ DefaultProbeCount \in Nat \ {0}
  /\ InitialAnnounceCount \in Nat
  /\ ReannounceCount \in Nat \ {0}
  /\ ReannounceCount < InitialAnnounceCount

ASSUME ClientAssumption == CallbackCalls \in BOOLEAN /\ EarlyReuse \in BOOLEAN

VARIABLES
  ResourceRecords,   \* m->ResourceRecords: the records the engine acts for
  DuplicateRecords,  \* m->DuplicateRecords: the same record registered again
  RecordType,
  Acknowledged,      \* the client has been given mStatus_NoError
  ProbeCount,
  AnnounceCount,
  ImmedAnswer,       \* "Null", "Link" (answer a query) or "All" (the mark)
  SleepState,
  CurrentRecord,     \* what the clean-up walk of SendResponses has not visited
  mode,              \* "idle", "walk" (in that walk) or "callback" (in a
                     \* client's MemFree callback made by it)
  probed,            \* history: probes sent since probing last started
  announced          \* history: data announced on the link and not retracted

vars == <<ResourceRecords, DuplicateRecords, RecordType, Acknowledged,
          ProbeCount, AnnounceCount, ImmedAnswer, SleepState, CurrentRecord,
          mode, probed, announced>>

listVars == <<ResourceRecords, DuplicateRecords>>
ctlVars  == <<SleepState, CurrentRecord, mode>>

Datas == {Data[r] : r \in Record}

TypeOK ==
  /\ ResourceRecords \subseteq Record
  /\ DuplicateRecords \subseteq Record
  /\ RecordType \in [Record -> RecordTypes]
  /\ Acknowledged \in [Record -> BOOLEAN]
  /\ ProbeCount \in [Record -> 0 .. DefaultProbeCount + 1]
  /\ AnnounceCount \in [Record -> 0 .. InitialAnnounceCount]
  /\ ImmedAnswer \in [Record -> {"Null", "Link", "All"}]
  /\ SleepState \in BOOLEAN
  /\ CurrentRecord \subseteq Record
  /\ mode \in {"idle", "walk", "callback"}
  /\ probed \in [Record -> 0 .. DefaultProbeCount + 1]
  /\ announced \subseteq Datas

Init ==
  /\ ResourceRecords = {}
  /\ DuplicateRecords = {}
  /\ RecordType = [r \in Record |-> "Unregistered"]
  /\ Acknowledged = [r \in Record |-> FALSE]
  /\ ProbeCount = [r \in Record |-> 0]
  /\ AnnounceCount = [r \in Record |-> 0]
  /\ ImmedAnswer = [r \in Record |-> "Null"]
  /\ SleepState = FALSE
  /\ CurrentRecord = {}
  /\ mode = "idle"
  /\ probed = [r \in Record |-> 0]
  /\ announced = {}

--------------------------------------------------------------------------------
(* Helpers *)

DefaultProbeCountForRecordType(t) ==
  IF t = "Unique" THEN DefaultProbeCount ELSE 0

ResourceRecordIsValidAnswer(r) ==
  /\ RecordType[r] \in ActiveMask
  /\ \A a \in Additional[r] : RecordType[a] \in ActiveMask
  /\ DependentOn[r] # NoRecord => RecordType[DependentOn[r]] \in ActiveMask

RecordLDT(s, t) == s = t \/ {s, t} = {"Unique", "Verified"}

\* RecordIsLocalDuplicate of a registered record and one of type t, data d
RecordIsLocalDuplicate(r, t, d) == RecordLDT(RecordType[r], t) /\ Data[r] = d

\* The duplicates that can take over from r if r has type t
Heirs(r, t) == {d \in DuplicateRecords : RecordIsLocalDuplicate(d, t, Data[r])}

\* A client calls the API from outside the engine or from a callback
ClientMayCall == mode = "idle" \/ (mode = "callback" /\ CallbackCalls)

--------------------------------------------------------------------------------
(* mDNS_Register *)

RegisteredType(r) == IF DependentOn[r] # NoRecord THEN "Verified" ELSE Kind[r]

SetUpRecord(r, probes) ==
  /\ RecordType' = [RecordType EXCEPT ![r] = RegisteredType(r)]
  /\ Acknowledged' = [Acknowledged EXCEPT ![r] = FALSE]
  /\ ProbeCount' = [ProbeCount EXCEPT ![r] = probes]
  /\ AnnounceCount' = [AnnounceCount EXCEPT ![r] = InitialAnnounceCount]
  /\ ImmedAnswer' = [ImmedAnswer EXCEPT ![r] = "Null"]
  /\ probed' = [probed EXCEPT ![r] = 0]

\* Otherwise mStatus_AlreadyRegistered or mStatus_Invalid and no change
RegisterChecks(r) ==
  /\ r \notin ResourceRecords \union DuplicateRecords
  /\ DependentOn[r] # NoRecord =>
       RecordType[DependentOn[r]] \in {"Unique", "Verified"}

\* Slip: the search looks at the wrong list
MainsOfDuplicates(r) ==
  {m \in DuplicateRecords : RecordIsLocalDuplicate(m, RegisteredType(r), Data[r])}

Mains(r) ==
  {m \in ResourceRecords : RecordIsLocalDuplicate(m, RegisteredType(r), Data[r])}

GoodbyePending(d) ==
  \E x \in ResourceRecords : RecordType[x] = "Deregistering" /\ Data[x] = d

\* The record is new: append it to ResourceRecords, where a walk that is not
\* at the end of the list will find it
RegisterMain(r) ==
  /\ ClientMayCall
  /\ EarlyReuse \/ ~GoodbyePending(Data[r])
  /\ RegisterChecks(r)
  /\ Mains(r) = {}
  /\ SetUpRecord(r, DefaultProbeCountForRecordType(RegisteredType(r)))
  /\ ResourceRecords' = ResourceRecords \union {r}
  /\ CurrentRecord' = IF CurrentRecord = {} THEN {} ELSE CurrentRecord \union {r}
  /\ UNCHANGED <<DuplicateRecords, SleepState, mode, announced>>

\* A record identical to it is registered: it goes to DuplicateRecords, with
\* nothing left to probe if that record is already verified
RegisterDuplicate(r) ==
  /\ ClientMayCall
  /\ RegisterChecks(r)
  /\ \E m \in Mains(r) :
       SetUpRecord(r, IF RecordType[m] = "Verified" THEN 0
                      ELSE DefaultProbeCountForRecordType(RegisteredType(r)))
  /\ DuplicateRecords' = DuplicateRecords \union {r}
  /\ UNCHANGED <<ResourceRecords, ctlVars, announced>>

--------------------------------------------------------------------------------
(* mDNS_Deregister_internal *)

\* Records leave their lists, and a walk that was to visit them goes past them.
\* Their fields are their clients' business now: back to their initial values
Cut(gone) ==
  /\ ResourceRecords' = ResourceRecords \ gone
  /\ DuplicateRecords' = DuplicateRecords \ gone
  /\ RecordType' = [r \in Record |-> IF r \in gone THEN "Unregistered" ELSE RecordType[r]]
  /\ Acknowledged' = [r \in Record |-> r \notin gone /\ Acknowledged[r]]
  /\ ProbeCount' = [r \in Record |-> IF r \in gone THEN 0 ELSE ProbeCount[r]]
  /\ AnnounceCount' = [r \in Record |-> IF r \in gone THEN 0 ELSE AnnounceCount[r]]
  /\ ImmedAnswer' = [r \in Record |-> IF r \in gone THEN "Null" ELSE ImmedAnswer[r]]
  /\ probed' = [r \in Record |-> IF r \in gone THEN 0 ELSE probed[r]]
  /\ CurrentRecord' = CurrentRecord \ gone

\* Slip: the duplicate goes on with its own count of probes
TakeOverOwnProbes(r, t, n, dup, walk) ==
  /\ ResourceRecords' = (ResourceRecords \ {r}) \union {dup}
  /\ DuplicateRecords' = DuplicateRecords \ {dup}
  /\ RecordType' = [RecordType EXCEPT ![dup] = t, ![r] = "Unregistered"]
  /\ AnnounceCount' = [AnnounceCount EXCEPT ![dup] = n]
  /\ CurrentRecord' = walk \ {r}
  /\ UNCHANGED <<Acknowledged, ProbeCount, ImmedAnswer, probed>>

\* dup takes the place of r, of type t and announce count n, in the list (and
\* so in a walk still to visit r) and all its state but Acknowledged
TakeOver(r, t, n, dup, walk) ==
  /\ ResourceRecords' = (ResourceRecords \ {r}) \union {dup}
  /\ DuplicateRecords' = DuplicateRecords \ {dup}
  /\ RecordType' = [RecordType EXCEPT ![dup] = t, ![r] = "Unregistered"]
  /\ Acknowledged' = [Acknowledged EXCEPT ![r] = FALSE]
  /\ ProbeCount' = [ProbeCount EXCEPT ![dup] = ProbeCount[r], ![r] = 0]
  /\ AnnounceCount' = [AnnounceCount EXCEPT ![dup] = n, ![r] = 0]
  /\ ImmedAnswer' = [ImmedAnswer EXCEPT ![dup] = ImmedAnswer[r], ![r] = "Null"]
  /\ probed' = [probed EXCEPT ![dup] = probed[r], ![r] = 0]
  /\ CurrentRecord' = IF r \in walk THEN (walk \ {r}) \union {dup} ELSE walk

\* Slip: waking up is taken for never having announced
NeedsGoodbyeSinceWake(r) == RecordType[r] = "Shared" /\ AnnounceCount[r] < ReannounceCount

NeedsGoodbye(r) == RecordType[r] = "Shared" /\ AnnounceCount[r] < InitialAnnounceCount

\* A client deregisters a record once: the code lets it deregister one that
\* is already "Deregistering", which drops the goodbye
MayDeregister(r) == ClientMayCall /\ RecordType[r] # "Deregistering"

\* An active record with no duplicate, announced and shared: retract it first
DeregisterGoodbye(r) ==
  /\ r \in ResourceRecords
  /\ MayDeregister(r)
  /\ Heirs(r, RecordType[r]) = {}
  /\ NeedsGoodbye(r)
  /\ RecordType' = [RecordType EXCEPT ![r] = "Deregistering"]
  /\ ImmedAnswer' = [ImmedAnswer EXCEPT ![r] = "All"]
  /\ UNCHANGED <<listVars, Acknowledged, ProbeCount, AnnounceCount, ctlVars,
                 probed, announced>>

\* Slip: a walk keeps its pointer to a record that a client takes away
DeregisterWithoutBump(r) ==
  /\ r \in ResourceRecords
  /\ MayDeregister(r)
  /\ Heirs(r, RecordType[r]) = {}
  /\ ~NeedsGoodbye(r)
  /\ ResourceRecords' = ResourceRecords \ {r}
  /\ RecordType' = [RecordType EXCEPT ![r] = "Unregistered"]
  /\ UNCHANGED <<DuplicateRecords, Acknowledged, ProbeCount, AnnounceCount,
                 ImmedAnswer, ctlVars, probed, announced>>

\* An active record with no duplicate that needs no goodbye
DeregisterNow(r) ==
  /\ r \in ResourceRecords
  /\ MayDeregister(r)
  /\ Heirs(r, RecordType[r]) = {}
  /\ ~NeedsGoodbye(r)
  /\ Cut({r})
  /\ UNCHANGED <<SleepState, mode, announced>>

\* An active record with a duplicate: the duplicate takes over, no goodbye
DeregisterHandOver(r) ==
  /\ r \in ResourceRecords
  /\ MayDeregister(r)
  /\ \E dup \in Heirs(r, RecordType[r]) :
       TakeOver(r, RecordType[r], AnnounceCount[r], dup, CurrentRecord)
  /\ UNCHANGED <<SleepState, mode, announced>>

\* A record on the duplicate list: no goodbye, whatever its type
DeregisterDuplicate(r) ==
  /\ r \in DuplicateRecords
  /\ MayDeregister(r)
  /\ Cut({r})
  /\ UNCHANGED <<SleepState, mode, announced>>

\* Slip: the duplicates of a record that lost a conflict are left alone
DeregisterConflictAlone(r) ==
  /\ Cut({r})
  /\ UNCHANGED <<SleepState, mode, announced>>

\* mDNS_Dereg_conflict: the record and its duplicates go, each client being
\* told of the conflict
DeregisterConflict(r) ==
  /\ Cut({r} \union Heirs(r, RecordType[r]))
  /\ UNCHANGED <<SleepState, mode, announced>>

--------------------------------------------------------------------------------
(* SendResponses and the walk that ends it *)

\* 1. Which records go out, and on how many links: a record of a unique set
\* takes every valid record of its signature along
UniqueMarked(r, marks, how) ==
  \E u \in ResourceRecords :
    RecordType[u] \in UniqueMask /\ Signature[u] = Signature[r] /\ marks[u] = how

MarkRRSet(marks) ==
  [r \in Record |->
     IF r \notin ResourceRecords \/ ~ResourceRecordIsValidAnswer(r) THEN marks[r]
     ELSE IF UniqueMarked(r, marks, "All") THEN "All"
     ELSE IF marks[r] = "Null" /\ UniqueMarked(r, marks, "Link") THEN "Link"
     ELSE marks[r]]

MarkForSending(marks, due) == MarkRRSet([r \in Record |-> IF r \in due THEN "All" ELSE marks[r]])

Announceable == {r \in ResourceRecords : AnnounceCount[r] > 0 /\ ResourceRecordIsValidAnswer(r)}

\* Of the records sent on every link, those that had announcements to make
\* Slip: the count is not looked at
AnnouncingUncounted(marks) == {r \in ResourceRecords : marks[r] = "All"}

Announcing(marks) == {r \in ResourceRecords : marks[r] = "All" /\ AnnounceCount[r] > 0}

\* 2. The packets.  done: the records whose announcement this is; last: those
\* of them whose announcements are then over; ttl0: the machine goes to sleep.
\* A record that awaits its goodbye is older in the list than one that was
\* registered since with the same data, so the newer one has the last word
PutResponses(marks, done, last, ttl0) ==
  LET sent     == {r \in ResourceRecords : marks[r] # "Null"}
      positive == IF ttl0 THEN {} ELSE {r \in sent : RecordType[r] # "Deregistering"}
      goodbyes == {Data[r] : r \in sent \ positive}
  IN /\ AnnounceCount' = [r \in Record |-> IF r \in last THEN 0
                                           ELSE IF r \in done THEN AnnounceCount[r] - 1
                                           ELSE AnnounceCount[r]]
     /\ announced' = (announced \ goodbyes) \union {Data[r] : r \in positive \intersect done}

\* 3. Every mark is cleared but those of the records about to be disposed of
ClearMarks ==
  ImmedAnswer' = [r \in Record |-> IF r \in ResourceRecords /\ RecordType[r] # "Deregistering"
                                   THEN "Null" ELSE ImmedAnswer[r]]

StartWalk ==
  IF \E r \in ResourceRecords : RecordType[r] = "Deregistering"
  THEN CurrentRecord' = ResourceRecords /\ mode' = "walk"
  ELSE UNCHANGED <<CurrentRecord, mode>>

SendWith(marks, ttl0) ==
  \E due \in SUBSET Announceable :
    LET imm == MarkForSending(marks, due) IN
    \E done \in SUBSET Announcing(imm) :
      \E last \in SUBSET done :
        /\ due \subseteq done
        /\ PutResponses(imm, done, last, ttl0)
        /\ ClearMarks
        /\ StartWalk

\* Slip: only announcements are scheduled, deregistering schedules nothing
SendResponsesIfAnnouncing ==
  /\ mode = "idle"
  /\ ~SleepState
  /\ Announceable # {}
  /\ SendWith(ImmedAnswer, FALSE)
  /\ UNCHANGED <<listVars, RecordType, Acknowledged, ProbeCount, SleepState, probed>>

SendResponses ==
  /\ mode = "idle"
  /\ ~SleepState
  /\ SendWith(ImmedAnswer, FALSE)
  /\ UNCHANGED <<listVars, RecordType, Acknowledged, ProbeCount, SleepState, probed>>

\* CompleteDeregistration: the record becomes Shared and never announced, and
\* is deregistered once more, so that a duplicate may take over
CompleteDeregistration(r) ==
  /\ r \in CurrentRecord
  /\ RecordType[r] = "Deregistering"
  /\ mode' = "callback"
  /\ IF Heirs(r, "Shared") # {}
     THEN \E dup \in Heirs(r, "Shared") :
            TakeOver(r, "Shared", InitialAnnounceCount, dup, CurrentRecord \ {r})
     ELSE Cut({r})
  /\ UNCHANGED <<SleepState, announced>>

PassRecord(r) ==
  /\ r \in CurrentRecord
  /\ RecordType[r] # "Deregistering"
  /\ CurrentRecord' = CurrentRecord \ {r}
  /\ mode' = "walk"
  /\ ImmedAnswer' = [ImmedAnswer EXCEPT ![r] = "Null"]
  /\ UNCHANGED <<listVars, RecordType, Acknowledged, ProbeCount, AnnounceCount,
                 SleepState, probed, announced>>

EndWalk ==
  /\ mode # "idle"
  /\ CurrentRecord = {}
  /\ mode' = "idle"
  /\ UNCHANGED <<listVars, RecordType, Acknowledged, ProbeCount, AnnounceCount,
                 ImmedAnswer, SleepState, CurrentRecord, probed, announced>>

--------------------------------------------------------------------------------
(* SendQueries, its probing half: one step per record that is due *)

\* Slip: the last probe is never sent
SendProbeButLast(r) ==
  /\ mode = "idle"
  /\ ~SleepState
  /\ r \in ResourceRecords
  /\ RecordType[r] = "Unique"
  /\ ProbeCount[r] > 1
  /\ ProbeCount' = [ProbeCount EXCEPT ![r] = @ - 1]
  /\ probed' = [probed EXCEPT ![r] = @ + 1]
  /\ UNCHANGED <<listVars, RecordType, Acknowledged, AnnounceCount, ImmedAnswer,
                 ctlVars, announced>>

SendProbe(r) ==
  /\ mode = "idle"
  /\ ~SleepState
  /\ r \in ResourceRecords
  /\ RecordType[r] = "Unique"
  /\ ProbeCount[r] > 0
  /\ ProbeCount' = [ProbeCount EXCEPT ![r] = @ - 1]
  /\ probed' = [probed EXCEPT ![r] = @ + 1]
  /\ UNCHANGED <<listVars, RecordType, Acknowledged, AnnounceCount, ImmedAnswer,
                 ctlVars, announced>>

\* CompleteProbing tells the client, once
FinishProbing(r) ==
  /\ mode = "idle"
  /\ ~SleepState
  /\ r \in ResourceRecords
  /\ RecordType[r] = "Unique"
  /\ ProbeCount[r] = 0
  /\ RecordType' = [RecordType EXCEPT ![r] = "Verified"]
  /\ ProbeCount' = [d \in Record |->
                      IF d \in Heirs(r, "Verified") /\ RecordType[d] = "Unique"
                      THEN 0 ELSE ProbeCount[d]]
  /\ Acknowledged' = [Acknowledged EXCEPT ![r] = TRUE]
  /\ UNCHANGED <<listVars, AnnounceCount, ImmedAnswer, ctlVars, probed, announced>>

\* The second loop: duplicates that have nothing left to probe
AcknowledgeDuplicate(d) ==
  /\ mode = "idle"
  /\ ~SleepState
  /\ d \in DuplicateRecords
  /\ RecordType[d] = "Unique"
  /\ ProbeCount[d] = 0
  /\ ~Acknowledged[d]
  /\ Acknowledged' = [Acknowledged EXCEPT ![d] = TRUE]
  /\ UNCHANGED <<listVars, RecordType, ProbeCount, AnnounceCount, ImmedAnswer,
                 ctlVars, probed, announced>>

--------------------------------------------------------------------------------
(* Packets from the other hosts of the link *)

\* Only the mark of record r changes
Mark(r, how) ==
  /\ ImmedAnswer' = [ImmedAnswer EXCEPT ![r] = how]
  /\ UNCHANGED <<listVars, RecordType, Acknowledged, ProbeCount, AnnounceCount,
                 ctlVars, probed, announced>>

\* ProcessQuery: a query for a record not multicast in the last second
ReceiveQuery(r) ==
  /\ mode = "idle"
  /\ r \in ResourceRecords
  /\ ResourceRecordIsValidAnswer(r)
  /\ ImmedAnswer[r] = "Null"
  /\ Mark(r, "Link")

\* A known answer of a query, or the very answer in a response, makes ours
\* superfluous if it is to go out on that link only
ReceiveOurAnswer(r) ==
  /\ mode = "idle"
  /\ r \in ResourceRecords
  /\ ImmedAnswer[r] = "Link"
  /\ Mark(r, "Null")

\* mDNSCoreReceiveResponse: our record, with less than half of our TTL (the
\* TTL of a record on its way out is 0); its type is not looked at
ReceiveLowTTL(r) ==
  /\ mode = "idle"
  /\ ~SleepState
  /\ r \in ResourceRecords
  /\ RecordType[r] # "Deregistering"
  /\ ImmedAnswer[r] = "Null"
  /\ Mark(r, "Link")

\* mDNSCoreReceiveResponse: a record with the cache-flush bit that would push
\* ours out of the caches of others, and is no conflict: ours does not detect
\* conflicts, or the packet's is one of ours too, or it is a goodbye
ReceiveFlush(r) ==
  /\ mode = "idle"
  /\ r \in ResourceRecords
  /\ Mark(r, "All")

\* PacketRRConflict, of a packet record that is no goodbye and none of ours: r
\* is unique and does not leave conflicts to another record
CanConflict(r) ==
  /\ r \in ResourceRecords
  /\ RecordType[r] \in UniqueMask
  /\ DependentOn[r] = NoRecord

\* A record with our name and other data.  A verified record probes again, with
\* one probe more, so that the packets of one conflict count once
ReceiveConflictVerified(r) ==
  /\ mode = "idle"
  /\ CanConflict(r)
  /\ RecordType[r] = "Verified"
  /\ RecordType' = [RecordType EXCEPT ![r] = "Unique"]
  /\ ProbeCount' = [ProbeCount EXCEPT ![r] = DefaultProbeCount + 1]
  /\ probed' = [probed EXCEPT ![r] = 0]
  /\ UNCHANGED <<listVars, Acknowledged, AnnounceCount, ImmedAnswer, ctlVars, announced>>

\* One that is probing, or was taken to be unique, is given up
ReceiveConflictLost(r) ==
  /\ mode = "idle"
  /\ CanConflict(r)
  /\ RecordType[r] \in {"Unique", "KnownUnique"}
  /\ ProbeCount[r] <= DefaultProbeCount
  /\ DeregisterConflict(r)

\* ResolveSimultaneousProbe: another host probes for the name and wins
LoseTieBreak(r) ==
  /\ mode = "idle"
  /\ CanConflict(r)
  /\ RecordType[r] = "Unique"
  /\ DeregisterConflict(r)

--------------------------------------------------------------------------------
(* mDNSCoreMachineSleep *)

\* Retract the shared records that have been announced; the TTL of every
\* record sent is 0
Sleep ==
  /\ mode = "idle"
  /\ ~SleepState
  /\ SleepState' = TRUE
  /\ SendWith([r \in Record |-> IF r \in ResourceRecords /\ NeedsGoodbye(r)
                                THEN "All" ELSE ImmedAnswer[r]], TRUE)
  /\ UNCHANGED <<listVars, RecordType, Acknowledged, ProbeCount, probed>>

\* Probe and announce everything again; ReannounceCount keeps in mind that a
\* record has been announced.  It may be called without having slept
Wake ==
  /\ mode = "idle"
  /\ SleepState' = FALSE
  /\ LET reprobe == {r \in ResourceRecords :
                       RecordType[r] = "Verified" /\ DependentOn[r] = NoRecord}
     IN /\ RecordType' = [r \in Record |-> IF r \in reprobe THEN "Unique" ELSE RecordType[r]]
        /\ ProbeCount' = [r \in Record |->
             IF r \in ResourceRecords THEN DefaultProbeCountForRecordType(RecordType'[r])
             ELSE ProbeCount[r]]
        /\ probed' = [r \in Record |->
             IF r \in ResourceRecords THEN 0 ELSE probed[r]]
  /\ AnnounceCount' = [r \in Record |->
       IF r \in ResourceRecords /\ AnnounceCount[r] < ReannounceCount
       THEN ReannounceCount ELSE AnnounceCount[r]]
  /\ UNCHANGED <<listVars, Acknowledged, ImmedAnswer, CurrentRecord, mode, announced>>

--------------------------------------------------------------------------------
ClientCall(r) ==
  \/ RegisterMain(r)
  \/ RegisterDuplicate(r)
  \/ DeregisterGoodbye(r)
  \/ DeregisterNow(r)
  \/ DeregisterHandOver(r)
  \/ DeregisterDuplicate(r)

Walk(r) == CompleteDeregistration(r) \/ PassRecord(r)

Probing(r) == SendProbe(r) \/ FinishProbing(r) \/ AcknowledgeDuplicate(r)

Packet(r) ==
  \/ ReceiveQuery(r)
  \/ ReceiveOurAnswer(r)
  \/ ReceiveLowTTL(r)
  \/ ReceiveFlush(r)
  \/ ReceiveConflictVerified(r)
  \/ ReceiveConflictLost(r)
  \/ LoseTieBreak(r)

Next ==
  \/ \E r \in Record : ClientCall(r) \/ Walk(r) \/ Probing(r) \/ Packet(r)
  \/ SendResponses
  \/ EndWalk
  \/ Sleep
  \/ Wake

\* mDNS_Execute is called when something is due, and sends the probes that are
\* due whenever it is: a walk only puts that off.  Callbacks return
Fairness ==
  /\ WF_vars(SendResponses)
  /\ WF_vars(EndWalk \/ \E r \in Record : Walk(r))
  /\ \A r \in Record : SF_vars(SendProbe(r) \/ FinishProbing(r))

Spec == Init /\ [][Next]_vars

FairSpec == Spec /\ Fairness

--------------------------------------------------------------------------------
(* What must hold *)

\* A record is in a list exactly while it is registered, in one list only, and
\* a walk never goes on to a record that has left the list: its client may
\* have freed it (mDNS_Deregister_internal, the bump of m->CurrentRecord)
ListsAgree ==
  /\ ResourceRecords \intersect DuplicateRecords = {}
  /\ \A r \in Record :
       RecordType[r] = "Unregistered" <=> r \notin ResourceRecords \union DuplicateRecords
  /\ CurrentRecord \subseteq ResourceRecords

\* A duplicate always has a record to stand in for: no sequence of conflicts,
\* deregistrations, sleeps and hand-overs leaves one on the duplicate list that
\* nobody would ever announce
DuplicateHasMain ==
  \A d \in DuplicateRecords : \E m \in ResourceRecords :
    RecordIsLocalDuplicate(m, RecordType[d], Data[d])

\* mDNS_Register_internal makes sure a record "is not identical to one we
\* already have": two records the engine acts for are never duplicates of one
\* another, or the goodbye of one would retract the other
OneMain ==
  \A r, s \in ResourceRecords :
    /\ r # s
    /\ RecordType[r] # "Deregistering"
    => ~RecordIsLocalDuplicate(r, RecordType[s], Data[s])

\* Data that only shared records carry
SharedOnly(d) == \A r \in Record : Data[r] = d => Kind[r] = "Shared"

\* "If this is a shared record and we've announced it at least once, we need to
\* retract that announcement before we delete the record": other hosts are
\* never left with announced data that no record of the list stands for
AnnouncedGetsGoodbye ==
  \A d \in announced : SharedOnly(d) => \E m \in ResourceRecords : Data[m] = d

\* A record that detects its own conflicts is taken to be unique only after
\* the full number of probes since it last had reason to doubt it, through
\* whichever hand-overs, conflicts, sleeps and wakes
VerifiedMeansProbed ==
  \A r \in ResourceRecords :
    RecordType[r] = "Verified" /\ DependentOn[r] = NoRecord
    => probed[r] >= DefaultProbeCount

\* A deregistration that waits for its goodbye completes, unless the machine
\* is asleep: SleepState stops mDNS_Execute until the machine wakes
DeregistrationCompletes ==
  \A r \in Record :
    RecordType[r] = "Deregistering" ~> RecordType[r] # "Deregistering" \/ SleepState

\* Probing comes to an end, one way or the other, if interfaces do not come
\* up for ever and the machine does not sleep
ProbingEnds ==
  <>[][~Wake]_vars =>
    \A r \in Record : RecordType[r] = "Unique" /\ r \in ResourceRecords
                       ~> RecordType[r] # "Unique" \/ SleepState

================================================================================
