------------------------------ MODULE MDNSSchedule ------------------------------
(***************************************************************************)
(* The clockwork of the engine (mDNS.c): the lock, the times of the next   *)
(* query, probe and response, and mDNS_Execute, which does what is due.    *)
(*                                                                         *)
(* A time is kept as its distance from now, which is 0, and goes down as   *)
(* time passes; one that is long past stays at -Half, where the signed     *)
(* difference of the code would wrap.  TimesInRange says that no time that *)
(* is still compared comes near it.                                        *)
(*                                                                         *)
(* Clients call the engine when it rests and from its callbacks.  m holds  *)
(* the fields of struct mDNS that matter here; an operator on it stands    *)
(* for the function whose name it has.                                     *)
(***************************************************************************)
EXTENDS Integers, Sequences, FiniteSets

CONSTANTS
  Record, Question,
  Probed,                       \* records registered as kDNSRecordTypeUnique
  Needs,                        \* records whose validity a record needs: DependentOn,
                                \* Additional1, Additional2
  Half,                         \* 2^31
  Horizon,                      \* 0x78000000
  CacheHorizon,                 \* 0x3FFFFFFF
  OneSecond, TenthSecond,
  MaxQuestionInterval,          \* an hour
  HasCache,                     \* rrcache_size is not 0
  DefaultProbeCountForTypeUnique,
  InitialAnnounceCount,
  Credits,                      \* UpdateCredits a record may have left: some of 0..10
  MaxDepth,                     \* bound: callbacks within callbacks
  NotSet                        \* SuppressProbes, SuppressSending: 0 in the code

ASSUME ScheduleAssumption ==
  /\ Probed \subseteq Record
  /\ Needs \in [Record -> SUBSET Record]
  /\ {Half, Horizon, CacheHorizon, OneSecond, TenthSecond, MaxQuestionInterval,
      DefaultProbeCountForTypeUnique, InitialAnnounceCount,
      MaxDepth} \subseteq Nat \ {0}
  /\ OneSecond >= 4 /\ Horizon < Half
  /\ Credits \subseteq 0..10
  /\ HasCache \in BOOLEAN
  /\ NotSet \notin Int

VARIABLES
  m,
  walk,    \* of mDNS_Execute: "none", or over the records in "SendQueries" or
           \* "SendResponses"
  left,    \* records the walk has not come to
  frames   \* callbacks clients are in: made by the "walk" or by a "call" of theirs

vars == <<m, walk, left, frames>>

ProbeInterval           == OneSecond \div 4
AnnounceInterval        == OneSecond \div 2
InitialQuestionInterval == OneSecond \div 2
ReannounceCount         == InitialAnnounceCount - 1
ProbeFailureDelay       == 5 * OneSecond

Off == [RecordType |-> "None", ProbeCount |-> 0, AnnounceCount |-> 0,
        LastAPTime |-> 0, ThisAPInterval |-> 0, ImmedAnswer |-> FALSE,
        UpdateBlocked |-> NotSet]

NotAsked == [asked |-> FALSE, LastQTime |-> 0, ThisQInterval |-> 0]

Init ==
  /\ m = [timenow_last |-> 0, timenow_adjust |-> 0, mDNS_busy |-> 0, mDNS_reentrancy |-> 0,
          NextScheduledEvent |-> 0, SuppressSending |-> 0, NextCacheCheck |-> Horizon,
          NextScheduledQuery |-> Horizon, NextScheduledProbe |-> Horizon,
          NextScheduledResponse |-> Horizon, SuppressProbes |-> NotSet,
          NewQuestions |-> {}, sending |-> FALSE,
          rec |-> [r \in Record |-> Off], qst |-> [q \in Question |-> NotAsked]]
  /\ walk = "none"
  /\ left = {}
  /\ frames = <<>>

--------------------------------------------------------------------------------
(* Times *)

Due(t) == t <= 0

Sooner(next, t) == IF t <= next THEN t ELSE next

\* The soonest of a set of times; a far time if there is none
Soonest(times) == CHOOSE t \in times \union {Horizon} : \A u \in times \union {Horizon} : t <= u

Later(t, d) == IF t = NotSet THEN NotSet ELSE IF t - d < -Half THEN -Half ELSE t - d

RecordLater(rec, d) ==
  IF rec = Off THEN Off
  ELSE [rec EXCEPT !.LastAPTime = Later(@, d), !.UpdateBlocked = Later(@, d)]

QuestionLater(qst, d) == IF qst.asked THEN [qst EXCEPT !.LastQTime = Later(@, d)] ELSE qst

\* d ticks go by
Pass(k, d) ==
  [k EXCEPT !.timenow_last = Later(@, d),
            !.NextScheduledEvent = Later(@, d),
            !.SuppressSending = Later(@, d),
            !.NextCacheCheck = Later(@, d),
            !.NextScheduledQuery = Later(@, d),
            !.NextScheduledProbe = Later(@, d),
            !.NextScheduledResponse = Later(@, d),
            !.SuppressProbes = IF @ = NotSet THEN NotSet
                               ELSE IF @ < d THEN NotSet ELSE @ - d,
            !.rec = [r \in Record |-> RecordLater(k.rec[r], d)],
            !.qst = [q \in Question |-> QuestionLater(k.qst[q], d)]]

--------------------------------------------------------------------------------
(* The lock *)

\* An activation has one time.  A clock that went backwards is corrected: time goes on
\* where it was
mDNS_Lock(k) ==
  LET back == k.timenow_last
      k1   == IF k.mDNS_busy = 0 /\ back > 0
              THEN [Pass(k, back) EXCEPT !.timenow_adjust = @ + back] ELSE k
  IN [k1 EXCEPT !.timenow_last = 0,
                !.mDNS_busy = @ + 1]

GetNextScheduledEvent(k) ==
  IF k.NewQuestions # {} THEN 0
  ELSE IF k.SuppressSending # NotSet THEN k.SuppressSending
  ELSE Soonest({k.NextCacheCheck, k.NextScheduledQuery, k.NextScheduledProbe,
                k.NextScheduledResponse})

mDNS_Unlock(k) ==
  IF k.mDNS_busy > 1 THEN [k EXCEPT !.mDNS_busy = @ - 1]
  ELSE [k EXCEPT !.mDNS_busy = 0,
                 !.NextScheduledEvent = GetNextScheduledEvent(k)]

--------------------------------------------------------------------------------
(* Records *)

Registered(k) == {r \in Record : k.rec[r].RecordType # "None"}

ResourceRecordIsValidAnswer(k, r) ==
  \A s \in Needs[r] \union {r} : k.rec[s].RecordType \in {"Shared", "Verified"}

APTime(k, r) == k.rec[r].LastAPTime + k.rec[r].ThisAPInterval

TimeToAnnounce(k, r, t) ==
  /\ k.rec[r].AnnounceCount > 0
  /\ APTime(k, r) <= t
  /\ ResourceRecordIsValidAnswer(k, r)

SetNextAnnounceProbeTime(k, r) ==
  IF k.rec[r].RecordType = "Unique"
  THEN [k EXCEPT !.NextScheduledProbe = Sooner(@, APTime(k, r))]
  ELSE IF k.rec[r].AnnounceCount > 0 /\ ResourceRecordIsValidAnswer(k, r)
  THEN [k EXCEPT !.NextScheduledResponse = Sooner(@, APTime(k, r))]
  ELSE k

\* The first probe is put off to go along with other packets
InitializeLastAPTime(k, r) ==
  LET past  == IF k.SuppressProbes = NotSet THEN TRUE ELSE k.SuppressProbes < 0
      first == IF past
               THEN Sooner(Sooner(ProbeInterval, k.NextScheduledProbe), k.NextScheduledQuery)
               ELSE k.SuppressProbes
      int   == k.rec[r].ThisAPInterval
      delay == IF k.rec[r].RecordType = "Unique" THEN 0
               ELSE ProbeInterval * DefaultProbeCountForTypeUnique + int \div 2
  IN SetNextAnnounceProbeTime(
       [k EXCEPT !.SuppressProbes = first,
                 !.rec[r].LastAPTime = first + delay - int], r)

Register(k, r) ==
  LET type == IF r \in Probed THEN "Unique" ELSE "Shared"
  IN InitializeLastAPTime(
       [k EXCEPT !.rec[r] =
          [RecordType     |-> type,
           ProbeCount     |-> IF r \in Probed THEN DefaultProbeCountForTypeUnique ELSE 0,
           AnnounceCount  |-> InitialAnnounceCount,
           LastAPTime     |-> 0,
           ThisAPInterval |-> IF r \in Probed THEN ProbeInterval ELSE AnnounceInterval,
           ImmedAnswer    |-> FALSE,
           UpdateBlocked  |-> NotSet]], r)

\* A shared record that was announced stays for its goodbye
NeedsGoodbye(k, r) ==
  k.rec[r].RecordType = "Shared" /\ k.rec[r].AnnounceCount < InitialAnnounceCount

Retract(k, r) ==
  [k EXCEPT !.rec[r].RecordType = "Deregistering",
            !.rec[r].ImmedAnswer = TRUE,
            !.NextScheduledResponse = Sooner(@, TenthSecond)]

Delete(k, r) == [k EXCEPT !.rec[r] = Off]

RecordProbeFailure(k, slow) ==
  IF slow THEN [k EXCEPT !.SuppressProbes = ProbeFailureDelay] ELSE k

\* A verified record must probe again
Reprobe(k, r) ==
  InitializeLastAPTime([k EXCEPT !.rec[r].RecordType = "Unique",
                                 !.rec[r].ProbeCount = DefaultProbeCountForTypeUnique + 1,
                                 !.rec[r].ThisAPInterval = ProbeInterval], r)

\* By what an update delays announcements, if few credits are left
UpdateDelay(credits) == OneSecond * <<32, 16, 8, 4, 2, 1>>[credits + 1]

\* The delay counts from the first update that is blocked
Block(k, r, delay) ==
  LET until == IF k.rec[r].UpdateBlocked = NotSet THEN delay ELSE k.rec[r].UpdateBlocked
  IN [k EXCEPT !.rec[r].UpdateBlocked = until,
               !.rec[r].LastAPTime = until,
               !.rec[r].ThisAPInterval = 4 * @]

\* mDNS_Update with data that are new
Update(k, r, credits) ==
  LET type == k.rec[r].RecordType
      k1   == InitializeLastAPTime(
                [k EXCEPT !.rec[r].AnnounceCount = IF @ < ReannounceCount THEN ReannounceCount ELSE @,
                          !.rec[r].ThisAPInterval = IF type = "Unique" THEN ProbeInterval
                                                    ELSE AnnounceInterval], r)
      k2   == [k1 EXCEPT !.rec[r].AnnounceCount = IF @ > credits + 1 THEN credits + 1 ELSE @]
  IN IF credits > 5 THEN k2 ELSE Block(k2, r, UpdateDelay(credits))

--------------------------------------------------------------------------------
(* Questions *)

QTime(k, q) == k.qst[q].LastQTime + k.qst[q].ThisQInterval

Asked(k) == {q \in Question : k.qst[q].asked}

StartQuery(k, q, RandomQueryDelay) ==
  LET k1 == [k EXCEPT !.qst[q] = [asked         |-> TRUE,
                                  LastQTime     |-> -RandomQueryDelay,
                                  ThisQInterval |-> 2 * InitialQuestionInterval],
                      !.NewQuestions = @ \union {q}]
  IN [k1 EXCEPT !.NextScheduledQuery = Sooner(@, QTime(k1, q))]

StopQuery(k, q) == [k EXCEPT !.qst[q] = NotAsked, !.NewQuestions = @ \ {q}]

\* Questions the cache does not answer go out at once
AnswerNewQuestions(k, known) ==
  LET asks == k.NewQuestions \ known
  IN [k EXCEPT !.NewQuestions = {},
               !.qst = [q \in Question |->
                          IF q \in asks
                          THEN [asked         |-> TRUE,
                                LastQTime     |-> -InitialQuestionInterval,
                                ThisQInterval |-> InitialQuestionInterval]
                          ELSE @[q]],
               !.NextScheduledQuery = IF asks = {} THEN @ ELSE 0]

\* The questions that are due are sent, and those of no longer interval that are half
\* way there
SendsQuestion(k, q) ==
  /\ q \in Asked(k)
  /\ \/ Due(QTime(k, q))
     \/ /\ QTime(k, q) <= k.qst[q].ThisQInterval \div 2
        /\ \E o \in Asked(k) : /\ Due(QTime(k, o))
                              /\ k.qst[q].ThisQInterval <= k.qst[o].ThisQInterval

Twice(int) == IF 2 * int > MaxQuestionInterval THEN MaxQuestionInterval ELSE 2 * int

SendQuestions(k) ==
  LET sent == {q \in Question : SendsQuestion(k, q)}
      k1   == [k EXCEPT !.qst = [q \in Question |->
                                   IF q \in sent
                                   THEN [asked         |-> TRUE,
                                         LastQTime     |-> 0,
                                         ThisQInterval |-> Twice(@[q].ThisQInterval)]
                                   ELSE @[q]],
                        !.sending = sent # {}]
  IN [k1 EXCEPT !.NextScheduledQuery = Soonest({QTime(k1, q) : q \in Asked(k1)})]

--------------------------------------------------------------------------------
(* mDNS_Execute *)

\* Packets that are sent hold back others for a tenth of a second
Suppress(k) ==
  IF k.sending /\ k.SuppressSending = NotSet
  THEN [k EXCEPT !.sending = FALSE, !.SuppressSending = TenthSecond]
  ELSE [k EXCEPT !.sending = FALSE]

\* "will try again in one second"
PutOffQueries(k) ==
  [k EXCEPT !.NextScheduledQuery = IF Due(@) THEN OneSecond ELSE @,
            !.NextScheduledProbe = IF Due(@) THEN OneSecond ELSE @]

PutOffResponses(k) ==
  [k EXCEPT !.NextScheduledResponse = IF Due(@) THEN OneSecond ELSE @]

\* Slip: the next check of the cache is not put on
PrepareUnchecked(k, known) ==
  AnswerNewQuestions(
    [k EXCEPT !.SuppressProbes = IF @ = NotSet THEN NotSet ELSE IF Due(@) THEN NotSet ELSE @],
    known)

\* Steps 1 to 4: what mDNS_Execute does first
Prepare(k, known) ==
  AnswerNewQuestions(
    [k EXCEPT !.SuppressProbes = IF @ = NotSet THEN NotSet ELSE IF Due(@) THEN NotSet ELSE @,
              !.NextCacheCheck = IF HasCache /\ Due(@) THEN CacheHorizon ELSE @],
    known)

MaySend(k) == k.SuppressSending # NotSet => Due(k.SuppressSending)

\* Up to the walk over the records that probe
Execute ==
  LET k == mDNS_Lock(m)
  IN /\ walk = "none" /\ frames = <<>>
     /\ IF ~Due(k.NextScheduledEvent)
        THEN m' = mDNS_Unlock(k) /\ UNCHANGED <<walk, left>>
        ELSE \E known \in SUBSET k.NewQuestions :
               LET k1 == Prepare(k, known)
                   k2 == [k1 EXCEPT !.SuppressSending = NotSet]
                   k3 == IF Due(k2.NextScheduledQuery) THEN SendQuestions(k2) ELSE k2
               IN IF ~MaySend(k1)
                  THEN m' = mDNS_Unlock(k1) /\ UNCHANGED <<walk, left>>
                  ELSE /\ walk' = "SendQueries"
                       /\ IF Due(k3.NextScheduledProbe)
                          THEN /\ m' = [k3 EXCEPT !.NextScheduledProbe = Horizon]
                               /\ left' = Registered(k3)
                          ELSE m' = k3 /\ left' = {}
     /\ UNCHANGED frames

Walking(name) == walk = name /\ frames = <<>>

Callback(k, by) ==
  /\ m' = [k EXCEPT !.mDNS_reentrancy = @ + 1]
  /\ frames' = Append(frames, by)

NotProbing(r) ==
  /\ m.rec[r].RecordType # "Unique"
  /\ UNCHANGED <<m, frames>>

\* Slip: the walk, which has forgotten the time of the next probe, does not look at the
\* records that are not due
NotYetProbingUnscheduled(r) ==
  /\ m.rec[r].RecordType = "Unique"
  /\ ~Due(APTime(m, r))
  /\ UNCHANGED <<m, frames>>

NotYetProbing(r) ==
  /\ m.rec[r].RecordType = "Unique"
  /\ ~Due(APTime(m, r))
  /\ m' = SetNextAnnounceProbeTime(m, r)
  /\ UNCHANGED frames

SendProbe(r) ==
  /\ m.rec[r].RecordType = "Unique"
  /\ Due(APTime(m, r))
  /\ m.rec[r].ProbeCount > 0
  /\ m' = SetNextAnnounceProbeTime([m EXCEPT !.rec[r].LastAPTime = 0,
                                            !.rec[r].ProbeCount = @ - 1,
                                            !.sending = TRUE], r)
  /\ UNCHANGED frames

\* and CompleteProbing tells the client
FinishProbing(r) ==
  /\ m.rec[r].RecordType = "Unique"
  /\ Due(APTime(m, r))
  /\ m.rec[r].ProbeCount = 0
  /\ Callback(SetNextAnnounceProbeTime(
                [m EXCEPT !.rec[r].RecordType = "Verified",
                          !.rec[r].ThisAPInterval = AnnounceInterval,
                          !.rec[r].LastAPTime = -AnnounceInterval], r), "walk")

Probe ==
  /\ Walking("SendQueries")
  /\ \E r \in left :
       /\ left' = left \ {r}
       /\ NotProbing(r) \/ NotYetProbing(r) \/ SendProbe(r) \/ FinishProbing(r)
  /\ UNCHANGED walk

\* The records that are due to be announced, and those of no longer interval that are
\* half way there
Announces(k, r) ==
  \/ TimeToAnnounce(k, r, 0)
  \/ /\ TimeToAnnounce(k, r, k.rec[r].ThisAPInterval \div 2)
     /\ \E s \in Record : /\ TimeToAnnounce(k, s, 0)
                        /\ k.rec[r].ThisAPInterval <= k.rec[s].ThisAPInterval

\* Announcements end when AnnounceUntil comes, if not before.  One that is only half
\* way there leaves the updates blocked
Announced(k, r, ends) ==
  [k.rec[r] EXCEPT !.ImmedAnswer = TRUE,
                   !.AnnounceCount = IF ends THEN 0 ELSE @ - 1,
                   !.ThisAPInterval = 2 * @,
                   !.LastAPTime = 0,
                   !.UpdateBlocked = IF TimeToAnnounce(k, r, 0) THEN NotSet ELSE @]

\* SendResponses, up to its walk
SendResponses(k, ends) ==
  LET k1 == [k EXCEPT !.rec = [r \in Record |->
                                 IF Announces(k, r) THEN Announced(k, r, r \in ends)
                                 ELSE @[r]]]
      k2 == [k1 EXCEPT !.sending = \E r \in Record : k1.rec[r].ImmedAnswer]
      announcing == {r \in Record : k1.rec[r].AnnounceCount > 0
                                    /\ ResourceRecordIsValidAnswer(k1, r)}
      probing    == {r \in Record : k1.rec[r].RecordType = "Unique"}
  IN Suppress([k2 EXCEPT
       !.NextScheduledResponse = Soonest({APTime(k1, r) : r \in announcing}),
       !.NextScheduledProbe = Soonest({@} \union {APTime(k1, r) : r \in probing})])

QueriesSent ==
  LET k == PutOffQueries(Suppress(m))
  IN /\ Walking("SendQueries") /\ left = {}
     /\ IF Due(k.NextScheduledResponse)
        THEN /\ \E ends \in SUBSET {r \in Record : Announces(k, r)} : m' = SendResponses(k, ends)
             /\ walk' = "SendResponses"
             /\ left' = Registered(k)
        ELSE /\ m' = mDNS_Unlock(k)
             /\ walk' = "none"
             /\ UNCHANGED left
     /\ UNCHANGED frames

\* A goodbye that was sent completes the deregistration, with the MemFree callback
CompleteDeregistration(r) ==
  /\ m.rec[r].RecordType = "Deregistering"
  /\ Callback(Delete(m, r), "walk")

ClearAnswer(r) ==
  /\ m.rec[r].RecordType # "Deregistering"
  /\ m' = [m EXCEPT !.rec[r].ImmedAnswer = FALSE]
  /\ UNCHANGED frames

CleanUp ==
  /\ Walking("SendResponses")
  /\ \E r \in left :
       /\ left' = left \ {r}
       /\ CompleteDeregistration(r) \/ ClearAnswer(r)
  /\ UNCHANGED walk

ResponsesSent ==
  /\ Walking("SendResponses") /\ left = {}
  /\ m' = mDNS_Unlock(PutOffResponses(m))
  /\ walk' = "none"
  /\ UNCHANGED <<left, frames>>

--------------------------------------------------------------------------------
(* What clients call, and what packets do *)

\* A callback returns, and with it the call that made it
Return ==
  LET k == [m EXCEPT !.mDNS_reentrancy = @ - 1]
  IN /\ frames # <<>>
     /\ m' = IF frames[Len(frames)] = "call" THEN mDNS_Unlock(k) ELSE k
     /\ frames' = SubSeq(frames, 1, Len(frames) - 1)
     /\ UNCHANGED <<walk, left>>

Call(k) == m' = mDNS_Unlock(k) /\ UNCHANGED frames

CallBack(k) == Len(frames) < MaxDepth /\ Callback(k, "call")

\* A new record goes to the end of the list, where a walk comes to it unless it is at
\* its last
ClientRegisters(r) ==
  /\ m.rec[r].RecordType = "None"
  /\ Call(Register(mDNS_Lock(m), r))
  /\ left' = IF left = {} THEN {} ELSE left \union {r}

ClientDeregisters(r) ==
  /\ m.rec[r].RecordType \notin {"None", "Deregistering"}
  /\ IF NeedsGoodbye(m, r)
     THEN Call(Retract(mDNS_Lock(m), r)) /\ UNCHANGED left
     ELSE /\ left' = left \ {r}
          /\ IF m.rec[r].RecordType = "Shared"
             THEN CallBack(Delete(mDNS_Lock(m), r))
             ELSE Call(Delete(mDNS_Lock(m), r))

ClientUpdates(r) ==
  /\ m.rec[r].RecordType \notin {"None", "Deregistering"}
  /\ \E credits \in Credits : Call(Update(mDNS_Lock(m), r, credits))
  /\ UNCHANGED left

ClientAsks(q) ==
  /\ ~m.qst[q].asked
  /\ HasCache
  /\ \E delay \in 1..InitialQuestionInterval + 1 : Call(StartQuery(mDNS_Lock(m), q, delay))
  /\ UNCHANGED left

ClientStops(q) ==
  /\ m.qst[q].asked
  /\ Call(StopQuery(mDNS_Lock(m), q))
  /\ UNCHANGED left

ClientCalls ==
  \/ \E r \in Record : ClientRegisters(r) \/ ClientDeregisters(r) \/ ClientUpdates(r)
  \/ \E q \in Question : ClientAsks(q) \/ ClientStops(q)

\* A query for a record: it is marked as an answer, which may be held back
QueryComes(r) ==
  LET k == [mDNS_Lock(m) EXCEPT !.rec[r].ImmedAnswer = TRUE]
      n == [k EXCEPT !.NextScheduledResponse = 0]
  IN /\ ResourceRecordIsValidAnswer(m, r)
     /\ \/ Call(n)
        \/ /\ n.SuppressSending = NotSet
           /\ Call([n EXCEPT !.SuppressSending = TenthSecond])
     /\ UNCHANGED left

\* A response with other data for our name
ConflictComes(r) ==
  /\ r \in Probed
  /\ m.rec[r].ProbeCount <= DefaultProbeCountForTypeUnique
  /\ \E slow \in BOOLEAN :
       \/ /\ m.rec[r].RecordType = "Verified"
          /\ Call(RecordProbeFailure(Reprobe(mDNS_Lock(m), r), slow))
          /\ UNCHANGED left
       \/ /\ m.rec[r].RecordType = "Unique"
          /\ CallBack(RecordProbeFailure(Delete(mDNS_Lock(m), r), slow))
          /\ left' = left \ {r}

PacketComes == \E r \in Record : QueryComes(r) \/ ConflictComes(r)
================================================================================
