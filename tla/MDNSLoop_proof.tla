----------------------------- MODULE MDNSLoop_proof -----------------------------
(***************************************************************************)
(* What the engine plans is never later than what it has to do, for all    *)
(* records and questions, the loop sleeps past an event only by as much as *)
(* the clock was set, and it does not spin.                                *)
(***************************************************************************)
EXTENDS MDNSLoop, NaturalsInduction, WellFoundedInduction, TLAPS

--------------------------------------------------------------------------------
(* Times *)

LEMMA Parameters ==
  /\ {Half, Horizon, CacheHorizon, OneSecond, TenthSecond, MaxQuestionInterval,
      DefaultProbeCountForTypeUnique, InitialAnnounceCount, MaxDepth} \subseteq Int
  /\ Half >= 1 /\ Horizon >= 1 /\ CacheHorizon >= 1 /\ OneSecond >= 1 /\ TenthSecond >= 1
  /\ MaxQuestionInterval >= 1 /\ DefaultProbeCountForTypeUnique >= 1
  /\ InitialAnnounceCount >= 1
  /\ OneSecond >= 4
  /\ NotSet \notin Int
  /\ Needs \in [Record -> SUBSET Record]
  /\ Probed \subseteq Record
  /\ Credits \subseteq 0..10
BY ScheduleAssumption

\* A set of times none of which is long past has a soonest one
LEMMA SoonestFacts ==
  ASSUME NEW S, S \subseteq Int, NEW low \in Int, \A t \in S : low <= t
  PROVE  /\ Soonest(S) \in Int
         /\ Soonest(S) \in S \union {Horizon}
         /\ Soonest(S) <= Horizon
         /\ \A t \in S : Soonest(S) <= t
<1> DEFINE R == OpToRel(<, Nat)
           all == S \union {Horizon}
           floor == IF low < 0 THEN low ELSE 0
           above == {t - floor : t \in all}
<1>1. \A i, j \in Nat : i < j => <<i, j>> \in R
  BY DEF OpToRel
<1>2. IsWellFoundedOn(R, Nat)
  BY NatLessThanWellFounded
<1> HIDE DEF R
<1>3. floor \in Int /\ \A t \in all : t \in Int /\ floor <= t
  BY Parameters
<1>4. all # {}
  OBVIOUS
<1> HIDE DEF floor, all
<1>5. above \subseteq Nat /\ above # {}
  BY <1>3, <1>4
<1>6. PICK i \in above : \A j \in above : ~(<<j, i>> \in R)
  BY <1>2, <1>5, WFMin
<1>7. PICK t \in all : i = t - floor
  BY <1>6
<1>8. ASSUME NEW u \in all PROVE t <= u
  <2>1. u - floor \in above /\ u - floor \in Nat /\ i \in Nat
    BY <1>5, <1>6
  <2>2. ~(u - floor < i)
    BY <1>1, <1>6, <2>1
  <2>. QED  BY <1>3, <1>7, <2>1, <2>2
<1>9. Soonest(S) \in all /\ \A u \in all : Soonest(S) <= u
  BY <1>8 DEF Soonest, all
<1>. QED  BY <1>3, <1>9 DEF all

\* The times the engine goes by
LEMMA SoonestOfFour ==
  ASSUME NEW a \in Int, NEW b \in Int, NEW c \in Int, NEW d \in Int
  PROVE  LET s == Soonest({a, b, c, d})
         IN s \in Int /\ s <= a /\ s <= b /\ s <= c /\ s <= d /\ s \in {a, b, c, d, Horizon}
<1> DEFINE S == {a, b, c, d}
           low == IF a <= b /\ a <= c /\ a <= d THEN a ELSE IF b <= c /\ b <= d THEN b
                  ELSE IF c <= d THEN c ELSE d
<1>1. S \subseteq Int /\ low \in Int /\ \A t \in S : low <= t
  OBVIOUS
<1> HIDE DEF low
<1>. QED  BY <1>1, SoonestFacts

--------------------------------------------------------------------------------
(* What is planned *)

RecordState ==
  [RecordType     : {"None", "Shared", "Unique", "Verified", "Deregistering"},
   ProbeCount     : Int,
   AnnounceCount  : Int,
   LastAPTime     : Int,
   ThisAPInterval : Int,
   ImmedAnswer    : BOOLEAN,
   UpdateBlocked  : Int \union {NotSet}]

QuestionState == [asked : BOOLEAN, LastQTime : Int, ThisQInterval : Int]

Engine ==
  [timenow_last : Int, timenow_adjust : Int, mDNS_busy : Int, mDNS_reentrancy : Int,
   NextScheduledEvent : Int, SuppressSending : Int \union {NotSet}, NextCacheCheck : Int,
   NextScheduledQuery : Int, NextScheduledProbe : Int, NextScheduledResponse : Int,
   SuppressProbes : Int \union {NotSet}, NewQuestions : SUBSET Question, sending : BOOLEAN,
   rec : [Record -> RecordState], qst : [Question -> QuestionState]]

\* Now, for the engine: a clock that was set back has not come to it yet
Now(k) == IF k.timenow_last > 0 THEN k.timenow_last ELSE 0

Planned(k, next, t) == next <= t \/ next <= Now(k)

\* Updates are so frequent that some are blocked
Blocks == \E c \in Credits : c <= 5

\* A time until which an update is blocked
BlockFits(u) == u = NotSet \/ (u >= -Half /\ Blocks)

RecordFits(k, r) ==
  /\ k.rec[r].ThisAPInterval >= 0
  /\ APTime(k, r) >= -Half
  /\ k.rec[r].RecordType # "None" => k.rec[r].ThisAPInterval >= 1
  /\ k.rec[r].RecordType = "None" => ~k.rec[r].ImmedAnswer
  /\ k.rec[r].RecordType = "None" => k.rec[r].AnnounceCount = 0
  /\ k.rec[r].RecordType = "Deregistering" => k.rec[r].ImmedAnswer
  /\ BlockFits(k.rec[r].UpdateBlocked)

QuestionFits(k, q) == k.qst[q].asked => QTime(k, q) >= -Half /\ k.qst[q].ThisQInterval >= 1

\* Intervals grow from what they were first, and no time is kept that is more than half
\* the range of the counter ago, or further ahead than a failure holds probes back
Fits(k) ==
  /\ k.SuppressProbes = NotSet \/ k.SuppressProbes <= Now(k) + ProbeFailureDelay
  /\ k.NextScheduledProbe >= -Half
  /\ k.NextScheduledQuery >= -Half
  /\ \A r \in Record : RecordFits(k, r)
  /\ \A q \in Question : QuestionFits(k, q)

\* What an update that was blocked left a time in the past goes by
HeldBack(k, r, next, delay) ==
  /\ k.rec[r].UpdateBlocked # NotSet
  /\ \/ next <= Now(k) + delay
     \/ k.SuppressProbes # NotSet /\ next <= k.SuppressProbes + delay

ProbePlanned(k, r) ==
  k.rec[r].RecordType = "Unique"
    => \/ Planned(k, k.NextScheduledProbe, APTime(k, r))
       \/ HeldBack(k, r, k.NextScheduledProbe, 0)

Announcing(c) == c.AnnounceCount > 0 /\ c.RecordType \in {"Shared", "Verified"}

\* If a record needs another, its announcement may be forgotten (VerifiedIsScheduled)
AnnouncementPlanned(k, r) ==
  Needs[r] = {} /\ Announcing(k.rec[r])
    => \/ Planned(k, k.NextScheduledResponse, APTime(k, r))
       \/ HeldBack(k, r, k.NextScheduledResponse, AnnounceDelay)

AnswerPlanned(k, r) ==
  k.rec[r].ImmedAnswer => k.NextScheduledResponse <= Now(k) + TenthSecond

QueryPlanned(k, q) ==
  k.qst[q].asked => Planned(k, k.NextScheduledQuery, QTime(k, q))

Typed(k) == k \in Engine /\ Fits(k)

\* The plan of an engine that has yet to come to the records of P with its probes, and to
\* those of A with its answers
Plan(k, P, A) ==
  /\ \A r \in Record : r \notin P => ProbePlanned(k, r)
  /\ \A r \in Record : AnnouncementPlanned(k, r)
  /\ \A r \in Record : r \notin A => AnswerPlanned(k, r)
  /\ \A q \in Question : QueryPlanned(k, q)

Sound(k, P, A) == Typed(k) /\ Plan(k, P, A)

\* While it sends, what it has sent and planned lies ahead, but for probes that are held back
Ahead(k) ==
  /\ k.NextScheduledQuery >= 1
  /\ k.SuppressProbes = NotSet \/ k.SuppressProbes >= 1
  /\ k.NextScheduledProbe >= 1 \/ k.SuppressProbes # NotSet

LEMMA EngineTypes ==
  ASSUME NEW k \in Engine
  PROVE  /\ k.timenow_last \in Int /\ k.timenow_adjust \in Int /\ k.mDNS_busy \in Int
         /\ k.mDNS_reentrancy \in Int /\ k.NextScheduledEvent \in Int
         /\ k.SuppressSending \in Int \union {NotSet} /\ k.NextCacheCheck \in Int
         /\ k.NextScheduledQuery \in Int /\ k.NextScheduledProbe \in Int
         /\ k.NextScheduledResponse \in Int /\ k.SuppressProbes \in Int \union {NotSet}
         /\ k.NewQuestions \in SUBSET Question /\ k.sending \in BOOLEAN
         /\ k.rec \in [Record -> RecordState] /\ k.qst \in [Question -> QuestionState]
         /\ Now(k) \in Int
         /\ \A r \in Record : /\ k.rec[r] \in RecordState
                              /\ APTime(k, r) \in Int
         /\ \A q \in Question : /\ k.qst[q] \in QuestionState
                                /\ QTime(k, q) \in Int
BY DEF Engine, RecordState, QuestionState, Now, APTime, QTime

LEMMA LaterFacts ==
  ASSUME NEW t \in Int, NEW d \in Int
  PROVE  /\ Later(t, d) \in Int
         /\ Later(t, d) >= -Half
         /\ Later(t, d) >= t - d
         /\ Later(t, d) = t - d \/ Later(t, d) = -Half
BY Parameters DEF Later

LEMMA Delays ==
  /\ ProbeFailureDelay \in Int /\ ProbeFailureDelay >= 1
  /\ AnnounceDelay \in Int /\ AnnounceDelay >= 0
<1> DEFINE x == ProbeInterval
           y == DefaultProbeCountForTypeUnique
<1>1. x \in Int /\ x >= 0 /\ y \in Int /\ y >= 0
  BY Parameters DEF ProbeInterval
<1> HIDE DEF x, y
<1>2. x * y \in Int /\ x * y >= 0
  BY <1>1
<1>3. AnnounceInterval \div 2 \in Int /\ AnnounceInterval \div 2 >= 0
  BY Parameters DEF AnnounceInterval
<1>4. ProbeFailureDelay \in Int /\ ProbeFailureDelay >= 1
  BY Parameters DEF ProbeFailureDelay
<1>5. AnnounceDelay = x * y + AnnounceInterval \div 2
  BY DEF AnnounceDelay, x, y
<1>. QED  BY <1>2, <1>3, <1>4, <1>5

LEMMA RecordLaterType ==
  ASSUME NEW c \in RecordState, NEW d \in Int
  PROVE  RecordLater(c, d) \in RecordState
<1>1. Later(c.LastAPTime, d) \in Int /\ Later(c.UpdateBlocked, d) \in Int \union {NotSet}
  BY LaterFacts DEF RecordState, Later
<1>2. Off \in RecordState
  BY DEF Off, RecordState
<1>. QED  BY <1>1, <1>2 DEF RecordState, RecordLater

LEMMA QuestionLaterType ==
  ASSUME NEW c \in QuestionState, NEW d \in Int
  PROVE  QuestionLater(c, d) \in QuestionState
<1>1. Later(c.LastQTime, d) \in Int
  BY LaterFacts DEF QuestionState
<1>. QED  BY <1>1 DEF QuestionState, QuestionLater

LEMMA PassFields ==
  ASSUME NEW k \in Engine, NEW d \in Int
  PROVE  /\ Pass(k, d) \in Engine
         /\ Pass(k, d).timenow_last = Later(k.timenow_last, d)
         /\ Pass(k, d).timenow_adjust = k.timenow_adjust
         /\ Pass(k, d).mDNS_busy = k.mDNS_busy
         /\ Pass(k, d).NextScheduledEvent = Later(k.NextScheduledEvent, d)
         /\ Pass(k, d).SuppressSending = Later(k.SuppressSending, d)
         /\ Pass(k, d).NextCacheCheck = Later(k.NextCacheCheck, d)
         /\ Pass(k, d).NextScheduledQuery = Later(k.NextScheduledQuery, d)
         /\ Pass(k, d).NextScheduledProbe = Later(k.NextScheduledProbe, d)
         /\ Pass(k, d).NextScheduledResponse = Later(k.NextScheduledResponse, d)
         /\ Pass(k, d).SuppressProbes = IF k.SuppressProbes = NotSet THEN NotSet
                                        ELSE IF k.SuppressProbes < d THEN NotSet
                                        ELSE k.SuppressProbes - d
         /\ Pass(k, d).NewQuestions = k.NewQuestions
         /\ \A r \in Record : Pass(k, d).rec[r] = RecordLater(k.rec[r], d)
         /\ \A q \in Question : Pass(k, d).qst[q] = QuestionLater(k.qst[q], d)
<1> DEFINE p == Pass(k, d)
<1>1. /\ p.timenow_last = Later(k.timenow_last, d)
      /\ p.timenow_adjust = k.timenow_adjust
      /\ p.mDNS_busy = k.mDNS_busy
      /\ p.mDNS_reentrancy = k.mDNS_reentrancy
      /\ p.NextScheduledEvent = Later(k.NextScheduledEvent, d)
      /\ p.SuppressSending = Later(k.SuppressSending, d)
      /\ p.NextCacheCheck = Later(k.NextCacheCheck, d)
      /\ p.NextScheduledQuery = Later(k.NextScheduledQuery, d)
      /\ p.NextScheduledProbe = Later(k.NextScheduledProbe, d)
      /\ p.NextScheduledResponse = Later(k.NextScheduledResponse, d)
      /\ p.SuppressProbes = IF k.SuppressProbes = NotSet THEN NotSet
                            ELSE IF k.SuppressProbes < d THEN NotSet ELSE k.SuppressProbes - d
      /\ p.NewQuestions = k.NewQuestions
      /\ p.sending = k.sending
  BY DEF Pass, Engine
<1>2. /\ p.rec = [r \in Record |-> RecordLater(k.rec[r], d)]
      /\ p.qst = [q \in Question |-> QuestionLater(k.qst[q], d)]
  BY DEF Pass, Engine
<1>3. p.rec \in [Record -> RecordState] /\ p.qst \in [Question -> QuestionState]
  BY <1>2, EngineTypes, RecordLaterType, QuestionLaterType
<1>4. p.SuppressSending \in Int \union {NotSet} /\ p.SuppressProbes \in Int \union {NotSet}
  BY <1>1, EngineTypes, LaterFacts DEF Later
<1>5. /\ p.timenow_last \in Int /\ p.timenow_adjust \in Int /\ p.mDNS_busy \in Int
      /\ p.mDNS_reentrancy \in Int /\ p.NextScheduledEvent \in Int /\ p.NextCacheCheck \in Int
      /\ p.NextScheduledQuery \in Int /\ p.NextScheduledProbe \in Int
      /\ p.NextScheduledResponse \in Int /\ p.NewQuestions \in SUBSET Question
      /\ p.sending \in BOOLEAN
  <2> HIDE DEF p
  <2>1. \A t \in Int : Later(t, d) \in Int
    BY LaterFacts
  <2>. QED  BY <1>1, <2>1, EngineTypes
<1>6. p \in Engine
  <2>1. p = [k EXCEPT !.timenow_last = p.timenow_last,
                      !.NextScheduledEvent = p.NextScheduledEvent,
                      !.SuppressSending = p.SuppressSending,
                      !.NextCacheCheck = p.NextCacheCheck,
                      !.NextScheduledQuery = p.NextScheduledQuery,
                      !.NextScheduledProbe = p.NextScheduledProbe,
                      !.NextScheduledResponse = p.NextScheduledResponse,
                      !.SuppressProbes = p.SuppressProbes,
                      !.rec = p.rec, !.qst = p.qst]
    BY DEF Pass, Engine
  <2> HIDE DEF p
  <2>. QED  BY <1>3, <1>4, <1>5, <2>1 DEF Engine
<1>. QED  BY <1>1, <1>2, <1>6

LEMMA RecordLaterFacts ==
  ASSUME NEW c \in RecordState, NEW d \in Int
  PROVE  LET l == RecordLater(c, d)
         IN /\ l.RecordType = c.RecordType
            /\ l.AnnounceCount = c.AnnounceCount
            /\ l.ThisAPInterval = c.ThisAPInterval
            /\ l.ImmedAnswer = c.ImmedAnswer
            /\ c.RecordType # "None" => l.LastAPTime >= -Half /\ l.LastAPTime >= c.LastAPTime - d
            /\ l.LastAPTime >= -Half \/ l.LastAPTime + l.ThisAPInterval = 0
            /\ BlockFits(c.UpdateBlocked) => BlockFits(l.UpdateBlocked)
            /\ c.UpdateBlocked # NotSet => l.UpdateBlocked # NotSet
<1>1. c.LastAPTime \in Int /\ c.UpdateBlocked \in Int \union {NotSet}
  BY DEF RecordState
<1>u. /\ BlockFits(c.UpdateBlocked) => BlockFits(Later(c.UpdateBlocked, d))
      /\ c.UpdateBlocked # NotSet => Later(c.UpdateBlocked, d) # NotSet
  <2>1. CASE c.UpdateBlocked = NotSet
    BY <2>1 DEF Later
  <2>2. CASE c.UpdateBlocked # NotSet
    <3>1. /\ Later(c.UpdateBlocked, d) \in Int /\ Later(c.UpdateBlocked, d) >= -Half
      BY <1>1, <2>2, LaterFacts
    <3>. QED  BY <2>2, <3>1, Parameters DEF BlockFits
  <2>. QED  BY <2>1, <2>2
<1>2. /\ Later(c.LastAPTime, d) \in Int /\ Later(c.LastAPTime, d) >= -Half
      /\ Later(c.LastAPTime, d) >= c.LastAPTime - d
  BY <1>1, LaterFacts
<1>3. CASE c = Off
  BY <1>3 DEF RecordLater, Off
<1>4. CASE c # Off
  <2>1. RecordLater(c, d) = [c EXCEPT !.LastAPTime = Later(@, d), !.UpdateBlocked = Later(@, d)]
    BY <1>4 DEF RecordLater
  <2>2. /\ RecordLater(c, d).RecordType = c.RecordType
        /\ RecordLater(c, d).AnnounceCount = c.AnnounceCount
        /\ RecordLater(c, d).ThisAPInterval = c.ThisAPInterval
        /\ RecordLater(c, d).ImmedAnswer = c.ImmedAnswer
        /\ RecordLater(c, d).LastAPTime = Later(c.LastAPTime, d)
        /\ RecordLater(c, d).UpdateBlocked = Later(c.UpdateBlocked, d)
    BY <2>1 DEF RecordState
  <2>. QED  BY <1>2, <1>u, <2>2
<1>. QED  BY <1>3, <1>4

LEMMA QuestionLaterFacts ==
  ASSUME NEW c \in QuestionState, NEW d \in Int
  PROVE  LET l == QuestionLater(c, d)
         IN /\ l.asked = c.asked
            /\ l.ThisQInterval = c.ThisQInterval
            /\ c.asked => l.LastQTime >= -Half /\ l.LastQTime >= c.LastQTime - d
BY LaterFacts DEF QuestionLater, QuestionState

LEMMA NowLater ==
  ASSUME NEW k \in Engine, NEW d \in Int, d >= 0 \/ k.timenow_last >= 0
  PROVE  Now(Pass(k, d)) \in Int /\ Now(Pass(k, d)) >= 0 /\ Now(Pass(k, d)) >= Now(k) - d
<1>1. k.timenow_last \in Int
  BY EngineTypes
<1>2. /\ Later(k.timenow_last, d) \in Int
      /\ Later(k.timenow_last, d) >= k.timenow_last - d
  BY <1>1, LaterFacts
<1>3. Pass(k, d).timenow_last = Later(k.timenow_last, d)
  BY PassFields
<1>. QED  BY <1>1, <1>2, <1>3 DEF Now

LEMMA PlannedLater ==
  ASSUME NEW k \in Engine, NEW d \in Int, d >= 0 \/ k.timenow_last >= 0,
         NEW next \in Int, NEW t \in Int, NEW u \in Int,
         Planned(k, next, t), u >= -Half, u >= t - d
  PROVE  Planned(Pass(k, d), Later(next, d), u)
<1>1. /\ Later(next, d) \in Int
      /\ Later(next, d) = next - d \/ Later(next, d) = -Half
  BY LaterFacts
<1>2. Now(k) \in Int
  BY EngineTypes
<1>. QED  BY <1>1, <1>2, NowLater, Parameters DEF Planned

LEMMA HeldLater ==
  ASSUME NEW k \in Engine, NEW d \in Int, d >= 0 \/ k.timenow_last >= 0,
         NEW r \in Record, NEW next \in Int, NEW delay \in Int, delay >= 0,
         HeldBack(k, r, next, delay)
  PROVE  HeldBack(Pass(k, d), r, Later(next, d), delay)
<1> DEFINE p == Pass(k, d)
<1>1. /\ Later(next, d) \in Int
      /\ Later(next, d) = next - d \/ Later(next, d) = -Half
  BY LaterFacts
<1>2. Now(k) \in Int /\ Now(p) \in Int /\ Now(p) >= 0 /\ Now(p) >= Now(k) - d
  BY EngineTypes, NowLater
<1>3. p.rec[r].UpdateBlocked # NotSet
  <2>1. k.rec[r] \in RecordState /\ p.rec[r] = RecordLater(k.rec[r], d)
    BY EngineTypes, PassFields
  <2> HIDE DEF p
  <2>. QED  BY <2>1, RecordLaterFacts DEF HeldBack
<1>4. /\ k.SuppressProbes \in Int \union {NotSet}
      /\ p.SuppressProbes = IF k.SuppressProbes = NotSet THEN NotSet
                            ELSE IF k.SuppressProbes < d THEN NotSet ELSE k.SuppressProbes - d
  BY EngineTypes, PassFields
<1> HIDE DEF p
<1>5. CASE next <= Now(k) + delay
  <2>1. Later(next, d) <= Now(p) + delay
    BY <1>1, <1>2, <1>5, Parameters
  <2>. QED  BY <1>3, <2>1 DEF HeldBack, p
<1>6. CASE k.SuppressProbes # NotSet /\ next <= k.SuppressProbes + delay
  <2>1. CASE k.SuppressProbes < d
    <3>1. Later(next, d) <= Now(p) + delay
      BY <1>1, <1>2, <1>4, <1>6, <2>1, Parameters
    <3>. QED  BY <1>3, <3>1 DEF HeldBack, p
  <2>2. CASE ~(k.SuppressProbes < d)
    <3>1. p.SuppressProbes = k.SuppressProbes - d /\ p.SuppressProbes \in Int
          /\ p.SuppressProbes >= 0
      BY <1>4, <1>6, <2>2
    <3>2. Later(next, d) <= p.SuppressProbes + delay
      BY <1>1, <1>4, <1>6, <3>1, Parameters
    <3>. QED  BY <1>3, <3>1, <3>2, Parameters DEF HeldBack, p
  <2>. QED  BY <2>1, <2>2
<1>. QED  BY <1>5, <1>6 DEF HeldBack

\* Time goes by evenly
LEMMA PassSound ==
  ASSUME NEW k, Sound(k, {}, {}), NEW d \in Int, d >= 0 \/ k.timenow_last >= 0
  PROVE  Sound(Pass(k, d), {}, {})
<1> DEFINE p == Pass(k, d)
<1>0. k \in Engine /\ p \in Engine
  BY PassFields DEF Sound, Typed, Plan
<1>1. ASSUME NEW r \in Record
      PROVE  /\ p.rec[r].RecordType = k.rec[r].RecordType
             /\ p.rec[r].AnnounceCount = k.rec[r].AnnounceCount
             /\ p.rec[r].ThisAPInterval = k.rec[r].ThisAPInterval
             /\ p.rec[r].ImmedAnswer = k.rec[r].ImmedAnswer
             /\ p.rec[r].ThisAPInterval >= 0
             /\ APTime(p, r) \in Int /\ APTime(p, r) >= -Half
             /\ p.rec[r].RecordType # "None" => APTime(p, r) >= APTime(k, r) - d
             /\ BlockFits(p.rec[r].UpdateBlocked)
             /\ RecordFits(k, r)
  <2>1. k.rec[r] \in RecordState /\ p.rec[r] = RecordLater(k.rec[r], d) /\ p.rec[r] \in RecordState
    BY <1>0, EngineTypes, PassFields
  <2>2. RecordFits(k, r)
    BY DEF Sound, Typed, Fits
  <2> HIDE DEF p
  <2>3. p.rec[r].LastAPTime \in Int /\ p.rec[r].ThisAPInterval \in Int /\ k.rec[r].LastAPTime \in Int
    BY <2>1 DEF RecordState
  <2>4. k.rec[r].ThisAPInterval >= 0 /\ BlockFits(k.rec[r].UpdateBlocked)
    BY <2>2 DEF RecordFits
  <2>5. /\ p.rec[r].RecordType = k.rec[r].RecordType
        /\ p.rec[r].AnnounceCount = k.rec[r].AnnounceCount
        /\ p.rec[r].ThisAPInterval = k.rec[r].ThisAPInterval
        /\ p.rec[r].ImmedAnswer = k.rec[r].ImmedAnswer
        /\ k.rec[r].RecordType # "None" => p.rec[r].LastAPTime >= -Half
                                           /\ p.rec[r].LastAPTime >= k.rec[r].LastAPTime - d
        /\ p.rec[r].LastAPTime >= -Half \/ p.rec[r].LastAPTime + p.rec[r].ThisAPInterval = 0
        /\ BlockFits(p.rec[r].UpdateBlocked)
    BY <2>1, <2>4, RecordLaterFacts
  <2>. QED  BY <2>2, <2>3, <2>4, <2>5, Parameters DEF APTime
<1>2. ASSUME NEW q \in Question
      PROVE  /\ p.qst[q].asked = k.qst[q].asked
             /\ p.qst[q].ThisQInterval = k.qst[q].ThisQInterval
             /\ k.qst[q].asked => /\ QTime(p, q) \in Int /\ QTime(p, q) >= -Half
                                  /\ QTime(p, q) >= QTime(k, q) - d
                                  /\ p.qst[q].ThisQInterval >= 1
  <2>1. k.qst[q] \in QuestionState /\ p.qst[q] = QuestionLater(k.qst[q], d) /\ p.qst[q] \in QuestionState
    BY <1>0, EngineTypes, PassFields
  <2>2. QuestionFits(k, q)
    BY DEF Sound, Typed, Fits
  <2> HIDE DEF p
  <2>3. p.qst[q].LastQTime \in Int /\ p.qst[q].ThisQInterval \in Int /\ k.qst[q].LastQTime \in Int
    BY <2>1 DEF QuestionState
  <2>4. /\ p.qst[q].asked = k.qst[q].asked
        /\ p.qst[q].ThisQInterval = k.qst[q].ThisQInterval
        /\ k.qst[q].asked => p.qst[q].LastQTime >= -Half
                              /\ p.qst[q].LastQTime >= k.qst[q].LastQTime - d
    BY <2>1, QuestionLaterFacts
  <2>. QED  BY <2>2, <2>3, <2>4, Parameters DEF QTime, QuestionFits
<1>3. /\ k.NextScheduledProbe \in Int /\ k.NextScheduledQuery \in Int /\ k.NextScheduledResponse \in Int
      /\ p.NextScheduledProbe = Later(k.NextScheduledProbe, d)
      /\ p.NextScheduledQuery = Later(k.NextScheduledQuery, d)
      /\ p.NextScheduledResponse = Later(k.NextScheduledResponse, d)
  BY <1>0, EngineTypes, PassFields
<1>4. Now(p) \in Int /\ Now(p) >= 0 /\ Now(p) >= Now(k) - d /\ Now(k) \in Int
  BY <1>0, EngineTypes, NowLater
<1>5. ASSUME NEW next \in Int, NEW t \in Int, NEW u \in Int,
             Planned(k, next, t), u >= -Half, u >= t - d
      PROVE  Planned(p, Later(next, d), u)
  BY <1>0, <1>5, PlannedLater
<1>a. ASSUME NEW r \in Record, NEW next \in Int, NEW delay \in Int, delay >= 0,
             HeldBack(k, r, next, delay)
      PROVE  HeldBack(p, r, Later(next, d), delay)
  BY <1>0, <1>a, HeldLater
<1>b. p.SuppressProbes = NotSet \/ p.SuppressProbes <= Now(p) + ProbeFailureDelay
  <2>1. /\ k.SuppressProbes \in Int \union {NotSet}
        /\ p.SuppressProbes = IF k.SuppressProbes = NotSet THEN NotSet
                              ELSE IF k.SuppressProbes < d THEN NotSet ELSE k.SuppressProbes - d
    BY <1>0, EngineTypes, PassFields
  <2>2. k.SuppressProbes = NotSet \/ k.SuppressProbes <= Now(k) + ProbeFailureDelay
    BY DEF Sound, Typed, Fits
  <2> HIDE DEF p
  <2>. QED  BY <1>4, <2>1, <2>2, Delays
<1> HIDE DEF p
<1>6. Fits(p)
  <2>1. \A r \in Record : RecordFits(p, r)
    BY <1>1 DEF RecordFits
  <2>2. \A q \in Question : QuestionFits(p, q)
    BY <1>2 DEF QuestionFits
  <2>. QED  BY <1>3, <1>b, <2>1, <2>2, LaterFacts DEF Fits
<1>7. ASSUME NEW r \in Record PROVE ProbePlanned(p, r)
  <2>1. ProbePlanned(k, r) /\ APTime(k, r) \in Int
    BY <1>0, EngineTypes DEF Sound, Plan
  <2>2. SUFFICES ASSUME k.rec[r].RecordType = "Unique"
        PROVE  Planned(p, p.NextScheduledProbe, APTime(p, r)) \/ HeldBack(p, r, p.NextScheduledProbe, 0)
    BY <1>1 DEF ProbePlanned
  <2>3. CASE Planned(k, k.NextScheduledProbe, APTime(k, r))
    BY <1>1, <1>3, <1>5, <2>1, <2>2, <2>3
  <2>4. CASE HeldBack(k, r, k.NextScheduledProbe, 0)
    BY <1>3, <1>a, <2>4
  <2>. QED  BY <2>1, <2>2, <2>3, <2>4 DEF ProbePlanned
<1>c. ASSUME NEW r \in Record PROVE AnnouncementPlanned(p, r)
  <2>1. AnnouncementPlanned(k, r) /\ APTime(k, r) \in Int
    BY <1>0, EngineTypes DEF Sound, Plan
  <2>2. SUFFICES ASSUME Needs[r] = {}, Announcing(k.rec[r])
        PROVE  \/ Planned(p, p.NextScheduledResponse, APTime(p, r))
               \/ HeldBack(p, r, p.NextScheduledResponse, AnnounceDelay)
    BY <1>1 DEF AnnouncementPlanned, Announcing
  <2>3. CASE Planned(k, k.NextScheduledResponse, APTime(k, r))
    BY <1>1, <1>3, <1>5, <2>1, <2>2, <2>3 DEF Announcing
  <2>4. CASE HeldBack(k, r, k.NextScheduledResponse, AnnounceDelay)
    BY <1>3, <1>a, <2>4, Delays
  <2>. QED  BY <2>1, <2>2, <2>3, <2>4 DEF AnnouncementPlanned
<1>8. ASSUME NEW r \in Record PROVE AnswerPlanned(p, r)
  <2>1. AnswerPlanned(k, r)
    BY DEF Sound, Typed, Plan
  <2>2. /\ p.NextScheduledResponse \in Int
        /\ p.NextScheduledResponse = k.NextScheduledResponse - d \/ p.NextScheduledResponse = -Half
    BY <1>3, LaterFacts
  <2>. QED  BY <1>1, <1>3, <1>4, <2>1, <2>2, Parameters DEF AnswerPlanned
<1>9. ASSUME NEW q \in Question PROVE QueryPlanned(p, q)
  <2>1. QueryPlanned(k, q) /\ QTime(k, q) \in Int
    BY <1>0, EngineTypes DEF Sound, Typed, Plan
  <2>. QED  BY <1>2, <1>3, <1>5, <2>1 DEF QueryPlanned
<1>10. Sound(p, {}, {})
  BY <1>0, <1>6, <1>7, <1>8, <1>9, <1>c DEF Sound, Typed, Plan
<1>. QED  BY <1>10 DEF p

--------------------------------------------------------------------------------
(* What keeps a plan sound *)

\* Probes that are held back stay so, or the time until which they are has come
Holding(k, j) ==
  /\ j.SuppressProbes = NotSet \/ j.SuppressProbes <= Now(j) + ProbeFailureDelay
  /\ k.SuppressProbes # NotSet
       => \/ k.SuppressProbes <= Now(j)
          \/ j.SuppressProbes # NotSet /\ k.SuppressProbes <= j.SuppressProbes

LEMMA HoldingSame ==
  ASSUME NEW k, Typed(k), NEW j \in Engine, j.SuppressProbes = k.SuppressProbes, Now(j) >= Now(k)
  PROVE  Holding(k, j)
<1>1. /\ k.SuppressProbes \in Int \union {NotSet} /\ Now(k) \in Int /\ Now(j) \in Int
      /\ k.SuppressProbes = NotSet \/ k.SuppressProbes <= Now(k) + ProbeFailureDelay
  BY EngineTypes DEF Typed, Fits
<1>2. j.SuppressProbes = NotSet \/ j.SuppressProbes <= Now(j) + ProbeFailureDelay
  BY <1>1, Delays
<1>. QED  BY <1>1, <1>2 DEF Holding

LEMMA HeldOn ==
  ASSUME NEW k \in Engine, NEW j \in Engine, Holding(k, j), Now(j) >= Now(k),
         NEW next \in Int, NEW sooner \in Int, sooner <= next, NEW delay \in Int, delay >= 0,
         NEW r \in Record, j.rec[r].UpdateBlocked = k.rec[r].UpdateBlocked,
         HeldBack(k, r, next, delay)
  PROVE  HeldBack(j, r, sooner, delay)
<1>1. /\ Now(k) \in Int /\ Now(j) \in Int
      /\ k.SuppressProbes \in Int \union {NotSet} /\ j.SuppressProbes \in Int \union {NotSet}
  BY EngineTypes
<1>2. CASE next <= Now(k) + delay
  <2>1. sooner <= Now(j) + delay
    BY <1>1, <1>2
  <2>. QED  BY <2>1 DEF HeldBack
<1>3. CASE k.SuppressProbes # NotSet /\ next <= k.SuppressProbes + delay
  <2>1. CASE k.SuppressProbes <= Now(j)
    <3>1. sooner <= Now(j) + delay
      BY <1>1, <1>3, <2>1
    <3>. QED  BY <3>1 DEF HeldBack
  <2>2. CASE j.SuppressProbes # NotSet /\ k.SuppressProbes <= j.SuppressProbes
    <3>1. sooner <= j.SuppressProbes + delay
      BY <1>1, <1>3, <2>2
    <3>. QED  BY <2>2, <3>1 DEF HeldBack
  <2>. QED  BY <1>3, <2>1, <2>2 DEF Holding
<1>. QED  BY <1>2, <1>3 DEF HeldBack

\* A record that stays as it is is planned as it was, by plans that come no later
LEMMA StillPlanned ==
  ASSUME NEW k \in Engine, NEW j \in Engine, Holding(k, j), Now(j) >= Now(k),
         j.NextScheduledProbe <= k.NextScheduledProbe,
         j.NextScheduledResponse <= k.NextScheduledResponse,
         NEW r \in Record, j.rec[r] = k.rec[r]
  PROVE  /\ APTime(j, r) = APTime(k, r)
         /\ ProbePlanned(k, r) => ProbePlanned(j, r)
         /\ AnnouncementPlanned(k, r) => AnnouncementPlanned(j, r)
         /\ AnswerPlanned(k, r) => AnswerPlanned(j, r)
<1>1. /\ k.NextScheduledProbe \in Int /\ k.NextScheduledResponse \in Int
      /\ j.NextScheduledProbe \in Int /\ j.NextScheduledResponse \in Int
      /\ Now(k) \in Int /\ Now(j) \in Int /\ APTime(k, r) \in Int
  BY EngineTypes
<1>2. APTime(j, r) = APTime(k, r)
  BY DEF APTime
<1>3. ASSUME NEW next \in Int, NEW sooner \in Int, sooner <= next, Planned(k, next, APTime(k, r))
      PROVE  Planned(j, sooner, APTime(j, r))
  BY <1>1, <1>2, <1>3 DEF Planned
<1>4. ProbePlanned(k, r) => ProbePlanned(j, r)
  <2>1. HeldBack(k, r, k.NextScheduledProbe, 0) => HeldBack(j, r, j.NextScheduledProbe, 0)
    BY <1>1, HeldOn
  <2>. QED  BY <1>1, <1>3, <2>1 DEF ProbePlanned
<1>5. AnnouncementPlanned(k, r) => AnnouncementPlanned(j, r)
  <2>1. HeldBack(k, r, k.NextScheduledResponse, AnnounceDelay)
          => HeldBack(j, r, j.NextScheduledResponse, AnnounceDelay)
    BY <1>1, HeldOn, Delays
  <2>. QED  BY <1>1, <1>3, <2>1 DEF AnnouncementPlanned
<1>6. AnswerPlanned(k, r) => AnswerPlanned(j, r)
  BY <1>1, Parameters DEF AnswerPlanned
<1>. QED  BY <1>2, <1>4, <1>5, <1>6

\* The times and records are all there is to it
LEMMA SoundSame ==
  ASSUME NEW P, NEW A, NEW k, Sound(k, P, A), NEW j \in Engine,
         j.NextScheduledProbe = k.NextScheduledProbe,
         j.NextScheduledQuery = k.NextScheduledQuery,
         j.NextScheduledResponse = k.NextScheduledResponse,
         j.rec = k.rec, j.qst = k.qst,
         Now(j) >= Now(k), Holding(k, j)
  PROVE  Sound(j, P, A)
<1>1. k \in Engine /\ Now(k) \in Int /\ Now(j) \in Int
  BY EngineTypes DEF Sound, Typed
<1>2. /\ \A r \in Record : APTime(j, r) = APTime(k, r) /\ APTime(k, r) \in Int
      /\ \A q \in Question : QTime(j, q) = QTime(k, q) /\ QTime(k, q) \in Int
      /\ k.NextScheduledProbe \in Int /\ k.NextScheduledQuery \in Int
      /\ k.NextScheduledResponse \in Int
  BY <1>1, EngineTypes DEF APTime, QTime
<1>3. Fits(j)
  BY <1>2 DEF Sound, Typed, Fits, RecordFits, QuestionFits, Holding
<1>4. ASSUME NEW r \in Record
      PROVE  /\ ProbePlanned(k, r) => ProbePlanned(j, r)
             /\ AnnouncementPlanned(k, r) => AnnouncementPlanned(j, r)
             /\ AnswerPlanned(k, r) => AnswerPlanned(j, r)
  BY <1>1, <1>2, StillPlanned
<1>5. ASSUME NEW q \in Question PROVE QueryPlanned(k, q) => QueryPlanned(j, q)
  BY <1>1, <1>2 DEF QueryPlanned, Planned
<1>. QED  BY <1>3, <1>4, <1>5 DEF Sound, Typed, Plan

\* A function that changes one record and brings the next probe and response forward
\* answers for that record alone
LEMMA SoundRecord ==
  ASSUME NEW P, NEW A, NEW k, Sound(k, P, A), NEW j \in Engine, NEW r \in Record, NEW Q, NEW B,
         j.NextScheduledProbe <= k.NextScheduledProbe,
         j.NextScheduledProbe >= -Half,
         j.NextScheduledQuery = k.NextScheduledQuery,
         j.NextScheduledResponse <= k.NextScheduledResponse,
         j.SuppressProbes = k.SuppressProbes,
         \A s \in Record : s # r => j.rec[s] = k.rec[s],
         j.qst = k.qst,
         j.timenow_last = k.timenow_last,
         P \subseteq Q \union {r}, A \subseteq B \union {r},
         RecordFits(j, r),
         r \notin Q => ProbePlanned(j, r),
         AnnouncementPlanned(j, r),
         r \notin B => AnswerPlanned(j, r)
  PROVE  Sound(j, Q, B)
<1>1. k \in Engine /\ Now(k) \in Int /\ Now(j) = Now(k)
  BY EngineTypes DEF Sound, Typed, Now
<1>2. /\ \A q \in Question : QTime(j, q) = QTime(k, q) /\ QTime(k, q) \in Int
      /\ k.NextScheduledQuery \in Int
  BY <1>1, EngineTypes DEF QTime
<1>3. Holding(k, j) /\ Now(j) >= Now(k)
  BY <1>1, HoldingSame DEF Sound
<1>4. ASSUME NEW s \in Record, s # r
      PROVE  /\ APTime(j, s) = APTime(k, s)
             /\ ProbePlanned(k, s) => ProbePlanned(j, s)
             /\ AnnouncementPlanned(k, s) => AnnouncementPlanned(j, s)
             /\ AnswerPlanned(k, s) => AnswerPlanned(j, s)
  BY <1>1, <1>3, <1>4, StillPlanned
<1>5. Fits(j)
  <2>1. ASSUME NEW s \in Record PROVE RecordFits(j, s)
    <3>1. RecordFits(k, s)
      BY DEF Sound, Typed, Fits
    <3>. QED  BY <1>4, <3>1 DEF RecordFits
  <2>2. ASSUME NEW q \in Question PROVE QuestionFits(j, q)
    <3>1. QuestionFits(k, q)
      BY DEF Sound, Typed, Fits
    <3>. QED  BY <1>2, <3>1 DEF QuestionFits
  <2>3. k.NextScheduledQuery >= -Half
    BY DEF Sound, Typed, Fits
  <2>. QED  BY <1>3, <2>1, <2>2, <2>3 DEF Fits, Holding
<1>6. ASSUME NEW q \in Question PROVE QueryPlanned(j, q)
  <2>1. QueryPlanned(k, q)
    BY DEF Sound, Plan
  <2>. QED  BY <1>1, <1>2, <2>1 DEF QueryPlanned, Planned
<1>. QED  BY <1>4, <1>5, <1>6 DEF Sound, Typed, Plan

\* What changes questions and brings the next query forward
LEMMA SoundQuestion ==
  ASSUME NEW P, NEW A, NEW k, Sound(k, P, A), NEW j \in Engine,
         j.NextScheduledProbe = k.NextScheduledProbe,
         j.NextScheduledQuery >= -Half,
         j.NextScheduledResponse = k.NextScheduledResponse,
         j.SuppressProbes = k.SuppressProbes,
         j.rec = k.rec,
         j.timenow_last = k.timenow_last,
         \A q \in Question : QuestionFits(j, q) /\ QueryPlanned(j, q)
  PROVE  Sound(j, P, A)
<1>1. /\ k \in Engine /\ Now(k) \in Int /\ Now(j) = Now(k)
      /\ k.NextScheduledProbe \in Int /\ k.NextScheduledResponse \in Int
  BY EngineTypes DEF Sound, Typed, Now
<1>2. \A r \in Record : APTime(j, r) = APTime(k, r)
  BY DEF APTime
<1>3. Holding(k, j) /\ Now(j) >= Now(k)
  BY <1>1, HoldingSame DEF Sound
<1>4. Fits(j)
  BY <1>2, <1>3 DEF Sound, Typed, Fits, RecordFits, Holding
<1>5. ASSUME NEW r \in Record
      PROVE  /\ ProbePlanned(k, r) => ProbePlanned(j, r)
             /\ AnnouncementPlanned(k, r) => AnnouncementPlanned(j, r)
             /\ AnswerPlanned(k, r) => AnswerPlanned(j, r)
  BY <1>1, <1>3, StillPlanned
<1>. QED  BY <1>4, <1>5 DEF Sound, Typed, Plan

\* Taking the lock corrects a clock that was set back
LEMMA LockFields ==
  ASSUME NEW k \in Engine
  PROVE  LET l == mDNS_Lock(k)  behind == k.mDNS_busy = 0 /\ k.timenow_last > 0
             j == IF behind THEN Pass(k, k.timenow_last) ELSE k
         IN /\ l \in Engine
            /\ j \in Engine
            /\ l.timenow_last = 0
            /\ l.timenow_adjust = IF behind THEN k.timenow_adjust + k.timenow_last ELSE k.timenow_adjust
            /\ l.mDNS_busy = k.mDNS_busy + 1
            /\ l.NextScheduledEvent = j.NextScheduledEvent
            /\ l.SuppressSending = j.SuppressSending
            /\ l.NextCacheCheck = j.NextCacheCheck
            /\ l.NextScheduledProbe = j.NextScheduledProbe
            /\ l.NextScheduledQuery = j.NextScheduledQuery
            /\ l.NextScheduledResponse = j.NextScheduledResponse
            /\ l.SuppressProbes = j.SuppressProbes
            /\ l.NewQuestions = k.NewQuestions
            /\ l.rec = j.rec
            /\ l.qst = j.qst
<1> DEFINE behind == k.mDNS_busy = 0 /\ k.timenow_last > 0
           j == IF behind THEN Pass(k, k.timenow_last) ELSE k
           j1 == IF behind THEN [j EXCEPT !.timenow_adjust = @ + k.timenow_last] ELSE k
<1>1. mDNS_Lock(k) = [j1 EXCEPT !.timenow_last = 0, !.mDNS_busy = @ + 1]
  BY DEF mDNS_Lock
<1>2. j \in Engine /\ j.mDNS_busy = k.mDNS_busy /\ j.timenow_adjust = k.timenow_adjust
      /\ j.NewQuestions = k.NewQuestions /\ k.timenow_last \in Int
  BY EngineTypes, PassFields
<1>3. behind => k.timenow_last \in Int
  BY EngineTypes
<1> HIDE DEF j, behind
<1>4. j1 \in Engine /\ (j = k \/ behind)
  <2>1. behind => [j EXCEPT !.timenow_adjust = @ + k.timenow_last] \in Engine
    BY <1>2 DEF Engine
  <2>. QED  BY <2>1 DEF j
<1>5. /\ j1.mDNS_busy = k.mDNS_busy
      /\ j1.timenow_adjust = IF behind THEN k.timenow_adjust + k.timenow_last ELSE k.timenow_adjust
      /\ j1.NextScheduledEvent = j.NextScheduledEvent
      /\ j1.SuppressSending = j.SuppressSending
      /\ j1.NextCacheCheck = j.NextCacheCheck
      /\ j1.NextScheduledProbe = j.NextScheduledProbe
      /\ j1.NextScheduledQuery = j.NextScheduledQuery
      /\ j1.NextScheduledResponse = j.NextScheduledResponse
      /\ j1.SuppressProbes = j.SuppressProbes
      /\ j1.NewQuestions = k.NewQuestions
      /\ j1.rec = j.rec
      /\ j1.qst = j.qst
  <2>1. CASE behind
    BY <1>2, <2>1 DEF Engine
  <2>2. CASE ~behind
    BY <2>2 DEF j
  <2>. QED  BY <2>1, <2>2
<1> HIDE DEF j1
<1>6. /\ mDNS_Lock(k) \in Engine
      /\ mDNS_Lock(k).timenow_last = 0
      /\ mDNS_Lock(k).timenow_adjust = j1.timenow_adjust
      /\ mDNS_Lock(k).mDNS_busy = j1.mDNS_busy + 1
      /\ mDNS_Lock(k).NextScheduledEvent = j1.NextScheduledEvent
      /\ mDNS_Lock(k).SuppressSending = j1.SuppressSending
      /\ mDNS_Lock(k).NextCacheCheck = j1.NextCacheCheck
      /\ mDNS_Lock(k).NextScheduledProbe = j1.NextScheduledProbe
      /\ mDNS_Lock(k).NextScheduledQuery = j1.NextScheduledQuery
      /\ mDNS_Lock(k).NextScheduledResponse = j1.NextScheduledResponse
      /\ mDNS_Lock(k).SuppressProbes = j1.SuppressProbes
      /\ mDNS_Lock(k).NewQuestions = j1.NewQuestions
      /\ mDNS_Lock(k).rec = j1.rec
      /\ mDNS_Lock(k).qst = j1.qst
  <2>1. j1.mDNS_busy + 1 \in Int
    BY <1>4, EngineTypes
  <2> DEFINE b == j1.mDNS_busy + 1
             zero == 0
  <2>2. mDNS_Lock(k) = [j1 EXCEPT !.timenow_last = zero, !.mDNS_busy = b]
    BY <1>1
  <2>3. b \in Int /\ b = j1.mDNS_busy + 1 /\ zero \in Int /\ zero = 0
    BY <2>1
  <2> HIDE DEF b, zero
  <2>4. mDNS_Lock(k) \in Engine
    BY <1>4, <2>2, <2>3 DEF Engine
  <2>. QED  BY <1>4, <2>2, <2>3, <2>4 DEF Engine
<1>. QED  BY <1>2, <1>5, <1>6 DEF j, behind

LEMMA LockSound ==
  ASSUME NEW P, NEW A, NEW k, Sound(k, P, A),
         k.mDNS_busy = 0 => P = {} /\ A = {},
         k.mDNS_busy # 0 => k.timenow_last = 0
  PROVE  Sound(mDNS_Lock(k), P, A)
<1>1. k \in Engine /\ k.timenow_last \in Int
  BY EngineTypes DEF Sound, Typed, Plan
<1> DEFINE l == mDNS_Lock(k)
<1>2. l \in Engine /\ Now(l) = 0
  BY <1>1, LockFields DEF Now
<1>3. CASE k.mDNS_busy = 0 /\ k.timenow_last > 0
  <2> DEFINE j == Pass(k, k.timenow_last)
  <2>0. k.timenow_last \in Int /\ k.timenow_last >= 0 /\ Sound(k, {}, {})
    BY <1>1, <1>3
  <2>1. Sound(j, {}, {}) /\ j.timenow_last = Later(k.timenow_last, k.timenow_last)
    BY <1>1, <2>0, PassSound, PassFields
  <2>2. k.timenow_last # NotSet /\ k.timenow_last - k.timenow_last = 0 /\ ~(0 < -Half)
    BY <1>1, Parameters
  <2>3. Later(k.timenow_last, k.timenow_last) = 0
    BY <2>2 DEF Later
  <2>4. Now(j) = 0
    BY <2>1, <2>3 DEF Now
  <2>5. /\ l.NextScheduledProbe = j.NextScheduledProbe
        /\ l.NextScheduledQuery = j.NextScheduledQuery
        /\ l.NextScheduledResponse = j.NextScheduledResponse
        /\ l.rec = j.rec /\ l.qst = j.qst
        /\ l.SuppressProbes = j.SuppressProbes
    BY <1>1, <1>3, LockFields
  <2>6. Now(l) >= Now(j)
    BY <1>2, <2>4
  <2>7. Typed(j)
    BY <2>1 DEF Sound
  <2> HIDE DEF j, l
  <2>8. Holding(j, l)
    BY <1>2, <2>5, <2>6, <2>7, HoldingSame
  <2>. QED  BY <1>2, <1>3, <2>1, <2>5, <2>6, <2>8, SoundSame DEF l
<1>4. CASE ~(k.mDNS_busy = 0 /\ k.timenow_last > 0)
  <2>1. /\ l.NextScheduledProbe = k.NextScheduledProbe
        /\ l.NextScheduledQuery = k.NextScheduledQuery
        /\ l.NextScheduledResponse = k.NextScheduledResponse
        /\ l.rec = k.rec /\ l.qst = k.qst
        /\ l.SuppressProbes = k.SuppressProbes
    BY <1>1, <1>4, LockFields
  <2>2. Now(k) = 0
    BY <1>1, <1>4 DEF Now
  <2>3. Now(l) >= Now(k)
    BY <1>2, <2>2
  <2>4. Typed(k)
    BY DEF Sound
  <2> HIDE DEF l
  <2>5. Holding(k, l)
    BY <1>2, <2>1, <2>3, <2>4, HoldingSame
  <2>. QED  BY <1>2, <2>1, <2>3, <2>5, SoundSame DEF l
<1>. QED  BY <1>3, <1>4

LEMMA GetNextType == ASSUME NEW k \in Engine PROVE GetNextScheduledEvent(k) \in Int
<1>1. Soonest({k.NextCacheCheck, k.NextScheduledQuery, k.NextScheduledProbe,
               k.NextScheduledResponse}) \in Int
  BY EngineTypes, SoonestOfFour
<1>2. k.SuppressSending # NotSet => k.SuppressSending \in Int
  BY EngineTypes
<1>. QED  BY <1>1, <1>2 DEF GetNextScheduledEvent

LEMMA UnlockFields ==
  ASSUME NEW k \in Engine
  PROVE  LET u == mDNS_Unlock(k)
         IN /\ u \in Engine
            /\ u.mDNS_busy = IF k.mDNS_busy > 1 THEN k.mDNS_busy - 1 ELSE 0
            /\ u.NextScheduledEvent =
                 IF k.mDNS_busy > 1 THEN k.NextScheduledEvent ELSE GetNextScheduledEvent(k)
            /\ u.timenow_last = k.timenow_last
            /\ u.timenow_adjust = k.timenow_adjust
            /\ u.SuppressSending = k.SuppressSending
            /\ u.NextCacheCheck = k.NextCacheCheck
            /\ u.NextScheduledProbe = k.NextScheduledProbe
            /\ u.NextScheduledQuery = k.NextScheduledQuery
            /\ u.NextScheduledResponse = k.NextScheduledResponse
            /\ u.SuppressProbes = k.SuppressProbes
            /\ u.NewQuestions = k.NewQuestions
            /\ u.rec = k.rec
            /\ u.qst = k.qst
<1>1. k.mDNS_busy \in Int /\ GetNextScheduledEvent(k) \in Int
  BY EngineTypes, GetNextType
<1>2. CASE k.mDNS_busy > 1
  <2>1. mDNS_Unlock(k) = [k EXCEPT !.mDNS_busy = @ - 1]
    BY <1>2 DEF mDNS_Unlock
  <2>. QED  BY <1>1, <1>2, <2>1 DEF Engine
<1>3. CASE ~(k.mDNS_busy > 1)
  <2>1. mDNS_Unlock(k) = [k EXCEPT !.mDNS_busy = 0, !.NextScheduledEvent = GetNextScheduledEvent(k)]
    BY <1>3 DEF mDNS_Unlock
  <2> DEFINE e == GetNextScheduledEvent(k)
  <2>2. e \in Int /\ e = GetNextScheduledEvent(k)
    BY <1>1
  <2> DEFINE zero == 0
  <2>3. mDNS_Unlock(k) = [k EXCEPT !.mDNS_busy = zero, !.NextScheduledEvent = e]
    BY <2>1
  <2>z. zero \in Int /\ zero = 0
    OBVIOUS
  <2> HIDE DEF e, zero
  <2>4. mDNS_Unlock(k) \in Engine
    BY <2>2, <2>3, <2>z DEF Engine
  <2>. QED  BY <1>3, <2>2, <2>3, <2>4, <2>z DEF Engine
<1>. QED  BY <1>2, <1>3

LEMMA UnlockSound ==
  ASSUME NEW P, NEW A, NEW k, Sound(k, P, A)
  PROVE  Sound(mDNS_Unlock(k), P, A)
<1>1. k \in Engine /\ Now(k) \in Int
  BY EngineTypes DEF Sound, Typed, Plan
<1>2. /\ mDNS_Unlock(k) \in Engine /\ Now(mDNS_Unlock(k)) = Now(k)
      /\ Now(mDNS_Unlock(k)) >= Now(k)
  BY <1>1, UnlockFields DEF Now
<1>3. Holding(k, mDNS_Unlock(k))
  BY <1>1, <1>2, UnlockFields, HoldingSame DEF Sound
<1>. QED  BY <1>1, <1>2, <1>3, UnlockFields, SoundSame

--------------------------------------------------------------------------------
(* What functions do to one record *)

\* They leave the lock and the rest of the plan alone
Kept(k, j) ==
  /\ j \in Engine
  /\ j.timenow_last = k.timenow_last
  /\ j.timenow_adjust = k.timenow_adjust
  /\ j.mDNS_busy = k.mDNS_busy
  /\ j.NextScheduledEvent = k.NextScheduledEvent
  /\ j.SuppressSending = k.SuppressSending
  /\ j.NextCacheCheck = k.NextCacheCheck

\* and the lock as it is
Holds(k, j) ==
  /\ j \in Engine
  /\ j.timenow_last = k.timenow_last
  /\ j.timenow_adjust = k.timenow_adjust
  /\ j.mDNS_busy = k.mDNS_busy

\* and what lies ahead stays there
Serves(k, j) ==
  /\ Kept(k, j)
  /\ Ahead(k) => Ahead(j)
  /\ Ahead(k) /\ k.NextScheduledProbe >= 1 => j.NextScheduledProbe >= 1
  /\ Ahead(k) /\ k.NextScheduledResponse >= 1 => j.NextScheduledResponse >= 1

\* Record r becomes c
PutRecord(k, r, c) == [k EXCEPT !.rec[r] = c]

LEMMA RecordSet ==
  ASSUME NEW k \in Engine, NEW r \in Record, NEW c \in RecordState, NEW j,
         j = PutRecord(k, r, c)
  PROVE  /\ Kept(k, j)
         /\ j.rec[r] = c
         /\ \A s \in Record : s # r => j.rec[s] = k.rec[s]
         /\ j.NextScheduledProbe = k.NextScheduledProbe
         /\ j.NextScheduledQuery = k.NextScheduledQuery
         /\ j.NextScheduledResponse = k.NextScheduledResponse
         /\ j.SuppressProbes = k.SuppressProbes
         /\ j.qst = k.qst
<1> DEFINE f == [k.rec EXCEPT ![r] = c]
<1>1. k.rec \in [Record -> RecordState]
  BY EngineTypes
<1>2. f \in [Record -> RecordState] /\ f[r] = c /\ \A s \in Record : s # r => f[s] = k.rec[s]
  BY <1>1
<1>3. j = [k EXCEPT !.rec = f]
  BY DEF PutRecord
<1> HIDE DEF f
<1>. QED  BY <1>2, <1>3 DEF Engine, Kept

LEMMA SoonerFacts ==
  ASSUME NEW next \in Int, NEW t \in Int
  PROVE  /\ Sooner(next, t) \in Int /\ Sooner(next, t) <= next /\ Sooner(next, t) <= t
         /\ Sooner(next, t) \in {next, t}
BY DEF Sooner

LEMMA SetNextFields ==
  ASSUME NEW k \in Engine, NEW r \in Record
  PROVE  LET j == SetNextAnnounceProbeTime(k, r)
             probes == k.rec[r].RecordType = "Unique"
             announces == /\ ~probes /\ k.rec[r].AnnounceCount > 0
                          /\ ResourceRecordIsValidAnswer(k, r)
         IN /\ Kept(k, j)
            /\ j.rec = k.rec
            /\ j.NextScheduledProbe = IF probes THEN Sooner(k.NextScheduledProbe, APTime(k, r))
                                      ELSE k.NextScheduledProbe
            /\ j.NextScheduledQuery = k.NextScheduledQuery
            /\ j.NextScheduledResponse = IF announces THEN Sooner(k.NextScheduledResponse, APTime(k, r))
                                         ELSE k.NextScheduledResponse
            /\ j.SuppressProbes = k.SuppressProbes
            /\ j.qst = k.qst
<1> DEFINE a == APTime(k, r)
           p == Sooner(k.NextScheduledProbe, a)
           s == Sooner(k.NextScheduledResponse, a)
<1>1. a \in Int /\ k.NextScheduledProbe \in Int /\ k.NextScheduledResponse \in Int
  BY EngineTypes
<1>2. p \in Int /\ s \in Int
  BY <1>1, SoonerFacts
<1>3. CASE k.rec[r].RecordType = "Unique"
  <2>1. SetNextAnnounceProbeTime(k, r) = [k EXCEPT !.NextScheduledProbe = p]
    BY <1>3 DEF SetNextAnnounceProbeTime
  <2> HIDE DEF p
  <2>. QED  BY <1>2, <1>3, <2>1 DEF Engine, Kept, p
<1>4. CASE /\ k.rec[r].RecordType # "Unique" /\ k.rec[r].AnnounceCount > 0
           /\ ResourceRecordIsValidAnswer(k, r)
  <2>1. SetNextAnnounceProbeTime(k, r) = [k EXCEPT !.NextScheduledResponse = s]
    BY <1>4 DEF SetNextAnnounceProbeTime
  <2> HIDE DEF s
  <2>. QED  BY <1>2, <1>4, <2>1 DEF Engine, Kept, s
<1>5. CASE /\ k.rec[r].RecordType # "Unique"
           /\ ~(k.rec[r].AnnounceCount > 0 /\ ResourceRecordIsValidAnswer(k, r))
  BY <1>5 DEF SetNextAnnounceProbeTime, Kept
<1>. QED  BY <1>3, <1>4, <1>5

LEMMA Valid ==
  ASSUME NEW k, NEW r \in Record, Needs[r] = {}
  PROVE  ResourceRecordIsValidAnswer(k, r) <=> k.rec[r].RecordType \in {"Shared", "Verified"}
BY DEF ResourceRecordIsValidAnswer

\* Plan j is plan k with record r as c, whose time goes with the plan
NextSet(P, A, k, r, c, j) ==
  LET a == c.LastAPTime + c.ThisAPInterval
  IN /\ Sound(j, P \ {r}, A)
     /\ Kept(k, j)
     /\ j.rec[r] = c
     /\ \A s \in Record : s # r => j.rec[s] = k.rec[s]
     /\ j.SuppressProbes = k.SuppressProbes
     /\ j.NextScheduledQuery = k.NextScheduledQuery
     /\ j.NextScheduledProbe <= k.NextScheduledProbe
     /\ j.NextScheduledResponse <= k.NextScheduledResponse
     /\ j.NextScheduledProbe \in {k.NextScheduledProbe, a}
     /\ c.RecordType # "Unique" => j.NextScheduledProbe = k.NextScheduledProbe
     /\ c.RecordType = "Unique" => j.NextScheduledProbe <= a
     /\ j.NextScheduledResponse \in {k.NextScheduledResponse, a}
     /\ Needs[r] = {} /\ Announcing(c) => j.NextScheduledResponse <= a

\* A record that is given its time goes with the plan
LEMMA SetNextSound ==
  ASSUME NEW P, NEW A, NEW k, Sound(k, P, A), NEW r \in Record,
         NEW c \in RecordState, NEW k1, k1 = PutRecord(k, r, c),
         c.ThisAPInterval >= 1, c.LastAPTime + c.ThisAPInterval >= -Half,
         c.RecordType # "None", BlockFits(c.UpdateBlocked),
         c.RecordType = "Deregistering" => c.ImmedAnswer,
         c.ImmedAnswer => r \in A \/ k.rec[r].ImmedAnswer
  PROVE  NextSet(P, A, k, r, c, SetNextAnnounceProbeTime(k1, r))
<1> DEFINE j == SetNextAnnounceProbeTime(k1, r)
           a == c.LastAPTime + c.ThisAPInterval
<1>1. k \in Engine /\ Kept(k, k1) /\ k1.rec[r] = c
      /\ (\A s \in Record : s # r => k1.rec[s] = k.rec[s])
      /\ k1.NextScheduledProbe = k.NextScheduledProbe
      /\ k1.NextScheduledQuery = k.NextScheduledQuery
      /\ k1.NextScheduledResponse = k.NextScheduledResponse
      /\ k1.SuppressProbes = k.SuppressProbes
      /\ k1.qst = k.qst
  <2>1. k \in Engine
    BY DEF Sound, Typed, Plan
  <2>. QED  BY <2>1, RecordSet
<1>2. /\ Kept(k1, j) /\ j.rec = k1.rec /\ j.qst = k.qst
      /\ j.NextScheduledQuery = k.NextScheduledQuery
      /\ j.SuppressProbes = k.SuppressProbes
      /\ APTime(k1, r) = a /\ a \in Int
      /\ c.RecordType = "Unique" => j.NextScheduledProbe = Sooner(k.NextScheduledProbe, a)
      /\ c.RecordType # "Unique" => j.NextScheduledProbe = k.NextScheduledProbe
      /\ j.NextScheduledResponse \in {k.NextScheduledResponse, Sooner(k.NextScheduledResponse, a)}
      /\ Needs[r] = {} /\ Announcing(c)
           => j.NextScheduledResponse = Sooner(k.NextScheduledResponse, a)
  <2>1. k1 \in Engine
    BY <1>1 DEF Kept
  <2>2. Needs[r] = {} => (ResourceRecordIsValidAnswer(k1, r) <=> c.RecordType \in {"Shared", "Verified"})
    BY <1>1, Valid
  <2>3. APTime(k1, r) = a /\ a \in Int
    BY <1>1 DEF APTime, RecordState
  <2>4. /\ Kept(k1, j) /\ j.rec = k1.rec /\ j.qst = k1.qst
        /\ j.NextScheduledQuery = k1.NextScheduledQuery
        /\ j.SuppressProbes = k1.SuppressProbes
        /\ j.NextScheduledProbe = IF k1.rec[r].RecordType = "Unique"
                                  THEN Sooner(k1.NextScheduledProbe, APTime(k1, r))
                                  ELSE k1.NextScheduledProbe
        /\ j.NextScheduledResponse = IF /\ k1.rec[r].RecordType # "Unique"
                                        /\ k1.rec[r].AnnounceCount > 0
                                        /\ ResourceRecordIsValidAnswer(k1, r)
                                     THEN Sooner(k1.NextScheduledResponse, APTime(k1, r))
                                     ELSE k1.NextScheduledResponse
    BY <2>1, SetNextFields
  <2> HIDE DEF j, a
  <2>. QED  BY <1>1, <2>2, <2>3, <2>4 DEF Announcing
<1>3. Kept(k, j)
  BY <1>1, <1>2 DEF Kept
<1>4. k.NextScheduledProbe \in Int /\ k.NextScheduledResponse \in Int
      /\ k.NextScheduledProbe >= -Half
  BY <1>1, EngineTypes DEF Sound, Typed, Fits
<1> HIDE DEF a
<1> HIDE DEF j
<1>a. a \in Int
  BY <1>2
<1>b. \A n \in Int : /\ Sooner(n, a) \in Int /\ Sooner(n, a) <= n /\ Sooner(n, a) <= a
                     /\ Sooner(n, a) \in {n, a}
  BY <1>a, SoonerFacts
<1>5. /\ j.NextScheduledProbe \in Int /\ j.NextScheduledResponse \in Int
      /\ j.NextScheduledProbe <= k.NextScheduledProbe
      /\ j.NextScheduledResponse <= k.NextScheduledResponse
      /\ j.NextScheduledProbe \in {k.NextScheduledProbe, a}
      /\ j.NextScheduledResponse \in {k.NextScheduledResponse, a}
      /\ c.RecordType = "Unique" => j.NextScheduledProbe <= a
      /\ Needs[r] = {} /\ Announcing(c)
           => j.NextScheduledResponse <= a
  <2>1. /\ j.NextScheduledProbe \in {k.NextScheduledProbe, Sooner(k.NextScheduledProbe, a)}
        /\ c.RecordType = "Unique" => j.NextScheduledProbe = Sooner(k.NextScheduledProbe, a)
    BY <1>2
  <2>2. /\ j.NextScheduledProbe \in Int
        /\ j.NextScheduledProbe <= k.NextScheduledProbe
        /\ j.NextScheduledProbe \in {k.NextScheduledProbe, a}
        /\ c.RecordType = "Unique" => j.NextScheduledProbe <= a
    BY <1>4, <1>b, <2>1
  <2>3. /\ j.NextScheduledResponse \in Int
        /\ j.NextScheduledResponse <= k.NextScheduledResponse
        /\ j.NextScheduledResponse \in {k.NextScheduledResponse, a}
        /\ Needs[r] = {} /\ Announcing(c)
             => j.NextScheduledResponse <= a
    BY <1>2, <1>4, <1>b
  <2>. QED  BY <2>2, <2>3
<1>6. APTime(j, r) = a /\ j.rec[r] = c
  BY <1>1, <1>2 DEF APTime, a
<1>7. RecordFits(j, r)
  BY <1>6 DEF RecordFits, RecordState, a
<1>8. ProbePlanned(j, r) /\ AnnouncementPlanned(j, r)
  BY <1>2, <1>5, <1>6 DEF ProbePlanned, AnnouncementPlanned, Planned
<1>9. Now(j) = Now(k) /\ Now(k) \in Int
  BY <1>1, <1>3, EngineTypes DEF Kept, Now
<1>10. r \notin A => AnswerPlanned(j, r)
  <2>1. r \notin A => AnswerPlanned(k, r)
    BY DEF Sound, Typed, Plan
  <2>. QED  BY <1>4, <1>5, <1>6, <1>9, <2>1, Parameters DEF AnswerPlanned
<1>11. Sound(j, P \ {r}, A)
  <2>1. j \in Engine /\ j.timenow_last = k.timenow_last
    BY <1>3 DEF Kept
  <2>2. j.NextScheduledProbe >= -Half
    BY <1>4, <1>5 DEF a
  <2>3. \A s \in Record : s # r => j.rec[s] = k.rec[s]
    BY <1>1, <1>2
  <2> DEFINE Q == P \ {r}
  <2>4. P \subseteq Q \union {r} /\ A \subseteq A \union {r}
    OBVIOUS
  <2> HIDE DEF Q
  <2>5. Sound(j, Q, A)
    BY <1>2, <1>5, <1>7, <1>8, <1>10, <2>1, <2>2, <2>3, <2>4, SoundRecord, SMTT(30)
  <2>. QED  BY <2>5 DEF Q
<1>. QED  BY <1>1, <1>2, <1>3, <1>5, <1>6, <1>11 DEF j, a, NextSet

\* APTimes set by InitializeLastAPTime: when the first probe or announcement may go
First(k) ==
  LET past == IF k.SuppressProbes = NotSet THEN TRUE ELSE k.SuppressProbes < 0
  IN IF past THEN Sooner(Sooner(ProbeInterval, k.NextScheduledProbe), k.NextScheduledQuery)
     ELSE k.SuppressProbes

LEMMA Intervals ==
  /\ ProbeInterval \in Int /\ ProbeInterval >= 1
  /\ AnnounceInterval \in Int /\ AnnounceInterval >= 2
  /\ InitialQuestionInterval \in Int /\ InitialQuestionInterval >= 2
  /\ ReannounceCount \in Int
  /\ ProbeFailureDelay \in Int /\ ProbeFailureDelay >= 1
  /\ ProbeInterval * DefaultProbeCountForTypeUnique \in Int
  /\ ProbeInterval * DefaultProbeCountForTypeUnique >= 0
<1>1. ProbeInterval \in Int /\ ProbeInterval >= 1
  BY Parameters DEF ProbeInterval
<1>2. ProbeInterval * DefaultProbeCountForTypeUnique >= 0
      /\ ProbeInterval * DefaultProbeCountForTypeUnique \in Int
  <2> DEFINE x == ProbeInterval
             y == DefaultProbeCountForTypeUnique
  <2>1. x \in Int /\ x >= 1 /\ y \in Int /\ y >= 1
    BY <1>1, Parameters
  <2> HIDE DEF x, y
  <2>2. x * y >= 0 /\ x * y \in Int
    BY <2>1
  <2>. QED  BY <2>2 DEF x, y
<1>3. /\ AnnounceInterval \in Int /\ AnnounceInterval >= 2
      /\ InitialQuestionInterval \in Int /\ InitialQuestionInterval >= 2
      /\ ReannounceCount \in Int
      /\ ProbeFailureDelay \in Int /\ ProbeFailureDelay >= 1
  BY Parameters DEF AnnounceInterval, InitialQuestionInterval, ReannounceCount, ProbeFailureDelay
<1>. QED  BY <1>1, <1>2, <1>3

LEMMA FirstFacts ==
  ASSUME NEW k, Typed(k)
  PROVE  /\ First(k) \in Int
         /\ First(k) >= -Half
         /\ Ahead(k) => First(k) >= 1
         /\ First(k) <= Now(k) + ProbeFailureDelay
         /\ k.SuppressProbes # NotSet => k.SuppressProbes <= Now(k) \/ k.SuppressProbes <= First(k)
<1>1. /\ k.NextScheduledProbe \in Int /\ k.NextScheduledQuery \in Int
      /\ k.SuppressProbes \in Int \union {NotSet}
      /\ k.NextScheduledProbe >= -Half /\ k.NextScheduledQuery >= -Half
      /\ Now(k) \in Int /\ Now(k) >= 0
      /\ k.SuppressProbes = NotSet \/ k.SuppressProbes <= Now(k) + ProbeFailureDelay
  BY EngineTypes DEF Typed, Fits, Now
<1>2. ProbeInterval <= ProbeFailureDelay
  BY Parameters DEF ProbeInterval, ProbeFailureDelay
<1>3. First(k) \in Int /\ First(k) >= -Half /\ (Ahead(k) => First(k) >= 1)
  BY <1>1, Intervals, Parameters DEF First, Sooner, Ahead
<1>4. First(k) <= Now(k) + ProbeFailureDelay
  BY <1>1, <1>2, Intervals, Parameters DEF First, Sooner
<1>5. k.SuppressProbes # NotSet => k.SuppressProbes <= Now(k) \/ k.SuppressProbes <= First(k)
  BY <1>1, Parameters DEF First
<1>. QED  BY <1>3, <1>4, <1>5

\* When a record that is given its time is probed, or announced
FirstDelay(c) ==
  IF c.RecordType = "Unique" THEN 0
  ELSE ProbeInterval * DefaultProbeCountForTypeUnique + c.ThisAPInterval \div 2

Initialized(P, A, k, r, c, j) ==
  /\ Sound(j, P \ {r}, A)
  /\ Serves(k, j)
  /\ j.SuppressProbes \in Int
  /\ c.RecordType = "Unique" => j.NextScheduledProbe <= j.SuppressProbes
  /\ Needs[r] = {} /\ Announcing(c) => j.NextScheduledResponse <= j.SuppressProbes + FirstDelay(c)
  /\ \E t \in Int : j.rec[r] = [c EXCEPT !.LastAPTime = t]

\* InitializeLastAPTime gives a record its time, which goes with the plan
LEMMA InitializeSound ==
  ASSUME NEW P, NEW A, NEW k, Sound(k, P, A), NEW r \in Record,
         NEW c \in RecordState, NEW k1, k1 = PutRecord(k, r, c),
         c.ThisAPInterval >= 1, c.RecordType # "None", BlockFits(c.UpdateBlocked),
         c.RecordType = "Deregistering" => c.ImmedAnswer,
         c.ImmedAnswer => r \in A \/ k.rec[r].ImmedAnswer
  PROVE  Initialized(P, A, k, r, c, InitializeLastAPTime(k1, r))
<1> DEFINE first == First(k)
           delay == FirstDelay(c)
           t == first + delay - c.ThisAPInterval
           ks == [k EXCEPT !.SuppressProbes = first]
           d == [c EXCEPT !.LastAPTime = t]
           k2 == PutRecord(ks, r, d)
           j == InitializeLastAPTime(k1, r)
<1>1. Typed(k) /\ k \in Engine
  BY DEF Sound, Typed
<1>2. /\ first \in Int /\ first >= -Half /\ (Ahead(k) => first >= 1)
      /\ first <= Now(k) + ProbeFailureDelay
      /\ k.SuppressProbes # NotSet => k.SuppressProbes <= Now(k) \/ k.SuppressProbes <= first
  BY <1>1, FirstFacts
<1> HIDE DEF first
<1>3. delay \in Int /\ delay >= 0
  BY Intervals DEF RecordState, FirstDelay
<1> HIDE DEF delay
<1>4. /\ c.ThisAPInterval \in Int /\ t \in Int
      /\ t + c.ThisAPInterval = first + delay
  BY <1>2, <1>3 DEF RecordState
<1> HIDE DEF t
<1>5. /\ d \in RecordState
      /\ d.LastAPTime = t /\ d.ThisAPInterval = c.ThisAPInterval
      /\ d.RecordType = c.RecordType /\ d.UpdateBlocked = c.UpdateBlocked
      /\ d.ImmedAnswer = c.ImmedAnswer /\ d.AnnounceCount = c.AnnounceCount
  BY <1>4 DEF RecordState
<1>6. /\ Kept(k, ks) /\ Sound(ks, P, A) /\ ks.rec = k.rec
      /\ ks.NextScheduledProbe = k.NextScheduledProbe
      /\ ks.NextScheduledQuery = k.NextScheduledQuery
      /\ ks.NextScheduledResponse = k.NextScheduledResponse
      /\ ks.SuppressProbes = first
  <2>1. /\ Kept(k, ks) /\ ks.rec = k.rec /\ ks.qst = k.qst
        /\ ks.NextScheduledProbe = k.NextScheduledProbe
        /\ ks.NextScheduledQuery = k.NextScheduledQuery
        /\ ks.NextScheduledResponse = k.NextScheduledResponse
        /\ ks.SuppressProbes = first
    BY <1>1, <1>2 DEF Engine, Kept
  <2>2. ks \in Engine /\ Now(ks) = Now(k) /\ Now(k) \in Int
    BY <1>1, <2>1, EngineTypes DEF Kept, Now
  <2> HIDE DEF ks
  <2>3. Now(ks) >= Now(k)
    BY <2>2
  <2>4. Holding(k, ks)
    BY <1>2, <2>1, <2>2, Parameters DEF Holding
  <2>. QED  BY <2>1, <2>2, <2>3, <2>4, SoundSame
<1>7. j = SetNextAnnounceProbeTime(k2, r)
  <2>1. /\ k1.SuppressProbes = k.SuppressProbes
        /\ k1.NextScheduledProbe = k.NextScheduledProbe
        /\ k1.NextScheduledQuery = k.NextScheduledQuery
        /\ k1.rec[r] = c
    BY <1>1, RecordSet
  <2>2. j = SetNextAnnounceProbeTime([k1 EXCEPT !.SuppressProbes = first, !.rec[r].LastAPTime = t], r)
    BY <2>1 DEF InitializeLastAPTime, First, FirstDelay, first, delay, t
  <2>3. [k1 EXCEPT !.SuppressProbes = first, !.rec[r].LastAPTime = t] = k2
    <3>1. k.rec \in [Record -> RecordState]
      BY <1>1, EngineTypes
    <3>2. [[k.rec EXCEPT ![r] = c] EXCEPT ![r].LastAPTime = t] = [k.rec EXCEPT ![r] = d]
      BY <3>1
    <3>. QED  BY <1>1, <3>1, <3>2 DEF PutRecord, Engine
  <2>. QED  BY <2>2, <2>3
<1> HIDE DEF d, ks, j
<1>8. /\ Sound(SetNextAnnounceProbeTime(k2, r), P \ {r}, A)
      /\ Kept(ks, SetNextAnnounceProbeTime(k2, r))
      /\ SetNextAnnounceProbeTime(k2, r).rec[r] = d
      /\ SetNextAnnounceProbeTime(k2, r).SuppressProbes = first
      /\ SetNextAnnounceProbeTime(k2, r).NextScheduledQuery = k.NextScheduledQuery
      /\ \/ SetNextAnnounceProbeTime(k2, r).NextScheduledProbe = k.NextScheduledProbe
         \/ SetNextAnnounceProbeTime(k2, r).NextScheduledProbe = first + delay
      /\ \/ SetNextAnnounceProbeTime(k2, r).NextScheduledResponse = k.NextScheduledResponse
         \/ SetNextAnnounceProbeTime(k2, r).NextScheduledResponse = first + delay
      /\ c.RecordType = "Unique" => SetNextAnnounceProbeTime(k2, r).NextScheduledProbe <= first + delay
      /\ Needs[r] = {} /\ Announcing(c)
           => SetNextAnnounceProbeTime(k2, r).NextScheduledResponse <= first + delay
  <2> DEFINE k3 == k2
  <2>0. k3 = PutRecord(ks, r, d)
    OBVIOUS
  <2>1. /\ d.ThisAPInterval >= 1 /\ d.LastAPTime + d.ThisAPInterval = first + delay
        /\ d.LastAPTime + d.ThisAPInterval >= -Half
        /\ d.RecordType # "None"
        /\ BlockFits(d.UpdateBlocked)
        /\ d.RecordType = "Deregistering" => d.ImmedAnswer
    BY <1>2, <1>3, <1>4, <1>5, Parameters
  <2>2. d.ImmedAnswer => r \in A \/ ks.rec[r].ImmedAnswer
    BY <1>5, <1>6
  <2> HIDE DEF k3
  <2>3. d \in RecordState /\ Sound(ks, P, A)
    BY <1>5, <1>6
  <2>4. NextSet(P, A, ks, r, d, SetNextAnnounceProbeTime(k3, r))
    BY <2>0, <2>1, <2>2, <2>3, SetNextSound
  <2>5. Announcing(d) <=> Announcing(c)
    BY <1>5 DEF Announcing
  <2>. QED  BY <1>5, <1>6, <2>1, <2>4, <2>5 DEF k3, NextSet
<1> HIDE DEF k2
<1>9. /\ Sound(j, P \ {r}, A) /\ Kept(ks, j) /\ j.rec[r] = d
      /\ j.SuppressProbes = first /\ j.NextScheduledQuery = k.NextScheduledQuery
      /\ j.NextScheduledProbe \in {k.NextScheduledProbe, first + delay}
      /\ j.NextScheduledResponse \in {k.NextScheduledResponse, first + delay}
      /\ c.RecordType = "Unique" => j.NextScheduledProbe <= first + delay
      /\ Needs[r] = {} /\ Announcing(c) => j.NextScheduledResponse <= first + delay
  BY <1>7, <1>8
<1>10. Kept(k, j)
  BY <1>6, <1>9 DEF Kept
<1>a. /\ j.SuppressProbes \in Int
      /\ c.RecordType = "Unique" => j.NextScheduledProbe <= j.SuppressProbes
      /\ Needs[r] = {} /\ Announcing(c) => j.NextScheduledResponse <= j.SuppressProbes + FirstDelay(c)
  <2>1. c.RecordType = "Unique" => delay = 0
    BY DEF delay, FirstDelay
  <2>2. delay = FirstDelay(c)
    BY DEF delay
  <2>. QED  BY <1>2, <1>9, <2>1, <2>2
<1>11. /\ Ahead(k) => Ahead(j)
       /\ Ahead(k) /\ k.NextScheduledProbe >= 1 => j.NextScheduledProbe >= 1
       /\ Ahead(k) /\ k.NextScheduledResponse >= 1 => j.NextScheduledResponse >= 1
  BY <1>2, <1>3, <1>9, Parameters DEF Ahead
<1>12. \E u \in Int : j.rec[r] = [c EXCEPT !.LastAPTime = u]
  BY <1>4, <1>9 DEF d
<1>. QED  BY <1>9, <1>10, <1>11, <1>12, <1>a DEF j, Initialized, Serves

--------------------------------------------------------------------------------
(* What clients call *)

\* What is sound for some records to come is sound for more
LEMMA SoundMore ==
  ASSUME NEW k, NEW P, NEW A, NEW Q, NEW B, Sound(k, P, A),
         P \cap Record \subseteq Q, A \cap Record \subseteq B
  PROVE  Sound(k, Q, B)
BY DEF Sound, Plan

LEMMA RegisterSound ==
  ASSUME NEW P, NEW A, NEW k, Sound(k, P, A), NEW r \in Record
  PROVE  Sound(Register(k, r), P \ {r}, A) /\ Serves(k, Register(k, r))
<1> DEFINE c == [RecordType     |-> IF r \in Probed THEN "Unique" ELSE "Shared",
                 ProbeCount     |-> IF r \in Probed THEN DefaultProbeCountForTypeUnique ELSE 0,
                 AnnounceCount  |-> InitialAnnounceCount,
                 LastAPTime     |-> 0,
                 ThisAPInterval |-> IF r \in Probed THEN ProbeInterval ELSE AnnounceInterval,
                 ImmedAnswer    |-> FALSE,
                 UpdateBlocked  |-> NotSet]
           k1 == PutRecord(k, r, c)
<1>1. Register(k, r) = InitializeLastAPTime(k1, r)
  BY DEF Register, PutRecord
<1>2. /\ c \in RecordState
      /\ c.ThisAPInterval >= 1 /\ c.RecordType # "None" /\ c.UpdateBlocked = NotSet
      /\ c.ImmedAnswer = FALSE
      /\ c.RecordType # "Deregistering"
  BY Intervals, Parameters DEF RecordState
<1> HIDE DEF c
<1>3. k1 = PutRecord(k, r, c) /\ BlockFits(c.UpdateBlocked)
  BY <1>2 DEF BlockFits
<1> HIDE DEF k1
<1>4. Initialized(P, A, k, r, c, InitializeLastAPTime(k1, r))
  BY <1>2, <1>3, InitializeSound
<1>. QED  BY <1>1, <1>4 DEF Initialized

LEMMA ReprobeSound ==
  ASSUME NEW P, NEW A, NEW k, Sound(k, P, A), NEW r \in Record, k.rec[r].RecordType # "None"
  PROVE  Sound(Reprobe(k, r), P \ {r}, A) /\ Serves(k, Reprobe(k, r))
<1> DEFINE n == DefaultProbeCountForTypeUnique + 1
           c == [k.rec[r] EXCEPT !.RecordType = "Unique", !.ProbeCount = n,
                                 !.ThisAPInterval = ProbeInterval]
           k1 == PutRecord(k, r, c)
<1>1. k \in Engine /\ k.rec \in [Record -> RecordState] /\ k.rec[r] \in RecordState /\ RecordFits(k, r)
  BY EngineTypes DEF Sound, Typed, Fits
<1>2. Reprobe(k, r) = InitializeLastAPTime(k1, r)
  <2>1. [k EXCEPT !.rec[r].RecordType = "Unique", !.rec[r].ProbeCount = n,
                  !.rec[r].ThisAPInterval = ProbeInterval]
        = [k EXCEPT !.rec = [[[k.rec EXCEPT ![r].RecordType = "Unique"]
                                  EXCEPT ![r].ProbeCount = n]
                                  EXCEPT ![r].ThisAPInterval = ProbeInterval]]
    BY <1>1 DEF Engine
  <2>2. [[[k.rec EXCEPT ![r].RecordType = "Unique"] EXCEPT ![r].ProbeCount = n]
              EXCEPT ![r].ThisAPInterval = ProbeInterval]
        = [k.rec EXCEPT ![r] = c]
    BY <1>1
  <2>3. [k EXCEPT !.rec[r].RecordType = "Unique", !.rec[r].ProbeCount = n,
                  !.rec[r].ThisAPInterval = ProbeInterval] = k1
    BY <2>1, <2>2 DEF PutRecord
  <2>. QED  BY <2>3 DEF Reprobe
<1>3. /\ c \in RecordState
      /\ c.ThisAPInterval >= 1 /\ c.RecordType # "None" /\ c.RecordType # "Deregistering"
      /\ c.UpdateBlocked = k.rec[r].UpdateBlocked
      /\ c.ImmedAnswer = k.rec[r].ImmedAnswer
  <2>1. n \in Int
    BY Parameters
  <2> HIDE DEF n
  <2>. QED  BY <1>1, <2>1, Intervals DEF RecordState
<1>4. BlockFits(c.UpdateBlocked)
  BY <1>1, <1>3 DEF RecordFits
<1> HIDE DEF c
<1>5. k1 = PutRecord(k, r, c)
  OBVIOUS
<1> HIDE DEF k1
<1>6. Initialized(P, A, k, r, c, InitializeLastAPTime(k1, r))
  BY <1>3, <1>4, <1>5, InitializeSound
<1>. QED  BY <1>2, <1>6 DEF Initialized

LEMMA DeleteSound ==
  ASSUME NEW P, NEW A, NEW k, Sound(k, P, A), NEW r \in Record
  PROVE  Sound(Delete(k, r), P \ {r}, A \ {r}) /\ Serves(k, Delete(k, r))
<1> DEFINE j == Delete(k, r)
           Q == P \ {r}
           B == A \ {r}
<1>1. k \in Engine
  BY DEF Sound, Typed
<1>2. Off \in RecordState
  BY DEF Off, RecordState
<1>3. j = PutRecord(k, r, Off)
  BY DEF Delete, PutRecord
<1> HIDE DEF j
<1>4. /\ Kept(k, j) /\ j.rec[r] = Off
      /\ \A s \in Record : s # r => j.rec[s] = k.rec[s]
      /\ j.NextScheduledProbe = k.NextScheduledProbe
      /\ j.NextScheduledQuery = k.NextScheduledQuery
      /\ j.NextScheduledResponse = k.NextScheduledResponse
      /\ j.SuppressProbes = k.SuppressProbes
      /\ j.qst = k.qst
  BY <1>1, <1>2, <1>3, RecordSet
<1>5. k.NextScheduledProbe \in Int /\ k.NextScheduledResponse \in Int /\ k.NextScheduledProbe >= -Half
  BY <1>1, EngineTypes DEF Sound, Typed, Fits
<1>6. RecordFits(j, r) /\ ProbePlanned(j, r) /\ AnnouncementPlanned(j, r) /\ AnswerPlanned(j, r)
  BY <1>4, Parameters DEF Off, RecordFits, BlockFits, ProbePlanned, AnnouncementPlanned, Announcing, AnswerPlanned, APTime
<1>7. /\ j \in Engine /\ j.timenow_last = k.timenow_last
      /\ j.NextScheduledProbe <= k.NextScheduledProbe /\ j.NextScheduledProbe >= -Half
      /\ j.NextScheduledResponse <= k.NextScheduledResponse
      /\ P \subseteq Q \union {r} /\ A \subseteq B \union {r}
  BY <1>4, <1>5 DEF Kept
<1> HIDE DEF Q, B
<1>8. Sound(j, Q, B)
  BY <1>4, <1>6, <1>7, SoundRecord, SMTT(30)
<1>9. Serves(k, j)
  BY <1>4 DEF Serves, Ahead
<1>. QED  BY <1>8, <1>9 DEF j, Q, B

LEMMA RetractSound ==
  ASSUME NEW P, NEW A, NEW k, Sound(k, P, A), NEW r \in Record, k.rec[r].RecordType # "None"
  PROVE  Sound(Retract(k, r), P, A) /\ Serves(k, Retract(k, r))
<1> DEFINE c == [k.rec[r] EXCEPT !.RecordType = "Deregistering", !.ImmedAnswer = TRUE]
           k1 == PutRecord(k, r, c)
           s == Sooner(k.NextScheduledResponse, TenthSecond)
           j == [k1 EXCEPT !.NextScheduledResponse = s]
<1>1. /\ k \in Engine /\ k.rec \in [Record -> RecordState] /\ k.rec[r] \in RecordState
      /\ RecordFits(k, r) /\ Now(k) \in Int /\ APTime(k, r) \in Int
      /\ k.NextScheduledProbe \in Int /\ k.NextScheduledResponse \in Int /\ k.NextScheduledProbe >= -Half
  BY EngineTypes DEF Sound, Typed, Fits
<1>2. Retract(k, r) = j
  <2>1. [k EXCEPT !.rec[r].RecordType = "Deregistering", !.rec[r].ImmedAnswer = TRUE,
                  !.NextScheduledResponse = s]
        = [k EXCEPT !.rec = [[k.rec EXCEPT ![r].RecordType = "Deregistering"]
                                  EXCEPT ![r].ImmedAnswer = TRUE],
                    !.NextScheduledResponse = s]
    BY <1>1 DEF Engine
  <2>2. [[k.rec EXCEPT ![r].RecordType = "Deregistering"] EXCEPT ![r].ImmedAnswer = TRUE]
        = [k.rec EXCEPT ![r] = c]
    BY <1>1
  <2>3. [k EXCEPT !.rec = [k.rec EXCEPT ![r] = c], !.NextScheduledResponse = s] = j
    BY <1>1 DEF PutRecord, Engine
  <2>4. Retract(k, r) = [k EXCEPT !.rec[r].RecordType = "Deregistering", !.rec[r].ImmedAnswer = TRUE,
                                  !.NextScheduledResponse = s]
    BY DEF Retract
  <2>. QED  BY <2>1, <2>2, <2>3, <2>4
<1>3. /\ c \in RecordState
      /\ c.RecordType = "Deregistering" /\ c.ImmedAnswer /\ c.LastAPTime = k.rec[r].LastAPTime
      /\ c.ThisAPInterval = k.rec[r].ThisAPInterval /\ c.UpdateBlocked = k.rec[r].UpdateBlocked
  BY <1>1 DEF RecordState
<1>4. s \in Int /\ s <= k.NextScheduledResponse /\ s <= TenthSecond
      /\ s \in {k.NextScheduledResponse, TenthSecond}
  BY <1>1, SoonerFacts, Parameters
<1> HIDE DEF c, s
<1>5. k1 = PutRecord(k, r, c)
  OBVIOUS
<1> HIDE DEF k1
<1>6. /\ Kept(k, k1) /\ k1.rec[r] = c
      /\ \A t \in Record : t # r => k1.rec[t] = k.rec[t]
      /\ k1.NextScheduledProbe = k.NextScheduledProbe
      /\ k1.NextScheduledQuery = k.NextScheduledQuery
      /\ k1.SuppressProbes = k.SuppressProbes
      /\ k1.qst = k.qst
  BY <1>1, <1>3, <1>5, RecordSet
<1>7. /\ Kept(k1, j) /\ j.rec = k1.rec /\ j.qst = k1.qst
      /\ j.NextScheduledProbe = k1.NextScheduledProbe
      /\ j.NextScheduledQuery = k1.NextScheduledQuery
      /\ j.NextScheduledResponse = s
      /\ j.SuppressProbes = k1.SuppressProbes
  BY <1>4, <1>6 DEF Kept, Engine
<1> HIDE DEF j
<1>8. /\ Kept(k, j) /\ j \in Engine /\ j.timenow_last = k.timenow_last
  BY <1>6, <1>7 DEF Kept
<1>9. j.rec[r] = c /\ APTime(j, r) = APTime(k, r)
  BY <1>3, <1>6, <1>7 DEF APTime
<1>10. RecordFits(j, r)
  BY <1>1, <1>3, <1>9 DEF RecordFits
<1>11. ProbePlanned(j, r) /\ AnnouncementPlanned(j, r)
  BY <1>3, <1>9 DEF ProbePlanned, AnnouncementPlanned, Announcing
<1>12. AnswerPlanned(j, r)
  <2>1. Now(j) \in Int /\ Now(j) >= 0
    BY <1>8, EngineTypes DEF Now
  <2>. QED  BY <1>4, <1>7, <2>1, Parameters DEF AnswerPlanned
<1>13. Sound(j, P, A)
  <2>1. /\ j.NextScheduledProbe <= k.NextScheduledProbe /\ j.NextScheduledProbe >= -Half
        /\ j.NextScheduledQuery = k.NextScheduledQuery /\ j.qst = k.qst
        /\ j.SuppressProbes = k.SuppressProbes
        /\ j.NextScheduledResponse <= k.NextScheduledResponse
        /\ \A t \in Record : t # r => j.rec[t] = k.rec[t]
        /\ P \subseteq P \union {r} /\ A \subseteq A \union {r}
    BY <1>1, <1>4, <1>6, <1>7
  <2>. QED  BY <1>8, <1>10, <1>11, <1>12, <2>1, SoundRecord, SMTT(30)
<1>14. Serves(k, j)
  BY <1>4, <1>6, <1>7, <1>8, Parameters DEF Serves, Ahead
<1>. QED  BY <1>2, <1>13, <1>14

LEMMA ProbeFailureSound ==
  ASSUME NEW P, NEW A, NEW k, Sound(k, P, A), k.timenow_last = 0, NEW slow \in BOOLEAN
  PROVE  Sound(RecordProbeFailure(k, slow), P, A) /\ Serves(k, RecordProbeFailure(k, slow))
<1> DEFINE j == RecordProbeFailure(k, slow)
<1>1. k \in Engine /\ Now(k) \in Int
  BY EngineTypes DEF Sound, Typed
<1>2. /\ Kept(k, j) /\ j.rec = k.rec /\ j.qst = k.qst
      /\ j.NextScheduledProbe = k.NextScheduledProbe
      /\ j.NextScheduledQuery = k.NextScheduledQuery
      /\ j.NextScheduledResponse = k.NextScheduledResponse
      /\ j.SuppressProbes \in {k.SuppressProbes, ProbeFailureDelay}
  BY <1>1, Intervals DEF RecordProbeFailure, Kept, Engine
<1> HIDE DEF j
<1>3. j \in Engine /\ Now(j) = Now(k) /\ Now(j) >= Now(k)
  BY <1>1, <1>2 DEF Kept, Now
<1>4. Sound(j, P, A)
  <2>1. /\ k.SuppressProbes = NotSet \/ k.SuppressProbes <= Now(k) + ProbeFailureDelay
        /\ k.SuppressProbes \in Int \union {NotSet} /\ Now(k) = 0
    BY <1>1, EngineTypes DEF Sound, Typed, Fits, Now
  <2>2. Holding(k, j)
    BY <1>2, <1>3, <2>1, Delays, Parameters DEF Holding
  <2>. QED  BY <1>2, <1>3, <2>2, SoundSame
<1>5. Serves(k, j)
  BY <1>2, Intervals, Parameters DEF Serves, Ahead
<1>. QED  BY <1>4, <1>5 DEF j

\* A record whose announcements or time are set otherwise, in a way that the plan allows
LEMMA AlterSound ==
  ASSUME NEW P, NEW A, NEW k, Sound(k, P, A), NEW r \in Record,
         NEW c \in RecordState, NEW j, j = PutRecord(k, r, c),
         RecordFits(j, r),
         r \notin P => ProbePlanned(j, r),
         AnnouncementPlanned(j, r),
         r \notin A => AnswerPlanned(j, r)
  PROVE  Sound(j, P, A) /\ Serves(k, j)
<1>1. k \in Engine
  BY DEF Sound, Typed
<1>2. /\ Kept(k, j)
      /\ \A s \in Record : s # r => j.rec[s] = k.rec[s]
      /\ j.NextScheduledProbe = k.NextScheduledProbe
      /\ j.NextScheduledQuery = k.NextScheduledQuery
      /\ j.NextScheduledResponse = k.NextScheduledResponse
      /\ j.SuppressProbes = k.SuppressProbes
      /\ j.qst = k.qst
  BY <1>1, RecordSet
<1>3. /\ k.NextScheduledProbe \in Int /\ k.NextScheduledResponse \in Int
      /\ k.NextScheduledProbe >= -Half
  BY <1>1, EngineTypes DEF Sound, Typed, Fits
<1>4. /\ j \in Engine /\ j.timenow_last = k.timenow_last
      /\ j.NextScheduledProbe <= k.NextScheduledProbe /\ j.NextScheduledProbe >= -Half
      /\ j.NextScheduledResponse <= k.NextScheduledResponse
      /\ P \subseteq P \union {r} /\ A \subseteq A \union {r}
  BY <1>2, <1>3 DEF Kept
<1>5. Sound(j, P, A)
  BY <1>2, <1>4, SoundRecord, SMTT(30)
<1>6. Serves(k, j)
  BY <1>2 DEF Serves, Ahead
<1>. QED  BY <1>5, <1>6

LEMMA ServesOn ==
  ASSUME NEW k, NEW j, NEW i, Serves(k, j), Serves(j, i)
  PROVE  Serves(k, i)
BY DEF Serves, Kept

\* A record whose update is blocked goes by the time it was given before
LEMMA BlockSound ==
  ASSUME NEW P, NEW A, NEW k, Sound(k, P, A), NEW r \in Record, k.rec[r].RecordType # "None",
         NEW delay \in Int, delay >= 0, Blocks, k.SuppressProbes # NotSet,
         k.rec[r].RecordType = "Unique" => k.NextScheduledProbe <= k.SuppressProbes,
         Needs[r] = {} /\ Announcing(k.rec[r])
           => k.NextScheduledResponse <= k.SuppressProbes + AnnounceDelay
  PROVE  Sound(Block(k, r, delay), P, A) /\ Serves(k, Block(k, r, delay))
<1> DEFINE until == IF k.rec[r].UpdateBlocked = NotSet THEN delay ELSE k.rec[r].UpdateBlocked
           int == 4 * k.rec[r].ThisAPInterval
           c == [k.rec[r] EXCEPT !.UpdateBlocked = until, !.LastAPTime = until,
                                 !.ThisAPInterval = int]
           j == Block(k, r, delay)
<1>1. /\ k \in Engine /\ k.rec \in [Record -> RecordState] /\ k.rec[r] \in RecordState
      /\ RecordFits(k, r)
      /\ k.NextScheduledProbe \in Int /\ k.SuppressProbes \in Int
  BY EngineTypes DEF Sound, Typed, Fits
<1>2. k.rec[r].ThisAPInterval \in Int /\ k.rec[r].ThisAPInterval >= 1
      /\ k.rec[r].UpdateBlocked \in Int \union {NotSet}
  BY <1>1 DEF RecordFits, RecordState
<1>3. int \in Int /\ int >= 1 /\ until \in Int /\ until >= -Half /\ until + int >= -Half
  BY <1>1, <1>2, Parameters DEF RecordFits, BlockFits
<1>4. j = PutRecord(k, r, c)
  <2>1. [[[k.rec EXCEPT ![r].UpdateBlocked = until] EXCEPT ![r].LastAPTime = until]
              EXCEPT ![r].ThisAPInterval = int]
        = [k.rec EXCEPT ![r] = c]
    BY <1>1 DEF RecordState
  <2>2. [k EXCEPT !.rec[r].UpdateBlocked = until, !.rec[r].LastAPTime = until,
                  !.rec[r].ThisAPInterval = int]
        = [k EXCEPT !.rec = [[[k.rec EXCEPT ![r].UpdateBlocked = until]
                                  EXCEPT ![r].LastAPTime = until]
                                  EXCEPT ![r].ThisAPInterval = int]]
    BY <1>1 DEF Engine
  <2>3. j = [k EXCEPT !.rec[r].UpdateBlocked = until, !.rec[r].LastAPTime = until,
                      !.rec[r].ThisAPInterval = int]
    BY DEF Block
  <2>. QED  BY <2>1, <2>2, <2>3 DEF PutRecord
<1> HIDE DEF until, int, j
<1>5. /\ c \in RecordState /\ c.LastAPTime = until /\ c.ThisAPInterval = int
      /\ c.UpdateBlocked = until /\ c.RecordType = k.rec[r].RecordType
      /\ c.ImmedAnswer = k.rec[r].ImmedAnswer /\ c.AnnounceCount = k.rec[r].AnnounceCount
  BY <1>1, <1>3 DEF RecordState
<1> HIDE DEF c
<1>6. /\ Kept(k, j) /\ j.rec[r] = c
      /\ \A s \in Record : s # r => j.rec[s] = k.rec[s]
      /\ j.NextScheduledProbe = k.NextScheduledProbe
      /\ j.NextScheduledQuery = k.NextScheduledQuery
      /\ j.NextScheduledResponse = k.NextScheduledResponse
      /\ j.SuppressProbes = k.SuppressProbes
      /\ j.qst = k.qst
  BY <1>1, <1>4, <1>5, RecordSet
<1>7. RecordFits(j, r)
  BY <1>1, <1>2, <1>3, <1>5, <1>6 DEF RecordFits, BlockFits, APTime
<1>8. HeldBack(j, r, j.NextScheduledProbe, 0) \/ j.rec[r].RecordType # "Unique"
  <2>1. k.rec[r].RecordType = "Unique" => k.NextScheduledProbe <= k.SuppressProbes + 0
    BY <1>1
  <2>. QED  BY <1>3, <1>5, <1>6, <2>1, Parameters DEF HeldBack
<1>9. ProbePlanned(j, r) /\ AnnouncementPlanned(j, r)
  <2>1. Announcing(j.rec[r]) <=> Announcing(k.rec[r])
    BY <1>5, <1>6 DEF Announcing
  <2>2. Needs[r] = {} /\ Announcing(j.rec[r]) => HeldBack(j, r, j.NextScheduledResponse, AnnounceDelay)
    BY <1>3, <1>5, <1>6, <2>1, Parameters DEF HeldBack
  <2>. QED  BY <1>8, <2>2 DEF ProbePlanned, AnnouncementPlanned
<1>10. r \notin A => AnswerPlanned(j, r)
  <2>1. r \notin A => AnswerPlanned(k, r)
    BY DEF Sound, Plan
  <2>. QED  BY <1>5, <1>6, <2>1 DEF AnswerPlanned, Now, Kept
<1>. QED  BY <1>4, <1>5, <1>7, <1>9, <1>10, AlterSound DEF j

LEMMA UpdateDelayFacts ==
  ASSUME NEW credits \in 0..10, ~(credits > 5)
  PROVE  UpdateDelay(credits) \in Int /\ UpdateDelay(credits) >= 0
<1>1. credits \in {0, 1, 2, 3, 4, 5}
  OBVIOUS
<1>2. <<32, 16, 8, 4, 2, 1>>[credits + 1] \in {32, 16, 8, 4, 2, 1}
  BY <1>1
<1> DEFINE f == <<32, 16, 8, 4, 2, 1>>[credits + 1]
<1>3. UpdateDelay(credits) = OneSecond * f
  BY DEF UpdateDelay
<1>4. f \in {32, 16, 8, 4, 2, 1}
  BY <1>2
<1> HIDE DEF f
<1>. QED  BY <1>3, <1>4, Parameters

\* An update leaves a record no more announcements than it has credits
Capped(k, r, credits) ==
  [k EXCEPT !.rec[r].AnnounceCount = IF @ > credits + 1 THEN credits + 1 ELSE @]

LEMMA UpdateSound ==
  ASSUME NEW P, NEW A, NEW k, Sound(k, P, A), NEW r \in Record,
         k.rec[r].RecordType # "None", NEW credits \in Credits
  PROVE  Sound(Update(k, r, credits), P, A) /\ Serves(k, Update(k, r, credits))
<1> DEFINE old == k.rec[r]
           count == IF old.AnnounceCount < ReannounceCount THEN ReannounceCount ELSE old.AnnounceCount
           int == IF old.RecordType = "Unique" THEN ProbeInterval ELSE AnnounceInterval
           c == [old EXCEPT !.AnnounceCount = count, !.ThisAPInterval = int]
           kc == PutRecord(k, r, c)
           k1 == InitializeLastAPTime(kc, r)
           capped == IF k1.rec[r].AnnounceCount > credits + 1 THEN credits + 1
                     ELSE k1.rec[r].AnnounceCount
           d == [k1.rec[r] EXCEPT !.AnnounceCount = capped]
           k2 == PutRecord(k1, r, d)
<1>1. /\ k \in Engine /\ k.rec \in [Record -> RecordState] /\ old \in RecordState
      /\ RecordFits(k, r)
  BY EngineTypes DEF Sound, Typed, Fits
<1>c. credits \in 0..10
  BY Parameters
<1>2. Update(k, r, credits) = IF credits > 5 THEN k2 ELSE Block(k2, r, UpdateDelay(credits))
  <2>1. [k EXCEPT !.rec[r].AnnounceCount = count, !.rec[r].ThisAPInterval = int]
        = [k EXCEPT !.rec = [[k.rec EXCEPT ![r].AnnounceCount = count]
                                  EXCEPT ![r].ThisAPInterval = int]]
    BY <1>1 DEF Engine
  <2>2. [[k.rec EXCEPT ![r].AnnounceCount = count] EXCEPT ![r].ThisAPInterval = int]
        = [k.rec EXCEPT ![r] = c]
    BY <1>1
  <2>3. [k EXCEPT !.rec[r].AnnounceCount = count, !.rec[r].ThisAPInterval = int] = kc
    BY <2>1, <2>2 DEF PutRecord
  <2> DEFINE new == [k EXCEPT !.rec[r].AnnounceCount = count, !.rec[r].ThisAPInterval = int]
  <2>4. Update(k, r, credits) =
          IF credits > 5 THEN Capped(InitializeLastAPTime(new, r), r, credits)
          ELSE Block(Capped(InitializeLastAPTime(new, r), r, credits), r, UpdateDelay(credits))
    BY DEF Update, Capped
  <2>5. new = kc
    BY <2>3
  <2>6. Capped(k1, r, credits) = k2
    <3> HIDE DEF k1
    <3>. QED  BY DEF Capped, PutRecord
  <2> HIDE DEF kc, new, k2
  <2>. QED  BY <2>4, <2>5, <2>6
<1>3. /\ c \in RecordState /\ c.ThisAPInterval >= 1 /\ c.RecordType = old.RecordType
      /\ c.UpdateBlocked = old.UpdateBlocked /\ c.ImmedAnswer = old.ImmedAnswer
      /\ c.RecordType # "Unique" => c.ThisAPInterval = AnnounceInterval
  <2>1. count \in Int /\ int \in Int /\ int >= 1
    BY <1>1, Intervals DEF RecordState
  <2>2. old.RecordType # "Unique" => int = AnnounceInterval
    OBVIOUS
  <2> HIDE DEF count, int
  <2>. QED  BY <1>1, <2>1, <2>2 DEF RecordState
<1>4. /\ c.RecordType # "None" /\ BlockFits(c.UpdateBlocked)
      /\ c.RecordType = "Deregistering" => c.ImmedAnswer
  BY <1>1, <1>3 DEF RecordFits
<1>d. c.RecordType # "Unique" => FirstDelay(c) = AnnounceDelay
  BY <1>3 DEF FirstDelay, AnnounceDelay
<1> HIDE DEF c
<1>5. kc = PutRecord(k, r, c)
  OBVIOUS
<1> HIDE DEF kc
<1>6. Initialized(P, A, k, r, c, InitializeLastAPTime(kc, r))
  BY <1>3, <1>4, <1>5, InitializeSound
<1>7. /\ Sound(k1, P \ {r}, A) /\ Serves(k, k1)
      /\ k1.SuppressProbes \in Int
      /\ c.RecordType = "Unique" => k1.NextScheduledProbe <= k1.SuppressProbes
      /\ Needs[r] = {} /\ Announcing(c)
           => k1.NextScheduledResponse <= k1.SuppressProbes + FirstDelay(c)
      /\ \E t \in Int : k1.rec[r] = [c EXCEPT !.LastAPTime = t]
  BY <1>6 DEF Initialized
<1> HIDE DEF k1
<1>8. Sound(k1, P, A)
  BY <1>7, SoundMore
<1>9. /\ k1 \in Engine /\ k1.rec \in [Record -> RecordState] /\ k1.rec[r] \in RecordState
      /\ RecordFits(k1, r)
  BY <1>8, EngineTypes DEF Sound, Typed, Fits
<1>10. /\ k1.rec[r].RecordType # "None"
       /\ k1.rec[r].RecordType = c.RecordType /\ k1.rec[r].AnnounceCount = c.AnnounceCount
  BY <1>3, <1>4, <1>7 DEF RecordState
<1>11. capped \in Int /\ (capped > 0 => k1.rec[r].AnnounceCount > 0)
  BY <1>c, <1>9 DEF RecordState
<1> HIDE DEF capped
<1>12. /\ d \in RecordState /\ d.LastAPTime = k1.rec[r].LastAPTime
       /\ d.ThisAPInterval = k1.rec[r].ThisAPInterval /\ d.UpdateBlocked = k1.rec[r].UpdateBlocked
       /\ d.RecordType = k1.rec[r].RecordType /\ d.ImmedAnswer = k1.rec[r].ImmedAnswer
       /\ d.AnnounceCount = capped
  BY <1>9, <1>11 DEF RecordState
<1> HIDE DEF d
<1>13. k2 = PutRecord(k1, r, d)
  OBVIOUS
<1> HIDE DEF k2
<1>14. /\ k2.rec[r] = d /\ Kept(k1, k2) /\ APTime(k2, r) = APTime(k1, r)
       /\ k2.NextScheduledProbe = k1.NextScheduledProbe
       /\ k2.NextScheduledResponse = k1.NextScheduledResponse
       /\ k2.SuppressProbes = k1.SuppressProbes
  BY <1>9, <1>12, <1>13, RecordSet DEF APTime
<1>15. RecordFits(k2, r)
  BY <1>9, <1>10, <1>12, <1>14 DEF RecordFits
<1>e. Announcing(k2.rec[r]) => Announcing(k1.rec[r])
  BY <1>11, <1>12, <1>14 DEF Announcing
<1>16. /\ r \notin P => ProbePlanned(k2, r)
       /\ AnnouncementPlanned(k2, r)
       /\ r \notin A => AnswerPlanned(k2, r)
  <2>1. /\ r \notin P => ProbePlanned(k1, r)
        /\ AnnouncementPlanned(k1, r)
        /\ r \notin A => AnswerPlanned(k1, r)
    BY <1>8 DEF Sound, Plan
  <2>2. Now(k2) = Now(k1)
    BY <1>14 DEF Kept, Now
  <2>. QED  BY <1>12, <1>14, <1>e, <2>1, <2>2
            DEF ProbePlanned, AnnouncementPlanned, AnswerPlanned, Planned, HeldBack
<1>17. Sound(k2, P, A) /\ Serves(k1, k2)
  BY <1>8, <1>12, <1>13, <1>15, <1>16, AlterSound
<1>18. Serves(k, k2)
  BY <1>7, <1>17, ServesOn
<1>19. CASE credits > 5
  BY <1>2, <1>17, <1>18, <1>19
<1>20. CASE ~(credits > 5)
  <2> DEFINE delay == UpdateDelay(credits)
  <2>1. delay \in Int /\ delay >= 0
    BY <1>c, <1>20, UpdateDelayFacts
  <2>2. k2.rec[r].RecordType # "None" /\ k2.rec[r].RecordType = c.RecordType
    BY <1>10, <1>12, <1>14
  <2>3. Blocks
    BY <1>20, <1>c DEF Blocks
  <2>4. /\ k2.SuppressProbes # NotSet
        /\ k2.rec[r].RecordType = "Unique" => k2.NextScheduledProbe <= k2.SuppressProbes
    BY <1>7, <1>14, <2>2, Parameters
  <2>5. Needs[r] = {} /\ Announcing(k2.rec[r])
          => k2.NextScheduledResponse <= k2.SuppressProbes + AnnounceDelay
    <3>1. Announcing(k2.rec[r]) => Announcing(c) /\ c.RecordType # "Unique"
      BY <1>10, <1>e DEF Announcing
    <3>. QED  BY <1>7, <1>14, <1>d, <3>1
  <2> HIDE DEF delay
  <2>6. Sound(Block(k2, r, delay), P, A) /\ Serves(k2, Block(k2, r, delay))
    BY <1>17, <2>1, <2>2, <2>3, <2>4, <2>5, BlockSound
  <2>7. Serves(k, Block(k2, r, delay))
    BY <1>18, <2>6, ServesOn
  <2>. QED  BY <1>2, <1>20, <2>6, <2>7 DEF delay
<1>. QED  BY <1>19, <1>20

--------------------------------------------------------------------------------
(* Questions *)

\* The questions become f, the new ones fresh, the time of the next query next
PutQuestions(k, f, fresh, next) ==
  [k EXCEPT !.qst = f, !.NewQuestions = fresh, !.NextScheduledQuery = next]

\* A question that has the state c is asked again when it is planned
Goes(k, next, c) ==
  c.asked => /\ c.LastQTime + c.ThisQInterval >= -Half
             /\ c.ThisQInterval >= 1
             /\ Planned(k, next, c.LastQTime + c.ThisQInterval)

LEMMA QuestionsSound ==
  ASSUME NEW P, NEW A, NEW k, Sound(k, P, A), NEW f \in [Question -> QuestionState],
         NEW fresh \in SUBSET Question, NEW next \in Int, next >= -Half,
         \A q \in Question : Goes(k, next, f[q]),
         NEW j, j = PutQuestions(k, f, fresh, next)
  PROVE  /\ Sound(j, P, A)
         /\ Kept(k, j)
         /\ j.rec = k.rec
         /\ j.qst = f
         /\ j.NewQuestions = fresh
         /\ j.NextScheduledProbe = k.NextScheduledProbe
         /\ j.NextScheduledQuery = next
         /\ j.NextScheduledResponse = k.NextScheduledResponse
         /\ j.SuppressProbes = k.SuppressProbes
         /\ next >= 1 \/ next = k.NextScheduledQuery => Serves(k, j)
<1>1. k \in Engine
  BY DEF Sound, Typed
<1>2. /\ Kept(k, j)
      /\ j.rec = k.rec
      /\ j.qst = f
      /\ j.NewQuestions = fresh
      /\ j.NextScheduledProbe = k.NextScheduledProbe
      /\ j.NextScheduledQuery = next
      /\ j.NextScheduledResponse = k.NextScheduledResponse
      /\ j.SuppressProbes = k.SuppressProbes
  BY <1>1 DEF PutQuestions, Engine, Kept
<1>3. j \in Engine /\ j.timenow_last = k.timenow_last /\ Now(j) = Now(k)
  BY <1>2 DEF Kept, Now
<1>4. ASSUME NEW q \in Question
      PROVE  QuestionFits(j, q) /\ QueryPlanned(j, q)
  <2>1. Goes(k, next, f[q])
    OBVIOUS
  <2>. QED  BY <1>2, <1>3, <2>1 DEF Goes, QuestionFits, QueryPlanned, QTime, Planned
<1>5. Sound(j, P, A)
  BY <1>2, <1>3, <1>4, SoundQuestion
<1>6. next >= 1 \/ next = k.NextScheduledQuery => Serves(k, j)
  BY <1>2 DEF Serves, Ahead
<1>. QED  BY <1>2, <1>5, <1>6

\* The questions that stay as they are go as they did, if the next query comes no later
LEMMA StillGoes ==
  ASSUME NEW P, NEW A, NEW k, Sound(k, P, A), NEW next \in Int,
         next <= k.NextScheduledQuery \/ next <= 0, NEW q \in Question
  PROVE  Goes(k, next, k.qst[q])
<1>1. /\ k \in Engine /\ Now(k) \in Int /\ Now(k) >= 0 /\ k.NextScheduledQuery \in Int
      /\ QTime(k, q) \in Int /\ QuestionFits(k, q)
      /\ QueryPlanned(k, q)
  BY EngineTypes DEF Sound, Typed, Fits, Plan, Now
<1>. QED  BY <1>1 DEF Goes, QuestionFits, QueryPlanned, Planned, QTime

\* Questions are the only work that is new, and none of it is overdue
Asks(k, j) ==
  /\ Kept(k, j)
  /\ j.rec = k.rec
  /\ j.NextScheduledProbe = k.NextScheduledProbe
  /\ j.NextScheduledResponse = k.NextScheduledResponse
  /\ j.NextScheduledQuery >= 0 \/ j.NextScheduledQuery = k.NextScheduledQuery
  /\ \A q \in Question : j.qst[q].asked => j.qst[q] = k.qst[q] \/ QTime(j, q) >= 0

LEMMA StartQuerySound ==
  ASSUME NEW P, NEW A, NEW k, Sound(k, P, A), NEW q \in Question,
         NEW delay \in 1..InitialQuestionInterval + 1
  PROVE  /\ Sound(StartQuery(k, q, delay), P, A) /\ Serves(k, StartQuery(k, q, delay))
         /\ Asks(k, StartQuery(k, q, delay))
<1> DEFINE last == -delay
           int == 2 * InitialQuestionInterval
           c == [asked |-> TRUE, LastQTime |-> last, ThisQInterval |-> int]
           f == [k.qst EXCEPT ![q] = c]
           fresh == k.NewQuestions \union {q}
           time == last + int
           next == Sooner(k.NextScheduledQuery, time)
           j == PutQuestions(k, f, fresh, next)
<1>1. /\ k \in Engine /\ k.qst \in [Question -> QuestionState] /\ k.NextScheduledQuery \in Int
      /\ k.NewQuestions \in SUBSET Question /\ k.NextScheduledQuery >= -Half
      /\ Now(k) \in Int
  BY EngineTypes DEF Sound, Typed, Fits
<1>2. /\ last \in Int /\ int \in Int /\ int >= 1 /\ time \in Int /\ time >= 1
  BY Intervals
<1>3. StartQuery(k, q, delay) = j
  <2> DEFINE k1 == [k EXCEPT !.qst[q] = c, !.NewQuestions = @ \union {q}]
  <2>1. k1.qst[q] = c /\ k1.NextScheduledQuery = k.NextScheduledQuery
    BY <1>1 DEF Engine
  <2>2. QTime(k1, q) = time
    BY <2>1 DEF QTime
  <2>3. StartQuery(k, q, delay) = [k1 EXCEPT !.NextScheduledQuery = Sooner(@, QTime(k1, q))]
    BY DEF StartQuery
  <2>4. StartQuery(k, q, delay) = [k1 EXCEPT !.NextScheduledQuery = next]
    <3> HIDE DEF k1, time
    <3>. QED  BY <2>1, <2>2, <2>3
  <2>5. [k1 EXCEPT !.NextScheduledQuery = next] = j
    <3> HIDE DEF next, c
    <3>. QED  BY <1>1 DEF PutQuestions, Engine
  <2>. QED  BY <2>4, <2>5
<1> HIDE DEF last, int
<1>4. c \in QuestionState
  BY <1>2 DEF QuestionState
<1>5. next \in Int /\ next <= k.NextScheduledQuery /\ next <= time /\ next >= -Half
      /\ (k.NextScheduledQuery >= 1 => next >= 1)
  <2>1. time \in Int /\ time >= 1 /\ time >= -Half
    BY <1>2, Parameters
  <2> HIDE DEF time
  <2>. QED  BY <1>1, <2>1, SoonerFacts
<1>n. next \in {k.NextScheduledQuery, time} /\ time \in Int
  <2> HIDE DEF time
  <2>. QED  BY <1>1, <1>2, SoonerFacts DEF time
<1>6. Goes(k, next, c)
  <2>1. time >= -Half /\ Planned(k, next, time)
    BY <1>2, <1>5, Parameters DEF Planned
  <2>. QED  BY <1>2, <2>1 DEF Goes
<1>c. c.LastQTime + c.ThisQInterval >= 0
  BY <1>2
<1> HIDE DEF next, c
<1>7. f \in [Question -> QuestionState] /\ fresh \in SUBSET Question
  BY <1>1, <1>4
<1>8. \A p \in Question : Goes(k, next, f[p])
  BY <1>1, <1>4, <1>5, <1>6, StillGoes
<1>f. \A p \in Question : f[p] = k.qst[p] \/ f[p] = c
  BY <1>1
<1> HIDE DEF f, fresh
<1>9. j = PutQuestions(k, f, fresh, next)
  OBVIOUS
<1> HIDE DEF j
<1>10. /\ Sound(j, P, A) /\ Kept(k, j)
       /\ j.NextScheduledProbe = k.NextScheduledProbe
       /\ j.NextScheduledQuery = next
       /\ j.NextScheduledResponse = k.NextScheduledResponse
       /\ j.SuppressProbes = k.SuppressProbes
       /\ j.rec = k.rec /\ j.qst = f
  BY <1>5, <1>7, <1>8, <1>9, QuestionsSound
<1>11. Serves(k, j)
  BY <1>5, <1>10 DEF Serves, Ahead
<1>12. Asks(k, j)
  <2>1. next >= 0 \/ next = k.NextScheduledQuery
    BY <1>1, <1>2, <1>n
  <2>2. \A p \in Question : j.qst[p] = k.qst[p] \/ QTime(j, p) >= 0
    BY <1>c, <1>f, <1>10 DEF QTime
  <2>. QED  BY <1>10, <2>1, <2>2 DEF Asks
<1>. QED  BY <1>3, <1>10, <1>11, <1>12

LEMMA StopQuerySound ==
  ASSUME NEW P, NEW A, NEW k, Sound(k, P, A), NEW q \in Question
  PROVE  /\ Sound(StopQuery(k, q), P, A) /\ Serves(k, StopQuery(k, q))
         /\ Asks(k, StopQuery(k, q))
<1> DEFINE f == [k.qst EXCEPT ![q] = NotAsked]
           fresh == k.NewQuestions \ {q}
           next == k.NextScheduledQuery
           j == PutQuestions(k, f, fresh, next)
<1>1. /\ k \in Engine /\ k.qst \in [Question -> QuestionState] /\ next \in Int
      /\ k.NewQuestions \in SUBSET Question /\ next >= -Half
  BY EngineTypes DEF Sound, Typed, Fits
<1>2. StopQuery(k, q) = j
  BY <1>1 DEF StopQuery, PutQuestions, Engine
<1>3. NotAsked \in QuestionState /\ Goes(k, next, NotAsked)
  BY DEF NotAsked, QuestionState, Goes
<1>4. f \in [Question -> QuestionState] /\ fresh \in SUBSET Question
  BY <1>1, <1>3
<1>5. \A p \in Question : Goes(k, next, f[p])
  <2>1. ASSUME NEW p \in Question PROVE Goes(k, next, k.qst[p])
    BY <1>1, StillGoes
  <2>. QED  BY <1>1, <1>3, <2>1
<1>6. next = k.NextScheduledQuery
  OBVIOUS
<1>f. \A p \in Question : f[p] = k.qst[p] \/ ~f[p].asked
  BY <1>1 DEF NotAsked
<1> HIDE DEF f, fresh, next
<1>7. j = PutQuestions(k, f, fresh, next)
  OBVIOUS
<1> HIDE DEF j
<1>8. /\ Sound(j, P, A) /\ Serves(k, j) /\ Kept(k, j) /\ j.rec = k.rec /\ j.qst = f
      /\ j.NextScheduledProbe = k.NextScheduledProbe
      /\ j.NextScheduledResponse = k.NextScheduledResponse
      /\ j.NextScheduledQuery = next
  BY <1>1, <1>4, <1>5, <1>6, <1>7, QuestionsSound
<1>9. Asks(k, j)
  BY <1>6, <1>8, <1>f DEF Asks
<1>. QED  BY <1>2, <1>8, <1>9

LEMMA AnswerSound ==
  ASSUME NEW P, NEW A, NEW k, Sound(k, P, A), NEW known
  PROVE  LET j == AnswerNewQuestions(k, known)
         IN /\ Sound(j, P, A)
            /\ Kept(k, j)
            /\ j.NewQuestions = {}
            /\ j.rec = k.rec
            /\ j.NextScheduledProbe = k.NextScheduledProbe
            /\ j.NextScheduledResponse = k.NextScheduledResponse
            /\ j.SuppressProbes = k.SuppressProbes
            /\ Asks(k, j)
<1> DEFINE asks == k.NewQuestions \ known
           last == -InitialQuestionInterval
           c == [asked |-> TRUE, LastQTime |-> last, ThisQInterval |-> InitialQuestionInterval]
           f == [q \in Question |-> IF q \in asks THEN c ELSE k.qst[q]]
           next == IF asks = {} THEN k.NextScheduledQuery ELSE 0
           j == PutQuestions(k, f, {}, next)
<1>1. /\ k \in Engine /\ k.qst \in [Question -> QuestionState] /\ k.NextScheduledQuery \in Int
      /\ k.NewQuestions \in SUBSET Question /\ k.NextScheduledQuery >= -Half
      /\ Now(k) \in Int /\ Now(k) >= 0
  BY EngineTypes DEF Sound, Typed, Fits, Now
<1>2. AnswerNewQuestions(k, known) = j
  BY <1>1 DEF AnswerNewQuestions, PutQuestions, Engine
<1>3. last \in Int /\ last + InitialQuestionInterval = 0
  BY Intervals
<1> HIDE DEF last
<1>4. c \in QuestionState
  BY <1>3, Intervals DEF QuestionState
<1>5. next \in Int /\ next >= -Half /\ (next <= k.NextScheduledQuery \/ next <= 0)
      /\ (asks # {} => next = 0)
  BY <1>1, Parameters
<1>6. asks # {} => Goes(k, next, c)
  BY <1>1, <1>3, <1>5, Intervals, Parameters DEF Goes, Planned
<1>c. c.LastQTime + c.ThisQInterval = 0
  BY <1>3
<1>n. next >= 0 \/ next = k.NextScheduledQuery
  OBVIOUS
<1> HIDE DEF next, c
<1>7. f \in [Question -> QuestionState]
  BY <1>1, <1>4
<1>8. \A q \in Question : Goes(k, next, f[q])
  <2>1. ASSUME NEW q \in Question PROVE Goes(k, next, k.qst[q])
    BY <1>5, StillGoes
  <2>. QED  BY <1>6, <2>1
<1>f. \A q \in Question : f[q] = k.qst[q] \/ f[q] = c
  OBVIOUS
<1> HIDE DEF f
<1>9. j = PutQuestions(k, f, {}, next)
  OBVIOUS
<1> HIDE DEF j
<1>10. /\ Sound(j, P, A) /\ Kept(k, j) /\ j.NewQuestions = {} /\ j.rec = k.rec
       /\ j.NextScheduledProbe = k.NextScheduledProbe
       /\ j.NextScheduledResponse = k.NextScheduledResponse
       /\ j.SuppressProbes = k.SuppressProbes
       /\ j.qst = f /\ j.NextScheduledQuery = next
  BY <1>5, <1>7, <1>8, <1>9, QuestionsSound
<1>11. Asks(k, j)
  <2>1. \A q \in Question : j.qst[q] = k.qst[q] \/ QTime(j, q) >= 0
    BY <1>c, <1>f, <1>10 DEF QTime
  <2>. QED  BY <1>n, <1>10, <2>1 DEF Asks
<1>. QED  BY <1>2, <1>10, <1>11

LEMMA PrepareSound ==
  ASSUME NEW k, Sound(k, {}, {}), NEW known
  PROVE  LET j == Prepare(k, known)
         IN /\ Sound(j, {}, {})
            /\ j.timenow_last = k.timenow_last
            /\ j.timenow_adjust = k.timenow_adjust
            /\ j.mDNS_busy = k.mDNS_busy
            /\ j.SuppressSending = k.SuppressSending
            /\ j.NewQuestions = {}
            /\ j.SuppressProbes = NotSet \/ j.SuppressProbes >= 1
            /\ j.NextScheduledProbe = k.NextScheduledProbe
            /\ \E i : /\ i \in Engine /\ i.rec = k.rec /\ i.qst = k.qst
                     /\ i.NextScheduledEvent = k.NextScheduledEvent
                     /\ i.NextCacheCheck \in {k.NextCacheCheck, CacheHorizon}
                     /\ i.NextScheduledProbe = k.NextScheduledProbe
                     /\ i.NextScheduledQuery = k.NextScheduledQuery
                     /\ i.NextScheduledResponse = k.NextScheduledResponse
                     /\ Asks(i, j)
            /\ HasCache => j.NextCacheCheck >= 1
<1> DEFINE sp == IF k.SuppressProbes = NotSet THEN NotSet
                 ELSE IF Due(k.SuppressProbes) THEN NotSet ELSE k.SuppressProbes
           check == IF HasCache /\ Due(k.NextCacheCheck) THEN CacheHorizon ELSE k.NextCacheCheck
           i == [k EXCEPT !.SuppressProbes = sp, !.NextCacheCheck = check]
<1>1. /\ k \in Engine /\ Now(k) \in Int
      /\ k.SuppressProbes \in Int \union {NotSet} /\ k.NextCacheCheck \in Int
  BY EngineTypes DEF Sound, Typed
<1>2. Prepare(k, known) = AnswerNewQuestions(i, known)
  BY DEF Prepare
<1>3. /\ sp \in Int \union {NotSet} /\ (sp = NotSet \/ sp >= 1)
      /\ sp = NotSet \/ sp = k.SuppressProbes
      /\ k.SuppressProbes # NotSet => k.SuppressProbes <= 0 \/ sp = k.SuppressProbes
      /\ check \in Int /\ (HasCache => check >= 1) /\ check \in {k.NextCacheCheck, CacheHorizon}
  BY <1>1, Parameters DEF Due
<1> HIDE DEF sp, check
<1>4. /\ i \in Engine /\ i.SuppressProbes = sp /\ i.NextCacheCheck = check
      /\ i.timenow_last = k.timenow_last /\ i.timenow_adjust = k.timenow_adjust
      /\ i.mDNS_busy = k.mDNS_busy /\ i.SuppressSending = k.SuppressSending
      /\ i.NextScheduledEvent = k.NextScheduledEvent
      /\ i.NextScheduledProbe = k.NextScheduledProbe
      /\ i.NextScheduledQuery = k.NextScheduledQuery
      /\ i.NextScheduledResponse = k.NextScheduledResponse
      /\ i.rec = k.rec /\ i.qst = k.qst
  BY <1>1, <1>3 DEF Engine
<1> HIDE DEF i
<1>5. Now(i) = Now(k) /\ Now(i) >= Now(k) /\ Now(k) >= 0
  BY <1>1, <1>4, EngineTypes DEF Now
<1>h. Holding(k, i)
  <2>1. k.SuppressProbes = NotSet \/ k.SuppressProbes <= Now(k) + ProbeFailureDelay
    BY DEF Sound, Typed, Fits
  <2>. QED  BY <1>1, <1>3, <1>4, <1>5, <2>1, Parameters DEF Holding
<1>6. Sound(i, {}, {})
  BY <1>4, <1>5, <1>h, SoundSame
<1>7. LET j == AnswerNewQuestions(i, known)
      IN /\ Sound(j, {}, {}) /\ Kept(i, j) /\ j.NewQuestions = {}
         /\ j.SuppressProbes = i.SuppressProbes
         /\ j.NextScheduledProbe = i.NextScheduledProbe
         /\ Asks(i, j)
  BY <1>6, AnswerSound
<1>. QED  BY <1>2, <1>3, <1>4, <1>7 DEF Kept

--------------------------------------------------------------------------------
(* What mDNS_Execute sends *)

\* Whether something was sent has no part in the plan
LEMMA SendingSound ==
  ASSUME NEW P, NEW A, NEW k, Sound(k, P, A), NEW b \in BOOLEAN
  PROVE  LET j == [k EXCEPT !.sending = b]
         IN /\ Sound(j, P, A)
            /\ Kept(k, j)
            /\ j.rec = k.rec /\ j.qst = k.qst
            /\ j.NewQuestions = k.NewQuestions
            /\ j.NextScheduledProbe = k.NextScheduledProbe
            /\ j.NextScheduledQuery = k.NextScheduledQuery
            /\ j.NextScheduledResponse = k.NextScheduledResponse
            /\ j.SuppressProbes = k.SuppressProbes
<1> DEFINE j == [k EXCEPT !.sending = b]
<1>1. k \in Engine /\ Now(k) \in Int
  BY EngineTypes DEF Sound, Typed
<1>2. /\ Kept(k, j)
      /\ j.rec = k.rec /\ j.qst = k.qst
      /\ j.NewQuestions = k.NewQuestions
      /\ j.NextScheduledProbe = k.NextScheduledProbe
      /\ j.NextScheduledQuery = k.NextScheduledQuery
      /\ j.NextScheduledResponse = k.NextScheduledResponse
      /\ j.SuppressProbes = k.SuppressProbes
  BY <1>1 DEF Kept, Engine
<1> HIDE DEF j
<1>3. j \in Engine /\ Now(j) >= Now(k) /\ Holding(k, j)
  BY <1>1, <1>2, HoldingSame DEF Kept, Now, Sound
<1>4. Sound(j, P, A)
  BY <1>2, <1>3, SoundSame
<1>. QED  BY <1>2, <1>4 DEF j

LEMMA SendQuestionsSound ==
  ASSUME NEW k, Sound(k, {}, {})
  PROVE  LET j == SendQuestions(k)
         IN /\ Sound(j, {}, {})
            /\ Kept(k, j)
            /\ j.rec = k.rec
            /\ j.NextScheduledQuery >= 1
            /\ j.NextScheduledProbe = k.NextScheduledProbe
            /\ j.NextScheduledResponse = k.NextScheduledResponse
            /\ j.SuppressProbes = k.SuppressProbes
            /\ Asks(k, j)
<1> DEFINE sent == {q \in Question : SendsQuestion(k, q)}
           zero == 0
           c(q) == [asked |-> TRUE, LastQTime |-> zero, ThisQInterval |-> Twice(k.qst[q].ThisQInterval)]
           f == [q \in Question |-> IF q \in sent THEN c(q) ELSE k.qst[q]]
           k1 == [k EXCEPT !.qst = f, !.sending = sent # {}]
           times == {QTime(k1, q) : q \in Asked(k1)}
           next == Soonest(times)
           i == [k EXCEPT !.sending = sent # {}]
           j == PutQuestions(i, f, k.NewQuestions, next)
<1>1. /\ k \in Engine /\ k.qst \in [Question -> QuestionState] /\ k.NewQuestions \in SUBSET Question
      /\ \A q \in Question : QTime(k, q) \in Int /\ QuestionFits(k, q) /\ k.qst[q] \in QuestionState
      /\ Now(k) \in Int
  BY EngineTypes DEF Sound, Typed, Fits
<1>2. SendQuestions(k) = j
  BY <1>1 DEF SendQuestions, PutQuestions, Engine
<1>z. zero \in Int /\ zero = 0
  OBVIOUS
<1> HIDE DEF zero
<1>3. ASSUME NEW q \in Question, q \in sent
      PROVE  /\ c(q) \in QuestionState /\ c(q).asked
             /\ c(q).LastQTime + c(q).ThisQInterval \in Int
             /\ c(q).LastQTime + c(q).ThisQInterval >= 1
             /\ c(q).ThisQInterval >= 1
  <2> DEFINE int == Twice(k.qst[q].ThisQInterval)
  <2>1. k.qst[q].ThisQInterval \in Int /\ k.qst[q].ThisQInterval >= 1
    BY <1>1, <1>3 DEF SendsQuestion, Asked, QuestionFits, QuestionState
  <2>2. int \in Int /\ int >= 1
    BY <2>1, Parameters DEF Twice
  <2> HIDE DEF int
  <2>3. c(q) = [asked |-> TRUE, LastQTime |-> zero, ThisQInterval |-> int]
    BY DEF int
  <2> HIDE DEF c
  <2>. QED  BY <1>z, <2>2, <2>3 DEF QuestionState
<1>4. ASSUME NEW q \in Question, q \notin sent, k.qst[q].asked
      PROVE  /\ k.qst[q].LastQTime + k.qst[q].ThisQInterval \in Int
             /\ k.qst[q].LastQTime + k.qst[q].ThisQInterval >= 1
             /\ k.qst[q].ThisQInterval >= 1
  <2>1. ~Due(QTime(k, q)) /\ QTime(k, q) \in Int
    BY <1>1, <1>4 DEF SendsQuestion, Asked
  <2>. QED  BY <1>1, <1>4, <2>1 DEF Due, QTime, QuestionFits
<1> HIDE DEF sent, c
<1>5. f \in [Question -> QuestionState]
  BY <1>1, <1>3
<1>6. ASSUME NEW q \in Question, f[q].asked
      PROVE  /\ f[q].LastQTime + f[q].ThisQInterval \in Int
             /\ f[q].LastQTime + f[q].ThisQInterval >= 1
             /\ f[q].ThisQInterval >= 1
  <2>1. CASE q \in sent
    BY <1>3, <2>1
  <2>2. CASE q \notin sent
    BY <1>4, <1>6, <2>2
  <2>. QED  BY <2>1, <2>2
<1> HIDE DEF f
<1>7. k1.qst = f
  BY <1>1 DEF Engine
<1> HIDE DEF k1
<1>8. /\ \A t \in times : t \in Int /\ 1 <= t
      /\ \A q \in Question : f[q].asked => f[q].LastQTime + f[q].ThisQInterval \in times
  BY <1>6, <1>7 DEF Asked, QTime
<1> HIDE DEF times
<1>9. next \in Int /\ next >= 1 /\ \A t \in times : next <= t
  BY <1>8, SoonestFacts, Parameters
<1> HIDE DEF next
<1>10. /\ Sound(i, {}, {}) /\ Kept(k, i) /\ i.rec = k.rec
       /\ i.NextScheduledProbe = k.NextScheduledProbe
       /\ i.NextScheduledResponse = k.NextScheduledResponse
       /\ i.SuppressProbes = k.SuppressProbes
  <2> DEFINE b == sent # {}
  <2>1. b \in BOOLEAN
    OBVIOUS
  <2>2. i = [k EXCEPT !.sending = b]
    OBVIOUS
  <2> HIDE DEF b, i
  <2>. QED  BY <2>1, <2>2, SendingSound
<1> HIDE DEF i
<1>11. \A q \in Question : Goes(i, next, f[q])
  <2>1. ASSUME NEW q \in Question, f[q].asked
        PROVE  /\ f[q].LastQTime + f[q].ThisQInterval >= -Half
               /\ f[q].ThisQInterval >= 1
               /\ next <= f[q].LastQTime + f[q].ThisQInterval
    <3>1. f[q].LastQTime + f[q].ThisQInterval \in Int
          /\ f[q].LastQTime + f[q].ThisQInterval >= 1 /\ f[q].ThisQInterval >= 1
      BY <1>6, <2>1
    <3>2. next <= f[q].LastQTime + f[q].ThisQInterval
      BY <1>8, <1>9, <2>1
    <3>. QED  BY <3>1, <3>2, Parameters
  <2>. QED  BY <2>1 DEF Goes, Planned
<1>12. next >= -Half
  BY <1>9, Parameters
<1>13. j = PutQuestions(i, f, k.NewQuestions, next)
  OBVIOUS
<1> HIDE DEF j
<1>14. /\ Sound(j, {}, {}) /\ Kept(i, j) /\ j.rec = i.rec
       /\ j.NextScheduledProbe = i.NextScheduledProbe
       /\ j.NextScheduledQuery = next
       /\ j.NextScheduledResponse = i.NextScheduledResponse
       /\ j.SuppressProbes = i.SuppressProbes
       /\ j.qst = f
  BY <1>1, <1>5, <1>9, <1>10, <1>11, <1>12, <1>13, QuestionsSound
<1>15. Asks(k, j)
  <2>1. \A q \in Question : j.qst[q].asked => QTime(j, q) >= 0
    BY <1>6, <1>14 DEF QTime
  <2>. QED  BY <1>9, <1>10, <1>14, <2>1 DEF Asks, Kept
<1>. QED  BY <1>2, <1>9, <1>10, <1>14, <1>15 DEF Kept

LEMMA SuppressSound ==
  ASSUME NEW P, NEW A, NEW k, Sound(k, P, A)
  PROVE  LET j == Suppress(k)
         IN /\ Sound(j, P, A)
            /\ j.timenow_last = k.timenow_last
            /\ j.timenow_adjust = k.timenow_adjust
            /\ j.mDNS_busy = k.mDNS_busy
            /\ j.SuppressSending \in {k.SuppressSending, TenthSecond}
            /\ j.NextCacheCheck = k.NextCacheCheck
            /\ j.NextScheduledEvent = k.NextScheduledEvent
            /\ j.rec = k.rec /\ j.qst = k.qst
            /\ j.NextScheduledProbe = k.NextScheduledProbe
            /\ j.NextScheduledQuery = k.NextScheduledQuery
            /\ j.NextScheduledResponse = k.NextScheduledResponse
            /\ j.SuppressProbes = k.SuppressProbes
            /\ k.sending => j.SuppressSending # NotSet
<1> DEFINE ss == IF k.sending /\ k.SuppressSending = NotSet THEN TenthSecond ELSE k.SuppressSending
           j == [k EXCEPT !.sending = FALSE, !.SuppressSending = ss]
<1>1. k \in Engine /\ Now(k) \in Int /\ k.SuppressSending \in Int \union {NotSet}
  BY EngineTypes DEF Sound, Typed
<1>2. Suppress(k) = j
  BY <1>1 DEF Suppress, Engine
<1>3. /\ ss \in Int \union {NotSet} /\ ss \in {k.SuppressSending, TenthSecond}
      /\ k.sending => ss # NotSet
  BY <1>1, Parameters
<1> HIDE DEF ss
<1>4. /\ j \in Engine
      /\ j.timenow_last = k.timenow_last /\ j.timenow_adjust = k.timenow_adjust
      /\ j.mDNS_busy = k.mDNS_busy /\ j.SuppressSending = ss
      /\ j.NextCacheCheck = k.NextCacheCheck
      /\ j.NextScheduledEvent = k.NextScheduledEvent
      /\ j.rec = k.rec /\ j.qst = k.qst
      /\ j.NextScheduledProbe = k.NextScheduledProbe
      /\ j.NextScheduledQuery = k.NextScheduledQuery
      /\ j.NextScheduledResponse = k.NextScheduledResponse
      /\ j.SuppressProbes = k.SuppressProbes
  BY <1>1, <1>3 DEF Engine
<1> HIDE DEF j
<1>5. Now(j) >= Now(k) /\ Holding(k, j)
  BY <1>1, <1>4, HoldingSame DEF Now, Sound
<1>6. Sound(j, P, A)
  BY <1>4, <1>5, SoundSame
<1>. QED  BY <1>2, <1>3, <1>4, <1>6

LEMMA PutOffQueriesSame ==
  ASSUME NEW k \in Engine, Ahead(k), k.NextScheduledProbe >= 1
  PROVE  PutOffQueries(k) = k
<1>1. k.NextScheduledQuery \in Int /\ k.NextScheduledProbe \in Int
  BY EngineTypes
<1>2. ~Due(k.NextScheduledQuery) /\ ~Due(k.NextScheduledProbe)
  BY <1>1 DEF Due, Ahead
<1>. QED  BY <1>2 DEF PutOffQueries, Engine

LEMMA PutOffResponsesSame ==
  ASSUME NEW k \in Engine, k.NextScheduledResponse >= 1
  PROVE  PutOffResponses(k) = k
<1>1. ~Due(k.NextScheduledResponse)
  BY EngineTypes DEF Due
<1>. QED  BY <1>1 DEF PutOffResponses, Engine

LEMMA AnnouncedFacts ==
  ASSUME NEW k, Typed(k), NEW r \in Record, Announces(k, r), NEW ends \in BOOLEAN
  PROVE  LET c == Announced(k, r, ends)
         IN /\ c \in RecordState
            /\ c.RecordType = k.rec[r].RecordType
            /\ c.RecordType \in {"Shared", "Verified"}
            /\ c.ThisAPInterval >= 1
            /\ c.LastAPTime + c.ThisAPInterval >= 1
            /\ BlockFits(c.UpdateBlocked)
            /\ c.ImmedAnswer
<1> DEFINE zero == 0
           count == IF ends THEN 0 ELSE k.rec[r].AnnounceCount - 1
           int == 2 * k.rec[r].ThisAPInterval
           until == IF TimeToAnnounce(k, r, 0) THEN NotSet ELSE k.rec[r].UpdateBlocked
           c == [k.rec[r] EXCEPT !.ImmedAnswer = TRUE, !.AnnounceCount = count,
                                 !.ThisAPInterval = int, !.LastAPTime = zero,
                                 !.UpdateBlocked = until]
<1>1. k \in Engine /\ k.rec[r] \in RecordState /\ RecordFits(k, r)
  BY EngineTypes DEF Typed, Fits
<1>2. k.rec[r].RecordType \in {"Shared", "Verified"}
  BY DEF Announces, TimeToAnnounce, ResourceRecordIsValidAnswer
<1>3. Announced(k, r, ends) = c
  BY <1>1 DEF Announced
<1>4. /\ k.rec[r].AnnounceCount \in Int /\ k.rec[r].ThisAPInterval \in Int
      /\ k.rec[r].ThisAPInterval >= 1 /\ k.rec[r].UpdateBlocked \in Int \union {NotSet}
      /\ BlockFits(k.rec[r].UpdateBlocked) /\ BlockFits(NotSet)
  BY <1>1, <1>2 DEF RecordState, RecordFits, BlockFits
<1>5. /\ zero \in Int /\ count \in Int /\ int \in Int /\ int >= 1 /\ zero + int >= 1
      /\ until \in Int \union {NotSet} /\ BlockFits(until)
  BY <1>4
<1> HIDE DEF zero, count, int, until
<1>6. /\ c \in RecordState /\ c.RecordType = k.rec[r].RecordType /\ c.ThisAPInterval = int
      /\ c.LastAPTime = zero /\ c.UpdateBlocked = until /\ c.ImmedAnswer
  BY <1>1, <1>5 DEF RecordState
<1> HIDE DEF c
<1>. QED  BY <1>2, <1>3, <1>5, <1>6

\* A probe whose update is blocked
BlockedProbe(k) ==
  \E r \in Record : k.rec[r].RecordType = "Unique" /\ k.rec[r].UpdateBlocked # NotSet

\* Packets are held back, or no probe is due
Calm(k) == k.SuppressSending # NotSet \/ k.NextScheduledProbe >= 1

\* While it answers, a probe that is due is one whose update is blocked, and there is no
\* goodbye whose callback may take it away
Quiet(k, f) ==
  \/ Calm(k)
  \/ /\ f = <<>>
     /\ \A r \in Record : k.rec[r].RecordType # "Deregistering"
     /\ BlockedProbe(k)

LEMMA SendResponsesSound ==
  ASSUME NEW k, Sound(k, {}, {}), Ahead(k), k.NextScheduledProbe >= 1,
         k.timenow_last = 0, NEW ends
  PROVE  LET j == SendResponses(k, ends)
         IN /\ Sound(j, {}, Registered(k))
            /\ j.timenow_last = k.timenow_last
            /\ j.timenow_adjust = k.timenow_adjust
            /\ j.mDNS_busy = k.mDNS_busy
            /\ j.SuppressSending \in {k.SuppressSending, TenthSecond}
            /\ j.NextCacheCheck = k.NextCacheCheck
            /\ Ahead(j) /\ j.NextScheduledResponse >= 1 /\ Quiet(j, <<>>)
            /\ j.NextScheduledProbe >= 1 \/ BlockedProbe(j)
            /\ j.NextScheduledEvent = k.NextScheduledEvent
            /\ j.qst = k.qst
            /\ \A r \in Record : j.rec[r] = k.rec[r]
                                 \/ /\ j.rec[r].RecordType \in {"Shared", "Verified"}
                                    /\ APTime(j, r) >= 1
<1> DEFINE g == [r \in Record |-> IF Announces(k, r) THEN Announced(k, r, r \in ends) ELSE k.rec[r]]
           k1 == [k EXCEPT !.rec = g]
           announcing == {r \in Record : k1.rec[r].AnnounceCount > 0
                                         /\ ResourceRecordIsValidAnswer(k1, r)}
           probing    == {r \in Record : k1.rec[r].RecordType = "Unique"}
           responses == {APTime(k1, r) : r \in announcing}
           probes == {k.NextScheduledProbe} \union {APTime(k1, r) : r \in probing}
           response == Soonest(responses)
           probe == Soonest(probes)
           b == \E r \in Record : k1.rec[r].ImmedAnswer
           k2 == [k1 EXCEPT !.sending = b]
           k3 == [k2 EXCEPT !.NextScheduledResponse = response, !.NextScheduledProbe = probe]
<1>1. /\ k \in Engine /\ k.rec \in [Record -> RecordState]
      /\ \A r \in Record : k.rec[r] \in RecordState /\ RecordFits(k, r) /\ APTime(k, r) \in Int
      /\ k.NextScheduledProbe \in Int /\ k.NextScheduledResponse \in Int
      /\ k.NextScheduledProbe >= -Half /\ Typed(k)
      /\ Now(k) = 0
  BY EngineTypes DEF Sound, Typed, Fits, Now
<1>2. SendResponses(k, ends) = Suppress(k3)
  <2>1. k2.NextScheduledProbe = k.NextScheduledProbe
    BY <1>1 DEF Engine
  <2>2. k1 = [k EXCEPT !.rec = [r \in Record |-> IF Announces(k, r) THEN Announced(k, r, r \in ends)
                                                 ELSE k.rec[r]]]
    OBVIOUS
  <2>. QED  BY <2>1, <2>2 DEF SendResponses
<1>3. ASSUME NEW r \in Record
      PROVE  /\ g[r] \in RecordState
             /\ g[r].RecordType = k.rec[r].RecordType
             /\ g[r].ThisAPInterval >= 0
             /\ g[r].RecordType # "None" => g[r].ThisAPInterval >= 1
             /\ g[r].RecordType = "None" => ~g[r].ImmedAnswer
             /\ g[r].RecordType = "None" => g[r].AnnounceCount = 0
             /\ g[r].RecordType = "Deregistering" => g[r].ImmedAnswer
             /\ BlockFits(g[r].UpdateBlocked)
             /\ g[r].LastAPTime + g[r].ThisAPInterval \in Int
             /\ g[r].LastAPTime + g[r].ThisAPInterval >= -Half
             /\ g[r].RecordType = "Unique" => g[r] = k.rec[r]
             /\ g[r] = k.rec[r] \/ g[r].LastAPTime + g[r].ThisAPInterval >= 1
             /\ g[r] = k.rec[r] => RecordFits(k, r)
             /\ ~Announces(k, r) => g[r] = k.rec[r]
             /\ g[r] = k.rec[r] \/ g[r].RecordType \in {"Shared", "Verified"}
  <2>1. CASE Announces(k, r)
    <3> DEFINE e == r \in ends
               c == Announced(k, r, e)
    <3>0. e \in BOOLEAN
      OBVIOUS
    <3>2. g[r] = c
      BY <2>1
    <3> HIDE DEF e, g
    <3>1. /\ c \in RecordState
          /\ c.RecordType = k.rec[r].RecordType
          /\ c.RecordType \in {"Shared", "Verified"}
          /\ c.ThisAPInterval >= 1
          /\ c.LastAPTime + c.ThisAPInterval >= 1
          /\ BlockFits(c.UpdateBlocked)
      BY <1>1, <2>1, <3>0, AnnouncedFacts
    <3> HIDE DEF c
    <3>3. c.ThisAPInterval \in Int /\ c.LastAPTime \in Int
      BY <3>1 DEF RecordState
    <3>. QED  BY <1>1, <2>1, <3>1, <3>2, <3>3, Parameters
  <2>2. CASE ~Announces(k, r)
    <3>1. g[r] = k.rec[r]
      BY <2>2
    <3> HIDE DEF g
    <3>. QED  BY <1>1, <3>1 DEF RecordFits, APTime
  <2>. QED  BY <2>1, <2>2
<1>4. g \in [Record -> RecordState]
  BY <1>3
<1> HIDE DEF g
<1>5. /\ k1 \in Engine /\ k1.rec = g
      /\ k1.timenow_last = k.timenow_last /\ k1.timenow_adjust = k.timenow_adjust
      /\ k1.mDNS_busy = k.mDNS_busy /\ k1.SuppressSending = k.SuppressSending
      /\ k1.NextScheduledEvent = k.NextScheduledEvent
      /\ k1.NextCacheCheck = k.NextCacheCheck
      /\ k1.NextScheduledQuery = k.NextScheduledQuery
      /\ k1.SuppressProbes = k.SuppressProbes
      /\ k1.qst = k.qst
  BY <1>1, <1>4 DEF Engine
<1> HIDE DEF k1
<1>6. \A r \in Record : /\ APTime(k1, r) = g[r].LastAPTime + g[r].ThisAPInterval
                         /\ APTime(k1, r) \in Int /\ APTime(k1, r) >= -Half
  BY <1>3, <1>5 DEF APTime
<1>7. /\ responses \subseteq Int /\ \A t \in responses : -Half <= t
      /\ probes \subseteq Int /\ \A t \in probes : -Half <= t
  BY <1>1, <1>6, Parameters
<1>8. \A r \in Record : ResourceRecordIsValidAnswer(k1, r) <=> ResourceRecordIsValidAnswer(k, r)
  <2>1. Needs \in [Record -> SUBSET Record]
    BY Parameters
  <2>. QED  BY <1>3, <1>5, <2>1 DEF ResourceRecordIsValidAnswer
<1>9. \A t \in responses : t >= 1
  <2>1. ASSUME NEW r \in Record, k1.rec[r].AnnounceCount > 0, ResourceRecordIsValidAnswer(k1, r)
        PROVE  APTime(k1, r) >= 1
    <3>1. CASE g[r] # k.rec[r]
      BY <1>3, <1>6, <3>1
    <3>2. CASE g[r] = k.rec[r]
      <4>1. APTime(k1, r) = APTime(k, r) /\ k.rec[r].AnnounceCount > 0
        BY <1>5, <1>6, <2>1, <3>2 DEF APTime
      <4>2. CASE TimeToAnnounce(k, r, 0)
        <5>1. Announces(k, r)
          BY <4>2 DEF Announces
        <5>2. g[r].LastAPTime = 0
          BY <1>1, <5>1, <3>2 DEF g, Announced, RecordState
        <5>3. g[r].ThisAPInterval \in Int /\ (g[r].RecordType # "None" => g[r].ThisAPInterval >= 1)
          BY <1>3 DEF RecordState
        <5>4. g[r].RecordType # "None"
          BY <1>8, <2>1, <3>2 DEF ResourceRecordIsValidAnswer
        <5>. QED  BY <1>6, <5>2, <5>3, <5>4
      <4>3. CASE ~TimeToAnnounce(k, r, 0)
        <5>1. ~(APTime(k, r) <= 0)
          BY <1>8, <2>1, <4>1, <4>3 DEF TimeToAnnounce
        <5>. QED  BY <1>1, <4>1, <5>1
      <4>. QED  BY <4>2, <4>3
    <3>. QED  BY <3>1, <3>2
  <2>. QED  BY <2>1
\* A probe whose time is past is one whose update is blocked
<1>10. ASSUME NEW t \in probes, ~(t >= 1)
       PROVE  /\ k.SuppressProbes # NotSet
              /\ \E r \in Record : g[r].RecordType = "Unique" /\ g[r].UpdateBlocked # NotSet
  <2>1. PICK r \in probing : t = APTime(k1, r)
    BY <1>10
  <2>2. /\ r \in Record /\ g[r] = k.rec[r] /\ k.rec[r].RecordType = "Unique"
        /\ APTime(k1, r) = APTime(k, r)
    BY <1>3, <1>5, <1>6, <2>1 DEF APTime
  <2>3. ProbePlanned(k, r)
    BY <2>2 DEF Sound, Plan
  <2>4. HeldBack(k, r, k.NextScheduledProbe, 0)
    BY <1>1, <1>10, <2>1, <2>2, <2>3 DEF ProbePlanned, Planned
  <2>. QED  BY <1>1, <2>2, <2>4 DEF HeldBack
<1>11. /\ \A r \in announcing : APTime(k1, r) \in responses
       /\ \A r \in probing : APTime(k1, r) \in probes
  OBVIOUS
<1>12. /\ \A r \in Record : g[r].AnnounceCount > 0 /\ ResourceRecordIsValidAnswer(k1, r) => r \in announcing
       /\ \A r \in Record : g[r].RecordType = "Unique" => r \in probing
  BY <1>5
<1> HIDE DEF responses, probes, announcing, probing
<1>13. /\ response \in Int /\ \A t \in responses : response <= t
       /\ response >= 1
       /\ probe \in Int /\ \A t \in probes : probe <= t
       /\ probe >= -Half
       /\ (\A t \in probes : t >= 1) => probe >= 1
  <2>1. -Half \in Int /\ -Half <= Horizon /\ 1 <= Horizon
    BY Parameters
  <2>2. /\ response \in Int /\ response \in responses \union {Horizon}
        /\ \A t \in responses : response <= t
    BY <1>7, <2>1, SoonestFacts
  <2>3. /\ probe \in Int /\ probe \in probes \union {Horizon}
        /\ \A t \in probes : probe <= t
    BY <1>7, <2>1, SoonestFacts
  <2> HIDE DEF response, probe
  <2>. QED  BY <1>7, <1>9, <2>1, <2>2, <2>3
<1> HIDE DEF response, probe
<1>14. b \in BOOLEAN /\ (~b => \A r \in Record : ~g[r].ImmedAnswer)
  BY <1>5
<1> HIDE DEF b
<1>15. /\ k3 \in Engine /\ k3.rec = g
       /\ k3.timenow_last = k.timenow_last /\ k3.timenow_adjust = k.timenow_adjust
       /\ k3.mDNS_busy = k.mDNS_busy /\ k3.SuppressSending = k.SuppressSending
       /\ k3.NextScheduledEvent = k.NextScheduledEvent
       /\ k3.NextCacheCheck = k.NextCacheCheck
       /\ k3.NextScheduledQuery = k.NextScheduledQuery
       /\ k3.NextScheduledResponse = response
       /\ k3.NextScheduledProbe = probe
       /\ k3.SuppressProbes = k.SuppressProbes
       /\ k3.qst = k.qst
       /\ k3.sending = b
  BY <1>5, <1>13, <1>14 DEF Engine
<1> HIDE DEF k3
<1>16. \A r \in Record : APTime(k3, r) = APTime(k1, r)
  BY <1>5, <1>15 DEF APTime
<1>17. Typed(k3)
  <2>1. \A r \in Record : RecordFits(k3, r)
    BY <1>3, <1>6, <1>15, <1>16 DEF RecordFits
  <2>2. \A q \in Question : QuestionFits(k3, q)
    BY <1>15 DEF Sound, Typed, Fits, QuestionFits, QTime
  <2>3. k3.NextScheduledQuery >= -Half
    BY <1>15 DEF Sound, Typed, Fits
  <2>4. k3.SuppressProbes = NotSet \/ k3.SuppressProbes <= Now(k3) + ProbeFailureDelay
    BY <1>15 DEF Sound, Typed, Fits, Now
  <2>. QED  BY <1>13, <1>15, <2>1, <2>2, <2>3, <2>4 DEF Typed, Fits
<1>18. Plan(k3, {}, Registered(k))
  <2>1. ASSUME NEW r \in Record PROVE ProbePlanned(k3, r)
    BY <1>11, <1>12, <1>13, <1>15, <1>16 DEF ProbePlanned, Planned
  <2>2. ASSUME NEW r \in Record PROVE AnnouncementPlanned(k3, r)
    <3>1. Needs[r] = {} => (ResourceRecordIsValidAnswer(k1, r)
                              <=> g[r].RecordType \in {"Shared", "Verified"})
      BY <1>5, Valid
    <3>. QED  BY <1>11, <1>12, <1>13, <1>15, <1>16, <3>1
              DEF AnnouncementPlanned, Announcing, Planned
  <2>3. ASSUME NEW r \in Record, r \notin Registered(k) PROVE AnswerPlanned(k3, r)
    BY <1>3, <1>15, <2>3 DEF AnswerPlanned, Registered
  <2>4. ASSUME NEW q \in Question PROVE QueryPlanned(k3, q)
    <3>1. QueryPlanned(k, q) /\ Now(k3) = Now(k)
      BY <1>15 DEF Sound, Plan, Now
    <3>. QED  BY <1>15, <3>1 DEF QueryPlanned, Planned, QTime
  <2>. QED  BY <2>1, <2>2, <2>3, <2>4 DEF Plan
<1>19. Sound(k3, {}, Registered(k))
  BY <1>17, <1>18 DEF Sound
<1>20. Ahead(k3)
  BY <1>10, <1>13, <1>15 DEF Ahead
<1>b. k3.NextScheduledProbe >= 1 \/ BlockedProbe(k3)
  BY <1>10, <1>13, <1>15 DEF BlockedProbe
<1> DEFINE j == Suppress(k3)
<1>21. /\ Sound(j, {}, Registered(k))
       /\ j.timenow_last = k3.timenow_last
       /\ j.timenow_adjust = k3.timenow_adjust
       /\ j.mDNS_busy = k3.mDNS_busy
       /\ j.SuppressSending \in {k3.SuppressSending, TenthSecond}
       /\ j.NextCacheCheck = k3.NextCacheCheck
       /\ j.NextScheduledProbe = k3.NextScheduledProbe
       /\ j.NextScheduledQuery = k3.NextScheduledQuery
       /\ j.NextScheduledResponse = k3.NextScheduledResponse
       /\ j.SuppressProbes = k3.SuppressProbes /\ j.rec = k3.rec
       /\ j.NextScheduledEvent = k3.NextScheduledEvent /\ j.qst = k3.qst
       /\ k3.sending => j.SuppressSending # NotSet
  BY <1>19, SuppressSound
<1> HIDE DEF j
<1>22. Ahead(j)
  BY <1>20, <1>21 DEF Ahead
<1>23. Quiet(j, <<>>)
  <2>1. CASE b
    BY <1>15, <1>21, <2>1 DEF Quiet, Calm
  <2>2. CASE ~b
    <3>1. \A r \in Record : g[r].RecordType # "Deregistering"
      BY <1>3, <1>14, <2>2
    <3>2. BlockedProbe(k3) => BlockedProbe(j)
      BY <1>21 DEF BlockedProbe
    <3>. QED  BY <1>15, <1>21, <1>b, <3>1, <3>2 DEF Quiet, Calm
  <2>. QED  BY <2>1, <2>2
<1>24. j.NextScheduledProbe >= 1 \/ BlockedProbe(j)
  BY <1>21, <1>b DEF BlockedProbe
<1>25. \A r \in Record : j.rec[r] = k.rec[r]
                          \/ /\ j.rec[r].RecordType \in {"Shared", "Verified"}
                             /\ APTime(j, r) >= 1
  BY <1>3, <1>15, <1>21 DEF APTime
<1>. QED  BY <1>2, <1>13, <1>15, <1>21, <1>22, <1>23, <1>24, <1>25 DEF j

--------------------------------------------------------------------------------
(* The engine between its steps *)

\* The event the loop waits for is no later than anything that is planned
Awaits(k) ==
  IF k.NewQuestions # {} THEN k.NextScheduledEvent <= Now(k)
  ELSE IF k.SuppressSending # NotSet THEN k.NextScheduledEvent <= k.SuppressSending
  ELSE /\ k.NextScheduledEvent <= k.NextCacheCheck
       /\ k.NextScheduledEvent <= k.NextScheduledQuery
       /\ k.NextScheduledEvent <= k.NextScheduledProbe
       /\ k.NextScheduledEvent <= k.NextScheduledResponse

\* How often the lock is held: by mDNS_Execute, or by the calls whose callbacks clients are in
Depth(w, f) == IF w # "none" /\ f = <<>> THEN 1 ELSE Len(f)

Frames(w, f) ==
  /\ f \in Seq({"walk", "call"})
  /\ \A i \in 1..Len(f) : f[i] = "walk" <=> w # "none" /\ i = 1

Probing(w, l) == IF w = "SendQueries" THEN l ELSE {}

Answering(w, l) == IF w = "SendResponses" THEN l ELSE {}

\* What a walk relies on
Walks(k, w) ==
  /\ k.SuppressSending = NotSet \/ k.SuppressSending >= 1
  /\ HasCache => k.NextCacheCheck >= 1
  /\ Ahead(k)
  /\ w = "SendQueries" => k.NextScheduledProbe >= 1
  /\ w = "SendResponses" => k.NextScheduledResponse >= 1

Good(k, w, l, f) ==
  /\ Sound(k, Probing(w, l), Answering(w, l))
  /\ w \in {"none", "SendQueries", "SendResponses"}
  /\ l \subseteq Record
  /\ Frames(w, f)
  /\ k.mDNS_busy = Depth(w, f)
  /\ Depth(w, f) # 0 => k.timenow_last = 0
  /\ Depth(w, f) = 0 => Awaits(k)
  /\ w # "none" => Walks(k, w)
  /\ w = "SendResponses" => Quiet(k, f)

\* The clock of the engine is corrected by no more than it was set back
Timely(k, j) ==
  /\ j.timenow_adjust >= k.timenow_adjust
  /\ j.timenow_adjust + Now(j) <= k.timenow_adjust + Now(k)

LEMMA DepthFacts ==
  ASSUME NEW w, NEW f, Frames(w, f)
  PROVE  /\ Depth(w, f) \in Nat
         /\ Depth(w, f) = 0 <=> w = "none" /\ f = <<>>
         /\ Len(f) \in Nat
BY DEF Depth, Frames

LEMMA UnlockAwaits ==
  ASSUME NEW k \in Engine, k.mDNS_busy <= 1, k.timenow_last = 0
  PROVE  Awaits(mDNS_Unlock(k))
<1> DEFINE u == mDNS_Unlock(k)
           s == Soonest({k.NextCacheCheck, k.NextScheduledQuery, k.NextScheduledProbe,
                         k.NextScheduledResponse})
<1>1. /\ k.NextCacheCheck \in Int /\ k.NextScheduledQuery \in Int /\ k.NextScheduledProbe \in Int
      /\ k.NextScheduledResponse \in Int /\ k.SuppressSending \in Int \union {NotSet}
      /\ k.mDNS_busy \in Int
  BY EngineTypes
<1>2. /\ s <= k.NextCacheCheck /\ s <= k.NextScheduledQuery
      /\ s <= k.NextScheduledProbe /\ s <= k.NextScheduledResponse
  BY <1>1, SoonestOfFour
<1>3. /\ u.NextScheduledEvent = IF k.NewQuestions # {} THEN 0
                                ELSE IF k.SuppressSending # NotSet THEN k.SuppressSending ELSE s
      /\ u.timenow_last = 0 /\ u.NewQuestions = k.NewQuestions
      /\ u.SuppressSending = k.SuppressSending /\ u.NextCacheCheck = k.NextCacheCheck
      /\ u.NextScheduledQuery = k.NextScheduledQuery
      /\ u.NextScheduledProbe = k.NextScheduledProbe
      /\ u.NextScheduledResponse = k.NextScheduledResponse
  <2>1. ~(k.mDNS_busy > 1)
    BY <1>1
  <2>. QED  BY <2>1, UnlockFields DEF GetNextScheduledEvent
<1> HIDE DEF u, s
<1>4. Awaits(u)
  BY <1>1, <1>2, <1>3 DEF Awaits, Now
<1>. QED  BY <1>4 DEF u

LEMMA LaterMonotone ==
  ASSUME NEW t \in Int, NEW u \in Int, NEW d \in Int, t <= u
  PROVE  Later(t, d) <= Later(u, d)
BY Parameters DEF Later

LEMMA PassAwaits ==
  ASSUME NEW k \in Engine, Awaits(k), NEW d \in Int, d >= 0 \/ k.timenow_last >= 0
  PROVE  Awaits(Pass(k, d))
<1> DEFINE j == Pass(k, d)
<1>1. /\ k.NextScheduledEvent \in Int /\ k.NextCacheCheck \in Int /\ k.NextScheduledQuery \in Int
      /\ k.NextScheduledProbe \in Int /\ k.NextScheduledResponse \in Int
      /\ k.SuppressSending \in Int \union {NotSet} /\ Now(k) \in Int
  BY EngineTypes
<1>2. /\ j.NextScheduledEvent = Later(k.NextScheduledEvent, d)
      /\ j.SuppressSending = Later(k.SuppressSending, d)
      /\ j.NextCacheCheck = Later(k.NextCacheCheck, d)
      /\ j.NextScheduledQuery = Later(k.NextScheduledQuery, d)
      /\ j.NextScheduledProbe = Later(k.NextScheduledProbe, d)
      /\ j.NextScheduledResponse = Later(k.NextScheduledResponse, d)
      /\ j.NewQuestions = k.NewQuestions
  BY PassFields
<1>3. Now(j) \in Int /\ Now(j) >= 0 /\ Now(j) >= Now(k) - d
  BY NowLater
<1> HIDE DEF j
<1>4. k.SuppressSending = NotSet => j.SuppressSending = NotSet
  BY <1>2 DEF Later
<1>l. \A t, u \in Int : t <= u => Later(t, d) <= Later(u, d)
  BY LaterMonotone
<1>5. CASE k.NewQuestions # {}
  <2>1. k.NextScheduledEvent <= Now(k)
    BY <1>5 DEF Awaits
  <2>2. j.NextScheduledEvent = k.NextScheduledEvent - d \/ j.NextScheduledEvent = -Half
    BY <1>1, <1>2, LaterFacts
  <2>3. j.NextScheduledEvent <= Now(j)
    BY <1>1, <1>3, <2>1, <2>2, Parameters
  <2>4. Awaits(j)
    BY <1>2, <1>5, <2>3 DEF Awaits
  <2>. QED  BY <2>4 DEF j
<1>6. CASE k.NewQuestions = {} /\ k.SuppressSending # NotSet
  <2>1. k.NextScheduledEvent <= k.SuppressSending /\ k.SuppressSending \in Int
    BY <1>1, <1>6 DEF Awaits
  <2>2. j.NextScheduledEvent <= j.SuppressSending
    BY <1>1, <1>2, <1>l, <2>1
  <2>3. j.SuppressSending \in Int
    BY <1>2, <2>1, LaterFacts
  <2>4. Awaits(j)
    BY <1>2, <1>6, <2>2, <2>3, Parameters DEF Awaits
  <2>. QED  BY <2>4 DEF j
<1>7. CASE k.NewQuestions = {} /\ k.SuppressSending = NotSet
  <2>1. /\ k.NextScheduledEvent <= k.NextCacheCheck
        /\ k.NextScheduledEvent <= k.NextScheduledQuery
        /\ k.NextScheduledEvent <= k.NextScheduledProbe
        /\ k.NextScheduledEvent <= k.NextScheduledResponse
    BY <1>7 DEF Awaits
  <2>2. /\ j.NextScheduledEvent <= j.NextCacheCheck
        /\ j.NextScheduledEvent <= j.NextScheduledQuery
        /\ j.NextScheduledEvent <= j.NextScheduledProbe
        /\ j.NextScheduledEvent <= j.NextScheduledResponse
    BY <1>1, <1>2, <1>l, <2>1
  <2>3. Awaits(j)
    BY <1>2, <1>4, <1>7, <2>2 DEF Awaits
  <2>. QED  BY <2>3 DEF j
<1>. QED  BY <1>5, <1>6, <1>7

LEMMA LockAwaits ==
  ASSUME NEW k \in Engine, Awaits(k), k.mDNS_busy = 0
  PROVE  Awaits(mDNS_Lock(k))
<1> DEFINE i == IF k.mDNS_busy = 0 /\ k.timenow_last > 0 THEN Pass(k, k.timenow_last) ELSE k
           j == mDNS_Lock(k)
<1>1. /\ j.NextScheduledEvent = i.NextScheduledEvent /\ j.SuppressSending = i.SuppressSending
      /\ j.NextCacheCheck = i.NextCacheCheck /\ j.NextScheduledProbe = i.NextScheduledProbe
      /\ j.NextScheduledQuery = i.NextScheduledQuery
      /\ j.NextScheduledResponse = i.NextScheduledResponse
      /\ j.NewQuestions = k.NewQuestions /\ j.timenow_last = 0
  BY LockFields
<1>2. k.timenow_last \in Int
  BY EngineTypes
<1>3. Awaits(i) /\ Now(i) = 0 /\ i.NewQuestions = k.NewQuestions
  <2>1. CASE k.timenow_last > 0
    <3> DEFINE d == k.timenow_last
    <3>1. d \in Int /\ d >= 0 /\ d - d = 0 /\ ~(0 < -Half) /\ d # NotSet
      BY <1>2, <2>1, Parameters
    <3>2. i = Pass(k, d)
      BY <2>1
    <3>3. Later(d, d) = 0
      BY <3>1 DEF Later
    <3>4. Pass(k, d).timenow_last = Later(k.timenow_last, d) /\ Pass(k, d).NewQuestions = k.NewQuestions
      BY <3>1, PassFields
    <3>5. Pass(k, d).timenow_last = 0
      BY <3>3, <3>4
    <3> HIDE DEF d, i
    <3>6. Awaits(Pass(k, d))
      BY <3>1, PassAwaits
    <3>. QED  BY <3>2, <3>4, <3>5, <3>6 DEF Now
  <2>2. CASE ~(k.timenow_last > 0)
    BY <1>2, <2>2 DEF Now
  <2>. QED  BY <2>1, <2>2
<1> HIDE DEF i, j
<1>4. Awaits(j)
  BY <1>1, <1>3 DEF Awaits, Now
<1>. QED  BY <1>4 DEF j

LEMMA LockGood ==
  ASSUME NEW k, NEW w, NEW l, NEW f, Good(k, w, l, f)
  PROVE  LET j == mDNS_Lock(k)
         IN /\ Sound(j, Probing(w, l), Answering(w, l))
            /\ j.timenow_last = 0
            /\ j.mDNS_busy = k.mDNS_busy + 1
            /\ Timely(k, j)
            /\ w # "none" => Walks(j, w)
            /\ w = "SendResponses" /\ f # <<>> => Calm(j)
<1> DEFINE j == mDNS_Lock(k)
<1>1. /\ k \in Engine /\ k.timenow_last \in Int /\ k.timenow_adjust \in Int /\ k.mDNS_busy \in Int
  BY EngineTypes DEF Good, Sound, Typed
<1>2. /\ k.mDNS_busy = 0 => w = "none"
      /\ k.mDNS_busy # 0 => k.timenow_last = 0
  BY DepthFacts DEF Good
<1>3. k.mDNS_busy = 0 => Probing(w, l) = {} /\ Answering(w, l) = {}
  BY <1>2 DEF Probing, Answering
<1>4. Sound(j, Probing(w, l), Answering(w, l))
  <2> DEFINE P == Probing(w, l)
             A == Answering(w, l)
  <2>1. Sound(k, P, A) /\ (k.mDNS_busy = 0 => P = {} /\ A = {})
    BY <1>3 DEF Good
  <2> HIDE DEF P, A
  <2>2. Sound(mDNS_Lock(k), P, A)
    BY <1>2, <2>1, LockSound
  <2>. QED  BY <2>2 DEF P, A
<1>5. /\ j \in Engine /\ j.timenow_last = 0 /\ j.mDNS_busy = k.mDNS_busy + 1
      /\ j.timenow_adjust = IF k.mDNS_busy = 0 /\ k.timenow_last > 0
                            THEN k.timenow_adjust + k.timenow_last ELSE k.timenow_adjust
  BY <1>1, LockFields
<1>6. Timely(k, j)
  <2> HIDE DEF j
  <2>. QED  BY <1>1, <1>5 DEF Timely, Now
<1>7. ASSUME w # "none" PROVE Walks(j, w) /\ (w = "SendResponses" /\ f # <<>> => Calm(j))
  <2>1. ~(k.mDNS_busy = 0 /\ k.timenow_last > 0)
    BY <1>2, <1>7
  <2>2. /\ j.SuppressSending = k.SuppressSending /\ j.NextCacheCheck = k.NextCacheCheck
        /\ j.NextScheduledProbe = k.NextScheduledProbe
        /\ j.NextScheduledQuery = k.NextScheduledQuery
        /\ j.NextScheduledResponse = k.NextScheduledResponse
        /\ j.SuppressProbes = k.SuppressProbes
    BY <1>1, <2>1, LockFields
  <2> HIDE DEF j
  <2>. QED  BY <1>7, <2>2 DEF Good, Walks, Ahead, Quiet, Calm
<1>. QED  BY <1>4, <1>5, <1>6, <1>7

LEMMA ServesWalks ==
  ASSUME NEW k, NEW j, NEW w, Serves(k, j), Walks(k, w)
  PROVE  /\ Walks(j, w)
         /\ Calm(k) => Calm(j)
BY DEF Serves, Kept, Walks, Calm

\* A function of the engine that a client or a packet calls while the walk rests
LEMMA CallGood ==
  ASSUME NEW k, NEW w, NEW l, NEW f, Good(k, w, l, f), w = "none" \/ f # <<>>,
         NEW j, NEW l2, l2 \subseteq Record,
         Holds(mDNS_Lock(k), j), w # "none" => Serves(mDNS_Lock(k), j),
         Sound(j, Probing(w, l2), Answering(w, l2))
  PROVE  /\ Good(mDNS_Unlock(j), w, l2, f)
         /\ Timely(k, mDNS_Unlock(j))
         /\ mDNS_Unlock(j).timenow_last = 0
<1> DEFINE i == mDNS_Lock(k)
           u == mDNS_Unlock(j)
<1>1. /\ i.timenow_last = 0 /\ i.mDNS_busy = k.mDNS_busy + 1 /\ Timely(k, i)
      /\ w # "none" => Walks(i, w)
      /\ w = "SendResponses" => Calm(i)
  BY LockGood
<1>2. j \in Engine /\ Holds(i, j)
  BY DEF Holds
<1>3. /\ k.mDNS_busy = Depth(w, f) /\ Depth(w, f) \in Nat
      /\ Depth(w, f) = 0 <=> w = "none" /\ f = <<>>
  BY DepthFacts DEF Good
<1>4. j.timenow_last = 0 /\ j.timenow_adjust = i.timenow_adjust /\ j.mDNS_busy = k.mDNS_busy + 1
  BY <1>1, <1>2 DEF Holds
<1>5. /\ w # "none" => Walks(j, w)
      /\ w = "SendResponses" => Calm(j)
  BY <1>1, ServesWalks
<1>6. /\ u \in Engine /\ u.timenow_last = 0 /\ u.timenow_adjust = i.timenow_adjust
      /\ u.mDNS_busy = Depth(w, f)
      /\ u.SuppressSending = j.SuppressSending /\ u.NextCacheCheck = j.NextCacheCheck
      /\ u.NextScheduledProbe = j.NextScheduledProbe
      /\ u.NextScheduledQuery = j.NextScheduledQuery
      /\ u.NextScheduledResponse = j.NextScheduledResponse
      /\ u.SuppressProbes = j.SuppressProbes
  BY <1>2, <1>3, <1>4, UnlockFields
<1>7. Sound(u, Probing(w, l2), Answering(w, l2))
  BY UnlockSound
<1>8. Depth(w, f) = 0 => Awaits(u)
  BY <1>2, <1>3, <1>4, UnlockAwaits
<1> HIDE DEF u, i
<1>9. /\ w # "none" => Walks(u, w)
      /\ w = "SendResponses" => Quiet(u, f)
  BY <1>5, <1>6 DEF Walks, Ahead, Quiet, Calm
<1>10. Timely(k, u)
  BY <1>1, <1>6 DEF Timely, Now
<1>11. Good(u, w, l2, f)
  BY <1>6, <1>7, <1>8, <1>9 DEF Good
<1>. QED  BY <1>6, <1>10, <1>11 DEF u

\* Reentrancy is counted, and has no part in the plan
LEMMA CallbackFields ==
  ASSUME NEW P, NEW A, NEW k, Sound(k, P, A), NEW n \in Int
  PROVE  LET j == [k EXCEPT !.mDNS_reentrancy = n]
         IN /\ Sound(j, P, A)
            /\ Serves(k, j)
            /\ j.rec = k.rec
            /\ j.NextScheduledEvent = k.NextScheduledEvent
            /\ j.NewQuestions = k.NewQuestions
            /\ j.NextScheduledProbe = k.NextScheduledProbe
            /\ j.NextScheduledQuery = k.NextScheduledQuery
            /\ j.NextScheduledResponse = k.NextScheduledResponse
            /\ j.SuppressProbes = k.SuppressProbes
<1> DEFINE j == [k EXCEPT !.mDNS_reentrancy = n]
<1>1. k \in Engine /\ Now(k) \in Int
  BY EngineTypes DEF Sound, Typed
<1>2. /\ Kept(k, j)
      /\ j.rec = k.rec /\ j.qst = k.qst
      /\ j.NewQuestions = k.NewQuestions
      /\ j.NextScheduledProbe = k.NextScheduledProbe
      /\ j.NextScheduledQuery = k.NextScheduledQuery
      /\ j.NextScheduledResponse = k.NextScheduledResponse
      /\ j.SuppressProbes = k.SuppressProbes
  BY <1>1 DEF Kept, Engine
<1> HIDE DEF j
<1>3. j \in Engine /\ Now(j) >= Now(k) /\ Holding(k, j)
  BY <1>1, <1>2, HoldingSame DEF Kept, Now, Sound
<1>4. Sound(j, P, A)
  BY <1>2, <1>3, SoundSame
<1>5. Serves(k, j)
  BY <1>2 DEF Serves, Ahead
<1>. QED  BY <1>2, <1>4, <1>5 DEF j, Kept

LEMMA CallbackGood ==
  ASSUME NEW k, NEW w, NEW l, NEW f, Good(k, w, l, f), w = "none" \/ f # <<>>,
         NEW j, NEW l2, l2 \subseteq Record,
         Serves(mDNS_Lock(k), j), Sound(j, Probing(w, l2), Answering(w, l2))
  PROVE  LET c == [j EXCEPT !.mDNS_reentrancy = @ + 1]
         IN /\ Good(c, w, l2, Append(f, "call"))
            /\ Timely(k, c)
            /\ c.timenow_last = 0
<1> DEFINE i == mDNS_Lock(k)
           n == j.mDNS_reentrancy + 1
           c == [j EXCEPT !.mDNS_reentrancy = n]
           g == Append(f, "call")
<1>1. /\ i.timenow_last = 0 /\ i.mDNS_busy = k.mDNS_busy + 1 /\ Timely(k, i)
      /\ w # "none" => Walks(i, w)
      /\ w = "SendResponses" => Calm(i)
  BY LockGood
<1>2. j \in Engine /\ Kept(i, j) /\ n \in Int
  BY EngineTypes DEF Serves, Kept
<1> HIDE DEF n
<1>3. Sound(c, Probing(w, l2), Answering(w, l2)) /\ Serves(j, c)
  <2> DEFINE P == Probing(w, l2)
             A == Answering(w, l2)
  <2> HIDE DEF P, A
  <2>1. Sound(j, P, A)
    BY DEF P, A
  <2>2. Sound([j EXCEPT !.mDNS_reentrancy = n], P, A) /\ Serves(j, [j EXCEPT !.mDNS_reentrancy = n])
    BY <1>2, <2>1, CallbackFields
  <2>. QED  BY <2>2 DEF P, A
<1>4. Frames(w, f) /\ k.mDNS_busy = Depth(w, f) /\ f \in Seq({"walk", "call"})
  BY DEF Good, Frames
<1>5. Frames(w, g) /\ Depth(w, g) = Depth(w, f) + 1 /\ Depth(w, g) # 0
  <2>1. /\ g \in Seq({"walk", "call"}) /\ Len(g) = Len(f) + 1 /\ Len(f) \in Nat
        /\ \A x \in 1..Len(g) : g[x] = IF x = Len(f) + 1 THEN "call" ELSE f[x]
    BY <1>4
  <2>2. w # "none" => Len(f) # 0
    BY <1>4
  <2>3. Frames(w, g)
    BY <1>4, <2>1, <2>2 DEF Frames
  <2>4. g # <<>>
    BY <2>1
  <2>5. Depth(w, f) = Len(f)
    BY DEF Depth
  <2>. QED  BY <2>1, <2>3, <2>4, <2>5 DEF Depth
<1> HIDE DEF c, i, g
<1>6. /\ c.timenow_last = 0 /\ c.timenow_adjust = i.timenow_adjust
      /\ c.mDNS_busy = Depth(w, g)
  BY <1>1, <1>2, <1>3, <1>4, <1>5 DEF Serves, Kept
<1>7. /\ w # "none" => Walks(c, w)
      /\ w = "SendResponses" => Quiet(c, g)
  <2>1. /\ w # "none" => Walks(j, w)
        /\ w = "SendResponses" => Calm(j)
    BY <1>1, ServesWalks DEF i
  <2>. QED  BY <1>3, <2>1, ServesWalks DEF Quiet
<1>8. w \in {"none", "SendQueries", "SendResponses"}
  BY DEF Good
<1>9. Good(c, w, l2, g)
  BY <1>3, <1>5, <1>6, <1>7, <1>8 DEF Good
<1>10. Timely(k, c)
  BY <1>1, <1>6 DEF Timely, Now
<1>. QED  BY <1>6, <1>9, <1>10 DEF c, n, g

--------------------------------------------------------------------------------
(* The steps of the engine *)

Engaged == Good(m, walk, left, frames)

LEMMA LockRecord ==
  ASSUME NEW k \in Engine, NEW r \in Record
  PROVE  mDNS_Lock(k).rec[r].RecordType = k.rec[r].RecordType
<1> DEFINE i == IF k.mDNS_busy = 0 /\ k.timenow_last > 0 THEN Pass(k, k.timenow_last) ELSE k
<1>1. mDNS_Lock(k).rec = i.rec
  BY LockFields
<1>2. k.timenow_last \in Int /\ k.rec[r] \in RecordState
  BY EngineTypes
<1>3. Pass(k, k.timenow_last).rec[r] = RecordLater(k.rec[r], k.timenow_last)
  BY <1>2, PassFields
<1>4. RecordLater(k.rec[r], k.timenow_last).RecordType = k.rec[r].RecordType
  BY <1>2, RecordLaterFacts
<1>. QED  BY <1>1, <1>3, <1>4

LEMMA ServesHolds ==
  ASSUME NEW k, NEW j, Serves(k, j)
  PROVE  Holds(k, j)
BY DEF Serves, Kept, Holds

\* What clients call keeps the plan, whenever they call it
LEMMA ClientCallsGood ==
  ASSUME Engaged, ClientCalls, walk' = walk, walk = "none" \/ frames # <<>>
  PROVE  /\ Engaged'
         /\ Timely(m, m')
         /\ m'.timenow_last = 0
         /\ frames' \in {frames, Append(frames, "call")}
<1> DEFINE k == mDNS_Lock(m)
           P == Probing(walk, left)
           A == Answering(walk, left)
<1>1. Sound(k, P, A) /\ m \in Engine /\ left \subseteq Record
  BY LockGood DEF Engaged, Good, Sound, Typed
<1>2. ASSUME NEW j, Serves(k, j), left' \subseteq Record,
             Sound(j, Probing(walk, left'), Answering(walk, left')), Call(j)
      PROVE  Engaged' /\ Timely(m, m') /\ m'.timenow_last = 0 /\ frames' = frames
  <2>1. Holds(k, j)
    BY <1>2, ServesHolds
  <2>2. /\ Good(mDNS_Unlock(j), walk, left', frames)
        /\ Timely(m, mDNS_Unlock(j))
        /\ mDNS_Unlock(j).timenow_last = 0
    BY <1>2, <2>1, CallGood DEF Engaged
  <2>3. m' = mDNS_Unlock(j) /\ frames' = frames
    BY <1>2 DEF Call
  <2>. QED  BY <2>2, <2>3 DEF Engaged
<1>3. ASSUME NEW j, Serves(k, j), left' \subseteq Record,
             Sound(j, Probing(walk, left'), Answering(walk, left')), CallBack(j)
      PROVE  Engaged' /\ Timely(m, m') /\ m'.timenow_last = 0 /\ frames' = Append(frames, "call")
  <2>1. LET c == [j EXCEPT !.mDNS_reentrancy = @ + 1]
        IN /\ Good(c, walk, left', Append(frames, "call"))
           /\ Timely(m, c)
           /\ c.timenow_last = 0
    BY <1>3, CallbackGood DEF Engaged
  <2>2. m' = [j EXCEPT !.mDNS_reentrancy = @ + 1] /\ frames' = Append(frames, "call")
    BY <1>3 DEF CallBack, Callback
  <2>. QED  BY <2>1, <2>2 DEF Engaged
<1> HIDE DEF k, P, A
<1>4. ASSUME NEW j, Sound(j, P, A), left' = left
      PROVE  Sound(j, Probing(walk, left'), Answering(walk, left')) /\ left' \subseteq Record
  BY <1>1, <1>4 DEF P, A
<1>5. ASSUME NEW r \in Record, ClientRegisters(r) PROVE Engaged' /\ Timely(m, m')
                                                   /\ m'.timenow_last = 0 /\ frames' = frames
  <2>1. Sound(Register(k, r), P \ {r}, A) /\ Serves(k, Register(k, r))
    BY <1>1, RegisterSound
  <2>2. left' = (IF left = {} THEN {} ELSE left \union {r}) /\ Call(Register(k, r))
    BY <1>5 DEF ClientRegisters, k
  <2> DEFINE Q == P \ {r}
             j == Register(k, r)
  <2>3. Q \cap Record \subseteq Probing(walk, left') /\ A \cap Record \subseteq Answering(walk, left')
    BY <2>2 DEF P, A, Probing, Answering
  <2>4. Sound(j, Q, A)
    BY <2>1
  <2> HIDE DEF Q, j
  <2>5. Sound(j, Probing(walk, left'), Answering(walk, left'))
    BY <2>3, <2>4, SoundMore
  <2>. QED  BY <1>1, <1>2, <2>1, <2>2, <2>5 DEF j
<1>6. ASSUME NEW r \in Record, ClientDeregisters(r)
      PROVE  /\ Engaged' /\ Timely(m, m') /\ m'.timenow_last = 0
             /\ frames' \in {frames, Append(frames, "call")}
  <2>1. m.rec[r].RecordType # "None"
    BY <1>6 DEF ClientDeregisters
  <2>2. k.rec[r].RecordType # "None"
    BY <1>1, <2>1, LockRecord DEF k
  <2>3. Sound(Retract(k, r), P, A) /\ Serves(k, Retract(k, r))
    BY <1>1, <2>2, RetractSound
  <2>4. Sound(Delete(k, r), P \ {r}, A \ {r}) /\ Serves(k, Delete(k, r))
    BY <1>1, DeleteSound
  <2>5. CASE left' = left /\ Call(Retract(k, r))
    BY <1>2, <1>4, <2>3, <2>5
  <2>6. CASE left' = left \ {r} /\ (CallBack(Delete(k, r)) \/ Call(Delete(k, r)))
    <3>1. Probing(walk, left') = P \ {r} /\ Answering(walk, left') = A \ {r} /\ left' \subseteq Record
      BY <1>1, <2>6 DEF P, A, Probing, Answering
    <3>2. Sound(Delete(k, r), Probing(walk, left'), Answering(walk, left'))
      BY <2>4, <3>1
    <3>. QED  BY <1>2, <1>3, <2>4, <2>6, <3>1, <3>2
  <2>. QED  BY <1>6, <2>5, <2>6 DEF ClientDeregisters, k
<1>7. ASSUME NEW r \in Record, ClientUpdates(r) PROVE Engaged' /\ Timely(m, m')
                                                 /\ m'.timenow_last = 0 /\ frames' = frames
  <2>1. PICK credits \in Credits : Call(Update(k, r, credits))
    BY <1>7 DEF ClientUpdates, k
  <2>2. k.rec[r].RecordType # "None"
    BY <1>1, <1>7, LockRecord DEF ClientUpdates, k
  <2>3. Sound(Update(k, r, credits), P, A) /\ Serves(k, Update(k, r, credits))
    BY <1>1, <2>2, UpdateSound
  <2>4. left' = left
    BY <1>7 DEF ClientUpdates
  <2>. QED  BY <1>2, <1>4, <2>1, <2>3, <2>4
<1>8. ASSUME NEW q \in Question, ClientAsks(q) PROVE Engaged' /\ Timely(m, m')
                                                /\ m'.timenow_last = 0 /\ frames' = frames
  <2>1. PICK delay \in 1..InitialQuestionInterval + 1 : Call(StartQuery(k, q, delay))
    BY <1>8 DEF ClientAsks, k
  <2>2. Sound(StartQuery(k, q, delay), P, A) /\ Serves(k, StartQuery(k, q, delay))
    BY <1>1, StartQuerySound
  <2>3. left' = left
    BY <1>8 DEF ClientAsks
  <2>. QED  BY <1>2, <1>4, <2>1, <2>2, <2>3
<1>9. ASSUME NEW q \in Question, ClientStops(q) PROVE Engaged' /\ Timely(m, m')
                                                 /\ m'.timenow_last = 0 /\ frames' = frames
  <2>1. Call(StopQuery(k, q)) /\ left' = left
    BY <1>9 DEF ClientStops, k
  <2>2. Sound(StopQuery(k, q), P, A) /\ Serves(k, StopQuery(k, q))
    BY <1>1, StopQuerySound
  <2>. QED  BY <1>2, <1>4, <2>1, <2>2
<1>. QED  BY <1>5, <1>6, <1>7, <1>8, <1>9 DEF ClientCalls

LEMMA ProbeFailureServes ==
  ASSUME NEW P, NEW A, NEW k, NEW j, Sound(j, P, A), Serves(k, j), k.timenow_last = 0,
         NEW slow \in BOOLEAN
  PROVE  Sound(RecordProbeFailure(j, slow), P, A) /\ Serves(k, RecordProbeFailure(j, slow))
<1>1. j.timenow_last = 0
  BY DEF Serves, Kept
<1>. QED  BY <1>1, ProbeFailureSound, ServesOn

\* A packet comes while the engine rests
LEMMA PacketComesGood ==
  ASSUME Engaged, PacketComes, walk' = walk, walk = "none", frames = <<>>
  PROVE  /\ Engaged'
         /\ Timely(m, m')
         /\ m'.timenow_last = 0
         /\ frames' \in {frames, Append(frames, "call")}
<1> DEFINE k == mDNS_Lock(m)
<1>1. Sound(k, {}, {}) /\ m \in Engine /\ left \subseteq Record /\ k.timenow_last = 0
  BY LockGood DEF Engaged, Good, Sound, Typed, Probing, Answering
<1>2. ASSUME NEW l, Probing(walk, l) # {} \/ Answering(walk, l) # {} PROVE FALSE
  BY <1>2 DEF Probing, Answering
<1>3. ASSUME NEW j, Holds(k, j), left' \subseteq Record, Sound(j, {}, {}), Call(j)
      PROVE  Engaged' /\ Timely(m, m') /\ m'.timenow_last = 0 /\ frames' = frames
  <2>1. Sound(j, Probing(walk, left'), Answering(walk, left'))
    BY <1>2, <1>3
  <2>2. /\ Good(mDNS_Unlock(j), walk, left', frames)
        /\ Timely(m, mDNS_Unlock(j))
        /\ mDNS_Unlock(j).timenow_last = 0
    BY <1>3, <2>1, CallGood DEF Engaged
  <2>3. m' = mDNS_Unlock(j) /\ frames' = frames
    BY <1>3 DEF Call
  <2>. QED  BY <2>2, <2>3 DEF Engaged
<1>4. ASSUME NEW j, Serves(k, j), left' \subseteq Record, Sound(j, {}, {}), CallBack(j)
      PROVE  Engaged' /\ Timely(m, m') /\ m'.timenow_last = 0 /\ frames' = Append(frames, "call")
  <2>0. Sound(j, Probing(walk, left'), Answering(walk, left'))
    BY <1>2, <1>4
  <2>1. LET c == [j EXCEPT !.mDNS_reentrancy = @ + 1]
        IN /\ Good(c, walk, left', Append(frames, "call"))
           /\ Timely(m, c)
           /\ c.timenow_last = 0
    BY <1>4, <2>0, CallbackGood DEF Engaged
  <2>2. m' = [j EXCEPT !.mDNS_reentrancy = @ + 1] /\ frames' = Append(frames, "call")
    BY <1>4 DEF CallBack, Callback
  <2>. QED  BY <2>1, <2>2 DEF Engaged
<1> HIDE DEF k
<1>5. ASSUME NEW r \in Record, QueryComes(r)
      PROVE  Engaged' /\ Timely(m, m') /\ m'.timenow_last = 0 /\ frames' = frames
  <2> DEFINE zero == 0
             c == [k.rec[r] EXCEPT !.ImmedAnswer = TRUE]
             k1 == PutRecord(k, r, c)
             n == [k1 EXCEPT !.NextScheduledResponse = zero]
             h == [n EXCEPT !.SuppressSending = TenthSecond]
  <2>1. /\ k \in Engine /\ k.rec \in [Record -> RecordState] /\ k.rec[r] \in RecordState
        /\ RecordFits(k, r) /\ APTime(k, r) \in Int
        /\ k.NextScheduledProbe \in Int /\ k.NextScheduledResponse \in Int
        /\ k.NextScheduledProbe >= -Half
        /\ Plan(k, {}, {})
    BY <1>1, EngineTypes DEF Sound, Typed, Fits
  <2>2. k.rec[r].RecordType \in {"Shared", "Verified"}
    <3>1. m.rec[r].RecordType \in {"Shared", "Verified"}
      BY <1>5 DEF QueryComes, ResourceRecordIsValidAnswer
    <3>. QED  BY <1>1, <3>1, LockRecord DEF k
  <2>3. Call(n) \/ Call(h)
    <3>1. [k EXCEPT !.rec[r].ImmedAnswer = TRUE] = k1
      BY <2>1 DEF PutRecord
    <3>2. n = [[k EXCEPT !.rec[r].ImmedAnswer = TRUE] EXCEPT !.NextScheduledResponse = 0]
      BY <3>1
    <3>. QED  BY <1>5, <3>2 DEF QueryComes, k
  <2>4. zero \in Int /\ zero = 0
    OBVIOUS
  <2> HIDE DEF zero
  <2>5. /\ c \in RecordState /\ c.RecordType = k.rec[r].RecordType /\ c.LastAPTime = k.rec[r].LastAPTime
        /\ c.ThisAPInterval = k.rec[r].ThisAPInterval /\ c.AnnounceCount = k.rec[r].AnnounceCount
        /\ c.UpdateBlocked = k.rec[r].UpdateBlocked
    BY <2>1 DEF RecordState
  <2> HIDE DEF c
  <2>6. k1 = PutRecord(k, r, c)
    OBVIOUS
  <2> HIDE DEF k1
  <2>7. /\ Kept(k, k1) /\ k1.rec[r] = c
        /\ \A t \in Record : t # r => k1.rec[t] = k.rec[t]
        /\ k1.NextScheduledProbe = k.NextScheduledProbe
        /\ k1.NextScheduledQuery = k.NextScheduledQuery
        /\ k1.NextScheduledResponse = k.NextScheduledResponse
        /\ k1.SuppressProbes = k.SuppressProbes
        /\ k1.qst = k.qst
    BY <2>1, <2>5, <2>6, RecordSet
  <2>8. /\ Holds(k, n) /\ n.rec = k1.rec /\ n.qst = k.qst
        /\ n.NextScheduledProbe = k.NextScheduledProbe
        /\ n.NextScheduledQuery = k.NextScheduledQuery
        /\ n.NextScheduledResponse = zero
        /\ n.SuppressProbes = k.SuppressProbes
    BY <2>4, <2>7 DEF Kept, Holds, Engine
  <2>9. /\ Holds(n, h) /\ h.rec = n.rec /\ h.qst = n.qst
        /\ h.NextScheduledProbe = n.NextScheduledProbe
        /\ h.NextScheduledQuery = n.NextScheduledQuery
        /\ h.NextScheduledResponse = n.NextScheduledResponse
        /\ h.SuppressProbes = n.SuppressProbes
    BY <2>8, Parameters DEF Holds, Engine
  <2> HIDE DEF n, h
  <2>10. Sound(n, {}, {})
    <3>1. n.NextScheduledResponse = 0 /\ Now(n) = 0 /\ Now(k) = 0 /\ n \in Engine
      BY <1>1, <2>4, <2>8 DEF Holds, Now
    <3>2. ASSUME NEW s \in Record
          PROVE  /\ APTime(n, s) = APTime(k, s)
                 /\ n.rec[s].RecordType = k.rec[s].RecordType
                 /\ n.rec[s].ThisAPInterval = k.rec[s].ThisAPInterval
                 /\ n.rec[s].UpdateBlocked = k.rec[s].UpdateBlocked
                 /\ n.rec[s].RecordType \in {"None", "Deregistering"} => n.rec[s] = k.rec[s]
      BY <2>2, <2>5, <2>7, <2>8 DEF APTime
    <3>3. Typed(n)
      <4>1. \A s \in Record : RecordFits(k, s)
        BY <1>1 DEF Sound, Typed, Fits
      <4>2. ASSUME NEW s \in Record PROVE RecordFits(n, s)
        <5>1. RecordFits(k, s)
          BY <4>1
        <5>2. /\ APTime(n, s) = APTime(k, s)
              /\ n.rec[s].RecordType = k.rec[s].RecordType
              /\ n.rec[s].ThisAPInterval = k.rec[s].ThisAPInterval
              /\ n.rec[s].UpdateBlocked = k.rec[s].UpdateBlocked
              /\ n.rec[s].RecordType \in {"None", "Deregistering"} => n.rec[s] = k.rec[s]
          BY <3>2
        <5>. QED  BY <5>1, <5>2 DEF RecordFits
      <4>3. \A q \in Question : QuestionFits(n, q)
        BY <1>1, <2>8 DEF Sound, Typed, Fits, QuestionFits, QTime
      <4>4. n.NextScheduledQuery >= -Half
        BY <1>1, <2>8 DEF Sound, Typed, Fits
      <4>5. n.SuppressProbes = NotSet \/ n.SuppressProbes <= Now(n) + ProbeFailureDelay
        BY <1>1, <2>8, <3>1 DEF Sound, Typed, Fits
      <4>. QED  BY <2>1, <2>8, <3>1, <4>2, <4>3, <4>4, <4>5 DEF Typed, Fits
    <3>4. Plan(n, {}, {})
      <4>0. Plan(k, {}, {})
        BY <2>1
      <4>1. ASSUME NEW s \in Record PROVE ProbePlanned(n, s)
        <5>1. ProbePlanned(k, s)
          BY <4>0 DEF Plan
        <5>2. /\ APTime(n, s) = APTime(k, s) /\ n.rec[s].RecordType = k.rec[s].RecordType
              /\ n.rec[s].UpdateBlocked = k.rec[s].UpdateBlocked
          BY <3>2
        <5>. QED  BY <2>8, <3>1, <5>1, <5>2 DEF ProbePlanned, Planned, HeldBack
      <4>2. \A s \in Record : AnnouncementPlanned(n, s) /\ AnswerPlanned(n, s)
        BY <3>1, Parameters DEF AnnouncementPlanned, AnswerPlanned, Planned
      <4>3. \A q \in Question : QueryPlanned(n, q)
        BY <2>8, <3>1, <4>0 DEF Plan, QueryPlanned, Planned, QTime
      <4>. QED  BY <4>1, <4>2, <4>3 DEF Plan
    <3>. QED  BY <3>3, <3>4 DEF Sound
  <2>11. Sound(h, {}, {})
    <3>1. h \in Engine /\ Now(h) = Now(n) /\ Now(n) \in Int
      BY <2>8, <2>9, EngineTypes DEF Holds, Now
    <3>2. Now(h) >= Now(n) /\ Holding(n, h)
      BY <2>9, <2>10, <3>1, HoldingSame DEF Sound
    <3>. QED  BY <2>9, <2>10, <3>1, <3>2, SoundSame
  <2>12. Holds(k, h)
    BY <2>8, <2>9 DEF Holds
  <2>13. left' = left
    BY <1>5 DEF QueryComes
  <2>. QED  BY <1>1, <1>3, <2>3, <2>8, <2>10, <2>11, <2>12, <2>13
<1>6. ASSUME NEW r \in Record, ConflictComes(r)
      PROVE  /\ Engaged' /\ Timely(m, m') /\ m'.timenow_last = 0
             /\ frames' \in {frames, Append(frames, "call")}
  <2>1. PICK slow \in BOOLEAN :
          \/ /\ m.rec[r].RecordType = "Verified"
             /\ Call(RecordProbeFailure(Reprobe(k, r), slow))
             /\ left' = left
          \/ /\ m.rec[r].RecordType = "Unique"
             /\ CallBack(RecordProbeFailure(Delete(k, r), slow))
             /\ left' = left \ {r}
    BY <1>6 DEF ConflictComes, k
  <2>2. k.rec[r].RecordType = m.rec[r].RecordType
    BY <1>1, LockRecord DEF k
  <2>3. CASE /\ m.rec[r].RecordType = "Verified"
             /\ Call(RecordProbeFailure(Reprobe(k, r), slow))
             /\ left' = left
    <3>1. Sound(Reprobe(k, r), {} \ {r}, {}) /\ Serves(k, Reprobe(k, r))
      BY <1>1, <2>2, <2>3, ReprobeSound
    <3>2. {} \ {r} = {}
      OBVIOUS
    <3>3. Sound(Reprobe(k, r), {}, {})
      BY <3>1, <3>2
    <3>4. LET j == RecordProbeFailure(Reprobe(k, r), slow) IN Sound(j, {}, {}) /\ Serves(k, j)
      BY <1>1, <3>1, <3>3, ProbeFailureServes
    <3>. QED  BY <1>1, <1>3, <2>3, <3>4, ServesHolds
  <2>4. CASE /\ m.rec[r].RecordType = "Unique"
             /\ CallBack(RecordProbeFailure(Delete(k, r), slow))
             /\ left' = left \ {r}
    <3>1. Sound(Delete(k, r), {} \ {r}, {} \ {r}) /\ Serves(k, Delete(k, r))
      BY <1>1, DeleteSound
    <3>2. {} \ {r} = {}
      OBVIOUS
    <3>3. Sound(Delete(k, r), {}, {})
      BY <3>1, <3>2
    <3>4. LET j == RecordProbeFailure(Delete(k, r), slow) IN Sound(j, {}, {}) /\ Serves(k, j)
      BY <1>1, <3>1, <3>3, ProbeFailureServes
    <3>5. left' \subseteq Record
      BY <1>1, <2>4
    <3>. QED  BY <1>4, <2>4, <3>4, <3>5
  <2>. QED  BY <2>1, <2>3, <2>4
<1>. QED  BY <1>5, <1>6 DEF PacketComes

LEMMA ReturnGood ==
  ASSUME Engaged, Return
  PROVE  Engaged' /\ Timely(m, m') /\ m'.timenow_last = 0
<1> DEFINE n == m.mDNS_reentrancy - 1
           k == [m EXCEPT !.mDNS_reentrancy = n]
           g == SubSeq(frames, 1, Len(frames) - 1)
           u == mDNS_Unlock(k)
           P == Probing(walk, left)
           A == Answering(walk, left)
<1>1. /\ Sound(m, P, A) /\ m \in Engine /\ n \in Int
      /\ Frames(walk, frames) /\ m.mDNS_busy = Depth(walk, frames)
      /\ frames # <<>> /\ frames' = g /\ walk' = walk /\ left' = left
      /\ m' = IF frames[Len(frames)] = "call" THEN u ELSE k
      /\ left \subseteq Record
  BY EngineTypes DEF Engaged, Good, Sound, Typed, Return
<1>2. /\ frames \in Seq({"walk", "call"}) /\ Len(frames) \in Nat /\ Len(frames) >= 1
      /\ Depth(walk, frames) = Len(frames) /\ m.mDNS_busy = Len(frames)
      /\ m.timenow_last = 0
  BY <1>1 DEF Frames, Depth, Engaged, Good
<1>3. /\ g \in Seq({"walk", "call"}) /\ Len(g) = Len(frames) - 1
      /\ \A i \in 1..Len(g) : g[i] = frames[i]
  BY <1>2
<1>4. Frames(walk, g)
  BY <1>1, <1>2, <1>3 DEF Frames
<1> HIDE DEF n, g, P, A
<1>5. g = <<>> <=> Len(frames) = 1
  <2>1. g = <<>> => Len(g) = 0
    OBVIOUS
  <2>2. Len(g) = 0 => g = <<>>
    BY <1>3
  <2>. QED  BY <1>2, <1>3, <2>1, <2>2
<1>6. /\ Sound(k, P, A) /\ Serves(m, k)
  BY <1>1, CallbackFields
<1> HIDE DEF k
<1>7. /\ k \in Engine /\ k.timenow_last = 0 /\ k.timenow_adjust = m.timenow_adjust
      /\ k.mDNS_busy = Len(frames)
  BY <1>2, <1>6 DEF Serves, Kept
<1>8. /\ walk # "none" => Walks(k, walk)
      /\ walk = "SendResponses" => Calm(k)
  <2>1. /\ walk # "none" => Walks(m, walk)
        /\ walk = "SendResponses" => Calm(m)
    BY <1>1 DEF Engaged, Good, Quiet
  <2>. QED  BY <1>6, <2>1, ServesWalks
<1>9. walk \in {"none", "SendQueries", "SendResponses"}
  BY DEF Engaged, Good
<1>10. CASE frames[Len(frames)] = "call"
  <2>1. ~(walk # "none" /\ Len(frames) = 1)
    BY <1>1, <1>2, <1>10 DEF Frames
  <2>2. /\ u \in Engine /\ u.timenow_last = 0 /\ u.timenow_adjust = m.timenow_adjust
        /\ u.mDNS_busy = Len(frames) - 1
        /\ u.SuppressSending = k.SuppressSending /\ u.NextCacheCheck = k.NextCacheCheck
        /\ u.NextScheduledProbe = k.NextScheduledProbe
        /\ u.NextScheduledQuery = k.NextScheduledQuery
        /\ u.NextScheduledResponse = k.NextScheduledResponse
        /\ u.SuppressProbes = k.SuppressProbes
    BY <1>2, <1>7, UnlockFields
  <2>3. Sound(u, P, A)
    BY <1>6, UnlockSound
  <2>4. Len(frames) = 1 => Awaits(u)
    BY <1>7, UnlockAwaits
  <2> HIDE DEF u
  <2>5. /\ walk # "none" => Walks(u, walk)
        /\ walk = "SendResponses" => Quiet(u, g)
    BY <1>8, <2>2 DEF Walks, Ahead, Quiet, Calm
  <2>6. Depth(walk, g) = Len(frames) - 1 /\ (Depth(walk, g) = 0 <=> Len(frames) = 1)
    BY <1>2, <1>3, <1>5, <2>1 DEF Depth
  <2>7. Good(u, walk, left, g)
    BY <1>1, <1>4, <1>9, <2>2, <2>3, <2>4, <2>5, <2>6 DEF Good, P, A
  <2>8. Timely(m, u)
    BY <1>1, <1>2, <2>2, EngineTypes DEF Timely, Now
  <2>. QED  BY <1>1, <1>10, <2>2, <2>7, <2>8 DEF Engaged
<1>11. CASE frames[Len(frames)] # "call"
  <2>1. walk # "none" /\ Len(frames) = 1
    <3>1. frames[Len(frames)] = "walk"
      BY <1>2, <1>11
    <3>. QED  BY <1>1, <1>2, <3>1 DEF Frames
  <2>2. Depth(walk, g) = 1
    BY <1>5, <2>1 DEF Depth
  <2>3. Good(k, walk, left, g)
    BY <1>1, <1>4, <1>6, <1>7, <1>8, <1>9, <2>1, <2>2 DEF Good, Quiet, P, A
  <2>4. Timely(m, k)
    BY <1>1, <1>2, <1>7, EngineTypes DEF Timely, Now
  <2>. QED  BY <1>1, <1>7, <1>11, <2>3, <2>4 DEF Engaged
<1>. QED  BY <1>10, <1>11

\* The event that comes next lies ahead, unless a callback asked something meanwhile
Moved(k) ==
  HasCache => k.NewQuestions # {} \/ k.NextScheduledEvent >= 1 \/ BlockedProbe(k)

LEMMA UnlockMoved ==
  ASSUME NEW k \in Engine, k.mDNS_busy <= 1,
         k.SuppressSending # NotSet => k.SuppressSending >= 1,
         HasCache /\ k.SuppressSending = NotSet =>
           /\ k.NextCacheCheck >= 1 /\ k.NextScheduledQuery >= 1
           /\ k.NextScheduledProbe >= 1 /\ k.NextScheduledResponse >= 1
  PROVE  Moved(mDNS_Unlock(k))
<1> DEFINE u == mDNS_Unlock(k)
           s == Soonest({k.NextCacheCheck, k.NextScheduledQuery, k.NextScheduledProbe,
                         k.NextScheduledResponse})
<1>1. /\ k.NextCacheCheck \in Int /\ k.NextScheduledQuery \in Int /\ k.NextScheduledProbe \in Int
      /\ k.NextScheduledResponse \in Int /\ k.mDNS_busy \in Int
  BY EngineTypes
<1>2. s \in {k.NextCacheCheck, k.NextScheduledQuery, k.NextScheduledProbe,
            k.NextScheduledResponse, Horizon}
  BY <1>1, SoonestOfFour
<1>3. /\ u.NextScheduledEvent = IF k.NewQuestions # {} THEN 0
                                ELSE IF k.SuppressSending # NotSet THEN k.SuppressSending ELSE s
      /\ u.NewQuestions = k.NewQuestions
  <2>1. ~(k.mDNS_busy > 1)
    BY <1>1
  <2>. QED  BY <2>1, UnlockFields DEF GetNextScheduledEvent
<1> HIDE DEF u, s
<1>4. HasCache /\ k.SuppressSending = NotSet => s >= 1
  BY <1>2, Parameters
<1>5. Moved(u)
  BY <1>3, <1>4 DEF Moved
<1>. QED  BY <1>5 DEF u

LEMMA ExecuteGood ==
  ASSUME Engaged, Execute
  PROVE  /\ Engaged'
         /\ Timely(m, m')
         /\ m'.timenow_last = 0
         /\ frames' = frames
         /\ walk' = "none" => Moved(m')
<1> DEFINE k == mDNS_Lock(m)
<1>1. /\ walk = "none" /\ frames = <<>> /\ frames' = frames
      /\ left \subseteq Record /\ m \in Engine /\ Frames(walk, frames)
      /\ m.mDNS_busy = 0 /\ Awaits(m)
  <2>1. walk = "none" /\ frames = <<>> /\ frames' = frames
    BY DEF Execute
  <2>2. /\ left \subseteq Record /\ Frames(walk, frames) /\ m \in Engine
        /\ m.mDNS_busy = Depth(walk, frames) /\ (Depth(walk, frames) = 0 => Awaits(m))
    BY DEF Engaged, Good, Sound, Typed
  <2>3. Depth(walk, frames) = 0
    BY <2>1, <2>2, DepthFacts
  <2>. QED  BY <2>1, <2>2, <2>3
<1>2. /\ Sound(k, {}, {}) /\ k.timenow_last = 0 /\ k.mDNS_busy = 1 /\ Timely(m, k)
  BY <1>1, LockGood DEF Engaged, Probing, Answering
<1>3. Awaits(k)
  BY <1>1, LockAwaits
<1>4. ASSUME NEW j, Holds(k, j), Sound(j, {}, {}), m' = mDNS_Unlock(j), walk' = walk, left' = left
      PROVE  Engaged' /\ Timely(m, m') /\ m'.timenow_last = 0
  <2>1. Sound(j, Probing(walk, left), Answering(walk, left))
    BY <1>1, <1>4 DEF Probing, Answering
  <2>2. /\ Good(mDNS_Unlock(j), walk, left, frames)
        /\ Timely(m, mDNS_Unlock(j))
        /\ mDNS_Unlock(j).timenow_last = 0
    BY <1>1, <1>4, <2>1, CallGood DEF Engaged
  <2>. QED  BY <1>1, <1>4, <2>2 DEF Engaged
<1> HIDE DEF k
<1>5. k \in Engine /\ k.NextScheduledEvent \in Int
  BY <1>2, EngineTypes DEF Sound, Typed
<1>6. CASE ~Due(k.NextScheduledEvent)
  <2>1. m' = mDNS_Unlock(k) /\ walk' = walk /\ left' = left
    BY <1>6 DEF Execute, k
  <2>2. Holds(k, k)
    BY <1>5 DEF Holds
  <2>3. k.NextScheduledEvent >= 1
    BY <1>5, <1>6 DEF Due
  <2>4. /\ k.SuppressSending # NotSet => k.SuppressSending >= 1
        /\ k.SuppressSending = NotSet =>
             /\ k.NextCacheCheck >= 1 /\ k.NextScheduledQuery >= 1
             /\ k.NextScheduledProbe >= 1 /\ k.NextScheduledResponse >= 1
    <3>1. Now(k) = 0
      BY <1>2 DEF Now
    <3>2. /\ k.SuppressSending # NotSet => k.NextScheduledEvent <= k.SuppressSending
          /\ k.SuppressSending = NotSet =>
               /\ k.NextScheduledEvent <= k.NextCacheCheck
               /\ k.NextScheduledEvent <= k.NextScheduledQuery
               /\ k.NextScheduledEvent <= k.NextScheduledProbe
               /\ k.NextScheduledEvent <= k.NextScheduledResponse
      BY <1>3, <1>5, <2>3, <3>1 DEF Awaits
    <3>3. k.SuppressSending # NotSet => k.SuppressSending \in Int
      BY <1>5, EngineTypes
    <3>4. /\ k.NextCacheCheck \in Int /\ k.NextScheduledQuery \in Int
          /\ k.NextScheduledProbe \in Int /\ k.NextScheduledResponse \in Int
      BY <1>5, EngineTypes
    <3>. QED  BY <1>5, <2>3, <3>2, <3>3, <3>4
  <2>5. k.mDNS_busy <= 1
    BY <1>2
  <2>6. Moved(mDNS_Unlock(k))
    BY <1>5, <2>4, <2>5, UnlockMoved
  <2>. QED  BY <1>1, <1>2, <1>4, <2>1, <2>2, <2>6
<1>7. CASE Due(k.NextScheduledEvent)
  <2>1. PICK known \in SUBSET k.NewQuestions :
          LET k1 == Prepare(k, known)
              k2 == [k1 EXCEPT !.SuppressSending = NotSet]
              k3 == IF Due(k2.NextScheduledQuery) THEN SendQuestions(k2) ELSE k2
          IN IF ~MaySend(k1)
             THEN m' = mDNS_Unlock(k1) /\ UNCHANGED <<walk, left>>
             ELSE /\ walk' = "SendQueries"
                  /\ IF Due(k3.NextScheduledProbe)
                     THEN /\ m' = [k3 EXCEPT !.NextScheduledProbe = Horizon]
                          /\ left' = Registered(k3)
                     ELSE m' = k3 /\ left' = {}
    BY <1>7 DEF Execute, k
  <2> DEFINE k1 == Prepare(k, known)
             k2 == [k1 EXCEPT !.SuppressSending = NotSet]
             k3 == IF Due(k2.NextScheduledQuery) THEN SendQuestions(k2) ELSE k2
             k4 == [k3 EXCEPT !.NextScheduledProbe = Horizon]
  <2>2. /\ Sound(k1, {}, {}) /\ Holds(k, k1) /\ k1 \in Engine
        /\ k1.SuppressProbes = NotSet \/ k1.SuppressProbes >= 1
        /\ HasCache => k1.NextCacheCheck >= 1
        /\ Now(k1) \in Int
    <3>1. /\ Sound(k1, {}, {}) /\ k1.timenow_last = k.timenow_last
          /\ k1.timenow_adjust = k.timenow_adjust /\ k1.mDNS_busy = k.mDNS_busy
          /\ k1.SuppressProbes = NotSet \/ k1.SuppressProbes >= 1
          /\ HasCache => k1.NextCacheCheck >= 1
      BY <1>2, PrepareSound
    <3> HIDE DEF k1
    <3>. QED  BY <3>1, EngineTypes DEF Holds, Sound, Typed
  <2>3. CASE ~MaySend(k1)
    <3>1. m' = mDNS_Unlock(k1) /\ walk' = walk /\ left' = left
      BY <2>1, <2>3
    <3> HIDE DEF k1
    <3>2. k1.SuppressSending # NotSet /\ k1.SuppressSending >= 1
      BY <2>2, <2>3, EngineTypes DEF MaySend, Due
    <3>3. k1.mDNS_busy <= 1
      BY <1>2, <2>2 DEF Holds
    <3>4. Moved(mDNS_Unlock(k1))
      BY <2>2, <3>2, <3>3, UnlockMoved
    <3>. QED  BY <1>1, <1>4, <2>2, <3>1, <3>4
  <2>4. CASE MaySend(k1)
    <3>1. /\ walk' = "SendQueries"
          /\ IF Due(k3.NextScheduledProbe) THEN m' = k4 /\ left' = Registered(k3)
             ELSE m' = k3 /\ left' = {}
      BY <2>1, <2>4
    <3> HIDE DEF k1
    <3>2. /\ Sound(k2, {}, {}) /\ Holds(k, k2) /\ k2.SuppressSending = NotSet
          /\ k2.SuppressProbes = NotSet \/ k2.SuppressProbes >= 1
          /\ HasCache => k2.NextCacheCheck >= 1
      <4>1. /\ k2 \in Engine /\ k2.SuppressSending = NotSet
            /\ k2.timenow_last = k1.timenow_last /\ k2.timenow_adjust = k1.timenow_adjust
            /\ k2.mDNS_busy = k1.mDNS_busy /\ k2.SuppressProbes = k1.SuppressProbes
            /\ k2.NextCacheCheck = k1.NextCacheCheck
            /\ k2.NextScheduledProbe = k1.NextScheduledProbe
            /\ k2.NextScheduledQuery = k1.NextScheduledQuery
            /\ k2.NextScheduledResponse = k1.NextScheduledResponse
            /\ k2.rec = k1.rec /\ k2.qst = k1.qst
        BY <2>2 DEF Engine
      <4> HIDE DEF k2
      <4>2. Now(k2) >= Now(k1) /\ Holding(k1, k2)
        BY <2>2, <4>1, HoldingSame DEF Now, Sound
      <4>3. Sound(k2, {}, {})
        BY <2>2, <4>1, <4>2, SoundSame
      <4>. QED  BY <2>2, <4>1, <4>3 DEF Holds
    <3> HIDE DEF k2
    <3>3. /\ Sound(k3, {}, {}) /\ Holds(k, k3) /\ k3.SuppressSending = NotSet
          /\ k3.SuppressProbes = NotSet \/ k3.SuppressProbes >= 1
          /\ HasCache => k3.NextCacheCheck >= 1
          /\ k3.NextScheduledQuery >= 1
      <4>1. CASE Due(k2.NextScheduledQuery)
        <5>1. /\ Sound(SendQuestions(k2), {}, {}) /\ Kept(k2, SendQuestions(k2))
              /\ SendQuestions(k2).NextScheduledQuery >= 1
              /\ SendQuestions(k2).SuppressProbes = k2.SuppressProbes
          BY <3>2, SendQuestionsSound
        <5>2. k3 = SendQuestions(k2)
          BY <4>1
        <5> HIDE DEF k3
        <5>. QED  BY <3>2, <5>1, <5>2 DEF Holds, Kept
      <4>2. CASE ~Due(k2.NextScheduledQuery)
        <5>1. k2.NextScheduledQuery \in Int /\ k3 = k2
          BY <3>2, <4>2, EngineTypes DEF Sound, Typed
        <5> HIDE DEF k3
        <5>. QED  BY <3>2, <4>2, <5>1 DEF Due
      <4>. QED  BY <4>1, <4>2
    <3> HIDE DEF k3
    <3>4. k3 \in Engine /\ k3.NextScheduledProbe \in Int
      BY <3>3, EngineTypes DEF Sound, Typed
    <3>5. Frames("SendQueries", frames) /\ Depth("SendQueries", frames) = 1
      BY <1>1 DEF Frames, Depth
    <3>6. ASSUME NEW j, NEW l, l \subseteq Record, Sound(j, l, {}), Holds(k, j),
                 Walks(j, "SendQueries"), m' = j, left' = l
          PROVE  Engaged' /\ Timely(m, m') /\ m'.timenow_last = 0
      <4>1. j.mDNS_busy = 1 /\ j.timenow_last = 0
        BY <1>2, <3>6 DEF Holds
      <4>2. Sound(j, Probing("SendQueries", l), Answering("SendQueries", l))
        BY <3>6 DEF Probing, Answering
      <4>3. Good(j, "SendQueries", l, frames)
        BY <3>5, <3>6, <4>1, <4>2 DEF Good
      <4>4. Timely(m, j)
        BY <1>2, <3>6, <4>1 DEF Holds, Timely, Now
      <4>. QED  BY <1>1, <3>1, <3>6, <4>1, <4>3, <4>4 DEF Engaged
    <3>7. CASE Due(k3.NextScheduledProbe)
      <4>1. m' = k4 /\ left' = Registered(k3)
        BY <3>1, <3>7
      <4>2. /\ Holds(k3, k4) /\ k4 \in Engine /\ k4.rec = k3.rec /\ k4.qst = k3.qst
            /\ k4.NextScheduledProbe = Horizon
            /\ k4.NextScheduledQuery = k3.NextScheduledQuery
            /\ k4.NextScheduledResponse = k3.NextScheduledResponse
            /\ k4.SuppressProbes = k3.SuppressProbes
            /\ k4.SuppressSending = k3.SuppressSending /\ k4.NextCacheCheck = k3.NextCacheCheck
        BY <3>4, Parameters DEF Holds, Engine
      <4> HIDE DEF k4
      <4>3. Registered(k3) \subseteq Record
        BY DEF Registered
      <4>4. Typed(k4)
        BY <3>3, <4>2, Parameters
        DEF Sound, Typed, Fits, RecordFits, QuestionFits, APTime, QTime, Holds, Now
      <4>5. Plan(k4, Registered(k3), {})
        <5>1. Plan(k3, {}, {}) /\ Now(k4) = Now(k3)
          BY <3>3, <4>2 DEF Sound, Holds, Now
        <5>2. ASSUME NEW r \in Record, r \notin Registered(k3) PROVE ProbePlanned(k4, r)
          BY <4>2, <5>2 DEF Registered, ProbePlanned
        <5>3. ASSUME NEW r \in Record PROVE AnnouncementPlanned(k4, r) /\ AnswerPlanned(k4, r)
          <6>1. AnnouncementPlanned(k3, r) /\ AnswerPlanned(k3, r)
            BY <5>1 DEF Plan
          <6>. QED  BY <4>2, <5>1, <6>1 
                    DEF AnnouncementPlanned, AnswerPlanned, Planned, HeldBack, APTime
        <5>4. ASSUME NEW q \in Question PROVE QueryPlanned(k4, q)
          <6>1. QueryPlanned(k3, q)
            BY <5>1 DEF Plan
          <6>. QED  BY <4>2, <5>1, <6>1 DEF QueryPlanned, Planned, QTime
        <5>. QED  BY <5>2, <5>3, <5>4 DEF Plan
      <4>6. Sound(k4, Registered(k3), {})
        BY <4>4, <4>5 DEF Sound
      <4>7. Walks(k4, "SendQueries")
        BY <3>3, <4>2, Parameters DEF Walks, Ahead
      <4>8. Holds(k, k4)
        BY <3>3, <4>2 DEF Holds
      <4>. QED  BY <1>1, <3>1, <3>6, <4>1, <4>3, <4>6, <4>7, <4>8
    <3>8. CASE ~Due(k3.NextScheduledProbe)
      <4>1. m' = k3 /\ left' = {}
        BY <3>1, <3>8
      <4>2. k3.NextScheduledProbe >= 1
        BY <3>4, <3>8 DEF Due
      <4>3. Walks(k3, "SendQueries")
        BY <3>3, <4>2 DEF Walks, Ahead
      <4>. QED  BY <1>1, <3>1, <3>3, <3>6, <4>1, <4>3
    <3>. QED  BY <3>7, <3>8
  <2>. QED  BY <2>3, <2>4
<1>. QED  BY <1>6, <1>7

LEMMA WalkFrames ==
  ASSUME NEW w, w # "none"
  PROVE  /\ Frames(w, <<>>) /\ Depth(w, <<>>) = 1
         /\ Frames(w, Append(<<>>, "walk")) /\ Depth(w, Append(<<>>, "walk")) = 1
         /\ Depth("none", <<>>) = 0 /\ Frames("none", <<>>)
<1> DEFINE g == Append(<<>>, "walk")
<1>1. g = <<"walk">>
  OBVIOUS
<1>2. g \in Seq({"walk", "call"}) /\ Len(g) = 1 /\ g[1] = "walk" /\ g # <<>>
  BY <1>1
<1>3. <<>> \in Seq({"walk", "call"}) /\ Len(<<>>) = 0
  OBVIOUS
<1> HIDE DEF g
<1>4. Frames(w, g) /\ Depth(w, g) = 1
  BY <1>2 DEF Frames, Depth
<1>5. /\ Frames(w, <<>>) /\ Depth(w, <<>>) = 1
      /\ Depth("none", <<>>) = 0 /\ Frames("none", <<>>)
  BY <1>3 DEF Frames, Depth
<1>. QED  BY <1>4, <1>5 DEF g

\* A walk that comes to record r
LEMMA WalkGood ==
  ASSUME Engaged, walk # "none", frames = <<>>, NEW j, NEW g, NEW l \in SUBSET Record,
         Sound(j, Probing(walk, l), Answering(walk, l)), Holds(m, j), Walks(j, walk),
         walk = "SendResponses" => Quiet(j, g),
         g \in {<<>>, Append(<<>>, "walk")}
  PROVE  Good(j, walk, l, g) /\ Timely(m, j) /\ j.timenow_last = 0
<1>1. /\ Frames(walk, g) /\ Depth(walk, g) = 1 /\ Depth(walk, frames) = 1
  BY WalkFrames
<1>2. /\ m.mDNS_busy = 1 /\ m.timenow_last = 0 /\ m \in Engine
      /\ walk \in {"none", "SendQueries", "SendResponses"}
  BY <1>1 DEF Engaged, Good, Sound, Typed
<1>3. j.mDNS_busy = 1 /\ j.timenow_last = 0 /\ j.timenow_adjust = m.timenow_adjust
  BY <1>2 DEF Holds
<1>4. Good(j, walk, l, g)
  BY <1>1, <1>2, <1>3 DEF Good
<1>5. m.timenow_adjust \in Int
  BY <1>2, EngineTypes
<1>. QED  BY <1>2, <1>3, <1>4, <1>5 DEF Timely, Now

LEMMA ProbeGood ==
  ASSUME Engaged, Probe
  PROVE  Engaged' /\ Timely(m, m') /\ m'.timenow_last = 0 /\ walk' = walk
<1>1. /\ walk = "SendQueries" /\ frames = <<>> /\ walk' = walk
      /\ m \in Engine /\ Sound(m, left, {}) /\ left \subseteq Record
      /\ Walks(m, walk) /\ Typed(m)
  BY DEF Probe, Walking, Engaged, Good, Sound, Typed, Probing, Answering
<1>2. PICK r \in left :
        /\ left' = left \ {r}
        /\ NotProbing(r) \/ NotYetProbing(r) \/ SendProbe(r) \/ FinishProbing(r)
  BY DEF Probe
<1>3. /\ r \in Record /\ left \ {r} \in SUBSET Record
      /\ m.rec \in [Record -> RecordState] /\ m.rec[r] \in RecordState /\ RecordFits(m, r)
      /\ APTime(m, r) \in Int
  BY <1>1, EngineTypes DEF Typed, Fits
<1>4. ASSUME NEW j, Sound(j, left \ {r}, {}), Holds(m, j), Walks(j, walk), m' = j,
             frames' \in {<<>>, Append(<<>>, "walk")}
      PROVE  Engaged' /\ Timely(m, m') /\ m'.timenow_last = 0
  <2>1. Sound(j, Probing(walk, left \ {r}), Answering(walk, left \ {r}))
    BY <1>1, <1>4 DEF Probing, Answering
  <2>2. walk # "none" /\ left' = left \ {r} /\ left' \in SUBSET Record
    BY <1>1, <1>2, <1>3
  <2>3. Sound(j, Probing(walk, left'), Answering(walk, left'))
    BY <2>1, <2>2
  <2>4. Good(j, walk, left', frames') /\ Timely(m, j) /\ j.timenow_last = 0
    BY <1>1, <1>4, <2>2, <2>3, WalkGood
  <2>. QED  BY <1>1, <1>4, <2>4 DEF Engaged
\* A record that is given a time that lies ahead, or that does not probe
<1>5. ASSUME NEW c \in RecordState, NEW k, NEW k1, Sound(k, left, {}), Kept(m, k),
             Walks(k, walk), k1 = PutRecord(k, r, c),
             k.rec[r].ImmedAnswer = c.ImmedAnswer,
             c.ThisAPInterval >= 1, c.LastAPTime + c.ThisAPInterval >= -Half,
             c.RecordType \notin {"None", "Deregistering"}, BlockFits(c.UpdateBlocked),
             c.RecordType = "Unique" => c.LastAPTime + c.ThisAPInterval >= 1
      PROVE  LET j == SetNextAnnounceProbeTime(k1, r)
             IN Sound(j, left \ {r}, {}) /\ Holds(m, j) /\ Walks(j, walk)
  <2> DEFINE j == SetNextAnnounceProbeTime(k1, r)
  <2>1. c.ImmedAnswer => r \in {} \/ k.rec[r].ImmedAnswer
    BY <1>5
  <2>2. NextSet(left, {}, k, r, c, SetNextAnnounceProbeTime(k1, r))
    BY <1>3, <1>5, <2>1, SetNextSound
  <2>3. /\ Sound(j, left \ {r}, {}) /\ Kept(k, j)
        /\ j.SuppressProbes = k.SuppressProbes
        /\ j.NextScheduledQuery = k.NextScheduledQuery
        /\ j.NextScheduledProbe \in {k.NextScheduledProbe, c.LastAPTime + c.ThisAPInterval}
        /\ c.RecordType # "Unique" => j.NextScheduledProbe = k.NextScheduledProbe
    BY <2>2 DEF NextSet
  <2> HIDE DEF j
  <2>4. Holds(m, j)
    BY <1>5, <2>3 DEF Kept, Holds
  <2>5. Walks(j, walk)
    BY <1>1, <1>5, <2>3 DEF Walks, Ahead, Kept
  <2>. QED  BY <2>3, <2>4, <2>5 DEF j
<1>6. CASE NotProbing(r)
  <2>1. m.rec[r].RecordType # "Unique" /\ m' = m /\ frames' = frames
    BY <1>6 DEF NotProbing
  <2>2. Sound(m, left \ {r}, {})
    BY <1>1, <2>1 DEF Sound, Plan, ProbePlanned
  <2>3. Holds(m, m)
    BY <1>1 DEF Holds
  <2>. QED  BY <1>1, <1>4, <2>1, <2>2, <2>3
<1>7. CASE NotYetProbing(r)
  <2>1. /\ m.rec[r].RecordType = "Unique" /\ APTime(m, r) >= 1
        /\ m' = SetNextAnnounceProbeTime(m, r) /\ frames' = frames
    BY <1>3, <1>7 DEF NotYetProbing, Due
  <2>2. m = PutRecord(m, r, m.rec[r])
    BY <1>1, <1>3 DEF PutRecord, Engine
  <2>3. Kept(m, m)
    BY <1>1 DEF Kept
  <2> DEFINE c == m.rec[r]
  <2>4. /\ c \in RecordState /\ c.ThisAPInterval >= 1 /\ c.LastAPTime + c.ThisAPInterval >= 1
        /\ c.LastAPTime + c.ThisAPInterval >= -Half
        /\ c.RecordType = "Unique" /\ BlockFits(c.UpdateBlocked)
        /\ m = PutRecord(m, r, c) /\ m.rec[r].ImmedAnswer = c.ImmedAnswer
    BY <1>3, <2>1, <2>2 DEF RecordFits, APTime
  <2> HIDE DEF c
  <2>5. LET j == SetNextAnnounceProbeTime(m, r)
        IN Sound(j, left \ {r}, {}) /\ Holds(m, j) /\ Walks(j, walk)
    BY <1>1, <1>5, <2>3, <2>4
  <2>. QED  BY <1>1, <1>4, <2>1, <2>5
<1>8. CASE SendProbe(r)
  <2> DEFINE zero == 0
             count == m.rec[r].ProbeCount - 1
             c == [m.rec[r] EXCEPT !.LastAPTime = zero, !.ProbeCount = count]
             b == TRUE
             k == [m EXCEPT !.sending = b]
             k1 == PutRecord(k, r, c)
  <2>1. m.rec[r].RecordType = "Unique" /\ frames' = frames
    BY <1>8 DEF SendProbe
  <2>2. m' = SetNextAnnounceProbeTime(k1, r)
    <3>1. [m EXCEPT !.rec[r].LastAPTime = zero, !.rec[r].ProbeCount = count, !.sending = b]
          = [m EXCEPT !.rec = [[m.rec EXCEPT ![r].LastAPTime = zero] EXCEPT ![r].ProbeCount = count],
                      !.sending = b]
      BY <1>1 DEF Engine
    <3>2. [[m.rec EXCEPT ![r].LastAPTime = zero] EXCEPT ![r].ProbeCount = count]
          = [m.rec EXCEPT ![r] = c]
      BY <1>3
    <3>3. [m EXCEPT !.rec = [m.rec EXCEPT ![r] = c], !.sending = b] = k1
      BY <1>1 DEF PutRecord, Engine
    <3>4. m' = SetNextAnnounceProbeTime([m EXCEPT !.rec[r].LastAPTime = zero,
                                                 !.rec[r].ProbeCount = count, !.sending = b], r)
      BY <1>8 DEF SendProbe
    <3>. QED  BY <3>1, <3>2, <3>3, <3>4
  <2>3. zero \in Int /\ zero = 0 /\ count \in Int /\ b \in BOOLEAN
    BY <1>3 DEF RecordState
  <2> HIDE DEF zero, count, b
  <2>4. /\ c \in RecordState /\ c.RecordType = "Unique" /\ c.LastAPTime = 0
        /\ c.ThisAPInterval = m.rec[r].ThisAPInterval /\ c.UpdateBlocked = m.rec[r].UpdateBlocked
        /\ c.ImmedAnswer = m.rec[r].ImmedAnswer
    BY <1>3, <2>1, <2>3 DEF RecordState
  <2>5. /\ m.rec[r].ThisAPInterval \in Int /\ m.rec[r].ThisAPInterval >= 1
        /\ BlockFits(m.rec[r].UpdateBlocked)
    BY <1>3, <2>1 DEF RecordFits, RecordState
  <2> HIDE DEF c
  <2>6. /\ c.ThisAPInterval >= 1 /\ c.LastAPTime + c.ThisAPInterval >= 1
        /\ c.LastAPTime + c.ThisAPInterval >= -Half /\ BlockFits(c.UpdateBlocked)
    BY <2>4, <2>5, Parameters
  <2>7. /\ Sound(k, left, {}) /\ Kept(m, k) /\ k.rec = m.rec
        /\ k.NextScheduledProbe = m.NextScheduledProbe
        /\ k.NextScheduledQuery = m.NextScheduledQuery
        /\ k.NextScheduledResponse = m.NextScheduledResponse
        /\ k.SuppressProbes = m.SuppressProbes
    BY <1>1, <2>3, SendingSound
  <2> HIDE DEF k
  <2>8. Walks(k, walk)
    BY <1>1, <2>7 DEF Kept, Walks, Ahead
  <2>9. k1 = PutRecord(k, r, c) /\ k.rec[r].ImmedAnswer = c.ImmedAnswer
    BY <2>4, <2>7
  <2> HIDE DEF k1
  <2>10. LET j == SetNextAnnounceProbeTime(k1, r)
         IN Sound(j, left \ {r}, {}) /\ Holds(m, j) /\ Walks(j, walk)
    BY <1>5, <2>4, <2>6, <2>7, <2>8, <2>9
  <2>. QED  BY <1>1, <1>4, <2>1, <2>2, <2>10
<1>9. CASE FinishProbing(r)
  <2> DEFINE last == -AnnounceInterval
             c == [m.rec[r] EXCEPT !.RecordType = "Verified", !.ThisAPInterval = AnnounceInterval,
                                   !.LastAPTime = last]
             k1 == PutRecord(m, r, c)
             j == SetNextAnnounceProbeTime(k1, r)
             n == j.mDNS_reentrancy + 1
             i == [j EXCEPT !.mDNS_reentrancy = n]
  <2>1. m.rec[r].RecordType = "Unique"
    BY <1>9 DEF FinishProbing
  <2>2. m' = i /\ frames' = Append(<<>>, "walk")
    <3>1. [m EXCEPT !.rec[r].RecordType = "Verified", !.rec[r].ThisAPInterval = AnnounceInterval,
                    !.rec[r].LastAPTime = last]
          = [m EXCEPT !.rec = [[[m.rec EXCEPT ![r].RecordType = "Verified"]
                                    EXCEPT ![r].ThisAPInterval = AnnounceInterval]
                                    EXCEPT ![r].LastAPTime = last]]
      BY <1>1 DEF Engine
    <3>2. [[[m.rec EXCEPT ![r].RecordType = "Verified"] EXCEPT ![r].ThisAPInterval = AnnounceInterval]
               EXCEPT ![r].LastAPTime = last] = [m.rec EXCEPT ![r] = c]
      BY <1>3
    <3>3. [m EXCEPT !.rec[r].RecordType = "Verified", !.rec[r].ThisAPInterval = AnnounceInterval,
                    !.rec[r].LastAPTime = last] = k1
      BY <3>1, <3>2 DEF PutRecord
    <3>4. Callback(SetNextAnnounceProbeTime(
                     [m EXCEPT !.rec[r].RecordType = "Verified",
                               !.rec[r].ThisAPInterval = AnnounceInterval,
                               !.rec[r].LastAPTime = last], r), "walk")
      BY <1>9 DEF FinishProbing
    <3>5. Callback(j, "walk")
      BY <3>3, <3>4
    <3> HIDE DEF j
    <3>. QED  BY <1>1, <3>5 DEF Callback
  <2>3. last \in Int /\ last + AnnounceInterval = 0
    BY Intervals
  <2> HIDE DEF last
  <2>4. /\ c \in RecordState /\ c.RecordType = "Verified" /\ c.LastAPTime = last
        /\ c.ThisAPInterval = AnnounceInterval /\ c.UpdateBlocked = m.rec[r].UpdateBlocked
        /\ m.rec[r].ImmedAnswer = c.ImmedAnswer
    BY <1>3, <2>3, Intervals DEF RecordState
  <2>5. BlockFits(m.rec[r].UpdateBlocked)
    BY <1>3 DEF RecordFits
  <2> HIDE DEF c
  <2>6. /\ c.ThisAPInterval >= 1 /\ c.LastAPTime + c.ThisAPInterval >= -Half
        /\ c.RecordType \notin {"None", "Deregistering"} /\ c.RecordType # "Unique"
        /\ BlockFits(c.UpdateBlocked)
    BY <2>3, <2>4, <2>5, Intervals, Parameters
  <2>7. k1 = PutRecord(m, r, c) /\ Kept(m, m)
    BY <1>1 DEF Kept
  <2> HIDE DEF k1
  <2>8. Sound(j, left \ {r}, {}) /\ Holds(m, j) /\ Walks(j, walk)
    BY <1>1, <1>5, <2>4, <2>6, <2>7
  <2> HIDE DEF j
  <2>9. j \in Engine /\ n \in Int
    BY <2>8, EngineTypes DEF Holds
  <2> HIDE DEF n
  <2>10. Sound(i, left \ {r}, {}) /\ Serves(j, i)
    <3> DEFINE Q == left \ {r}
    <3>1. Sound(j, Q, {})
      BY <2>8
    <3> HIDE DEF Q
    <3>2. Sound([j EXCEPT !.mDNS_reentrancy = n], Q, {}) /\ Serves(j, [j EXCEPT !.mDNS_reentrancy = n])
      BY <2>9, <3>1, CallbackFields
    <3>. QED  BY <3>2 DEF Q
  <2> HIDE DEF i
  <2>11. Holds(m, i) /\ Walks(i, walk)
    BY <2>8, <2>10, ServesWalks DEF Serves, Kept, Holds
  <2>. QED  BY <1>1, <1>4, <2>2, <2>10, <2>11
<1>. QED  BY <1>1, <1>2, <1>6, <1>7, <1>8, <1>9

\* The end of mDNS_Execute: nothing is due any more
LEMMA EndGood ==
  ASSUME Engaged, walk # "none", frames = <<>>, NEW j,
         Sound(j, {}, {}), Holds(m, j), Walks(j, "SendResponses"), Quiet(j, <<>>),
         m' = mDNS_Unlock(j), walk' = "none", left' = {}, frames' = frames
  PROVE  /\ Engaged'
         /\ Timely(m, m')
         /\ m'.timenow_last = 0
         /\ Moved(m')
<1> DEFINE u == mDNS_Unlock(j)
<1>1. /\ Depth(walk, frames) = 1 /\ Depth("none", <<>>) = 0 /\ Frames("none", <<>>)
  BY WalkFrames
<1>2. /\ m.mDNS_busy = 1 /\ m.timenow_last = 0 /\ m \in Engine /\ m.timenow_adjust \in Int
  BY <1>1, EngineTypes DEF Engaged, Good, Sound, Typed
<1>3. /\ j.mDNS_busy = 1 /\ j.timenow_last = 0 /\ j.timenow_adjust = m.timenow_adjust
      /\ j \in Engine
  BY <1>2 DEF Holds
<1>4. Sound(u, {}, {}) /\ Awaits(u)
  BY <1>3, UnlockSound, UnlockAwaits
<1>5. u.mDNS_busy = 0 /\ u.timenow_last = 0 /\ u.timenow_adjust = m.timenow_adjust
  BY <1>3, UnlockFields
<1>6. /\ j.SuppressSending # NotSet => j.SuppressSending >= 1
      /\ HasCache => j.NextCacheCheck >= 1
      /\ j.NextScheduledQuery >= 1 /\ j.NextScheduledResponse >= 1
  BY DEF Walks, Ahead
<1>7. Moved(u)
  <2>1. CASE Calm(j)
    <3>1. j.mDNS_busy <= 1
      BY <1>3
    <3>. QED  BY <1>3, <1>6, <2>1, <3>1, UnlockMoved DEF Calm
  <2>2. CASE BlockedProbe(j)
    <3>1. u.rec = j.rec
      BY <1>3, UnlockFields
    <3> HIDE DEF u
    <3>. QED  BY <2>2, <3>1 DEF Moved, BlockedProbe
  <2>. QED  BY <2>1, <2>2 DEF Quiet
<1> HIDE DEF u
<1>8. Good(u, "none", {}, <<>>)
  BY <1>1, <1>4, <1>5 DEF Good, Probing, Answering
<1>9. Timely(m, u)
  BY <1>2, <1>5 DEF Timely, Now
<1>. QED  BY <1>5, <1>7, <1>8, <1>9 DEF u, Engaged

\* The responses that are due follow the queries
LEMMA QueriesSentGood ==
  ASSUME Engaged, QueriesSent
  PROVE  /\ Engaged'
         /\ Timely(m, m')
         /\ m'.timenow_last = 0
         /\ frames' = frames
         /\ walk' = "none" => Moved(m')
<1> DEFINE s == Suppress(m)
           k == PutOffQueries(s)
<1>1. /\ walk = "SendQueries" /\ frames = <<>> /\ left = {} /\ frames' = frames
      /\ m \in Engine /\ Sound(m, {}, {}) /\ Walks(m, walk)
  BY DEF QueriesSent, Walking, Engaged, Good, Sound, Typed, Probing, Answering
<1>2. /\ Sound(s, {}, {}) /\ s.timenow_last = m.timenow_last
      /\ s.timenow_adjust = m.timenow_adjust /\ s.mDNS_busy = m.mDNS_busy
      /\ s.SuppressSending \in {m.SuppressSending, TenthSecond}
      /\ s.NextCacheCheck = m.NextCacheCheck
      /\ s.NextScheduledProbe = m.NextScheduledProbe
      /\ s.NextScheduledQuery = m.NextScheduledQuery
      /\ s.NextScheduledResponse = m.NextScheduledResponse
      /\ s.SuppressProbes = m.SuppressProbes
  BY <1>1, SuppressSound
<1> HIDE DEF s
<1>3. Ahead(s) /\ s.NextScheduledProbe >= 1 /\ s \in Engine
  BY <1>1, <1>2 DEF Walks, Ahead, Sound, Typed
<1>4. Sound(k, {}, {}) /\ Kept(s, k) /\ k = s
  <2>1. k = s
    BY <1>3, PutOffQueriesSame
  <2> HIDE DEF k
  <2>. QED  BY <1>2, <1>3, <2>1 DEF Kept
<1>5. /\ IF Due(k.NextScheduledResponse)
         THEN /\ \E ends \in SUBSET {r \in Record : Announces(k, r)} : m' = SendResponses(k, ends)
              /\ walk' = "SendResponses"
              /\ left' = Registered(k)
         ELSE /\ m' = mDNS_Unlock(k)
              /\ walk' = "none"
              /\ UNCHANGED left
  BY DEF QueriesSent, s
<1> HIDE DEF k
<1>6. Holds(m, k) /\ k.SuppressSending = s.SuppressSending /\ k.NextCacheCheck = s.NextCacheCheck
  BY <1>2, <1>4 DEF Holds, Kept
<1>7. /\ k.SuppressSending = NotSet \/ k.SuppressSending >= 1
      /\ HasCache => k.NextCacheCheck >= 1
      /\ Ahead(k) /\ k.NextScheduledProbe >= 1
  BY <1>1, <1>2, <1>3, <1>4, <1>6, Parameters DEF Walks
<1>8. CASE Due(k.NextScheduledResponse)
  <2>1. PICK ends \in SUBSET {r \in Record : Announces(k, r)} : m' = SendResponses(k, ends)
    BY <1>5, <1>8
  <2>2. walk' = "SendResponses" /\ left' = Registered(k) /\ Registered(k) \subseteq Record
    BY <1>5, <1>8 DEF Registered
  <2> DEFINE j == SendResponses(k, ends)
             l == Registered(k)
  <2>3. m.timenow_last = 0 /\ m.mDNS_busy = 1 /\ m.timenow_adjust \in Int
    BY <1>1, WalkFrames, EngineTypes DEF Engaged, Good
  <2>4. k.timenow_last = 0
    BY <1>6, <2>3 DEF Holds
  <2>5. /\ Sound(j, {}, l)
        /\ j.timenow_last = k.timenow_last
        /\ j.timenow_adjust = k.timenow_adjust
        /\ j.mDNS_busy = k.mDNS_busy
        /\ j.SuppressSending \in {k.SuppressSending, TenthSecond}
        /\ j.NextCacheCheck = k.NextCacheCheck
        /\ Ahead(j) /\ j.NextScheduledResponse >= 1 /\ Quiet(j, <<>>)
    BY <1>4, <1>7, <2>4, SendResponsesSound
  <2> HIDE DEF j, l
  <2>6. Walks(j, "SendResponses")
    BY <1>7, <2>5, Parameters DEF Walks
  <2>7. j.timenow_last = 0 /\ j.mDNS_busy = 1 /\ j.timenow_adjust = m.timenow_adjust
    BY <1>6, <2>3, <2>5 DEF Holds
  <2>8. Frames("SendResponses", <<>>) /\ Depth("SendResponses", <<>>) = 1
    BY WalkFrames
  <2>9. Good(j, "SendResponses", l, <<>>)
    BY <2>2, <2>5, <2>6, <2>7, <2>8 DEF Good, Probing, Answering, l
  <2>10. Timely(m, j)
    BY <2>3, <2>7 DEF Timely, Now
  <2>. QED  BY <1>1, <2>1, <2>2, <2>7, <2>9, <2>10 DEF Engaged, j, l
<1>9. CASE ~Due(k.NextScheduledResponse)
  <2>1. m' = mDNS_Unlock(k) /\ walk' = "none" /\ left' = {}
    BY <1>1, <1>5, <1>9
  <2>2. k.NextScheduledResponse >= 1
    BY <1>4, <1>9, EngineTypes DEF Due, Kept
  <2>3. Walks(k, "SendResponses") /\ Quiet(k, <<>>)
    BY <1>7, <2>2 DEF Walks, Quiet, Calm
  <2>. QED  BY <1>1, <1>4, <1>6, <2>1, <2>3, EndGood
<1>. QED  BY <1>8, <1>9

\* A record that was answered for is not answered for again; a goodbye that was sent ends
LEMMA CleanUpGood ==
  ASSUME Engaged, CleanUp
  PROVE  Engaged' /\ Timely(m, m') /\ m'.timenow_last = 0 /\ walk' = walk
<1>1. /\ walk = "SendResponses" /\ frames = <<>> /\ walk' = walk
      /\ m \in Engine /\ Sound(m, {}, left) /\ left \subseteq Record
      /\ Walks(m, walk) /\ Typed(m) /\ Quiet(m, <<>>)
  BY DEF CleanUp, Walking, Engaged, Good, Sound, Typed, Probing, Answering
<1>2. PICK r \in left :
        /\ left' = left \ {r}
        /\ CompleteDeregistration(r) \/ ClearAnswer(r)
  BY DEF CleanUp
<1> DEFINE B == left \ {r}
<1>3. /\ r \in Record /\ B \in SUBSET Record /\ left \subseteq B \union {r}
      /\ m.rec \in [Record -> RecordState] /\ m.rec[r] \in RecordState /\ RecordFits(m, r)
      /\ APTime(m, r) \in Int /\ m.mDNS_reentrancy \in Int
      /\ left' = B /\ r \notin B
  BY <1>1, <1>2, EngineTypes DEF Typed, Fits
<1> HIDE DEF B
<1>4. ASSUME NEW j, Sound(j, {}, B), Holds(m, j), Walks(j, walk), Quiet(j, frames'), m' = j,
             frames' \in {<<>>, Append(<<>>, "walk")}
      PROVE  Engaged' /\ Timely(m, m') /\ m'.timenow_last = 0
  <2>1. Sound(j, Probing(walk, left'), Answering(walk, left'))
    BY <1>1, <1>3, <1>4 DEF Probing, Answering
  <2>2. walk # "none" /\ left' \in SUBSET Record
    BY <1>1, <1>3
  <2>4. Good(j, walk, left', frames') /\ Timely(m, j) /\ j.timenow_last = 0
    BY <1>1, <1>4, <2>1, <2>2, WalkGood
  <2>. QED  BY <1>1, <1>4, <2>4 DEF Engaged
<1>5. CASE CompleteDeregistration(r)
  <2> DEFINE j == Delete(m, r)
             n == j.mDNS_reentrancy + 1
             i == [j EXCEPT !.mDNS_reentrancy = n]
  <2>1. m' = i /\ frames' = Append(frames, "walk")
    BY <1>5 DEF CompleteDeregistration, Callback
  <2>2. Sound(j, {} \ {r}, left \ {r}) /\ Serves(m, j)
    BY <1>1, <1>3, DeleteSound
  <2>3. Sound(j, {}, B)
    BY <2>2 DEF B
  <2> HIDE DEF j
  <2>4. n \in Int
    BY <2>2, EngineTypes DEF Serves, Kept
  <2> HIDE DEF n
  <2>5. Sound(i, {}, B) /\ Serves(j, i)
    BY <2>3, <2>4, CallbackFields
  <2> HIDE DEF i
  <2>6. Holds(m, i) /\ Walks(i, walk) /\ Quiet(i, frames')
    <3>1. Calm(m)
      BY <1>1, <1>3, <1>5 DEF CompleteDeregistration, Quiet
    <3>. QED  BY <1>1, <2>2, <2>5, <3>1, ServesWalks DEF Serves, Kept, Holds, Quiet
  <2>. QED  BY <1>1, <1>4, <2>1, <2>5, <2>6
<1>6. CASE ClearAnswer(r)
  <2> DEFINE b == FALSE
             c == [m.rec[r] EXCEPT !.ImmedAnswer = b]
             j == PutRecord(m, r, c)
  <2>1. m' = [m EXCEPT !.rec[r].ImmedAnswer = FALSE] /\ frames' = frames
    BY <1>6 DEF ClearAnswer
  <2>2. m' = j
    BY <2>1, <1>1 DEF PutRecord, Engine
  <2>3. b \in BOOLEAN /\ ~b
    OBVIOUS
  <2> HIDE DEF b
  <2>4. /\ c \in RecordState /\ ~c.ImmedAnswer /\ c.RecordType = m.rec[r].RecordType
        /\ c.ThisAPInterval = m.rec[r].ThisAPInterval /\ c.LastAPTime = m.rec[r].LastAPTime
        /\ c.AnnounceCount = m.rec[r].AnnounceCount /\ c.UpdateBlocked = m.rec[r].UpdateBlocked
    BY <1>3, <2>3 DEF RecordState
  <2> HIDE DEF c
  <2>5. /\ Kept(m, j) /\ j.rec[r] = c
        /\ \A s \in Record : s # r => j.rec[s] = m.rec[s]
        /\ j.NextScheduledProbe = m.NextScheduledProbe
        /\ j.NextScheduledQuery = m.NextScheduledQuery
        /\ j.NextScheduledResponse = m.NextScheduledResponse
        /\ j.SuppressProbes = m.SuppressProbes
        /\ j.qst = m.qst
    BY <1>1, <1>3, <2>4, RecordSet
  <2> HIDE DEF j
  <2>6. RecordFits(j, r)
    BY <1>3, <1>6, <2>4, <2>5 DEF RecordFits, APTime, ClearAnswer
  <2>7. ProbePlanned(j, r) /\ AnnouncementPlanned(j, r) /\ AnswerPlanned(j, r)
    <3>1. ProbePlanned(m, r) /\ AnnouncementPlanned(m, r)
      BY <1>1, <1>3 DEF Sound, Plan
    <3>. QED  BY <2>4, <2>5, <3>1 DEF ProbePlanned, AnnouncementPlanned, Announcing, AnswerPlanned,
                                      APTime, Planned, HeldBack, Now, Kept
  <2>8. /\ j \in Engine /\ j.timenow_last = m.timenow_last
        /\ j.NextScheduledProbe <= m.NextScheduledProbe
        /\ j.NextScheduledProbe >= -Half
        /\ j.NextScheduledResponse <= m.NextScheduledResponse
        /\ {} \subseteq {} \union {r}
    BY <1>1, <2>5, EngineTypes DEF Kept, Typed, Fits
  <2>9. Sound(j, {}, B)
    BY <1>1, <1>3, <2>5, <2>6, <2>7, <2>8, SoundRecord, SMTT(30)
  <2>10. Holds(m, j) /\ Walks(j, walk)
    BY <1>1, <2>5 DEF Kept, Holds, Walks, Ahead
  <2>11. Quiet(j, <<>>)
    <3>1. Calm(m) => Calm(j)
      BY <2>5 DEF Calm, Kept
    <3>2. \A s \in Record : /\ j.rec[s].RecordType = m.rec[s].RecordType
                            /\ j.rec[s].UpdateBlocked = m.rec[s].UpdateBlocked
      BY <2>4, <2>5
    <3>. QED  BY <1>1, <3>1, <3>2 DEF Quiet, BlockedProbe
  <2>. QED  BY <1>1, <1>4, <2>1, <2>2, <2>9, <2>10, <2>11
<1>. QED  BY <1>1, <1>2, <1>5, <1>6

LEMMA ResponsesSentGood ==
  ASSUME Engaged, ResponsesSent
  PROVE  /\ Engaged'
         /\ Timely(m, m')
         /\ m'.timenow_last = 0
         /\ frames' = frames
         /\ walk' = "none"
         /\ Moved(m')
<1> DEFINE j == PutOffResponses(m)
<1>1. /\ walk = "SendResponses" /\ frames = <<>> /\ left = {} /\ frames' = frames
      /\ m \in Engine /\ Sound(m, {}, {}) /\ Walks(m, walk) /\ Quiet(m, <<>>)
      /\ m' = mDNS_Unlock(j) /\ walk' = "none" /\ left' = left
  BY DEF ResponsesSent, Walking, Engaged, Good, Sound, Typed, Probing, Answering
<1>2. m.NextScheduledResponse >= 1
  BY <1>1 DEF Walks
<1>3. j = m
  BY <1>1, <1>2, PutOffResponsesSame
<1> HIDE DEF j
<1>4. Holds(m, j) /\ Walks(j, "SendResponses") /\ Quiet(j, <<>>) /\ Sound(j, {}, {})
  BY <1>1, <1>3 DEF Holds
<1>. QED  BY <1>1, <1>3, <1>4, EndGood

--------------------------------------------------------------------------------
(* The loop *)

LEMMA InitGood ==
  ASSUME Init
  PROVE  Engaged /\ m.timenow_adjust = 0 /\ m.timenow_last = 0
<1>1. /\ m.timenow_last = 0 /\ m.timenow_adjust = 0 /\ m.mDNS_busy = 0
      /\ m.NextScheduledEvent = 0 /\ m.SuppressSending = 0 /\ m.NewQuestions = {}
      /\ m.NextScheduledProbe = Horizon /\ m.NextScheduledQuery = Horizon
      /\ m.rec = [r \in Record |-> Off] /\ m.qst = [q \in Question |-> NotAsked]
      /\ walk = "none" /\ left = {} /\ frames = <<>>
      /\ m.SuppressProbes = NotSet
  BY DEF Init
<1>2. m \in Engine
  <2>1. Off \in RecordState /\ NotAsked \in QuestionState
    BY DEF Off, RecordState, NotAsked, QuestionState
  <2> DEFINE f == [r \in Record |-> Off]
             g == [q \in Question |-> NotAsked]
  <2>2. f \in [Record -> RecordState] /\ g \in [Question -> QuestionState]
    BY <2>1
  <2> HIDE DEF f, g
  <2>3. m = [timenow_last |-> 0, timenow_adjust |-> 0, mDNS_busy |-> 0, mDNS_reentrancy |-> 0,
             NextScheduledEvent |-> 0, SuppressSending |-> 0, NextCacheCheck |-> Horizon,
             NextScheduledQuery |-> Horizon, NextScheduledProbe |-> Horizon,
             NextScheduledResponse |-> Horizon, SuppressProbes |-> NotSet,
             NewQuestions |-> {}, sending |-> FALSE, rec |-> f, qst |-> g]
    BY DEF Init, f, g
  <2>. QED  BY <2>2, <2>3, Parameters DEF Engine
<1>3. Sound(m, {}, {})
  <2>1. \A r \in Record : m.rec[r] = Off /\ APTime(m, r) = 0
    BY <1>1 DEF APTime, Off
  <2>2. \A q \in Question : m.qst[q] = NotAsked
    BY <1>1
  <2>3. \A r \in Record : RecordFits(m, r)
    BY <2>1, Parameters DEF RecordFits, BlockFits, Off
  <2>4. \A q \in Question : QuestionFits(m, q) /\ QueryPlanned(m, q)
    BY <2>2 DEF QuestionFits, QueryPlanned, NotAsked
  <2>5. \A r \in Record :
          ProbePlanned(m, r) /\ AnnouncementPlanned(m, r) /\ AnswerPlanned(m, r)
    BY <2>1 DEF ProbePlanned, AnnouncementPlanned, Announcing, AnswerPlanned, Off
  <2>6. Fits(m)
    BY <1>1, <2>3, <2>4, Parameters DEF Fits
  <2>. QED  BY <1>2, <2>4, <2>5, <2>6 DEF Sound, Typed, Plan
<1>4. Frames("none", <<>>) /\ Depth("none", <<>>) = 0
  BY WalkFrames
<1>5. Awaits(m)
  BY <1>1, Parameters DEF Awaits
<1>. QED  BY <1>1, <1>3, <1>4, <1>5 DEF Engaged, Good, Probing, Answering

\* Time that goes by while the engine rests, forward or back
LEMMA PassGood ==
  ASSUME Engaged, walk = "none", frames = <<>>, NEW d \in Int, d >= 0 \/ m.timenow_last >= 0,
         m' = Pass(m, d), walk' = walk, left' = left, frames' = frames
  PROVE  /\ Engaged'
         /\ m'.timenow_adjust = m.timenow_adjust
         /\ Now(m') <= Now(m) + (IF d < 0 THEN -d ELSE 0)
         /\ m'.NextScheduledEvent >= m.NextScheduledEvent - d
         /\ d = 0 /\ m.timenow_last = 0 => m'.timenow_last = 0
<1> DEFINE j == Pass(m, d)
<1>1. Frames("none", <<>>) /\ Depth("none", <<>>) = 0
  <2>1. <<>> \in Seq({"walk", "call"}) /\ Len(<<>>) = 0
    OBVIOUS
  <2>. QED  BY <2>1 DEF Frames, Depth
<1>2. /\ Sound(m, {}, {}) /\ m \in Engine /\ m.mDNS_busy = 0 /\ Awaits(m)
      /\ left \subseteq Record
  BY <1>1 DEF Engaged, Good, Sound, Typed, Probing, Answering
<1>3. /\ j.timenow_last = Later(m.timenow_last, d) /\ j.timenow_adjust = m.timenow_adjust
      /\ j.mDNS_busy = m.mDNS_busy
      /\ j.NextScheduledEvent = Later(m.NextScheduledEvent, d)
  BY <1>2, PassFields
<1>4. Sound(j, {}, {}) /\ Awaits(j)
  BY <1>2, PassSound, PassAwaits
<1> HIDE DEF j
<1>5. Good(j, "none", left, <<>>)
  BY <1>1, <1>2, <1>3, <1>4 DEF Good, Probing, Answering
<1>6. /\ m.timenow_last \in Int /\ m.NextScheduledEvent \in Int
      /\ Later(m.timenow_last, d) \in Int
      /\ Later(m.timenow_last, d) = m.timenow_last - d \/ Later(m.timenow_last, d) = -Half
      /\ Later(m.NextScheduledEvent, d) >= m.NextScheduledEvent - d
  BY <1>2, EngineTypes, LaterFacts
<1>7. Now(j) <= Now(m) + (IF d < 0 THEN -d ELSE 0)
  <2>1. -Half <= 0 /\ -Half \in Int
    BY Parameters
  <2> DEFINE t == Later(m.timenow_last, d)
             b == -Half
  <2>2. t \in Int /\ (t = m.timenow_last - d \/ t = b) /\ b <= 0 /\ b \in Int
    BY <1>6, <2>1
  <2>3. j.timenow_last = t
    BY <1>3
  <2> HIDE DEF t, b
  <2>4. CASE t = b
    BY <1>6, <2>2, <2>3, <2>4 DEF Now
  <2>5. CASE t = m.timenow_last - d
    BY <1>6, <2>2, <2>3, <2>5 DEF Now
  <2>. QED  BY <2>2, <2>4, <2>5
<1>8. d = 0 /\ m.timenow_last = 0 => j.timenow_last = 0
  BY <1>3, Parameters DEF Later
<1>. QED  BY <1>3, <1>5, <1>6, <1>7, <1>8 DEF Engaged, j

\* By how much the clock was set back, if it was set by d
Back(d) == IF d < 0 THEN -d ELSE 0

\* The event the loop waits for, or its least sleep
Event(k) == IF k.NextScheduledEvent < 1 THEN 1 ELSE k.NextScheduledEvent

\* mDNS_Execute runs to its end before the loop goes on, and clients before the next round
Resting ==
  /\ walk # "none" => loop \in {"executing", "again"}
  /\ walk = "none" /\ frames # <<>> => loop \in {"packet", "request"}

\* The engine has taken its time from a clock that was set back by no more than that
Corrected ==
  /\ m.timenow_adjust >= 0
  /\ m.timenow_adjust + Now(m) <= Back(skew)
  /\ loop = "again" => m.timenow_last = 0
  /\ loop = "select" /\ skew = 0 => m.timenow_last = 0

\* The sleep that is planned ends with the event
Wakes ==
  /\ timeout \in Nat /\ skew \in Int /\ late \in Int
  /\ loop = "select" => timeout <= Event(m) + Abs(skew)
  /\ LateBySkew

MovedOn == loop = "again" /\ AtRest => Moved(m)

LoopInv ==
  /\ Engaged
  /\ Resting
  /\ Corrected
  /\ Wakes
  /\ MovedOn

LEMMA SkewFacts ==
  ASSUME NEW d \in Int
  PROVE  Abs(d) \in Nat /\ Back(d) \in Nat /\ Back(d) <= Abs(d)
BY DEF Abs, Back

LEMMA TimelyInv ==
  ASSUME m \in Engine, m' \in Engine, skew \in Int, Corrected, Timely(m, m'),
         m'.timenow_last = 0, skew' = skew
  PROVE  Corrected'
<1>1. /\ m.timenow_adjust \in Int /\ m'.timenow_adjust \in Int /\ Now(m) \in Int
      /\ Now(m') \in Int /\ Back(skew) \in Int
  BY EngineTypes, SkewFacts
<1>2. /\ m'.timenow_adjust >= m.timenow_adjust
      /\ m'.timenow_adjust + Now(m') <= m.timenow_adjust + Now(m)
  BY DEF Timely
<1>3. m.timenow_adjust >= 0 /\ m.timenow_adjust + Now(m) <= Back(skew)
  BY DEF Corrected
<1>4. m'.timenow_adjust >= 0 /\ m'.timenow_adjust + Now(m') <= Back(skew)
  BY <1>1, <1>2, <1>3
<1>. QED  BY <1>4 DEF Corrected

\* mDNS_Execute begins
LEMMA ExecuteInv ==
  ASSUME LoopInv, Execute, loop' \in {"executing", "again"},
         late' = 0, skew' = skew, timeout' = timeout
  PROVE  LoopInv'
<1>1. /\ Engaged' /\ Timely(m, m') /\ m'.timenow_last = 0 /\ frames' = frames
      /\ walk' = "none" => Moved(m')
  BY ExecuteGood DEF LoopInv
<1>2. frames = <<>>
  BY DEF Execute
<1>3. /\ m \in Engine /\ m' \in Engine
  BY <1>1 DEF LoopInv, Engaged, Good, Sound, Typed
<1>4. skew \in Int /\ Corrected /\ timeout \in Nat
  BY DEF LoopInv, Wakes
<1>5. Corrected'
  BY <1>1, <1>3, <1>4, TimelyInv
<1>6. MovedOn' /\ Resting'
  BY <1>1, <1>2 DEF MovedOn, Resting, AtRest
<1>7. Abs(skew') \in Nat
  BY <1>4, SkewFacts
<1>8. late' = 0 /\ timeout' = timeout /\ skew' = skew /\ loop' # "select"
  OBVIOUS
<1>9. late' <= Abs(skew')
  <2>1. 0 <= Abs(skew')
    BY <1>7
  <2>. QED  BY <1>8, <2>1
<1>10. Wakes'
  <2>1. timeout' \in Nat /\ skew' \in Int /\ late' \in Int
    BY <1>4, <1>8
  <2>. QED  BY <1>8, <1>9, <2>1 DEF Wakes, LateBySkew
<1>. QED  BY <1>1, <1>5, <1>6, <1>10 DEF LoopInv

\* What the clients and packets do, leaves the loop where it is
LEMMA ServesInv ==
  ASSUME LoopInv, Engaged', Timely(m, m'), m'.timenow_last = 0,
         UNCHANGED <<timeout, skew, late>>, loop' # "select", Resting', MovedOn'
  PROVE  LoopInv'
<1>1. /\ m \in Engine /\ m' \in Engine
  BY DEF LoopInv, Engaged, Good, Sound, Typed
<1>2. skew \in Int /\ timeout \in Nat /\ late \in Int /\ LateBySkew /\ Corrected
  BY DEF LoopInv, Wakes
<1>3. Corrected'
  BY <1>1, <1>2, TimelyInv
<1>4. Wakes'
  BY <1>2 DEF Wakes, LateBySkew
<1>. QED  BY <1>3, <1>4 DEF LoopInv

\* The engine as it is while the loop goes on
LEMMA UnchangedInv ==
  ASSUME LoopInv, UNCHANGED <<m, walk, left, frames>>
  PROVE  Engaged' /\ Timely(m, m') /\ AtRest' = AtRest
<1>1. m \in Engine
  BY DEF LoopInv, Engaged, Good, Sound, Typed
<1>2. m.timenow_adjust \in Int /\ Now(m) \in Int
  BY <1>1, EngineTypes
<1>3. Timely(m, m')
  BY <1>2 DEF Timely
<1>. QED  BY <1>3 DEF LoopInv, Engaged, AtRest

\* The sleep is no longer than what remains until the event
LEMMA SelectInv ==
  ASSUME LoopInv, Select
  PROVE  LoopInv'
<1>1. /\ loop = "again" /\ AtRest /\ loop' = "select"
      /\ UNCHANGED <<m, walk, left, frames, skew, late>>
      /\ timeout' = Least(timeout, Remaining)
  BY DEF Select, vars
<1>2. /\ m \in Engine /\ m.timenow_last = 0 /\ m.timenow_adjust >= 0
      /\ m.timenow_adjust + Now(m) <= Back(skew)
      /\ timeout \in Nat /\ skew \in Int /\ late \in Int /\ LateBySkew
  BY <1>1 DEF LoopInv, Engaged, Good, Sound, Typed, Corrected, Wakes
<1>3. /\ m.timenow_adjust \in Int /\ m.NextScheduledEvent \in Int /\ Now(m) = 0
  BY <1>2, EngineTypes DEF Now
<1>4. m.timenow_adjust <= Abs(skew)
  BY <1>2, <1>3, SkewFacts
<1>5. Remaining \in Nat /\ Remaining <= Event(m) + Abs(skew)
  BY <1>2, <1>3, <1>4 DEF Remaining, Event, Abs
<1>6. timeout' \in Nat /\ timeout' <= Event(m) + Abs(skew)
  <2> USE <1>2, <1>3, <1>5 DEF Least
  <2>2. Event(m) + Abs(skew) \in Int
    BY DEF Event, Abs
  <2>3. timeout' \in Nat /\ timeout' <= Remaining
    <3>1. timeout' = IF timeout < Remaining THEN timeout ELSE Remaining
      BY <1>1
    <3>. QED  BY <3>1
  <2> DEFINE e == Event(m) + Abs(skew)
  <2>4. e \in Int /\ Remaining <= e
    BY <2>2
  <2> HIDE DEF e
  <2>5. timeout' <= e
    BY <2>3, <2>4
  <2>. QED  BY <2>3, <2>5 DEF e
<1>7. Wakes'
  BY <1>1, <1>2, <1>6 DEF Wakes, LateBySkew, Event, Abs
<1>8. Corrected'
  BY <1>1, <1>2 DEF Corrected
<1>9. Resting' /\ MovedOn'
  BY <1>1 DEF Resting, MovedOn, AtRest
<1>. QED  BY <1>1, <1>7, <1>8, <1>9, UnchangedInv DEF LoopInv

\* Select sleeps
LEMMA WaitInv ==
  ASSUME LoopInv, NEW d \in Nat, d <= timeout, Wait(d), loop' \in {"top", "ready"}
  PROVE  LoopInv'
<1>1. /\ loop = "select" /\ m' = Pass(m, d) /\ timeout' = 0
      /\ UNCHANGED <<walk, left, frames, skew>>
      /\ late' = IF d > Event(m) THEN d - Event(m) ELSE 0
  BY DEF Wait, Event
<1>2. walk = "none" /\ frames = <<>>
  BY <1>1 DEF LoopInv, Resting
<1>3. d \in Int /\ d >= 0
  OBVIOUS
<1>4. /\ Engaged' /\ m'.timenow_adjust = m.timenow_adjust
      /\ Now(m') <= Now(m) + (IF d < 0 THEN -d ELSE 0)
  BY <1>1, <1>2, <1>3, PassGood DEF LoopInv
<1>5. /\ m \in Engine /\ m' \in Engine
  BY <1>4 DEF LoopInv, Engaged, Good, Sound, Typed
<1>6. /\ m.timenow_adjust \in Int /\ Now(m) \in Int /\ Now(m') \in Int
      /\ m.NextScheduledEvent \in Int
  BY <1>5, EngineTypes
<1>7. /\ m.timenow_adjust >= 0 /\ m.timenow_adjust + Now(m) <= Back(skew)
      /\ timeout \in Nat /\ skew \in Int /\ timeout <= Event(m) + Abs(skew)
  BY <1>1 DEF LoopInv, Corrected, Wakes
<1>8. Back(skew) \in Int /\ Event(m) \in Int /\ Abs(skew) \in Nat
  BY <1>6, <1>7 DEF Back, Event, Abs
<1>9. m'.timenow_adjust >= 0 /\ m'.timenow_adjust + Now(m') <= Back(skew)
  BY <1>3, <1>4, <1>6, <1>7, <1>8
<1>10. Corrected'
  BY <1>1, <1>9 DEF Corrected
<1>11. late' \in Int /\ late' <= Abs(skew)
  BY <1>1, <1>3, <1>7, <1>8
<1>12. Wakes'
  BY <1>1, <1>7, <1>11 DEF Wakes, LateBySkew
<1>13. Resting' /\ MovedOn'
  BY <1>1, <1>2 DEF Resting, MovedOn
<1>. QED  BY <1>4, <1>10, <1>12, <1>13 DEF LoopInv

\* The clock is set while the loop sleeps
LEMMA SetClockInv ==
  ASSUME LoopInv, SetClock
  PROVE  LoopInv'
<1>1. PICK d \in Steps : m' = Pass(m, d) /\ skew' = d
  BY DEF SetClock
<1>2. /\ loop = "select" /\ loop' = loop /\ skew = 0
      /\ UNCHANGED <<walk, left, frames, timeout, late>>
  BY DEF SetClock
<1>3. d \in Int
  BY LoopAssumption
<1>4. walk = "none" /\ frames = <<>> /\ m.timenow_last = 0
  BY <1>2 DEF LoopInv, Resting, Corrected
<1>5. d >= 0 \/ m.timenow_last >= 0
  BY <1>4
<1>6. /\ Engaged' /\ m'.timenow_adjust = m.timenow_adjust
      /\ Now(m') <= Now(m) + (IF d < 0 THEN -d ELSE 0)
      /\ m'.NextScheduledEvent >= m.NextScheduledEvent - d
      /\ d = 0 /\ m.timenow_last = 0 => m'.timenow_last = 0
  BY <1>1, <1>2, <1>3, <1>4, <1>5, PassGood DEF LoopInv
<1>7. /\ m \in Engine /\ m' \in Engine
  BY <1>6 DEF LoopInv, Engaged, Good, Sound, Typed
<1>8. /\ m.timenow_adjust \in Int /\ Now(m) \in Int /\ Now(m') \in Int
      /\ m.NextScheduledEvent \in Int /\ m'.NextScheduledEvent \in Int
  BY <1>7, EngineTypes
<1>9. /\ m.timenow_adjust >= 0 /\ m.timenow_adjust + Now(m) <= Back(skew)
      /\ timeout \in Nat /\ late \in Int /\ timeout <= Event(m) + Abs(skew) /\ late <= Abs(skew)
  BY <1>2 DEF LoopInv, Corrected, Wakes, LateBySkew
<1>10. m.timenow_adjust + Now(m) <= 0 /\ timeout <= Event(m) /\ late <= 0
  BY <1>2, <1>8, <1>9 DEF Back, Abs, Event
<1>11. Corrected'
  <2>1. Now(m) = 0
    BY <1>4 DEF Now
  <2>2. m.timenow_adjust = 0 /\ m'.timenow_adjust = 0
    BY <1>6, <1>8, <1>9, <1>10, <2>1
  <2>3. Now(m') <= Back(d)
    <3>1. Now(m') <= 0 + Back(d)
      BY <1>6, <2>1 DEF Back
    <3>. QED  BY <1>3, <1>8, <3>1, SkewFacts
  <2>4. m'.timenow_adjust >= 0 /\ m'.timenow_adjust + Now(m') <= Back(skew')
    BY <1>1, <1>8, <2>2, <2>3
  <2>. QED  BY <1>1, <1>2, <1>4, <1>6, <2>4 DEF Corrected
<1>12. timeout <= Event(m') + Abs(d) /\ late <= Abs(d)
  BY <1>3, <1>6, <1>8, <1>9, <1>10 DEF Event, Abs
<1>13. Wakes'
  BY <1>1, <1>2, <1>3, <1>9, <1>12 DEF Wakes, LateBySkew
<1>14. Resting' /\ MovedOn'
  BY <1>2, <1>4 DEF Resting, MovedOn
<1>. QED  BY <1>6, <1>11, <1>13, <1>14 DEF LoopInv

\* What the proofs below rest on, whatever clients call from callbacks and whenever the clock
\* is set: the lock is held once for mDNS_Execute or for each call under way, the event is no
\* later than what is planned, and the clock is corrected by no more than it was set back
THEOREM LoopInvariant == LoopSpec => []LoopInv
<1>1. LoopInit => LoopInv
  <2>1. SUFFICES ASSUME LoopInit PROVE LoopInv
    OBVIOUS
  <2>2. Engaged /\ m.timenow_adjust = 0 /\ m.timenow_last = 0
    BY <2>1, InitGood DEF LoopInit
  <2>3. /\ loop = "top" /\ timeout = 0 /\ skew = 0 /\ late = 0 /\ walk = "none" /\ frames = <<>>
    BY <2>1 DEF LoopInit, Init
  <2>. QED  BY <2>2, <2>3 DEF LoopInv, Resting, Corrected, Wakes, LateBySkew, MovedOn, Back, Abs, Now
<1>2. LoopInv /\ [LoopNext]_allVars => LoopInv'
  <2>1. SUFFICES ASSUME LoopInv, [LoopNext]_allVars PROVE LoopInv'
    OBVIOUS
  <2>2. CASE UNCHANGED allVars
    <3>1. /\ UNCHANGED <<m, walk, left, frames, loop, timeout, skew, late>>
      BY <2>2 DEF allVars, vars, loopVars
    <3>2. Engaged' /\ AtRest' = AtRest
      BY <2>1, <3>1, UnchangedInv
    <3>. QED  BY <2>1, <3>1, <3>2 DEF LoopInv, Resting, Corrected, Wakes, LateBySkew, MovedOn, Event
  <2>4. ASSUME UNCHANGED <<m, walk, left, frames, skew, late>>, timeout' \in Nat,
               loop' \in {"fdset", "top"}, AtRest
        PROVE  LoopInv'
    <3>1. Engaged' /\ AtRest' = AtRest
      BY <2>1, <2>4, UnchangedInv
    <3>2. Corrected'
      BY <2>1, <2>4 DEF LoopInv, Corrected
    <3>3. Wakes'
      BY <2>1, <2>4 DEF LoopInv, Wakes, LateBySkew
    <3>4. Resting' /\ MovedOn'
      BY <2>4 DEF Resting, MovedOn, AtRest
    <3>. QED  BY <3>1, <3>2, <3>3, <3>4 DEF LoopInv
  <2>5. CASE Top
    <3>1. CASE gotData
      <4>1. /\ UNCHANGED <<m, walk, left, frames, skew, late>> /\ timeout' = 0 /\ loop' = "fdset"
            /\ loop = "top"
        BY <2>5, <3>1 DEF Top, vars
      <4>2. AtRest
        BY <2>1, <4>1 DEF LoopInv, Resting, AtRest
      <4>. QED  BY <2>4, <4>1, <4>2
    <3>2. CASE ~gotData
      <4>1. Call_mDNS_Execute("executing")
        BY <2>5, <3>2 DEF Top
      <4>. QED  BY <2>1, <4>1, ExecuteInv DEF Call_mDNS_Execute
    <3>. QED  BY <3>1, <3>2
  <2>6. CASE PlanWait
    <3>1. /\ UNCHANGED <<m, walk, left, frames, skew, late>> /\ timeout' = Remaining
          /\ loop' = "fdset" /\ AtRest
      BY <2>6 DEF PlanWait, vars
    <3>2. m.NextScheduledEvent \in Int /\ m.timenow_adjust \in Int
      BY <2>1, EngineTypes DEF LoopInv, Engaged, Good, Sound, Typed
    <3>3. timeout' \in Nat
      BY <3>1, <3>2 DEF Remaining
    <3>. QED  BY <2>4, <3>1, <3>3
  <2>7. CASE mDNSPosixGetFDSet
    BY <2>1, <2>7, ExecuteInv DEF mDNSPosixGetFDSet, Call_mDNS_Execute
  <2>8. CASE Select
    BY <2>1, <2>8, SelectInv
  <2>9. CASE TimesOut
    <3>1. Wait(timeout) /\ loop' = "top" /\ timeout \in Nat
      BY <2>1, <2>9 DEF TimesOut, LoopInv, Wakes
    <3>. QED  BY <2>1, <3>1, WaitInv
  <2>10. CASE RoundEnds
    <3>1. /\ UNCHANGED <<m, walk, left, frames, skew, late, timeout>> /\ loop' = "top"
          /\ loop \in {"packet", "request"} /\ frames = <<>>
      BY <2>10 DEF RoundEnds, vars
    <3>2. AtRest /\ timeout' \in Nat
      BY <2>1, <3>1 DEF LoopInv, Resting, AtRest, Wakes
    <3>. QED  BY <2>4, <3>1, <3>2
  <2>11. CASE DataReady
    <3>1. PICK d \in Arrivals : d <= timeout /\ Wait(d)
      BY <2>11 DEF DataReady
    <3>2. d \in Nat /\ loop' = "ready"
      BY <2>11, LoopAssumption DEF DataReady
    <3>. QED  BY <2>1, <3>1, <3>2, WaitInv
  <2>12. CASE Packet
    <3>1. /\ loop = "ready" /\ PacketComes /\ loop' = "packet"
          /\ UNCHANGED <<walk, timeout, skew, late>>
      BY <2>12 DEF Packet
    <3>2. walk = "none" /\ frames = <<>>
      BY <2>1, <3>1 DEF LoopInv, Resting
    <3>3. Engaged' /\ Timely(m, m') /\ m'.timenow_last = 0
      BY <2>1, <3>1, <3>2, PacketComesGood DEF LoopInv
    <3>4. Resting' /\ MovedOn'
      BY <3>1, <3>2 DEF Resting, MovedOn
    <3>. QED  BY <2>1, <3>1, <3>3, <3>4, ServesInv
  <2>13. CASE Request
    <3>1. /\ loop \in {"ready", "packet"} /\ ClientCalls /\ loop' = "request"
          /\ UNCHANGED <<walk, timeout, skew, late>>
      BY <2>13 DEF Request
    <3>2. walk = "none"
      BY <2>1, <3>1 DEF LoopInv, Resting
    <3>3. Engaged' /\ Timely(m, m') /\ m'.timenow_last = 0
      BY <2>1, <3>1, <3>2, ClientCallsGood DEF LoopInv
    <3>4. Resting' /\ MovedOn'
      BY <3>1, <3>2 DEF Resting, MovedOn
    <3>. QED  BY <2>1, <3>1, <3>3, <3>4, ServesInv
  <2>14. CASE Reentrant
    <3>1. /\ frames # <<>> /\ ClientCalls
          /\ UNCHANGED <<walk, loop, timeout, skew, late>>
      BY <2>14 DEF Reentrant
    <3>2. /\ Engaged' /\ Timely(m, m') /\ m'.timenow_last = 0
          /\ frames' \in {frames, Append(frames, "call")}
      BY <2>1, <3>1, ClientCallsGood DEF LoopInv
    <3>3. /\ walk # "none" => loop \in {"executing", "again"}
          /\ walk = "none" => loop \in {"packet", "request"}
      BY <2>1, <3>1 DEF LoopInv, Resting
    <3>4. walk \in {"none", "SendQueries", "SendResponses"}
      BY <2>1 DEF LoopInv, Engaged, Good
    <3>5. Resting' /\ MovedOn' /\ loop' # "select"
      BY <3>1, <3>3, <3>4 DEF Resting, MovedOn, AtRest
    <3>. QED  BY <2>1, <3>1, <3>2, <3>5, ServesInv
  <2>15. CASE CallbackReturns
    <3>1. /\ Return /\ frames # <<>> /\ walk' = walk
          /\ UNCHANGED <<loop, timeout, skew, late>>
      BY <2>15 DEF CallbackReturns, Return, loopVars
    <3>2. Engaged' /\ Timely(m, m') /\ m'.timenow_last = 0
      BY <2>1, <3>1, ReturnGood DEF LoopInv
    <3>3. /\ walk # "none" => loop \in {"executing", "again"}
          /\ walk = "none" => loop \in {"packet", "request"}
      BY <2>1, <3>1 DEF LoopInv, Resting
    <3>4. Resting' /\ MovedOn' /\ loop' # "select"
      BY <3>1, <3>3 DEF Resting, MovedOn, AtRest
    <3>. QED  BY <2>1, <3>1, <3>2, <3>4, ServesInv
  <2>16. CASE Walk
    <3>1. /\ Probe \/ QueriesSent \/ CleanUp \/ ResponsesSent
          /\ UNCHANGED <<loop, timeout, skew, late>>
      BY <2>16 DEF Walk, loopVars
    <3>2. walk # "none" /\ frames = <<>>
      BY <3>1 DEF Probe, QueriesSent, CleanUp, ResponsesSent, Walking
    <3>3. loop \in {"executing", "again"}
      BY <2>1, <3>2 DEF LoopInv, Resting
    <3>4. /\ Engaged' /\ Timely(m, m') /\ m'.timenow_last = 0
          /\ walk' = walk \/ frames' = <<>>
          /\ walk' = "none" => Moved(m')
      BY <2>1, <3>1, <3>2, ProbeGood, QueriesSentGood, CleanUpGood, ResponsesSentGood DEF LoopInv
    <3>5. Resting'
      BY <3>1, <3>2, <3>3, <3>4 DEF Resting
    <3>6. MovedOn'
      BY <3>4 DEF MovedOn, AtRest
    <3>. QED  BY <2>1, <3>1, <3>3, <3>4, <3>5, <3>6, ServesInv
  <2>17. CASE SetClock
    BY <2>1, <2>17, SetClockInv
  <2>. QED  BY <2>1, <2>2, <2>5, <2>6, <2>7, <2>8, <2>9, <2>10, <2>11, <2>12, <2>13, <2>14, <2>15,
               <2>16, <2>17 DEF LoopNext, Loop
<1>. QED  BY <1>1, <1>2, PTL DEF LoopSpec

\* The loop sleeps past an event by no more than the clock was set, whatever records there
\* are, whatever they depend on and however often they are updated
THEOREM LateOnlyBySkew == LoopSpec => []LateBySkew
<1>1. LoopInv => LateBySkew
  BY DEF LoopInv, Wakes
<1>. QED  BY <1>1, LoopInvariant, PTL

\* At rest the lock is free and the event is no later than what is planned
LEMMA Rests ==
  ASSUME LoopInv, AtRest, m.timenow_last <= 0
  PROVE  /\ m \in Engine /\ Now(m) = 0 /\ m.mDNS_busy = 0 /\ Awaits(m)
         /\ Plan(m, {}, {})
<1>1. m \in Engine /\ Frames(walk, frames) /\ m.mDNS_busy = Depth(walk, frames)
  BY DEF LoopInv, Engaged, Good, Sound, Typed
<1>2. Depth(walk, frames) = 0
  BY <1>1, DepthFacts DEF AtRest
<1>3. Awaits(m) /\ Plan(m, {}, {})
  BY <1>2 DEF LoopInv, Engaged, Good, Sound, Probing, Answering, AtRest
<1>4. Now(m) = 0
  BY <1>1, EngineTypes DEF Now
<1>. QED  BY <1>1, <1>2, <1>3, <1>4

LEMMA EventFacts ==
  ASSUME NEW k \in Engine, k = m, Awaits(k), Now(k) = 0
  PROVE  EventScheduled
<1>1. CASE m.NewQuestions # {}
  BY <1>1 DEF Awaits, EventScheduled, Scheduled, Due
<1>2. CASE m.NewQuestions = {} /\ m.SuppressSending # NotSet
  BY <1>2 DEF EventScheduled
<1>3. CASE m.NewQuestions = {} /\ m.SuppressSending = NotSet
  BY <1>3 DEF Awaits, EventScheduled, Scheduled
<1>. QED  BY <1>1, <1>2, <1>3

\* Whenever the engine rests its lock is free, and the event the loop waits for is no later
\* than the time of the next query, probe or response, whatever was registered, asked,
\* updated or deregistered, also from callbacks (mDNS_Unlock and GetNextScheduledEvent)
THEOREM EventIsNext ==
  LoopSpec => [](AtRest /\ m.timenow_last <= 0 => m.mDNS_busy = 0 /\ EventScheduled)
<1>1. LoopInv => (AtRest /\ m.timenow_last <= 0 => m.mDNS_busy = 0 /\ EventScheduled)
  BY Rests, EventFacts
<1>. QED  BY <1>1, LoopInvariant, PTL

\* No record needs another to be valid
NoDependencies == \A r \in Record : Needs[r] = {}

LEMMA WorkFacts ==
  ASSUME LoopInv, AtRest, m.timenow_last <= 0
  PROVE  /\ m.mDNS_busy = 0
         /\ ProbesScheduled /\ AnswersScheduled /\ QueriesScheduled /\ EventScheduled
         /\ NoDependencies => AnnouncementsScheduled
<1>1. /\ m \in Engine /\ Now(m) = 0 /\ m.mDNS_busy = 0 /\ Awaits(m) /\ Plan(m, {}, {})
  BY Rests
<1>2. /\ m.NextScheduledProbe \in Int /\ m.NextScheduledResponse \in Int
  BY <1>1, EngineTypes
<1>3. ASSUME NEW next, NEW t, Planned(m, next, t) PROVE Scheduled(next, t)
  BY <1>1, <1>3 DEF Planned, Scheduled, Due
<1>4. ASSUME NEW r \in Record, NEW next \in Int, NEW delay \in Int, HeldBack(m, r, next, delay)
      PROVE  Held(r, next, delay)
  <2>1. Now(m) + delay = delay
    BY <1>1
  <2>. QED  BY <1>4, <2>1 DEF HeldBack, Held
<1>5. ProbesScheduled
  <2>1. ASSUME NEW r \in Record, m.rec[r].RecordType = "Unique"
        PROVE  \/ Scheduled(m.NextScheduledProbe, APTime(m, r))
               \/ Held(r, m.NextScheduledProbe, 0)
    <3>1. ProbePlanned(m, r)
      BY <1>1 DEF Plan
    <3>. QED  BY <1>2, <1>3, <1>4, <2>1, <3>1 DEF ProbePlanned
  <2>. QED  BY <2>1 DEF ProbesScheduled
<1>6. ASSUME NoDependencies PROVE AnnouncementsScheduled
  <2>1. ASSUME NEW r \in Record, m.rec[r].AnnounceCount > 0, ResourceRecordIsValidAnswer(m, r)
        PROVE  \/ Scheduled(m.NextScheduledResponse, APTime(m, r))
               \/ Held(r, m.NextScheduledResponse, AnnounceDelay)
    <3>1. Needs[r] = {} /\ Announcing(m.rec[r]) /\ AnnouncementPlanned(m, r)
      BY <1>1, <1>6, <2>1, Valid DEF NoDependencies, Announcing, Plan
    <3>. QED  BY <1>2, <1>3, <1>4, <3>1, Delays DEF AnnouncementPlanned
  <2>. QED  BY <2>1 DEF AnnouncementsScheduled
<1>7. AnswersScheduled
  <2>1. ASSUME NEW r \in Record, m.rec[r].ImmedAnswer PROVE Scheduled(m.NextScheduledResponse, TenthSecond)
    <3>1. m.NextScheduledResponse <= Now(m) + TenthSecond
      BY <1>1, <2>1 DEF Plan, AnswerPlanned
    <3>2. TenthSecond \in Int
      BY Parameters
    <3>. QED  BY <1>1, <3>1, <3>2 DEF Scheduled
  <2>. QED  BY <2>1 DEF AnswersScheduled
<1>8. QueriesScheduled
  BY <1>1, <1>3 DEF Plan, QueryPlanned, QueriesScheduled, Asked
<1>9. EventScheduled
  BY <1>1, EventFacts
<1>. QED  BY <1>1, <1>5, <1>6, <1>7, <1>8, <1>9

\* No probe, answer or query is forgotten: what the loop waits for is no later than the next
\* one of any record or question, whatever records depend on (SetNextAnnounceProbeTime,
\* SetNextQueryTime and what else brings a scheduled time forward).  A probe whose update was
\* blocked is held back, but not for longer than others
THEOREM ProbesAndQueriesAreScheduled ==
  LoopSpec => [](AtRest /\ m.timenow_last <= 0
                   => ProbesScheduled /\ AnswersScheduled /\ QueriesScheduled /\ EventScheduled)
<1>1. LoopInv => (AtRest /\ m.timenow_last <= 0
                   => ProbesScheduled /\ AnswersScheduled /\ QueriesScheduled /\ EventScheduled)
  BY WorkFacts
<1>. QED  BY <1>1, LoopInvariant, PTL

\* Nothing that must be done is forgotten, announcements neither, if no record depends on
\* another (if one does, see VerifiedIsScheduled), however often records are updated
THEOREM WorkIsScheduled ==
  ASSUME NoDependencies
  PROVE  LoopSpec => []WorkScheduled
<1>1. LoopInv => WorkScheduled
  BY WorkFacts DEF WorkScheduled
<1>. QED  BY <1>1, LoopInvariant, PTL

\* An update is blocked only if a record has few credits left: with more, nothing is held
\* back, neither in WorkIsScheduled nor in NeverSpinning
THEOREM NothingIsHeld ==
  ASSUME \A c \in Credits : c > 5
  PROVE  LoopSpec => [](\A r \in Record : m.rec[r].UpdateBlocked = NotSet)
<1>1. ~Blocks
  BY Parameters DEF Blocks
<1>2. LoopInv => \A r \in Record : m.rec[r].UpdateBlocked = NotSet
  BY <1>1 DEF LoopInv, Engaged, Good, Sound, Typed, Fits, RecordFits, BlockFits
<1>. QED  BY <1>2, LoopInvariant, PTL

LEMMA MovedFacts ==
  ASSUME HasCache, LoopInv
  PROVE  NeverSpins
<1>1. SUFFICES ASSUME loop = "again", AtRest
      PROVE  \/ m.NextScheduledEvent > 0
             \/ m.NewQuestions # {}
             \/ \E r \in Record : m.rec[r].RecordType = "Unique" /\ m.rec[r].UpdateBlocked # NotSet
  BY DEF NeverSpins
<1>2. m.NewQuestions # {} \/ m.NextScheduledEvent >= 1 \/ BlockedProbe(m)
  BY <1>1 DEF LoopInv, MovedOn, Moved
<1>3. m.NextScheduledEvent \in Int
  BY EngineTypes DEF LoopInv, Engaged, Good, Sound, Typed
<1>. QED  BY <1>2, <1>3 DEF BlockedProbe

\* What mDNS_Execute does moves the time of all that was due, but for a probe whose update
\* is blocked: the loop does not go around without sleeping, whatever records there are,
\* whatever they depend on and however often they are updated (with a cache; if there is
\* none, nobody moves NextCacheCheck)
THEOREM NeverSpinning ==
  ASSUME HasCache
  PROVE  LoopSpec => []NeverSpins
<1>1. LoopInv => NeverSpins
  BY MovedFacts
<1>. QED  BY <1>1, LoopInvariant, PTL

--------------------------------------------------------------------------------
(* How far times fall behind *)

\* A record the engine has something to do about
Counts(c) == c.RecordType = "Unique" \/ Announcing(c)

\* A record that waits for its goodbye, with announcements left
Leaving(c) == c.RecordType = "Deregistering" /\ c.AnnounceCount > 0

\* No time is further behind than f
Low(k, f) ==
  /\ k.NextScheduledEvent >= f
  /\ k.NextCacheCheck >= f
  /\ k.NextScheduledQuery >= f
  /\ k.NextScheduledProbe >= f
  /\ k.NextScheduledResponse >= f
  /\ \A r \in Record : Counts(k.rec[r]) => APTime(k, r) >= f
  /\ \A q \in Question : k.qst[q].asked => QTime(k, q) >= f

\* How deep times lie when the engine rests, and those of records that wait for their goodbye,
\* when all may be late by c
Deep(c) == TenthSecond + 2 * c

Bottom(c) == TenthSecond + 2 * Deep(c)

\* The next response sends the goodbye
Gap(k, r, c) == APTime(k, r) >= k.NextScheduledResponse - (TenthSecond + Deep(c))

\* A query has made the next response due, and put off the goodbye with it
Wanted(k, w, r, c) ==
  /\ k.NextScheduledResponse <= Now(k)
  /\ IF w # "none" THEN APTime(k, r) >= -Bottom(c)
     ELSE IF k.SuppressSending = NotSet THEN APTime(k, r) >= Now(k) - (TenthSecond + c + Deep(c))
     ELSE APTime(k, r) >= k.SuppressSending - TenthSecond - (TenthSecond + c + Deep(c))

\* The times of records that wait for their goodbye: those the walk comes to yet, and others
Farewell(k, w, A, c) ==
  \A r \in Record : Leaving(k.rec[r]) =>
    IF r \in A THEN APTime(k, r) >= -Bottom(c) ELSE Gap(k, r, c) \/ Wanted(k, w, r, c)

LEMMA LowMore ==
  ASSUME NEW k \in Engine, NEW f \in Int, NEW g \in Int, Low(k, f), g <= f
  PROVE  Low(k, g)
<1>1. /\ k.NextScheduledEvent \in Int /\ k.NextCacheCheck \in Int /\ k.NextScheduledQuery \in Int
      /\ k.NextScheduledProbe \in Int /\ k.NextScheduledResponse \in Int
      /\ \A r \in Record : APTime(k, r) \in Int
      /\ \A q \in Question : QTime(k, q) \in Int
  BY EngineTypes
<1>. QED  BY <1>1 DEF Low

\* Time passes for all of them
LEMMA PassLow ==
  ASSUME NEW k \in Engine, Fits(k), NEW f \in Int, Low(k, f), NEW d \in Int, NEW g \in Int,
         g <= f - d \/ g <= -Half
  PROVE  Low(Pass(k, d), g)
<1> DEFINE p == Pass(k, d)
<1>1. /\ k.NextScheduledEvent \in Int /\ k.NextCacheCheck \in Int /\ k.NextScheduledQuery \in Int
      /\ k.NextScheduledProbe \in Int /\ k.NextScheduledResponse \in Int
  BY EngineTypes
<1>2. p \in Engine
  BY PassFields
<1>3. \A t \in Int : t >= f => Later(t, d) >= g
  <2>1. ASSUME NEW t \in Int, t >= f PROVE Later(t, d) >= g
    <3>1. Later(t, d) \in Int /\ Later(t, d) >= -Half /\ Later(t, d) >= t - d
      BY LaterFacts
    <3>. QED  BY <2>1, <3>1, Parameters
  <2>. QED  BY <2>1
<1>4. /\ p.NextScheduledEvent >= g /\ p.NextCacheCheck >= g /\ p.NextScheduledQuery >= g
      /\ p.NextScheduledProbe >= g /\ p.NextScheduledResponse >= g
  BY <1>1, <1>3, PassFields DEF Low
<1>5. ASSUME NEW r \in Record, Counts(p.rec[r]) PROVE APTime(p, r) >= g
  <2>1. k.rec[r] \in RecordState /\ RecordFits(k, r) /\ p.rec[r] = RecordLater(k.rec[r], d)
    BY EngineTypes, PassFields DEF Fits
  <2>2. /\ p.rec[r].RecordType = k.rec[r].RecordType
        /\ p.rec[r].AnnounceCount = k.rec[r].AnnounceCount
        /\ p.rec[r].ThisAPInterval = k.rec[r].ThisAPInterval
        /\ p.rec[r].RecordType # "None"
             => p.rec[r].LastAPTime >= -Half /\ p.rec[r].LastAPTime >= k.rec[r].LastAPTime - d
    BY <2>1, RecordLaterFacts
  <2>3. Counts(k.rec[r]) /\ p.rec[r].RecordType # "None"
    BY <1>5, <2>2 DEF Counts, Announcing
  <2>4. APTime(k, r) >= f
    BY <2>3 DEF Low
  <2>5. /\ k.rec[r].LastAPTime \in Int /\ k.rec[r].ThisAPInterval \in Int
        /\ p.rec[r].LastAPTime \in Int /\ k.rec[r].ThisAPInterval >= 0
    BY <1>2, <2>1, EngineTypes DEF RecordState, RecordFits
  <2>. QED  BY <2>2, <2>3, <2>4, <2>5, Parameters DEF APTime
<1>6. ASSUME NEW q \in Question, p.qst[q].asked PROVE QTime(p, q) >= g
  <2>1. k.qst[q] \in QuestionState /\ QuestionFits(k, q) /\ p.qst[q] = QuestionLater(k.qst[q], d)
    BY EngineTypes, PassFields DEF Fits
  <2>2. /\ k.qst[q].asked
        /\ p.qst[q].ThisQInterval = k.qst[q].ThisQInterval
        /\ p.qst[q].LastQTime >= -Half /\ p.qst[q].LastQTime >= k.qst[q].LastQTime - d
    BY <1>6, <2>1, QuestionLaterFacts
  <2>3. QTime(k, q) >= f
    BY <2>2 DEF Low
  <2>4. /\ k.qst[q].LastQTime \in Int /\ k.qst[q].ThisQInterval \in Int
        /\ p.qst[q].LastQTime \in Int /\ k.qst[q].ThisQInterval >= 0
    BY <1>2, <2>1, <2>2, EngineTypes DEF QuestionState, QuestionFits
  <2>. QED  BY <2>2, <2>3, <2>4, Parameters DEF QTime
<1>. QED  BY <1>4, <1>5, <1>6 DEF Low

\* The next response and a goodbye come nearer together
LEMMA PassGap ==
  ASSUME NEW k \in Engine, Fits(k), NEW c \in Nat, NEW d \in Int, NEW r \in Record,
         Leaving(Pass(k, d).rec[r])
  PROVE  /\ Leaving(k.rec[r])
         /\ APTime(Pass(k, d), r) >= APTime(k, r) - d
         /\ Gap(k, r, c) => Gap(Pass(k, d), r, c)
<1> DEFINE p == Pass(k, d)
<1>1. k.NextScheduledResponse \in Int /\ p \in Engine
  BY EngineTypes, PassFields
<1>2. /\ p.NextScheduledResponse \in Int
      /\ p.NextScheduledResponse = k.NextScheduledResponse - d \/ p.NextScheduledResponse = -Half
  <2>1. p.NextScheduledResponse = Later(k.NextScheduledResponse, d)
    BY PassFields
  <2> HIDE DEF p
  <2>. QED  BY <1>1, <2>1, LaterFacts
<1>3. k.rec[r] \in RecordState /\ RecordFits(k, r) /\ p.rec[r] = RecordLater(k.rec[r], d)
  BY EngineTypes, PassFields DEF Fits
<1>4. /\ p.rec[r].RecordType = k.rec[r].RecordType
      /\ p.rec[r].AnnounceCount = k.rec[r].AnnounceCount
      /\ p.rec[r].ThisAPInterval = k.rec[r].ThisAPInterval
      /\ p.rec[r].RecordType # "None"
           => p.rec[r].LastAPTime >= -Half /\ p.rec[r].LastAPTime >= k.rec[r].LastAPTime - d
  BY <1>3, RecordLaterFacts
<1>5. Leaving(k.rec[r]) /\ p.rec[r].RecordType # "None"
  BY <1>4 DEF Leaving
<1>6. /\ k.rec[r].LastAPTime \in Int /\ k.rec[r].ThisAPInterval \in Int
      /\ p.rec[r].LastAPTime \in Int /\ k.rec[r].ThisAPInterval >= 0
  BY <1>1, <1>3, EngineTypes DEF RecordState, RecordFits
<1>7. APTime(p, r) >= APTime(k, r) - d /\ APTime(p, r) >= -Half
  BY <1>4, <1>5, <1>6, Parameters DEF APTime
<1>8. APTime(p, r) \in Int /\ APTime(k, r) \in Int
  BY <1>1, EngineTypes
<1>9. Gap(k, r, c) => Gap(p, r, c)
  BY <1>1, <1>2, <1>7, <1>8, Parameters DEF Gap, Deep
<1>. QED  BY <1>5, <1>7, <1>9

\* What has yet to come is no lower than what is planned, if nothing is held back
LEMMA AheadLow ==
  ASSUME NEW k, Sound(k, {}, {}), Now(k) = 0, ~Blocks, NoDependencies,
         NEW e \in Int, e >= 1, NEW g \in Int, g <= e,
         k.NextScheduledEvent >= g, k.NextCacheCheck >= e, k.NextScheduledQuery >= e,
         k.NextScheduledProbe >= e, k.NextScheduledResponse >= e
  PROVE  Low(k, g)
<1>1. /\ k \in Engine /\ Fits(k) /\ Plan(k, {}, {})
  BY DEF Sound, Typed
<1>2. /\ k.NextScheduledQuery \in Int /\ k.NextScheduledProbe \in Int
      /\ k.NextScheduledResponse \in Int /\ k.NextCacheCheck \in Int
  BY <1>1, EngineTypes
<1>3. ASSUME NEW r \in Record, Counts(k.rec[r]) PROVE APTime(k, r) >= g
  <2>1. ProbePlanned(k, r) /\ AnnouncementPlanned(k, r) /\ k.rec[r].UpdateBlocked = NotSet
    BY <1>1 DEF Plan, Fits, RecordFits, BlockFits
  <2>2. Needs[r] = {} /\ APTime(k, r) \in Int
    BY <1>1, EngineTypes DEF NoDependencies
  <2>3. \/ Planned(k, k.NextScheduledProbe, APTime(k, r))
        \/ Planned(k, k.NextScheduledResponse, APTime(k, r))
    BY <1>3, <2>1, <2>2 DEF Counts, ProbePlanned, AnnouncementPlanned, HeldBack
  <2>. QED  BY <1>2, <2>2, <2>3 DEF Planned
<1>4. ASSUME NEW q \in Question, k.qst[q].asked PROVE QTime(k, q) >= g
  <2>1. Planned(k, k.NextScheduledQuery, QTime(k, q)) /\ QTime(k, q) \in Int
    BY <1>1, <1>4, EngineTypes DEF Plan, QueryPlanned
  <2>. QED  BY <1>2, <2>1 DEF Planned
<1>. QED  BY <1>2, <1>3, <1>4 DEF Low

--------------------------------------------------------------------------------
(* What functions leave no further behind *)

\* No time falls further behind than the others were, nor does that of a goodbye
Settles(k, j) ==
  /\ k \in Engine /\ j \in Engine
  /\ j.NextScheduledResponse <= k.NextScheduledResponse
  /\ \A f \in Int : f <= 0 /\ Low(k, f) =>
       /\ Low(j, f)
       /\ \A r \in Record : Leaving(j.rec[r]) =>
            \/ Leaving(k.rec[r]) /\ APTime(j, r) = APTime(k, r)
            \/ APTime(j, r) >= f /\ j.NextScheduledResponse <= TenthSecond

LEMMA SettlesOn ==
  ASSUME NEW k, NEW i, NEW j, Settles(k, i), Settles(i, j)
  PROVE  Settles(k, j)
<1>1. /\ k.NextScheduledResponse \in Int /\ i.NextScheduledResponse \in Int
      /\ j.NextScheduledResponse \in Int
  BY EngineTypes DEF Settles
<1>2. j.NextScheduledResponse <= k.NextScheduledResponse
  BY <1>1 DEF Settles
<1>3. ASSUME NEW f \in Int, f <= 0, Low(k, f)
      PROVE  /\ Low(j, f)
             /\ \A r \in Record : Leaving(j.rec[r]) =>
                  \/ Leaving(k.rec[r]) /\ APTime(j, r) = APTime(k, r)
                  \/ APTime(j, r) >= f /\ j.NextScheduledResponse <= TenthSecond
  <2>1. Low(i, f) /\ Low(j, f)
    BY <1>3 DEF Settles
  <2>2. ASSUME NEW r \in Record, Leaving(j.rec[r])
        PROVE  \/ Leaving(k.rec[r]) /\ APTime(j, r) = APTime(k, r)
               \/ APTime(j, r) >= f /\ j.NextScheduledResponse <= TenthSecond
    <3>1. \/ Leaving(i.rec[r]) /\ APTime(j, r) = APTime(i, r)
          \/ APTime(j, r) >= f /\ j.NextScheduledResponse <= TenthSecond
      BY <1>3, <2>1, <2>2 DEF Settles
    <3>2. Leaving(i.rec[r]) => \/ Leaving(k.rec[r]) /\ APTime(i, r) = APTime(k, r)
                               \/ APTime(i, r) >= f /\ i.NextScheduledResponse <= TenthSecond
      BY <1>3 DEF Settles
    <3>3. j.NextScheduledResponse <= i.NextScheduledResponse
      BY DEF Settles
    <3>. QED  BY <1>1, <3>1, <3>2, <3>3, Parameters
  <2>. QED  BY <2>1, <2>2
<1>. QED  BY <1>2, <1>3 DEF Settles

\* One record is changed
LEMMA RecordSettles ==
  ASSUME NEW k \in Engine, NEW j \in Engine, NEW r \in Record,
         j.NextScheduledEvent = k.NextScheduledEvent,
         j.NextCacheCheck = k.NextCacheCheck,
         j.NextScheduledQuery = k.NextScheduledQuery,
         \A s \in Record : s # r => j.rec[s] = k.rec[s],
         j.qst = k.qst,
         j.NextScheduledResponse <= k.NextScheduledResponse,
         \A f \in Int : f <= 0 /\ Low(k, f) =>
           /\ j.NextScheduledProbe >= f
           /\ j.NextScheduledResponse >= f
           /\ Counts(j.rec[r]) => APTime(j, r) >= f
           /\ Leaving(j.rec[r]) =>
                \/ Leaving(k.rec[r]) /\ APTime(j, r) = APTime(k, r)
                \/ APTime(j, r) >= f /\ j.NextScheduledResponse <= TenthSecond
  PROVE  Settles(k, j)
<1>0. /\ k.NextScheduledResponse \in Int /\ j.NextScheduledResponse \in Int
      /\ \A s \in Record : APTime(k, s) \in Int /\ APTime(j, s) \in Int
  BY EngineTypes
<1>1. \A s \in Record : s # r => APTime(j, s) = APTime(k, s)
  BY DEF APTime
<1>2. ASSUME NEW f \in Int, f <= 0, Low(k, f) PROVE Low(j, f)
  <2>1. ASSUME NEW s \in Record, Counts(j.rec[s]) PROVE APTime(j, s) >= f
    <3>1. CASE s = r
      BY <1>2, <2>1, <3>1
    <3>2. CASE s # r
      BY <1>1, <1>2, <2>1, <3>2 DEF Low
    <3>. QED  BY <3>1, <3>2
  <2>2. ASSUME NEW q \in Question, j.qst[q].asked PROVE QTime(j, q) >= f
    BY <1>2, <2>2 DEF Low, QTime
  <2>. QED  BY <1>2, <2>1, <2>2 DEF Low
<1>3. ASSUME NEW f \in Int, f <= 0, Low(k, f), NEW s \in Record, Leaving(j.rec[s])
      PROVE  \/ Leaving(k.rec[s]) /\ APTime(j, s) = APTime(k, s)
             \/ APTime(j, s) >= f /\ j.NextScheduledResponse <= TenthSecond
  <2>1. CASE s = r
    BY <1>3, <2>1
  <2>2. CASE s # r
    BY <1>1, <1>3, <2>2
  <2>. QED  BY <2>1, <2>2
<1>. QED  BY <1>2, <1>3 DEF Settles

\* Two engines whose records and questions are the same
LEMMA TimesSettle ==
  ASSUME NEW k \in Engine, NEW j \in Engine, j.rec = k.rec, j.qst = k.qst,
         j.NextScheduledResponse <= k.NextScheduledResponse,
         \A f \in Int : f <= 0 /\ Low(k, f) =>
           /\ j.NextScheduledEvent >= f /\ j.NextCacheCheck >= f /\ j.NextScheduledQuery >= f
           /\ j.NextScheduledProbe >= f /\ j.NextScheduledResponse >= f
  PROVE  Settles(k, j)
<1>0. /\ k.NextScheduledResponse \in Int /\ j.NextScheduledResponse \in Int
      /\ \A s \in Record : APTime(k, s) \in Int /\ APTime(j, s) \in Int
  BY EngineTypes
<1>1. /\ \A s \in Record : APTime(j, s) = APTime(k, s)
      /\ \A q \in Question : QTime(j, q) = QTime(k, q)
  BY DEF APTime, QTime
<1>2. ASSUME NEW f \in Int, f <= 0, Low(k, f) PROVE Low(j, f)
  BY <1>1, <1>2 DEF Low
<1>3. \A r \in Record : Leaving(j.rec[r]) => Leaving(k.rec[r]) /\ APTime(j, r) = APTime(k, r)
  BY <1>1
<1>. QED  BY <1>2, <1>3 DEF Settles

\* Only questions are changed
LEMMA QuestionsSettle ==
  ASSUME NEW k \in Engine, NEW j \in Engine, j.rec = k.rec,
         j.NextScheduledEvent = k.NextScheduledEvent,
         j.NextCacheCheck = k.NextCacheCheck,
         j.NextScheduledProbe = k.NextScheduledProbe,
         j.NextScheduledResponse = k.NextScheduledResponse,
         \A f \in Int : f <= 0 /\ Low(k, f) =>
           /\ j.NextScheduledQuery >= f
           /\ \A q \in Question : j.qst[q].asked => QTime(j, q) >= f
  PROVE  Settles(k, j)
<1>1. \A s \in Record : APTime(j, s) = APTime(k, s)
  BY DEF APTime
<1>2. ASSUME NEW f \in Int, f <= 0, Low(k, f) PROVE Low(j, f)
  BY <1>1, <1>2 DEF Low
<1>3. \A r \in Record : Leaving(j.rec[r]) => Leaving(k.rec[r]) /\ APTime(j, r) = APTime(k, r)
  BY <1>1
<1>4. j.NextScheduledResponse <= k.NextScheduledResponse
  BY EngineTypes
<1>. QED  BY <1>2, <1>3, <1>4 DEF Settles

\* What InitializeLastAPTime does, field by field
LEMMA InitializeFields ==
  ASSUME NEW k \in Engine, NEW r \in Record, NEW c \in RecordState,
         c.ThisAPInterval >= 0, NEW k1, k1 = PutRecord(k, r, c)
  PROVE  LET j == InitializeLastAPTime(k1, r)
             t == First(k) + FirstDelay(c)
         IN /\ Kept(k, j)
            /\ \A s \in Record : s # r => j.rec[s] = k.rec[s]
            /\ j.rec[r].RecordType = c.RecordType
            /\ j.rec[r].AnnounceCount = c.AnnounceCount
            /\ APTime(j, r) = t
            /\ j.qst = k.qst
            /\ j.NextScheduledQuery = k.NextScheduledQuery
            /\ j.NextScheduledProbe \in {k.NextScheduledProbe, Sooner(k.NextScheduledProbe, t)}
            /\ j.NextScheduledResponse
                 \in {k.NextScheduledResponse, Sooner(k.NextScheduledResponse, t)}
            /\ First(k) \in Int /\ FirstDelay(c) \in Nat
<1> DEFINE first == First(k)
           delay == FirstDelay(c)
           t == first + delay - c.ThisAPInterval
           ks == [k EXCEPT !.SuppressProbes = first]
           d == [c EXCEPT !.LastAPTime = t]
           k2 == PutRecord(ks, r, d)
           j == InitializeLastAPTime(k1, r)
<1>1. first \in Int
  BY EngineTypes, Intervals DEF First, Sooner
<1>2. delay \in Nat
  <2>1. c.ThisAPInterval \div 2 >= 0 /\ c.ThisAPInterval \div 2 \in Int
    BY DEF RecordState
  <2>. QED  BY <2>1, Intervals DEF FirstDelay
<1>3. j = SetNextAnnounceProbeTime(k2, r)
  <2>1. /\ k1.SuppressProbes = k.SuppressProbes
        /\ k1.NextScheduledProbe = k.NextScheduledProbe
        /\ k1.NextScheduledQuery = k.NextScheduledQuery
        /\ k1.rec[r] = c
    BY RecordSet
  <2>2. j = SetNextAnnounceProbeTime([k1 EXCEPT !.SuppressProbes = first, !.rec[r].LastAPTime = t], r)
    BY <2>1 DEF InitializeLastAPTime, First, FirstDelay
  <2>3. [k1 EXCEPT !.SuppressProbes = first, !.rec[r].LastAPTime = t] = k2
    <3>1. k.rec \in [Record -> RecordState]
      BY EngineTypes
    <3> HIDE DEF first, delay, t
    <3>2. [[k.rec EXCEPT ![r] = c] EXCEPT ![r].LastAPTime = t] = [k.rec EXCEPT ![r] = d]
      BY <3>1
    <3>. QED  BY <3>1, <3>2 DEF PutRecord, Engine
  <2>. QED  BY <2>2, <2>3
<1> HIDE DEF first, delay
<1>4. t \in Int /\ c.ThisAPInterval \in Int /\ t + c.ThisAPInterval = first + delay
  BY <1>1, <1>2 DEF RecordState
<1> HIDE DEF t
<1>5. /\ ks \in Engine /\ Kept(k, ks) /\ ks.rec = k.rec /\ ks.qst = k.qst
      /\ ks.NextScheduledProbe = k.NextScheduledProbe
      /\ ks.NextScheduledQuery = k.NextScheduledQuery
      /\ ks.NextScheduledResponse = k.NextScheduledResponse
  BY <1>1 DEF Engine, Kept
<1>6. d \in RecordState /\ d.LastAPTime + d.ThisAPInterval = first + delay
  BY <1>4 DEF RecordState
<1> HIDE DEF ks, d
<1>7. k2 = PutRecord(ks, r, d)
  OBVIOUS
<1> HIDE DEF k2, j
<1>8. /\ Kept(ks, k2) /\ k2.rec[r] = d /\ k2.qst = ks.qst
      /\ \A s \in Record : s # r => k2.rec[s] = ks.rec[s]
      /\ k2.NextScheduledProbe = ks.NextScheduledProbe
      /\ k2.NextScheduledQuery = ks.NextScheduledQuery
      /\ k2.NextScheduledResponse = ks.NextScheduledResponse
  BY <1>5, <1>6, <1>7, RecordSet
<1>9. k2 \in Engine /\ APTime(k2, r) = first + delay
  BY <1>6, <1>8 DEF Kept, APTime
<1>10. /\ Kept(k2, j) /\ j.rec = k2.rec /\ j.qst = k2.qst
       /\ j.NextScheduledProbe
            \in {k2.NextScheduledProbe, Sooner(k2.NextScheduledProbe, first + delay)}
       /\ j.NextScheduledQuery = k2.NextScheduledQuery
       /\ j.NextScheduledResponse
            \in {k2.NextScheduledResponse, Sooner(k2.NextScheduledResponse, first + delay)}
  BY <1>3, <1>9, SetNextFields
<1>11. j.rec[r] = d
  BY <1>8, <1>10
<1>12. Kept(k, j)
  BY <1>5, <1>8, <1>10 DEF Kept
<1>13. /\ \A s \in Record : s # r => j.rec[s] = k.rec[s]
       /\ j.qst = k.qst
       /\ j.NextScheduledQuery = k.NextScheduledQuery
       /\ j.NextScheduledProbe \in {k.NextScheduledProbe, Sooner(k.NextScheduledProbe, first + delay)}
       /\ j.NextScheduledResponse
            \in {k.NextScheduledResponse, Sooner(k.NextScheduledResponse, first + delay)}
  BY <1>5, <1>8, <1>10
<1>14. APTime(j, r) = first + delay
  BY <1>6, <1>11 DEF APTime
<1>15. j.rec[r].RecordType = c.RecordType /\ j.rec[r].AnnounceCount = c.AnnounceCount
  BY <1>11 DEF RecordState, d
<1>. QED  BY <1>1, <1>2, <1>12, <1>13, <1>14, <1>15 DEF j, first, delay

LEMMA InitializeSettles ==
  ASSUME NEW k \in Engine, NEW r \in Record, NEW c \in RecordState,
         c.ThisAPInterval >= 0, c.RecordType # "Deregistering", NEW k1, k1 = PutRecord(k, r, c)
  PROVE  Settles(k, InitializeLastAPTime(k1, r))
<1> DEFINE j == InitializeLastAPTime(k1, r)
           t == First(k) + FirstDelay(c)
<1>1. /\ Kept(k, j)
      /\ \A s \in Record : s # r => j.rec[s] = k.rec[s]
      /\ j.rec[r].RecordType = c.RecordType
      /\ APTime(j, r) = t
      /\ j.qst = k.qst
      /\ j.NextScheduledQuery = k.NextScheduledQuery
      /\ j.NextScheduledProbe \in {k.NextScheduledProbe, Sooner(k.NextScheduledProbe, t)}
      /\ j.NextScheduledResponse \in {k.NextScheduledResponse, Sooner(k.NextScheduledResponse, t)}
      /\ First(k) \in Int /\ FirstDelay(c) \in Nat
  BY InitializeFields
<1>2. /\ k.NextScheduledProbe \in Int /\ k.NextScheduledQuery \in Int
      /\ k.NextScheduledResponse \in Int /\ k.SuppressProbes \in Int \union {NotSet}
  BY EngineTypes
<1>3. \A f \in Int : f <= 0 /\ Low(k, f) => t \in Int /\ t >= f
  <2>1. ASSUME NEW f \in Int, f <= 0, Low(k, f) PROVE First(k) >= f
    BY <1>2, <2>1, Intervals DEF First, Sooner, Low
  <2>. QED  BY <1>1, <2>1
<1>4. t \in Int
  BY <1>1
<1> HIDE DEF j, t
<1>5. /\ j \in Engine
      /\ j.NextScheduledEvent = k.NextScheduledEvent /\ j.NextCacheCheck = k.NextCacheCheck
  BY <1>1 DEF Kept
<1>6. j.NextScheduledResponse <= k.NextScheduledResponse
  BY <1>1, <1>2, <1>4 DEF Sooner
<1>7. j.rec[r].RecordType # "Deregistering" /\ APTime(j, r) = t
  BY <1>1
<1>8. ASSUME NEW f \in Int, f <= 0, Low(k, f)
      PROVE  j.NextScheduledProbe >= f /\ j.NextScheduledResponse >= f /\ APTime(j, r) >= f
  BY <1>1, <1>2, <1>3, <1>7, <1>8 DEF Sooner, Low
<1>9. Settles(k, j)
  BY <1>1, <1>5, <1>6, <1>7, <1>8, RecordSettles DEF Leaving
<1>. QED  BY <1>9 DEF j

LEMMA RegisterSettles ==
  ASSUME NEW k \in Engine, NEW r \in Record
  PROVE  Settles(k, Register(k, r)) /\ ~Leaving(Register(k, r).rec[r])
<1> DEFINE c == [RecordType     |-> IF r \in Probed THEN "Unique" ELSE "Shared",
                 ProbeCount     |-> IF r \in Probed THEN DefaultProbeCountForTypeUnique ELSE 0,
                 AnnounceCount  |-> InitialAnnounceCount,
                 LastAPTime     |-> 0,
                 ThisAPInterval |-> IF r \in Probed THEN ProbeInterval ELSE AnnounceInterval,
                 ImmedAnswer    |-> FALSE,
                 UpdateBlocked  |-> NotSet]
           k1 == PutRecord(k, r, c)
<1>1. Register(k, r) = InitializeLastAPTime(k1, r)
  BY DEF Register, PutRecord
<1>2. /\ c \in RecordState
      /\ c.ThisAPInterval >= 0 /\ c.RecordType # "Deregistering"
  BY Intervals, Parameters DEF RecordState
<1> HIDE DEF c
<1>3. k1 = PutRecord(k, r, c)
  OBVIOUS
<1> HIDE DEF k1
<1>4. Settles(k, InitializeLastAPTime(k1, r))
  BY <1>2, <1>3, InitializeSettles
<1>5. InitializeLastAPTime(k1, r).rec[r].RecordType # "Deregistering"
  BY <1>2, <1>3, InitializeFields
<1>. QED  BY <1>1, <1>4, <1>5 DEF Leaving

LEMMA ReprobeSettles ==
  ASSUME NEW k \in Engine, NEW r \in Record
  PROVE  Settles(k, Reprobe(k, r))
<1> DEFINE n == DefaultProbeCountForTypeUnique + 1
           c == [k.rec[r] EXCEPT !.RecordType = "Unique", !.ProbeCount = n,
                                 !.ThisAPInterval = ProbeInterval]
           k1 == PutRecord(k, r, c)
<1>1. k.rec \in [Record -> RecordState] /\ k.rec[r] \in RecordState
  BY EngineTypes
<1>2. Reprobe(k, r) = InitializeLastAPTime(k1, r)
  <2>1. [k EXCEPT !.rec[r].RecordType = "Unique", !.rec[r].ProbeCount = n,
                  !.rec[r].ThisAPInterval = ProbeInterval]
        = [k EXCEPT !.rec = [[[k.rec EXCEPT ![r].RecordType = "Unique"]
                                  EXCEPT ![r].ProbeCount = n]
                                  EXCEPT ![r].ThisAPInterval = ProbeInterval]]
    BY <1>1 DEF Engine
  <2>2. [[[k.rec EXCEPT ![r].RecordType = "Unique"] EXCEPT ![r].ProbeCount = n]
              EXCEPT ![r].ThisAPInterval = ProbeInterval]
        = [k.rec EXCEPT ![r] = c]
    BY <1>1
  <2>3. [k EXCEPT !.rec[r].RecordType = "Unique", !.rec[r].ProbeCount = n,
                  !.rec[r].ThisAPInterval = ProbeInterval] = k1
    BY <2>1, <2>2 DEF PutRecord
  <2>. QED  BY <2>3 DEF Reprobe
<1>3. /\ c \in RecordState
      /\ c.ThisAPInterval >= 0 /\ c.RecordType # "Deregistering"
  <2>1. n \in Int
    BY Parameters
  <2> DEFINE int == ProbeInterval
  <2>2. int \in Int /\ int >= 0
    BY Intervals
  <2> HIDE DEF n, int
  <2>3. c \in RecordState /\ c.ThisAPInterval = int /\ c.RecordType = "Unique"
    BY <1>1, <2>1, <2>2 DEF RecordState, int
  <2>. QED  BY <2>2, <2>3
<1> HIDE DEF c
<1>4. k1 = PutRecord(k, r, c)
  OBVIOUS
<1> HIDE DEF k1
<1>5. Settles(k, InitializeLastAPTime(k1, r))
  BY <1>3, <1>4, InitializeSettles
<1>. QED  BY <1>2, <1>5

LEMMA DeleteSettles ==
  ASSUME NEW k \in Engine, NEW r \in Record
  PROVE  Settles(k, Delete(k, r)) /\ Delete(k, r).rec[r] = Off
<1> DEFINE j == Delete(k, r)
<1>1. Off \in RecordState
  BY DEF Off, RecordState
<1>2. j = PutRecord(k, r, Off)
  BY DEF Delete, PutRecord
<1> HIDE DEF j
<1>3. /\ Kept(k, j) /\ j.rec[r] = Off
      /\ \A s \in Record : s # r => j.rec[s] = k.rec[s]
      /\ j.NextScheduledProbe = k.NextScheduledProbe
      /\ j.NextScheduledQuery = k.NextScheduledQuery
      /\ j.NextScheduledResponse = k.NextScheduledResponse
      /\ j.qst = k.qst
  BY <1>1, <1>2, RecordSet
<1>4. ~Counts(j.rec[r]) /\ ~Leaving(j.rec[r])
  BY <1>3 DEF Off, Counts, Announcing, Leaving
<1>5. k.NextScheduledResponse \in Int
  BY EngineTypes
<1>6. \A f \in Int : f <= 0 /\ Low(k, f) => j.NextScheduledProbe >= f /\ j.NextScheduledResponse >= f
  BY <1>3 DEF Low
<1>7. Settles(k, j)
  BY <1>3, <1>4, <1>5, <1>6, RecordSettles DEF Kept
<1>. QED  BY <1>3, <1>7 DEF j

\* A goodbye is planned within a tenth of a second
LEMMA RetractSettles ==
  ASSUME NEW k \in Engine, NEW r \in Record, k.rec[r].RecordType = "Shared"
  PROVE  Settles(k, Retract(k, r))
<1> DEFINE c == [k.rec[r] EXCEPT !.RecordType = "Deregistering", !.ImmedAnswer = TRUE]
           k1 == PutRecord(k, r, c)
           s == Sooner(k.NextScheduledResponse, TenthSecond)
           j == [k1 EXCEPT !.NextScheduledResponse = s]
<1>1. /\ k.rec \in [Record -> RecordState] /\ k.rec[r] \in RecordState
      /\ APTime(k, r) \in Int /\ k.NextScheduledResponse \in Int
  BY EngineTypes
<1>2. Retract(k, r) = j
  <2>1. [k EXCEPT !.rec[r].RecordType = "Deregistering", !.rec[r].ImmedAnswer = TRUE,
                  !.NextScheduledResponse = s]
        = [k EXCEPT !.rec = [[k.rec EXCEPT ![r].RecordType = "Deregistering"]
                                  EXCEPT ![r].ImmedAnswer = TRUE],
                    !.NextScheduledResponse = s]
    BY <1>1 DEF Engine
  <2>2. [[k.rec EXCEPT ![r].RecordType = "Deregistering"] EXCEPT ![r].ImmedAnswer = TRUE]
        = [k.rec EXCEPT ![r] = c]
    BY <1>1
  <2>3. [k EXCEPT !.rec = [k.rec EXCEPT ![r] = c], !.NextScheduledResponse = s] = j
    BY <1>1 DEF PutRecord, Engine
  <2>4. Retract(k, r) = [k EXCEPT !.rec[r].RecordType = "Deregistering", !.rec[r].ImmedAnswer = TRUE,
                                  !.NextScheduledResponse = s]
    BY DEF Retract
  <2>. QED  BY <2>1, <2>2, <2>3, <2>4
<1>3. /\ c \in RecordState
      /\ c.RecordType = "Deregistering" /\ c.LastAPTime = k.rec[r].LastAPTime
      /\ c.ThisAPInterval = k.rec[r].ThisAPInterval /\ c.AnnounceCount = k.rec[r].AnnounceCount
  BY <1>1 DEF RecordState
<1>4. s \in Int /\ s <= k.NextScheduledResponse /\ s <= TenthSecond
      /\ s \in {k.NextScheduledResponse, TenthSecond}
  BY <1>1, SoonerFacts, Parameters
<1> HIDE DEF c, s
<1>5. k1 = PutRecord(k, r, c)
  OBVIOUS
<1> HIDE DEF k1
<1>6. /\ Kept(k, k1) /\ k1.rec[r] = c
      /\ \A t \in Record : t # r => k1.rec[t] = k.rec[t]
      /\ k1.NextScheduledProbe = k.NextScheduledProbe
      /\ k1.NextScheduledQuery = k.NextScheduledQuery
      /\ k1.qst = k.qst
  BY <1>1, <1>3, <1>5, RecordSet
<1>7. /\ Kept(k1, j) /\ j.rec = k1.rec /\ j.qst = k1.qst
      /\ j.NextScheduledProbe = k1.NextScheduledProbe
      /\ j.NextScheduledQuery = k1.NextScheduledQuery
      /\ j.NextScheduledResponse = s
  BY <1>4, <1>6 DEF Kept, Engine
<1> HIDE DEF j
<1>8. /\ j \in Engine /\ j.NextScheduledEvent = k.NextScheduledEvent
      /\ j.NextCacheCheck = k.NextCacheCheck
      /\ j.NextScheduledProbe = k.NextScheduledProbe
      /\ j.NextScheduledQuery = k.NextScheduledQuery
      /\ j.qst = k.qst
      /\ \A t \in Record : t # r => j.rec[t] = k.rec[t]
  BY <1>6, <1>7 DEF Kept
<1>9. j.rec[r] = c /\ APTime(j, r) = APTime(k, r)
  BY <1>3, <1>6, <1>7 DEF APTime
<1>10. ~Counts(j.rec[r]) /\ (Leaving(j.rec[r]) => Counts(k.rec[r]))
  BY <1>3, <1>9 DEF Counts, Announcing, Leaving
<1>11. ASSUME NEW f \in Int, f <= 0, Low(k, f)
       PROVE  /\ j.NextScheduledProbe >= f /\ j.NextScheduledResponse >= f
              /\ Leaving(j.rec[r]) => APTime(j, r) >= f /\ j.NextScheduledResponse <= TenthSecond
  BY <1>4, <1>7, <1>8, <1>9, <1>10, <1>11, Parameters DEF Low
<1>12. Settles(k, j)
  BY <1>4, <1>7, <1>8, <1>10, <1>11, RecordSettles
<1>. QED  BY <1>2, <1>12

LEMMA ProbeFailureSettles ==
  ASSUME NEW k \in Engine, NEW slow \in BOOLEAN
  PROVE  Settles(k, RecordProbeFailure(k, slow))
<1> DEFINE j == RecordProbeFailure(k, slow)
<1>1. /\ j \in Engine /\ j.rec = k.rec /\ j.qst = k.qst
      /\ j.NextScheduledEvent = k.NextScheduledEvent
      /\ j.NextCacheCheck = k.NextCacheCheck
      /\ j.NextScheduledProbe = k.NextScheduledProbe
      /\ j.NextScheduledQuery = k.NextScheduledQuery
      /\ j.NextScheduledResponse = k.NextScheduledResponse
  BY Intervals DEF RecordProbeFailure, Engine
<1> HIDE DEF j
<1>2. k.NextScheduledResponse \in Int
  BY EngineTypes
<1>3. Settles(k, j)
  BY <1>1, <1>2, TimesSettle DEF Low
<1>. QED  BY <1>3 DEF j

\* An update that is not blocked
LEMMA UpdateSettles ==
  ASSUME NEW k \in Engine, NEW r \in Record, k.rec[r].RecordType # "Deregistering",
         NEW credits \in Credits, credits > 5
  PROVE  Settles(k, Update(k, r, credits))
<1> DEFINE old == k.rec[r]
           count == IF old.AnnounceCount < ReannounceCount THEN ReannounceCount ELSE old.AnnounceCount
           int == IF old.RecordType = "Unique" THEN ProbeInterval ELSE AnnounceInterval
           c == [old EXCEPT !.AnnounceCount = count, !.ThisAPInterval = int]
           kc == PutRecord(k, r, c)
           k1 == InitializeLastAPTime(kc, r)
           capped == IF k1.rec[r].AnnounceCount > credits + 1 THEN credits + 1
                     ELSE k1.rec[r].AnnounceCount
           d == [k1.rec[r] EXCEPT !.AnnounceCount = capped]
           k2 == PutRecord(k1, r, d)
<1>1. k.rec \in [Record -> RecordState] /\ old \in RecordState
  BY EngineTypes
<1>2. Update(k, r, credits) = k2
  <2>1. [k EXCEPT !.rec[r].AnnounceCount = count, !.rec[r].ThisAPInterval = int]
        = [k EXCEPT !.rec = [[k.rec EXCEPT ![r].AnnounceCount = count]
                                  EXCEPT ![r].ThisAPInterval = int]]
    BY <1>1 DEF Engine
  <2>2. [[k.rec EXCEPT ![r].AnnounceCount = count] EXCEPT ![r].ThisAPInterval = int]
        = [k.rec EXCEPT ![r] = c]
    BY <1>1
  <2>3. [k EXCEPT !.rec[r].AnnounceCount = count, !.rec[r].ThisAPInterval = int] = kc
    BY <2>1, <2>2 DEF PutRecord
  <2> DEFINE new == [k EXCEPT !.rec[r].AnnounceCount = count, !.rec[r].ThisAPInterval = int]
  <2>4. Update(k, r, credits) = Capped(InitializeLastAPTime(new, r), r, credits)
    BY DEF Update, Capped
  <2>5. new = kc
    BY <2>3
  <2>6. Capped(k1, r, credits) = k2
    <3> HIDE DEF k1
    <3>. QED  BY DEF Capped, PutRecord
  <2> HIDE DEF kc, new, k2
  <2>. QED  BY <2>4, <2>5, <2>6
<1>3. c \in RecordState /\ c.ThisAPInterval >= 0 /\ c.RecordType # "Deregistering"
  <2>1. count \in Int /\ int \in Int /\ int >= 1
    BY <1>1, Intervals DEF RecordState
  <2> HIDE DEF count, int
  <2>2. c.ThisAPInterval = int /\ c.RecordType = old.RecordType /\ c \in RecordState
    BY <1>1, <2>1 DEF RecordState
  <2>. QED  BY <2>1, <2>2
<1> HIDE DEF c
<1>4. kc = PutRecord(k, r, c)
  OBVIOUS
<1> HIDE DEF kc
<1>5. Settles(k, InitializeLastAPTime(kc, r))
  BY <1>3, <1>4, InitializeSettles
<1>6. InitializeLastAPTime(kc, r).rec[r].RecordType = c.RecordType
  BY <1>3, <1>4, InitializeFields
<1>7. Settles(k, k1) /\ k1 \in Engine /\ k1.rec[r].RecordType # "Deregistering"
  BY <1>3, <1>5, <1>6 DEF Settles
<1> HIDE DEF k1
<1>8. k1.rec[r] \in RecordState /\ credits \in Int /\ credits > 5
  BY <1>7, EngineTypes, Parameters
<1>9. capped \in Int /\ (capped > 0 => k1.rec[r].AnnounceCount > 0)
  BY <1>8 DEF RecordState
<1> HIDE DEF capped
<1>10. /\ d \in RecordState /\ d.LastAPTime = k1.rec[r].LastAPTime
       /\ d.ThisAPInterval = k1.rec[r].ThisAPInterval /\ d.RecordType = k1.rec[r].RecordType
       /\ d.AnnounceCount = capped
  BY <1>8, <1>9 DEF RecordState
<1> HIDE DEF d
<1>11. k2 = PutRecord(k1, r, d)
  OBVIOUS
<1> HIDE DEF k2
<1>12. /\ k2.rec[r] = d /\ Kept(k1, k2) /\ APTime(k2, r) = APTime(k1, r)
       /\ \A s \in Record : s # r => k2.rec[s] = k1.rec[s]
       /\ k2.qst = k1.qst
       /\ k2.NextScheduledProbe = k1.NextScheduledProbe
       /\ k2.NextScheduledQuery = k1.NextScheduledQuery
       /\ k2.NextScheduledResponse = k1.NextScheduledResponse
  BY <1>7, <1>10, <1>11, RecordSet DEF APTime
<1>13. /\ Counts(k2.rec[r]) => Counts(k1.rec[r])
       /\ ~Leaving(k2.rec[r])
  BY <1>7, <1>9, <1>10, <1>12 DEF Counts, Announcing, Leaving
<1>14. k1.NextScheduledResponse \in Int
  BY <1>7, EngineTypes
<1>15. \A f \in Int : f <= 0 /\ Low(k1, f) =>
         /\ k2.NextScheduledProbe >= f /\ k2.NextScheduledResponse >= f
         /\ Counts(k2.rec[r]) => APTime(k2, r) >= f
  BY <1>12, <1>13 DEF Low
<1>16. Settles(k1, k2)
  BY <1>7, <1>12, <1>13, <1>14, <1>15, RecordSettles DEF Kept
<1>. QED  BY <1>2, <1>7, <1>16, SettlesOn

LEMMA Remains ==
  ASSUME NEW k \in Engine
  PROVE  Settles(k, k)
BY EngineTypes DEF Settles

LEMMA AsksSettles ==
  ASSUME NEW k \in Engine, NEW j, Asks(k, j)
  PROVE  Settles(k, j)
<1>1. /\ j \in Engine /\ j.rec = k.rec
      /\ j.NextScheduledEvent = k.NextScheduledEvent /\ j.NextCacheCheck = k.NextCacheCheck
      /\ j.NextScheduledProbe = k.NextScheduledProbe
      /\ j.NextScheduledResponse = k.NextScheduledResponse
  BY DEF Asks, Kept
<1>2. /\ j.NextScheduledQuery \in Int
      /\ \A q \in Question : QTime(j, q) \in Int
  BY <1>1, EngineTypes
<1>3. ASSUME NEW f \in Int, f <= 0, Low(k, f)
      PROVE  /\ j.NextScheduledQuery >= f
             /\ \A q \in Question : j.qst[q].asked => QTime(j, q) >= f
  <2>1. j.NextScheduledQuery >= f
    BY <1>2, <1>3 DEF Asks, Low
  <2>2. ASSUME NEW q \in Question, j.qst[q].asked PROVE QTime(j, q) >= f
    BY <1>2, <1>3, <2>2 DEF Asks, Low, QTime
  <2>. QED  BY <2>1, <2>2
<1>. QED  BY <1>1, <1>3, QuestionsSettle

--------------------------------------------------------------------------------
(* How far times fall behind while the engine rests and while it works *)

Floor(k, w, c) ==
  IF w # "none" THEN -Deep(c)
  ELSE IF k.SuppressSending = NotSet THEN Now(k) - c
  ELSE k.SuppressSending - TenthSecond - c

Tame(k, w, A, c) ==
  /\ Low(k, Floor(k, w, c))
  /\ k.SuppressSending # NotSet
       => Now(k) - c <= k.SuppressSending /\ k.SuppressSending <= Now(k) + TenthSecond
  /\ w # "none" => k.NextScheduledProbe >= 1
  /\ Farewell(k, w, A, c)

LEMMA FloorFacts ==
  ASSUME NEW k \in Engine, NEW w, NEW A, NEW c \in Nat, Tame(k, w, A, c), w # "none" => Now(k) = 0
  PROVE  /\ Deep(c) \in Nat /\ Bottom(c) \in Nat
         /\ Floor(k, w, c) \in Int
         /\ Floor(k, w, c) >= Now(k) - Deep(c)
         /\ Floor(k, w, c) <= Now(k)
         /\ Floor(k, w, c) >= -Deep(c)
<1>1. k.SuppressSending \in Int \union {NotSet} /\ Now(k) \in Int /\ Now(k) >= 0
  BY EngineTypes DEF Now
<1>2. TenthSecond \in Int /\ TenthSecond >= 1
  BY Parameters
<1>3. Deep(c) \in Nat /\ Bottom(c) \in Nat /\ Deep(c) = TenthSecond + 2 * c
  BY <1>2 DEF Deep, Bottom
<1>4. CASE w # "none"
  BY <1>1, <1>3, <1>4 DEF Floor
<1>5. CASE w = "none" /\ k.SuppressSending = NotSet
  BY <1>1, <1>2, <1>3, <1>5 DEF Floor
<1>6. CASE w = "none" /\ k.SuppressSending # NotSet
  BY <1>1, <1>2, <1>3, <1>6 DEF Floor, Tame
<1>. QED  BY <1>3, <1>4, <1>5, <1>6

\* A step of the engine, at the time it is
LEMMA StepTame ==
  ASSUME NEW k \in Engine, NEW j \in Engine, NEW w, NEW A, NEW B, NEW c \in Nat,
         Tame(k, w, A, c), Now(k) = 0, Now(j) = 0, j.SuppressSending = k.SuppressSending,
         w # "none" => j.NextScheduledProbe >= 1,
         j.NextScheduledResponse <= k.NextScheduledResponse,
         Low(j, Floor(k, w, c)),
         \A r \in Record : Leaving(j.rec[r]) =>
           /\ r \in B <=> r \in A
           /\ \/ Leaving(k.rec[r]) /\ APTime(j, r) = APTime(k, r)
              \/ APTime(j, r) >= Floor(k, w, c) /\ j.NextScheduledResponse <= TenthSecond
  PROVE  Tame(j, w, B, c)
<1>1. /\ Deep(c) \in Nat /\ Bottom(c) \in Nat
      /\ Floor(k, w, c) \in Int /\ Floor(k, w, c) >= -Deep(c)
      /\ TenthSecond \in Int /\ TenthSecond >= 1
  BY FloorFacts, Parameters
<1>2. /\ k.NextScheduledResponse \in Int /\ j.NextScheduledResponse \in Int
      /\ \A r \in Record : APTime(k, r) \in Int /\ APTime(j, r) \in Int
  BY EngineTypes
<1>3. Floor(j, w, c) = Floor(k, w, c)
  BY DEF Floor
<1>4. ASSUME NEW r \in Record, Leaving(j.rec[r])
      PROVE  IF r \in B THEN APTime(j, r) >= -Bottom(c) ELSE Gap(j, r, c) \/ Wanted(j, w, r, c)
  <2>1. CASE Leaving(k.rec[r]) /\ APTime(j, r) = APTime(k, r)
    <3>1. IF r \in B THEN APTime(k, r) >= -Bottom(c) ELSE Gap(k, r, c) \/ Wanted(k, w, r, c)
      BY <1>4, <2>1 DEF Tame, Farewell
    <3>2. Gap(k, r, c) => Gap(j, r, c)
      BY <1>1, <1>2, <2>1 DEF Gap
    <3>3. Wanted(k, w, r, c) => Wanted(j, w, r, c)
      BY <1>1, <1>2, <2>1 DEF Wanted
    <3>. QED  BY <2>1, <3>1, <3>2, <3>3
  <2>2. CASE APTime(j, r) >= Floor(k, w, c) /\ j.NextScheduledResponse <= TenthSecond
    <3>1. Gap(j, r, c)
      BY <1>1, <1>2, <2>2 DEF Gap
    <3>2. Bottom(c) >= Deep(c)
      BY <1>1 DEF Bottom
    <3>. QED  BY <1>1, <1>2, <2>2, <3>1, <3>2
  <2>. QED  BY <1>4, <2>1, <2>2
<1>. QED  BY <1>3, <1>4 DEF Tame, Farewell

LEMMA SettledTame ==
  ASSUME NEW k, NEW j, NEW w, NEW A, NEW B, NEW c \in Nat, Settles(k, j),
         Tame(k, w, A, c), Now(k) = 0, Now(j) = 0, j.SuppressSending = k.SuppressSending,
         w # "none" => j.NextScheduledProbe >= 1,
         \A r \in Record : Leaving(j.rec[r]) => (r \in B <=> r \in A)
  PROVE  Tame(j, w, B, c)
<1> DEFINE f == Floor(k, w, c)
<1>1. k \in Engine /\ j \in Engine /\ j.NextScheduledResponse <= k.NextScheduledResponse
  BY DEF Settles
<1>2. f \in Int /\ f <= 0 /\ Low(k, f)
  BY <1>1, FloorFacts DEF Tame
<1> HIDE DEF f
<1>3. /\ Low(j, f)
      /\ \A r \in Record : Leaving(j.rec[r]) =>
           \/ Leaving(k.rec[r]) /\ APTime(j, r) = APTime(k, r)
           \/ APTime(j, r) >= f /\ j.NextScheduledResponse <= TenthSecond
  BY <1>2 DEF Settles
<1>. QED  BY <1>1, <1>3, StepTame DEF f

\* Time passes while the engine rests
LEMMA PassTame ==
  ASSUME NEW k \in Engine, Fits(k), NEW d \in Int, d >= 0 \/ k.timenow_last >= 0,
         NEW b \in Nat, NEW c \in Nat, b <= c, c <= Half,
         Tame(k, "none", {}, b), NEW e \in Int,
         k.SuppressSending = NotSet => Low(k, e) /\ e - d >= Now(Pass(k, d)) - c,
         k.SuppressSending # NotSet => k.SuppressSending - d >= Now(Pass(k, d)) - c,
         \/ Now(Pass(k, d)) = Now(k) - d
         \/ k.SuppressSending = NotSet => \A r \in Record : Leaving(k.rec[r]) => Gap(k, r, b)
  PROVE  Tame(Pass(k, d), "none", {}, c)
<1> DEFINE p == Pass(k, d)
           n == Now(p)
           s == k.SuppressSending
<1>1. /\ p \in Engine /\ p.SuppressSending = Later(s, d)
      /\ p.NextScheduledResponse = Later(k.NextScheduledResponse, d)
  BY PassFields
<1>2. n \in Int /\ n >= 0 /\ n >= Now(k) - d
  BY NowLater
<1>3. /\ s \in Int \union {NotSet} /\ Now(k) \in Int /\ k.NextScheduledResponse \in Int
      /\ p.NextScheduledResponse \in Int
      /\ \A r \in Record : APTime(k, r) \in Int /\ APTime(p, r) \in Int
      /\ TenthSecond \in Int /\ TenthSecond >= 1 /\ Half \in Int /\ Half >= 1
  BY <1>1, EngineTypes, Parameters
<1> HIDE DEF p, n, s
<1>4. p.SuppressSending = IF s = NotSet THEN NotSet ELSE s - d
  <2>1. CASE s = NotSet
    BY <1>1, <2>1 DEF Later
  <2>2. CASE s # NotSet
    <3>1. s - d >= n - c
      BY <2>2 DEF s, n, p
    <3>2. s \in Int /\ ~(s - d < -Half)
      BY <1>2, <1>3, <2>2, <3>1
    <3>. QED  BY <1>1, <2>2, <3>2 DEF Later
  <2>. QED  BY <2>1, <2>2
<1>5. p.SuppressSending # NotSet
        => n - c <= p.SuppressSending /\ p.SuppressSending <= n + TenthSecond
  <2>1. s # NotSet => s - d >= n - c /\ s <= Now(k) + TenthSecond
    BY DEF s, n, p, Tame
  <2>. QED  BY <1>2, <1>3, <1>4, <2>1
<1>6. Low(p, Floor(p, "none", c))
  <2>1. CASE s = NotSet
    <3>1. Low(k, e) /\ e - d >= n - c
      BY <2>1 DEF s, n, p
    <3>2. Low(p, n - c)
      BY <1>2, <3>1, PassLow DEF p
    <3>. QED  BY <1>4, <2>1, <3>2 DEF Floor, n
  <2>2. CASE s # NotSet
    <3>1. s \in Int /\ Low(k, s - TenthSecond - b)
      BY <1>3, <2>2 DEF Tame, Floor, s
    <3>2. /\ s - TenthSecond - b \in Int /\ s - d - TenthSecond - c \in Int
          /\ s - d - TenthSecond - c <= s - TenthSecond - b - d
      BY <1>3, <3>1
    <3>3. Low(p, s - d - TenthSecond - c)
      BY <3>1, <3>2, PassLow DEF p
    <3>4. p.SuppressSending = s - d /\ s - d # NotSet
      BY <1>3, <1>4, <2>2, <3>1, Parameters
    <3>. QED  BY <3>3, <3>4 DEF Floor
  <2>. QED  BY <2>1, <2>2
<1>7. p.NextScheduledResponse = k.NextScheduledResponse - d \/ p.NextScheduledResponse = -Half
  BY <1>1, <1>3, LaterFacts
<1>8. ASSUME NEW r \in Record, Leaving(p.rec[r])
      PROVE  Gap(p, r, c) \/ Wanted(p, "none", r, c)
  <2>1. /\ Leaving(k.rec[r])
        /\ APTime(p, r) >= APTime(k, r) - d
        /\ Gap(k, r, b) => Gap(p, r, b)
    BY <1>8, PassGap DEF p
  <2>2. Gap(k, r, b) \/ Wanted(k, "none", r, b)
    BY <2>1 DEF Tame, Farewell
  <2>3. CASE Gap(k, r, b)
    BY <1>3, <2>1, <2>3 DEF Gap, Deep
  <2>4. CASE ~Gap(k, r, b) /\ Wanted(k, "none", r, b)
    <3>1. p.NextScheduledResponse <= n
      BY <1>2, <1>3, <1>7, <2>4 DEF Wanted
    <3>2. CASE s = NotSet
      <4>1. n = Now(k) - d
        BY <2>1, <2>4, <3>2 DEF n, p, s
      <4>2. APTime(k, r) >= Now(k) - (TenthSecond + b + Deep(b))
        BY <2>4, <3>2 DEF Wanted, s
      <4>3. APTime(p, r) >= n - (TenthSecond + c + Deep(c))
        BY <1>2, <1>3, <2>1, <4>1, <4>2 DEF Deep
      <4>. QED  BY <1>4, <3>1, <3>2, <4>3 DEF Wanted, n
    <3>3. CASE s # NotSet
      <4>1. APTime(k, r) >= s - TenthSecond - (TenthSecond + b + Deep(b)) /\ s \in Int
        BY <1>3, <2>4, <3>3 DEF Wanted, s
      <4>2. APTime(p, r) >= s - d - TenthSecond - (TenthSecond + c + Deep(c))
        BY <1>3, <2>1, <4>1 DEF Deep
      <4>3. p.SuppressSending = s - d /\ s - d # NotSet
        BY <1>4, <3>3, <4>1, Parameters
      <4>. QED  BY <3>1, <4>2, <4>3 DEF Wanted, n
    <3>. QED  BY <3>2, <3>3
  <2>. QED  BY <2>2, <2>3, <2>4
<1>9. Farewell(p, "none", {}, c)
  BY <1>8 DEF Farewell
<1>. QED  BY <1>5, <1>6, <1>9 DEF Tame, n, p

\* The lock corrects the clock
LEMMA LockTame ==
  ASSUME NEW k \in Engine, Fits(k), NEW w, NEW A, NEW c \in Nat, c <= Half, Tame(k, w, A, c),
         w = "none" => A = {}, w # "none" => k.mDNS_busy # 0,
         k.mDNS_busy # 0 => k.timenow_last = 0
  PROVE  Tame(mDNS_Lock(k), w, A, c) /\ Now(mDNS_Lock(k)) = 0
<1> DEFINE l == mDNS_Lock(k)
           behind == k.mDNS_busy = 0 /\ k.timenow_last > 0
           p == Pass(k, k.timenow_last)
           i == IF behind THEN p ELSE k
<1>1. /\ l \in Engine /\ i \in Engine /\ l.timenow_last = 0
      /\ l.NextScheduledEvent = i.NextScheduledEvent
      /\ l.SuppressSending = i.SuppressSending
      /\ l.NextCacheCheck = i.NextCacheCheck
      /\ l.NextScheduledProbe = i.NextScheduledProbe
      /\ l.NextScheduledQuery = i.NextScheduledQuery
      /\ l.NextScheduledResponse = i.NextScheduledResponse
      /\ l.rec = i.rec /\ l.qst = i.qst
  BY LockFields
<1>2. k.timenow_last \in Int /\ Now(k) \in Int
  BY EngineTypes
<1>3. Now(l) = 0
  BY <1>1 DEF Now
<1>4. Tame(i, w, A, c) /\ Now(i) = 0
  <2>1. CASE ~behind
    BY <1>2, <2>1 DEF Now
  <2>2. CASE behind
    <3> DEFINE d == k.timenow_last
               e == Now(k) - c
    <3>1. d \in Int /\ d > 0 /\ Now(k) = d /\ w = "none" /\ A = {} /\ e \in Int
      BY <1>2, <2>2 DEF Now
    <3>2. Now(Pass(k, d)) = 0
      <4>1. Pass(k, d).timenow_last = Later(k.timenow_last, d)
        BY <3>1, PassFields
      <4>2. Later(d, d) = 0
        BY <3>1, Parameters DEF Later
      <4>. QED  BY <4>1, <4>2 DEF Now
    <3>3. k.SuppressSending \in Int \union {NotSet}
      BY EngineTypes
    <3>4. k.SuppressSending = NotSet => Low(k, e) /\ e - d >= Now(Pass(k, d)) - c
      BY <3>1, <3>2 DEF Tame, Floor
    <3>5. k.SuppressSending # NotSet => k.SuppressSending - d >= Now(Pass(k, d)) - c
      BY <3>1, <3>2, <3>3 DEF Tame
    <3>6. Now(Pass(k, d)) = Now(k) - d /\ (d >= 0 \/ k.timenow_last >= 0)
      BY <3>1, <3>2
    <3>7. Tame(k, "none", {}, c) /\ c <= c
      BY <3>1
    <3> HIDE DEF d, e
    <3>8. Tame(Pass(k, d), "none", {}, c)
      BY <3>1, <3>4, <3>5, <3>6, <3>7, PassTame
    <3>. QED  BY <2>2, <3>1, <3>2, <3>8 DEF d
  <2>. QED  BY <2>1, <2>2
<1> HIDE DEF i, l
<1>5. i.NextScheduledResponse \in Int
  BY <1>1, EngineTypes
<1>6. Settles(i, l)
  BY <1>1, <1>5, TimesSettle DEF Low
<1>7. w # "none" => l.NextScheduledProbe >= 1
  BY <1>1, <1>4 DEF Tame
<1>8. Tame(l, w, A, c)
  BY <1>1, <1>3, <1>4, <1>6, <1>7, SettledTame
<1>. QED  BY <1>3, <1>8 DEF l

LEMMA UnlockTame ==
  ASSUME NEW k \in Engine, NEW w, NEW A, NEW c \in Nat, Tame(k, w, A, c), Now(k) = 0
  PROVE  Tame(mDNS_Unlock(k), w, A, c)
<1> DEFINE u == mDNS_Unlock(k)
           f == Floor(k, w, c)
           four == {k.NextCacheCheck, k.NextScheduledQuery, k.NextScheduledProbe,
                    k.NextScheduledResponse}
<1>1. /\ u \in Engine /\ u.timenow_last = k.timenow_last
      /\ u.NextScheduledEvent = (IF k.mDNS_busy > 1 THEN k.NextScheduledEvent
                                 ELSE GetNextScheduledEvent(k))
      /\ u.SuppressSending = k.SuppressSending
      /\ u.NextCacheCheck = k.NextCacheCheck
      /\ u.NextScheduledProbe = k.NextScheduledProbe
      /\ u.NextScheduledQuery = k.NextScheduledQuery
      /\ u.NextScheduledResponse = k.NextScheduledResponse
      /\ u.rec = k.rec /\ u.qst = k.qst
  BY UnlockFields
<1>2. f \in Int /\ f <= 0 /\ Low(k, f) /\ Deep(c) \in Nat /\ f >= -Deep(c)
  BY FloorFacts DEF Tame
<1>3. k.SuppressSending \in Int \union {NotSet} /\ TenthSecond \in Int /\ TenthSecond >= 1
      /\ k.NextCacheCheck \in Int /\ k.NextScheduledQuery \in Int
      /\ k.NextScheduledProbe \in Int /\ k.NextScheduledResponse \in Int
      /\ Horizon \in Int /\ Horizon >= 1
  BY EngineTypes, Parameters
<1>4. k.SuppressSending # NotSet => k.SuppressSending >= f
  <2>1. k.SuppressSending # NotSet => k.SuppressSending >= -c
    BY <1>3 DEF Tame
  <2>2. CASE w # "none"
    BY <1>3, <2>1, <2>2 DEF Floor, Deep
  <2>3. CASE w = "none"
    BY <1>3, <2>1, <2>3 DEF Floor
  <2>. QED  BY <2>2, <2>3
<1> HIDE DEF f
<1>5. Soonest(four) >= f
  <2>1. Soonest(four) \in {k.NextCacheCheck, k.NextScheduledQuery, k.NextScheduledProbe,
                            k.NextScheduledResponse, Horizon}
    BY <1>3, SoonestOfFour
  <2>. QED  BY <1>2, <1>3, <2>1 DEF Low
<1>6. u.NextScheduledEvent >= f
  BY <1>1, <1>2, <1>4, <1>5 DEF GetNextScheduledEvent, Low
<1> HIDE DEF u
<1>7. \A r \in Record : APTime(u, r) = APTime(k, r)
  BY <1>1 DEF APTime
<1>8. \A q \in Question : QTime(u, q) = QTime(k, q)
  BY <1>1 DEF QTime
<1>9. Low(u, f)
  BY <1>1, <1>2, <1>6, <1>7, <1>8 DEF Low
<1>10. w # "none" => u.NextScheduledProbe >= 1
  BY <1>1 DEF Tame
<1>11. Now(u) = 0 /\ u.NextScheduledResponse <= k.NextScheduledResponse
  BY <1>1, <1>3 DEF Now
<1>12. \A r \in Record : Leaving(u.rec[r]) => Leaving(k.rec[r]) /\ APTime(u, r) = APTime(k, r)
  BY <1>1, <1>7
<1>. QED  BY <1>1, <1>9, <1>10, <1>11, <1>12, StepTame DEF f, u

\* What a client calls, also from a callback
LEMMA CallTame ==
  ASSUME NEW k, NEW w, NEW l, NEW f, Good(k, w, l, f), w = "none" \/ f # <<>>,
         NEW c \in Nat, c <= Half, Tame(k, w, Answering(w, l), c),
         NEW j, NEW l2, Settles(mDNS_Lock(k), j), Serves(mDNS_Lock(k), j),
         \A r \in Record : Leaving(j.rec[r]) => (r \in l2 <=> r \in l)
  PROVE  /\ Tame(j, w, Answering(w, l2), c)
         /\ j \in Engine /\ Now(j) = 0
<1> DEFINE i == mDNS_Lock(k)
<1>1. /\ k \in Engine /\ Fits(k) /\ Frames(w, f) /\ k.mDNS_busy = Depth(w, f)
      /\ Depth(w, f) # 0 => k.timenow_last = 0
  BY DEF Good, Sound, Typed
<1>2. w # "none" => k.mDNS_busy # 0
  BY <1>1, DepthFacts
<1>3. w = "none" => Answering(w, l) = {}
  BY DEF Answering
<1>4. Tame(i, w, Answering(w, l), c) /\ Now(i) = 0
  BY <1>1, <1>2, <1>3, LockTame
<1>5. w # "none" => Walks(i, w)
  BY LockGood
<1> HIDE DEF i
<1>6. /\ j \in Engine /\ j.timenow_last = i.timenow_last /\ j.SuppressSending = i.SuppressSending
  BY DEF Serves, Kept, i
<1>7. Now(j) = 0
  BY <1>4, <1>6 DEF Now
<1>8. w # "none" => j.NextScheduledProbe >= 1
  BY <1>4, <1>5 DEF Tame, Walks, Serves, i
<1>9. \A r \in Record : Leaving(j.rec[r]) => (r \in Answering(w, l2) <=> r \in Answering(w, l))
  BY DEF Answering
<1>10. Settles(i, j)
  BY DEF i
<1>11. Tame(j, w, Answering(w, l2), c)
  BY <1>4, <1>6, <1>7, <1>8, <1>9, <1>10, SettledTame
<1>. QED  BY <1>6, <1>7, <1>11

\* The callback a client is in does not count
LEMMA CallbackTame ==
  ASSUME NEW k \in Engine, NEW w, NEW A, NEW c \in Nat, Tame(k, w, A, c), Now(k) = 0, NEW n \in Int
  PROVE  LET j == [k EXCEPT !.mDNS_reentrancy = n]
         IN Tame(j, w, A, c) /\ j \in Engine /\ Now(j) = 0 /\ Settles(k, j)
<1> DEFINE j == [k EXCEPT !.mDNS_reentrancy = n]
<1>1. /\ j \in Engine /\ j.timenow_last = k.timenow_last
      /\ j.NextScheduledEvent = k.NextScheduledEvent
      /\ j.SuppressSending = k.SuppressSending
      /\ j.NextCacheCheck = k.NextCacheCheck
      /\ j.NextScheduledProbe = k.NextScheduledProbe
      /\ j.NextScheduledQuery = k.NextScheduledQuery
      /\ j.NextScheduledResponse = k.NextScheduledResponse
      /\ j.rec = k.rec /\ j.qst = k.qst
  BY DEF Engine
<1> HIDE DEF j
<1>2. k.NextScheduledResponse \in Int /\ Now(j) = 0
  BY <1>1, EngineTypes DEF Now
<1>3. Settles(k, j)
  BY <1>1, <1>2, TimesSettle DEF Low
<1>4. w # "none" => j.NextScheduledProbe >= 1
  BY <1>1 DEF Tame
<1>5. Tame(j, w, A, c)
  BY <1>1, <1>2, <1>3, <1>4, SettledTame
<1>. QED  BY <1>1, <1>2, <1>3, <1>5 DEF j

Tamed(c) == Tame(m, walk, Answering(walk, left), c)

LEMMA NotBlocked ==
  ASSUME ~Blocks, NEW credits \in Credits
  PROVE  credits > 5
BY Parameters DEF Blocks

LEMMA ClientCallsTame ==
  ASSUME Engaged, ClientCalls, walk' = walk, walk = "none" \/ frames # <<>>,
         ~Blocks, NEW c \in Nat, c <= Half, Tamed(c)
  PROVE  Tamed(c)'
<1> DEFINE k == mDNS_Lock(m)
           P == Probing(walk, left)
           A == Answering(walk, left)
<1>1. Sound(k, P, A) /\ m \in Engine /\ k \in Engine
  BY LockGood DEF Engaged, Good, Sound, Typed
<1>2. ASSUME NEW j, Settles(k, j), Serves(k, j), Call(j),
             \A r \in Record : Leaving(j.rec[r]) => (r \in left' <=> r \in left)
      PROVE  Tamed(c)'
  <2>1. Tame(j, walk, Answering(walk, left'), c) /\ j \in Engine /\ Now(j) = 0
    BY <1>2, CallTame DEF Engaged, Tamed
  <2>2. Tame(mDNS_Unlock(j), walk, Answering(walk, left'), c)
    BY <2>1, UnlockTame
  <2>. QED  BY <1>2, <2>2 DEF Tamed, Call
<1>3. ASSUME NEW j, Settles(k, j), Serves(k, j), CallBack(j),
             \A r \in Record : Leaving(j.rec[r]) => (r \in left' <=> r \in left)
      PROVE  Tamed(c)'
  <2> DEFINE n == j.mDNS_reentrancy + 1
  <2>1. Tame(j, walk, Answering(walk, left'), c) /\ j \in Engine /\ Now(j) = 0
    BY <1>3, CallTame DEF Engaged, Tamed
  <2>2. n \in Int
    BY <2>1, EngineTypes
  <2>3. m' = [j EXCEPT !.mDNS_reentrancy = n]
    BY <1>3 DEF CallBack, Callback
  <2> HIDE DEF n
  <2>4. Tame(m', walk, Answering(walk, left'), c)
    BY <2>1, <2>2, <2>3, CallbackTame
  <2>. QED  BY <2>4 DEF Tamed
<1> HIDE DEF k, P, A
<1>5. ASSUME NEW r \in Record, ClientRegisters(r) PROVE Tamed(c)'
  <2>1. Settles(k, Register(k, r)) /\ ~Leaving(Register(k, r).rec[r]) /\ Serves(k, Register(k, r))
    BY <1>1, RegisterSettles, RegisterSound
  <2>2. left' = (IF left = {} THEN {} ELSE left \union {r}) /\ Call(Register(k, r))
    BY <1>5 DEF ClientRegisters, k
  <2>3. \A s \in Record : Leaving(Register(k, r).rec[s]) => (s \in left' <=> s \in left)
    BY <2>1, <2>2
  <2>. QED  BY <1>2, <2>1, <2>2, <2>3
<1>6. ASSUME NEW r \in Record, ClientDeregisters(r) PROVE Tamed(c)'
  <2>1. m.rec[r].RecordType # "None"
    BY <1>6 DEF ClientDeregisters
  <2>2. k.rec[r].RecordType = m.rec[r].RecordType
    BY <1>1, LockRecord DEF k
  <2>3. CASE NeedsGoodbye(m, r) /\ left' = left /\ Call(Retract(k, r))
    <3>1. k.rec[r].RecordType = "Shared"
      BY <2>2, <2>3 DEF NeedsGoodbye
    <3>2. Settles(k, Retract(k, r)) /\ Serves(k, Retract(k, r))
      BY <1>1, <3>1, RetractSettles, RetractSound
    <3>. QED  BY <1>2, <2>3, <3>2
  <2>4. CASE left' = left \ {r} /\ (CallBack(Delete(k, r)) \/ Call(Delete(k, r)))
    <3>1. /\ Settles(k, Delete(k, r)) /\ Delete(k, r).rec[r] = Off
          /\ Serves(k, Delete(k, r))
      BY <1>1, DeleteSettles, DeleteSound
    <3>2. ~Leaving(Delete(k, r).rec[r])
      BY <3>1 DEF Leaving, Off
    <3>3. \A s \in Record : Leaving(Delete(k, r).rec[s]) => (s \in left' <=> s \in left)
      BY <2>4, <3>2
    <3>. QED  BY <1>2, <1>3, <2>4, <3>1, <3>3
  <2>. QED  BY <1>6, <2>3, <2>4 DEF ClientDeregisters, k
<1>7. ASSUME NEW r \in Record, ClientUpdates(r) PROVE Tamed(c)'
  <2>1. PICK credits \in Credits : Call(Update(k, r, credits))
    BY <1>7 DEF ClientUpdates, k
  <2>2. k.rec[r].RecordType \notin {"None", "Deregistering"} /\ credits > 5
    BY <1>1, <1>7, LockRecord, NotBlocked DEF ClientUpdates, k
  <2>3. Settles(k, Update(k, r, credits)) /\ Serves(k, Update(k, r, credits))
    BY <1>1, <2>2, UpdateSettles, UpdateSound
  <2>4. left' = left
    BY <1>7 DEF ClientUpdates
  <2>. QED  BY <1>2, <2>1, <2>3, <2>4
<1>8. ASSUME NEW q \in Question, ClientAsks(q) PROVE Tamed(c)'
  <2>1. PICK delay \in 1..InitialQuestionInterval + 1 : Call(StartQuery(k, q, delay))
    BY <1>8 DEF ClientAsks, k
  <2>2. Settles(k, StartQuery(k, q, delay)) /\ Serves(k, StartQuery(k, q, delay))
    BY <1>1, StartQuerySound, AsksSettles
  <2>3. left' = left
    BY <1>8 DEF ClientAsks
  <2>. QED  BY <1>2, <2>1, <2>2, <2>3
<1>9. ASSUME NEW q \in Question, ClientStops(q) PROVE Tamed(c)'
  <2>1. Call(StopQuery(k, q)) /\ left' = left
    BY <1>9 DEF ClientStops, k
  <2>2. Settles(k, StopQuery(k, q)) /\ Serves(k, StopQuery(k, q))
    BY <1>1, StopQuerySound, AsksSettles
  <2>. QED  BY <1>2, <2>1, <2>2
<1>. QED  BY <1>5, <1>6, <1>7, <1>8, <1>9 DEF ClientCalls

\* A query makes the next response due
LEMMA QueryTame ==
  ASSUME NEW k \in Engine, NEW j \in Engine, NEW c \in Nat, Tame(k, "none", {}, c),
         Now(k) = 0, Now(j) = 0,
         j.NextScheduledEvent = k.NextScheduledEvent,
         j.NextCacheCheck = k.NextCacheCheck,
         j.NextScheduledQuery = k.NextScheduledQuery,
         j.NextScheduledProbe = k.NextScheduledProbe,
         j.NextScheduledResponse = 0,
         \/ j.SuppressSending = k.SuppressSending
         \/ k.SuppressSending = NotSet /\ j.SuppressSending = TenthSecond,
         j.qst = k.qst,
         \A r \in Record : /\ APTime(j, r) = APTime(k, r)
                           /\ Leaving(j.rec[r]) => Leaving(k.rec[r])
                           /\ Counts(j.rec[r]) => Counts(k.rec[r])
  PROVE  Tame(j, "none", {}, c)
<1> DEFINE f == Floor(k, "none", c)
<1>1. f \in Int /\ f <= 0 /\ Low(k, f) /\ Deep(c) \in Nat
  BY FloorFacts DEF Tame
<1>2. /\ k.SuppressSending \in Int \union {NotSet}
      /\ TenthSecond \in Int /\ TenthSecond >= 1 /\ NotSet \notin Int
      /\ k.NextScheduledResponse \in Int
      /\ \A r \in Record : APTime(k, r) \in Int
  BY EngineTypes, Parameters
<1>3. /\ f = IF k.SuppressSending = NotSet THEN -c ELSE k.SuppressSending - TenthSecond - c
      /\ k.SuppressSending # NotSet => -c <= k.SuppressSending /\ k.SuppressSending <= TenthSecond
  BY <1>2 DEF Floor, Tame
<1> HIDE DEF f
<1>4. Floor(j, "none", c) = f
  <2>1. CASE j.SuppressSending = k.SuppressSending
    BY <1>3, <2>1 DEF Floor
  <2>2. CASE k.SuppressSending = NotSet /\ j.SuppressSending = TenthSecond
    BY <1>2, <1>3, <2>2 DEF Floor
  <2>. QED  BY <2>1, <2>2
<1>5. Low(j, f)
  <2>1. \A q \in Question : QTime(j, q) = QTime(k, q)
    BY DEF QTime
  <2>. QED  BY <1>1, <2>1 DEF Low
<1>6. j.SuppressSending # NotSet => -c <= j.SuppressSending /\ j.SuppressSending <= TenthSecond
  BY <1>2, <1>3
<1>7. ASSUME NEW r \in Record, Leaving(j.rec[r]) PROVE Wanted(j, "none", r, c)
  <2> DEFINE n == TenthSecond + c + Deep(c)
  <2>0. n \in Int /\ n = TenthSecond + c + Deep(c)
    BY <1>1, <1>2
  <2>1. APTime(k, r) >= (IF k.SuppressSending = NotSet THEN -n
                         ELSE k.SuppressSending - TenthSecond - n)
    <3>1. CASE Gap(k, r, c)
      <4>1. k.NextScheduledResponse >= f
        BY <1>1 DEF Low
      <4>2. APTime(k, r) >= f - (TenthSecond + Deep(c))
        BY <1>1, <1>2, <3>1, <4>1 DEF Gap
      <4> HIDE DEF n
      <4>. QED  BY <1>1, <1>2, <1>3, <2>0, <4>2
    <3>2. CASE Wanted(k, "none", r, c)
      BY <1>1, <1>2, <2>0, <3>2 DEF Wanted
    <3>. QED  BY <1>7, <3>1, <3>2 DEF Tame, Farewell
  <2> HIDE DEF n
  <2>2. APTime(j, r) >= (IF j.SuppressSending = NotSet THEN -n
                         ELSE j.SuppressSending - TenthSecond - n)
    BY <1>2, <2>0, <2>1
  <2>. QED  BY <1>1, <1>2, <1>6, <2>0, <2>2 DEF Wanted
<1>8. /\ Now(j) - c = -c /\ Now(j) + TenthSecond = TenthSecond
  BY <1>2
<1>9. Farewell(j, "none", {}, c)
  BY <1>7 DEF Farewell
<1>. QED  BY <1>4, <1>5, <1>6, <1>8, <1>9 DEF Tame

LEMMA PacketComesTame ==
  ASSUME Engaged, PacketComes, walk' = walk, walk = "none", frames = <<>>,
         NEW c \in Nat, c <= Half, Tamed(c)
  PROVE  Tamed(c)'
<1> DEFINE k == mDNS_Lock(m)
<1>1. /\ Sound(k, {}, {}) /\ m \in Engine /\ Fits(m) /\ k \in Engine /\ k.timenow_last = 0
      /\ Answering(walk, left) = {} /\ Answering(walk, left') = {} /\ m.mDNS_busy = 0
  BY LockGood, DepthFacts DEF Engaged, Good, Sound, Typed, Probing, Answering
<1>2. Tame(k, "none", {}, c) /\ Now(k) = 0
  BY <1>1, LockTame DEF Tamed
<1>3. ASSUME NEW j \in Engine, Now(j) = 0, Tame(j, "none", {}, c), Call(j)
      PROVE  Tamed(c)'
  <2>1. Tame(mDNS_Unlock(j), "none", {}, c)
    BY <1>3, UnlockTame
  <2>. QED  BY <1>1, <1>3, <2>1 DEF Tamed, Call
<1>4. ASSUME NEW j, Serves(k, j), Settles(k, j), Call(j) \/ CallBack(j)
      PROVE  Tamed(c)'
  <2>1. Tame(j, walk, Answering(walk, left), c) /\ j \in Engine /\ Now(j) = 0
    BY <1>4, CallTame DEF Engaged, Tamed
  <2>2. CASE Call(j)
    BY <1>1, <1>3, <2>1, <2>2
  <2>3. CASE CallBack(j)
    <3> DEFINE n == j.mDNS_reentrancy + 1
    <3>1. n \in Int
      BY <2>1, EngineTypes
    <3>2. m' = [j EXCEPT !.mDNS_reentrancy = n]
      BY <2>3 DEF CallBack, Callback
    <3> HIDE DEF n
    <3>3. Tame(m', walk, Answering(walk, left), c)
      BY <2>1, <3>1, <3>2, CallbackTame
    <3>. QED  BY <1>1, <3>3 DEF Tamed
  <2>. QED  BY <1>4, <2>2, <2>3
<1> HIDE DEF k
<1>5. ASSUME NEW r \in Record, QueryComes(r)
      PROVE  Tamed(c)'
  <2> DEFINE zero == 0
             d == [k.rec[r] EXCEPT !.ImmedAnswer = TRUE]
             k1 == PutRecord(k, r, d)
             n == [k1 EXCEPT !.NextScheduledResponse = zero]
             h == [n EXCEPT !.SuppressSending = TenthSecond]
  <2>1. /\ k.rec \in [Record -> RecordState] /\ k.rec[r] \in RecordState
    BY <1>1, EngineTypes
  <2>3. \/ Call(n)
        \/ n.SuppressSending = NotSet /\ Call(h)
    <3>1. [k EXCEPT !.rec[r].ImmedAnswer = TRUE] = k1
      BY <2>1 DEF PutRecord
    <3>2. n = [[k EXCEPT !.rec[r].ImmedAnswer = TRUE] EXCEPT !.NextScheduledResponse = 0]
      BY <3>1
    <3>. QED  BY <1>5, <3>2 DEF QueryComes, k
  <2>4. zero \in Int /\ zero = 0
    OBVIOUS
  <2> HIDE DEF zero
  <2>5. /\ d \in RecordState /\ d.RecordType = k.rec[r].RecordType /\ d.LastAPTime = k.rec[r].LastAPTime
        /\ d.ThisAPInterval = k.rec[r].ThisAPInterval /\ d.AnnounceCount = k.rec[r].AnnounceCount
    BY <2>1 DEF RecordState
  <2> HIDE DEF d
  <2>6. k1 = PutRecord(k, r, d)
    OBVIOUS
  <2> HIDE DEF k1
  <2>7. /\ Kept(k, k1) /\ k1.rec[r] = d
        /\ \A t \in Record : t # r => k1.rec[t] = k.rec[t]
        /\ k1.NextScheduledProbe = k.NextScheduledProbe
        /\ k1.NextScheduledQuery = k.NextScheduledQuery
        /\ k1.qst = k.qst
    BY <1>1, <2>5, <2>6, RecordSet
  <2>8. /\ n \in Engine /\ n.timenow_last = 0 /\ n.rec = k1.rec /\ n.qst = k.qst
        /\ n.NextScheduledEvent = k.NextScheduledEvent
        /\ n.NextCacheCheck = k.NextCacheCheck
        /\ n.NextScheduledProbe = k.NextScheduledProbe
        /\ n.NextScheduledQuery = k.NextScheduledQuery
        /\ n.NextScheduledResponse = 0
        /\ n.SuppressSending = k.SuppressSending
    BY <1>1, <2>4, <2>7 DEF Kept, Engine
  <2> HIDE DEF n
  <2>9. /\ h \in Engine /\ h.timenow_last = 0 /\ h.rec = n.rec /\ h.qst = n.qst
        /\ h.NextScheduledEvent = n.NextScheduledEvent
        /\ h.NextCacheCheck = n.NextCacheCheck
        /\ h.NextScheduledProbe = n.NextScheduledProbe
        /\ h.NextScheduledQuery = n.NextScheduledQuery
        /\ h.NextScheduledResponse = n.NextScheduledResponse
        /\ h.SuppressSending = TenthSecond
    BY <2>8, Parameters DEF Engine
  <2> HIDE DEF h
  <2>10. \A s \in Record :
           LET a == n.rec[s]  b == k.rec[s]
           IN /\ a.LastAPTime = b.LastAPTime /\ a.ThisAPInterval = b.ThisAPInterval
              /\ a.RecordType = b.RecordType /\ a.AnnounceCount = b.AnnounceCount
    BY <2>5, <2>7, <2>8
  <2>11. \A s \in Record : /\ APTime(n, s) = APTime(k, s) /\ APTime(h, s) = APTime(k, s)
                           /\ Leaving(n.rec[s]) => Leaving(k.rec[s])
                           /\ Counts(n.rec[s]) => Counts(k.rec[s])
    BY <2>9, <2>10 DEF APTime, Leaving, Counts, Announcing
  <2>12. Now(n) = 0 /\ Now(h) = 0
    BY <2>8, <2>9 DEF Now
  <2>13. Tame(n, "none", {}, c)
    BY <1>1, <1>2, <2>8, <2>11, <2>12, QueryTame
  <2>14. n.SuppressSending = NotSet => Tame(h, "none", {}, c)
    BY <1>1, <1>2, <2>8, <2>9, <2>11, <2>12, QueryTame
  <2>. QED  BY <1>3, <2>3, <2>8, <2>9, <2>12, <2>13, <2>14
<1>6. ASSUME NEW r \in Record, ConflictComes(r)
      PROVE  Tamed(c)'
  <2>1. PICK slow \in BOOLEAN :
          \/ /\ m.rec[r].RecordType = "Verified"
             /\ Call(RecordProbeFailure(Reprobe(k, r), slow))
          \/ /\ m.rec[r].RecordType = "Unique"
             /\ CallBack(RecordProbeFailure(Delete(k, r), slow))
    BY <1>6 DEF ConflictComes, k
  <2>2. k.rec[r].RecordType = m.rec[r].RecordType
    BY <1>1, LockRecord DEF k
  <2>3. CASE /\ m.rec[r].RecordType = "Verified"
             /\ Call(RecordProbeFailure(Reprobe(k, r), slow))
    <3>1. Sound(Reprobe(k, r), {} \ {r}, {}) /\ Serves(k, Reprobe(k, r)) /\ Settles(k, Reprobe(k, r))
      BY <1>1, <2>2, <2>3, ReprobeSound, ReprobeSettles
    <3>3. LET j == RecordProbeFailure(Reprobe(k, r), slow) IN Serves(k, j)
      BY <1>1, <3>1, ProbeFailureServes
    <3>4. Settles(Reprobe(k, r), RecordProbeFailure(Reprobe(k, r), slow))
      BY <3>1, ProbeFailureSettles DEF Settles
    <3>5. Settles(k, RecordProbeFailure(Reprobe(k, r), slow))
      BY <3>1, <3>4, SettlesOn
    <3>. QED  BY <1>4, <2>3, <3>3, <3>5
  <2>4. CASE /\ m.rec[r].RecordType = "Unique"
             /\ CallBack(RecordProbeFailure(Delete(k, r), slow))
    <3>1. /\ Sound(Delete(k, r), {} \ {r}, {} \ {r}) /\ Serves(k, Delete(k, r))
          /\ Settles(k, Delete(k, r))
      BY <1>1, DeleteSound, DeleteSettles
    <3>3. LET j == RecordProbeFailure(Delete(k, r), slow) IN Serves(k, j)
      BY <1>1, <3>1, ProbeFailureServes
    <3>4. Settles(Delete(k, r), RecordProbeFailure(Delete(k, r), slow))
      BY <3>1, ProbeFailureSettles DEF Settles
    <3>5. Settles(k, RecordProbeFailure(Delete(k, r), slow))
      BY <3>1, <3>4, SettlesOn
    <3>. QED  BY <1>4, <2>4, <3>3, <3>5
  <2>. QED  BY <2>1, <2>3, <2>4
<1>. QED  BY <1>5, <1>6 DEF PacketComes

LEMMA ReturnTame ==
  ASSUME Engaged, Return, NEW c \in Nat, Tamed(c)
  PROVE  Tamed(c)'
<1> DEFINE n == m.mDNS_reentrancy - 1
           k == [m EXCEPT !.mDNS_reentrancy = n]
           A == Answering(walk, left)
<1>1. /\ m \in Engine /\ n \in Int /\ frames # <<>> /\ walk' = walk /\ left' = left
      /\ m' \in {mDNS_Unlock(k), k}
  BY EngineTypes DEF Engaged, Good, Sound, Typed, Return
<1>2. Now(m) = 0
  BY <1>1, DepthFacts DEF Engaged, Good, Now
<1> HIDE DEF n, A
<1>3. Tame(m, walk, A, c)
  BY DEF Tamed, A
<1>4. Tame(k, walk, A, c) /\ k \in Engine /\ Now(k) = 0
  BY <1>1, <1>2, <1>3, CallbackTame
<1> HIDE DEF k
<1>5. Tame(mDNS_Unlock(k), walk, A, c)
  BY <1>4, UnlockTame
<1>. QED  BY <1>1, <1>4, <1>5 DEF Tamed, A

\* A record is given its time, which is not past
LEMMA SetNextSettles ==
  ASSUME NEW k \in Engine, NEW r \in Record, APTime(k, r) >= 0
  PROVE  Settles(k, SetNextAnnounceProbeTime(k, r))
<1> DEFINE j == SetNextAnnounceProbeTime(k, r)
           a == APTime(k, r)
<1>1. /\ Kept(k, j) /\ j.rec = k.rec /\ j.qst = k.qst
      /\ j.NextScheduledProbe \in {k.NextScheduledProbe, Sooner(k.NextScheduledProbe, a)}
      /\ j.NextScheduledQuery = k.NextScheduledQuery
      /\ j.NextScheduledResponse \in {k.NextScheduledResponse, Sooner(k.NextScheduledResponse, a)}
  BY SetNextFields
<1>2. a \in Int /\ a >= 0 /\ k.NextScheduledProbe \in Int /\ k.NextScheduledResponse \in Int
  BY EngineTypes
<1> HIDE DEF j, a
<1>3. /\ j \in Engine /\ j.NextScheduledEvent = k.NextScheduledEvent
      /\ j.NextCacheCheck = k.NextCacheCheck
  BY <1>1 DEF Kept
<1>4. j.NextScheduledResponse <= k.NextScheduledResponse
  BY <1>1, <1>2 DEF Sooner
<1>5. ASSUME NEW f \in Int, f <= 0, Low(k, f)
      PROVE  j.NextScheduledProbe >= f /\ j.NextScheduledResponse >= f
  BY <1>1, <1>2, <1>5 DEF Sooner, Low
<1>6. Settles(k, j)
  BY <1>1, <1>3, <1>4, <1>5, TimesSettle DEF Low
<1>. QED  BY <1>6 DEF j

\* One record is given a time that is not past, and does not leave
LEMMA PutSettles ==
  ASSUME NEW k \in Engine, NEW r \in Record, NEW c \in RecordState,
         c.LastAPTime + c.ThisAPInterval >= 0, c.RecordType # "Deregistering",
         NEW k1, k1 = PutRecord(k, r, c)
  PROVE  Settles(k, k1) /\ Kept(k, k1) /\ APTime(k1, r) >= 0
<1>1. /\ Kept(k, k1) /\ k1.rec[r] = c
      /\ \A s \in Record : s # r => k1.rec[s] = k.rec[s]
      /\ k1.NextScheduledProbe = k.NextScheduledProbe
      /\ k1.NextScheduledQuery = k.NextScheduledQuery
      /\ k1.NextScheduledResponse = k.NextScheduledResponse
      /\ k1.qst = k.qst
  BY RecordSet
<1>2. APTime(k1, r) >= 0 /\ APTime(k1, r) \in Int
  BY <1>1, EngineTypes DEF APTime, Kept
<1>3. ~Leaving(k1.rec[r])
  BY <1>1 DEF Leaving
<1>4. k1.NextScheduledResponse <= k.NextScheduledResponse
  BY <1>1, EngineTypes
<1>5. \A f \in Int : f <= 0 /\ Low(k, f) =>
        /\ k1.NextScheduledProbe >= f /\ k1.NextScheduledResponse >= f
        /\ APTime(k1, r) >= f
  BY <1>1, <1>2 DEF Low
<1>6. Settles(k, k1)
  BY <1>1, <1>3, <1>4, <1>5, RecordSettles DEF Kept
<1>. QED  BY <1>1, <1>2, <1>3, <1>6

LEMMA ProbeTame ==
  ASSUME Engaged, Probe, NEW c \in Nat, Tamed(c)
  PROVE  Tamed(c)'
<1>1. /\ walk = "SendQueries" /\ frames = <<>> /\ walk' = walk
      /\ m \in Engine /\ left \subseteq Record /\ Typed(m) /\ Sound(m, left, {})
      /\ Answering(walk, left) = {} /\ Answering(walk, left') = {}
  BY DEF Probe, Walking, Engaged, Good, Sound, Typed, Answering, Probing
<1>2. m' \in Engine /\ m'.NextScheduledProbe >= 1
  <2>1. Engaged' /\ walk' = walk
    BY ProbeGood
  <2>. QED  BY <1>1, <2>1 DEF Engaged, Good, Sound, Typed, Walks
<1>3. Now(m) = 0
  BY <1>1, WalkFrames DEF Engaged, Good, Now
<1>4. PICK r \in left : NotProbing(r) \/ NotYetProbing(r) \/ SendProbe(r) \/ FinishProbing(r)
  BY DEF Probe
<1>5. /\ r \in Record /\ m.rec \in [Record -> RecordState] /\ m.rec[r] \in RecordState
      /\ RecordFits(m, r) /\ APTime(m, r) \in Int
  BY <1>1, EngineTypes DEF Typed, Fits
<1>6. ASSUME Settles(m, m'), Holds(m, m'), m'.SuppressSending = m.SuppressSending
      PROVE  Tamed(c)'
  <2>1. Now(m') = 0
    BY <1>3, <1>6 DEF Holds, Now
  <2>2. Tame(m, walk, {}, c)
    BY <1>1 DEF Tamed
  <2>3. Tame(m', walk, {}, c)
    BY <1>2, <1>3, <1>6, <2>1, <2>2, SettledTame
  <2>. QED  BY <1>1, <2>3 DEF Tamed
<1>7. CASE NotProbing(r)
  BY <1>1, <1>6, <1>7, Remains DEF NotProbing, Holds
<1>8. CASE NotYetProbing(r)
  <2>1. m' = SetNextAnnounceProbeTime(m, r) /\ APTime(m, r) >= 0
    BY <1>5, <1>8 DEF NotYetProbing, Due
  <2>2. Settles(m, m') /\ Kept(m, m')
    BY <1>1, <1>5, <2>1, SetNextSettles, SetNextFields
  <2>. QED  BY <1>6, <2>2 DEF Kept, Holds
<1>9. CASE SendProbe(r)
  <2> DEFINE zero == 0
             count == m.rec[r].ProbeCount - 1
             d == [m.rec[r] EXCEPT !.LastAPTime = zero, !.ProbeCount = count]
             b == TRUE
             k == [m EXCEPT !.sending = b]
             k1 == PutRecord(k, r, d)
  <2>1. m.rec[r].RecordType = "Unique"
    BY <1>9 DEF SendProbe
  <2>2. m' = SetNextAnnounceProbeTime(k1, r)
    <3>1. [m EXCEPT !.rec[r].LastAPTime = zero, !.rec[r].ProbeCount = count, !.sending = b]
          = [m EXCEPT !.rec = [[m.rec EXCEPT ![r].LastAPTime = zero] EXCEPT ![r].ProbeCount = count],
                      !.sending = b]
      BY <1>1 DEF Engine
    <3>2. [[m.rec EXCEPT ![r].LastAPTime = zero] EXCEPT ![r].ProbeCount = count]
          = [m.rec EXCEPT ![r] = d]
      BY <1>5
    <3>3. [m EXCEPT !.rec = [m.rec EXCEPT ![r] = d], !.sending = b] = k1
      BY <1>1 DEF PutRecord, Engine
    <3>4. m' = SetNextAnnounceProbeTime([m EXCEPT !.rec[r].LastAPTime = zero,
                                                 !.rec[r].ProbeCount = count, !.sending = b], r)
      BY <1>9 DEF SendProbe
    <3>. QED  BY <3>1, <3>2, <3>3, <3>4
  <2>3. zero \in Int /\ zero = 0 /\ count \in Int /\ b \in BOOLEAN
    BY <1>5 DEF RecordState
  <2> HIDE DEF zero, count, b
  <2>4. /\ d \in RecordState /\ d.RecordType = "Unique" /\ d.LastAPTime = 0
        /\ d.ThisAPInterval = m.rec[r].ThisAPInterval
    BY <1>5, <2>1, <2>3 DEF RecordState
  <2>5. m.rec[r].ThisAPInterval \in Int /\ m.rec[r].ThisAPInterval >= 1
    BY <1>5, <2>1 DEF RecordFits, RecordState
  <2> HIDE DEF d
  <2>6. d.LastAPTime + d.ThisAPInterval >= 0
    BY <2>4, <2>5
  <2>7. /\ Kept(m, k) /\ k.rec = m.rec /\ k.qst = m.qst
        /\ k.NextScheduledProbe = m.NextScheduledProbe
        /\ k.NextScheduledQuery = m.NextScheduledQuery
        /\ k.NextScheduledResponse = m.NextScheduledResponse
    BY <1>1, <2>3 DEF Kept, Engine
  <2> HIDE DEF k
  <2>8. k \in Engine /\ Settles(m, k)
    <3>1. k.NextScheduledResponse <= m.NextScheduledResponse
      BY <1>1, <2>7, EngineTypes
    <3>. QED  BY <1>1, <2>7, <3>1, TimesSettle DEF Kept, Low
  <2>9. k1 = PutRecord(k, r, d)
    OBVIOUS
  <2> HIDE DEF k1
  <2>10. Settles(k, k1) /\ Kept(k, k1) /\ APTime(k1, r) >= 0
    BY <1>5, <2>4, <2>6, <2>8, <2>9, PutSettles
  <2>11. k1 \in Engine
    BY <2>10 DEF Kept
  <2>12. Settles(k1, m') /\ Kept(k1, m')
    BY <1>5, <2>2, <2>10, <2>11, SetNextSettles, SetNextFields
  <2>13. Settles(m, m')
    BY <2>8, <2>10, <2>12, SettlesOn
  <2>. QED  BY <1>6, <2>7, <2>10, <2>12, <2>13 DEF Kept, Holds
<1>10. CASE FinishProbing(r)
  <2> DEFINE last == -AnnounceInterval
             d == [m.rec[r] EXCEPT !.RecordType = "Verified", !.ThisAPInterval = AnnounceInterval,
                                   !.LastAPTime = last]
             k1 == PutRecord(m, r, d)
             j == SetNextAnnounceProbeTime(k1, r)
             n == j.mDNS_reentrancy + 1
  <2>1. m' = [j EXCEPT !.mDNS_reentrancy = n]
    <3>1. [m EXCEPT !.rec[r].RecordType = "Verified", !.rec[r].ThisAPInterval = AnnounceInterval,
                    !.rec[r].LastAPTime = last]
          = [m EXCEPT !.rec = [[[m.rec EXCEPT ![r].RecordType = "Verified"]
                                    EXCEPT ![r].ThisAPInterval = AnnounceInterval]
                                    EXCEPT ![r].LastAPTime = last]]
      BY <1>1 DEF Engine
    <3>2. [[[m.rec EXCEPT ![r].RecordType = "Verified"] EXCEPT ![r].ThisAPInterval = AnnounceInterval]
               EXCEPT ![r].LastAPTime = last] = [m.rec EXCEPT ![r] = d]
      BY <1>5
    <3>3. [m EXCEPT !.rec[r].RecordType = "Verified", !.rec[r].ThisAPInterval = AnnounceInterval,
                    !.rec[r].LastAPTime = last] = k1
      BY <3>1, <3>2 DEF PutRecord
    <3>4. Callback(SetNextAnnounceProbeTime(
                     [m EXCEPT !.rec[r].RecordType = "Verified",
                               !.rec[r].ThisAPInterval = AnnounceInterval,
                               !.rec[r].LastAPTime = last], r), "walk")
      BY <1>10 DEF FinishProbing
    <3>5. Callback(j, "walk")
      BY <3>3, <3>4
    <3> HIDE DEF j
    <3>. QED  BY <1>1, <3>5 DEF Callback
  <2>2. last \in Int /\ last + AnnounceInterval = 0
    BY Intervals
  <2> HIDE DEF last
  <2>3. /\ d \in RecordState /\ d.RecordType = "Verified" /\ d.LastAPTime = last
        /\ d.ThisAPInterval = AnnounceInterval
    BY <1>5, <2>2, Intervals DEF RecordState
  <2> HIDE DEF d
  <2>4. d.LastAPTime + d.ThisAPInterval >= 0
    BY <2>2, <2>3
  <2>5. k1 = PutRecord(m, r, d)
    OBVIOUS
  <2> HIDE DEF k1
  <2>6. Settles(m, k1) /\ Kept(m, k1) /\ APTime(k1, r) >= 0
    BY <1>1, <1>5, <2>3, <2>4, <2>5, PutSettles
  <2>7. k1 \in Engine
    BY <2>6 DEF Kept
  <2>8. Settles(k1, j) /\ Kept(k1, j)
    BY <1>5, <2>6, <2>7, SetNextSettles, SetNextFields
  <2> HIDE DEF j
  <2>9. j \in Engine /\ n \in Int
    BY <2>8, EngineTypes DEF Kept
  <2> HIDE DEF n
  <2>10. /\ m'.timenow_last = j.timenow_last /\ m'.timenow_adjust = j.timenow_adjust
         /\ m'.mDNS_busy = j.mDNS_busy /\ m'.SuppressSending = j.SuppressSending
         /\ m'.NextScheduledEvent = j.NextScheduledEvent
         /\ m'.NextCacheCheck = j.NextCacheCheck
         /\ m'.NextScheduledQuery = j.NextScheduledQuery
         /\ m'.NextScheduledProbe = j.NextScheduledProbe
         /\ m'.NextScheduledResponse = j.NextScheduledResponse
         /\ m'.rec = j.rec /\ m'.qst = j.qst
    BY <2>1, <2>9 DEF Engine
  <2>11. Settles(j, m')
    <3>1. m'.NextScheduledResponse <= j.NextScheduledResponse
      BY <2>9, <2>10, EngineTypes
    <3>. QED  BY <1>2, <2>9, <2>10, <3>1, TimesSettle DEF Low
  <2>12. Settles(m, m')
    BY <2>6, <2>8, <2>11, SettlesOn
  <2>. QED  BY <1>2, <1>6, <2>6, <2>8, <2>10, <2>12 DEF Kept, Holds
<1>. QED  BY <1>4, <1>7, <1>8, <1>9, <1>10

--------------------------------------------------------------------------------
(* What the engine leaves when it comes to rest *)

\* When mDNS_Execute has run, times lie behind no further than the event it waits for
Fresh(k, s) ==
  /\ k.NextScheduledEvent >= Now(k) - s
  /\ IF k.SuppressSending = NotSet
     THEN /\ Low(k, k.NextScheduledEvent)
          /\ \A r \in Record : Leaving(k.rec[r]) => Gap(k, r, 1 + 2 * s)
     ELSE k.SuppressSending >= k.NextScheduledEvent

\* What lies ahead
Clear(k) ==
  /\ k.SuppressSending # NotSet => k.SuppressSending >= 1
  /\ k.NextCacheCheck >= 1
  /\ k.NextScheduledQuery >= 1
  /\ k.NextScheduledProbe >= 1
  /\ k.NextScheduledResponse >= 1

\* Nothing is due when it unlocks, or packets are held back
LEMMA UnlockFresh ==
  ASSUME NEW j, Sound(j, {}, {}), j.timenow_last = 0, j.mDNS_busy <= 1, NEW s \in Nat,
         ~Blocks, NoDependencies,
         Clear(j) \/ (j.SuppressSending # NotSet /\ j.SuppressSending >= 1),
         Farewell(mDNS_Unlock(j), "none", {}, 1 + 2 * s)
  PROVE  /\ Fresh(mDNS_Unlock(j), s)
         /\ Clear(j) => Low(mDNS_Unlock(j), 0)
<1> DEFINE u == mDNS_Unlock(j)
           e == Soonest({j.NextCacheCheck, j.NextScheduledQuery, j.NextScheduledProbe,
                         j.NextScheduledResponse})
<1>1. j \in Engine
  BY DEF Sound, Typed
<1>2. /\ j.NextCacheCheck \in Int /\ j.NextScheduledQuery \in Int /\ j.NextScheduledProbe \in Int
      /\ j.NextScheduledResponse \in Int /\ j.mDNS_busy \in Int
      /\ j.SuppressSending \in Int \union {NotSet}
  BY <1>1, EngineTypes
<1>3. /\ u.NextScheduledEvent = (IF j.NewQuestions # {} THEN 0
                                 ELSE IF j.SuppressSending # NotSet THEN j.SuppressSending ELSE e)
      /\ u \in Engine /\ u.timenow_last = 0
      /\ u.SuppressSending = j.SuppressSending /\ u.NextCacheCheck = j.NextCacheCheck
      /\ u.NextScheduledQuery = j.NextScheduledQuery
      /\ u.NextScheduledProbe = j.NextScheduledProbe
      /\ u.NextScheduledResponse = j.NextScheduledResponse
  <2>1. ~(j.mDNS_busy > 1)
    BY <1>2
  <2>. QED  BY <1>1, <2>1, UnlockFields DEF GetNextScheduledEvent
<1>4. e \in Int /\ e <= j.NextCacheCheck /\ e <= j.NextScheduledQuery
      /\ e <= j.NextScheduledProbe /\ e <= j.NextScheduledResponse
      /\ e \in {j.NextCacheCheck, j.NextScheduledQuery, j.NextScheduledProbe,
                j.NextScheduledResponse, Horizon}
  BY <1>2, SoonestOfFour, Parameters
<1>5. Sound(u, {}, {})
  BY UnlockSound
<1> HIDE DEF e, u
<1>6. Now(u) = 0
  BY <1>3 DEF Now
<1>7. u.NextScheduledEvent >= 0 /\ u.NextScheduledEvent \in Int
  BY <1>1, <1>2, <1>3, <1>4, Parameters DEF Clear
<1>8. ASSUME Clear(j) PROVE Low(u, 0)
  <2>1. /\ 1 \in Int /\ 0 \in Int /\ 0 <= 1 /\ 1 >= 1 /\ u.NextScheduledEvent >= 0
        /\ u.NextCacheCheck >= 1 /\ u.NextScheduledQuery >= 1
        /\ u.NextScheduledProbe >= 1 /\ u.NextScheduledResponse >= 1
    BY <1>3, <1>7, <1>8 DEF Clear
  <2>. QED  BY <1>5, <1>6, <2>1, AheadLow
<1>9. ASSUME j.SuppressSending = NotSet, Clear(j) PROVE Low(u, u.NextScheduledEvent)
  <2>1. CASE j.NewQuestions # {}
    BY <1>3, <1>8, <1>9, <2>1
  <2>2. CASE j.NewQuestions = {}
    <3>1. u.NextScheduledEvent = e /\ e >= 1
      BY <1>2, <1>3, <1>4, <1>9, <2>2, Parameters DEF Clear
    <3>2. /\ u.NextCacheCheck >= e /\ u.NextScheduledQuery >= e
          /\ u.NextScheduledProbe >= e /\ u.NextScheduledResponse >= e
          /\ u.NextScheduledEvent >= e /\ e <= e
      BY <1>2, <1>3, <1>4, <3>1
    <3>3. Low(u, e)
      BY <1>4, <1>5, <1>6, <3>1, <3>2, AheadLow
    <3>. QED  BY <3>1, <3>3
  <2>. QED  BY <2>1, <2>2
<1>10. ASSUME Clear(j), NEW r \in Record, Leaving(u.rec[r]) PROVE Gap(u, r, 1 + 2 * s)
  <2>1. ~Wanted(u, "none", r, 1 + 2 * s)
    BY <1>2, <1>3, <1>6, <1>10 DEF Wanted, Clear
  <2>. QED  BY <1>10, <2>1 DEF Farewell, u
<1>11. u.NextScheduledEvent >= Now(u) - s
  BY <1>6, <1>7
<1>12. CASE j.SuppressSending # NotSet
  <2>1. j.SuppressSending \in Int /\ j.SuppressSending >= 1
    BY <1>2, <1>12 DEF Clear
  <2>2. u.SuppressSending >= u.NextScheduledEvent
    BY <1>3, <1>12, <2>1
  <2>3. Fresh(u, s)
    BY <1>3, <1>11, <1>12, <2>2 DEF Fresh
  <2>. QED  BY <1>8, <2>3 DEF u
<1>13. CASE j.SuppressSending = NotSet
  <2>1. Fresh(u, s)
    BY <1>3, <1>9, <1>10, <1>11, <1>13 DEF Fresh
  <2>. QED  BY <1>8, <2>1 DEF u
<1>. QED  BY <1>12, <1>13

\* The walk is over
LEMMA EndTame ==
  ASSUME NEW j, Sound(j, {}, {}), j.timenow_last = 0, j.mDNS_busy <= 1, Clear(j),
         ~Blocks, NoDependencies, NEW s \in Nat, NEW c \in Nat, c = 1 + 2 * s,
         NEW w, w # "none", Tame(j, w, {}, c)
  PROVE  Tame(mDNS_Unlock(j), "none", {}, c) /\ Fresh(mDNS_Unlock(j), s)
<1> DEFINE u == mDNS_Unlock(j)
<1>1. j \in Engine
  BY DEF Sound, Typed
<1>2. /\ j.NextScheduledResponse \in Int /\ j.SuppressSending \in Int \union {NotSet}
      /\ TenthSecond \in Int /\ TenthSecond >= 1 /\ Now(j) = 0
  BY <1>1, EngineTypes, Parameters DEF Now
<1>3. /\ u \in Engine /\ u.timenow_last = 0
      /\ u.SuppressSending = j.SuppressSending
      /\ u.NextScheduledResponse = j.NextScheduledResponse
      /\ u.rec = j.rec
  BY <1>1, UnlockFields
<1> HIDE DEF u
<1>4. Now(u) = 0 /\ \A r \in Record : APTime(u, r) = APTime(j, r)
  BY <1>3 DEF Now, APTime
<1>5. Farewell(u, "none", {}, c)
  <2>1. ASSUME NEW r \in Record, Leaving(u.rec[r]) PROVE Gap(u, r, c)
    <3>1. Gap(j, r, c) \/ Wanted(j, w, r, c)
      BY <1>3, <2>1 DEF Tame, Farewell
    <3>2. ~Wanted(j, w, r, c)
      BY <1>2 DEF Wanted, Clear
    <3>. QED  BY <1>3, <1>4, <3>1, <3>2 DEF Gap
  <2>. QED  BY <2>1 DEF Farewell
<1>6. Fresh(u, s) /\ Low(u, 0)
  BY <1>5, UnlockFresh DEF u
<1>7. j.SuppressSending # NotSet => j.SuppressSending >= 1 /\ j.SuppressSending <= TenthSecond
  BY <1>2 DEF Tame, Clear
<1>8. Floor(u, "none", c) \in Int /\ Floor(u, "none", c) <= 0
  BY <1>2, <1>3, <1>4, <1>7 DEF Floor
<1>9. Low(u, Floor(u, "none", c))
  BY <1>3, <1>6, <1>8, LowMore
<1>10. u.SuppressSending # NotSet
         => Now(u) - c <= u.SuppressSending /\ u.SuppressSending <= Now(u) + TenthSecond
  BY <1>2, <1>3, <1>4, <1>7
<1>11. Tame(u, "none", {}, c)
  BY <1>5, <1>9, <1>10 DEF Tame
<1>. QED  BY <1>6, <1>11 DEF u

LEMMA PrepareTame ==
  ASSUME NEW k, Sound(k, {}, {}), k.timenow_last = 0, NEW known,
         NEW c \in Nat, Tame(k, "none", {}, c)
  PROVE  Tame(Prepare(k, known), "none", {}, c)
<1> DEFINE j == Prepare(k, known)
<1>1. k \in Engine
  BY DEF Sound, Typed
<1>2. /\ Sound(j, {}, {}) /\ j.timenow_last = k.timenow_last
      /\ j.SuppressSending = k.SuppressSending
  BY PrepareSound
<1>3. PICK i : /\ i \in Engine /\ i.rec = k.rec /\ i.qst = k.qst
               /\ i.NextScheduledEvent = k.NextScheduledEvent
               /\ i.NextCacheCheck \in {k.NextCacheCheck, CacheHorizon}
               /\ i.NextScheduledProbe = k.NextScheduledProbe
               /\ i.NextScheduledQuery = k.NextScheduledQuery
               /\ i.NextScheduledResponse = k.NextScheduledResponse
               /\ Asks(i, j)
  BY PrepareSound
<1> HIDE DEF j
<1>4. Settles(k, i)
  <2>1. i.NextScheduledResponse <= k.NextScheduledResponse
    BY <1>1, <1>3, EngineTypes
  <2>2. ASSUME NEW f \in Int, f <= 0, Low(k, f) PROVE i.NextCacheCheck >= f
    BY <1>3, <2>2, Parameters DEF Low
  <2>. QED  BY <1>1, <1>3, <2>1, <2>2, TimesSettle DEF Low
<1>5. Settles(k, j)
  BY <1>3, <1>4, AsksSettles, SettlesOn
<1>6. Now(k) = 0 /\ Now(j) = 0
  BY <1>2 DEF Now
<1>7. Tame(j, "none", {}, c)
  BY <1>2, <1>5, <1>6, SettledTame
<1>. QED  BY <1>7 DEF j

\* Packets are sent again: how far times lie behind does not depend on SuppressSending
LEMMA SendsTame ==
  ASSUME NEW k \in Engine, NEW c \in Nat, Tame(k, "none", {}, c), Now(k) = 0, MaySend(k),
         NEW j \in Engine, Now(j) = 0, j.SuppressSending = NotSet,
         j.rec = k.rec, j.NextScheduledProbe >= 1,
         j.NextScheduledEvent = k.NextScheduledEvent,
         j.NextCacheCheck = k.NextCacheCheck,
         j.NextScheduledResponse = k.NextScheduledResponse,
         j.NextScheduledQuery >= 0 \/ j.NextScheduledQuery = k.NextScheduledQuery,
         \A q \in Question : j.qst[q].asked => j.qst[q] = k.qst[q] \/ QTime(j, q) >= 0
  PROVE  Tame(j, "SendQueries", {}, c)
<1> DEFINE f == -Deep(c)
<1>1. /\ Deep(c) \in Nat /\ Bottom(c) \in Nat
      /\ Floor(k, "none", c) \in Int /\ Floor(k, "none", c) >= -Deep(c)
      /\ TenthSecond \in Int /\ TenthSecond >= 1
      /\ k.SuppressSending \in Int \union {NotSet}
      /\ Bottom(c) = TenthSecond + 2 * Deep(c) /\ Deep(c) = TenthSecond + 2 * c
  BY FloorFacts, EngineTypes, Parameters DEF Bottom, Deep
<1>2. f \in Int /\ f <= 0 /\ Low(k, f)
  BY <1>1, LowMore DEF Tame
<1>3. \A r \in Record : APTime(j, r) = APTime(k, r) /\ APTime(j, r) \in Int
  BY EngineTypes DEF APTime
<1>4. \A q \in Question : QTime(j, q) \in Int
  BY EngineTypes
<1>5. j.NextScheduledQuery \in Int /\ j.NextScheduledProbe \in Int /\ k.NextScheduledResponse \in Int
  BY EngineTypes
<1>6. Low(j, f)
  <2> HIDE DEF f
  <2>1. \A q \in Question : j.qst[q].asked => QTime(j, q) >= f
    BY <1>2, <1>4 DEF Low, QTime
  <2>. QED  BY <1>2, <1>3, <1>5, <2>1 DEF Low
<1>7. ASSUME NEW r \in Record, Leaving(j.rec[r])
      PROVE  Gap(j, r, c) \/ Wanted(j, "SendQueries", r, c)
  <2>1. CASE Gap(k, r, c)
    BY <1>3, <2>1 DEF Gap
  <2>2. CASE Wanted(k, "none", r, c)
    <3>1. k.SuppressSending # NotSet => k.SuppressSending >= -c
      BY <1>1 DEF Tame
    <3>2. APTime(j, r) >= -Bottom(c)
      BY <1>1, <1>3, <2>2, <3>1 DEF Wanted
    <3>. QED  BY <2>2, <3>2 DEF Wanted
  <2>. QED  BY <1>7, <2>1, <2>2 DEF Tame, Farewell
<1>8. Farewell(j, "SendQueries", {}, c)
  BY <1>7 DEF Farewell
<1>9. Low(j, Floor(j, "SendQueries", c))
  BY <1>6 DEF Floor
<1>. QED  BY <1>8, <1>9 DEF Tame

LEMMA ExecuteTame ==
  ASSUME Engaged, Execute, ~Blocks, NoDependencies, HasCache,
         NEW s \in Nat, NEW c \in Nat, c = 1 + 2 * s, c <= Half, Tamed(c)
  PROVE  Tamed(c)' /\ (walk' = "none" => Fresh(m', s))
<1> DEFINE k == mDNS_Lock(m)
<1>1. /\ walk = "none" /\ frames = <<>> /\ m \in Engine /\ Fits(m)
      /\ m.mDNS_busy = 0 /\ Awaits(m) /\ Answering(walk, left) = {}
      /\ Answering("none", left) = {} /\ Answering("SendQueries", left') = {}
  <2>1. walk = "none" /\ frames = <<>>
    BY DEF Execute
  <2>2. /\ Frames(walk, frames) /\ m \in Engine /\ Fits(m)
        /\ m.mDNS_busy = Depth(walk, frames) /\ (Depth(walk, frames) = 0 => Awaits(m))
    BY DEF Engaged, Good, Sound, Typed
  <2>3. Depth(walk, frames) = 0
    BY <2>1, <2>2, DepthFacts
  <2>. QED  BY <2>1, <2>2, <2>3 DEF Answering
<1>2. /\ Sound(k, {}, {}) /\ k.timenow_last = 0 /\ k.mDNS_busy = 1
  BY <1>1, LockGood DEF Engaged, Probing, Answering
<1>3. Awaits(k)
  BY <1>1, LockAwaits
<1>4. Tame(k, "none", {}, c)
  BY <1>1, LockTame DEF Tamed
<1> HIDE DEF k
<1>5. k \in Engine /\ k.NextScheduledEvent \in Int /\ Now(k) = 0
  BY <1>2, EngineTypes DEF Sound, Typed, Now
<1>6. ASSUME NEW j, Sound(j, {}, {}), j.timenow_last = 0, j.mDNS_busy = 1, Tame(j, "none", {}, c),
             Clear(j) \/ (j.SuppressSending # NotSet /\ j.SuppressSending >= 1),
             m' = mDNS_Unlock(j), walk' = walk, left' = left
      PROVE  Tamed(c)' /\ Fresh(m', s)
  <2>1. j \in Engine /\ Now(j) = 0 /\ j.mDNS_busy <= 1
    BY <1>6 DEF Sound, Typed, Now
  <2>2. Tame(m', "none", {}, c)
    BY <1>6, <2>1, UnlockTame
  <2>3. Fresh(m', s)
    BY <1>6, <2>1, <2>2, UnlockFresh DEF Tame
  <2>. QED  BY <1>1, <1>6, <2>2, <2>3 DEF Tamed
<1>7. CASE ~Due(k.NextScheduledEvent)
  <2>1. m' = mDNS_Unlock(k) /\ walk' = walk /\ left' = left
    BY <1>7 DEF Execute, k
  <2>2. k.NextScheduledEvent >= 1
    BY <1>5, <1>7 DEF Due
  <2>3. /\ k.NextCacheCheck \in Int /\ k.NextScheduledQuery \in Int
        /\ k.NextScheduledProbe \in Int /\ k.NextScheduledResponse \in Int
        /\ k.SuppressSending \in Int \union {NotSet}
    BY <1>5, EngineTypes
  <2>4. Clear(k) \/ (k.SuppressSending # NotSet /\ k.SuppressSending >= 1)
    BY <1>3, <1>5, <2>2, <2>3 DEF Awaits, Clear
  <2>. QED  BY <1>2, <1>4, <1>6, <2>1, <2>4
<1>8. CASE Due(k.NextScheduledEvent)
  <2>1. PICK known \in SUBSET k.NewQuestions :
          LET k1 == Prepare(k, known)
              k2 == [k1 EXCEPT !.SuppressSending = NotSet]
              k3 == IF Due(k2.NextScheduledQuery) THEN SendQuestions(k2) ELSE k2
          IN IF ~MaySend(k1)
             THEN m' = mDNS_Unlock(k1) /\ UNCHANGED <<walk, left>>
             ELSE /\ walk' = "SendQueries"
                  /\ IF Due(k3.NextScheduledProbe)
                     THEN /\ m' = [k3 EXCEPT !.NextScheduledProbe = Horizon]
                          /\ left' = Registered(k3)
                     ELSE m' = k3 /\ left' = {}
    BY <1>8 DEF Execute, k
  <2> DEFINE k1 == Prepare(k, known)
             k2 == [k1 EXCEPT !.SuppressSending = NotSet]
             k3 == IF Due(k2.NextScheduledQuery) THEN SendQuestions(k2) ELSE k2
             k4 == [k3 EXCEPT !.NextScheduledProbe = Horizon]
  <2>2. Sound(k1, {}, {}) /\ k1.timenow_last = 0 /\ k1.mDNS_busy = 1 /\ Tame(k1, "none", {}, c)
    BY <1>2, <1>4, PrepareSound, PrepareTame
  <2>3. /\ IF ~MaySend(k1) THEN m' = mDNS_Unlock(k1) /\ UNCHANGED <<walk, left>>
           ELSE /\ walk' = "SendQueries"
                /\ m' = IF Due(k3.NextScheduledProbe) THEN k4 ELSE k3
    BY <2>1
  <2> HIDE DEF k1
  <2>4. k1 \in Engine /\ Now(k1) = 0
    BY <2>2 DEF Sound, Typed, Now
  <2>5. CASE ~MaySend(k1)
    <3>1. k1.SuppressSending # NotSet /\ k1.SuppressSending >= 1
      BY <2>4, <2>5, EngineTypes DEF MaySend, Due
    <3>. QED  BY <1>6, <2>2, <2>3, <2>5, <3>1
  <2>6. CASE MaySend(k1)
    <3>1. walk' = "SendQueries" /\ m' = IF Due(k3.NextScheduledProbe) THEN k4 ELSE k3
      BY <2>3, <2>6
    <3>2. /\ k2 \in Engine /\ k2.SuppressSending = NotSet /\ k2.timenow_last = 0
          /\ k2.NextScheduledEvent = k1.NextScheduledEvent
          /\ k2.NextCacheCheck = k1.NextCacheCheck
          /\ k2.NextScheduledProbe = k1.NextScheduledProbe
          /\ k2.NextScheduledQuery = k1.NextScheduledQuery
          /\ k2.NextScheduledResponse = k1.NextScheduledResponse
          /\ k2.SuppressProbes = k1.SuppressProbes
          /\ k2.rec = k1.rec /\ k2.qst = k1.qst
      BY <2>2, <2>4 DEF Engine
    <3> HIDE DEF k2
    <3>3. Asks(k2, k3)
      <4>1. CASE Due(k2.NextScheduledQuery)
        <5>1. Now(k2) >= Now(k1) /\ Holding(k1, k2)
          BY <2>2, <2>4, <3>2, HoldingSame DEF Now, Sound
        <5>2. Sound(k2, {}, {})
          BY <2>2, <3>2, <5>1, SoundSame
        <5>. QED  BY <4>1, <5>2, SendQuestionsSound
      <4>2. CASE ~Due(k2.NextScheduledQuery)
        BY <3>2, <4>2 DEF Asks, Kept
      <4>. QED  BY <4>1, <4>2
    <3> HIDE DEF k3
    <3>4. /\ k3 \in Engine /\ k3.SuppressSending = NotSet /\ k3.timenow_last = 0
          /\ k3.rec = k1.rec
          /\ k3.NextScheduledEvent = k1.NextScheduledEvent
          /\ k3.NextCacheCheck = k1.NextCacheCheck
          /\ k3.NextScheduledResponse = k1.NextScheduledResponse
          /\ k3.NextScheduledQuery >= 0 \/ k3.NextScheduledQuery = k1.NextScheduledQuery
          /\ \A q \in Question : k3.qst[q].asked => k3.qst[q] = k1.qst[q] \/ QTime(k3, q) >= 0
      BY <3>2, <3>3 DEF Asks, Kept
    <3>5. ASSUME NEW j \in Engine, j.timenow_last = 0, j.SuppressSending = NotSet,
                 j.rec = k3.rec, j.NextScheduledProbe >= 1,
                 j.NextScheduledEvent = k3.NextScheduledEvent,
                 j.NextCacheCheck = k3.NextCacheCheck,
                 j.NextScheduledResponse = k3.NextScheduledResponse,
                 j.NextScheduledQuery = k3.NextScheduledQuery, j.qst = k3.qst
          PROVE  Tame(j, "SendQueries", {}, c)
      <4>1. Now(j) = 0 /\ \A q \in Question : QTime(j, q) = QTime(k3, q)
        BY <3>5 DEF Now, QTime
      <4>. QED  BY <2>2, <2>4, <2>6, <3>4, <3>5, <4>1, SendsTame
    <3>6. CASE Due(k3.NextScheduledProbe)
      <4>1. /\ k4 \in Engine /\ k4.timenow_last = 0 /\ k4.SuppressSending = NotSet
            /\ k4.rec = k3.rec /\ k4.NextScheduledProbe = Horizon
            /\ k4.NextScheduledEvent = k3.NextScheduledEvent
            /\ k4.NextCacheCheck = k3.NextCacheCheck
            /\ k4.NextScheduledResponse = k3.NextScheduledResponse
            /\ k4.NextScheduledQuery = k3.NextScheduledQuery /\ k4.qst = k3.qst
        BY <3>4, Parameters DEF Engine
      <4> HIDE DEF k4
      <4>2. Tame(k4, "SendQueries", {}, c)
        BY <3>5, <4>1, Parameters
      <4>. QED  BY <1>1, <3>1, <3>6, <4>2 DEF Tamed
    <3>7. CASE ~Due(k3.NextScheduledProbe)
      <4>1. k3.NextScheduledProbe >= 1
        BY <3>4, <3>7, EngineTypes DEF Due
      <4>2. Tame(k3, "SendQueries", {}, c)
        BY <3>4, <3>5, <4>1
      <4>. QED  BY <1>1, <3>1, <3>7, <4>2 DEF Tamed
    <3>. QED  BY <3>6, <3>7
  <2>. QED  BY <2>5, <2>6
<1>. QED  BY <1>7, <1>8

\* Packets that were sent hold back others
LEMMA SuppressTame ==
  ASSUME NEW k, NEW P, NEW A, Sound(k, P, A), NEW w, w # "none", NEW B, NEW c \in Nat,
         Tame(k, w, B, c), k.timenow_last = 0
  PROVE  Tame(Suppress(k), w, B, c)
<1> DEFINE j == Suppress(k)
<1>1. k \in Engine
  BY DEF Sound, Typed
<1>2. /\ Sound(j, P, A) /\ j.timenow_last = k.timenow_last
      /\ j.SuppressSending \in {k.SuppressSending, TenthSecond}
      /\ j.NextCacheCheck = k.NextCacheCheck
      /\ j.NextScheduledEvent = k.NextScheduledEvent
      /\ j.rec = k.rec /\ j.qst = k.qst
      /\ j.NextScheduledProbe = k.NextScheduledProbe
      /\ j.NextScheduledQuery = k.NextScheduledQuery
      /\ j.NextScheduledResponse = k.NextScheduledResponse
  BY SuppressSound
<1> HIDE DEF j
<1>3. /\ Now(k) = 0 /\ Now(j) = 0
      /\ \A r \in Record : APTime(j, r) = APTime(k, r)
      /\ \A q \in Question : QTime(j, q) = QTime(k, q)
  BY <1>2 DEF Now, APTime, QTime
<1>4. Low(j, Floor(j, w, c))
  BY <1>2, <1>3 DEF Tame, Low, Floor
<1>5. Farewell(j, w, B, c)
  BY <1>2, <1>3 DEF Tame, Farewell, Gap, Wanted
<1>6. j.SuppressSending # NotSet
        => Now(j) - c <= j.SuppressSending /\ j.SuppressSending <= Now(j) + TenthSecond
  <2>1. TenthSecond \in Int /\ TenthSecond >= 1
    BY Parameters
  <2>2. CASE j.SuppressSending = k.SuppressSending
    BY <1>3, <2>2 DEF Tame
  <2>3. CASE j.SuppressSending = TenthSecond
    BY <1>3, <2>1, <2>3
  <2>. QED  BY <1>2, <2>2, <2>3
<1>7. Tame(j, w, B, c)
  BY <1>2, <1>4, <1>5, <1>6 DEF Tame
<1>. QED  BY <1>7 DEF j

LEMMA NoBlockedProbe ==
  ASSUME NEW k, Fits(k), ~Blocks
  PROVE  ~BlockedProbe(k)
BY DEF Fits, RecordFits, BlockFits, BlockedProbe

\* The walk comes to every record that waits for its goodbye
LEMMA AnswersTame ==
  ASSUME NEW k, Sound(k, {}, {}), Ahead(k), k.timenow_last = 0, NEW ends,
         ~Blocks, NEW c \in Nat, Tame(k, "SendQueries", {}, c)
  PROVE  Tame(SendResponses(k, ends), "SendResponses", Registered(k), c)
<1> DEFINE j == SendResponses(k, ends)
           f == -Deep(c)
<1>1. k \in Engine /\ k.NextScheduledProbe >= 1
  BY DEF Sound, Typed, Tame
<1>2. /\ Sound(j, {}, Registered(k))
      /\ j.timenow_last = k.timenow_last
      /\ j.SuppressSending \in {k.SuppressSending, TenthSecond}
      /\ j.NextCacheCheck = k.NextCacheCheck
      /\ Ahead(j) /\ j.NextScheduledResponse >= 1
      /\ j.NextScheduledProbe >= 1 \/ BlockedProbe(j)
      /\ j.NextScheduledEvent = k.NextScheduledEvent
      /\ j.qst = k.qst
      /\ \A r \in Record : j.rec[r] = k.rec[r]
                           \/ /\ j.rec[r].RecordType \in {"Shared", "Verified"}
                              /\ APTime(j, r) >= 1
  BY <1>1, SendResponsesSound
<1> HIDE DEF j
<1>3. j \in Engine /\ j.NextScheduledProbe >= 1 /\ Now(k) = 0 /\ Now(j) = 0
  BY <1>2, NoBlockedProbe DEF Sound, Typed, Now
<1>4. /\ TenthSecond \in Int /\ TenthSecond >= 1
      /\ Deep(c) \in Nat /\ Bottom(c) = TenthSecond + 2 * Deep(c)
      /\ f \in Int /\ f <= 0 /\ Low(k, f)
  <2>1. Deep(c) \in Nat
    BY Parameters DEF Deep
  <2>. QED  BY <2>1, Parameters DEF Bottom, Tame, Floor
<1>5. /\ k.NextScheduledResponse \in Int /\ j.NextScheduledResponse \in Int
      /\ j.NextScheduledQuery \in Int /\ j.NextScheduledProbe \in Int
      /\ \A r \in Record : APTime(k, r) \in Int /\ APTime(j, r) \in Int
  BY <1>1, <1>3, EngineTypes
<1>6. Low(j, f)
  <2> HIDE DEF f
  <2>1. ASSUME NEW r \in Record, Counts(j.rec[r]) PROVE APTime(j, r) >= f
    <3>1. CASE j.rec[r] = k.rec[r]
      BY <1>4, <2>1, <3>1 DEF Low, APTime
    <3>2. CASE APTime(j, r) >= 1
      BY <1>4, <1>5, <3>2
    <3>. QED  BY <1>2, <3>1, <3>2
  <2>2. \A q \in Question : QTime(j, q) = QTime(k, q)
    BY <1>2 DEF QTime
  <2>3. /\ j.NextScheduledQuery >= f /\ j.NextScheduledProbe >= f
        /\ j.NextScheduledResponse >= f
    BY <1>2, <1>3, <1>4, <1>5 DEF Ahead
  <2>. QED  BY <1>2, <1>4, <2>1, <2>2, <2>3 DEF Low
<1>7. ASSUME NEW r \in Record, Leaving(j.rec[r])
      PROVE  r \in Registered(k) /\ APTime(j, r) >= -Bottom(c)
  <2>1. j.rec[r] = k.rec[r]
    BY <1>2, <1>7 DEF Leaving
  <2>2. Leaving(k.rec[r]) /\ APTime(j, r) = APTime(k, r)
    BY <1>7, <2>1 DEF APTime
  <2>3. Gap(k, r, c) \/ Wanted(k, "SendQueries", r, c)
    BY <2>2 DEF Tame, Farewell
  <2>4. CASE Gap(k, r, c)
    <3>1. k.NextScheduledResponse >= -Deep(c)
      BY <1>4 DEF Low
    <3>. QED  BY <1>4, <1>5, <2>2, <2>4, <3>1 DEF Gap, Registered, Leaving
  <2>5. CASE Wanted(k, "SendQueries", r, c)
    BY <2>2, <2>5 DEF Wanted, Registered, Leaving
  <2>. QED  BY <2>3, <2>4, <2>5
<1>8. j.SuppressSending # NotSet
        => Now(j) - c <= j.SuppressSending /\ j.SuppressSending <= Now(j) + TenthSecond
  <2>1. CASE j.SuppressSending = k.SuppressSending
    BY <1>3, <2>1 DEF Tame
  <2>2. CASE j.SuppressSending = TenthSecond
    BY <1>3, <1>4, <2>2
  <2>. QED  BY <1>2, <2>1, <2>2
<1>9. Tame(j, "SendResponses", Registered(k), c)
  <2>1. Low(j, Floor(j, "SendResponses", c))
    BY <1>6 DEF Floor
  <2>. QED  BY <1>3, <1>7, <1>8, <2>1 DEF Tame, Farewell
<1>. QED  BY <1>9 DEF j

LEMMA QueriesSentTame ==
  ASSUME Engaged, QueriesSent, ~Blocks, NoDependencies, HasCache,
         NEW s \in Nat, NEW c \in Nat, c = 1 + 2 * s, Tamed(c)
  PROVE  Tamed(c)' /\ (walk' = "none" => Fresh(m', s))
<1> DEFINE i == Suppress(m)
           k == PutOffQueries(i)
<1>1. /\ walk = "SendQueries" /\ frames = <<>> /\ left = {}
      /\ m \in Engine /\ Sound(m, {}, {}) /\ Walks(m, walk)
      /\ m.mDNS_busy = Depth(walk, frames)
      /\ Depth(walk, frames) # 0 => m.timenow_last = 0
  BY DEF QueriesSent, Walking, Engaged, Good, Sound, Typed, Probing, Answering
<1>2. m.timenow_last = 0 /\ m.mDNS_busy = 1
  BY <1>1, WalkFrames
<1>3. Tame(m, walk, {}, c)
  BY <1>1 DEF Tamed, Answering
<1>4. /\ Sound(i, {}, {}) /\ i.timenow_last = 0 /\ i.mDNS_busy = 1
      /\ i.SuppressSending \in {m.SuppressSending, TenthSecond}
      /\ i.NextCacheCheck = m.NextCacheCheck
      /\ i.NextScheduledProbe = m.NextScheduledProbe
      /\ i.NextScheduledQuery = m.NextScheduledQuery
      /\ i.SuppressProbes = m.SuppressProbes
  BY <1>1, <1>2, SuppressSound
<1>5. Tame(i, "SendQueries", {}, c)
  BY <1>1, <1>2, <1>3, SuppressTame
<1> HIDE DEF i
<1>6. /\ i \in Engine /\ Ahead(i) /\ i.NextScheduledProbe >= 1
      /\ i.SuppressSending # NotSet => i.SuppressSending >= 1
      /\ i.NextCacheCheck >= 1
  BY <1>1, <1>4, Parameters DEF Walks, Ahead, Sound, Typed
<1>7. k = i
  BY <1>6, PutOffQueriesSame
<1>8. IF Due(k.NextScheduledResponse)
      THEN /\ \E ends \in SUBSET {r \in Record : Announces(k, r)} : m' = SendResponses(k, ends)
           /\ walk' = "SendResponses"
           /\ left' = Registered(k)
      ELSE /\ m' = mDNS_Unlock(k)
           /\ walk' = "none"
           /\ UNCHANGED left
  BY DEF QueriesSent, i
<1> HIDE DEF k
<1>9. CASE Due(k.NextScheduledResponse)
  <2>1. PICK ends \in SUBSET {r \in Record : Announces(k, r)} : m' = SendResponses(k, ends)
    BY <1>8, <1>9
  <2>2. Tame(m', "SendResponses", Registered(k), c)
    BY <1>4, <1>5, <1>6, <1>7, <2>1, AnswersTame
  <2>. QED  BY <1>8, <1>9, <2>2 DEF Tamed, Answering
<1>10. CASE ~Due(k.NextScheduledResponse)
  <2>1. m' = mDNS_Unlock(i) /\ walk' = "none"
    BY <1>7, <1>8, <1>10
  <2>2. Clear(i)
    <3>1. i.NextScheduledResponse >= 1
      BY <1>6, <1>7, <1>10, EngineTypes DEF Due
    <3>. QED  BY <1>6, <3>1 DEF Clear, Ahead
  <2>3. Tame(m', "none", {}, c) /\ Fresh(m', s)
    <3>1. i.mDNS_busy <= 1
      BY <1>4
    <3>. QED  BY <1>4, <1>5, <2>1, <2>2, <3>1, EndTame
  <2>. QED  BY <2>1, <2>3 DEF Tamed, Answering
<1>. QED  BY <1>9, <1>10

LEMMA ResponsesSentTame ==
  ASSUME Engaged, ResponsesSent, ~Blocks, NoDependencies, HasCache,
         NEW s \in Nat, NEW c \in Nat, c = 1 + 2 * s, Tamed(c)
  PROVE  Tamed(c)' /\ Fresh(m', s)
<1> DEFINE j == PutOffResponses(m)
<1>1. /\ walk = "SendResponses" /\ frames = <<>> /\ left = {}
      /\ m \in Engine /\ Sound(m, {}, {}) /\ Walks(m, walk)
      /\ m.mDNS_busy = Depth(walk, frames)
      /\ Depth(walk, frames) # 0 => m.timenow_last = 0
      /\ m' = mDNS_Unlock(j) /\ walk' = "none"
  BY DEF ResponsesSent, Walking, Engaged, Good, Sound, Typed, Probing, Answering
<1>2. m.timenow_last = 0 /\ m.mDNS_busy = 1
  BY <1>1, WalkFrames
<1>3. Tame(m, walk, {}, c)
  BY <1>1 DEF Tamed, Answering
<1>4. Clear(m)
  BY <1>1, <1>3 DEF Walks, Ahead, Clear, Tame
<1>5. j = m
  BY <1>1, <1>4, PutOffResponsesSame DEF Clear
<1> HIDE DEF j
<1>6. Tame(m', "none", {}, c) /\ Fresh(m', s)
  <2>1. m.mDNS_busy <= 1 /\ walk # "none"
    BY <1>1, <1>2
  <2>. QED  BY <1>1, <1>2, <1>3, <1>4, <1>5, <2>1, EndTame
<1>. QED  BY <1>1, <1>6 DEF Tamed, Answering

LEMMA CleanUpTame ==
  ASSUME Engaged, CleanUp, NEW c \in Nat, Tamed(c)
  PROVE  Tamed(c)'
<1>1. /\ walk = "SendResponses" /\ frames = <<>> /\ walk' = walk
      /\ m \in Engine /\ Sound(m, {}, left) /\ left \subseteq Record
      /\ Walks(m, walk) /\ Typed(m)
      /\ Depth(walk, frames) # 0 => m.timenow_last = 0
  BY DEF CleanUp, Walking, Engaged, Good, Sound, Typed, Probing, Answering
<1>2. PICK r \in left :
        /\ left' = left \ {r}
        /\ CompleteDeregistration(r) \/ ClearAnswer(r)
  BY DEF CleanUp
<1>3. /\ r \in Record /\ m.rec \in [Record -> RecordState] /\ m.rec[r] \in RecordState
      /\ Now(m) = 0
  BY <1>1, <1>2, EngineTypes, WalkFrames DEF Now
<1>4. Tame(m, walk, left, c) /\ m.NextScheduledProbe >= 1
  BY <1>1 DEF Tamed, Answering, Tame
<1>5. CASE CompleteDeregistration(r)
  <2> DEFINE j == Delete(m, r)
             n == j.mDNS_reentrancy + 1
  <2>1. m' = [j EXCEPT !.mDNS_reentrancy = n]
    BY <1>5 DEF CompleteDeregistration, Callback
  <2>2. Settles(m, j) /\ j.rec[r] = Off /\ Serves(m, j)
    BY <1>1, <1>3, DeleteSettles, DeleteSound
  <2> HIDE DEF j
  <2>3. /\ j \in Engine /\ n \in Int /\ Now(j) = 0 /\ j.SuppressSending = m.SuppressSending
        /\ j.NextScheduledProbe >= 1
    BY <1>1, <1>3, <1>4, <2>2, EngineTypes DEF Serves, Kept, Walks, Now
  <2> HIDE DEF n
  <2>4. \A t \in Record : Leaving(j.rec[t]) => (t \in left' <=> t \in left)
    BY <1>2, <2>2 DEF Leaving, Off
  <2>5. Tame(j, walk, left', c)
    BY <1>3, <1>4, <2>2, <2>3, <2>4, SettledTame
  <2>6. Tame(m', walk, left', c)
    BY <2>1, <2>3, <2>5, CallbackTame
  <2>. QED  BY <1>1, <2>6 DEF Tamed, Answering
<1>6. CASE ClearAnswer(r)
  <2> DEFINE b == FALSE
             d == [m.rec[r] EXCEPT !.ImmedAnswer = b]
             j == PutRecord(m, r, d)
  <2>1. m' = j
    BY <1>1, <1>6 DEF ClearAnswer, PutRecord, Engine
  <2>2. b \in BOOLEAN
    OBVIOUS
  <2> HIDE DEF b
  <2>3. /\ d \in RecordState /\ d.RecordType = m.rec[r].RecordType
        /\ d.ThisAPInterval = m.rec[r].ThisAPInterval /\ d.LastAPTime = m.rec[r].LastAPTime
        /\ d.AnnounceCount = m.rec[r].AnnounceCount
    BY <1>3, <2>2 DEF RecordState
  <2> HIDE DEF d
  <2>4. /\ Kept(m, j) /\ j.rec[r] = d
        /\ \A s \in Record : s # r => j.rec[s] = m.rec[s]
        /\ j.NextScheduledProbe = m.NextScheduledProbe
        /\ j.NextScheduledQuery = m.NextScheduledQuery
        /\ j.NextScheduledResponse = m.NextScheduledResponse
        /\ j.qst = m.qst
    BY <1>1, <1>3, <2>3, RecordSet
  <2> HIDE DEF j
  <2>5. /\ j \in Engine /\ Now(j) = 0 /\ j.SuppressSending = m.SuppressSending
        /\ j.NextScheduledResponse <= m.NextScheduledResponse
        /\ j.NextScheduledEvent = m.NextScheduledEvent /\ j.NextCacheCheck = m.NextCacheCheck
    BY <1>1, <1>3, <2>4, EngineTypes DEF Kept, Now
  <2>6. APTime(j, r) = APTime(m, r) /\ ~Leaving(j.rec[r])
        /\ (Counts(j.rec[r]) => Counts(m.rec[r]))
    BY <1>6, <2>3, <2>4 DEF APTime, Leaving, Counts, Announcing, ClearAnswer
  <2>7. Settles(m, j)
    BY <1>1, <1>3, <2>4, <2>5, <2>6, RecordSettles DEF Low
  <2>8. \A t \in Record : Leaving(j.rec[t]) => (t \in left' <=> t \in left)
    BY <1>2, <2>6
  <2>9. Tame(j, walk, left', c)
    BY <1>3, <1>4, <2>4, <2>5, <2>7, <2>8, SettledTame
  <2>. QED  BY <1>1, <2>1, <2>9 DEF Tamed, Answering
<1>. QED  BY <1>2, <1>5, <1>6

--------------------------------------------------------------------------------
(* The loop, and time that passes *)

LEMMA PassFresh ==
  ASSUME NEW k \in Engine, Fits(k), NEW a \in Nat, NEW b \in Nat, a <= b, Fresh(k, a), NEW d \in Int,
         Pass(k, d).NextScheduledEvent >= Now(Pass(k, d)) - b
  PROVE  Fresh(Pass(k, d), b)
<1> DEFINE p == Pass(k, d)
           e == k.NextScheduledEvent
<1>1. /\ p \in Engine /\ p.SuppressSending = Later(k.SuppressSending, d)
      /\ p.NextScheduledEvent = Later(e, d)
  BY PassFields
<1>2. /\ k.SuppressSending \in Int \union {NotSet} /\ e \in Int
      /\ p.NextScheduledResponse \in Int
      /\ \A r \in Record : APTime(p, r) \in Int
  BY <1>1, EngineTypes
<1>3. CASE k.SuppressSending = NotSet
  <2>1. p.SuppressSending = NotSet
    BY <1>1, <1>3 DEF Later
  <2>2. Low(k, e)
    BY <1>3 DEF Fresh
  <2>3. Later(e, d) \in Int /\ (Later(e, d) <= e - d \/ Later(e, d) <= -Half)
    BY <1>2, LaterFacts, Parameters DEF Later
  <2>4. Low(p, p.NextScheduledEvent)
    <3> HIDE DEF p, e
    <3>1. Low(Pass(k, d), Later(e, d))
      BY <1>2, <2>2, <2>3, PassLow
    <3>. QED  BY <1>1, <3>1 DEF p
  <2>5. ASSUME NEW r \in Record, Leaving(p.rec[r]) PROVE Gap(p, r, 1 + 2 * b)
    <3>1. Leaving(k.rec[r]) /\ (Gap(k, r, 1 + 2 * a) => Gap(p, r, 1 + 2 * a))
      BY <2>5, PassGap
    <3>2. Gap(p, r, 1 + 2 * a)
      BY <1>3, <3>1 DEF Fresh
    <3> HIDE DEF p
    <3>. QED  BY <1>2, <3>2, Parameters DEF Gap, Deep
  <2>. QED  BY <2>1, <2>4, <2>5 DEF Fresh
<1>4. CASE k.SuppressSending # NotSet
  <2>1. k.SuppressSending \in Int /\ e <= k.SuppressSending
    BY <1>2, <1>4 DEF Fresh
  <2>2. /\ Later(e, d) <= Later(k.SuppressSending, d)
        /\ Later(e, d) \in Int /\ Later(k.SuppressSending, d) \in Int
    BY <1>2, <2>1, LaterMonotone, LaterFacts
  <2>3. p.SuppressSending # NotSet /\ p.SuppressSending >= p.NextScheduledEvent
    BY <1>1, <2>2, Parameters
  <2>. QED  BY <2>3 DEF Fresh
<1>. QED  BY <1>3, <1>4

\* Select sleeps
LEMMA WaitTame ==
  ASSUME LoopInv, NEW d \in Nat, d <= timeout, Wait(d), Fresh(m, Abs(skew)),
         NEW c \in Nat, c = 1 + 2 * Abs(skew), c <= Half, Tamed(c)
  PROVE  Tamed(c)'
<1> DEFINE s == Abs(skew)
           e == m.NextScheduledEvent
           p == Pass(m, d)
<1>1. loop = "select" /\ m' = p /\ walk' = walk /\ left' = left
  BY DEF Wait
<1>2. /\ walk = "none" /\ m \in Engine /\ Fits(m)
      /\ Answering(walk, left) = {} /\ Answering(walk, left') = {}
  BY <1>1 DEF LoopInv, Resting, Engaged, Good, Sound, Typed, Answering
<1>3. /\ timeout <= Event(m) + s /\ timeout \in Int /\ skew \in Int
      /\ m.timenow_adjust >= 0 /\ m.timenow_adjust + Now(m) <= Back(skew)
  BY <1>1 DEF LoopInv, Wakes, Corrected
<1>4. /\ s \in Nat /\ Back(skew) \in Nat /\ Back(skew) <= s /\ e \in Int /\ Now(m) \in Int
      /\ m.timenow_adjust \in Int /\ m.SuppressSending \in Int \union {NotSet}
  BY <1>2, <1>3, SkewFacts, EngineTypes
<1>5. Now(m) <= s
  BY <1>3, <1>4
<1>6. Now(p) \in Int /\ Now(p) <= Now(m)
  <2>1. p.timenow_last = Later(m.timenow_last, d)
    BY <1>2, PassFields
  <2>2. m.timenow_last \in Int
    BY <1>2, EngineTypes
  <2> DEFINE t == Later(m.timenow_last, d)
  <2>3. -Half \in Int /\ -Half <= 0
    BY Parameters
  <2>4. t \in Int /\ (t = m.timenow_last - d \/ t = -Half)
    BY <2>2, LaterFacts, Parameters DEF Later
  <2> HIDE DEF t, p
  <2>5. t <= m.timenow_last \/ t <= 0
    BY <2>2, <2>3, <2>4
  <2>. QED  BY <2>1, <2>2, <2>3, <2>4, <2>5 DEF Now, t
<1>7. e >= Now(m) - s
  BY DEF Fresh
<1>8. e - d >= Now(p) - c
  <2> HIDE DEF s, p, e
  <2>1. d <= Event(m) + s
    BY <1>3, <1>4 DEF Event, e
  <2>2. CASE e >= 1
    BY <1>4, <1>5, <1>6, <2>1, <2>2 DEF Event, e, s
  <2>3. CASE ~(e >= 1)
    BY <1>4, <1>5, <1>6, <1>7, <2>1, <2>3 DEF Event, e, s
  <2>. QED  BY <2>2, <2>3
<1>9. m.SuppressSending = NotSet => Low(m, e) /\ e - d >= Now(p) - c
  BY <1>8 DEF Fresh
<1>10. m.SuppressSending # NotSet => m.SuppressSending - d >= Now(p) - c
  <2>1. m.SuppressSending # NotSet => m.SuppressSending >= e
    BY DEF Fresh
  <2> HIDE DEF p, e
  <2>. QED  BY <1>4, <1>6, <1>8, <2>1
<1>11. m.SuppressSending = NotSet => \A r \in Record : Leaving(m.rec[r]) => Gap(m, r, c)
  BY DEF Fresh
<1>12. Tame(m, "none", {}, c)
  BY <1>2 DEF Tamed
<1>13. d \in Int /\ d >= 0 /\ c <= c
  OBVIOUS
<1> HIDE DEF s, e
<1>14. Tame(Pass(m, d), "none", {}, c)
  BY <1>2, <1>4, <1>9, <1>10, <1>11, <1>12, <1>13, PassTame
<1>. QED  BY <1>1, <1>2, <1>14 DEF Tamed

\* The clock is set
LEMMA SetClockTame ==
  ASSUME LoopInv, LoopInv', SetClock, Fresh(m, 0), Tamed(1),
         NEW c \in Nat, c = 1 + 2 * Abs(skew'), c <= Half
  PROVE  Tamed(c)' /\ Fresh(m', Abs(skew'))
<1>1. PICK d \in Steps : m' = Pass(m, d) /\ skew' = d
  BY DEF SetClock
<1>2. /\ loop = "select" /\ loop' = loop /\ skew = 0 /\ UNCHANGED <<walk, left, frames>>
  BY DEF SetClock
<1>3. d \in Int
  BY LoopAssumption
<1> DEFINE s == Abs(d)
           e == m.NextScheduledEvent
           p == Pass(m, d)
<1>4. /\ walk = "none" /\ frames = <<>> /\ m.timenow_last = 0 /\ m \in Engine /\ Fits(m)
      /\ Answering(walk, left) = {} /\ Answering(walk, left') = {} /\ Engaged
  BY <1>2 DEF LoopInv, Resting, Corrected, Engaged, Good, Sound, Typed, Answering
<1>5. d >= 0 \/ m.timenow_last >= 0
  BY <1>4
<1>6. /\ Now(p) <= Now(m) + (IF d < 0 THEN -d ELSE 0)
      /\ p.NextScheduledEvent >= e - d
  BY <1>1, <1>2, <1>3, <1>4, <1>5, PassGood
<1>7. p \in Engine /\ Now(m) = 0
  BY <1>3, <1>4, PassFields DEF Now
<1>8. /\ e \in Int /\ e >= 0 /\ Now(p) \in Int /\ p.NextScheduledEvent \in Int
      /\ m.SuppressSending \in Int \union {NotSet}
      /\ m.SuppressSending # NotSet => m.SuppressSending >= e
      /\ m.SuppressSending = NotSet => /\ Low(m, e)
                                       /\ \A r \in Record : Leaving(m.rec[r]) => Gap(m, r, 1)
  BY <1>4, <1>7, EngineTypes DEF Fresh
<1> HIDE DEF p, e
<1>9. s \in Nat /\ p.NextScheduledEvent >= Now(p) - s /\ e - d >= Now(p) - c
  BY <1>1, <1>3, <1>6, <1>7, <1>8 DEF Abs
<1>10. m.SuppressSending # NotSet => m.SuppressSending - d >= Now(p) - c
  BY <1>3, <1>8, <1>9
<1>11. Fresh(p, s)
  <2>1. 0 \in Nat /\ 0 <= s
    BY <1>9
  <2> HIDE DEF s
  <2>. QED  BY <1>3, <1>4, <1>9, <2>1, PassFresh DEF p
<1>12. Tame(m, "none", {}, 1) /\ 1 \in Nat /\ 1 <= c
  <2>1. Tame(m, "none", {}, 1)
    BY <1>4 DEF Tamed
  <2>2. c = 1 + 2 * s
    BY <1>1
  <2> HIDE DEF s
  <2>. QED  BY <1>9, <2>1, <2>2
<1>13. Tame(Pass(m, d), "none", {}, c)
  BY <1>3, <1>4, <1>5, <1>8, <1>9, <1>10, <1>12, PassTame DEF p
<1>. QED  BY <1>1, <1>2, <1>4, <1>11, <1>13 DEF Tamed, p

LEMMA InitTame ==
  ASSUME Init
  PROVE  Tamed(1)
<1>1. /\ m.timenow_last = 0 /\ m.NextScheduledEvent = 0 /\ m.SuppressSending = 0
      /\ m.NextScheduledProbe = Horizon /\ m.NextScheduledQuery = Horizon
      /\ m.NextScheduledResponse = Horizon /\ m.NextCacheCheck = Horizon
      /\ m.rec = [r \in Record |-> Off] /\ m.qst = [q \in Question |-> NotAsked]
      /\ walk = "none"
  BY DEF Init
<1>2. \A r \in Record : ~Counts(m.rec[r]) /\ ~Leaving(m.rec[r])
  BY <1>1 DEF Counts, Leaving, Announcing, Off
<1>3. \A q \in Question : ~m.qst[q].asked
  BY <1>1 DEF NotAsked
<1>4. Now(m) = 0 /\ 0 # NotSet /\ TenthSecond \in Int /\ TenthSecond >= 1
      /\ Horizon \in Int /\ Horizon >= 1
  BY <1>1, Parameters DEF Now
<1>5. Floor(m, "none", 1) \in Int /\ Floor(m, "none", 1) <= 0
  BY <1>1, <1>4 DEF Floor
<1>6. Low(m, Floor(m, "none", 1))
  BY <1>1, <1>2, <1>3, <1>4, <1>5 DEF Low
<1>7. Farewell(m, "none", {}, 1)
  BY <1>2 DEF Farewell
<1>. QED  BY <1>1, <1>4, <1>6, <1>7 DEF Tamed, Tame, Answering

--------------------------------------------------------------------------------
(* No time falls behind by half the range of the counter *)

\* Clocks are set by much less than half the range of the counter: 3 tenths of a second, 4 ticks
\* and 8 times the step leave room for the horizon
SmallSteps == \A d \in Steps \union {0} : Bottom(1 + 2 * Abs(d)) < Half - Horizon

TimesInv ==
  /\ skew \in Steps \union {0}
  /\ Tamed(1 + 2 * Abs(skew))
  /\ loop = "select" \/ (loop = "again" /\ AtRest) => Fresh(m, Abs(skew))

LEMMA StepFacts ==
  ASSUME SmallSteps, NEW d \in Steps \union {0}
  PROVE  /\ d \in Int /\ Abs(d) \in Nat /\ 1 + 2 * Abs(d) \in Nat /\ 1 + 2 * Abs(d) <= Half
         /\ Bottom(1 + 2 * Abs(d)) \in Nat /\ Bottom(1 + 2 * Abs(d)) < Half - Horizon
<1>1. d \in Int /\ Abs(d) \in Nat
  BY LoopAssumption DEF Abs
<1> DEFINE s == Abs(d)
<1>2. Bottom(1 + 2 * s) < Half - Horizon
  BY DEF SmallSteps
<1> HIDE DEF s
<1>3. TenthSecond \in Nat /\ Half \in Int /\ Horizon \in Int /\ Horizon >= 1 /\ s \in Nat
  BY <1>1, Parameters DEF s
<1>. QED  BY <1>1, <1>2, <1>3 DEF s, Bottom, Deep

\* No time is further behind than the bottom
LEMMA TimesBottom ==
  ASSUME LoopInv, NEW c \in Nat, Tamed(c), Bottom(c) < Half - Horizon
  PROVE  TimesInRange
<1> DEFINE w == walk
           A == Answering(walk, left)
           F == Floor(m, w, c)
           b == -Bottom(c)
<1>1. /\ m \in Engine /\ Fits(m) /\ Tame(m, w, A, c)
      /\ w # "none" => Now(m) = 0
  <2>1. /\ Good(m, walk, left, frames) /\ m \in Engine /\ Fits(m)
    BY DEF LoopInv, Engaged, Good, Sound, Typed
  <2>2. walk # "none" => m.timenow_last = 0
    BY <2>1, DepthFacts DEF Good
  <2>. QED  BY <2>1, <2>2 DEF Tamed, Now
<1> HIDE DEF w, A
<1>2. /\ Deep(c) \in Nat /\ Bottom(c) \in Nat /\ F \in Int /\ F >= -Deep(c)
      /\ TenthSecond \in Int /\ TenthSecond >= 1 /\ Half \in Int /\ Horizon \in Int
      /\ Now(m) \in Int /\ Now(m) >= 0 /\ m.SuppressSending \in Int \union {NotSet}
      /\ m.NextScheduledResponse \in Int
      /\ Bottom(c) = TenthSecond + 2 * Deep(c) /\ Deep(c) = TenthSecond + 2 * c
  BY <1>1, FloorFacts, EngineTypes, Parameters DEF Now, Bottom, Deep
<1>3. Low(m, F)
  BY <1>1 DEF Tame
<1>4. b \in Int /\ b <= F /\ b > Horizon - Half
  <2> HIDE DEF F
  <2>. QED  BY <1>2
<1>5. Low(m, b)
  BY <1>1, <1>2, <1>3, <1>4, LowMore
<1>6. ASSUME NEW r \in Record, Leaving(m.rec[r]) PROVE APTime(m, r) >= b
  <2> DEFINE t == APTime(m, r)
  <2>1. t \in Int
    BY <1>1, EngineTypes
  <2>2. \/ t >= b
        \/ t >= m.NextScheduledResponse - (TenthSecond + Deep(c))
        \/ m.SuppressSending = NotSet /\ t >= Now(m) - (TenthSecond + c + Deep(c))
        \/ /\ m.SuppressSending # NotSet
           /\ t >= m.SuppressSending - TenthSecond - (TenthSecond + c + Deep(c))
    BY <1>1, <1>6 DEF Tame, Farewell, Gap, Wanted
  <2>3. m.NextScheduledResponse >= F
    BY <1>3 DEF Low
  <2>4. m.SuppressSending # NotSet => m.SuppressSending >= Now(m) - c
    BY <1>1 DEF Tame
  <2> HIDE DEF t, F
  <2>. QED  BY <1>2, <2>1, <2>2, <2>3, <2>4 DEF t
<1>7. ASSUME NEW r \in Record, m.rec[r].RecordType = "Unique" \/ m.rec[r].AnnounceCount > 0
      PROVE  APTime(m, r) >= b
  <2>1. m.rec[r].RecordType \in {"None", "Shared", "Unique", "Verified", "Deregistering"}
    BY <1>1, EngineTypes DEF RecordState
  <2>2. m.rec[r].RecordType # "None"
    BY <1>1, <1>7 DEF Fits, RecordFits
  <2>3. Counts(m.rec[r]) \/ Leaving(m.rec[r])
    BY <1>7, <2>1, <2>2 DEF Counts, Announcing, Leaving
  <2>. QED  BY <1>5, <1>6, <2>3 DEF Low
<1>8. ASSUME NEW t \in Int, t >= b PROVE t > Horizon - Half
  <2> HIDE DEF b
  <2>. QED  BY <1>2, <1>4, <1>8
<1>9. /\ \A t \in {m.NextScheduledEvent, m.NextCacheCheck, m.NextScheduledQuery,
                   m.NextScheduledProbe, m.NextScheduledResponse} : t \in Int /\ t >= b
      /\ \A q \in Asked(m) : QTime(m, q) \in Int /\ QTime(m, q) >= b
      /\ \A r \in Record : APTime(m, r) \in Int
  BY <1>1, <1>5, EngineTypes DEF Low, Asked
<1> HIDE DEF b
<1>. QED  BY <1>7, <1>8, <1>9 DEF TimesInRange

\* A step that leaves the clock as it was
LEMMA TimesOn ==
  ASSUME TimesInv, NEW c \in Nat, c = 1 + 2 * Abs(skew), Tamed(c)', skew' = skew,
         loop' = "select" \/ (loop' = "again" /\ AtRest') => Fresh(m', Abs(skew))
  PROVE  TimesInv'
BY DEF TimesInv, Tamed

\* No time the engine compares (a difference of 32 bits with a sign: m->NextScheduledEvent -
\* m->timenow, LastAPTime + ThisAPInterval - m->timenow) falls so far behind that the
\* difference wraps and what is late looks far ahead: whatever is registered, asked, answered,
\* updated or deregistered, what is due is done within a few tenths of a second, or within what
\* the clock was set by.  It takes a cache (else nobody moves NextCacheCheck), records that do
\* not depend on another (else announcements are forgotten, see VerifiedIsScheduled) and
\* updates that are not blocked (else a record may keep a time that is past)
THEOREM TimesStayInRange ==
  ASSUME HasCache, NoDependencies, \A c \in Credits : c > 5, SmallSteps
  PROVE  LoopSpec => []TimesInRange
<1>1. ~Blocks
  BY Parameters DEF Blocks
<1>2. LoopInit => TimesInv
  <2>1. SUFFICES ASSUME LoopInit PROVE TimesInv
    OBVIOUS
  <2>2. Tamed(1) /\ loop = "top" /\ skew = 0
    BY <2>1, InitTame DEF LoopInit
  <2>3. 1 + 2 * Abs(skew) = 1
    BY <2>2 DEF Abs
  <2>. QED  BY <2>2, <2>3 DEF TimesInv
<1>3. LoopInv /\ LoopInv' /\ TimesInv /\ [LoopNext]_allVars => TimesInv'
  <2> SUFFICES ASSUME LoopInv, LoopInv', TimesInv, [LoopNext]_allVars PROVE TimesInv'
    OBVIOUS
  <2>1. PICK s \in Nat, c \in Nat : s = Abs(skew) /\ c = 1 + 2 * Abs(skew) /\ c <= Half
    BY StepFacts DEF TimesInv
  <2>2. Engaged /\ Resting /\ Tamed(c) /\ c = 1 + 2 * s
    BY <2>1 DEF LoopInv, TimesInv
  <2>3. ASSUME Tamed(c)', skew' = skew,
               loop' = "select" \/ (loop' = "again" /\ AtRest') => Fresh(m', s)
        PROVE  TimesInv'
    BY <2>1, <2>3, TimesOn
  <2>4. ASSUME UNCHANGED <<m, walk, left, frames, skew>>,
               loop' = loop \/ loop' \in {"fdset", "top"} \/ (loop' = "select" /\ loop = "again" /\ AtRest)
        PROVE  TimesInv'
    <3>1. Tamed(c)' /\ AtRest' = AtRest
      BY <2>2, <2>4 DEF Tamed, AtRest
    <3>2. loop' = "select" \/ (loop' = "again" /\ AtRest') => Fresh(m', s)
      BY <2>1, <2>4, <3>1 DEF TimesInv
    <3>. QED  BY <2>3, <2>4, <3>1, <3>2
  <2>5. ASSUME NEW next, Call_mDNS_Execute(next), next \in {"executing", "again"} PROVE TimesInv'
    <3>1. Execute /\ loop' = next /\ skew' = skew
      BY <2>5 DEF Call_mDNS_Execute
    <3>2. Tamed(c)' /\ (walk' = "none" => Fresh(m', s))
      BY <1>1, <2>1, <2>2, <3>1, ExecuteTame
    <3>. QED  BY <2>3, <2>5, <3>1, <3>2 DEF AtRest
  <2>6. ASSUME NEW d \in Nat, d <= timeout, Wait(d), loop' \in {"top", "ready"} PROVE TimesInv'
    <3>1. loop = "select" /\ skew' = skew
      BY <2>6 DEF Wait
    <3>2. Fresh(m, Abs(skew))
      BY <3>1 DEF TimesInv
    <3>3. Tamed(c)'
      BY <2>1, <2>2, <2>6, <3>2, WaitTame
    <3>. QED  BY <2>3, <2>6, <3>1, <3>3
  <2>7. CASE UNCHANGED allVars
    BY <2>4, <2>7 DEF allVars, vars, loopVars
  <2>8. CASE Top
    <3>1. CASE gotData
      BY <2>4, <2>8, <3>1 DEF Top, vars
    <3>2. CASE ~gotData
      BY <2>5, <2>8, <3>2 DEF Top
    <3>. QED  BY <3>1, <3>2
  <2>9. CASE PlanWait
    BY <2>4, <2>9 DEF PlanWait, vars
  <2>10. CASE mDNSPosixGetFDSet
    BY <2>5, <2>10 DEF mDNSPosixGetFDSet
  <2>11. CASE Select
    BY <2>4, <2>11 DEF Select, vars
  <2>12. CASE TimesOut
    BY <2>6, <2>12 DEF TimesOut, LoopInv, Wakes
  <2>13. CASE RoundEnds
    BY <2>4, <2>13 DEF RoundEnds, vars
  <2>14. CASE DataReady
    BY <2>6, <2>14, LoopAssumption DEF DataReady
  <2>15. CASE Packet
    <3>1. /\ loop = "ready" /\ PacketComes /\ loop' = "packet" /\ skew' = skew /\ walk' = walk
      BY <2>15 DEF Packet
    <3>2. walk = "none" /\ frames = <<>>
      BY <2>2, <3>1 DEF Resting
    <3>3. Tamed(c)'
      BY <2>1, <2>2, <3>1, <3>2, PacketComesTame
    <3>. QED  BY <2>3, <3>1, <3>3
  <2>16. CASE Request
    <3>1. /\ loop \in {"ready", "packet"} /\ ClientCalls /\ loop' = "request"
          /\ skew' = skew /\ walk' = walk
      BY <2>16 DEF Request
    <3>2. walk = "none"
      BY <2>2, <3>1 DEF Resting
    <3>3. Tamed(c)'
      BY <1>1, <2>1, <2>2, <3>1, <3>2, ClientCallsTame
    <3>. QED  BY <2>3, <3>1, <3>3
  <2>17. ASSUME frames # <<>>, Tamed(c)', UNCHANGED <<walk, loop, skew>>
         PROVE  TimesInv'
    <3>1. /\ walk # "none" => loop \in {"executing", "again"}
          /\ walk = "none" => loop \in {"packet", "request"}
      BY <2>2, <2>17 DEF Resting
    <3>2. ~(loop' = "select" \/ (loop' = "again" /\ AtRest'))
      BY <2>17, <3>1 DEF AtRest
    <3>. QED  BY <2>3, <2>17, <3>2
  <2>18. CASE Reentrant
    <3>1. /\ frames # <<>> /\ ClientCalls /\ UNCHANGED <<walk, loop, skew>>
      BY <2>18 DEF Reentrant
    <3>2. Tamed(c)'
      BY <1>1, <2>1, <2>2, <3>1, ClientCallsTame
    <3>. QED  BY <2>17, <3>1, <3>2
  <2>19. CASE CallbackReturns
    <3>1. /\ Return /\ frames # <<>> /\ UNCHANGED <<walk, loop, skew>>
      BY <2>19 DEF CallbackReturns, Return, loopVars
    <3>2. Tamed(c)'
      BY <2>1, <2>2, <3>1, ReturnTame
    <3>. QED  BY <2>17, <3>1, <3>2
  <2>20. CASE Walk
    <3>1. /\ Probe \/ QueriesSent \/ CleanUp \/ ResponsesSent
          /\ UNCHANGED <<loop, skew>>
      BY <2>20 DEF Walk, loopVars
    <3>2. walk # "none"
      BY <3>1 DEF Probe, QueriesSent, CleanUp, ResponsesSent, Walking
    <3>3. loop \in {"executing", "again"}
      BY <2>2, <3>2 DEF Resting
    <3>4. CASE Probe \/ CleanUp
      <4>1. Tamed(c)'
        BY <2>1, <2>2, <3>4, ProbeTame, CleanUpTame
      <4>2. walk' = walk
        BY <3>4 DEF Probe, CleanUp
      <4>. QED  BY <2>3, <3>1, <3>2, <3>3, <4>1, <4>2 DEF AtRest
    <3>5. CASE QueriesSent \/ ResponsesSent
      <4>1. Tamed(c)' /\ (walk' = "none" => Fresh(m', s))
        BY <1>1, <2>1, <2>2, <3>5, QueriesSentTame, ResponsesSentTame
      <4>. QED  BY <2>3, <3>1, <3>3, <4>1 DEF AtRest
    <3>. QED  BY <3>1, <3>4, <3>5
  <2>21. CASE SetClock
    <3>1. loop = "select" /\ loop' = loop /\ skew = 0 /\ skew' \in Steps
      BY <2>21 DEF SetClock
    <3>2. s = 0 /\ c = 1
      BY <2>1, <3>1 DEF Abs
    <3>3. Fresh(m, 0) /\ Tamed(1)
      BY <2>1, <2>2, <3>1, <3>2 DEF TimesInv
    <3> DEFINE z == 1 + 2 * Abs(skew')
    <3>4. z \in Nat /\ z <= Half /\ z = 1 + 2 * Abs(skew')
      BY <3>1, StepFacts
    <3> HIDE DEF z
    <3>5. PICK e \in Nat : e = z
      BY <3>4
    <3>6. Tamed(e)' /\ Fresh(m', Abs(skew'))
      BY <2>21, <3>3, <3>4, <3>5, SetClockTame
    <3>. QED  BY <3>1, <3>4, <3>5, <3>6 DEF TimesInv, Tamed
  <2>. QED  BY <2>7, <2>8, <2>9, <2>10, <2>11, <2>12, <2>13, <2>14, <2>15, <2>16, <2>18, <2>19,
               <2>20, <2>21 DEF LoopNext, Loop
<1>4. LoopInv /\ TimesInv => TimesInRange
  <2> SUFFICES ASSUME LoopInv, TimesInv PROVE TimesInRange
    OBVIOUS
  <2>1. PICK c \in Nat : Bottom(c) < Half - Horizon /\ Tamed(c)
    BY StepFacts DEF TimesInv
  <2>. QED  BY <2>1, TimesBottom
<1>. QED  BY <1>2, <1>3, <1>4, LoopInvariant, PTL DEF LoopSpec

===============================================================================
