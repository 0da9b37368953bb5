------------------------------ MODULE MDNSTieBreak ------------------------------
(***************************************************************************)
(* Hosts on one link that each register a unique record of the same name   *)
(* (mDNS.c): they probe for the name, break ties, announce, answer each    *)
(* other's probes and find out about conflicts, over a network that loses, *)
(* duplicates and reorders packets.                                        *)
(*                                                                         *)
(* Time goes in probe intervals of a quarter of a second.  A packet is     *)
(* heard, or lost, within its interval: answers are held back for a tenth  *)
(* of a second at most.  What a host owes for an interval it does in it.   *)
(***************************************************************************)
EXTENDS Integers

CONSTANTS
  Host,
  Type,                         \* of each host's record
  Data,                         \* its rdata, in the order of CompareRData
  CanReceiveUnicast,            \* the hosts that ask for unicast answers
  Asking,                       \* those of them whose clients ask for other names
  DefaultProbeCountForTypeUnique,
  InitialAnnounceCount,
  OneSecond,                    \* in probe intervals
  FirstWaits,                   \* before a first probe: 0 where one is planned already
  MaxLosses                     \* bound: packets lost

ASSUME TieBreakAssumption ==
  /\ Type \in [Host -> Int]
  /\ Data \in [Host -> Int]
  /\ \A g, h \in Host : g # h => Data[g] # Data[h]
  /\ CanReceiveUnicast \subseteq Host
  /\ Asking \subseteq CanReceiveUnicast
  /\ DefaultProbeCountForTypeUnique \in Nat \ {0}
  /\ InitialAnnounceCount \in Nat \ {0}
  /\ OneSecond \in Nat \ {0}
  /\ FirstWaits \subseteq {0, 1}
  /\ MaxLosses \in Nat

VARIABLES
  RecordType,      \* "None", "Unique", "Verified", or "Lost": deregistered with a
                   \* NameConflict
  ProbeCount,
  AnnounceCount,
  ThisAPInterval,  \* of announcements
  due,             \* intervals until LastAPTime + ThisAPInterval
  sinceMC,         \* intervals since LastMCTime, up to OneSecond
  ImmedAnswer,     \* an answer is to be multicast
  sinceAsked,      \* intervals since ExpectUnicastResponse, up to NotExpected
  net,             \* packets on the link
  losses,
  ignored,         \* history: a unicast answer to a probe was thrown away
  spared,          \* history: an owner left a probe for a multicast answer unanswered
  hurried,         \* history: an owner went back to probing without a wait
  first            \* history: the hosts that have been the only owner first

hostVars == <<RecordType, ProbeCount, AnnounceCount, ThisAPInterval, due, sinceMC,
              ImmedAnswer>>
history  == <<ignored, spared, hurried, first>>
vars     == <<hostVars, sinceAsked, net, losses, history>>

DefaultAnnounceInterval == OneSecond \div 2
LongestInterval         == OneSecond * 2^InitialAnnounceCount

\* Unicast answers are expected for two seconds
NotExpected == 2 * OneSecond + 1

Probe    == [type : {"probe"}, from : Host, to : Host, ucast : BOOLEAN]
Response == [type : {"response"}, from : Host, to : Host, ucast : BOOLEAN]

TypeOK ==
  /\ RecordType \in [Host -> {"None", "Unique", "Verified", "Lost"}]
  /\ ProbeCount \in [Host -> 0..DefaultProbeCountForTypeUnique + 1]
  /\ AnnounceCount \in [Host -> 0..InitialAnnounceCount]
  /\ ThisAPInterval \in [Host -> 0..LongestInterval]
  /\ due \in [Host -> 0..LongestInterval]
  /\ sinceMC \in [Host -> 0..OneSecond]
  /\ ImmedAnswer \in [Host -> BOOLEAN]
  /\ sinceAsked \in [Host -> 0..NotExpected]
  /\ net \subseteq Probe \union Response
  /\ losses \in 0..MaxLosses
  /\ ignored \in BOOLEAN
  /\ spared \in BOOLEAN
  /\ hurried \in BOOLEAN
  /\ first \subseteq Host

Init ==
  /\ RecordType = [h \in Host |-> "None"]
  /\ ProbeCount = [h \in Host |-> 0]
  /\ AnnounceCount = [h \in Host |-> 0]
  /\ ThisAPInterval = [h \in Host |-> 0]
  /\ due = [h \in Host |-> 0]
  /\ sinceMC = [h \in Host |-> 0]
  /\ ImmedAnswer = [h \in Host |-> FALSE]
  /\ sinceAsked = [h \in Host |-> NotExpected]
  /\ net = {}
  /\ losses = 0
  /\ ignored = FALSE
  /\ spared = FALSE
  /\ hurried = FALSE
  /\ first = {}

--------------------------------------------------------------------------------
(* Packets *)

ProbeFrom(h, ucast) ==
  {[type |-> "probe", from |-> h, to |-> g, ucast |-> ucast] : g \in Host \ {h}}

ResponseFrom(h) ==
  {[type |-> "response", from |-> h, to |-> g, ucast |-> FALSE] : g \in Host \ {h}}

UnicastTo(h, g) == {[type |-> "response", from |-> h, to |-> g, ucast |-> TRUE]}

--------------------------------------------------------------------------------
(* Records *)

\* InitializeLastAPTime: the first probe goes with one that is planned for another
\* record, or in an interval
InitializeLastAPTime(h) ==
  /\ \E wait \in FirstWaits : due' = [due EXCEPT ![h] = wait]
  /\ sinceMC' = [sinceMC EXCEPT ![h] = 0]

Register(h) ==
  /\ RecordType[h] = "None"
  /\ RecordType' = [RecordType EXCEPT ![h] = "Unique"]
  /\ ProbeCount' = [ProbeCount EXCEPT ![h] = DefaultProbeCountForTypeUnique]
  /\ AnnounceCount' = [AnnounceCount EXCEPT ![h] = InitialAnnounceCount]
  /\ InitializeLastAPTime(h)
  /\ UNCHANGED <<ThisAPInterval, ImmedAnswer, sinceAsked, net, losses, history>>

\* mDNS_Deregister_internal with mDNS_Dereg_conflict
DeregisterConflict(h) ==
  /\ RecordType' = [RecordType EXCEPT ![h] = "Lost"]
  /\ ImmedAnswer' = [ImmedAnswer EXCEPT ![h] = FALSE]
  /\ UNCHANGED <<ProbeCount, AnnounceCount, ThisAPInterval, due, sinceMC>>

--------------------------------------------------------------------------------
(* SendQueries *)

Probing(h) == RecordType[h] = "Unique" /\ due[h] = 0

\* Slip: the count is compared before the probe is counted down, off by one
WantsUnicastLate(h) ==
  h \in CanReceiveUnicast /\ ProbeCount[h] - 1 >= DefaultProbeCountForTypeUnique

\* Early probes ask for a unicast answer, which is given in any case
WantsUnicast(h) ==
  h \in CanReceiveUnicast /\ ProbeCount[h] - 1 >= DefaultProbeCountForTypeUnique - 1

SendProbe(h) ==
  /\ Probing(h)
  /\ ProbeCount[h] > 0
  /\ ProbeCount' = [ProbeCount EXCEPT ![h] = @ - 1]
  /\ due' = [due EXCEPT ![h] = 1]
  /\ net' = net \union ProbeFrom(h, WantsUnicast(h))
  /\ UNCHANGED <<RecordType, AnnounceCount, ThisAPInterval, sinceMC, ImmedAnswer,
                 sinceAsked, losses, history>>

\* The record is announced at once if it has announcements left
FinishProbing(h) ==
  /\ Probing(h)
  /\ ProbeCount[h] = 0
  /\ RecordType' = [RecordType EXCEPT ![h] = "Verified"]
  /\ ThisAPInterval' = [ThisAPInterval EXCEPT ![h] = DefaultAnnounceInterval]
  /\ first' = IF \A g \in Host \ {h} : RecordType[g] = "None" THEN {h} ELSE first
  /\ UNCHANGED <<ProbeCount, AnnounceCount, due, sinceMC, ImmedAnswer, sinceAsked, net,
                 losses, ignored, spared, hurried>>

\* BuildQuestion: a query for some other name asks for unicast answers
Ask(h) ==
  /\ h \in Asking
  /\ sinceAsked' = [sinceAsked EXCEPT ![h] = 0]
  /\ UNCHANGED <<hostVars, net, losses, history>>

--------------------------------------------------------------------------------
(* SendResponses *)

Announcing(h) == RecordType[h] = "Verified" /\ AnnounceCount[h] > 0 /\ due[h] = 0

Announce(h) ==
  /\ Announcing(h)
  /\ AnnounceCount' = [AnnounceCount EXCEPT ![h] = @ - 1]
  /\ ThisAPInterval' = [ThisAPInterval EXCEPT ![h] = 2 * @]
  /\ due' = [due EXCEPT ![h] = 2 * ThisAPInterval[h]]
  /\ sinceMC' = [sinceMC EXCEPT ![h] = 0]
  /\ ImmedAnswer' = [ImmedAnswer EXCEPT ![h] = FALSE]
  /\ net' = net \union ResponseFrom(h)
  /\ UNCHANGED <<RecordType, ProbeCount, sinceAsked, losses, history>>

\* Whatever is marked is sent, even a record that has gone back to probing
Answer(h) ==
  /\ ImmedAnswer[h]
  /\ ~Announcing(h)
  /\ sinceMC' = [sinceMC EXCEPT ![h] = 0]
  /\ ImmedAnswer' = [ImmedAnswer EXCEPT ![h] = FALSE]
  /\ net' = net \union ResponseFrom(h)
  /\ UNCHANGED <<RecordType, ProbeCount, AnnounceCount, ThisAPInterval, due, sinceAsked,
                 losses, history>>

--------------------------------------------------------------------------------
(* Receiving.  A packet may be heard again: net' keeps it, or not *)

Heard(p) == \E rest \in {net, net \ {p}} : net' = rest

\* Slip: whichever host compares takes its own data for the lesser
ComparisonLosing(our, pkt) == -1

\* CompareRData, and the classes and types before it
Comparison(our, pkt) ==
  IF Type[our] # Type[pkt] THEN Type[our] - Type[pkt]
  ELSE IF Data[our] > Data[pkt] THEN 1 ELSE -1

\* ResolveSimultaneousProbe: only -1 means that we lost
ReceiveProbeUnique(p) ==
  LET h == p.to
  IN /\ p \in net /\ p.type = "probe"
     /\ RecordType[h] = "Unique"
     /\ Heard(p)
     /\ IF Comparison(h, p.from) = -1 THEN DeregisterConflict(h)
        ELSE UNCHANGED hostVars
     /\ UNCHANGED <<sinceAsked, losses, history>>

\* Not for a second after the last multicast, nor with an announcement due at once
Spares(h) == sinceMC[h] < OneSecond /\ ~Announcing(h)

\* Slip: a record that is answered for by unicast is not answered for to all
ReceiveProbeVerifiedOnce(p) ==
  LET h == p.to
  IN /\ p \in net /\ p.type = "probe"
     /\ RecordType[h] = "Verified"
     /\ \E rest \in {net, net \ {p}} : net' = rest \union UnicastTo(h, p.from)
     /\ UNCHANGED <<hostVars, sinceAsked, losses, history>>

\* ProcessQuery answers a verified record: to the host alone if it asks for that, and
\* to all unless it did so in the last second
ReceiveProbeVerified(p) ==
  LET h == p.to
  IN /\ p \in net /\ p.type = "probe"
     /\ RecordType[h] = "Verified"
     /\ IF p.ucast
        THEN /\ \E rest \in {net, net \ {p}} : net' = rest \union UnicastTo(h, p.from)
             /\ \/ UNCHANGED ImmedAnswer
                \/ sinceMC[h] = OneSecond /\ ImmedAnswer' = [ImmedAnswer EXCEPT ![h] = TRUE]
             /\ UNCHANGED spared
        ELSE /\ Heard(p)
             /\ ImmedAnswer' = [ImmedAnswer EXCEPT ![h] = @ \/ sinceMC[h] = OneSecond]
             /\ spared' = (spared \/ Spares(h))
     /\ UNCHANGED <<RecordType, ProbeCount, AnnounceCount, ThisAPInterval, due, sinceMC,
                    sinceAsked, losses, ignored, hurried, first>>

\* Slip: a verified record is taken to be safe from conflicts
ConflictsProbing(h, g) == RecordType[h] # "Verified"

\* mDNSCoreReceiveResponse: PacketRRMatchesSignature
Conflicts(h, g) == RecordType[h] = "Verified" => Type[h] = Type[g]

\* "If we've just whacked this record's ProbeCount, don't need to do it again"
Reprobed(h) == ProbeCount[h] > DefaultProbeCountForTypeUnique

Reprobe(h) ==
  /\ RecordType' = [RecordType EXCEPT ![h] = "Unique"]
  /\ ProbeCount' = [ProbeCount EXCEPT ![h] = DefaultProbeCountForTypeUnique + 1]
  /\ InitializeLastAPTime(h)
  /\ UNCHANGED <<AnnounceCount, ThisAPInterval, ImmedAnswer>>

\* A unicast answer counts for two seconds after a question that asked for one: a probe
\* that asks for one does not say so
Expected(p) == p.ucast => sinceAsked[p.to] < NotExpected

\* A verified record goes back to probing, one that probes is lost
ReceiveConflict(p) ==
  LET h        == p.to
      conflict == Expected(p) /\ Conflicts(h, p.from) /\ ~Reprobed(h)
  IN /\ p \in net /\ p.type = "response"
     /\ Heard(p)
     /\ \/ conflict /\ RecordType[h] = "Verified" /\ Reprobe(h)
        \/ conflict /\ RecordType[h] = "Unique" /\ DeregisterConflict(h)
        \/ /\ conflict => RecordType[h] \in {"None", "Lost"}
           /\ UNCHANGED hostVars
     /\ ignored' = (ignored \/ ~Expected(p))
     /\ hurried' = (hurried \/ (conflict /\ RecordType[h] = "Verified" /\ due'[h] = 0))
     /\ UNCHANGED <<sinceAsked, losses, spared, first>>

\* There is no record (any more)
ReceiveNothing(p) ==
  /\ p \in net
  /\ p.type = "probe"
  /\ RecordType[p.to] \in {"None", "Lost"}
  /\ Heard(p)
  /\ UNCHANGED <<hostVars, sinceAsked, losses, history>>

Receive(p) ==
  \/ ReceiveProbeUnique(p)
  \/ ReceiveProbeVerified(p)
  \/ ReceiveConflict(p)
  \/ ReceiveNothing(p)

Lose(p) ==
  /\ p \in net
  /\ losses < MaxLosses
  /\ net' = net \ {p}
  /\ losses' = losses + 1
  /\ UNCHANGED <<hostVars, sinceAsked, history>>

--------------------------------------------------------------------------------
Less(n)       == IF n = 0 THEN 0 ELSE n - 1
Later(n, max) == IF n = max THEN max ELSE n + 1

Tick ==
  /\ net = {}
  /\ \A h \in Host : ~Probing(h) /\ ~Announcing(h) /\ ~ImmedAnswer[h]
  /\ \E h \in Host : RecordType[h] \in {"Unique", "Verified"}
  /\ due' = [h \in Host |-> Less(due[h])]
  /\ sinceMC' = [h \in Host |-> Later(sinceMC[h], OneSecond)]
  /\ sinceAsked' = [h \in Host |-> Later(sinceAsked[h], NotExpected)]
  /\ UNCHANGED <<RecordType, ProbeCount, AnnounceCount, ThisAPInterval, ImmedAnswer, net,
                 losses, history>>

HostStep(h) == SendProbe(h) \/ FinishProbing(h) \/ Announce(h) \/ Answer(h)

Next ==
  \/ \E h \in Host : Register(h) \/ HostStep(h) \/ Ask(h)
  \/ \E p \in net : Receive(p) \/ Lose(p)
  \/ Tick

\* Every host does what is due, a packet is not heard for ever, and time goes on
Fairness ==
  /\ \A h \in Host : WF_vars(HostStep(h))
  /\ \A p \in Probe \union Response : WF_vars(p \in net /\ Receive(p) /\ p \notin net')
  /\ WF_vars(Tick)

Spec == Init /\ [][Next]_vars

FairSpec == Spec /\ Fairness

--------------------------------------------------------------------------------
(* What must hold *)

Owners == {h \in Host : RecordType[h] = "Verified"}

\* No packet was lost, and not both of a newcomer's chances to hear of an owner: its
\* first probe answered by unicast, and a later one by multicast
Undisturbed == losses = 0 /\ ~(ignored /\ spared)

\* While nothing is lost, no two hosts believe the name to be theirs, unless a unicast
\* answer was thrown away and a probe left without a multicast one
OneOwner == Undisturbed => \A g, h \in Owners : g = h

\* A host that had the name to itself then keeps it against all that come later
FirstKeeps == Undisturbed => \A h \in first : RecordType[h] # "Lost"

\* "Record has completed probing, and is verified unique": while nothing is lost, no
\* two hosts believe the name to be theirs
VerifiedIsUnique == losses = 0 => \A g, h \in Owners : g = h

\* Then not all of the hosts give up the name either, in whatever order they hear of
\* each other's probes and answers
SomebodyKeeps == Undisturbed => \E h \in Host : RecordType[h] # "Lost"

\* Whatever is lost, thrown away or left unanswered, hosts that believe the name to be
\* theirs find out in the end and do not verify it again.  This takes announcements to
\* be left when the losses end.  An owner that heard of the other and sent its first
\* probe at once may have sent them all within the second in which they are not answered.
ConflictsResolve == <>[](hurried \/ \A g, h \in Owners : g = h)
================================================================================
