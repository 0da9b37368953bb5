--------------------------- MODULE MDNSTieBreak_proof ---------------------------
(***************************************************************************)
(* Theorems about MDNSTieBreak, for any number of hosts: while no packet   *)
(* is lost, and no newcomer misses both the unicast and the multicast      *)
(* answer of an owner, at most one host owns the name, and the host that   *)
(* had it first keeps it.  They suppose the program's settings             *)
(* (CodeSettings): records of one type, unicast answers to early probes,   *)
(* and two probes at least.                                                *)
(***************************************************************************)
EXTENDS MDNSTieBreak, TLAPS

\* DefaultProbeCountForTypeUnique is 3 (mDNS.c:1518), mDNSPosix asks for unicast
\* answers if it gets the port for them (mDNSPosix.c:1164).  Without any one of the
\* three OneOwner is false.
CodeSettings ==
  /\ \A g, h \in Host : Type[g] = Type[h]
  /\ CanReceiveUnicast = Host
  /\ DefaultProbeCountForTypeUnique >= 2

--------------------------------------------------------------------------------
(* The inductive invariant *)

TypeInv ==
  /\ RecordType \in [Host -> {"None", "Unique", "Verified", "Lost"}]
  /\ ProbeCount \in [Host -> Nat]
  /\ AnnounceCount \in [Host -> Nat]
  /\ ThisAPInterval \in [Host -> Nat]
  /\ due \in [Host -> Nat]
  /\ sinceMC \in [Host -> 0..OneSecond]
  /\ ImmedAnswer \in [Host -> BOOLEAN]
  /\ net \subseteq Probe \union Response
  /\ losses \in Nat
  /\ ignored \in BOOLEAN /\ spared \in BOOLEAN
  /\ first \subseteq Host

Unique(h)   == RecordType[h] = "Unique"
Verified(h) == RecordType[h] = "Verified"

\* The probes a host has sent, and the whole intervals since the first
Sent(h)    == DefaultProbeCountForTypeUnique - ProbeCount[h]
Elapsed(h) == Sent(h) - due[h]

\* A host that probes counts down, and has announced nothing
UniqueFit ==
  \A h \in Host : Unique(h) =>
    /\ due[h] \in {0, 1}
    /\ ProbeCount[h] <= DefaultProbeCountForTypeUnique
    /\ AnnounceCount[h] = InitialAnnounceCount

\* Only owners answer, a probe is heard in its interval
NetFits ==
  \A p \in net :
    /\ p.from # p.to
    /\ p.type = "probe" =>
         \/ RecordType[p.from] = "Lost"
         \/ Unique(p.from) /\ due[p.from] = 1 /\ Sent(p.from) > 0
    /\ p.type = "response" => Verified(p.from)

MarksFit == \A h \in Host : ImmedAnswer[h] => Verified(h)

ProbeComes(g, h) ==
  \E p \in net : p.type = "probe" /\ p.from = g /\ p.to = h

UnicastAsked(h, g) ==
  \E p \in net : p.type = "probe" /\ p.from = h /\ p.to = g /\ p.ucast = TRUE

AllAsked(h, g) ==
  \E p \in net : p.type = "probe" /\ p.from = h /\ p.to = g /\ p.ucast = FALSE

AnswerComes(g, h) ==
  \E p \in net : p.type = "response" /\ p.from = g /\ p.to = h

AllAnswered(g, h) ==
  \E p \in net : p.type = "response" /\ p.from = g /\ p.to = h /\ p.ucast = FALSE

\* The two ways in which a host that has sent a probe comes to hear of an owner
HearsAlone(h, g) == UnicastAsked(h, g) \/ AnswerComes(g, h) \/ Announcing(g)

HearsWithAll(h, g) ==
  Sent(h) = 1 \/ AllAsked(h, g) \/ ImmedAnswer[g] \/ AllAnswered(g, h) \/ Announcing(g)

\* A host that probes beside an owner is going to hear of it
WillHear ==
  \A g, h \in Host : Verified(g) /\ Unique(h) =>
    \/ Sent(h) = 0
    \/ /\ Elapsed(h) < DefaultProbeCountForTypeUnique
       /\ ignored \/ HearsAlone(h, g)
       /\ spared \/ HearsWithAll(h, g)

\* Of two hosts that probe, the lesser hears of the other before it is through
WillLose ==
  \A g, h \in Host : Unique(g) /\ Unique(h) /\ Data[g] > Data[h] /\ Sent(g) > 0 /\ Sent(h) > 0 =>
    \/ ProbeComes(g, h)
    \/ Elapsed(h) = 0
    \/ Elapsed(h) = 1 /\ due[g] = 0

Alone == \A g, h \in Host : Verified(g) /\ Verified(h) => g = h

FirstOwns == \A h \in first : Verified(h)

ContestInv ==
  /\ UniqueFit
  /\ NetFits
  /\ MarksFit
  /\ WillHear
  /\ WillLose
  /\ Alone
  /\ FirstOwns

Inv == TypeInv /\ (Undisturbed => ContestInv)

--------------------------------------------------------------------------------
(* Packets *)

LEMMA PacketFacts ==
  ASSUME NEW p \in Probe \union Response
  PROVE  /\ p.from \in Host /\ p.to \in Host
         /\ p.type \in {"probe", "response"}
         /\ p.ucast \in BOOLEAN
  BY DEF Probe, Response

LEMMA ProbeFromFacts ==
  ASSUME NEW h \in Host, NEW u \in BOOLEAN
  PROVE  /\ ProbeFrom(h, u) \subseteq Probe
         /\ \A p \in ProbeFrom(h, u) :
              p.type = "probe" /\ p.from = h /\ p.to # h /\ p.ucast = u
         /\ \A g \in Host \ {h} : \E p \in ProbeFrom(h, u) : p.to = g
<1> DEFINE to(g) == [type |-> "probe", from |-> h, to |-> g, ucast |-> u]
<1>1. \A g \in Host \ {h} :
        /\ to(g) \in Probe
        /\ to(g).type = "probe" /\ to(g).from = h /\ to(g).to = g /\ to(g).ucast = u
  BY DEF Probe
<1>2. ProbeFrom(h, u) = {to(g) : g \in Host \ {h}}
  BY DEF ProbeFrom
<1> HIDE DEF to
<1> QED
  BY <1>1, <1>2

LEMMA ResponseFromFacts ==
  ASSUME NEW h \in Host
  PROVE  /\ ResponseFrom(h) \subseteq Response
         /\ \A p \in ResponseFrom(h) :
              p.type = "response" /\ p.from = h /\ p.to # h /\ p.ucast = FALSE
         /\ \A g \in Host \ {h} : \E p \in ResponseFrom(h) : p.to = g
<1> DEFINE to(g) == [type |-> "response", from |-> h, to |-> g, ucast |-> FALSE]
<1>1. \A g \in Host \ {h} :
        /\ to(g) \in Response
        /\ to(g).type = "response" /\ to(g).from = h /\ to(g).to = g /\ to(g).ucast = FALSE
  BY DEF Response
<1>2. ResponseFrom(h) = {to(g) : g \in Host \ {h}}
  BY DEF ResponseFrom
<1> HIDE DEF to
<1> QED
  BY <1>1, <1>2

LEMMA UnicastToFacts ==
  ASSUME NEW h \in Host, NEW g \in Host
  PROVE  /\ UnicastTo(h, g) \subseteq Response
         /\ \A p \in UnicastTo(h, g) : p.type = "response" /\ p.from = h /\ p.to = g
         /\ UnicastTo(h, g) # {}
  BY DEF UnicastTo, Response

LEMMA LosesIffLess ==
  ASSUME CodeSettings, NEW g \in Host, NEW h \in Host, Data[g] > Data[h]
  PROVE  Comparison(h, g) = -1
  BY TieBreakAssumption DEF Comparison, CodeSettings

LEMMA IntervalFacts == DefaultAnnounceInterval \in Nat
  BY TieBreakAssumption DEF DefaultAnnounceInterval

LEMMA HeardFacts ==
  ASSUME NEW p, Heard(p)
  PROVE  net' \subseteq net /\ \A q \in net : q # p => q \in net'
  BY DEF Heard

--------------------------------------------------------------------------------
(* Types, whatever is lost *)

LEMMA TypeStep ==
  ASSUME TypeInv, [Next]_vars
  PROVE  TypeInv'
<1> USE TieBreakAssumption DEF TypeInv
<1>1. ASSUME NEW h \in Host, Register(h)
      PROVE  TypeInv'
  BY <1>1 DEF Register, InitializeLastAPTime, history
<1>2. ASSUME NEW h \in Host, SendProbe(h)
      PROVE  TypeInv'
  <2>1. ProbeFrom(h, WantsUnicast(h)) \subseteq Probe
    BY ProbeFromFacts DEF WantsUnicast
  <2> QED
    BY <1>2, <2>1 DEF SendProbe, history
<1>3. ASSUME NEW h \in Host, FinishProbing(h)
      PROVE  TypeInv'
  BY <1>3, IntervalFacts DEF FinishProbing
<1>4. ASSUME NEW h \in Host, Announce(h)
      PROVE  TypeInv'
  <2>1. ResponseFrom(h) \subseteq Response
    BY ResponseFromFacts
  <2> QED
    BY <1>4, <2>1 DEF Announce, Announcing, history
<1>5. ASSUME NEW h \in Host, Answer(h)
      PROVE  TypeInv'
  <2>1. ResponseFrom(h) \subseteq Response
    BY ResponseFromFacts
  <2> QED
    BY <1>5, <2>1 DEF Answer, history
<1>6. ASSUME NEW p \in net, ReceiveProbeUnique(p)
      PROVE  TypeInv'
  <2>1. p.to \in Host
    BY PacketFacts
  <2> QED
    BY <1>6, <2>1, HeardFacts DEF ReceiveProbeUnique, DeregisterConflict, hostVars, history
<1>7. ASSUME NEW p \in net, ReceiveProbeVerified(p)
      PROVE  TypeInv'
  <2>1. p.to \in Host /\ p.from \in Host
    BY PacketFacts
  <2>2. UnicastTo(p.to, p.from) \subseteq Response
    BY <2>1, UnicastToFacts
  <2>3. net' \subseteq net \union UnicastTo(p.to, p.from)
    BY <1>7 DEF ReceiveProbeVerified, Heard
  <2>4. ImmedAnswer' \in [Host -> BOOLEAN]
    BY <1>7, <2>1 DEF ReceiveProbeVerified
  <2>5. spared' \in BOOLEAN
    BY <1>7 DEF ReceiveProbeVerified
  <2> QED
    BY <1>7, <2>2, <2>3, <2>4, <2>5 DEF ReceiveProbeVerified
<1>8. ASSUME NEW p \in net, ReceiveConflict(p)
      PROVE  TypeInv'
  <2>1. p.to \in Host
    BY PacketFacts
  <2>2. /\ net' \subseteq net /\ UNCHANGED <<losses, spared, first>>
        /\ ignored' \in BOOLEAN
    BY <1>8, HeardFacts DEF ReceiveConflict
  <2>3. CASE Reprobe(p.to)
    BY <2>1, <2>2, <2>3 DEF Reprobe, InitializeLastAPTime
  <2>4. CASE DeregisterConflict(p.to)
    BY <2>1, <2>2, <2>4 DEF DeregisterConflict
  <2>5. CASE UNCHANGED hostVars
    BY <2>2, <2>5 DEF hostVars
  <2> QED
    BY <1>8, <2>3, <2>4, <2>5 DEF ReceiveConflict
<1>9. ASSUME NEW p \in net, ReceiveNothing(p)
      PROVE  TypeInv'
  BY <1>9, HeardFacts DEF ReceiveNothing, hostVars, history
<1>10. ASSUME NEW p \in net, Lose(p)
       PROVE  TypeInv'
  BY <1>10 DEF Lose, hostVars, history
<1>11. CASE Tick
  BY <1>11 DEF Tick, Less, Later, history
<1>12. CASE UNCHANGED vars
  BY <1>12 DEF vars, hostVars, history
<1>13. ASSUME NEW h \in Host, Ask(h)
       PROVE  TypeInv'
  BY <1>13 DEF Ask, hostVars, history
<1> QED
  BY <1>1, <1>2, <1>3, <1>4, <1>5, <1>6, <1>7, <1>8, <1>9, <1>10, <1>11, <1>12, <1>13
  DEF Next, HostStep, Receive

--------------------------------------------------------------------------------
(* What each action does to the contest, while nothing is lost *)

LEMMA RegisterStep ==
  ASSUME Inv, CodeSettings, Undisturbed, NEW h \in Host, Register(h)
  PROVE  ContestInv'
<1> USE TieBreakAssumption DEF Unique, Verified, Sent, Elapsed
<1>0. TypeInv /\ ContestInv
  BY DEF Inv
<1>1. /\ \A g \in Host : g # h =>
           /\ RecordType'[g] = RecordType[g]
           /\ ProbeCount'[g] = ProbeCount[g]
           /\ AnnounceCount'[g] = AnnounceCount[g]
           /\ due'[g] = due[g]
      /\ RecordType[h] = "None"
      /\ RecordType'[h] = "Unique"
      /\ ProbeCount'[h] = DefaultProbeCountForTypeUnique
      /\ AnnounceCount'[h] = InitialAnnounceCount
      /\ due'[h] \in {0, 1}
      /\ UNCHANGED <<net, history, ImmedAnswer>>
  BY <1>0 DEF TypeInv, Register, InitializeLastAPTime
<1>2. UniqueFit'
  BY <1>0, <1>1 DEF TypeInv, ContestInv, UniqueFit
<1>3. NetFits'
  <2> SUFFICES ASSUME NEW p \in net
               PROVE  /\ p.from # p.to
                      /\ p.type = "probe" =>
                           \/ RecordType'[p.from] = "Lost"
                           \/ RecordType'[p.from] = "Unique" /\ due'[p.from] = 1 /\ Sent(p.from)' > 0
                      /\ p.type = "response" => RecordType'[p.from] = "Verified"
    BY <1>1 DEF NetFits
  <2>1. p.from \in Host
    BY <1>0, PacketFacts DEF TypeInv
  <2> QED
    BY <1>0, <1>1, <2>1 DEF ContestInv, NetFits
<1>4. MarksFit'
  BY <1>0, <1>1 DEF ContestInv, MarksFit
<1>5. WillHear'
  BY <1>0, <1>1
  DEF TypeInv, ContestInv, WillHear, HearsAlone, HearsWithAll, UnicastAsked, AllAsked, AnswerComes,
      AllAnswered, Announcing, history
<1>6. WillLose'
  BY <1>0, <1>1 DEF TypeInv, ContestInv, WillLose, ProbeComes
<1>7. Alone' /\ FirstOwns'
  BY <1>0, <1>1 DEF TypeInv, ContestInv, Alone, FirstOwns, history
<1> QED
  BY <1>2, <1>3, <1>4, <1>5, <1>6, <1>7 DEF ContestInv

LEMMA SendProbeStep ==
  ASSUME Inv, CodeSettings, Undisturbed, NEW h \in Host, SendProbe(h)
  PROVE  ContestInv'
<1> USE TieBreakAssumption DEF Unique, Verified, Sent, Elapsed
<1>0. TypeInv /\ ContestInv
  BY DEF Inv
<1>1. /\ \A g \in Host : g # h =>
           /\ ProbeCount'[g] = ProbeCount[g]
           /\ due'[g] = due[g]
      /\ RecordType' = RecordType /\ RecordType[h] = "Unique"
      /\ due[h] = 0
      /\ ProbeCount[h] > 0
      /\ ProbeCount'[h] = ProbeCount[h] - 1
      /\ due'[h] = 1
      /\ UNCHANGED <<first, ignored, spared, ImmedAnswer, AnnounceCount>>
  BY <1>0 DEF TypeInv, SendProbe, Probing, history
<1>2. PICK u \in BOOLEAN : /\ net' = net \union ProbeFrom(h, u)
                           /\ ProbeCount[h] = DefaultProbeCountForTypeUnique => u = TRUE
                           /\ ProbeCount[h] < DefaultProbeCountForTypeUnique => u = FALSE
  <2>1. WantsUnicast(h) \in BOOLEAN
    BY DEF WantsUnicast
  <2>2. ProbeCount[h] = DefaultProbeCountForTypeUnique => WantsUnicast(h)
    BY DEF WantsUnicast, CodeSettings
  <2>3. ProbeCount[h] < DefaultProbeCountForTypeUnique => ~WantsUnicast(h)
    BY <1>0 DEF WantsUnicast, TypeInv
  <2>4. net' = net \union ProbeFrom(h, WantsUnicast(h))
    BY DEF SendProbe
  <2> QED
    BY <2>1, <2>2, <2>3, <2>4, Zenon
<1>3. /\ \A p \in ProbeFrom(h, u) :
           p.type = "probe" /\ p.from = h /\ p.to # h /\ p.ucast = u
      /\ \A g \in Host \ {h} : \E p \in ProbeFrom(h, u) : p.to = g
  BY ProbeFromFacts
<1>4. UniqueFit'
  BY <1>0, <1>1 DEF TypeInv, ContestInv, UniqueFit
<1>5. NetFits'
  <2> SUFFICES ASSUME NEW p \in net'
               PROVE  /\ p.from # p.to
                      /\ p.type = "probe" =>
                           \/ RecordType'[p.from] = "Lost"
                           \/ RecordType'[p.from] = "Unique" /\ due'[p.from] = 1 /\ Sent(p.from)' > 0
                      /\ p.type = "response" => RecordType'[p.from] = "Verified"
    BY DEF NetFits
  <2>1. CASE p \in ProbeFrom(h, u)
    <3>1. Sent(h)' > 0
      BY <1>0, <1>1 DEF TypeInv, ContestInv, UniqueFit
    <3> QED
      BY <1>1, <1>3, <2>1, <3>1
  <2>2. CASE p \in net
    <3>1. p.from \in Host
      BY <1>0, <2>2, PacketFacts DEF TypeInv
    <3> QED
      BY <1>0, <1>1, <2>2, <3>1 DEF ContestInv, NetFits
  <2> QED
    BY <1>2, <2>1, <2>2
<1>6. MarksFit'
  BY <1>0, <1>1 DEF ContestInv, MarksFit
<1>7. WillHear'
  <2> SUFFICES ASSUME NEW g \in Host, NEW k \in Host, Verified(g), Unique(k)
               PROVE  \/ Sent(k)' = 0
                      \/ /\ Elapsed(k)' < DefaultProbeCountForTypeUnique
                         /\ ignored \/ HearsAlone(k, g)'
                         /\ spared \/ HearsWithAll(k, g)'
    BY <1>1 DEF WillHear
  <2>1. /\ UnicastAsked(k, g) => UnicastAsked(k, g)'
        /\ AllAsked(k, g) => AllAsked(k, g)'
        /\ AnswerComes(g, k) => AnswerComes(g, k)'
        /\ AllAnswered(g, k) => AllAnswered(g, k)'
    BY <1>2 DEF UnicastAsked, AllAsked, AnswerComes, AllAnswered
  <2>2. Announcing(g) => Announcing(g)'
    BY <1>1 DEF Announcing
  <2>3. HearsAlone(k, g) => HearsAlone(k, g)'
    BY <2>1, <2>2 DEF HearsAlone
  <2>4. HearsWithAll(k, g) /\ (Sent(k) = 1 => Sent(k)' = 1) => HearsWithAll(k, g)'
    BY <1>1, <2>1, <2>2 DEF HearsWithAll
  <2>5. CASE k # h
    BY <1>0, <1>1, <2>3, <2>4, <2>5 DEF TypeInv, ContestInv, WillHear
  <2>6. g # h
    BY <1>1
  <2>7. PICK p \in ProbeFrom(h, u) : p.to = g
    BY <1>3, <2>6
  <2>8. p \in net' /\ p.type = "probe" /\ p.from = h /\ p.ucast = u
    BY <1>2, <1>3
  <2>9. CASE k = h /\ Sent(h) = 0
    <3>1. u = TRUE
      BY <1>0, <1>2, <2>9 DEF TypeInv
    <3>2. HearsAlone(k, g)'
      BY <2>7, <2>8, <2>9, <3>1 DEF HearsAlone, UnicastAsked
    <3>3. Elapsed(k)' = 0 /\ Sent(k)' = 1
      BY <1>0, <1>1, <2>9 DEF TypeInv
    <3>4. HearsWithAll(k, g)'
      BY <3>3 DEF HearsWithAll
    <3> QED
      BY <3>2, <3>3, <3>4
  <2>10. CASE k = h /\ Sent(h) # 0
    <3>1. Elapsed(k)' = Elapsed(k)
      BY <1>0, <1>1, <2>10 DEF TypeInv
    <3>2. Sent(h) > 0
      BY <1>0, <1>1, <2>10 DEF TypeInv, ContestInv, UniqueFit
    <3>3. u = FALSE
      BY <1>0, <1>2, <3>2 DEF TypeInv
    <3>4. HearsWithAll(k, g)'
      BY <2>7, <2>8, <2>10, <3>3 DEF HearsWithAll, AllAsked
    <3> QED
      BY <1>0, <2>3, <2>10, <3>1, <3>4 DEF ContestInv, WillHear
  <2> QED
    BY <2>5, <2>9, <2>10
<1>8. WillLose'
  <2> SUFFICES ASSUME NEW g \in Host, NEW k \in Host, Unique(g), Unique(k), Data[g] > Data[k],
                      Sent(g)' > 0, Sent(k)' > 0
               PROVE  \/ ProbeComes(g, k)'
                      \/ Elapsed(k)' = 0
                      \/ Elapsed(k)' = 1 /\ due'[g] = 0
    BY <1>1 DEF WillLose
  <2>1. ProbeComes(g, k) => ProbeComes(g, k)'
    BY <1>2 DEF ProbeComes
  <2>2. g # k
    BY <1>0
  <2>3. CASE g = h
    BY <1>2, <1>3, <2>2, <2>3 DEF ProbeComes
  <2>4. CASE k = h /\ Sent(h) = 0
    BY <1>0, <1>1, <2>4 DEF TypeInv
  <2>5. CASE k = h /\ Sent(h) # 0
    <3>1. Sent(h) > 0
      BY <1>0, <1>1, <2>5 DEF TypeInv, ContestInv, UniqueFit
    <3>2. Elapsed(h)' = Elapsed(h)
      BY <1>0, <1>1, <2>5 DEF TypeInv
    <3>3. due'[g] = due[g] /\ Sent(g)' = Sent(g)
      BY <1>1, <2>2, <2>5
    <3> QED
      BY <1>0, <2>1, <2>5, <3>1, <3>2, <3>3 DEF ContestInv, WillLose
  <2>6. CASE g # h /\ k # h
    BY <1>0, <1>1, <2>1, <2>6 DEF ContestInv, WillLose
  <2> QED
    BY <2>3, <2>4, <2>5, <2>6
<1>9. Alone' /\ FirstOwns'
  BY <1>0, <1>1 DEF ContestInv, Alone, FirstOwns
<1> QED
  BY <1>4, <1>5, <1>6, <1>7, <1>8, <1>9 DEF ContestInv

LEMMA FinishProbingStep ==
  ASSUME Inv, CodeSettings, Undisturbed, NEW h \in Host, FinishProbing(h)
  PROVE  ContestInv'
<1> USE TieBreakAssumption DEF Unique, Verified, Sent, Elapsed
<1>0. TypeInv /\ ContestInv
  BY DEF Inv
<1>1. /\ \A g \in Host : g # h => RecordType'[g] = RecordType[g]
      /\ RecordType[h] = "Unique"
      /\ RecordType'[h] = "Verified"
      /\ due[h] = 0
      /\ ProbeCount[h] = 0
      /\ UNCHANGED <<ProbeCount, AnnounceCount, due, ImmedAnswer, net, ignored, spared>>
      /\ first' \subseteq first \union {h}
  BY <1>0 DEF TypeInv, FinishProbing, Probing
<1>2. /\ Sent(h) = DefaultProbeCountForTypeUnique
      /\ Elapsed(h) = DefaultProbeCountForTypeUnique
      /\ DefaultProbeCountForTypeUnique >= 2
  BY <1>1 DEF CodeSettings
<1>3. \A g \in Host : ~Verified(g)
  BY <1>0, <1>1, <1>2 DEF ContestInv, WillHear
<1>4. UniqueFit'
  BY <1>0, <1>1 DEF ContestInv, UniqueFit
<1>5. NetFits'
  <2> SUFFICES ASSUME NEW p \in net
               PROVE  /\ p.from # p.to
                      /\ p.type = "probe" =>
                           \/ RecordType'[p.from] = "Lost"
                           \/ RecordType'[p.from] = "Unique" /\ due'[p.from] = 1 /\ Sent(p.from)' > 0
                      /\ p.type = "response" => RecordType'[p.from] = "Verified"
    BY <1>1 DEF NetFits
  <2>1. p.from \in Host
    BY <1>0, PacketFacts DEF TypeInv
  <2> QED
    BY <1>0, <1>1, <2>1 DEF ContestInv, NetFits
<1>6. MarksFit'
  BY <1>0, <1>1 DEF ContestInv, MarksFit
<1>7. WillHear'
  <2> SUFFICES ASSUME NEW k \in Host, k # h, Unique(k), Sent(k) # 0
               PROVE  Elapsed(k) < DefaultProbeCountForTypeUnique /\ Announcing(h)'
    BY <1>1, <1>3 DEF WillHear, HearsAlone, HearsWithAll
  <2>1. Announcing(h)'
    BY <1>0, <1>1 DEF ContestInv, UniqueFit, Announcing
  <2>2. /\ Sent(k) > 0 /\ Sent(k) <= DefaultProbeCountForTypeUnique
        /\ due[k] \in {0, 1}
    BY <1>0 DEF TypeInv, ContestInv, UniqueFit
  <2>3. ASSUME Elapsed(k) >= DefaultProbeCountForTypeUnique
        PROVE  FALSE
    <3>1. Elapsed(k) = DefaultProbeCountForTypeUnique /\ due[k] = 0
      BY <1>0, <2>2, <2>3 DEF TypeInv
    <3>2. ~ProbeComes(h, k) /\ ~ProbeComes(k, h)
      BY <1>0, <1>1, <3>1 DEF ContestInv, NetFits, ProbeComes
    <3>3. Sent(h) > 0
      BY <1>2
    <3>4. Data[h] > Data[k] \/ Data[k] > Data[h]
      OBVIOUS
    <3>5. CASE Data[h] > Data[k]
      <4>1. Elapsed(k) = 0 \/ Elapsed(k) = 1
        BY <1>0, <1>1, <2>2, <3>2, <3>3, <3>5 DEF ContestInv, WillLose
      <4> QED
        BY <1>2, <3>1, <4>1
    <3>6. CASE Data[k] > Data[h]
      <4>1. Elapsed(h) = 0 \/ Elapsed(h) = 1
        BY <1>0, <1>1, <2>2, <3>2, <3>3, <3>6 DEF ContestInv, WillLose
      <4> QED
        BY <1>2, <4>1
    <3> QED
      BY <3>4, <3>5, <3>6
  <2>4. Elapsed(k) \in Int
    BY <1>0, <2>2 DEF TypeInv
  <2> QED
    BY <2>1, <2>3, <2>4
<1>8. WillLose'
  BY <1>0, <1>1 DEF ContestInv, WillLose, ProbeComes
<1>9. Alone' /\ FirstOwns'
  BY <1>0, <1>1, <1>3 DEF TypeInv, ContestInv, Alone, FirstOwns
<1> QED
  BY <1>4, <1>5, <1>6, <1>7, <1>8, <1>9 DEF ContestInv

LEMMA AnnounceStep ==
  ASSUME Inv, CodeSettings, Undisturbed, NEW h \in Host, Announce(h) \/ Answer(h)
  PROVE  ContestInv'
<1> USE TieBreakAssumption DEF Unique, Verified, Sent, Elapsed
<1>0. TypeInv /\ ContestInv
  BY DEF Inv
<1>1. /\ RecordType[h] = "Verified"
      /\ UNCHANGED <<RecordType, ProbeCount, first, ignored, spared>>
      /\ \A g \in Host : g # h =>
           /\ due'[g] = due[g]
           /\ AnnounceCount'[g] = AnnounceCount[g]
           /\ ImmedAnswer'[g] = ImmedAnswer[g]
      /\ net' = net \union ResponseFrom(h)
  BY <1>0 DEF TypeInv, ContestInv, MarksFit, Announce, Announcing, Answer, history
<1>2. /\ \A p \in ResponseFrom(h) :
           p.type = "response" /\ p.from = h /\ p.to # h /\ p.ucast = FALSE
      /\ \A g \in Host \ {h} : \E p \in ResponseFrom(h) : p.to = g
  BY ResponseFromFacts
<1>3. UniqueFit'
  BY <1>0, <1>1 DEF ContestInv, UniqueFit
<1>4. NetFits'
  <2> SUFFICES ASSUME NEW p \in net'
               PROVE  /\ p.from # p.to
                      /\ p.type = "probe" =>
                           \/ RecordType'[p.from] = "Lost"
                           \/ RecordType'[p.from] = "Unique" /\ due'[p.from] = 1 /\ Sent(p.from)' > 0
                      /\ p.type = "response" => RecordType'[p.from] = "Verified"
    BY DEF NetFits
  <2>1. CASE p \in ResponseFrom(h)
    BY <1>1, <1>2, <2>1
  <2>2. CASE p \in net
    <3>1. p.from \in Host
      BY <1>0, <2>2, PacketFacts DEF TypeInv
    <3> QED
      BY <1>0, <1>1, <2>2, <3>1 DEF ContestInv, NetFits
  <2> QED
    BY <1>1, <2>1, <2>2
<1>5. MarksFit'
  BY <1>0, <1>1 DEF ContestInv, MarksFit
<1>6. WillHear'
  <2> SUFFICES ASSUME NEW g \in Host, NEW k \in Host, Verified(g), Unique(k), Sent(k) # 0
               PROVE  /\ Elapsed(k)' < DefaultProbeCountForTypeUnique
                      /\ AnswerComes(g, k)' /\ AllAnswered(g, k)'
    BY <1>1 DEF WillHear, HearsAlone, HearsWithAll
  <2>1. g = h /\ k # h
    BY <1>0, <1>1 DEF ContestInv, Alone
  <2>2. Elapsed(k)' < DefaultProbeCountForTypeUnique
    BY <1>0, <1>1, <2>1 DEF ContestInv, WillHear
  <2>3. AnswerComes(g, k)' /\ AllAnswered(g, k)'
    BY <1>1, <1>2, <2>1 DEF AnswerComes, AllAnswered
  <2> QED
    BY <2>2, <2>3
<1>7. WillLose'
  BY <1>0, <1>1 DEF ContestInv, WillLose, ProbeComes
<1>8. Alone' /\ FirstOwns'
  BY <1>0, <1>1 DEF ContestInv, Alone, FirstOwns
<1> QED
  BY <1>3, <1>4, <1>5, <1>6, <1>7, <1>8 DEF ContestInv

\* A host that gives up, or none, and a packet less that was for it
LEMMA GiveUpStep ==
  ASSUME Inv, CodeSettings, Undisturbed, NEW p \in net,
         net' \subseteq net, \A q \in net : q # p => q \in net',
         UNCHANGED first, ignored => ignored', spared' = spared,
         ~Verified(p.to),
         \/ DeregisterConflict(p.to) /\ Unique(p.to)
         \/ /\ UNCHANGED hostVars
            /\ Unique(p.to) => p.type = "probe" /\ ~(Data[p.from] > Data[p.to])
         \/ /\ UNCHANGED hostVars
            /\ p.type = "response" /\ p.ucast = TRUE /\ ignored'
  PROVE  ContestInv'
<1> USE TieBreakAssumption DEF Unique, Verified, Sent, Elapsed
<1> DEFINE h == p.to
<1>0. TypeInv /\ ContestInv
  BY DEF Inv
<1>a. h \in Host /\ p.from \in Host
  BY <1>0, PacketFacts DEF TypeInv
<1> HIDE DEF h
<1>1. /\ \A g \in Host : g # h => RecordType'[g] = RecordType[g]
      /\ UNCHANGED <<ProbeCount, AnnounceCount, due>>
      /\ \A g \in Host : ImmedAnswer'[g] => ImmedAnswer[g]
      /\ \A g \in Host : g # h => ImmedAnswer'[g] = ImmedAnswer[g]
      /\ RecordType[h] # "Verified"
      /\ \/ RecordType'[h] = RecordType[h]
         \/ RecordType[h] = "Unique" /\ RecordType'[h] = "Lost"
  <2>1. CASE DeregisterConflict(h) /\ Unique(h)
    BY <1>0, <1>a, <2>1 DEF TypeInv, DeregisterConflict
  <2>2. CASE UNCHANGED hostVars
    BY <2>2 DEF hostVars, h
  <2> QED
    BY <2>1, <2>2 DEF h
<1>2. RecordType'[h] = "Unique" =>
        \/ p.type = "probe" /\ ~(Data[p.from] > Data[h])
        \/ p.type = "response" /\ p.ucast = TRUE /\ ignored'
  <2>1. CASE DeregisterConflict(h)
    BY <1>0, <1>a, <2>1 DEF TypeInv, DeregisterConflict
  <2>2. CASE /\ UNCHANGED hostVars
             /\ Unique(h) => p.type = "probe" /\ ~(Data[p.from] > Data[h])
    BY <2>2 DEF hostVars
  <2>3. CASE p.type = "response" /\ p.ucast = TRUE /\ ignored'
    BY <2>3
  <2> QED
    BY <2>1, <2>2, <2>3 DEF h
<1>3. UniqueFit'
  BY <1>0, <1>1 DEF ContestInv, UniqueFit
<1>4. NetFits'
  <2> SUFFICES ASSUME NEW q \in net
               PROVE  /\ q.from # q.to
                      /\ q.type = "probe" =>
                           \/ RecordType'[q.from] = "Lost"
                           \/ RecordType'[q.from] = "Unique" /\ due'[q.from] = 1 /\ Sent(q.from)' > 0
                      /\ q.type = "response" => RecordType'[q.from] = "Verified"
    BY DEF NetFits
  <2>1. q.from \in Host
    BY <1>0, PacketFacts DEF TypeInv
  <2> QED
    BY <1>0, <1>1, <2>1 DEF ContestInv, NetFits
<1>5. MarksFit'
  BY <1>0, <1>1 DEF ContestInv, MarksFit
<1>6. WillHear'
  <2> SUFFICES ASSUME NEW g \in Host, NEW k \in Host,
                      RecordType'[g] = "Verified", RecordType'[k] = "Unique", Sent(k) # 0
               PROVE  /\ Elapsed(k) < DefaultProbeCountForTypeUnique
                      /\ ignored' \/ HearsAlone(k, g)'
                      /\ spared \/ HearsWithAll(k, g)'
    BY <1>1 DEF WillHear
  <2>1. Verified(g) /\ Unique(k) /\ g # h
    BY <1>1
  <2>2. /\ Elapsed(k) < DefaultProbeCountForTypeUnique
        /\ ignored \/ HearsAlone(k, g)
        /\ spared \/ HearsWithAll(k, g)
    BY <1>0, <2>1 DEF ContestInv, WillHear
  <2>3. /\ UnicastAsked(k, g) => UnicastAsked(k, g)'
        /\ AllAsked(k, g) => AllAsked(k, g)'
    BY <2>1 DEF UnicastAsked, AllAsked, h
  <2>4. AnswerComes(g, k) => ignored' \/ AnswerComes(g, k)'
    BY <1>2 DEF AnswerComes, h
  <2>5. AllAnswered(g, k) => AllAnswered(g, k)'
    BY <1>2 DEF AllAnswered, h
  <2>6. Announcing(g) => Announcing(g)'
    BY <1>1 DEF Announcing
  <2>7. ignored' \/ HearsAlone(k, g)'
    BY <2>2, <2>3, <2>4, <2>6 DEF HearsAlone
  <2>8. spared \/ HearsWithAll(k, g)'
    BY <1>1, <2>1, <2>2, <2>3, <2>5, <2>6 DEF HearsWithAll
  <2> QED
    BY <2>2, <2>7, <2>8
<1>7. WillLose'
  <2> SUFFICES ASSUME NEW g \in Host, NEW k \in Host,
                      RecordType'[g] = "Unique", RecordType'[k] = "Unique", Data[g] > Data[k],
                      Sent(g) > 0, Sent(k) > 0
               PROVE  \/ ProbeComes(g, k)'
                      \/ Elapsed(k) = 0
                      \/ Elapsed(k) = 1 /\ due[g] = 0
    BY <1>1 DEF WillLose
  <2>1. Unique(g) /\ Unique(k)
    BY <1>1
  <2>2. ProbeComes(g, k) => ProbeComes(g, k)'
    BY <1>2 DEF ProbeComes, h
  <2> QED
    BY <1>0, <2>1, <2>2 DEF ContestInv, WillLose
<1>8. Alone' /\ FirstOwns'
  BY <1>0, <1>1 DEF TypeInv, ContestInv, Alone, FirstOwns
<1> QED
  BY <1>3, <1>4, <1>5, <1>6, <1>7, <1>8 DEF ContestInv

LEMMA ReceiveProbeUniqueStep ==
  ASSUME Inv, CodeSettings, Undisturbed, NEW p \in net, ReceiveProbeUnique(p)
  PROVE  ContestInv'
<1>1. p.to \in Host /\ p.from \in Host
  BY PacketFacts DEF Inv, TypeInv
<1>2. /\ Heard(p) /\ UNCHANGED <<ignored, spared, first>> /\ p.type = "probe"
      /\ Unique(p.to) /\ ~Verified(p.to)
      /\ \/ Comparison(p.to, p.from) = -1 /\ DeregisterConflict(p.to)
         \/ Comparison(p.to, p.from) # -1 /\ UNCHANGED hostVars
  BY DEF ReceiveProbeUnique, Unique, Verified, history
<1>3. Comparison(p.to, p.from) # -1 => ~(Data[p.from] > Data[p.to])
  BY <1>1, LosesIffLess
<1> QED
  BY <1>2, <1>3, HeardFacts, GiveUpStep

LEMMA ReceiveConflictStep ==
  ASSUME Inv, CodeSettings, Undisturbed, NEW p \in net, ReceiveConflict(p)
  PROVE  ContestInv'
<1>0. TypeInv /\ ContestInv
  BY DEF Inv
<1>1. p.to \in Host /\ p.from \in Host /\ p.ucast \in BOOLEAN
  BY <1>0, PacketFacts DEF TypeInv
<1>2. /\ Heard(p) /\ UNCHANGED <<spared, first>> /\ p.type = "response"
      /\ ignored => ignored'
      /\ ~Expected(p) => ignored'
  BY DEF ReceiveConflict
<1>3. ~Verified(p.to)
  BY <1>0, <1>1, <1>2 DEF ContestInv, NetFits, Alone
<1>4. CASE Unique(p.to) /\ Expected(p)
  <2>1. ProbeCount[p.to] <= DefaultProbeCountForTypeUnique
    BY <1>0, <1>1, <1>4 DEF ContestInv, UniqueFit
  <2>2. ~Reprobed(p.to)
    BY <1>0, <1>1, <2>1, TieBreakAssumption DEF Reprobed, TypeInv
  <2>3. Conflicts(p.to, p.from)
    BY <1>4 DEF Conflicts, Unique
  <2>4. DeregisterConflict(p.to)
    BY <1>4, <2>2, <2>3 DEF ReceiveConflict, Unique
  <2> QED
    BY <1>2, <1>3, <1>4, <2>4, HeardFacts, GiveUpStep
<1>5. CASE ~Unique(p.to)
  <2>1. UNCHANGED hostVars
    BY <1>3, <1>5 DEF ReceiveConflict, Unique, Verified
  <2> QED
    BY <1>2, <1>3, <1>5, <2>1, HeardFacts, GiveUpStep
<1>6. CASE Unique(p.to) /\ ~Expected(p)
  <2>1. UNCHANGED hostVars
    BY <1>6 DEF ReceiveConflict
  <2>2. p.ucast = TRUE
    BY <1>1, <1>6 DEF Expected
  <2> QED
    BY <1>2, <1>3, <1>6, <2>1, <2>2, HeardFacts, GiveUpStep
<1> QED
  BY <1>4, <1>5, <1>6

LEMMA ReceiveNothingStep ==
  ASSUME Inv, CodeSettings, Undisturbed, NEW p \in net, ReceiveNothing(p)
  PROVE  ContestInv'
<1>1. /\ Heard(p) /\ UNCHANGED <<hostVars, ignored, spared, first>>
      /\ ~Unique(p.to) /\ ~Verified(p.to)
  BY DEF ReceiveNothing, Unique, Verified, history
<1> QED
  BY <1>1, HeardFacts, GiveUpStep

LEMMA ReceiveProbeVerifiedStep ==
  ASSUME Inv, CodeSettings, Undisturbed, NEW p \in net, ReceiveProbeVerified(p)
  PROVE  ContestInv'
<1> USE TieBreakAssumption DEF Unique, Verified, Sent, Elapsed
<1> DEFINE h == p.to
<1>0. TypeInv /\ ContestInv
  BY DEF Inv
<1>a. h \in Host /\ p.from \in Host
  BY <1>0, PacketFacts DEF TypeInv
<1>1. /\ UNCHANGED <<RecordType, ProbeCount, AnnounceCount, due, ignored, first>>
      /\ RecordType[h] = "Verified"
      /\ \A g \in Host : ImmedAnswer'[g] => ImmedAnswer[g] \/ g = h
      /\ \A g \in Host : ImmedAnswer[g] => ImmedAnswer'[g]
  <2>1. \/ UNCHANGED ImmedAnswer
        \/ ImmedAnswer' = [ImmedAnswer EXCEPT ![h] = TRUE]
        \/ ImmedAnswer' = [ImmedAnswer EXCEPT ![h] = @ \/ sinceMC[h] = OneSecond]
    BY DEF ReceiveProbeVerified
  <2>2. \A g \in Host : g # h => ImmedAnswer'[g] = ImmedAnswer[g]
    BY <1>0, <1>a, <2>1 DEF TypeInv
  <2>3. ImmedAnswer[h] => ImmedAnswer'[h]
    BY <1>0, <1>a, <2>1 DEF TypeInv
  <2> QED
    BY <2>2, <2>3 DEF ReceiveProbeVerified
<1>b. /\ spared => spared'
      /\ p.ucast = FALSE /\ ~spared' => ~Spares(h)
      /\ p.ucast = FALSE => ImmedAnswer' = [ImmedAnswer EXCEPT ![h] = @ \/ sinceMC[h] = OneSecond]
  BY DEF ReceiveProbeVerified
<1>2. /\ \A q \in net : q # p => q \in net'
      /\ net' \subseteq net \union UnicastTo(h, p.from)
      /\ p.type = "probe"
      /\ p.ucast = TRUE => UnicastTo(h, p.from) \subseteq net'
  BY DEF ReceiveProbeVerified, Heard
<1>3. h # p.from
  BY <1>0 DEF ContestInv, NetFits
<1>c. sinceMC[h] \in 0..OneSecond
  BY <1>0, <1>a DEF TypeInv
<1> HIDE DEF h
<1>4. /\ \A q \in UnicastTo(h, p.from) : q.type = "response" /\ q.from = h /\ q.to = p.from
      /\ UnicastTo(h, p.from) # {}
  BY <1>a, UnicastToFacts
<1>5. UniqueFit'
  BY <1>0, <1>1 DEF ContestInv, UniqueFit
<1>6. NetFits'
  <2> SUFFICES ASSUME NEW q \in net'
               PROVE  /\ q.from # q.to
                      /\ q.type = "probe" =>
                           \/ RecordType'[q.from] = "Lost"
                           \/ RecordType'[q.from] = "Unique" /\ due'[q.from] = 1 /\ Sent(q.from)' > 0
                      /\ q.type = "response" => RecordType'[q.from] = "Verified"
    BY DEF NetFits
  <2>1. CASE q \in UnicastTo(h, p.from)
    BY <1>1, <1>3, <1>4, <2>1
  <2>2. CASE q \in net
    BY <1>0, <1>1, <2>2 DEF ContestInv, NetFits
  <2> QED
    BY <1>2, <2>1, <2>2
<1>7. MarksFit'
  BY <1>0, <1>1 DEF ContestInv, MarksFit
<1>8. WillHear'
  <2> SUFFICES ASSUME NEW g \in Host, NEW k \in Host, Verified(g), Unique(k), Sent(k) # 0
               PROVE  /\ Elapsed(k) < DefaultProbeCountForTypeUnique
                      /\ ignored \/ HearsAlone(k, g)'
                      /\ spared' \/ HearsWithAll(k, g)'
    BY <1>1 DEF WillHear
  <2>1. /\ Elapsed(k) < DefaultProbeCountForTypeUnique
        /\ ignored \/ HearsAlone(k, g)
        /\ spared \/ HearsWithAll(k, g)
    BY <1>0 DEF ContestInv, WillHear
  <2>2. Announcing(g) => Announcing(g)'
    BY <1>1 DEF Announcing
  <2>3. /\ AnswerComes(g, k) => AnswerComes(g, k)'
        /\ AllAnswered(g, k) => AllAnswered(g, k)'
    BY <1>2 DEF AnswerComes, AllAnswered
  <2>4. ASSUME UnicastAsked(k, g)
        PROVE  UnicastAsked(k, g)' \/ AnswerComes(g, k)'
    <3>1. PICK q \in net : q.type = "probe" /\ q.from = k /\ q.to = g /\ q.ucast = TRUE
      BY <2>4 DEF UnicastAsked
    <3>2. CASE q = p
      BY <1>2, <1>4, <3>1, <3>2 DEF AnswerComes, h
    <3>3. CASE q # p
      BY <1>2, <3>1, <3>3 DEF UnicastAsked
    <3> QED
      BY <3>2, <3>3
  <2>5. ASSUME AllAsked(k, g), ~spared'
        PROVE  AllAsked(k, g)' \/ ImmedAnswer'[g] \/ Announcing(g)'
    <3>1. PICK q \in net : q.type = "probe" /\ q.from = k /\ q.to = g /\ q.ucast = FALSE
      BY <2>5 DEF AllAsked
    <3>2. CASE q = p
      <4>1. g = h /\ ~Spares(g)
        BY <1>b, <2>5, <3>1, <3>2 DEF h
      <4>2. CASE Announcing(g)
        BY <2>2, <4>2
      <4>3. CASE ~Announcing(g)
        <5>1. sinceMC[h] = OneSecond
          BY <1>c, <4>1, <4>3 DEF Spares
        <5>2. ImmedAnswer' = [ImmedAnswer EXCEPT ![h] = @ \/ sinceMC[h] = OneSecond]
          BY <1>b, <3>1, <3>2
        <5> QED
          BY <1>0, <1>a, <4>1, <5>1, <5>2 DEF TypeInv
      <4> QED
        BY <4>2, <4>3
    <3>3. CASE q # p
      BY <1>2, <3>1, <3>3 DEF AllAsked
    <3> QED
      BY <3>2, <3>3
  <2>6. ignored \/ HearsAlone(k, g)'
    BY <2>1, <2>2, <2>3, <2>4 DEF HearsAlone
  <2>7. spared' \/ HearsWithAll(k, g)'
    BY <1>1, <1>b, <2>1, <2>2, <2>3, <2>5 DEF HearsWithAll
  <2> QED
    BY <2>1, <2>6, <2>7
<1>9. WillLose'
  <2>1. \A g \in Host, k \in Host : Unique(k) /\ ProbeComes(g, k) => ProbeComes(g, k)'
    BY <1>1, <1>2 DEF ProbeComes, h
  <2> QED
    BY <1>0, <1>1, <2>1 DEF ContestInv, WillLose
<1>10. Alone' /\ FirstOwns'
  BY <1>0, <1>1 DEF ContestInv, Alone, FirstOwns
<1> QED
  BY <1>5, <1>6, <1>7, <1>8, <1>9, <1>10 DEF ContestInv

LEMMA TickStep ==
  ASSUME Inv, CodeSettings, Undisturbed, Tick
  PROVE  ContestInv'
<1> USE TieBreakAssumption DEF Unique, Verified, Sent, Elapsed
<1>0. TypeInv /\ ContestInv
  BY DEF Inv
<1>1. /\ UNCHANGED <<RecordType, ProbeCount, AnnounceCount, net, ignored, spared, first>>
      /\ net = {}
      /\ \A h \in Host : /\ ~Probing(h) /\ ~Announcing(h)
                         /\ ~ImmedAnswer[h] /\ ImmedAnswer'[h] = ImmedAnswer[h]
                         /\ due'[h] = Less(due[h])
  BY DEF Tick, history
<1>2. \A h \in Host : Unique(h) => due[h] = 1 /\ due'[h] = 0
  BY <1>0, <1>1 DEF ContestInv, UniqueFit, Probing, Less
<1>3. UniqueFit'
  BY <1>0, <1>1, <1>2 DEF ContestInv, UniqueFit
<1>4. NetFits'
  BY <1>1 DEF NetFits
<1>5. MarksFit'
  BY <1>0, <1>1 DEF ContestInv, MarksFit
<1>6. WillHear'
  <2> SUFFICES ASSUME NEW g \in Host, NEW h \in Host, Verified(g), Unique(h), Sent(h) # 0
               PROVE  /\ Elapsed(h)' < DefaultProbeCountForTypeUnique
                      /\ ignored /\ HearsWithAll(h, g)'
    BY <1>1 DEF WillHear
  <2>1. ~HearsAlone(h, g)
    BY <1>1 DEF HearsAlone, UnicastAsked, AnswerComes
  <2>2. ignored /\ ~spared /\ HearsWithAll(h, g)
    BY <1>0, <2>1 DEF ContestInv, WillHear, Undisturbed
  <2>3. Sent(h) = 1
    BY <1>1, <2>2 DEF HearsWithAll, AllAsked, AllAnswered
  <2>4. Elapsed(h)' = 1
    BY <1>1, <1>2, <2>3
  <2>5. HearsWithAll(h, g)'
    BY <1>1, <2>3 DEF HearsWithAll
  <2> QED
    BY <2>2, <2>4, <2>5 DEF CodeSettings
<1>7. WillLose'
  <2>1. \A g, h \in Host : ~ProbeComes(g, h)
    BY <1>1 DEF ProbeComes
  <2> SUFFICES ASSUME NEW g \in Host, NEW h \in Host, Unique(g), Unique(h), Data[g] > Data[h],
                      Sent(g) > 0, Sent(h) > 0
               PROVE  Elapsed(h)' = 1 /\ due'[g] = 0
    BY <1>1 DEF WillLose
  <2>2. Elapsed(h) = 0
    BY <1>0, <1>2, <2>1 DEF ContestInv, WillLose
  <2> QED
    BY <1>0, <1>1, <1>2, <2>2 DEF TypeInv
<1>8. Alone' /\ FirstOwns'
  BY <1>0, <1>1 DEF ContestInv, Alone, FirstOwns
<1> QED
  BY <1>3, <1>4, <1>5, <1>6, <1>7, <1>8 DEF ContestInv

\* No record and no packet changes, as when a host asks for something else
LEMMA StutterStep ==
  ASSUME Inv, Undisturbed, UNCHANGED <<hostVars, net, history>>
  PROVE  ContestInv'
BY DEF Inv, hostVars, history, ContestInv, UniqueFit, NetFits, MarksFit, WillHear, WillLose,
       Alone, FirstOwns, Unique, Verified, Sent, Elapsed, ProbeComes, HearsAlone, HearsWithAll,
       UnicastAsked, AllAsked, AnswerComes, AllAnswered, Announcing

--------------------------------------------------------------------------------
(* Theorems *)

\* What disturbed a contest is not undone
LEMMA DisturbedBefore ==
  ASSUME TypeInv, [Next]_vars, Undisturbed'
  PROVE  Undisturbed /\ \A p \in net : ~Lose(p)
<1>1. ASSUME NEW p \in net, Lose(p)
      PROVE  FALSE
  BY <1>1 DEF Lose, TypeInv, Undisturbed
<1>2. losses' = losses /\ (ignored => ignored') /\ (spared => spared')
  <2>1. CASE UNCHANGED vars
    BY <2>1 DEF vars, history
  <2>2. ASSUME NEW p \in net, Receive(p)
        PROVE  losses' = losses /\ (ignored => ignored') /\ (spared => spared')
    <3>1. ReceiveProbeUnique(p) \/ ReceiveNothing(p) => UNCHANGED <<losses, ignored, spared>>
      BY DEF ReceiveProbeUnique, ReceiveNothing, history
    <3>2. ReceiveProbeVerified(p) => UNCHANGED <<losses, ignored>> /\ (spared => spared')
      BY DEF ReceiveProbeVerified
    <3>3. ReceiveConflict(p) => UNCHANGED <<losses, spared>> /\ (ignored => ignored')
      BY DEF ReceiveConflict
    <3> QED
      BY <2>2, <3>1, <3>2, <3>3 DEF Receive
  <2>3. ASSUME NEW h \in Host, Register(h) \/ HostStep(h) \/ Ask(h)
        PROVE  UNCHANGED <<losses, ignored, spared>>
    BY <2>3 DEF Register, Ask, HostStep, SendProbe, FinishProbing, Announce, Answer, history
  <2>4. CASE Tick
    BY <2>4 DEF Tick, history
  <2> QED
    BY <1>1, <2>1, <2>2, <2>3, <2>4 DEF Next
<1> QED
  BY <1>1, <1>2 DEF Undisturbed

LEMMA InvStep ==
  ASSUME Inv, CodeSettings, [Next]_vars
  PROVE  Inv'
<1>1. TypeInv'
  BY TypeStep DEF Inv
<1>2. ASSUME Undisturbed'
      PROVE  ContestInv'
  <2>1. Undisturbed /\ \A p \in net : ~Lose(p)
    BY <1>2, DisturbedBefore DEF Inv
  <2>2. CASE \E h \in Host : Register(h)
    BY <2>1, <2>2, RegisterStep
  <2>3. CASE \E h \in Host : HostStep(h)
    BY <2>1, <2>3, SendProbeStep, FinishProbingStep, AnnounceStep DEF HostStep
  <2>4. CASE \E p \in net : Receive(p)
    BY <2>1, <2>4, ReceiveProbeUniqueStep, ReceiveProbeVerifiedStep, ReceiveConflictStep,
       ReceiveNothingStep
    DEF Receive
  <2>5. CASE Tick
    BY <2>1, <2>5, TickStep
  <2>6. CASE (\E h \in Host : Ask(h)) \/ UNCHANGED vars
    BY <2>1, <2>6, StutterStep DEF Ask, vars
  <2> QED
    BY <2>1, <2>2, <2>3, <2>4, <2>5, <2>6 DEF Next
<1> QED
  BY <1>1, <1>2 DEF Inv

LEMMA InvInit ==
  ASSUME Init
  PROVE  Inv
<1>1. TypeInv
  <2>1. 0 \in 0..OneSecond
    BY TieBreakAssumption
  <2> QED
    BY <2>1 DEF Init, TypeInv
<1>2. ContestInv
  <2>1. /\ \A h \in Host : ~Unique(h) /\ ~Verified(h) /\ ~ImmedAnswer[h]
        /\ net = {} /\ first = {}
    BY DEF Init, Unique, Verified
  <2>2. UniqueFit /\ MarksFit /\ Alone /\ FirstOwns
    BY <2>1 DEF UniqueFit, MarksFit, Alone, FirstOwns
  <2>3. NetFits
    BY <2>1 DEF NetFits
  <2>4. WillHear /\ WillLose
    BY <2>1 DEF WillHear, WillLose
  <2> QED
    BY <2>2, <2>3, <2>4 DEF ContestInv
<1> QED
  BY <1>1, <1>2 DEF Inv

LEMMA InvHolds ==
  ASSUME CodeSettings
  PROVE  Spec => []Inv
<1>1. Init => Inv
  BY InvInit
<1>2. Inv /\ [Next]_vars => Inv'
  BY InvStep
<1> QED
  BY <1>1, <1>2, PTL DEF Spec

\* While no packet is lost, at most one host believes the name to be its own, however
\* the probes and answers of any number of hosts cross, are repeated or overtake each
\* other, unless a unicast answer to a probe was thrown away and another probe was left
\* without a multicast answer (SendQueries, ResolveSimultaneousProbe, ProcessQuery,
\* mDNSCoreReceiveResponse).  The program does throw unicast answers away: then one
\* owner is what the multicast answers give.
THEOREM AtMostOneOwner ==
  ASSUME CodeSettings
  PROVE  Spec => []OneOwner
<1>1. Inv => OneOwner
  BY DEF Inv, ContestInv, Alone, OneOwner, Owners, Verified
<1> QED
  BY <1>1, InvHolds, PTL

\* Under the same conditions the host that was the first to own the name never loses it
\* to one that comes later (mDNSCoreReceiveResponse, ProcessQuery).
THEOREM FirstOwnerKeeps ==
  ASSUME CodeSettings
  PROVE  Spec => []FirstKeeps
<1>1. Inv => FirstKeeps
  BY DEF Inv, ContestInv, FirstOwns, FirstKeeps, Verified
<1> QED
  BY <1>1, InvHolds, PTL
================================================================================
