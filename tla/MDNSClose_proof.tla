---------------------------- MODULE MDNSClose_proof ----------------------------
(***************************************************************************)
(* The lists and the goodbyes of MDNSRecords stand through mDNS_Close.     *)
(***************************************************************************)
EXTENDS MDNSClose, MDNSRecords_proof

CloseWalk(r) == CloseGoodbye(r) \/ CloseNow(r) \/ CloseHandOver(r) \/ CloseSkip(r)

\* What the steps of the engine itself have in common: every one is a step of
\* MDNSRecords, and none happens in the walk of mDNS_Close
LEMMA CloseCases ==
  ASSUME [CloseNext]_closeVars
  PROVE  \/ phase # "closing" /\ phase' = phase /\ [Next]_vars
         \/ BeginClose
         \/ \E r \in Record : CloseWalk(r)
         \/ EndCloseWalk
         \/ Drain
         \/ EndClose
         \/ UNCHANGED closeVars
<1>1. CASE phase = "open" /\ Running(Next)
  BY <1>1 DEF Running
<1>2. CASE phase = "draining" /\ Running(CleanUp)
  BY <1>2 DEF Running, CleanUp, Next
<1>3. CASE CloseStep
  BY <1>3 DEF CloseStep, CloseWalk
<1>. QED  BY <1>1, <1>2, <1>3 DEF CloseNext

--------------------------------------------------------------------------------
(* Types and lists *)

\* The walk of mDNS_Close holds the engine
ClosingWalks == phase = "closing" => mode = "walk"

CloseListsInv ==
  /\ TypeInv
  /\ phase \in {"open", "closing", "draining", "closed"}
  /\ ListsInv
  /\ ClosingWalks

LEMMA CloseListsInit == CloseInit => CloseListsInv
BY TypeInit, ListsInit DEF CloseInit, CloseListsInv, ClosingWalks

LEMMA CloseWalkLists ==
  ASSUME CloseListsInv, NEW r \in Record, CloseWalk(r)
  PROVE  CloseListsInv'
<1>1. /\ TypeInv /\ ListsInv /\ phase = "closing" /\ phase' = phase
      /\ mode = "walk" /\ mode' = mode /\ r \in CurrentRecord /\ r \in ResourceRecords
      /\ UNCHANGED <<SleepState, announced>>
  BY DEF CloseListsInv, ClosingWalks, CloseWalk, CloseGoodbye, CloseNow, CloseHandOver,
         CloseSkip, Visiting, ListsInv, ListsAgree
<1>2. CASE CloseGoodbye(r) \/ CloseSkip(r)
  <2>1. TypeInv'
    BY <1>1, <1>2
    DEF CloseGoodbye, CloseSkip, TypeInv, TypeOK, ProbesBounded, RecordTypes, listVars
  <2>2. ListsInv'
    BY <1>1, <1>2 DEF CloseGoodbye, CloseSkip, ListsInv, ListsAgree, TypeInv, TypeOK, listVars
  <2>. QED  BY <1>1, <2>1, <2>2 DEF CloseListsInv, ClosingWalks
<1>3. CASE CloseNow(r)
  <2>1. Cut({r})
    BY <1>3 DEF CloseNow
  <2>. QED  BY <1>1, <2>1, CutTypes, ListsCut DEF CloseListsInv, ClosingWalks
<1>4. CASE CloseHandOver(r)
  <2>1. PICK dup \in Heirs(r, RecordType[r]) :
          TakeOver(r, RecordType[r], AnnounceCount[r], dup, CurrentRecord \ {r})
    BY <1>4 DEF CloseHandOver
  <2>2. /\ dup \in DuplicateRecords
        /\ RecordType[r] \in RecordTypes \ {"Unregistered"}
        /\ AnnounceCount[r] \in 0 .. InitialAnnounceCount
        /\ CurrentRecord \ {r} \in SUBSET CurrentRecord
        /\ CurrentRecord \ {r} \in SUBSET Record
    BY <1>1, <2>1 DEF Heirs, TypeInv, TypeOK, ListsInv, ListsAgree
  <2>3. TypeInv'
    BY <1>1, <2>1, <2>2, TakeOverTypes
  <2>4. ListsInv'
    BY <1>1, <2>1, <2>2, ListsTakeOver
  <2>. QED  BY <1>1, <2>3, <2>4 DEF CloseListsInv, ClosingWalks
<1>. QED  BY <1>2, <1>3, <1>4 DEF CloseWalk

LEMMA CloseListsStep == CloseListsInv /\ [CloseNext]_closeVars => CloseListsInv'
<1>. SUFFICES ASSUME CloseListsInv, [CloseNext]_closeVars  PROVE CloseListsInv'
  OBVIOUS
<1>1. TypeInv /\ ListsInv
  BY DEF CloseListsInv
<1>2. CASE phase # "closing" /\ phase' = phase /\ [Next]_vars
  BY <1>1, <1>2, TypeStep, ListsStep DEF CloseListsInv, ClosingWalks
<1>3. CASE BeginClose
  <2>1. TypeInv'
    BY <1>1, <1>3 DEF BeginClose, TypeInv, TypeOK, ProbesBounded, listVars
  <2>2. ListsInv'
    BY <1>1, <1>3 DEF BeginClose, ListsInv, ListsAgree, listVars
  <2>. QED  BY <1>3, <2>1, <2>2 DEF BeginClose, CloseListsInv, ClosingWalks
<1>4. CASE EndCloseWalk
  <2>1. TypeInv'
    BY <1>1, <1>4 DEF EndCloseWalk, TypeInv, TypeOK, ProbesBounded, listVars
  <2>2. ListsInv'
    BY <1>1, <1>4 DEF EndCloseWalk, ListsInv, ListsAgree, listVars
  <2>. QED  BY <1>4, <2>1, <2>2 DEF EndCloseWalk, CloseListsInv, ClosingWalks
<1>5. CASE Drain
  <2>1. /\ SendWith(ImmedAnswer, SleepState)
        /\ ImmedAnswer \in [Record -> {"Null", "Link", "All"}] /\ SleepState \in BOOLEAN
        /\ UNCHANGED <<listVars, RecordType, Acknowledged, ProbeCount, SleepState, probed>>
    BY <1>1, <1>5 DEF Drain, TypeInv, TypeOK
  <2>2. TypeInv'
    BY <1>1, <2>1, SendTypes DEF TypeInv, TypeOK, ProbesBounded, listVars
  <2>3. ListsInv'
    BY <1>1, <2>1, ListsSend
  <2>. QED  BY <1>5, <2>2, <2>3 DEF Drain, CloseListsInv, ClosingWalks
<1>6. CASE EndClose
  <2>1. UNCHANGED vars /\ phase # "closing" /\ phase' = "closed"
    BY <1>6 DEF EndClose
  <2>2. TypeInv' /\ ListsInv'
    BY <1>1, <2>1, TypeStep, ListsStep
  <2>. QED  BY <2>1, <2>2 DEF CloseListsInv, ClosingWalks
<1>7. CASE UNCHANGED closeVars
  <2>1. UNCHANGED vars /\ UNCHANGED phase
    BY <1>7 DEF closeVars
  <2>2. TypeInv' /\ ListsInv'
    BY <1>1, <2>1, TypeStep, ListsStep
  <2>. QED  BY <2>1, <2>2 DEF CloseListsInv, ClosingWalks, vars
<1>. QED  BY <1>2, <1>3, <1>4, <1>5, <1>6, <1>7, CloseWalkLists, CloseCases

LEMMA CloseListsAlways == CloseSpec => []CloseListsInv
BY CloseListsInit, CloseListsStep, PTL DEF CloseSpec

\* Every field keeps its range through mDNS_Close
THEOREM CloseTypes == CloseSpec => []CloseTypeOK
<1>1. CloseListsInv => CloseTypeOK
  BY DEF CloseListsInv, TypeInv, CloseTypeOK
<1>. QED  BY <1>1, CloseListsAlways, PTL

\* The walk of mDNS_Close, which deregisters the very records it visits, never
\* goes on to one that has left the list, nor does any walk before or after it
THEOREM CloseListsAgree == CloseSpec => []ListsAgree
<1>1. CloseListsInv => ListsAgree
  BY DEF CloseListsInv, ListsInv
<1>. QED  BY <1>1, CloseListsAlways, PTL

--------------------------------------------------------------------------------
(* Goodbyes *)

\* In the walk of mDNS_Close a goodbye that is due is as good as one that is
\* still to be asked for: the loop that follows sends it
Waits(m) == NeedsGoodbye(m) \/ RecordType[m] = "Deregistering"

ClosingStands ==
  \A d \in announced : SharedOnly(d) => \E m \in ResourceRecords : Data[m] = d /\ Waits(m)

CloseGoodbyeInv ==
  /\ phase # "closing" => GoodbyeInv
  /\ phase = "closing" => SharedTypes /\ GoodbyeMarked /\ ClosingStands

LEMMA CloseGoodbyeInit == CloseInit => CloseGoodbyeInv
BY GoodbyeInit DEF CloseInit, CloseGoodbyeInv

LEMMA ClosingKept ==
  ASSUME ClosingStands, announced' \subseteq announced,
         \A m \in ResourceRecords : Waits(m) =>
           \E n \in ResourceRecords' : Data[n] = Data[m] /\ Waits(n)'
  PROVE  ClosingStands'
<1>1. ASSUME NEW d \in announced', SharedOnly(d)
      PROVE  \E n \in ResourceRecords' : Data[n] = d /\ Waits(n)'
  <2>1. PICK m \in ResourceRecords : Data[m] = d /\ Waits(m)
    BY <1>1 DEF ClosingStands
  <2>. QED  BY <2>1
<1>. QED  BY <1>1 DEF ClosingStands, SharedOnly

LEMMA CloseWalkGoodbye ==
  ASSUME CloseListsInv, CloseGoodbyeInv, NEW r \in Record, CloseWalk(r)
  PROVE  CloseGoodbyeInv'
<1>1. /\ TypeInv /\ ListsInv /\ phase = "closing" /\ phase' = phase
      /\ SharedTypes /\ GoodbyeMarked /\ ClosingStands
      /\ r \in ResourceRecords /\ announced' = announced
  BY DEF CloseListsInv, CloseGoodbyeInv, CloseWalk, CloseGoodbye, CloseNow, CloseHandOver,
         CloseSkip, Visiting, ListsInv, ListsAgree
<1>2. SUFFICES SharedTypes' /\ GoodbyeMarked' /\ ClosingStands'
  BY <1>1 DEF CloseGoodbyeInv
<1>3. CASE CloseGoodbye(r)
  <2>1. /\ ResourceRecords' = ResourceRecords /\ DuplicateRecords' = DuplicateRecords
        /\ RecordType[r] = "Shared" /\ RecordType'[r] = "Deregistering"
        /\ ImmedAnswer'[r] = "All" /\ AnnounceCount' = AnnounceCount
        /\ \A s \in Record : s # r => RecordType'[s] = RecordType[s] /\ ImmedAnswer'[s] = ImmedAnswer[s]
    BY <1>1, <1>3 DEF CloseGoodbye, NeedsGoodbye, TypeInv, TypeOK, listVars
  <2>2. SharedTypes' /\ GoodbyeMarked'
    BY <1>1, <2>1 DEF SharedTypes, GoodbyeMarked, TypeInv, TypeOK
  <2>3. ASSUME NEW m \in ResourceRecords, Waits(m)  PROVE Waits(m)'
    BY <1>1, <2>1, <2>3 DEF Waits, NeedsGoodbye, TypeInv, TypeOK
  <2>. QED  BY <1>1, <2>1, <2>2, <2>3, ClosingKept
<1>4. CASE CloseSkip(r)
  <2>1. UNCHANGED <<ResourceRecords, DuplicateRecords, RecordType, AnnounceCount, ImmedAnswer>>
    BY <1>4 DEF CloseSkip, listVars
  <2>. QED  BY <1>1, <2>1 DEF SharedTypes, GoodbyeMarked, ClosingStands, Waits, NeedsGoodbye, SharedOnly
<1>5. CASE CloseNow(r)
  <2>1. \A s \in (ResourceRecords \union DuplicateRecords)' :
          /\ s \in Record /\ s # r /\ s \in ResourceRecords \union DuplicateRecords
          /\ RecordType'[s] = RecordType[s] /\ AnnounceCount'[s] = AnnounceCount[s]
          /\ ImmedAnswer'[s] = ImmedAnswer[s]
    BY <1>1, <1>5 DEF CloseNow, Cut, TypeInv, TypeOK
  <2>2. ResourceRecords' = ResourceRecords \ {r} /\ DuplicateRecords' = DuplicateRecords \ {r}
        /\ ~Waits(r)
    BY <1>5 DEF CloseNow, Cut, Waits
  <2>3. SharedTypes' /\ GoodbyeMarked'
    BY <1>1, <2>1, <2>2 DEF SharedTypes, GoodbyeMarked
  <2>4. ASSUME NEW m \in ResourceRecords, Waits(m)
        PROVE  m \in ResourceRecords' /\ Waits(m)'
    BY <2>1, <2>2, <2>4 DEF Waits, NeedsGoodbye
  <2>. QED  BY <1>1, <2>3, <2>4, ClosingKept
<1>6. CASE CloseHandOver(r)
  <2>1. PICK dup \in Heirs(r, RecordType[r]) :
          TakeOver(r, RecordType[r], AnnounceCount[r], dup, CurrentRecord \ {r})
    BY <1>6 DEF CloseHandOver
  <2>2. /\ dup \in DuplicateRecords /\ dup # r /\ dup \in Record /\ r \in Record
        /\ r \notin DuplicateRecords /\ dup \notin ResourceRecords
        /\ Data[dup] = Data[r] /\ RecordLDT(RecordType[dup], RecordType[r])
    BY <1>1, <2>1 DEF Heirs, RecordIsLocalDuplicate, ListsInv, ListsAgree, TypeInv, TypeOK
  <2>3. /\ ResourceRecords' = (ResourceRecords \ {r}) \union {dup}
        /\ DuplicateRecords' = DuplicateRecords \ {dup}
        /\ RecordType'[dup] = RecordType[r] /\ AnnounceCount'[dup] = AnnounceCount[r]
        /\ ImmedAnswer'[dup] = ImmedAnswer[r]
        /\ \A s \in Record \ {r, dup} :
             /\ RecordType'[s] = RecordType[s] /\ AnnounceCount'[s] = AnnounceCount[s]
             /\ ImmedAnswer'[s] = ImmedAnswer[s]
    BY <1>1, <2>1, <2>2 DEF TakeOver, TypeInv, TypeOK
  <2>4. SharedTypes'
    <3>1. Kind[dup] = "Shared" => RecordType[dup] \in {"Shared", "Deregistering"}
      BY <1>1, <2>2 DEF SharedTypes
    <3>2. Kind[dup] = "Shared" => RecordType'[dup] \in {"Shared", "Deregistering"}
      BY <2>2, <2>3, <3>1 DEF RecordLDT
    <3>. QED  BY <1>1, <2>2, <2>3, <3>2 DEF SharedTypes, TypeInv, TypeOK
  <2>5. GoodbyeMarked'
    BY <1>1, <2>2, <2>3 DEF GoodbyeMarked, TypeInv, TypeOK
  <2>6. ASSUME NEW m \in ResourceRecords, Waits(m)
        PROVE  \E n \in ResourceRecords' : Data[n] = Data[m] /\ Waits(n)'
    <3>1. CASE m = r
      <4>1. Waits(dup)'
        BY <2>3, <2>6, <3>1 DEF Waits, NeedsGoodbye
      <4>. QED  BY <2>2, <2>3, <3>1, <4>1
    <3>2. CASE m # r
      <4>1. Waits(m)' /\ m \in ResourceRecords'
        BY <1>1, <2>2, <2>3, <2>6, <3>2 DEF Waits, NeedsGoodbye, TypeInv, TypeOK
      <4>. QED  BY <4>1
    <3>. QED  BY <3>1, <3>2
  <2>. QED  BY <1>1, <2>4, <2>5, <2>6, ClosingKept
<1>. QED  BY <1>3, <1>4, <1>5, <1>6 DEF CloseWalk

LEMMA CloseGoodbyeStep ==
  ~CallbackCalls =>
    (CloseListsInv /\ CloseGoodbyeInv /\ [CloseNext]_closeVars => CloseGoodbyeInv')
<1>. SUFFICES ASSUME ~CallbackCalls, CloseListsInv, CloseGoodbyeInv, [CloseNext]_closeVars
              PROVE  CloseGoodbyeInv'
  OBVIOUS
<1>1. TypeInv /\ ListsInv
  BY DEF CloseListsInv
<1>2. CASE phase # "closing" /\ phase' = phase /\ [Next]_vars
  <2>1. GoodbyeInv'
    BY <1>1, <1>2, GoodbyeStep DEF CloseGoodbyeInv
  <2>. QED  BY <1>2, <2>1 DEF CloseGoodbyeInv
<1>3. CASE BeginClose
  <2>1. GoodbyeInv /\ phase' = "closing" /\ announced' = announced
        /\ UNCHANGED <<ResourceRecords, DuplicateRecords, RecordType, AnnounceCount, ImmedAnswer>>
    BY <1>3 DEF BeginClose, CloseGoodbyeInv, listVars
  <2>2. ClosingStands'
    BY <2>1 DEF GoodbyeInv, AnnouncedStands, ClosingStands, Waits, Retracts, NeedsGoodbye, SharedOnly
  <2>3. SharedTypes' /\ GoodbyeMarked'
    BY <2>1 DEF GoodbyeInv, SharedTypes, GoodbyeMarked
  <2>. QED  BY <2>1, <2>2, <2>3 DEF CloseGoodbyeInv
<1>4. CASE EndCloseWalk
  <2>1. /\ SharedTypes /\ GoodbyeMarked /\ ClosingStands
        /\ phase' # "closing" /\ mode' = "idle" /\ announced' = announced
        /\ UNCHANGED <<ResourceRecords, DuplicateRecords, RecordType, AnnounceCount, ImmedAnswer>>
    BY <1>4 DEF EndCloseWalk, CloseGoodbyeInv, listVars
  <2>2. AnnouncedStands'
    BY <2>1 DEF AnnouncedStands, ClosingStands, Waits, Retracts, NeedsGoodbye, SharedOnly
  <2>3. SharedTypes' /\ GoodbyeMarked'
    BY <2>1 DEF SharedTypes, GoodbyeMarked
  <2>. QED  BY <2>1, <2>2, <2>3 DEF CloseGoodbyeInv, GoodbyeInv
<1>5. CASE Drain
  <2>1. /\ GoodbyeInv /\ mode = "idle" /\ SleepState \in BOOLEAN /\ phase' # "closing"
        /\ SendWith(ImmedAnswer, SleepState) /\ UNCHANGED <<listVars, RecordType>>
        /\ \A r \in ResourceRecords : RecordType[r] = "Deregistering" => ImmedAnswer[r] = "All"
    BY <1>1, <1>5 DEF Drain, CloseGoodbyeInv, GoodbyeInv, GoodbyeMarked, TypeInv, TypeOK
  <2>2. GoodbyeInv'
    BY <1>1, <2>1, GoodbyeSend
  <2>. QED  BY <2>1, <2>2 DEF CloseGoodbyeInv
<1>6. CASE EndClose
  <2>1. GoodbyeInv /\ UNCHANGED vars /\ phase' # "closing"
    BY <1>6 DEF EndClose, CloseGoodbyeInv
  <2>2. GoodbyeInv'
    BY <1>1, <2>1, GoodbyeStep
  <2>. QED  BY <2>1, <2>2 DEF CloseGoodbyeInv
<1>7. CASE UNCHANGED closeVars
  BY <1>7
  DEF closeVars, vars, CloseGoodbyeInv, GoodbyeInv, SharedTypes, GoodbyeMarked, AnnouncedStands,
      ClosingStands, Waits, Retracts, NeedsGoodbye, SharedOnly
<1>. QED  BY <1>2, <1>3, <1>4, <1>5, <1>6, <1>7, CloseWalkGoodbye, CloseCases

\* mDNS_Close retracts whatever has been announced: until it returns, and when
\* it has returned, no other host is left with announced data that no record of
\* the engine stands for
THEOREM CloseGoodbyesAreSent ==
  ASSUME ~CallbackCalls
  PROVE  CloseSpec => []AnnouncedGetsGoodbye
<1>1. CloseGoodbyeInv => AnnouncedGetsGoodbye
  BY DEF CloseGoodbyeInv, GoodbyeInv, AnnouncedStands, ClosingStands, AnnouncedGetsGoodbye
<1>2. CloseListsInv /\ CloseGoodbyeInv /\ [CloseNext]_closeVars => CloseGoodbyeInv'
  BY CloseGoodbyeStep
<1>. QED  BY <1>1, <1>2, CloseListsAlways, CloseGoodbyeInit, PTL DEF CloseSpec
===============================================================================
