------------------------------- MODULE MDNSClose -------------------------------
(***************************************************************************)
(* mDNS_Close of the engine of MDNSRecords: it deregisters whatever is     *)
(* still registered, then sends responses until the list is empty.  It     *)
(* holds the engine all the while: no packet is received, nothing else is  *)
(* sent, and clients are taken not to register anew in their callbacks.    *)
(***************************************************************************)
EXTENDS MDNSRecords

VARIABLE phase  \* "open", "closing" (the walk that deregisters), "draining"
                \* (the loop that sends) or "closed"

closeVars == <<vars, phase>>

CloseTypeOK == TypeOK /\ phase \in {"open", "closing", "draining", "closed"}

CloseInit == Init /\ phase = "open"

--------------------------------------------------------------------------------
(* The walk over the records that are left *)

BeginClose ==
  /\ phase = "open"
  /\ mode = "idle"
  /\ phase' = "closing"
  /\ mode' = "walk"
  /\ CurrentRecord' = ResourceRecords
  /\ UNCHANGED <<listVars, RecordType, Acknowledged, ProbeCount, AnnounceCount,
                 ImmedAnswer, SleepState, probed, announced>>

Visiting(r) == phase = "closing" /\ r \in CurrentRecord

CloseGoodbye(r) ==
  /\ Visiting(r)
  /\ Heirs(r, RecordType[r]) = {}
  /\ NeedsGoodbye(r)
  /\ RecordType' = [RecordType EXCEPT ![r] = "Deregistering"]
  /\ ImmedAnswer' = [ImmedAnswer EXCEPT ![r] = "All"]
  /\ CurrentRecord' = CurrentRecord \ {r}
  /\ UNCHANGED <<phase, listVars, Acknowledged, ProbeCount, AnnounceCount,
                 SleepState, mode, probed, announced>>

CloseNow(r) ==
  /\ Visiting(r)
  /\ RecordType[r] # "Deregistering"
  /\ Heirs(r, RecordType[r]) = {}
  /\ ~NeedsGoodbye(r)
  /\ Cut({r})
  /\ UNCHANGED <<phase, SleepState, mode, announced>>

\* The duplicate is put right behind r, where the walk is already past it
CloseHandOver(r) ==
  /\ Visiting(r)
  /\ RecordType[r] # "Deregistering"
  /\ \E dup \in Heirs(r, RecordType[r]) :
       TakeOver(r, RecordType[r], AnnounceCount[r], dup, CurrentRecord \ {r})
  /\ UNCHANGED <<phase, SleepState, mode, announced>>

CloseSkip(r) ==
  /\ Visiting(r)
  /\ RecordType[r] = "Deregistering"
  /\ CurrentRecord' = CurrentRecord \ {r}
  /\ UNCHANGED <<phase, listVars, RecordType, Acknowledged, ProbeCount,
                 AnnounceCount, ImmedAnswer, SleepState, mode, probed, announced>>

EndCloseWalk ==
  /\ phase = "closing"
  /\ CurrentRecord = {}
  /\ phase' = "draining"
  /\ mode' = "idle"
  /\ UNCHANGED <<listVars, RecordType, Acknowledged, ProbeCount, AnnounceCount,
                 ImmedAnswer, SleepState, CurrentRecord, probed, announced>>

--------------------------------------------------------------------------------
(* The loop that sends the goodbyes *)

\* Slip: as mDNS_Execute does, it leaves off while the machine is asleep
DrainAwake ==
  /\ phase = "draining"
  /\ mode = "idle"
  /\ ~SleepState
  /\ ResourceRecords # {}
  /\ SendWith(ImmedAnswer, FALSE)
  /\ UNCHANGED <<phase, listVars, RecordType, Acknowledged, ProbeCount,
                 SleepState, probed>>

Drain ==
  /\ phase = "draining"
  /\ mode = "idle"
  /\ ResourceRecords # {}
  /\ SendWith(ImmedAnswer, SleepState)
  /\ UNCHANGED <<phase, listVars, RecordType, Acknowledged, ProbeCount,
                 SleepState, probed>>

EndClose ==
  /\ phase = "draining"
  /\ mode = "idle"
  /\ ResourceRecords = {}
  /\ phase' = "closed"
  /\ UNCHANGED vars

--------------------------------------------------------------------------------
CloseStep ==
  \/ \E r \in Record : CloseGoodbye(r) \/ CloseNow(r) \/ CloseHandOver(r) \/ CloseSkip(r)
  \/ EndCloseWalk
  \/ Drain
  \/ EndClose

CleanUp == (\E r \in Record : Walk(r)) \/ EndWalk

Running(A) == A /\ UNCHANGED phase

CloseNext ==
  \/ phase = "open" /\ Running(Next)
  \/ BeginClose
  \/ CloseStep
  \/ phase = "draining" /\ Running(CleanUp)

\* The engine serves its clients while it is open, and once mDNS_Close has begun
\* it does not stop of its own accord
CloseFairness ==
  /\ WF_closeVars(phase = "open" /\ Running(SendResponses))
  /\ WF_closeVars(phase \in {"open", "draining"} /\ Running(CleanUp))
  /\ WF_closeVars(CloseStep)

CloseSpec == CloseInit /\ [][CloseNext]_closeVars /\ CloseFairness

--------------------------------------------------------------------------------
(* What must hold *)

\* mDNS_Close returns: its last loop runs until the list is empty, and it does
\* get there if no record had a duplicate when the walk came to it
CloseCompletes ==
  phase = "closing" /\ CurrentRecord = ResourceRecords /\ DuplicateRecords = {}
  ~> phase = "closed"
================================================================================
