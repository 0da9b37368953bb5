-------------------------------- MODULE MDNSLoop --------------------------------
(***************************************************************************)
(* The main loop of the daemon (PosixDaemon.c) and the event loop of the   *)
(* Posix port (mDNSPosix.c) around the engine: run what is due, wait in    *)
(* select until the next event or data, hand data on.                      *)
(*                                                                         *)
(* Time passes in select; what the process does takes none.  The clock is  *)
(* gettimeofday: it may be set.                                            *)
(***************************************************************************)
EXTENDS MDNSSchedule

CONSTANTS
  Steps,     \* by which the clock may be set, once
  Arrivals,  \* bound: ticks after which data arrive
  MaxCalls   \* bound: packets and calls of clients

ASSUME LoopAssumption == Steps \subseteq Int /\ Arrivals \subseteq Nat /\ MaxCalls \in Nat

VARIABLES
  loop,      \* "top", "executing", "fdset", "again" (executing), "select",
             \* "ready", "packet" or "request"
  timeout,   \* of select
  gotData,
  calls,
  skew,      \* history: by how much the clock was set
  late       \* history: ticks the loop has slept past an event, or past its least sleep

loopVars == <<loop, timeout, gotData, calls, skew, late>>
allVars  == <<vars, loopVars>>

LoopInit ==
  /\ Init
  /\ loop = "top"
  /\ timeout = 0
  /\ gotData = FALSE
  /\ calls = 0
  /\ skew = 0
  /\ late = 0

Least(a, b) == IF a < b THEN a ELSE b

Abs(d) == IF d < 0 THEN -d ELSE d

\* Slip: a remainder is counted as a whole tick
RemainingRoundedUp ==
  LET ticks == m.NextScheduledEvent + m.timenow_adjust IN IF ticks < 1 THEN 1 ELSE ticks + 1

\* Ticks until the next event: it is a time of the engine, the clock is the platform's
Remaining == LET ticks == m.NextScheduledEvent + m.timenow_adjust IN IF ticks < 1 THEN 1 ELSE ticks

Call_mDNS_Execute(next) ==
  /\ Execute
  /\ loop' = next
  /\ late' = 0
  /\ UNCHANGED <<timeout, gotData, calls, skew>>

\* Only idle if there was no data the last time around
Top ==
  /\ loop = "top"
  /\ IF gotData
     THEN /\ timeout' = 0
          /\ loop' = "fdset"
          /\ UNCHANGED <<vars, gotData, calls, skew, late>>
     ELSE Call_mDNS_Execute("executing")

AtRest == walk = "none" /\ frames = <<>>

PlanWait ==
  /\ loop = "executing"
  /\ AtRest
  /\ timeout' = Remaining
  /\ loop' = "fdset"
  /\ UNCHANGED <<vars, gotData, calls, skew, late>>

mDNSPosixGetFDSet ==
  /\ loop = "fdset"
  /\ Call_mDNS_Execute("again")

Select ==
  /\ loop = "again"
  /\ AtRest
  /\ timeout' = Least(timeout, Remaining)
  /\ loop' = "select"
  /\ UNCHANGED <<vars, gotData, calls, skew, late>>

\* Time goes by in select, d ticks of it
Wait(d) ==
  /\ loop = "select"
  /\ m' = Pass(m, d)
  /\ late' = LET event == IF m.NextScheduledEvent < 1 THEN 1 ELSE m.NextScheduledEvent
             IN IF d > event THEN d - event ELSE 0
  /\ timeout' = 0
  /\ UNCHANGED <<walk, left, frames, skew>>

TimesOut ==
  /\ Wait(timeout)
  /\ gotData' = FALSE
  /\ loop' = "top"
  /\ UNCHANGED calls

DataReady ==
  /\ calls < MaxCalls
  /\ \E d \in Arrivals : d <= timeout /\ Wait(d)
  /\ loop' = "ready"
  /\ gotData' = TRUE
  /\ UNCHANGED calls

Counted == calls < MaxCalls /\ calls' = calls + 1

\* The sockets of the network come first, then those of the clients
Packet ==
  /\ loop = "ready"
  /\ Counted
  /\ PacketComes
  /\ loop' = "packet"
  /\ UNCHANGED <<walk, timeout, gotData, skew, late>>

Request ==
  /\ loop \in {"ready", "packet"}
  /\ frames = <<>>
  /\ Counted
  /\ ClientCalls
  /\ loop' = "request"
  /\ UNCHANGED <<walk, timeout, gotData, skew, late>>

RoundEnds ==
  /\ loop \in {"packet", "request"}
  /\ frames = <<>>
  /\ loop' = "top"
  /\ UNCHANGED <<vars, timeout, gotData, calls, skew, late>>

\* Clients call from their callbacks
Reentrant ==
  /\ frames # <<>>
  /\ Counted
  /\ ClientCalls
  /\ UNCHANGED <<walk, loop, timeout, gotData, skew, late>>

CallbackReturns == Return /\ UNCHANGED loopVars

Walk == (Probe \/ QueriesSent \/ CleanUp \/ ResponsesSent) /\ UNCHANGED loopVars

SetClock ==
  /\ skew = 0
  /\ loop = "select"
  /\ \E d \in Steps : m' = Pass(m, d) /\ skew' = d
  /\ UNCHANGED <<walk, left, frames, loop, timeout, gotData, calls, late>>

Loop == Top \/ PlanWait \/ mDNSPosixGetFDSet \/ Select \/ TimesOut \/ RoundEnds

LoopNext ==
  \/ Loop
  \/ DataReady
  \/ Packet
  \/ Request
  \/ Reentrant
  \/ CallbackReturns
  \/ Walk
  \/ SetClock

LoopSpec == LoopInit /\ [][LoopNext]_allVars

--------------------------------------------------------------------------------
(* What must hold *)

\* The engine does something about t when it comes, or at once
Scheduled(next, t) == next <= t \/ Due(next)

\* An update that is blocked may leave its record a time in the past, of which
\* InitializeLastAPTime knew nothing: it goes when probes are no longer held back, or within
\* the delay after that
Held(r, next, delay) ==
  /\ m.rec[r].UpdateBlocked # NotSet
  /\ \/ next <= delay
     \/ m.SuppressProbes # NotSet /\ next <= m.SuppressProbes + delay

ProbesScheduled ==
  \A r \in Record :
    m.rec[r].RecordType = "Unique"
      => \/ Scheduled(m.NextScheduledProbe, APTime(m, r))
         \/ Held(r, m.NextScheduledProbe, 0)

\* How long after the first probe an updated record is announced
AnnounceDelay == ProbeInterval * DefaultProbeCountForTypeUnique + AnnounceInterval \div 2

\* A valid record with announcements left will be announced
AnnouncementsScheduled ==
  \A r \in Record :
    m.rec[r].AnnounceCount > 0 /\ ResourceRecordIsValidAnswer(m, r)
      => \/ Scheduled(m.NextScheduledResponse, APTime(m, r))
         \/ Held(r, m.NextScheduledResponse, AnnounceDelay)

AnswersScheduled ==
  \A r \in Record : m.rec[r].ImmedAnswer => Scheduled(m.NextScheduledResponse, TenthSecond)

QueriesScheduled ==
  \A q \in Asked(m) : Scheduled(m.NextScheduledQuery, QTime(m, q))

EventScheduled ==
  \/ m.SuppressSending # NotSet
  \/ \A t \in {m.NextScheduledProbe, m.NextScheduledQuery, m.NextScheduledResponse} :
       Scheduled(m.NextScheduledEvent, t)

\* When the engine rests its lock is free, and the one time the loop waits for is no later
\* than what any record or question needs next: a function that sets a time brings the
\* scheduled one forward.  (A clock that was set back is corrected at
\* the next activation.)
WorkScheduled ==
  AtRest /\ m.timenow_last <= 0 =>
    /\ m.mDNS_busy = 0
    /\ ProbesScheduled
    /\ AnnouncementsScheduled
    /\ AnswersScheduled
    /\ QueriesScheduled
    /\ EventScheduled

\* A record that may be announced is announced (the comment at mDNS.c 2799)
VerifiedIsScheduled == AtRest => AnnouncementsScheduled

\* An event is late only by as much as the clock was set
LateBySkew == late <= Abs(skew)

\* mDNS_Execute leaves nothing that is due, except what a callback asked meanwhile: the
\* loop does not go around and around because of a time that is past and never moved.
\* (A probe whose update is blocked may have a time in the past, which SendResponses
\* finds after SendQueries: it goes the next time around)
NeverSpins ==
  loop = "again" /\ AtRest =>
    \/ m.NextScheduledEvent > 0
    \/ m.NewQuestions # {}
    \/ \E r \in Record : m.rec[r].RecordType = "Unique" /\ m.rec[r].UpdateBlocked # NotSet

\* No time that is compared with another has fallen so far behind that their difference
\* would wrap.  (That of an update that was blocked may, if its record keeps the mark)
TimesInRange ==
  /\ \A t \in {m.NextScheduledEvent, m.NextCacheCheck, m.NextScheduledQuery,
               m.NextScheduledProbe, m.NextScheduledResponse} : t > Horizon - Half
  /\ \A r \in Record :
       (m.rec[r].RecordType = "Unique" \/ m.rec[r].AnnounceCount > 0) /\ m.rec[r].UpdateBlocked = NotSet
         => APTime(m, r) > Horizon - Half
  /\ \A q \in Asked(m) : QTime(m, q) > Horizon - Half
================================================================================
