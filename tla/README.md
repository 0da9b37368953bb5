# TLA+ specifications of the mDNS responder in posixnap

The repository `posixnap_old` is a decade of unrelated programs. The one with a
protocol, shared state, callbacks and timing is the multicast DNS responder in
`src/Development History (posixnap)/rendezvous/mDNSPosix`: the
platform-independent engine `mDNS.c`, the event loop of the Posix port, and the
daemon that serves local clients. This directory specifies it in TLA+, checks
small instances with TLC and proves the main safety properties with TLAPS.
File names without a directory below are files of `rendezvous/mDNSPosix`;
numbers without a file are lines of `mDNS.c`.

## 1. Inventory

### The engine, `mDNS.c`

One `mDNS` structure holds everything. It is driven by three kinds of calls,
each of which takes the lock (`mDNS_Lock`, `mDNS_Unlock`): calls of the API by
clients, packets (`mDNSCoreReceive`) and the event loop (`mDNS_Execute`, called
when `NextScheduledEvent` has come). There is one thread of control, but
the engine calls its clients back while it walks its own lists, and from a callback
a client may call the API again (`mDNS_reentrancy`), with any record or question.
That is the concurrency inside one process: handlers interleave with
clients in the middle, not with each other. Between processes there is more of it: other hosts
on an unreliable network, and local clients on sockets that block or break.

| Part | State | Operations | What makes it correct |
| --- | --- | --- | --- |
| Authoritative records | `ResourceRecords`, `DuplicateRecords`, `CurrentRecord`; per record `RecordType`, `ProbeCount`, `AnnounceCount`, `ImmedAnswer`, `Acknowledged` | `mDNS_Register`, `mDNS_Deregister`, `mDNS_Update`, `SendQueries` (probes), `SendResponses`, `ProcessQuery`, `mDNSCoreReceiveResponse`, `mDNSCoreMachineSleep` | no record is announced without its goodbye, verified without its probes, orphaned, doubled, or reached after it left the list; probing and deregistering end |
| Conflicts between hosts | the same on every host | `ResolveSimultaneousProbe`, `ProcessQuery`, the own-record half of `mDNSCoreReceiveResponse` | a name has one owner, who keeps it; two owners find out; never do both give up |
| Questions and cache | `Questions`, `NewQuestions`, `CurrentQuestion`, `rrcache_hash`, `rrcache_active`; per question `DuplicateOf`, `CurrentAnswers`; per record `CRActiveQuestion` | `mDNS_StartQuery`, `mDNS_StopQuery`, `CacheRecordAdd`, `CacheRecordRmv`, `AnswerNewQuestion`, `CheckCacheExpiration`, `GetFreeCacheRR` | each client sees exactly the matching part of the cache through Adds and Rmvs; records in use are counted and kept; each new question is answered |
| Services | `ServiceRecordSet`: SRV, TXT, PTR, advisory, subtype and extra records, `Conflict`, `Extras` | `mDNS_RegisterService`, `ServiceCallback`, `mDNS_RenameAndReregisterService`, `mDNS_AddRecordToService`, `mDNS_RemoveRecordFromService`, `mDNS_DeregisterService` | the set goes back to its client once, with the right reason, when the last of its records is gone, and it always does |
| Lock and schedule | `mDNS_busy`, `mDNS_reentrancy`, `timenow_last`, `timenow_adjust`, `NextScheduled...`, `SuppressSending`; per record and question the last time and the interval | `mDNS_Lock`, `mDNS_Unlock`, `GetNextScheduledEvent`, `SetNextAnnounceProbeTime`, `mDNS_Execute` | what is due is scheduled, nothing spins, a clock that is set is survived, no comparison of times wraps |
| Shutdown | records, services | `mDNS_Close` | everything announced is retracted, and the function returns |
| Interfaces and host name | `HostInterfaces`, address records | `mDNS_RegisterInterface`, `AdvertiseInterface`, `HostNameCallback` | one set of address records per host name; rename on conflict ends |
| Unicast DNS | `uDNS.c` | its own queries | out of scope here |

### Around the engine

| Part | State | Operations | What makes it correct |
| --- | --- | --- | --- |
| Event loop: `PosixDaemon.c`, `mDNSPosix.c`, `mDNSUNP.c` | the timeout of `select`, whether the last round had data | `MainLoop`, `mDNSPosixGetFDSet`, `mDNSPosixProcessFDSet`, `mDNSPosixRunEventLoopOnce` | the engine runs when its next event comes |
| Daemon: `uds_daemon.c` | `request_state`, `registered_service`, extra records, reply queues | `request_callback`, `abort_request`, the termination routines, `regservice_callback`, `append_reply`, `udsserver_idle` | memory lives as long as the engine or a request needs it and no longer; replies arrive whole and in order; a slow client is not cut off while it reads |
| Client side: `dnssd_clientstub.c`, `dnssd_ipc.c` | the connection | `deliver_request`, `DNSServiceProcessResult`, `DNSServiceRefDeallocate` | a call returns |

`DNSCommon.c` encodes, decodes and compares names and records. `Responder.c`,
`ProxyResponder.c`, `Client.c`, `Identify.c`, `NetMonitor.c` are main programs;
`GenLinkedList.c` and `mDNSDebug.c` are support.

### What is hard here

- **Callbacks in the middle of walks.** Every walk saves the next element in
  `CurrentRecord` or `CurrentQuestion` before it acts, and every removal moves a
  saved pointer on. Forgetting one of the two is a use after free.
- **Objects with long lives.** An announced shared record stays in the list as
  `Deregistering` until its goodbye is sent, while its client may already
  register a new one with the same data, or die.
- **Several records, one life.** A service is given back when the last of its records has gone,
  and they go at different times, by different ways.
- **Hand-over.** Several clients may register one record; the first acts, the others
  wait on `DuplicateRecords`, and one takes over all its state.
- **Counters that mean two things.** `AnnounceCount` 10 is "never announced",
  9 "announced, and to be announced again"; `ProbeCount` 4 is "just been in a conflict".
- **One time for many things.** Every function that makes something due must bring one of three
  `NextScheduled...` times forward; one record's change can make another's announcement due.
- **The clock** is `gettimeofday`, which may be set either way; times are compared by signed difference.
- **Other hosts at any time**: conflicts, tie-breaks, known answers, packets lost, doubled, out of order.
- **Sleep, wake and shutdown** between any two of these steps.
- **A cache that is full**, grows when a client gives it memory, and recycles.
- **Clients that die or do not read**, also in the middle of the daemon's own callbacks.

`PROJECT.json` lists these hazards at the lines where they bite, with the properties
that watch over them.

## 2. Modules

| Module | What it is |
| --- | --- |
| `MDNSRecords` | the authoritative records of one engine |
| `MDNSClose` | `MDNSRecords` composed with `mDNS_Close` |
| `MDNSTieBreak` | the records of one name on several hosts and the network between them |
| `MDNSQuestions` | the question list and the record cache |
| `MDNSView` | what clients that ask questions are promised: the abstract specification that `MDNSQuestions` implements |
| `MDNSService` | a record set: a service's records, registered and released together |
| `MDNSDaemon` | `MDNSService` composed with the daemon's request and service objects |
| `UDSConnection` | a local client, its connection and the daemon's reading and writing |
| `MDNSSchedule` | the lock, the times and `mDNS_Execute` |
| `MDNSLoop` | `MDNSSchedule` composed with the event loop and the clock |
| `MCMDNSRecords`, `MCMDNSClose`, `MCMDNSTieBreak`, `MCMDNSQuestions`, `MCMDNSService`, `MCMDNSDaemon`, `MCMDNSLoop` | small sets for TLC (`UDSConnection` needs none) |
| `MDNSRecords_proof` | type correctness, lists, probes, duplicates, single mains, goodbyes |
| `MDNSClose_proof` | lists and goodbyes through a shutdown |
| `MDNSQuestions_proof` | questions and cache, and the refinement of `MDNSView` |
| `MDNSTieBreak_proof` | one owner of a name, who keeps it |
| `MDNSService_proof` | all safety of a record set |
| `MDNSDaemon_proof` | memory, dead clients, extra records in the daemon |
| `UDSConnection_proof` | the order of replies, the ends of bursts, who is cut off |
| `MDNSLoop_proof` | nothing that is due is forgotten, the loop is late only by as much as the clock was set, and never spins |

An operator whose comment starts with "Slip:" is a plausible mistake in the operator
that follows it. No specification uses it: `PROJECT.json` pairs each one with the
property that notices it, which is how we know that the properties can fail.

### MDNSRecords

| State | Code |
| --- | --- |
| `ResourceRecords`, `DuplicateRecords` | the two lists, as sets |
| `RecordType`, `Acknowledged`, `ProbeCount`, `AnnounceCount`, `ImmedAnswer` | the fields of `AuthRecord` (`mDNSClientAPI.h:914-962`) |
| `SleepState` | `m->SleepState` |
| `CurrentRecord` | the records a walk of `SendResponses` has still to visit |
| `mode` | whether that walk is under way, and whether it is in a client's callback |
| `probed`, `announced` | history: probes really sent since the last reason to doubt, and data other hosts have from announcements |

| Action | Code |
| --- | --- |
| `RegisterMain`, `RegisterDuplicate` | `mDNS_Register_internal`, 1768-1937 |
| `DeregisterGoodbye`, `DeregisterNow`, `DeregisterHandOver`, `DeregisterDuplicate`, `DeregisterConflict` | the branches of `mDNS_Deregister_internal`, 1969-2097 |
| `SendResponses` with `MarkForSending`, `PutResponses`, `ClearMarks`, `StartWalk` | phases 1 and 2 of `SendResponses`, 2161-2392, and the start of phase 3 |
| `CompleteDeregistration`, `PassRecord`, `EndWalk` | phase 3, 2394-2413, one record at a time, with clients in between |
| `SendProbe`, `FinishProbing`, `AcknowledgeDuplicate` | the probing half of `SendQueries`, 2772-2823 |
| `ReceiveQuery`, `ReceiveOurAnswer` | `ProcessQuery`: answers and known answers |
| `ReceiveLowTTL`, `ReceiveFlush`, `ReceiveConflictVerified`, `ReceiveConflictLost` | the own-record half of `mDNSCoreReceiveResponse`, 4318-4395 |
| `LoseTieBreak` | `ResolveSimultaneousProbe` |
| `Sleep`, `Wake` | `mDNSCoreMachineSleep`; `Wake` is also the re-probing of `mDNS_RegisterInterface`, 5415-5426 |

`CallbackCalls` says whether clients call the API from `MemFree` callbacks,
and `EarlyReuse` whether they register data again while its goodbye is pending. Both are
legal for the code. They are constants because `AnnouncedGetsGoodbye` is violated with the
first, and `OneMain` with the second, so that the two can be checked, and proved, where they hold.

What is abstract: time (whether a record is due is a free choice), the order
of lists (a walk takes the remaining records in any order), the size of packets, and the
number of links (one, always active). Data is an identity (`Data`) and a name-type-class
(`Signature`). A record that is in no list has its fields at their initial values. In a
packet with a positive record and a goodbye of the same data the positive record has the last
word, as the older record comes first in the list.

What is left out: `mDNS_Update` and `NewRData` (its timing is in `MDNSSchedule`); local-only
records; additional records (`ImmedAdditional`); several interfaces; unicast registrations;
registrations the engine refuses after it has set up the record; deregistering a record a
second time. Clients react to `NameConflict` after the handler that caused it, which leaves
out the stale `p` of 1974 (a hazard with a note). `NoError` callbacks need no step of their
own: probing advances one record per step and clients act between any two. While
asleep, or with the platform in error, the engine schedules nothing for
`0x78000000` ticks (23 days); what `DiscardDeregistrations` would do then is left out.

### MDNSClose

`phase` goes from `"open"` (any step of `MDNSRecords`) through `"closing"`, the walk of
6006-6018 with one action per outcome of its deregistrations (`CloseGoodbye`, `CloseNow`,
`CloseHandOver`, `CloseSkip`), and `"draining"`, the loop of 6027-6028 that calls
`SendResponses` until the list is empty, to `"closed"`. The lock is held all the while, so
nothing is received and clients are heard only from their callbacks, where
they are taken not to register anew (`MDNSDaemon` has a client that does). Duplicates left on
their list are not touched, as in the code.

### MDNSTieBreak

Each host has one record of the common name. Time goes in probe intervals of a quarter of a
second: `due` counts those until `LastAPTime + ThisAPInterval`, `sinceMC` those since the
last multicast, `sinceAsked` those since a question of the host asked for unicast answers
(`ExpectUnicastResponse`). `net` is the set of packets on the link; a packet may be heard more than once
and in any order within its interval, or be lost (`Lose`, at most `MaxLosses` times).

| Action | Code |
| --- | --- |
| `Register` | `mDNS_Register_internal`, `InitializeLastAPTime` |
| `SendProbe`, `FinishProbing` | `SendQueries`, with the request for unicast answers to early probes |
| `Ask` | `BuildQuestion`, 2553: a query for something else asks for unicast answers |
| `Announce`, `Answer` | `SendResponses` |
| `ReceiveProbeUnique` | `ResolveSimultaneousProbe`, 3786-3820 |
| `ReceiveProbeVerified` | `ProcessQuery`: answers at once by unicast, and by multicast unless the last one was within a second (3902) |
| `ReceiveConflict` | `mDNSCoreReceiveResponse`, 4341-4387, and the test of 4297 (`Expected`): a unicast answer counts only for two seconds after such a query |
| `ReceiveNothing`, `Lose` | the network |
| `Tick` | time, once everything due in this interval is done and the packets are heard or lost |

Probes ask for unicast answers without setting `ExpectUnicastResponse`, so that an answer to a probe is as a rule thrown
away; the multicast answer to a later probe is what a newcomer hears. The owner leaves that one out within a second of its
last multicast. Both together let a second host take the name (`tie_ignored`). Two history variables tell this case:
`ignored` and `spared`; where neither a packet is lost nor both have happened the contest is `Undisturbed`. A third, `hurried`,
tells that an owner went back to probing without a wait.

Left out: known answers, several records of one name on a host, further links, the longer
delay between probes after many conflicts. Answers are taken to be sent within their interval
(they are held back for a tenth of a second at most).

### MDNSQuestions and MDNSView

`Questions` is a sequence, in list order, since the order is what `NewQuestions`, the
duplicates and the walks rest on. `handler` and `rr` say which walk is under way and about
which record, `caller` whose callback is running, `given` (history) what each client has
been told of.

| Action | Code |
| --- | --- |
| `StartQuery`, `StopQuery` | `mDNS_StartQuery_internal` 4598, `mDNS_StopQuery_internal` 4704 |
| `ReceiveRecord`, `ReceiveGrowing`, `ReceiveRecycling` | the cache half of `mDNSCoreReceiveResponse` and `GetFreeCacheRR` 3244 |
| `WalkPass`, `WalkTell`, `AddEnd`, `RmvEnd` | the loops of `CacheRecordAdd` 2981 and `CacheRecordRmv` 3024 |
| `Return` | the callback of `AnswerQuestionWithResourceRecord` 2948 returns |
| `Execute`, `Expire` | `mDNS_Execute` and `CheckCacheExpiration` 3065 |
| `TakeNewQuestion`, `AnswerNewQuestion`, `AnswerTell`, `AnswerEnd` | `AnswerNewQuestion` 3114 |

What is abstract: time (any record may expire at any check; TTL 0 and cache flush only hasten it,
refreshing puts it off), the order of the cache, a packet (a sequence of records). The limit
of 1000 rounds in `mDNS_Execute` is not there. The cache grows by one record at a time up to
`MaxCacheSize`, a bound of the model; the refusal to grow for very many unused records (3253)
looks like the client's refusal. What is left out: the cache-flush list, `UniqueAnswers`
and `LargeAnswers`, local-only and unicast questions, interfaces,
`ReconfirmAntecedents`, `PurgeCacheResourceRecord`. When queries are sent is in `MDNSSchedule`.

`StopNew = FALSE` keeps callbacks from stopping *another* question that has not been answered
yet: if they may, the code answers a question that is gone (the run `que_stale`).

`MDNSView` knows questions, records, what each client has been told and who is being told. It
promises that a client is told of a matching record once when it is there and once when it
went, that a record makes room for another only if no client knows of it, that
the same record does not come back before every client has heard that it went, and that
nobody is told of anything it does not ask for. The mapping is `asked <- Listed, known <- cache, view <- given,
told <- caller`; every step of a walk that tells nobody is a stutter.

### MDNSService

| State | Code |
| --- | --- |
| `RecordType`, `ResourceRecords`, `announced` | of every record of the set: its type, whether it is in one of the two lists, whether `AnnounceCount` is below its first value |
| `Acknowledged`, `Conflict`, `Extras` | of the SRV record; `sr->Conflict`; `sr->Extras` |
| `result` | what `sr->ServiceCallback` is being called with |
| `phase`, `CurrentRecord` | `mDNS_Close` and its walk, in order of registration |
| `owner`, `lost` | history: who may use the set's memory; the name was lost in this registration |

| Action | Code |
| --- | --- |
| `RegisterService`, `RegisterServiceFails` | `mDNS_RegisterService` 5582-5677 |
| `RenameAndReregisterService` | 5726-5762 |
| `AddRecord`, `RemoveRecord` | `mDNS_AddRecordToService`, `mDNS_RemoveRecordFromService` 5679-5724 |
| `DeregisterService` | `mDNS_DeregisterService` 5767-5814 |
| `NameConflict` | the conflict of the SRV record with all of `ServiceCallback` 5531-5572 |
| `CompleteProbing`, `Reprobe`, `Announce`, `CompleteDeregistration` | what the engine does to single records |
| `BeginClose`, `CloseRecord`, `EndCloseWalk`, `EndClose` | `mDNS_Close` |

The single records live as in `MDNSRecords`; here only what the set depends on is kept.
`Twin` names the records that another client may have registered too. Whether one of them has such a twin, and
which of the two acts, is left open: a record that goes is retracted or handed over to its twin without a goodbye
(`SpokenFor`), and one that has not been announced may be the one that waits in `DuplicateRecords` (`MayWait`).
`mDNS_Close` walks `ResourceRecords` alone and saves the next record before it deregisters one (6012), so a record that
waits, and takes over in the course of the walk, is passed over. If it is the advisory record the set is given back
with it listed (`LeftByClose`), if it is a shared one the set is not given back (`PassedOver`); in both cases the last loop
waits for it (`CloseStuck`). Two services with the same SRV, TXT or extra
record are left out.

### MDNSDaemon

Adds the memory of the daemon: `request` (`request_state`), `service` (`registered_service`
with its record set), `renames` (`autoname` or `renameonconflict`), `entries` and `allocated`
(the `extra_record_entry` list and objects). `fault` marks a step that frees memory twice: the
behaviour ends there, since anything may happen afterwards.

| Action | Code |
| --- | --- |
| `HandleRegister`, `HandleRegisterFails` | `handle_regservice_request` |
| `HandleAdd`, `HandleRemove` | `handle_add_request`, `handle_removerecord_request` with `remove_extra_rr_from_service` |
| `ClientGone`, `Abort`, `Terminate`, `FinishAbort` | `request_callback` on a closed connection, `abort_request`, `regservice_termination_callback`, `unlink_request` |
| `HandleNoError`, `HandleNoErrorGone`, `HandleMemFree`, `Rename`, `RenameFails`, `ConflictFrees` | the branches of `regservice_callback` |
| `Served(A)` | a step of the engine while the daemon is in no handler |

The daemon has one thread: a callback is handled before anything else. `rename_on_memfree`
stays 0, since nothing in the Posix port calls `udsserver_handle_configchange`.

### UDSConnection

A message is counted in units, the pieces in which a socket takes and gives bytes. The
request arrives in pieces (`ReadRequest`, `ReadClosed`: `read_msg`, `request_callback`), the error code
goes back on the connection or, for records, on a second socket (`Handle`), replies are sent
or queued (`SendReply`, `QueueReply`: `send_msg`, `append_reply`) and sent on by `udsserver_idle` one after the
other (`IdleSends`, `IdleBlocked`, `IdleGone`; `idling` while its loop is under way, in which the client may read
and nothing else of the daemon happens), which cuts off a client that has been blocked for `MAX_TIME_BLOCKED`. `ClientSends`, `CallReturns`, `ClientReads`, `ClientGoes` are the client stub.
`MAX_TIME_BLOCKED` is compared with ticks, as the code does. `fault` marks steps after which
the code uses a request it has freed. The error code always finds room, and the client has
asked for replies. A record that cannot be read leaves the connection "complete" (`uds_daemon.c:1484`, without
`reset_connected_rstate`), so that whatever the client asks next on it ends the connection (`ReadCompleted`).

### MDNSSchedule and MDNSLoop

`m` has the fields of `struct mDNS` that matter for time; an operator on it stands for the
function whose name it has (`mDNS_Lock`, `mDNS_Unlock`, `Register`, `Update`, `StartQuery`,
`RecordProbeFailure`, ...). A time is kept as its distance from now, capped at `-Half`, half the range of
the counter. `Execute` begins `mDNS_Execute`; `Probe`, `QueriesSent`, `CleanUp` and `ResponsesSent` are the
walks in it, record by record, and `frames` the callbacks under way, from which clients call again.
`Needs` gives the records a record's validity depends on. `UpdateBlocked` is the end of the delay of an update that
comes too often; how many `UpdateCredits` a record has left is a free choice of `Credits`. Such an update may leave its
record a time in the past, of which no scheduled time knows: `WorkScheduled` lets that record's own probe or
announcement wait (`Held`) until probes are no longer held back and, for an announcement, the time after that which
the code takes between a first probe and an announcement (`AnnounceDelay`). Nothing else may wait for it.

`MDNSLoop` adds `MainLoop` and the event loop: `Top` (only idle if the last round had no data),
`mDNSPosixGetFDSet`, `Select` with its timeout, `TimesOut` and `DataReady`, then at most one `Packet` and one
`Request`. Time passes in `select` alone. `SetClock` sets the clock once by one of `Steps`, back
or forward. Left out: refresh queries for cached records, sleep, unicast DNS, signals, `mDNS_Update` with data
it rejects, and the count of `UpdateCredits`.

## 3. Runs

| Run | Instance | Result |
| --- | --- | --- |
| `rec_unique` | two clients of one Unique record, one Shared record; clients call from callbacks; 2 probes, 2 announcements | `TypeOK`, `ListsAgree`, `OneMain`, `VerifiedMeansProbed`, `DuplicateHasMain`, `ProbingEnds` hold; 73136 states |
| `rec_close` | two clients of one Shared record, an Advisory one; early reuse; shutdown | `AnnouncedGetsGoodbye`, `DeregistrationCompletes`, `CloseCompletes` hold; 7529 states |
| `tie_break` | two hosts, one of them asking for other names; 3 probes, 3 announcements, a first probe at once or after an interval, a loss | `OneOwner`, `FirstKeeps`, `SomebodyKeeps`, `ConflictsResolve` hold; 521428 states |
| `que_view` | questions A, A, ANY; three records; cache of 1 growing to 2 | `TypeOK`, `ViewSettled`, `ActiveCounted`, `UseJustified`, `FirstIsActive`, `ViewSpec`, `QuestionsAnswered` hold; 22996 states |
| `svc_release` | a service with two subtypes and two extra records; the advisory record, the PTR and one subtype may have a twin | `TypeOK`, `ReleasedWhenGone`, `ExtrasFollow`, `ReleasedOnce`, `ToldTheReason`, `ReleaseComes` hold; 2968 states |
| `svc_daemon` | a client of the daemon with a service and two extra records; the advisory record and the PTR may have a twin | `MemoryStands`, `NoServiceOfTheDead`, `ExtrasInStep`, `ServiceIsFreed`, `CloseReturns` hold; 1064 states |
| `uds_replies` | one connection of each kind; messages of 2 and 3 units, room for 3, 3 replies, 2 requests | `StreamInOrder`, `BurstEnds`, `AbortedOnlyIfStuck`, `RepliesGo`, `CallsReturn` hold; 10639 states |
| `loop` | one probed and one shared record, one question; updates blocked or not; data after 0, 1 or 3 ticks; 2 packets or calls; the clock set by -2 or 3 | `WorkScheduled`, `LateBySkew`, `NeverSpins`, `TimesInRange` hold; 1721633 states |
| `que_stale` | as `que_view`, `StopNew = TRUE` | `CallsListed` violated |
| `tie_ignored` | two hosts that do not ask for anything else, nothing lost | `VerifiedIsUnique` violated |
| `svc_freed` | a service with one subtype | `MemoryStands` violated |
| `loop_forgotten` | a probed record and a shared one that needs it; no question; 3 packets or calls | `VerifiedIsScheduled` violated |

**Bounds.** Records, questions, cache entries, hosts, parts of a service and requests are
small sets. Two identical records are the least for a duplicate and a hand-over, a third one of
other data the least for a walk with something left to visit. The counts keep their relation
(`Reannounce < Initial`, one more probe after a conflict): with 1 or 2 probes and 2
announcements every comparison in the code goes both ways. Two identical
questions and a third that more records answer let every branch of the hand-on of
`CRActiveQuestion` happen, and a cache of two with three records makes it grow, recycle and
stay full. Two subtypes and two extra records let one of each go before the other; of two subtypes one has a twin and one has not.
A connection has room for one reply and a half, so that replies are cut. These state
spaces are finite and explored completely.
In `tie_break` `MaxLosses` bounds the losses; with two, 2 announcements and no host that asks the safety properties hold as well. `FirstWaits` is the time from a registration
or a conflict to the first probe: an interval, or none where a probe or query is planned already (1645-1649). `SomebodyKeeps`
is false without `Undisturbed`: with one packet lost, or with the answers of `tie_ignored` not heard, both hosts may give up.
`ConflictsResolve` needs announcements to be left when the losses end: with 2 announcements and one loss, or 3 and two, it
is violated, since an owner says nothing more by itself and nobody asks (the code has 10). It also excepts
a `hurried` owner: a host that goes back to probing at the other's announcement sends four probes, the last of them a second after it, which is then
answered by multicast. When the first probe goes at once all four come within that second, none is answered where it is
heard, and two owners without announcements left stay owners, even with nothing lost.
In `loop` the constants are small and keep the order
`TenthSecond < OneSecond < Horizon < Half`; `ProbeFailureDelay`, 5 seconds, and the delay of a blocked update exceed
`Horizon` there. With all of these in the order of the code (64, 50, 30 and 20 ticks for half the range,
the horizons and 5 seconds, one probe) the properties hold as well, for one probed record with 4 packets or calls
(6.6 million states) and for two records with 3 (15.7 million). `MaxCalls` bounds packets and calls, `Arrivals` the ticks
after which data come, and `MaxDepth` callbacks within callbacks.

**Deadlock** is not checked where the system may stop: an engine or a daemon that has been closed, hosts
that have nothing left to say, a connection that is gone, a loop whose calls are used up.

**Fairness.** `MDNSRecords`: weak for `SendResponses` and for the steps of a walk, because
`mDNS_Unlock` recomputes `NextScheduledEvent` and the event loop calls `mDNS_Execute` when it has
come (`WorkScheduled` and `LateBySkew` of the run `loop` check just that); strong for the probing of each
record, because a walk or another handler only puts it off and
`mDNS_Execute` sends every probe that is due whenever it runs. `MDNSClose`: weak for the steps of
`mDNS_Close`, which is one function that nobody interrupts. `MDNSQuestions`: weak for callbacks
to return and for a handler to go on, strong for `mDNS_Execute` while there are
new questions (`GetNextScheduledEvent` then returns "now", 3393). All this ends while the machine sleeps
(3392), which is why the liveness properties of records end at `SleepState` and the
questions are modelled awake. `ProbingEnds` also assumes that interfaces do not come up for ever,
each of which starts all probing again. `MDNSTieBreak`: weak for the steps of each host and for time, and a packet
is not heard for ever. `MDNSService` and `MDNSDaemon`: callbacks return, handlers run to their end, goodbyes are sent,
`mDNS_Close` goes on. `UDSConnection`: the event loop serves a connection that has something to read and calls
`udsserver_idle` when its time has come; the client's call goes on; clients need not read.

### Where the code and what it says part

Each of these runs finds a violation of one property, which states a line of the code's own text.

1. `que_stale`: "protect against questions being deleted out from under them" (2964-2966).
   `AnswerNewQuestion` holds the first new question over a cache check that calls clients.
2. `svc_freed`: "only safe to free memory if registration is not valid, ie deregister fails"
   (`uds_daemon.c:1458`). Between a name conflict and the goodbye of an announced subtype
   `mDNS_DeregisterService` fails, since the PTR record is gone, and the subtype is still listed.
3. `loop_forgotten`: "update m->NextScheduledResponse so it will be announced" (2799). That is done for the
   record that has been verified, if it has announcements left, and not for the records that wait for it.
4. `tie_ignored`: "Record has completed probing, and is verified unique" (`mDNSClientAPI.h:796`). A host registers the
   name just after the owner's second announcement. Its first probe is answered by unicast, which it throws away (4297),
   since only questions set `ExpectUnicastResponse`; the others come within a second of the announcement and are not
   answered (3902). Both hosts are verified, though no packet was lost.

The passing runs show that the same properties hold without the cause: `svc_daemon` has no subtypes,
`que_view` has `StopNew = FALSE`, and `AnnouncementsScheduled` is part of `WorkScheduled` with `Needs` empty.

Other disagreements met while modelling, which have no run of their own (most are hazards in `PROJECT.json`):

- "make sure it's not identical to one we already have" (1916): a completed deregistration becomes
  `Shared` once more and hands over to the duplicate of a newer record with the same data (2114), so that two
  identical records act. `OneMain` is violated with three identical shared records and `EarlyReuse`.
- "we need to retract that announcement before we delete the record" (2035): a record deregistered from
  a `MemFree` callback of the clean-up walk is disposed of by that walk before anything was sent (2404).
  `AnnouncedGetsGoodbye` is violated with `CallbackCalls`.
- A count of 10 means "*never* been announced on the wire" (1521), but a record answered before its first
  announcement is known to others and gets no goodbye.
- "call the client callback" (1926): a duplicate that takes over a verified record before it was
  acknowledged (1994-2001) never is.
- `ProbeCount` is what remains before a record is valid (`mDNSClientAPI.h:935`); the rescue of a record seen with
  a low TTL (4338) multicasts it while it is probed for.
- "Make sure there are nothing but deregistering records remaining in the list" (6006): a duplicate that takes over is
  spliced in behind the record that went (1998-2000), but the walk goes on with the one it had saved as next (6012). The
  new record stays as it is, and the last loop waits for it for ever. The advisory records of two services of one type are
  enough. Hence the premise of `CloseCompletes`, and `PassedOver`, `LeftByClose` and `CloseStuck` in the properties of services.
- "send their deregistration announcements before we exit" (6023): if a service has lost its name and waits for the goodbye of
  a subtype, the loop of 6027 sends it, the callback that follows registers the service under a new name
  (`uds_daemon.c:1283`), and the loop never ends. Hence `~Conflict` in the premise of `CloseReturns`.
- "the RR_PTR will be the last one to be forcibly deregistered" (5665-5669): extra records come
  after it; hence the extra records in `LeftByClose`, which `ReleasedWhenGone` and `MemoryStands` except.
- "If mDNS_busy != mDNS_reentrancy that's a bad sign" (3356): `mDNS_Update` returns on invalid data
  without `mDNS_Unlock` (5105).
- `MAX_TIME_BLOCKED` is 60 seconds by its comment (`uds_daemon.c:295`) and compared with milliseconds (455).
- `read_msg` clears the whole buffer whenever a piece of a request arrives (`uds_daemon.c:2044`, past the
  comment "first time through" of 2033): of data that come in two reads only the last piece is kept.
- "When fewer than 5 UpdateCredits remain, the first announcement is also delayed" (304): `UpdateBlocked` is cleared only
  when the time of the record itself has come (2187). A record that is announced half way to its time, together with
  another (2193-2199), keeps it, and its next excessive update (5146) takes a delay that is over, and may be far in the
  past. Two shared records are enough.
- Without a cache `NextCacheCheck` is never moved on, and once it has come the loop spins (3445).
- Two verified records of different types with one name do not conflict (3766-3781), although probing is for the name.
- With three losses in a row two owners may not find out when announcements are few: a record verified again has none
  left (4358-4366).

## 4. Proofs

All theorems hold for every value of the constants that satisfies the assumptions of the modules (any number of records,
questions, hosts, extra records; any counts, sizes and delays), which TLC evaluates on every run.

| Theorem | Statement | Extra assumption |
| --- | --- | --- |
| `TypeCorrect` | `Spec => []TypeOK` (records) | |
| `ListsAlwaysAgree` | `Spec => []ListsAgree` | |
| `VerifiedIsProbed` | `Spec => []VerifiedMeansProbed` | identical records have a dependence, or none has one |
| `DuplicatesHaveMains` | `Spec => []DuplicateHasMain` | |
| `MainsAreSingle` | `Spec => []OneMain` | `~EarlyReuse` |
| `GoodbyesAreSent` | `Spec => []AnnouncedGetsGoodbye` | `~CallbackCalls` |
| `CloseTypes` | `CloseSpec => []CloseTypeOK` | |
| `CloseListsAgree` | `CloseSpec => []ListsAgree` | |
| `CloseGoodbyesAreSent` | `CloseSpec => []AnnouncedGetsGoodbye` | `~CallbackCalls` |
| `ServiceTypes` | `Spec => []TypeOK` (service) | |
| `SetReleasedWhenGone` | `Spec => []ReleasedWhenGone` | |
| `ExtrasFollowService` | `Spec => []ExtrasFollow` | |
| `SetReleasedOnce` | `Spec => ReleasedOnce` | |
| `ClientToldTheReason` | `Spec => ToldTheReason` | |
| `ServiceMemoryStands` | `DaemonSpec => []MemoryStands` | `Subtype = {}` |
| `DeadHoldNoService` | `DaemonSpec => []NoServiceOfTheDead` | `Subtype = {}` |
| `ExtrasAgree` | `DaemonSpec => []ExtrasInStep` | `Subtype = {}` |
| `OneOfIdentityActive` | `Spec => []FirstIsActive` (questions) | |
| `ActiveIsCounted` | `Spec => []ActiveCounted` | |
| `TypeCorrect` | `Spec => []TypeOK` | `~StopNew`, finitely many records |
| `UsersAreJustified` | `Spec => []UseJustified` | `~StopNew`, finitely many records |
| `ViewIsSettled` | `Spec => []ViewSettled` | `~StopNew`, finitely many records |
| `CallsAreListed` | `Spec => CallsListed` | `~StopNew`, finitely many records |
| `ViewIsShown` | `Spec => ViewSpec` (refinement of `MDNSView`) | `~StopNew`, finitely many records |
| `AtMostOneOwner` | `Spec => []OneOwner` (hosts) | `CodeSettings` |
| `FirstOwnerKeeps` | `Spec => []FirstKeeps` | `CodeSettings` |
| `RepliesInOrder` | `Spec => []StreamInOrder` (connection) | |
| `BurstsEnd` | `Spec => []BurstEnds` | |
| `CutOffOnlyIfStuck` | `Spec => AbortedOnlyIfStuck` | |
| `LateOnlyBySkew` | `LoopSpec => []LateBySkew` | |
| `EventIsNext` | at rest the lock is free and `EventScheduled` holds | |
| `ProbesAndQueriesAreScheduled` | at rest no probe, answer or query is forgotten | |
| `WorkIsScheduled` | `LoopSpec => []WorkScheduled` | `NoDependencies` |
| `NothingIsHeld` | `LoopSpec =>` no update is ever blocked | all `Credits` exceed 5 |
| `NeverSpinning` | `LoopSpec => []NeverSpins` | `HasCache` |
| `TimesStayInRange` | `LoopSpec => []TimesInRange` | `HasCache`, `NoDependencies`, all `Credits` exceed 5, `SmallSteps` |

The assumptions `~EarlyReuse`, `~CallbackCalls`, `Subtype = {}` and `~StopNew` are needed in the sense that TLC
finds `OneMain`, `AnnouncedGetsGoodbye`, `MemoryStands` (`svc_freed`) and `CallsListed` (`que_stale`) violated without
them. `CodeSettings` is what the code has: all hosts probe for records of one type, they can all receive
unicast answers (`mDNSPosix.c:1164`), and at least two probes are sent (three, 1518). With any one of
the three dropped TLC finds two owners (types have to be more than one apart for that). The condition `Undisturbed` is part of the two
properties, since the code breaks them otherwise. `NoDependencies` says that no record's validity depends on another. Without it
an announcement may be forgotten (`loop_forgotten`), and nothing else: that is `ProbesAndQueriesAreScheduled`. Without
a cache `NextCacheCheck` is never moved and the loop does spin. `NothingIsHeld` says when the exceptions that
`WorkScheduled` and `NeverSpins` make for blocked updates are void: `mDNS_Update` blocks an update only of a record with
5 credits or fewer.

`TimesStayInRange` needs more, and for a reason each time: a time falls behind for ever if nobody moves it, and that
is what `NextCacheCheck` does without a cache, the time of a verified record while the record waits for one it
depends on, and that of an update that was blocked, if the record keeps the mark. The run `loop` has a cache and no
dependences too, but blocks updates: there only the time of the record with the mark falls behind, which
`TimesInRange` excepts. `SmallSteps` compares the clock with the counter: 3 `TenthSecond` and 4 ticks, and 8 times
what the clock is set by, are less than `Half - Horizon`. In the code that is 0x80000000 - 0x78000000 ticks of
1/1024 s, and the clock may be set by about 4.5 hours.

**The argument.** Each property is strengthened to an inductive invariant, and each such invariant has
lemmas for the initial state, for the building blocks (`Cut`, `TakeOver`, `SetUpRecord`
and `SendWith` of records, `Remove` of services), and for the actions.

- `TypeInv` adds `ProbesBounded`: probes sent and probes left add up to at most one more than
  the default. Without it the history `probed` could leave its range.
- `ListsInv` adds that no walk has anything left to visit while the engine is idle, so that
  handlers that remove records from outside a walk cannot leave one behind in it.
- `ProbesCounted` says for every record of the main list that detects its own
  conflicts: probing, sent plus left reach the full number; verified, the probes were all
  sent. A hand-over carries both counts along, which is why the mutant that
  leaves one behind is noticed.
- `DupInv` adds that a record on the duplicate list keeps the type it was registered
  with. The crux is that conflict and hand-over look for duplicates by the *current* type of
  the main record, which conflicts, probing and waking change between `Unique` and
  `Verified`; `RecordLDT` identifies exactly these two.
- `MainsApart` is `OneMain` stated over classes of types that do not change in a
  record's life (`Verified` counts as `Unique`, `Deregistering` as `Shared`), so that no
  change of type can create a twin.
- `GoodbyeInv` has three parts. A record of kind `Shared` is `Shared` or `Deregistering` while it
  is listed (`SharedTypes`). A record waiting for its goodbye stays marked for every link:
  no packet cancels the mark (`GoodbyeMarked`). Announced data has a record
  that knows of the announcement by its count, or that waits for its goodbye while the engine is
  idle (`AnnouncedStands`); in the walk, after the packets, a `Deregistering` record no longer
  counts, because its data has been retracted. `CallbackCalls` is what breaks this last part.
- `CloseListsInv` and `CloseGoodbyeInv` carry `ListsInv` and `GoodbyeInv` through `mDNS_Close`, which is a step of
  `MDNSRecords` in every phase but `"closing"`. There the walk of `mDNS_Close` is the walk (`ClosingWalks`), and a goodbye
  that is due is as good as one that is still to be asked for (`ClosingStands`), since the
  loop that follows sends it.
- `ServiceInv`: only shared records are ever retracted and listed records are registered
  (`TypesFit`); while the SRV record is listed nothing is retracted, and once it is gone all that is left
  is being retracted (`GoneWithSRV`); in a shutdown what the walk has passed is gone, retracted or has a twin (`PassedIsRetracted`),
  and it comes to shared records after SRV, TXT and the advisory one (`CloseOrder`); a missing SRV record is
  unregistered while the set is the engine's (`SRVListed`); `sr->Conflict` tells of this registration
  (`ConflictIsLoss`). So whenever a report is made, `Shared` records were listed just before, which makes the set the
  engine's (`OwnedByEngine`), and none is listed after.
- `DaemonInv` adds to `ServiceInv` what holds without subtypes: while the set is the engine's its PTR record is listed,
  and a set that has lost its name is gone altogether (`LonePTR`). Therefore `mDNS_DeregisterService` fails only when
  the memory is free to go. `HeldWhileNeeded`, `ListsInStep` and `RequestGone` say what the objects of the daemon are
  while the engine, a callback or nobody needs them; `Quiet` is what all steps of the engine have in common for them.
- `UseInv` says of the question list: of identical questions the first sends the queries and the others name it
  (`FirstIsActive`), a handler that is under way holds a question or record that it still may touch (`HandlersFit`), and
  a record in use is used by a question that is listed, active and answered by it (`UsersFit`). That is enough to
  count the records in use (`ActiveCounted`) whatever callbacks stop and start.
- `ViewInv` adds what clients have been shown. `CursorsFit` says where in the list each walk stands. The crux is
  `ViewExact`: at any moment, also in the middle of a walk with clients that stop and start questions, `given[q]` is
  exactly the set of records that `HasBeenTold`: those in the cache, without the one that is being added if `q` is
  still ahead of that walk (`Coming`), with the one that is being removed if it is ahead of that one (`Going`), and
  those the walk has passed if `q` is the new question that is being answered. `CountExact` says that
  `CurrentAnswers` is its number (hence `IsFiniteSet`), and `ToldAreUsed` that a record shown to anybody is in use,
  so that it is not recycled. `ViewIsShown` follows step by step: a step in which a client is called is a `View!Tell`, or a
  stutter. Only here `~StopNew` is needed: with it dropped, the code goes on to answer a question that is gone.
- `ContestInv` holds between hosts while the contest is `Undisturbed`. `WillHear` says that a host that probes beside an owner is
  going to hear of it in two ways, of which one may fail: by unicast, since its first probe asks for that, unless an answer is
  `ignored` (`HearsAlone`), and from its second probe on by multicast unless the owner has `spared` itself one (`HearsWithAll`). Of two hosts that probe the lesser hears of the greater before it has sent its
  last probe (`WillLose`), because both send one in every interval. `Alone` and `FirstOwns` follow from these when a
  host comes to the end of its probes or hears a conflict.
- In `UDSConnection` `QueueFits` ties the queue to the stream: the replies that wait are the last `Len(replies)` of those
  produced, only the first has been sent in part, and the stream is as long as what has left the queue.
  `MoreFits` says that whoever was told that more comes was followed by a later reply, and `BlockedFits` that
  a blockade is not older than the first reply has been stuck.
- In `MDNSLoop` a state of the engine is `Good` if it is `Sound`, if the lock is held as often as callbacks and
  `mDNS_Execute` are under way (`Depth`), and if at rest it `Awaits` what is planned. `Sound` is that every interval and
  time fits the counter (`Typed`) and that a scheduled time is no later than what each record and question needs
  (`Plan`; announcements only of records that need no other). The time of a blocked update is the crux of it:
  `Block` gives the record the time its first blocked update was given, and that may be long past, since an
  announcement that goes out early along with another leaves the mark. `HeldBack` says what
  such a record goes by instead: at each place that sets its time, a scheduled time was brought forward to what is
  allowed by `InitializeLastAPTime`, which looks at `SuppressProbes` alone. `SendQueries` and `SendResponses` forget a scheduled time and find it again as they walk
  the records, with clients that register, update and deregister in between; so `Plan` excepts those records the walk
  has not come to (`Probing`, `Answering`). `Walks` says that what was sent lies ahead until `mDNS_Unlock` (`Ahead`),
  but for a probe of a blocked update (`Quiet`, `BlockedProbe`), which
  gives `Moved` for `NeverSpins`. Each function of the engine has a lemma (`SetNextSound`, `InitializeSound`,
  `UpdateSound`, `SendQuestionsSound`, `SendResponsesSound`, ...) and each place of a call another (`CallGood`,
  `CallbackGood`, `WalkGood`, `EndGood`). Both the passing of time and a clock set back keep all differences
  (`PassSound`), and `mDNS_Lock` takes a clock that went back as `timenow_adjust`: `Corrected` bounds that and `Wakes`
  the sleep that is planned, which is `LateBySkew`.
- `TimesInv` adds lower bounds. `Plan` is about what is not too late in being done, `Tame` about what is not too late
  already: while the engine rests no time is further behind than `Floor`, which is the clock less what the loop may be
  late by (`LateBySkew`) or, while packets are held back, their release less as much and a tenth of a second. What `mDNS_Execute`
  sends then lies ahead, so that with the walk over every time is no sooner than the event the loop waits for
  (`Fresh`), and the sleep ends with that event. The exception is a record that waits for its goodbye: a query
  that asks for it puts the response off by up to a tenth of a second while the record's own time stays (`Wanted`), so it
  is bounded by the next response instead (`Gap`), for as long as the walk has not come to it (`Farewell`). `Bottom` is
  the least of all these. `Settles` is the form each function of the engine has it in.

**Only model-checked.** Liveness (`DeregistrationCompletes`, `ProbingEnds`, `CloseCompletes`, `QuestionsAnswered`,
`ReleaseComes`, `ServiceIsFreed`, `CloseReturns`, `RepliesGo`, `CallsReturn`, `ConflictsResolve`) is out of the prover's
reach. So is `SomebodyKeeps`: that some host keeps the name rests on the greatest data among the hosts, whose existence
needs an induction over the hosts. Of the invariants of the passing runs it is the only one without a theorem.

## 5. Not modelled, and what would come next

The repository has about 116000 lines of programs. Most of them are vendored (Ficl, SWIG 1.3.21, PyRendezvous) and are
nobody's protocol here; most of the rest are small sequential Perl programs that do not interact.
`PROJECT.json` names each part with its reason. Of the responder itself:

- `DNSCommon.c`, the parsing and building half of `mDNS.c`, and the marshalling in `uds_daemon.c`,
  `dnssd_clientstub.c` and `dnssd_ipc.c` are data, which the models abstract to identities.
- `uDNS.c` is a resolver of its own that shares only the packet entry points with the engine.
- Signals and interface changes in `mDNSPosix.c` are asynchronous system calls; the loop's model has one thread.
- The other main programs set up the engine and print.

Next would be:

1. The cache-flush list and `UniqueAnswers` in `MDNSQuestions`, with a packet of several records as one
   handler (hazard at 4480).
2. `MDNSRecordList`: the lists as sequences with saved pointers, refined to the sets of `MDNSRecords`
   (hazard at 1974).
3. Interfaces and the host name: `mDNS_RegisterInterface`, `AdvertiseInterface`, the rename cycle.
4. Small modules on `mancala` and `PuzzleSolver::Diffusion`: conservation of stones and of coins.

Proofs: `TimesInRange` for updates that are blocked, with a bound on how old the mark of a record may be.
