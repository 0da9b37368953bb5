----------------------------- MODULE UDSConnection -----------------------------
(***************************************************************************)
(* One client of the daemon and its connection (dnssd_clientstub.c,        *)
(* uds_daemon.c): a request that arrives in pieces, its error code, and    *)
(* replies that go out as far as the client's buffer has room, the rest    *)
(* when udsserver_idle comes by.                                           *)
(*                                                                         *)
(* Messages are counted in units, the pieces in which a socket takes and   *)
(* gives bytes.  The first unit of a request's data has the path of the    *)
(* socket for the error code, if that is not the connection itself.  The   *)
(* error code has room wherever it goes, being the first thing there, and  *)
(* the client asked for replies (no IPC_FLAGS_NOREPLY).                    *)
(***************************************************************************)
EXTENDS Integers, Sequences

CONSTANTS
  Kinds,          \* of requests: some of AllKinds
  HeaderLen,      \* units of an ipc_msg_hdr
  DataLen,        \* units of the data of a request
  ReplyLen,       \* units of a reply
  Room,           \* units the socket holds for the client
  MaxRequests,    \* bound: requests on a connection for registrations
  MaxReplies,     \* bound: replies
  OneSecond,      \* mDNSPlatformOneSecond, in ticks
  MaxTimeBlocked  \* MAX_TIME_BLOCKED, which the code takes for ticks

\* browse and query; resolve; DNSServiceRegisterRecord
AllKinds == {"browse", "resolve", "record"}

ASSUME ConnectionAssumption ==
  /\ Kinds \subseteq AllKinds
  /\ {HeaderLen, DataLen, ReplyLen, Room, MaxRequests, MaxReplies, OneSecond,
      MaxTimeBlocked} \subseteq Nat \ {0}

VARIABLES
  kind,
  client,        \* "sending", "waiting" (for the error code), "ready" or "gone"
  sent,          \* units the client has written of the request being read
  ts,            \* of the request_state: "morecoming", "complete" or "freed"
  hdr_bytes, data_bytes,
  answered,      \* the error code has been sent
  requests,      \* requests handled
  replies,       \* reply_states: their number and nwriten
  produced,      \* replies made
  written,       \* history: units put into the stream, with the flag MoreComing
  taken,         \* how many of those the client has read
  time_blocked,  \* ticks since, or NotBlocked
  untilIdle,     \* ticks until udsserver_idle is called at the latest
  idling,        \* udsserver_idle is at the replies
  stuck,         \* history: ticks since a reply was first left, or got through
  fault          \* history: freed memory was used; anything goes from there

requestVars == <<client, sent, answered, requests>>
readVars    == <<hdr_bytes, data_bytes>>
streamVars  == <<replies, produced, written, taken>>
timeVars    == <<time_blocked, untilIdle, idling, stuck>>
vars        == <<kind, ts, fault, requestVars, readVars, streamVars, timeVars>>

NotBlocked == -1

Unit == [reply : 1..MaxReplies, unit : 1..ReplyLen, more : BOOLEAN]

TypeOK ==
  /\ kind \in Kinds
  /\ client \in {"sending", "waiting", "ready", "gone"}
  /\ sent \in 0..HeaderLen + DataLen
  /\ ts \in {"morecoming", "complete", "freed"}
  /\ hdr_bytes \in 0..HeaderLen
  /\ data_bytes \in 0..DataLen
  /\ hdr_bytes + data_bytes <= sent
  /\ answered \in BOOLEAN
  /\ requests \in 0..MaxRequests
  /\ replies \in Seq([reply : 1..produced, nwriten : 0..ReplyLen - 1])
  /\ produced \in 0..MaxReplies
  /\ written \in Seq(Unit)
  /\ taken <= Len(written) /\ Len(written) <= taken + Room
  /\ time_blocked \in NotBlocked..MaxTimeBlocked
  /\ untilIdle \in 0..OneSecond
  /\ idling \in BOOLEAN
  /\ stuck \in Nat
  /\ fault \in BOOLEAN

\* connect_to_server, and connect_callback
Init ==
  /\ kind \in Kinds
  /\ client = "sending"
  /\ sent = 0
  /\ ts = "morecoming"
  /\ hdr_bytes = 0 /\ data_bytes = 0
  /\ answered = FALSE
  /\ requests = 0
  /\ replies = <<>>
  /\ produced = 0
  /\ written = <<>>
  /\ taken = 0
  /\ time_blocked = NotBlocked
  /\ untilIdle = 0
  /\ idling = FALSE
  /\ stuck = 0
  /\ fault = FALSE

--------------------------------------------------------------------------------
(* The end of a request: abort_request and unlink_request (the same in the walk *)
(* of udsserver_idle) *)

Free ==
  /\ ts' = "freed"
  /\ replies' = <<>>
  /\ hdr_bytes' = 0 /\ data_bytes' = 0
  /\ time_blocked' = NotBlocked
  /\ idling' = FALSE
  /\ stuck' = 0

--------------------------------------------------------------------------------
(* The client's side: deliver_request and DNSServiceProcessResult *)

ClientSends ==
  /\ client = "sending"
  /\ \E n \in 1..HeaderLen + DataLen - sent : sent' = sent + n
  /\ client' = IF sent' = HeaderLen + DataLen THEN "waiting" ELSE "sending"
  /\ UNCHANGED <<kind, ts, fault, answered, requests, readVars, streamVars,
                 timeVars>>

\* A call for a registration waits at a socket of its own, where nobody calls
\* once the connection has been closed; the others find theirs closed
CallReturns ==
  /\ client = "waiting"
  /\ \/ answered /\ client' = "ready"
     \/ ~answered /\ ts = "freed" /\ kind # "record" /\ client' = "gone"
  /\ UNCHANGED <<kind, ts, fault, sent, answered, requests, readVars,
                 streamVars, timeVars>>

\* Another record for the same connection
ClientCallsAgain ==
  /\ client = "ready"
  /\ kind = "record"
  /\ ts # "freed"
  /\ requests < MaxRequests
  /\ client' = "sending"
  /\ answered' = FALSE
  /\ UNCHANGED <<kind, ts, fault, sent, requests, readVars, streamVars, timeVars>>

ClientReads ==
  /\ client = "ready"
  /\ taken < Len(written)
  /\ taken' = taken + 1
  /\ UNCHANGED <<kind, ts, fault, requestVars, readVars, replies, produced, written,
                 timeVars>>

\* DNSServiceRefDeallocate, or the client dies
ClientGoes ==
  /\ client # "gone"
  /\ client' = "gone"
  /\ UNCHANGED <<kind, ts, fault, sent, answered, requests, readVars,
                 streamVars, timeVars>>

--------------------------------------------------------------------------------
(* request_callback: read_msg, and the handler of a complete request *)

\* The request_state reads no more, unless a record has been registered, or refused
\* by the engine, and reset_connected_rstate makes it ready for the next one: after a
\* record that cannot be read it is not called.  Nobody looks at the counts of a
\* complete request again
AfterHandling ==
  /\ ts' \in (IF kind = "record" THEN {"morecoming", "complete"} ELSE {"complete"})
  /\ sent' = 0 /\ hdr_bytes' = 0 /\ data_bytes' = 0

\* Slip: a record that is refused gets no error code
HandleSilently(intact) ==
  /\ requests' = requests + 1
  /\ answered' \in (IF kind = "record" THEN BOOLEAN ELSE {TRUE})
  /\ AfterHandling
  /\ UNCHANGED <<fault, streamVars, timeVars>>

\* The handler of a request of whose data msgbuf still holds the units of intact.  A
\* query or browse with a bad parameter ends with its request; one that cannot be
\* started stays, without replies.  A request for a record whose path has been erased
\* is aborted and then used
Handle(intact) ==
  /\ requests' = requests + 1
  /\ IF kind = "record" /\ 1 \notin intact
     THEN Free /\ fault' = TRUE /\ UNCHANGED <<sent, answered, untilIdle, produced, written, taken>>
     ELSE /\ answered' = TRUE
          /\ fault' = fault
          /\ \/ AfterHandling /\ UNCHANGED <<streamVars, timeVars>>
             \/ kind # "record" /\ Free /\ UNCHANGED <<sent, untilIdle, produced, written, taken>>

\* recv returns what is there.  msgbuf is cleared whenever data is read, so that it
\* holds only the last of them
ReadRequest ==
  LET there == sent - hdr_bytes - data_bytes
      h     == IF there < HeaderLen - hdr_bytes THEN hdr_bytes + there ELSE HeaderLen
      d     == sent - h
      new   == data_bytes + 1..d
  IN /\ ts = "morecoming"
     /\ there > 0
     /\ IF d = DataLen THEN Handle(new) /\ UNCHANGED <<kind, client>>
        ELSE /\ hdr_bytes' = h
             /\ data_bytes' = d
             /\ UNCHANGED <<kind, ts, fault, requestVars, streamVars, timeVars>>

\* Another record, after one that could not be read: "read data from a completed
\* request" is an error, and the connection is closed
ReadCompleted ==
  /\ ts = "complete"
  /\ sent > 0
  /\ Free
  /\ UNCHANGED <<kind, fault, requestVars, untilIdle, produced, written, taken>>

\* End of file
ReadClosed ==
  /\ ts # "freed"
  /\ client = "gone"
  /\ ts = "complete" \/ sent = hdr_bytes + data_bytes
  /\ Free
  /\ UNCHANGED <<kind, fault, requestVars, untilIdle, produced, written, taken>>

--------------------------------------------------------------------------------
(* Replies *)

Unread == Len(written) - taken

\* What send takes of a reply of which nwriten units have gone
Fits(nwriten) ==
  LET left == ReplyLen - nwriten
      room == Room - Unread
  IN IF left < room THEN left ELSE room

Units(rep, n, more) ==
  [i \in 1..n |-> [reply |-> rep.reply, unit |-> rep.nwriten + i, more |-> more]]

\* Slip: the newest reply goes first
append_replyFirst(rep) ==
  /\ replies' = <<rep>> \o replies
  /\ stuck' = IF replies = <<>> THEN 0 ELSE stuck

append_reply(rep) ==
  /\ replies' = Append(replies, rep)
  /\ stuck' = IF replies = <<>> THEN 0 ELSE stuck

\* The engine has an answer for the client.  It runs before udsserver_idle, with
\* nothing in between
Answering ==
  /\ requests > 0
  /\ ts # "freed"
  /\ produced < MaxReplies
  /\ produced' = produced + 1
  /\ untilIdle' = 0

\* browse_result_callback, question_result_callback
QueueReply ==
  /\ kind = "browse"
  /\ Answering
  /\ append_reply([reply |-> produced + 1, nwriten |-> 0])
  /\ UNCHANGED <<kind, ts, fault, requestVars, readVars, written, taken, time_blocked, idling>>

\* resolve_result_callback, regrecord_callback: send_msg at once, whether or not
\* other replies wait; what does not fit is put behind them
SendReply ==
  /\ kind # "browse"
  /\ client # "gone"
  /\ Answering
  /\ LET rep == [reply |-> produced + 1, nwriten |-> 0]
         n   == Fits(0)
     IN /\ written' = written \o Units(rep, n, FALSE)
        /\ IF n = ReplyLen THEN UNCHANGED <<replies, stuck>>
           ELSE append_reply([rep EXCEPT !.nwriten = n])
  /\ UNCHANGED <<kind, ts, fault, requestVars, readVars, taken, time_blocked, idling>>

\* The same when the client is gone.  regrecord_callback looks for the request in
\* a context that abort_request has freed, if the record is unique
SendReplyGone ==
  /\ kind # "browse"
  /\ client = "gone"
  /\ Answering
  /\ Free
  /\ fault' \in (IF kind = "record" THEN BOOLEAN ELSE {FALSE})
  /\ UNCHANGED <<kind, requestVars, written, taken>>

--------------------------------------------------------------------------------
(* udsserver_idle: the replies one after the other, until the client's buffer is *)
(* full.  Meanwhile the client may read, or go *)

\* Slip: the flag is set if the queue is not empty
MoreComingIfAny == replies # <<>>

\* Of the first reply of the queue, when it is sent
MoreComing == Len(replies) > 1

Idling ==
  /\ ts # "freed"
  /\ client # "gone"
  /\ replies # <<>>

FirstFits == Fits(Head(replies).nwriten) = ReplyLen - Head(replies).nwriten

\* Slip: a reply that gets through does not end the blockade
IdleSendsStillBlocked ==
  LET rep == Head(replies)
  IN /\ Idling
     /\ FirstFits
     /\ written' = written \o Units(rep, Fits(rep.nwriten), MoreComing)
     /\ replies' = Tail(replies)
     /\ UNCHANGED time_blocked
     /\ stuck' = 0
     /\ untilIdle' = OneSecond
     /\ idling' = (Tail(replies) # <<>>)
     /\ UNCHANGED <<kind, ts, fault, requestVars, readVars, produced, taken>>

\* The first reply gets through
IdleSends ==
  LET rep == Head(replies)
  IN /\ Idling
     /\ FirstFits
     /\ written' = written \o Units(rep, Fits(rep.nwriten), MoreComing)
     /\ replies' = Tail(replies)
     /\ time_blocked' = NotBlocked
     /\ stuck' = 0
     /\ untilIdle' = OneSecond
     /\ idling' = (Tail(replies) # <<>>)
     /\ UNCHANGED <<kind, ts, fault, requestVars, readVars, produced, taken>>

\* time_blocked, when the client is found blocked
BlockedSince == IF time_blocked = NotBlocked THEN 0 ELSE time_blocked

\* Slip: a client that has been blocked for long is only passed over
IdleBlockedPatient ==
  LET rep == Head(replies)
  IN /\ Idling
     /\ ~FirstFits
     /\ BlockedSince < MaxTimeBlocked
     /\ written' = written \o Units(rep, Fits(rep.nwriten), MoreComing)
     /\ replies' = [replies EXCEPT ![1].nwriten = @ + Fits(rep.nwriten)]
     /\ time_blocked' = BlockedSince
     /\ untilIdle' = OneSecond
     /\ idling' = FALSE
     /\ UNCHANGED <<kind, ts, fault, requestVars, readVars, produced, taken, stuck>>

\* The client is blocked: part of the first reply goes, or the client is cut off
IdleBlocked ==
  LET rep == Head(replies)
  IN /\ Idling
     /\ ~FirstFits
     /\ written' = written \o Units(rep, Fits(rep.nwriten), MoreComing)
     /\ IF BlockedSince >= MaxTimeBlocked
        THEN Free /\ UNCHANGED untilIdle
        ELSE /\ replies' = [replies EXCEPT ![1].nwriten = @ + Fits(rep.nwriten)]
             /\ time_blocked' = BlockedSince
             /\ untilIdle' = OneSecond
             /\ idling' = FALSE
             /\ UNCHANGED <<ts, readVars, stuck>>
     /\ UNCHANGED <<kind, fault, requestVars, produced, taken>>

\* send_msg finds the connection closed
IdleGone ==
  /\ ts # "freed"
  /\ client = "gone"
  /\ replies # <<>>
  /\ Free
  /\ UNCHANGED <<kind, fault, requestVars, untilIdle, produced, written, taken>>

Tick ==
  /\ ~idling
  /\ ts # "freed"
  /\ replies # <<>>
  /\ untilIdle > 0
  /\ untilIdle' = untilIdle - 1
  /\ time_blocked' = IF time_blocked \in 0..MaxTimeBlocked - 1 THEN time_blocked + 1
                     ELSE time_blocked
  /\ stuck' = stuck + 1
  /\ UNCHANGED <<kind, ts, fault, requestVars, readVars, streamVars, idling>>

--------------------------------------------------------------------------------
Client == ClientSends \/ CallReturns \/ ClientCallsAgain \/ ClientReads \/ ClientGoes

\* The daemon does one thing at a time
Callback == ~idling /\ (ReadRequest \/ ReadCompleted \/ ReadClosed)

Engine == ~idling /\ (QueueReply \/ SendReply \/ SendReplyGone)

Idle == IdleSends \/ IdleBlocked \/ IdleGone

Next ==
  /\ ~fault
  /\ Client \/ Callback \/ Engine \/ Idle \/ Tick

\* The event loop serves every connection that has something to read and calls
\* udsserver_idle when its time has come; the client's call goes on to its end
Fairness ==
  /\ WF_vars(Callback)
  /\ WF_vars(Idle)
  /\ WF_vars(Tick)
  /\ WF_vars(ClientSends)
  /\ WF_vars(CallReturns)

Spec == Init /\ [][Next]_vars

FairSpec == Spec /\ Fairness

--------------------------------------------------------------------------------
(* What must hold *)

\* What a client that browses reads is its replies, one whole reply after the
\* other, in the order in which the engine gave them
StreamInOrder ==
  kind = "browse" =>
    \A i \in DOMAIN written :
      /\ written[i].unit \in 1..ReplyLen
      /\ i = ReplyLen * (written[i].reply - 1) + written[i].unit

\* "MoreComing indicates that at least one more result is queued": when nothing
\* is, the last reply has told the client that it may update its display
BurstEnds ==
  kind = "browse" /\ ts # "freed" /\ replies = <<>> /\ written # <<>> =>
    ~written[ReplyLen * (produced - 1) + 1].more

\* A slow client is not cut off while it takes replies: only if none went
\* through for MAX_TIME_BLOCKED
AbortedOnlyIfStuck ==
  [][IdleBlocked /\ ts' = "freed" => stuck >= MaxTimeBlocked]_vars

\* Every reply gets to the client's socket, or the client is cut off
RepliesGo == replies # <<>> ~> replies = <<>> \/ fault

\* A call of the client returns; but one for a record waits for ever if the daemon
\* has closed the connection instead of calling back
CallsReturn ==
  client = "waiting" ~> client # "waiting" \/ (kind = "record" /\ ts = "freed")
================================================================================
