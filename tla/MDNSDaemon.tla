------------------------------- MODULE MDNSDaemon -------------------------------
(***************************************************************************)
(* A client of the daemon that has a service registered for it             *)
(* (uds_daemon.c): its request_state, which goes when it disconnects, and  *)
(* the registered_service, whose memory must stay until the engine gives   *)
(* the record set of MDNSService back.                                     *)
(*                                                                         *)
(* The daemon has one thread: a callback of the engine is handled before   *)
(* anything else, and abort_request runs to its end.  Clients of different *)
(* requests share nothing but the engine.  udsserver_handle_configchange   *)
(* is not called by this port: rename_on_memfree stays 0.                  *)
(***************************************************************************)
EXTENDS MDNSService

VARIABLES
  request,   \* "none", "registered" (terminate is set), "aborting" (in
             \* abort_request) or "freed"
  service,   \* the memory of registered_service, its record set and subtypes
  renames,   \* r_srv->autoname or r_srv->renameonconflict
  entries,   \* r_srv->extras
  allocated, \* extra_record_entry objects not freed
  fault      \* history: memory has been freed twice; anything goes from there

daemonVars == <<request, service, renames, entries, allocated, fault>>

allVars == <<vars, daemonVars>>

DaemonTypeOK ==
  /\ request \in {"none", "registered", "aborting", "freed"}
  /\ service \in {"none", "live", "freed"}
  /\ renames \in BOOLEAN
  /\ entries \subseteq allocated
  /\ allocated \subseteq Extra
  /\ fault \in BOOLEAN

DaemonInit ==
  /\ Init
  /\ request = "none"
  /\ service = "none"
  /\ renames = FALSE
  /\ entries = {}
  /\ allocated = {}
  /\ fault = FALSE

\* The event loop is in no handler
AtRest == ~fault /\ phase = "open" /\ result = "None" /\ request # "aborting"

\* regservice_callback has been called with r
Called(r) == ~fault /\ result = r

--------------------------------------------------------------------------------
(* Requests of the client *)

\* handle_regservice_request
HandleRegister ==
  /\ AtRest
  /\ request = "none"
  /\ RegisterRecords({})
  /\ request' = "registered"
  /\ service' = "live"
  /\ renames' \in BOOLEAN
  /\ UNCHANGED <<result, entries, allocated, fault>>

\* The engine rejects it: abort_request calls regservice_termination_callback,
\* for which mDNS_DeregisterService fails, and which then frees twice
HandleRegisterFails ==
  /\ AtRest
  /\ request = "none"
  /\ RegisterFails
  /\ request' = "freed"
  /\ service' = "freed"
  /\ fault' = TRUE
  /\ UNCHANGED <<result, renames, entries, allocated>>

\* handle_add_request.  If the engine rejects the record, nothing remains of it
HandleAdd(e) ==
  /\ AtRest
  /\ request = "registered"
  /\ e \notin allocated
  /\ AddRecord(e)
  /\ entries' = entries \union {e}
  /\ allocated' = allocated \union {e}
  /\ UNCHANGED <<request, service, renames, fault>>

\* remove_extra_rr_from_service frees an entry the engine has let go; in case
\* of an error it only forgets it
RemoveFrees(e) == e \in Extras \intersect ResourceRecords

\* handle_removerecord_request
HandleRemove(e) ==
  /\ AtRest
  /\ request = "registered"
  /\ e \in entries
  /\ entries' = entries \ {e}
  /\ allocated' = IF RemoveFrees(e) THEN allocated \ {e} ELSE allocated
  /\ IF e \in Extras THEN RemoveRecord(e) ELSE UNCHANGED vars
  /\ UNCHANGED <<request, service, renames, fault>>

--------------------------------------------------------------------------------
(* The end of a request *)

\* Slip: the service is freed at once
TerminateAndFree ==
  /\ IF Registered THEN DeregisterRecords
     ELSE UNCHANGED <<RecordType, ResourceRecords, CurrentRecord, result, owner>>
  /\ service' = "freed"
  /\ UNCHANGED fault

\* regservice_termination_callback: "only safe to free memory if registration is
\* not valid, ie deregister fails".  It then frees the service twice
Terminate ==
  /\ IF Registered THEN DeregisterRecords
     ELSE UNCHANGED <<RecordType, ResourceRecords, CurrentRecord, result, owner>>
  /\ IF DeregisterStatus = "NoError" THEN UNCHANGED <<service, fault>>
     ELSE service' = "freed" /\ fault' = TRUE

\* abort_request, up to and including terminate
Abort ==
  /\ request = "registered"
  /\ request' = "aborting"
  /\ Terminate
  /\ UNCHANGED <<announced, Acknowledged, Conflict, Extras, phase, lost,
                 renames, entries, allocated>>

\* Slip: the request goes without its termination routine
ClientGoneQuietly ==
  /\ AtRest
  /\ request = "registered"
  /\ request' = "aborting"
  /\ UNCHANGED <<vars, service, renames, entries, allocated, fault>>

\* request_callback: read_msg finds the connection closed, or in error
ClientGone == AtRest /\ Abort

\* The end of abort_request, and unlink_request; a NoError callback that sent
\* into a closed connection returns with it
FinishAbort ==
  /\ ~fault
  /\ request = "aborting"
  /\ result \in {"None", "NoError"}
  /\ request' = "freed"
  /\ result' = "None"
  /\ UNCHANGED <<RecordType, ResourceRecords, announced, Acknowledged, Conflict,
                 Extras, CurrentRecord, phase, owner, lost,
                 service, renames, entries, allocated, fault>>

--------------------------------------------------------------------------------
(* regservice_callback *)

\* process_service_registration: the reply is sent or queued
HandleNoError ==
  /\ Called("NoError")
  /\ request = "registered"
  /\ CallbackReturns
  /\ UNCHANGED daemonVars

\* The same, but the client is gone: the request is aborted in the callback
HandleNoErrorGone == Called("NoError") /\ Abort

\* Slip: a service without a request is not freed
HandleMemFreeConnected ==
  /\ Called("MemFree")
  /\ CallbackReturns
  /\ service' = IF request = "freed" THEN service ELSE "freed"
  /\ allocated' = allocated \ entries
  /\ entries' = {}
  /\ UNCHANGED <<request, renames, fault>>

\* The set may be freed, and all that belongs to it.  (The code also clears the
\* service field of the request, through a pointer that outlives the request.)
HandleMemFree ==
  /\ Called("MemFree")
  /\ CallbackReturns
  /\ service' = "freed"
  /\ allocated' = allocated \ entries
  /\ entries' = {}
  /\ UNCHANGED <<request, renames, fault>>

\* Slip: the new registration is made without the extra records
RenameBare ==
  /\ Called("NameConflict")
  /\ renames
  /\ RegisterRecords({})
  /\ result' = "None"
  /\ UNCHANGED daemonVars

\* The name is taken: register under another one
Rename ==
  /\ Called("NameConflict")
  /\ renames
  /\ RegisterRecords(Extras)
  /\ result' = "None"
  /\ UNCHANGED daemonVars

\* That may fail, if the interface has gone; the daemon does not look
RenameFails ==
  /\ Called("NameConflict")
  /\ renames
  /\ RegisterFails
  /\ result' = "None"
  /\ UNCHANGED daemonVars

\* The client wants to do that itself: the service is freed and then used, and
\* freed again, and the extra records with their entries are forgotten
ConflictFrees ==
  /\ Called("NameConflict")
  /\ ~renames
  /\ CallbackReturns
  /\ service' = "freed"
  /\ entries' = {}
  /\ fault' = TRUE
  /\ UNCHANGED <<request, renames, allocated>>

--------------------------------------------------------------------------------
Handler ==
  \/ HandleNoError
  \/ HandleNoErrorGone
  \/ HandleMemFree
  \/ Rename
  \/ RenameFails
  \/ ConflictFrees

Request ==
  \/ HandleRegister
  \/ HandleRegisterFails
  \/ \E e \in Extra : HandleAdd(e) \/ HandleRemove(e)
  \/ ClientGone

Served(A) ==
  /\ ~fault
  /\ request # "aborting"
  /\ A
  /\ UNCHANGED daemonVars

DaemonNext ==
  \/ Request
  \/ Handler
  \/ FinishAbort
  \/ Served(Engine)
  \/ Served(BeginClose)
  \/ Served(CloseStep)

\* Handlers run to their end, the engine sends its goodbyes, mDNS_Close goes on
DaemonFairness ==
  /\ WF_allVars(Handler)
  /\ WF_allVars(FinishAbort)
  /\ WF_allVars(Served(CloseStep))
  /\ \A p \in Shared : WF_allVars(Served(CompleteDeregistration(p)))

DaemonSpec == DaemonInit /\ [][DaemonNext]_allVars

FairDaemonSpec == DaemonSpec /\ DaemonFairness

--------------------------------------------------------------------------------
(* What must hold *)

\* What the engine has in its lists is never freed: the termination callback
\* frees a service only "if registration is not valid", the MemFree callback
\* only when the engine is done.  (mDNS_Close is done with the PTR record, and
\* the daemon frees, before the engine comes to the extra records, and it may
\* leave the ADV record listed for good.)
MemoryStands ==
  /\ ResourceRecords \ (Extra \union LeftByClose) # {} => service = "live"
  /\ phase # "closing" => ResourceRecords \intersect Extra \subseteq allocated

\* The termination routine "aborts the mDNSCore operation if the client dies or
\* closes its socket": no name is probed for or held for a client that is gone,
\* and no callback finds the request gone but the one that frees the service
NoServiceOfTheDead ==
  request \in {"none", "freed"} =>
    "SRV" \notin ResourceRecords /\ result \in {"None", "MemFree"}

\* The daemon's list of extra records and the engine's agree through adds,
\* removals and renames, unless a rename failed
ExtrasInStep ==
  service = "live" /\ owner = "engine" => Extras = entries

\* The memory of a service does not outlive its client for ever
ServiceIsFreed == request = "freed" ~> service = "freed"

\* A record waited for its twin when mDNS_Close walked past: its last loop goes on
CloseStuck ==
  phase = "draining" /\ \E p \in Twin \intersect ResourceRecords : RecordType[p] # "Deregistering"

\* mDNS_Close returns, whatever the daemon does in the callbacks it makes, if no
\* service that has lost its name waits for the goodbye of a subtype and the walk
\* passes over no record of the service
CloseReturns == phase = "closing" /\ ~Conflict ~> phase = "closed" \/ fault \/ CloseStuck
================================================================================
