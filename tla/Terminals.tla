-------------------------------- MODULE Terminals --------------------------------
(***************************************************************************)
(* One attachment of an interactive terminal: the request that consumes a  *)
(* ticket, renews the sandbox, makes a PTY session and joins two sockets;  *)
(* the watcher that revalidates its principal; the timer that keeps the    *)
(* sandbox alive meanwhile; and the heartbeat.  A socket's close event is  *)
(* seen only by the listeners registered when it is emitted.  The renewal  *)
(* itself is SandboxLease's; bytes, and the rows of events, are left out.  *)
(***************************************************************************)
VARIABLES
    principal,  \* what revalidatePrincipal would answer
    ticket,     \* terminal_attach_tickets
    sandbox,    \* sandboxes.status: running (or idle), or not
    pc,         \* the request: the await it is at
    failed,     \* attachSandboxTerminal is to answer with an error
    client,     \* the caller's socket; "silent": open, but its peer is gone
    upstream,   \* the socket to execd
    session,    \* the PTY session in the runtime
    renewing,   \* renewTimer
    watch       \* watchTerminalAuthorization: off, waiting, or a check under way

terminalVars == <<principal, ticket, sandbox, pc, failed, client, upstream, session, renewing, watch>>

TypeOK ==
    /\ principal \in {"valid", "expired", "revoked"}
    /\ ticket \in {"fresh", "used", "expired"} /\ sandbox \in {"running", "ended"}
    /\ pc \in {"idle", "consume", "revalidate", "read", "renew", "create", "record", "resolve",
               "attached", "ended", "delete", "answer", "refuse", "done"}
    /\ client \in {"open", "silent", "closing", "closed"}
    /\ upstream \in {"none", "connecting", "open", "silent", "closed"}
    /\ session \in {"none", "live", "deleted"} /\ watch \in {"off", "waiting", "asked", "granted", "denied"}
    /\ renewing \in BOOLEAN /\ failed \in BOOLEAN

Init ==
    /\ principal = "valid" /\ ticket = "fresh" /\ sandbox = "running"
    /\ pc = "idle" /\ failed = FALSE
    /\ client = "open" /\ upstream = "none" /\ session = "none"
    /\ renewing = FALSE /\ watch = "off"
--------------------------------------------------------------------------------
(* The world around the request *)

Revoke ==
    /\ principal = "valid" /\ \E p \in {"expired", "revoked"} : principal' = p
    /\ UNCHANGED <<ticket, sandbox, pc, failed, client, upstream, session, renewing, watch>>
\* Used by another connection, or past its expiry.
SpoilTicket ==
    /\ ticket = "fresh" /\ \E t \in {"used", "expired"} : ticket' = t
    /\ UNCHANGED <<principal, sandbox, pc, failed, client, upstream, session, renewing, watch>>
\* By the user; by expiry only if nothing renews it.
SandboxEnds ==
    /\ sandbox = "running" /\ sandbox' = "ended"
    /\ UNCHANGED <<principal, ticket, pc, failed, client, upstream, session, renewing, watch>>
\* A peer vanishes without closing its connection.
FallSilent ==
    /\ \/ client = "open" /\ client' = "silent" /\ upstream' = upstream
       \/ upstream = "open" /\ upstream' = "silent" /\ client' = client
    /\ UNCHANGED <<principal, ticket, sandbox, pc, failed, session, renewing, watch>>
--------------------------------------------------------------------------------
(* Sockets *)

Closing(socket) == IF socket \in {"open", "silent", "connecting"} THEN "closing" ELSE socket
CloseClient == client' = Closing(client)

\* The promise of attachPtySession settles: listeners removed, heartbeat stopped.
Finish(error) == pc' = "ended" /\ failed' = error /\ upstream' = "closed"

\* The close event: stopWatching listens from the start of the watch, onClientClose once attached.
ClientGone ==
    /\ client' = "closed" /\ watch' = "off"
    /\ IF pc = "attached" THEN Finish(FALSE) ELSE UNCHANGED <<pc, failed, upstream>>
    /\ UNCHANGED <<principal, ticket, sandbox, session, renewing>>
ClientCloses == client = "open" /\ pc # "idle" /\ ClientGone
\* ws answers a close frame, or gives up waiting for one.
CloseHandshake == client = "closing" /\ ClientGone

UpstreamOpens ==
    /\ pc = "attached" /\ upstream = "connecting" /\ upstream' = "open"
    /\ UNCHANGED <<principal, ticket, sandbox, pc, failed, client, session, renewing, watch>>
\* Closed or failed at the other end, or a frame could not be forwarded.
UpstreamEnds ==
    /\ pc = "attached" /\ CloseClient /\ \E error \in BOOLEAN : Finish(error)
    /\ UNCHANGED <<principal, ticket, sandbox, session, renewing, watch>>
\* A client that is not open is not asked.
Heartbeat ==
    /\ pc = "attached" /\ (client = "silent" \/ upstream = "silent")
    /\ Finish(TRUE) /\ client' = IF client \in {"open", "silent"} THEN "closed" ELSE client
    /\ watch' = IF client' = "closed" THEN "off" ELSE watch
    /\ UNCHANGED <<principal, ticket, sandbox, session, renewing>>
--------------------------------------------------------------------------------
(* The watcher *)

Reject == watch' = "off" /\ CloseClient
StartCheck ==
    /\ watch = "waiting" /\ watch' = "asked"
    /\ UNCHANGED <<principal, ticket, sandbox, pc, failed, client, upstream, session, renewing>>
CheckReads ==
    /\ watch = "asked" /\ watch' = IF principal = "valid" THEN "granted" ELSE "denied"
    /\ UNCHANGED <<principal, ticket, sandbox, pc, failed, client, upstream, session, renewing>>
FinishCheck ==
    /\ \/ watch = "granted" /\ watch' = "waiting" /\ client' = client
       \/ watch = "denied" /\ Reject
    /\ UNCHANGED <<principal, ticket, sandbox, pc, failed, upstream, session, renewing>>
AnswerRejects ==  \* mutant
    /\ watch = "denied" /\ Reject
    /\ UNCHANGED <<principal, ticket, sandbox, pc, failed, upstream, session, renewing>>
\* The check failed or took longer than timeoutMs.
CheckTimesOut ==
    /\ watch \in {"asked", "granted", "denied"} /\ Reject
    /\ UNCHANGED <<principal, ticket, sandbox, pc, failed, upstream, session, renewing>>
ExpiryTimer ==
    /\ watch # "off" /\ principal = "expired" /\ Reject
    /\ UNCHANGED <<principal, ticket, sandbox, pc, failed, upstream, session, renewing>>
--------------------------------------------------------------------------------
(* The request *)

Await(from, to) == pc = from /\ pc' = to

\* With a ticket, or with the principal of an API key.
Connect ==
    /\ Await("idle", "consume") \/ Await("idle", "revalidate")
    /\ UNCHANGED <<principal, ticket, sandbox, failed, client, upstream, session, renewing, watch>>
ConsumeTicket ==
    /\ IF ticket = "fresh" THEN ticket' = "used" /\ \E to \in {"revalidate", "refuse"} : Await("consume", to)
                           ELSE ticket' = ticket /\ Await("consume", "refuse")
    /\ UNCHANGED <<principal, sandbox, failed, client, upstream, session, renewing, watch>>
Revalidate ==
    /\ IF principal = "valid" THEN Await("revalidate", "read") /\ watch' = "waiting"
                              ELSE Await("revalidate", "refuse") /\ watch' = watch
    /\ UNCHANGED <<principal, ticket, sandbox, failed, client, upstream, session, renewing>>
\* not_found or sandbox_not_running: the finally of the route stops the watch.
ReadSandbox ==
    /\ IF sandbox = "running" THEN Await("read", "renew") /\ watch' = watch
                              ELSE Await("read", "refuse") /\ watch' = "off"
    /\ UNCHANGED <<principal, ticket, sandbox, failed, client, upstream, session, renewing>>
\* Any await of the try block may throw.
Throws(at) == pc = at /\ pc' = "ended" /\ failed' = TRUE
RenewFirst ==
    /\ Throws("renew") \/ (sandbox = "running" /\ Await("renew", "create") /\ failed' = failed)
    /\ UNCHANGED <<principal, ticket, sandbox, client, upstream, session, renewing, watch>>
CreateSession ==
    /\ \/ Throws("create") /\ UNCHANGED <<session, renewing>>
       \/ Await("create", "record") /\ failed' = failed /\ session' = "live" /\ renewing' = TRUE
    /\ UNCHANGED <<principal, ticket, sandbox, client, upstream, watch>>
RecordStarted ==
    /\ Throws("record") \/ (Await("record", "resolve") /\ failed' = failed)
    /\ UNCHANGED <<principal, ticket, sandbox, client, upstream, session, renewing, watch>>
Attach ==
    /\ \/ Throws("resolve") /\ upstream' = upstream
       \/ Await("resolve", "attached") /\ failed' = failed /\ upstream' = "connecting"
    /\ UNCHANGED <<principal, ticket, sandbox, client, session, renewing, watch>>
RenewFails ==
    /\ renewing /\ CloseClient
    /\ UNCHANGED <<principal, ticket, sandbox, pc, failed, upstream, session, renewing, watch>>
\* terminal.attach.ended or .failed is recorded, then the finally block begins.
StopRenewing ==
    /\ Await("ended", "delete") /\ renewing' = FALSE
    /\ UNCHANGED <<principal, ticket, sandbox, failed, client, upstream, session, watch>>
DeleteSession ==
    /\ Await("delete", IF failed THEN "refuse" ELSE "done") /\ watch' = "off"
    /\ session' \in IF session = "live" THEN {"live", "deleted"} ELSE {session}
    /\ UNCHANGED <<principal, ticket, sandbox, failed, client, upstream, renewing>>
SendError ==
    /\ Await("refuse", "done") /\ CloseClient
    /\ UNCHANGED <<principal, ticket, sandbox, failed, upstream, session, renewing, watch>>
--------------------------------------------------------------------------------
RequestStep ==
    \/ ConsumeTicket \/ Revalidate \/ ReadSandbox \/ RenewFirst \/ CreateSession \/ RecordStarted
    \/ Attach \/ StopRenewing \/ DeleteSession \/ SendError
WatchStep == StartCheck \/ FinishCheck \/ CheckTimesOut \/ ExpiryTimer

Next ==
    \/ Revoke \/ SpoilTicket \/ SandboxEnds \/ FallSilent
    \/ ClientCloses \/ CloseHandshake \/ UpstreamOpens \/ UpstreamEnds \/ Heartbeat
    \/ WatchStep \/ CheckReads \/ Connect \/ RequestStep \/ RenewFails

Spec == Init /\ [][Next]_terminalVars
Connected == upstream = "connecting" /\ (UpstreamOpens \/ UpstreamEnds)
Disconnected == sandbox = "ended" /\ UpstreamEnds
\* Every await of the request ends, timers fire, a close is answered or timed out, and execd is
\* reached or not, and lost with its sandbox; a check may wait for the database for ever.
FairSpec ==
    /\ Spec /\ WF_terminalVars(RequestStep) /\ WF_terminalVars(Heartbeat) /\ WF_terminalVars(CloseHandshake)
    /\ WF_terminalVars(Connected) /\ WF_terminalVars(Disconnected)
    /\ WF_terminalVars(StartCheck) /\ WF_terminalVars(FinishCheck) /\ WF_terminalVars(CheckTimesOut)
--------------------------------------------------------------------------------
(* A principal who was revoked, or whose credential expired, is soon        *)
(* disconnected, wherever the attachment is and however the database does.  *)
RevokedIsDisconnected ==
    principal # "valid" /\ client = "open" /\ pc # "idle" ~> client # "open"

(* "Attached terminals keep renewing until detached": once its caller's     *)
(* socket is closed an attachment stops renewing the sandbox.               *)
DetachedStopsRenewing == client = "closed" /\ renewing ~> ~renewing
================================================================================
