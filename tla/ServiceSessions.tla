----------------------------- MODULE ServiceSessions -----------------------------
(***************************************************************************)
(* One WebSocket to a protected service through the route proxy: its       *)
(* admission, the authorization with a deadline, the watcher that repeats  *)
(* it, the controller that aborts, and the two sockets between which       *)
(* frames are pumped.  Frames are numbered as the client sent them.        *)
(* pause() does not hold back what was already decoded, so a message may   *)
(* come at any time and reading is never modelled as stopped.  Frames of   *)
(* the service, HTTP requests and byte limits are left out.                *)
(***************************************************************************)
EXTENDS Naturals, Sequences

CONSTANTS MaxFrames,  \* bound: frames the client sends
          MaxPending  \* frames the queue holds (64 in the code)

ServiceBounds == MaxFrames \in Nat /\ MaxPending \in Nat \ {0}

VARIABLES
    access,    \* what getSandboxRouteProxyTarget would answer
    at,        \* the connection: onRequest, the upgrade, the proxy
    held,      \* its lease of ServiceConnections
    aborted,   \* controller.signal.aborted
    watcher,   \* watchServiceAccess: off, waiting, or a check under way
    clientSocket, serviceSocket,  \* the sockets
    stopped,   \* stop() was called
    pending, sending,  \* the queue, and whether its head is with the service's socket
    sent, received     \* frames the client sent, and those the service got

serviceVars == <<access, at, held, aborted, watcher, clientSocket, serviceSocket, stopped, pending, sending, sent, received>>
sockets == <<clientSocket, serviceSocket, stopped>>
frames == <<pending, sending, sent, received>>

TypeOK ==
    /\ access \in {"granted", "revoked"} /\ at \in {"idle", "authorize", "upgrade", "proxy", "ended"}
    /\ held \in BOOLEAN /\ aborted \in BOOLEAN /\ stopped \in BOOLEAN /\ sending \in BOOLEAN
    /\ watcher \in {"off", "waiting", "asked", "granted", "denied"}
    /\ clientSocket \in {"open", "closing", "closed"}
    /\ serviceSocket \in {"none", "connecting", "open", "closing", "closed"}
    /\ sent \in 0..MaxFrames /\ Len(pending) <= MaxPending
    /\ \A i \in DOMAIN pending : pending[i] \in 1..MaxFrames
    /\ \A i \in DOMAIN received : received[i] \in 1..MaxFrames

Init ==
    /\ access = "granted" /\ at = "idle" /\ held = FALSE /\ aborted = FALSE /\ watcher = "off"
    /\ clientSocket = "open" /\ serviceSocket = "none" /\ stopped = FALSE
    /\ pending = <<>> /\ sending = FALSE /\ sent = 0 /\ received = <<>>

\* The route or the sandbox goes, its target changes, or the database does not answer.
Revoke ==
    /\ access = "granted" /\ access' = "revoked"
    /\ UNCHANGED <<at, held, aborted, watcher, sockets, frames>>
--------------------------------------------------------------------------------
(* stop, and what becomes of the sockets *)

Shut(socket) == CASE socket = "open" -> "closing" [] socket = "connecting" -> "closed" [] OTHER -> socket
Stop == stopped' = TRUE /\ clientSocket' = Shut(clientSocket) /\ serviceSocket' = Shut(serviceSocket) /\ pending' = <<>>
\* Idempotent: the lease goes once, and the watcher with it.
Cleanup == held' = FALSE /\ watcher' = "off" /\ aborted' = TRUE
\* abort: heard by the proxy only.
Abort ==
    /\ aborted' = TRUE
    /\ IF at = "proxy" /\ ~stopped /\ ~aborted THEN Stop ELSE UNCHANGED <<sockets, pending>>

\* By its peer, in answer to a close frame, or terminated by the deadline of stop.
ClientCloses ==
    /\ at # "idle" /\ clientSocket # "closed" /\ Cleanup
    /\ IF at = "proxy" THEN stopped' = TRUE /\ serviceSocket' = Shut(serviceSocket) /\ pending' = <<>>
                       ELSE UNCHANGED <<serviceSocket, stopped, pending>>
    /\ clientSocket' = "closed"
    /\ UNCHANGED <<access, at, sending, sent, received>>
UpstreamEnds ==
    /\ serviceSocket \in {"connecting", "open", "closing"} /\ serviceSocket' = "closed"
    /\ stopped' = TRUE /\ clientSocket' = Shut(clientSocket) /\ pending' = <<>>
    /\ UNCHANGED <<access, at, held, aborted, watcher, sending, sent, received>>
\* No activity, or the queue or the consumer cannot take more.
Abandon ==
    /\ at = "proxy" /\ ~stopped /\ Stop
    /\ UNCHANGED <<access, at, held, aborted, watcher, sending, sent, received>>
StopDeadline == stopped /\ (ClientCloses \/ UpstreamEnds)
--------------------------------------------------------------------------------
(* onRequest and the upgrade *)

Acquire ==
    /\ at = "idle"
    /\ \/ at' = "authorize" /\ held' = TRUE
       \/ at' = "ended" /\ held' = held
    /\ UNCHANGED <<access, aborted, watcher, sockets, frames>>
Authorize ==
    /\ at = "authorize"
    /\ \/ aborted /\ at' = "ended" /\ Cleanup
       \/ access = "granted" /\ ~aborted /\ at' = "upgrade" /\ watcher' = "waiting" /\ UNCHANGED <<held, aborted>>
       \/ at' = "ended" /\ held' = FALSE /\ UNCHANGED <<aborted, watcher>>  \* refused, or its deadline
    /\ UNCHANGED <<access, sockets, frames>>
UpgradeUnasked ==  \* mutant
    /\ at = "upgrade" /\ clientSocket = "open" /\ at' = "proxy"
    /\ serviceSocket' = "connecting" /\ UNCHANGED <<clientSocket, stopped, pending>>
    /\ UNCHANGED <<access, held, aborted, watcher, sending, sent, received>>
\* The signal may have been aborted before the proxy listens to it.
Upgrade ==
    /\ at = "upgrade" /\ clientSocket = "open" /\ at' = "proxy"
    /\ IF aborted THEN serviceSocket' = "closed" /\ clientSocket' = "closing" /\ stopped' = TRUE
                  ELSE serviceSocket' = "connecting" /\ UNCHANGED <<clientSocket, stopped>>
    /\ UNCHANGED <<access, held, aborted, watcher, frames>>
--------------------------------------------------------------------------------
(* The watcher, and the other ends of a session *)

StartCheck ==
    /\ watcher = "waiting" /\ ~aborted /\ watcher' = "asked"
    /\ UNCHANGED <<access, at, held, aborted, sockets, frames>>
CheckReads ==
    /\ watcher = "asked" /\ watcher' = IF access = "granted" THEN "granted" ELSE "denied"
    /\ UNCHANGED <<access, at, held, aborted, sockets, frames>>
FinishCheck ==
    /\ watcher \in {"granted", "denied"} /\ watcher' = "waiting"
    /\ IF watcher = "denied" THEN Abort ELSE UNCHANGED <<aborted, sockets, pending>>
    /\ UNCHANGED <<access, at, held, sending, sent, received>>
CheckTimesOut ==
    /\ watcher \in {"asked", "granted", "denied"} /\ watcher' = "waiting" /\ Abort
    /\ UNCHANGED <<access, at, held, sending, sent, received>>
\* The lifetime of a watched connection ends, or the server shuts down.
EndSession ==
    /\ held /\ ~aborted /\ Abort
    /\ UNCHANGED <<access, at, held, watcher, sending, sent, received>>
--------------------------------------------------------------------------------
(* The pump *)

PumpAgain(queue, busy, up) ==  \* mutant
    IF queue # <<>> /\ up = "open"
    THEN sending' = TRUE /\ received' = Append(received, Head(queue))
    ELSE sending' = busy /\ received' = received
\* One frame at a time is with the service's socket, and stays the head of the queue.
Pump(queue, busy, up) ==
    IF queue # <<>> /\ ~busy /\ up = "open"
    THEN sending' = TRUE /\ received' = Append(received, Head(queue))
    ELSE sending' = busy /\ received' = received

ClientSends ==
    /\ at = "proxy" /\ clientSocket = "open" /\ ~stopped /\ sent < MaxFrames /\ Len(pending) < MaxPending
    /\ sent' = sent + 1 /\ pending' = Append(pending, sent + 1) /\ Pump(pending', sending, serviceSocket)
    /\ UNCHANGED <<access, at, held, aborted, watcher, sockets>>
UpstreamOpens ==
    /\ serviceSocket = "connecting" /\ serviceSocket' = "open" /\ Pump(pending, sending, "open")
    /\ UNCHANGED <<access, at, held, aborted, watcher, clientSocket, stopped, pending, sent>>
SendDone ==
    /\ sending /\ IF stopped THEN pending' = pending /\ sending' = FALSE /\ received' = received
                  ELSE pending' = Tail(pending) /\ Pump(pending', FALSE, serviceSocket)
    /\ UNCHANGED <<access, at, held, aborted, watcher, sockets, sent>>
--------------------------------------------------------------------------------
Next ==
    \/ Revoke \/ Acquire \/ Authorize \/ Upgrade
    \/ StartCheck \/ CheckReads \/ FinishCheck \/ CheckTimesOut \/ EndSession
    \/ ClientCloses \/ UpstreamEnds \/ Abandon
    \/ ClientSends \/ UpstreamOpens \/ SendDone

Spec == Init /\ [][Next]_serviceVars
\* Deadlines and timers fire; nothing else is asked of the peers or of the database.
FairSpec ==
    /\ Spec /\ WF_serviceVars(Authorize) /\ WF_serviceVars(Upgrade)
    /\ WF_serviceVars(StartCheck) /\ WF_serviceVars(FinishCheck) /\ WF_serviceVars(CheckTimesOut)
    /\ WF_serviceVars(StopDeadline)
--------------------------------------------------------------------------------
(* "Revocation is observed ..., then connections close", and "database      *)
(* outages fail closed": a connection whose access was revoked gives its    *)
(* place back, whatever its peers and the database do.                      *)
RevokedGivesPlaceBack == access = "revoked" /\ held ~> ~held

(* The service reads what the client sent: every frame once and in order,   *)
(* the first, which authenticates it, first.                                *)
FramesInOrder == \A i \in DOMAIN received : received[i] = i
================================================================================
