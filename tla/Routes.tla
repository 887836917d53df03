--------------------------------- MODULE Routes ---------------------------------
(***************************************************************************)
(* Exposing one port of a sandbox.  A request queues an operation, claims  *)
(* it and carries it out itself; the operation worker takes over what a    *)
(* request left queued, or left running until its lease went stale, even   *)
(* if that request is only slow.  A request may come again with its        *)
(* idempotency key and finds its operation.  The limits on routes are a    *)
(* refusal that may happen; access modes and tokens are left out.          *)
(***************************************************************************)
EXTENDS Naturals

CONSTANTS Request,     \* idempotency keys, each with its own operation
          NoRequest,
          MaxAttempts  \* sandboxOperationMaxAttempts, and claimSandboxOperationById's default

RouteAssumption == MaxAttempts \in Nat \ {0} /\ NoRequest \notin Request

VARIABLES
    host,       \* sandboxes.status
    route,      \* sandbox_routes of the port: never made, active or terminated
    operation,  \* sandbox_operations of kind route_expose
    request,    \* createSandboxRoute
    queue       \* processSandboxOperationQueue

routeVars == <<host, route, operation, request, queue>>

TypeOK ==
    /\ host \in {"running", "terminated"}
    /\ route \in {"none", "active", "terminated"}
    /\ operation \in [Request -> [state : {"none", "queued", "running", "succeeded", "failed"},
                                  attempts : 0..MaxAttempts, lock : {"none", "fresh", "stale"}]]
    /\ request \in [Request -> {"idle", "enqueue", "claim", "expose", "insert", "complete", "fail"}]
    /\ queue \in [at : {"sweep", "claim", "read", "expose", "insert", "complete", "fail", "retry"},
                  of : Request \cup {NoRequest}, attempts : 0..MaxAttempts]

Sweeping == [at |-> "sweep", of |-> NoRequest, attempts |-> 0]

Init ==
    /\ host = "running" /\ route = "none"
    /\ operation = [r \in Request |-> [state |-> "none", attempts |-> 0, lock |-> "none"]]
    /\ request = [r \in Request |-> "idle"]
    /\ queue = Sweeping
--------------------------------------------------------------------------------
(* The rows *)

Locked(op) == [state |-> "running", attempts |-> op.attempts + 1, lock |-> "fresh"]
Ended(op, state) == [op EXCEPT !.state = state, !.lock = "none"]

\* completeSandboxOperation and failSandboxOperation without expectedAttempts.
Complete(r) == operation' = [operation EXCEPT ![r] = Ended(@, "succeeded")]
Fail(r) == operation' = [operation EXCEPT ![r] = Ended(@, "failed")]

\* ON CONFLICT DO NOTHING: there is at most one row that is not terminated.
InsertRoute == route' = "active"

LockGoesStale(r) ==
    /\ operation[r].lock = "fresh"
    /\ operation' = [operation EXCEPT ![r].lock = "stale"]
    /\ UNCHANGED <<host, route, request, queue>>

TerminateSandbox ==
    /\ host = "running" /\ host' = "terminated"
    /\ route' = IF route = "active" THEN "terminated" ELSE route
    /\ UNCHANGED <<operation, request, queue>>
DeleteRoute ==
    /\ route = "active" /\ route' = "terminated"
    /\ UNCHANGED <<host, operation, request, queue>>
--------------------------------------------------------------------------------
(* The request *)

At(r, from, to) == request[r] = from /\ request' = [request EXCEPT ![r] = to]

\* Refused: sandbox terminated, route there already, or a limit reached.
RequestRoute(r) ==
    /\ host = "running" /\ route # "active" /\ At(r, "idle", "enqueue")
    /\ UNCHANGED <<host, route, operation, queue>>
Enqueue(r) ==
    /\ At(r, "enqueue", "claim")
    /\ operation' = [operation EXCEPT ![r].state = IF @ = "none" THEN "queued" ELSE @]
    /\ UNCHANGED <<host, route, queue>>
Claimable(op) == op.state \in {"queued", "failed"} /\ op.attempts < MaxAttempts
\* An operation that cannot be claimed is carried out all the same.
ClaimById(r) ==
    /\ At(r, "claim", "expose")
    /\ operation' = [operation EXCEPT ![r] = IF Claimable(@) THEN Locked(@) ELSE @]
    /\ UNCHANGED <<host, route, queue>>
RequestExpose(r) ==
    /\ At(r, "expose", "insert") \/ At(r, "expose", "fail")
    /\ UNCHANGED <<host, route, operation, queue>>
RequestInsert(r) ==
    /\ \/ At(r, "insert", "complete") /\ InsertRoute
       \/ At(r, "insert", "fail") /\ route' = route
    /\ UNCHANGED <<host, operation, queue>>
RequestComplete(r) ==
    /\ At(r, "complete", "idle") /\ Complete(r)
    /\ UNCHANGED <<host, route, queue>>
RequestFail(r) ==
    /\ At(r, "fail", "idle") /\ Fail(r)
    /\ UNCHANGED <<host, route, queue>>
RequestDies(r) ==
    /\ request[r] # "idle" /\ request' = [request EXCEPT ![r] = "idle"]
    /\ UNCHANGED <<host, route, operation, queue>>
--------------------------------------------------------------------------------
(* The worker *)

Mine == operation[queue.of].state = "running" /\ operation[queue.of].attempts = queue.attempts
SweptIfRetryable(op) == IF op.state = "running" /\ op.lock = "stale" /\ op.attempts < MaxAttempts  \* mutant
                        THEN Ended(op, "queued") ELSE op
Swept(op) == IF op.state # "running" \/ op.lock # "stale" THEN op
             ELSE Ended(op, IF op.attempts < MaxAttempts THEN "queued" ELSE "failed")
SweepStale ==
    /\ queue.at = "sweep" /\ queue' = [queue EXCEPT !.at = "claim"]
    /\ operation' = [r \in Request |-> Swept(operation[r])]
    /\ UNCHANGED <<host, route, request>>
ClaimNext ==
    LET next == {r \in Request : operation[r].state = "queued" /\ operation[r].attempts < MaxAttempts}
    IN /\ queue.at = "claim"
       /\ \/ next = {} /\ queue' = Sweeping /\ operation' = operation
          \/ \E r \in next : /\ operation' = [operation EXCEPT ![r] = Locked(@)]
                             /\ queue' = [at |-> "read", of |-> r, attempts |-> operation[r].attempts + 1]
       /\ UNCHANGED <<host, route, request>>
WorkerReads ==
    /\ queue.at = "read"
    /\ queue' = [queue EXCEPT !.at = IF host = "terminated" THEN "fail"
                                     ELSE IF route = "active" THEN "complete" ELSE "expose"]
    /\ UNCHANGED <<host, route, operation, request>>
WorkerCompletesFirst ==  \* mutant
    /\ queue.at = "expose" /\ queue' = [queue EXCEPT !.at = "insert"] /\ Complete(queue.of)
    /\ UNCHANGED <<host, route, request>>
WorkerExpose ==
    /\ queue.at = "expose" /\ \E at \in {"insert", "retry"} : queue' = [queue EXCEPT !.at = at]
    /\ UNCHANGED <<host, route, operation, request>>
WorkerInsert ==
    /\ queue.at = "insert" /\ InsertRoute /\ queue' = [queue EXCEPT !.at = "complete"]
    /\ UNCHANGED <<host, operation, request>>
WorkerComplete ==
    /\ queue.at = "complete" /\ Complete(queue.of) /\ queue' = [Sweeping EXCEPT !.at = "claim"]
    /\ UNCHANGED <<host, route, request>>
\* Not retryable, or out of attempts: failed; otherwise queued again.  Both expect their own attempt.
WorkerFails ==
    /\ queue.at \in {"fail", "retry"}
    /\ operation' = [operation EXCEPT ![queue.of] =
          IF ~Mine THEN @
          ELSE Ended(@, IF queue.at = "fail" \/ queue.attempts >= MaxAttempts THEN "failed" ELSE "queued")]
    /\ queue' = [Sweeping EXCEPT !.at = "claim"]
    /\ UNCHANGED <<host, route, request>>
WorkerDies ==
    /\ queue.of # NoRequest /\ queue' = Sweeping
    /\ UNCHANGED <<host, route, operation, request>>
--------------------------------------------------------------------------------
WorkerStep == SweepStale \/ ClaimNext \/ WorkerReads \/ WorkerExpose \/ WorkerInsert \/ WorkerComplete \/ WorkerFails

Next ==
    \/ TerminateSandbox \/ DeleteRoute \/ WorkerStep \/ WorkerDies
    \/ \E r \in Request : \/ RequestRoute(r) \/ Enqueue(r) \/ ClaimById(r) \/ RequestExpose(r) \/ RequestInsert(r)
                          \/ RequestComplete(r) \/ RequestFail(r) \/ RequestDies(r) \/ LockGoesStale(r)

Spec == Init /\ [][Next]_routeVars
\* Every process may die, the scheduler's loop goes on, and time makes leases stale.
FairSpec == Spec /\ WF_routeVars(WorkerStep) /\ \A r \in Request : WF_routeVars(LockGoesStale(r))
--------------------------------------------------------------------------------
(* An operation reported as succeeded has made its route, whichever of the *)
(* request and the worker that share it finished first.                    *)
SucceededHasRoute == \A r \in Request : operation[r].state = "succeeded" => route # "none"

(* No exposure is left behind: whatever dies, and however often a request  *)
(* comes again, a queued or running operation is settled in the end.       *)
ExposureSettles ==
    \A r \in Request : operation[r].state \in {"queued", "running"} ~> operation[r].state \in {"succeeded", "failed"}
================================================================================
