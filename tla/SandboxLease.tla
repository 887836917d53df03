------------------------------ MODULE SandboxLease ------------------------------
(***************************************************************************)
(* The lease of one running sandbox: who may extend it, when it may be     *)
(* ended.  Renewals reserve a runtime effect, ask the provider and record  *)
(* the deadline in steps of their own; the scheduler looks at the provider *)
(* outside the lock and expires what is due; the provider ends runtimes at *)
(* its native deadline and may perform a renewal after its caller gave up, *)
(* in any order with the renewals that were sent after it.                 *)
(***************************************************************************)
EXTENDS Naturals

CONSTANTS
    Client,       \* renewals: API requests, commands, attached terminals
    Ttl,          \* ttl_seconds
    MinLease,     \* the shortest native lease the provider creates
    MaxTime,      \* bound on the clock
    MaxEffects    \* bound on the runtime effects of the sandbox

LeaseBounds == Ttl \in Nat \ {0} /\ MinLease \in Nat /\ MaxTime \in Nat /\ MaxEffects \in Nat

VARIABLES
    now,       \* clock_timestamp()
    lease,     \* the sandbox row: status, expires_at and provider_expires_at
    effect,    \* the unsettled runtime effect, with the number of effects so far
    native,    \* the provider's runtime: alive, its deadline, and the renewals in flight
    client,    \* a renewal between two steps
    watch,     \* the scheduler between two steps
    promised,  \* history: the latest deadline a successful renewal answered
    asked,     \* history: the latest deadline anyone asked for
    undercut   \* history: a renewal performed late has lowered the native deadline

leaseVars == <<now, lease, effect, native, client, watch, promised, asked, undercut>>
history == <<promised, asked, undercut>>
None == 0      \* no deadline: the sandbox is created at time 0, so 0 is never one

NoEffect(n) == [kind |-> "none", id |-> n, at |-> "settled", target |-> None]
IdleClient == [at |-> "idle", effect |-> 0, seen |-> None]
IdleWatch == [at |-> "idle", version |-> 0, alive |-> FALSE, seen |-> None]

Time == 0..(MaxTime + MinLease)
Request == [effect : 0..MaxEffects, target : Time]
TypeOK ==
    /\ now \in 0..MaxTime
    /\ lease \in [status : {"running", "terminated"}, expires : Time, provider : Time]
    /\ effect \in [kind : {"none", "renew", "delete"}, id : 0..MaxEffects,
                   at : {"settled", "intent", "dispatched", "acknowledged", "uncertain"}, target : Time]
    /\ native \in [alive : BOOLEAN, deadline : Time, renewals : SUBSET Request]
    /\ client \in [Client -> [at : {"idle", "get", "dispatch", "answer", "finish", "wait", "fail"},
                              effect : 0..MaxEffects, seen : Time]]
    /\ watch \in [at : {"idle", "lease", "apply", "recover"}, version : 0..MaxEffects,
                  alive : BOOLEAN, seen : Time]
    /\ promised \in Time /\ asked \in Time /\ undercut \in BOOLEAN

LeaseMax(a, b) == IF a > b THEN a ELSE b
LeaseMin(a, b) == IF a < b THEN a ELSE b

\* A created sandbox: the native lease may be longer than the promised one.
Init ==
    /\ now = 0
    /\ lease = [status |-> "running", expires |-> Ttl, provider |-> LeaseMax(Ttl, MinLease)]
    /\ effect = NoEffect(0)
    /\ native = [alive |-> TRUE, deadline |-> LeaseMax(Ttl, MinLease), renewals |-> {}]
    /\ client = [c \in Client |-> IdleClient]
    /\ watch = IdleWatch
    /\ promised = Ttl /\ asked = Ttl /\ undercut = FALSE

Busy == effect.kind # "none"

\* A native deadline that changed is a renewal whose commit was lost; an
\* unchanged longer one is the provider's minimum.
effectiveDeadline(seen) ==
    IF seen # lease.provider THEN seen ELSE LeaseMin(lease.expires, seen)

Begin(kind) ==
    /\ ~Busy /\ effect.id < MaxEffects
    /\ effect' = [kind |-> kind, id |-> effect.id + 1, at |-> "intent", target |-> None]
--------------------------------------------------------------------------------
(* renewSandboxLease *)

AdmitRenewal(c) ==
    /\ client[c].at = "idle" /\ lease.status = "running"
    /\ Begin("renew")
    /\ client' = [client EXCEPT ![c] = [at |-> "get", effect |-> effect'.id, seen |-> None]]
    /\ UNCHANGED <<now, lease, native, watch, history>>

\* A renewal without an operation waits for the one that is under way.
Coalesce(c) ==
    /\ client[c].at = "idle" /\ lease.status = "running"
    /\ effect.kind = "renew" /\ effect.at # "uncertain"
    /\ client' = [client EXCEPT ![c] = [at |-> "wait", effect |-> effect.id, seen |-> None]]
    /\ UNCHANGED <<now, lease, effect, native, watch, history>>

Owns(c) == effect.kind = "renew" /\ effect.id = client[c].effect

\* The runtime is read, and the target stored with the effect, outside the lock.
\* (The row is read with the admission: it cannot change before the effect settles.)
ReadRuntime(c) ==
    /\ client[c].at = "get"
    /\ LET target == LeaseMax(now + Ttl, effectiveDeadline(native.deadline)) IN
       \/ /\ native.alive /\ target <= MaxTime
          /\ effect' = IF Owns(c) THEN [effect EXCEPT !.target = target] ELSE effect
          /\ client' = [client EXCEPT ![c].at = "dispatch", ![c].seen = target]
          /\ asked' = LeaseMax(asked, target)
       \/ client' = [client EXCEPT ![c].at = "fail"] /\ UNCHANGED <<effect, asked>>
    /\ UNCHANGED <<now, lease, native, watch, promised, undercut>>

\* The request is sent; whatever becomes of its caller, it stays in flight until
\* the provider performs it.
Sent(c) == [effect |-> client[c].effect, target |-> client[c].seen]

Dispatch(c) ==
    /\ client[c].at = "dispatch"
    /\ IF Owns(c) /\ effect.at = "intent"
       THEN /\ effect' = [effect EXCEPT !.at = "dispatched"]
            /\ native' = [native EXCEPT !.renewals = @ \cup {Sent(c)}]
            /\ client' = [client EXCEPT ![c].at = "answer"]
       ELSE client' = [client EXCEPT ![c].at = "fail"] /\ UNCHANGED <<effect, native>>
    /\ UNCHANGED <<now, lease, watch, history>>

\* The answer, which may be an error whatever the provider did or will do.
Answer(c) ==
    /\ client[c].at = "answer"
    /\ \/ /\ Sent(c) \notin native.renewals /\ Owns(c)
          /\ effect' = [effect EXCEPT !.at = "acknowledged"]
          /\ client' = [client EXCEPT ![c].at = "finish"]
       \/ /\ effect' = IF Owns(c) THEN [effect EXCEPT !.at = "uncertain"] ELSE effect
          /\ client' = [client EXCEPT ![c] = IdleClient]
    /\ UNCHANGED <<now, lease, native, watch, history>>

PersistDeadline(target) == lease' = [lease EXCEPT !.expires = target, !.provider = target]

FinishRenewal(c) ==
    /\ client[c].at = "finish"
    /\ \/ /\ Owns(c)
          /\ PersistDeadline(effect.target)
          /\ promised' = LeaseMax(promised, effect.target)
          /\ effect' = NoEffect(effect.id)
          /\ client' = [client EXCEPT ![c] = IdleClient]
       \/ /\ effect' = IF Owns(c) THEN [effect EXCEPT !.at = "uncertain"] ELSE effect
          /\ client' = [client EXCEPT ![c] = IdleClient]
          /\ UNCHANGED <<lease, promised>>
    /\ UNCHANGED <<now, native, watch, asked, undercut>>

\* Before the dispatch nothing is uncertain.
FailRenewal(c) ==
    /\ client[c].at = "fail"
    /\ effect' = IF Owns(c) THEN NoEffect(effect.id) ELSE effect
    /\ client' = [client EXCEPT ![c] = IdleClient]
    /\ UNCHANGED <<now, lease, native, watch, history>>

CoalescedAnswer(c) ==
    /\ client[c].at = "wait"
    /\ effect.id # client[c].effect \/ ~Busy
    /\ promised' = IF lease.status = "running" /\ lease.expires > now
                   THEN LeaseMax(promised, lease.expires) ELSE promised
    /\ client' = [client EXCEPT ![c] = IdleClient]
    /\ UNCHANGED <<now, lease, effect, native, watch, asked, undercut>>

Crash(c) ==
    /\ client[c].at # "idle"
    /\ client' = [client EXCEPT ![c] = IdleClient]
    /\ UNCHANGED <<now, lease, effect, native, watch, history>>
--------------------------------------------------------------------------------
(* The scheduler: reconcileSandboxLease and the recovery of renewals *)

ReadLease ==
    /\ watch.at = "idle" /\ ~Busy /\ lease.status = "running"
    /\ watch' = [IdleWatch EXCEPT !.at = "lease", !.version = effect.id]
    /\ UNCHANGED <<now, lease, effect, native, client, history>>

Look ==
    /\ watch.at = "lease"
    /\ watch' = [watch EXCEPT !.at = "apply", !.alive = native.alive, !.seen = native.deadline]
    /\ UNCHANGED <<now, lease, effect, native, client, history>>

Apply ==
    IF ~watch.alive
    THEN lease' = [lease EXCEPT !.status = "terminated"] /\ UNCHANGED effect
    ELSE LET deadline == effectiveDeadline(watch.seen) IN
         /\ lease' = [lease EXCEPT !.expires = deadline, !.provider = watch.seen]
         /\ \/ deadline > now /\ UNCHANGED effect
            \/ deadline <= now /\ Begin("delete")
            \/ UNCHANGED effect    \* a pass that does not expire

ApplyLeaseUnfenced ==
    /\ watch.at = "apply"
    /\ IF ~Busy THEN Apply ELSE UNCHANGED <<lease, effect>>
    /\ watch' = IdleWatch
    /\ UNCHANGED <<now, native, client, history>>

\* Nothing may have begun since the first look.
ApplyLease ==
    /\ watch.at = "apply"
    /\ IF ~Busy /\ effect.id = watch.version THEN Apply ELSE UNCHANGED <<lease, effect>>
    /\ watch' = IdleWatch
    /\ UNCHANGED <<now, native, client, history>>

\* An intent that was never dispatched is canceled, whoever owns it.
CancelUndispatched ==
    /\ watch.at = "idle" /\ effect.kind = "renew" /\ effect.at = "intent"
    /\ effect' = NoEffect(effect.id)
    /\ UNCHANGED <<now, lease, native, client, watch, history>>

ReadRenewal ==
    /\ watch.at = "idle" /\ effect.kind = "renew" /\ effect.at # "intent"
    /\ watch' = [at |-> "recover", version |-> effect.id, alive |-> native.alive, seen |-> native.deadline]
    /\ UNCHANGED <<now, lease, effect, native, client, history>>

FinishObservedRenewal ==
    /\ watch.at = "recover"
    /\ IF Busy /\ effect.id = watch.version /\ watch.alive /\ watch.seen >= effect.target
       THEN PersistDeadline(effect.target) /\ effect' = NoEffect(effect.id)
       ELSE UNCHANGED <<lease, effect>>
    /\ watch' = IdleWatch
    /\ UNCHANGED <<now, native, client, history>>

WatchFails ==
    /\ watch.at # "idle"
    /\ watch' = IdleWatch
    /\ UNCHANGED <<now, lease, effect, native, client, history>>

\* executeRuntimeDeletion, with every retry of it.
DeleteRuntime ==
    /\ effect.kind = "delete"
    /\ native' = [native EXCEPT !.alive = FALSE]
    /\ lease' = [lease EXCEPT !.status = "terminated"]
    /\ effect' = NoEffect(effect.id)
    /\ UNCHANGED <<now, client, watch, history>>
--------------------------------------------------------------------------------
(* The provider, and time *)

\* The effect of the request is settled: the caller gave up on it, and the
\* scheduler took the deadline it saw for its result.
Late(r) == effect.kind # "renew" \/ effect.id # r.effect

\* The runtime takes the deadline of a request as it comes, whatever later
\* renewals have set.
PerformRenewal(r) ==
    /\ r \in native.renewals /\ native.alive
    /\ native' = [native EXCEPT !.renewals = @ \ {r}, !.deadline = r.target]
    /\ undercut' = (undercut \/ (Late(r) /\ r.target < native.deadline))
    /\ UNCHANGED <<now, lease, effect, client, watch, promised, asked>>

NativeExpiry ==
    /\ native.alive /\ native.deadline <= now
    /\ native' = [native EXCEPT !.alive = FALSE]
    /\ UNCHANGED <<now, lease, effect, client, watch, history>>

Tick ==
    /\ now < MaxTime
    /\ now' = now + 1
    /\ UNCHANGED <<lease, effect, native, client, watch, history>>

Next ==
    \/ \E c \in Client :
          \/ AdmitRenewal(c) \/ Coalesce(c) \/ ReadRuntime(c) \/ Dispatch(c) \/ Answer(c)
          \/ FinishRenewal(c) \/ FailRenewal(c) \/ CoalescedAnswer(c) \/ Crash(c)
    \/ ReadLease \/ Look \/ ApplyLease \/ CancelUndispatched \/ ReadRenewal \/ FinishObservedRenewal
    \/ WatchFails \/ DeleteRuntime \/ NativeExpiry \/ Tick
    \/ \E r \in native.renewals : PerformRenewal(r)

Spec == Init /\ [][Next]_leaseVars
--------------------------------------------------------------------------------
(* Properties *)

\* docs/lifecycle.md: when a renewal wins, an expiration that was selected
\* before must look again and leave the runtime alive; a renewal that was
\* answered with success is not cut short by the scheduler.  The exception is
\* what the code does not prevent: a renewal that timed out, performed after a
\* later one, lowers the runtime's own deadline, and the scheduler follows it.
RenewedIsNotExpired ==
    [][effect.kind = "none" /\ effect'.kind = "delete" => now >= promised \/ undercut]_leaseVars

\* If expiration wins, no renewal resurrects the sandbox.
TerminatedStaysTerminated ==
    [][lease.status = "terminated" => lease'.status = "terminated" /\ promised' = promised]_leaseVars

\* docs/sandbox-lease-operations.md: an unchanged longer native deadline is not
\* evidence of a renewal and must not extend a short TTL.
DeadlineWasAsked == lease.expires <= asked
================================================================================
