--------------------------- MODULE SandboxCapacity ---------------------------
(***************************************************************************)
(* The execution-slot protocol of one organization (migration 038): the    *)
(* reservation ledger, the durable runtime effects, the provision          *)
(* operation, the API requests and scheduler replicas that act on them,    *)
(* and the runtime provider they call.                                     *)
(*                                                                         *)
(* One action is one database transaction or one provider call.  Rows are  *)
(* variables indexed by sandbox; a process that is between two             *)
(* transactions is at a program point pc[p] with the values it carries in  *)
(* job[p], which a crash loses.  Five-minute staleness thresholds and poll *)
(* intervals are nondeterministic: a stale-row scan may run at any time.   *)
(***************************************************************************)
EXTENDS Naturals, FiniteSets

CONSTANTS
  Sandboxes,              \* the sandboxes one organization may create
  NoSandbox,              \* the sandbox of an idle process
  Processes,              \* API requests, workers and scheduler replicas
  Limits,                 \* the values max_concurrency may take
  MaxEffects,             \* bound: runtime effects per sandbox
  MaxAttempts,            \* claims of one operation (3 in the code)
  MaxFaults,              \* bound: crashes and lost database replies
  StaleReconcileFails,    \* the stale-provision transaction may fail
  PauseStopsExecution,    \* provider capability: a paused runtime runs nothing
  AuthoritativeLifecycle  \* provider capability: an absent GET proves absence

ASSUME SandboxesAssumption == IsFiniteSet(Sandboxes) /\ NoSandbox \notin Sandboxes
ASSUME LimitsAssumption == Limits \subseteq Nat \ {0} /\ Limits # {}
ASSUME BoundsAssumption ==
  MaxEffects \in Nat /\ MaxAttempts \in Nat \ {0} /\ MaxFaults \in Nat
ASSUME CapabilitiesAssumption ==
  /\ PauseStopsExecution \in BOOLEAN
  /\ AuthoritativeLifecycle \in BOOLEAN
  /\ StaleReconcileFails \in BOOLEAN

VARIABLES
  maxConcurrency,  \* organizations.max_concurrency
  status,          \* sandboxes.status ("absent" before the row exists; idle is "running")
  identity,        \* sandboxes.opensandbox_id, 0 for NULL
  generation,      \* newest reservation's generation, 0 if there is none
  phase,           \* newest reservation's phase
  suspended,       \* some released reservation has reason provider_suspended
  effect,          \* the one unsettled runtime effect, or NoEffect
  version,         \* number of runtime effects ever begun (readRuntimeFence)
  creates,         \* ids of the provision effects with dispatched_at set
  operation,       \* the provision operation row
  pc, job,         \* processes: program point and carried values
  calls,           \* requests delivered to the provider and not yet performed
  runtime,         \* the provider's runtimes, named by the effect that created them
  faults           \* faults so far

ledger    == <<generation, phase, suspended>>
effects   == <<effect, version, creates>>
sandbox   == <<status, identity>>
database  == <<maxConcurrency, ledger, effects, sandbox, operation>>
provider  == <<calls, runtime>>
processes == <<pc, job>>
vars == <<database, provider, processes, faults>>

EffectIds     == 1 .. MaxEffects
Statuses      == {"absent", "pending", "running", "pausing", "paused",
                  "resuming", "error", "terminated"}
HeldPhases    == {"reserved", "active", "releasing", "uncertain"}
EffectKinds   == {"prepare", "provision", "pause", "resume", "delete"}
LiveStates    == {"pending", "running", "pausing", "paused", "resuming"}
RuntimeStates == LiveStates \cup {"none", "gone"}
Observations  == RuntimeStates \cup {"error", "unknown"}
Recoverable   == LiveStates \cup {"error", "gone"}
Points == {"idle", "preparing", "admitted", "checking", "starting", "begun",
           "calling", "returned", "acknowledged", "persisted", "observed",
           "aborting", "doubtful", "failing", "found", "recovering",
           "leasing", "stale"}

NoEffect == [id |-> 0, kind |-> "none", generation |-> 0, runtime |-> 0,
             dispatched |-> FALSE, acknowledged |-> FALSE]
NoJob == [sandbox |-> NoSandbox, kind |-> "none", role |-> "none", effect |-> 0,
          generation |-> 0, attempts |-> 0, runtime |-> 0, seen |-> "none"]

Effect == [id : 0 .. MaxEffects, kind : EffectKinds \cup {"none"},
           generation : Nat, runtime : 0 .. MaxEffects,
           dispatched : BOOLEAN, acknowledged : BOOLEAN]
Operation == [state : {"none", "queued", "running", "succeeded", "failed", "canceled"},
              attempts : 0 .. MaxAttempts, ready : BOOLEAN, secret : BOOLEAN]
Job == [sandbox : Sandboxes \cup {NoSandbox},
        kind : EffectKinds \cup {"none", "lease"}, role : {"none", "api", "worker"},
        effect : 0 .. MaxEffects, generation : Nat, attempts : 0 .. MaxAttempts,
        runtime : 0 .. MaxEffects, seen : Observations]
CallKinds == EffectKinds \ {"prepare"}
Call == [sandbox : Sandboxes, kind : CallKinds, effect : EffectIds, runtime : EffectIds]

\* The request names the runtime it acts on; a create names the one it makes.
Target(j) == IF j.kind = "provision" THEN j.effect ELSE j.runtime

\* What a process carries at a program point.
Carries(point, j) ==
  /\ point \in {"begun", "calling"} =>
       j.kind \in CallKinds /\ j.effect \in EffectIds /\ Target(j) \in EffectIds
  /\ point \in {"checking", "starting", "persisted"} => j.kind = "provision"
  /\ point \in {"returned", "acknowledged", "persisted"} /\ j.kind = "provision" =>
       j.runtime \in EffectIds /\ j.seen \in {"pending", "running"}
  /\ point \in {"found", "recovering", "leasing"} => j.runtime \in EffectIds
  /\ point \in {"found", "recovering"} => j.seen \in Recoverable

LedgerType ==
  /\ generation \in [Sandboxes -> Nat]
  /\ phase \in [Sandboxes -> HeldPhases \cup {"none", "released"}]
  /\ suspended \in [Sandboxes -> BOOLEAN]
EffectsType ==
  /\ effect \in [Sandboxes -> Effect]
  /\ version \in [Sandboxes -> 0 .. MaxEffects]
  /\ creates \in [Sandboxes -> SUBSET EffectIds]
SandboxType ==
  /\ status \in [Sandboxes -> Statuses]
  /\ identity \in [Sandboxes -> 0 .. MaxEffects]
ProcessType ==
  /\ pc \in [Processes -> Points]
  /\ job \in [Processes -> Job]
  /\ \A p \in Processes : Carries(pc[p], job[p])
ProviderType ==
  /\ calls \subseteq Call
  /\ runtime \in [Sandboxes -> [EffectIds -> RuntimeStates]]

\* Every row, process and runtime is one the program can be in, and a process
\* that goes on with a provider answer carries what its next step writes.
TypeOK ==
  /\ maxConcurrency \in Limits
  /\ LedgerType /\ EffectsType /\ SandboxType
  /\ operation \in [Sandboxes -> Operation]
  /\ ProcessType /\ ProviderType
  /\ faults \in 0 .. MaxFaults

Init ==
  /\ maxConcurrency \in Limits
  /\ status = [s \in Sandboxes |-> "absent"]
  /\ identity = [s \in Sandboxes |-> 0]
  /\ generation = [s \in Sandboxes |-> 0]
  /\ phase = [s \in Sandboxes |-> "none"]
  /\ suspended = [s \in Sandboxes |-> FALSE]
  /\ effect = [s \in Sandboxes |-> NoEffect]
  /\ version = [s \in Sandboxes |-> 0]
  /\ creates = [s \in Sandboxes |-> {}]
  /\ operation = [s \in Sandboxes |->
       [state |-> "none", attempts |-> 0, ready |-> FALSE, secret |-> FALSE]]
  /\ pc = [p \in Processes |-> "idle"]
  /\ job = [p \in Processes |-> NoJob]
  /\ calls = {}
  /\ runtime = [s \in Sandboxes |-> [i \in EffectIds |-> "none"]]
  /\ faults = 0
-----------------------------------------------------------------------------
(* The ledger and the effects: what one transaction does to one sandbox. *)

Held(s)   == phase[s] \in HeldPhases
HeldCount == Cardinality({s \in Sandboxes : Held(s)})
\* Variant: the limit itself is still granted.
AvailableAtLimit == HeldCount <= maxConcurrency
Available == HeldCount < maxConcurrency
Settled(s) == effect[s] = NoEffect
Room(s)   == version[s] < MaxEffects

\* A released reservation stays released, and an unsettled effect keeps a
\* reservation held: the two conditions of releaseSandboxCapacity's UPDATE.
Release(s, g, reason) ==
  LET releases == Held(s) /\ generation[s] = g /\ effect'[s] = NoEffect
  IN /\ phase' = [phase EXCEPT ![s] = IF releases THEN "released" ELSE @]
     /\ suspended' = [suspended EXCEPT ![s] =
          @ \/ (releases /\ reason = "provider_suspended")]
     /\ UNCHANGED generation

\* UPDATE ... SET phase WHERE generation = g AND released_at IS NULL.
Mark(s, g, ph) ==
  /\ phase' = [phase EXCEPT ![s] = IF Held(s) /\ generation[s] = g THEN ph ELSE @]
  /\ UNCHANGED <<generation, suspended>>

Reserve(s) ==
  /\ ~Held(s) /\ Available
  /\ phase' = [phase EXCEPT ![s] = "reserved"]
  /\ generation' = [generation EXCEPT ![s] = @ + 1]
  /\ UNCHANGED suspended

NewEffect(s, kind, g, i) ==
  [id |-> version[s] + 1, kind |-> kind, generation |-> g, runtime |-> i,
   dispatched |-> FALSE, acknowledged |-> FALSE]

Begin(s, kind, g, i) ==
  /\ Room(s)
  /\ effect' = [effect EXCEPT ![s] = NewEffect(s, kind, g, i)]
  /\ version' = [version EXCEPT ![s] = @ + 1]
  /\ UNCHANGED creates

Settle(s) ==
  /\ effect' = [effect EXCEPT ![s] = NoEffect]
  /\ UNCHANGED <<version, creates>>

SetStatus(s, st) == status' = [status EXCEPT ![s] = st]

\* completeSandboxOperation with expectedAttempts fails unless this holds.
Completable(s, attempts, states) ==
  operation[s].state \in states /\ operation[s].attempts = attempts
SetOperation(s, st) == operation' = [operation EXCEPT ![s].state = st]
\* failSandboxOperation with expectedAttempts.
FailClaim(s, attempts) ==
  operation' = [operation EXCEPT ![s].state =
    IF Completable(s, attempts, {"running"}) THEN "failed" ELSE @]

-----------------------------------------------------------------------------
(* Processes. *)

Goto(p, point) == pc' = [pc EXCEPT ![p] = point] /\ UNCHANGED job
Take(p, point, j) ==
  pc' = [pc EXCEPT ![p] = point] /\ job' = [job EXCEPT ![p] = j]
Rest(p) == Take(p, "idle", NoJob)
\* The catch block that fails the operation knows the claim and no more.
Fail(p) == Take(p, "failing",
  [NoJob EXCEPT !.sandbox = job[p].sandbox, !.attempts = job[p].attempts])
At(p, point, s) == pc[p] = point /\ job[p].sandbox = s

\* The claim that a finishing transaction checks: the effect row it began or
\* observed is still unsettled.  Ids are never reused, so a generation agrees.
Owns(p) == effect[job[p].sandbox].id = job[p].effect

EffectJob(s, kind, id) ==
  [NoJob EXCEPT !.sandbox = s, !.kind = kind, !.effect = id]
\* The effect row the beginning transaction returns, with its provider_id.
BegunJob(s, kind, i) == [EffectJob(s, kind, version[s] + 1) EXCEPT !.runtime = i]
\* What a GET, a list scan or an answer adds.
Seeing(j, i, state) == [j EXCEPT !.runtime = i, !.seen = state]
ClaimJob(s, role) ==
  [NoJob EXCEPT !.sandbox = s, !.kind = "provision", !.role = role,
                !.attempts = operation[s].attempts + 1]

-----------------------------------------------------------------------------
(* createSandbox: admission and preparation. *)

\* The admission transaction: sandbox row, operation, reservation and the
\* preparation effect commit together or not at all.
AdmitCreate(p, s) ==
  /\ pc[p] = "idle" /\ status[s] = "absent"
  /\ SetStatus(s, "pending") /\ UNCHANGED identity
  /\ Reserve(s)
  /\ \E secret \in BOOLEAN :
       operation' = [operation EXCEPT ![s] =
         [state |-> "queued", attempts |-> 0, ready |-> FALSE, secret |-> secret]]
  /\ Begin(s, "prepare", generation[s] + 1, 0)
  /\ Take(p, "preparing", BegunJob(s, "prepare", 0))
  /\ UNCHANGED <<maxConcurrency, provider, faults>>

\* Publishing the prepared input makes the operation dispatchable; with
\* wait=false the request returns, and credentials forbid wait=false.
FinishPreparation(p, s) ==
  /\ At(p, "preparing", s) /\ Owns(p)
  /\ Settle(s)
  /\ operation' = [operation EXCEPT ![s].ready = @ \/ operation[s].state = "queued"]
  /\ \/ Take(p, "admitted", [NoJob EXCEPT !.sandbox = s])
     \/ ~operation[s].secret /\ Rest(p)
  /\ UNCHANGED <<maxConcurrency, sandbox, ledger, provider, faults>>

AbandonPreparation(p, s) ==
  /\ At(p, "preparing", s) /\ Owns(p)
  /\ Settle(s)
  /\ status' = [status EXCEPT ![s] = IF identity[s] = 0 THEN "error" ELSE @]
  /\ SetOperation(s, "failed")
  /\ Release(s, effect[s].generation, "canceled_before_dispatch")
  /\ Rest(p)
  /\ UNCHANGED <<maxConcurrency, identity, provider, faults>>

-----------------------------------------------------------------------------
(* Claims of the provision operation. *)

Unsettled(s) == effect[s].kind \in {"prepare", "provision"}

Claim(s) ==
  operation' = [operation EXCEPT ![s].state = "running", ![s].attempts = @ + 1]

ClaimById(p, s) ==
  /\ At(p, "admitted", s)
  /\ IF /\ operation[s].state \in {"queued", "failed"}
        /\ operation[s].attempts < MaxAttempts
        /\ operation[s].ready
        /\ ~Unsettled(s)
     THEN Claim(s) /\ Take(p, "starting", ClaimJob(s, "api"))
     ELSE Rest(p) /\ UNCHANGED operation
  /\ UNCHANGED <<maxConcurrency, sandbox, ledger, effects, provider, faults>>

\* Variant: the worker claims without looking at the attempts.
ClaimNextUnbounded(p, s) ==
  /\ pc[p] = "idle"
  /\ operation[s].state = "queued"
  /\ operation[s].ready /\ ~operation[s].secret
  /\ ~Unsettled(s)
  /\ Claim(s) /\ Take(p, "checking", ClaimJob(s, "worker"))
  /\ UNCHANGED <<maxConcurrency, sandbox, ledger, effects, provider, faults>>

ClaimNext(p, s) ==
  /\ pc[p] = "idle"
  /\ operation[s].state = "queued"
  /\ operation[s].ready /\ ~operation[s].secret
  /\ operation[s].attempts < MaxAttempts
  /\ ~Unsettled(s)
  /\ Claim(s) /\ Take(p, "checking", ClaimJob(s, "worker"))
  /\ UNCHANGED <<maxConcurrency, sandbox, ledger, effects, provider, faults>>

\* executeProvisionOperation reads the row outside the claim's transaction.
CheckReplay(p, s) ==
  /\ At(p, "checking", s)
  /\ IF operation[s].secret \/ identity[s] # 0 \/ status[s] = "terminated"
     THEN Fail(p) ELSE Goto(p, "starting")
  /\ UNCHANGED <<database, provider, faults>>

FailOperation(p, s) ==
  /\ At(p, "failing", s)
  /\ FailClaim(s, job[p].attempts)
  /\ Rest(p)
  /\ UNCHANGED <<maxConcurrency, sandbox, ledger, effects, provider, faults>>

-----------------------------------------------------------------------------
(* provisionSandboxRuntime: begin, dispatch, create, acknowledge, persist. *)

\* Variant: the claim is not checked again when the effect begins.
BeginUnclaimedProvision(p, s) ==
  /\ At(p, "starting", s)
  /\ IF phase[s] = "reserved" /\ Settled(s)
     THEN /\ Begin(s, "provision", generation[s], identity[s])
          /\ Take(p, "begun", [job[p] EXCEPT !.effect = version[s] + 1])
     ELSE Fail(p) /\ UNCHANGED effects
  /\ UNCHANGED <<maxConcurrency, sandbox, ledger, operation, provider, faults>>

BeginProvision(p, s) ==
  /\ At(p, "starting", s)
  /\ IF /\ Completable(s, job[p].attempts, {"running"})
        /\ phase[s] = "reserved" /\ Settled(s)
     THEN /\ Begin(s, "provision", generation[s], identity[s])
          /\ Take(p, "begun", [job[p] EXCEPT !.effect = version[s] + 1])
     ELSE Fail(p) /\ UNCHANGED effects
  /\ UNCHANGED <<maxConcurrency, sandbox, ledger, operation, provider, faults>>

\* Workspace preparation or the deployment policy refuses before dispatch.
RefuseInput(p, s) ==
  /\ At(p, "begun", s) /\ job[p].kind = "provision"
  /\ Goto(p, "aborting")
  /\ UNCHANGED <<database, provider, faults>>

\* Variant: the slot of the refused provision is kept.
AbortKeepingSlot(p, s) ==
  /\ At(p, "aborting", s) /\ Owns(p)
  /\ Settle(s)
  /\ Fail(p)
  /\ UNCHANGED <<maxConcurrency, sandbox, ledger, operation, provider, faults>>

\* catch without dispatch: settle the effect and give the slot back.
AbortProvision(p, s) ==
  /\ At(p, "aborting", s) /\ Owns(p)
  /\ Settle(s)
  /\ Release(s, effect[s].generation, "canceled_before_dispatch")
  /\ Fail(p)
  /\ UNCHANGED <<maxConcurrency, sandbox, operation, provider, faults>>

MarkDispatched(s) ==
  /\ effect' = [effect EXCEPT ![s].dispatched = TRUE]
  /\ creates' = [creates EXCEPT ![s] =
       IF effect[s].kind = "provision" THEN @ \cup {effect[s].id} ELSE @]
  /\ UNCHANGED version

Dispatch(p, s) ==
  /\ At(p, "begun", s) /\ Owns(p) /\ ~effect[s].dispatched
  /\ MarkDispatched(s)
  /\ calls' = calls \cup {[sandbox |-> s, kind |-> job[p].kind,
                           effect |-> job[p].effect, runtime |-> Target(job[p])]}
  /\ Goto(p, "calling")
  /\ UNCHANGED <<maxConcurrency, sandbox, ledger, operation, runtime, faults>>

\* The dispatch mark commits and its acknowledgement is lost, so no call is made.
LoseDispatchReply(p, s) ==
  /\ faults < MaxFaults
  /\ At(p, "begun", s) /\ Owns(p) /\ ~effect[s].dispatched
  /\ MarkDispatched(s)
  /\ Goto(p, IF job[p].kind = "provision" THEN "aborting" ELSE "doubtful")
  /\ faults' = faults + 1
  /\ UNCHANGED <<maxConcurrency, sandbox, ledger, operation, provider>>

\* The caller stops waiting; the provider may still perform the request.
TimeOut(p, s) ==
  /\ At(p, "calling", s)
  /\ Goto(p, "doubtful")
  /\ UNCHANGED <<database, provider, faults>>

Acknowledge(p, s) ==
  /\ At(p, "returned", s) /\ Owns(p)
  /\ effect' = [effect EXCEPT ![s].acknowledged = TRUE,
       ![s].runtime = IF job[p].kind = "provision" THEN job[p].runtime ELSE @]
  /\ Goto(p, "acknowledged")
  /\ UNCHANGED <<maxConcurrency, sandbox, ledger, version, creates, operation,
                 provider, faults>>

Persist(p, s) ==
  /\ At(p, "acknowledged", s) /\ job[p].kind = "provision" /\ Owns(p)
  /\ IF status[s] = "pending" /\ identity[s] = 0
     THEN /\ identity' = [identity EXCEPT ![s] = job[p].runtime]
          /\ SetStatus(s, job[p].seen)
          /\ Goto(p, "persisted")
     ELSE Goto(p, "doubtful") /\ UNCHANGED sandbox
  /\ UNCHANGED <<maxConcurrency, ledger, effects, operation, provider, faults>>

CompleteProvision(p, s) ==
  /\ At(p, "persisted", s) /\ Owns(p)
  /\ IF Completable(s, job[p].attempts, {"running"})
     THEN /\ Settle(s)
          /\ Mark(s, effect[s].generation,
                   IF job[p].seen = "running" THEN "active" ELSE "reserved")
          /\ SetOperation(s, "succeeded")
          /\ Rest(p)
     ELSE /\ IF job[p].role = "worker" THEN Fail(p) ELSE Rest(p)
          /\ UNCHANGED <<ledger, effects, operation>>
  /\ UNCHANGED <<maxConcurrency, sandbox, provider, faults>>

\* Attaching credentials failed: the provision effect is replaced by a delete
\* effect in one transaction, and the request goes on to execute it.
RollbackCredentialCreate(p, s) ==
  /\ At(p, "persisted", s) /\ Owns(p) /\ operation[s].secret /\ Held(s)
  /\ SetStatus(s, "error") /\ UNCHANGED identity
  /\ SetOperation(s, "failed")
  /\ Begin(s, "delete", generation[s], job[p].runtime)
  /\ Mark(s, generation[s], "releasing")
  /\ Take(p, "begun", BegunJob(s, "delete", job[p].runtime))
  /\ UNCHANGED <<maxConcurrency, provider, faults>>

MarkUncertain(p, s) ==
  /\ At(p, "doubtful", s)
  /\ IF Owns(p)
     THEN /\ effect' = [effect EXCEPT ![s].runtime =
               IF job[p].kind = "provision" /\ job[p].runtime # 0
               THEN job[p].runtime ELSE @]
          /\ phase' = [phase EXCEPT ![s] =
               IF Held(s) /\ generation[s] = effect[s].generation
               THEN "uncertain" ELSE @]
     ELSE UNCHANGED <<effect, phase>>
  /\ IF job[p].kind = "provision" THEN Fail(p) ELSE Rest(p)
  /\ UNCHANGED <<maxConcurrency, sandbox, generation, suspended, version, creates,
                 operation, provider, faults>>

\* The effect was settled by somebody else: every guarded write of the process
\* updates no row and throws, and its catch block runs.
Fenced(p, s) ==
  /\ job[p].sandbox = s /\ ~Owns(p)
  /\ \/ /\ pc[p] = "begun"
        /\ Goto(p, IF job[p].kind = "provision" THEN "aborting" ELSE "doubtful")
     \/ pc[p] \in {"returned", "acknowledged"} /\ Goto(p, "doubtful")
     \/ pc[p] = "persisted" /\ job[p].role = "worker" /\ Fail(p)
     \/ pc[p] = "persisted" /\ job[p].role = "api" /\ Rest(p)
     \/ pc[p] = "aborting" /\ Fail(p)
     \/ pc[p] \in {"preparing", "observed", "found", "recovering"} /\ Rest(p)
  /\ UNCHANGED <<database, provider, faults>>

-----------------------------------------------------------------------------
(* changeSandboxLifecycle: pause and resume. *)

\* Variant: an effect is begun over one that is not settled.
BeginPauseUnsettled(p, s) ==
  /\ pc[p] = "idle"
  /\ status[s] = "running" /\ identity[s] # 0 /\ Held(s)
  /\ Begin(s, "pause", generation[s], identity[s])
  /\ SetStatus(s, "pausing") /\ UNCHANGED identity
  /\ Take(p, "begun", BegunJob(s, "pause", identity[s]))
  /\ UNCHANGED <<maxConcurrency, ledger, operation, provider, faults>>

BeginPause(p, s) ==
  /\ pc[p] = "idle"
  /\ status[s] = "running" /\ identity[s] # 0 /\ Settled(s) /\ Held(s)
  /\ Begin(s, "pause", generation[s], identity[s])
  /\ SetStatus(s, "pausing") /\ UNCHANGED identity
  /\ Take(p, "begun", BegunJob(s, "pause", identity[s]))
  /\ UNCHANGED <<maxConcurrency, ledger, operation, provider, faults>>

\* Variant: a suspended sandbox resumes under the reservation it gave back.
ResumeWithoutAdmission(p, s) ==
  /\ pc[p] = "idle"
  /\ status[s] = "paused" /\ identity[s] # 0 /\ Settled(s)
  /\ Mark(s, generation[s], "reserved")
  /\ Begin(s, "resume", generation[s], identity[s])
  /\ SetStatus(s, "resuming") /\ UNCHANGED identity
  /\ Take(p, "begun", BegunJob(s, "resume", identity[s]))
  /\ UNCHANGED <<maxConcurrency, operation, provider, faults>>

\* A provider without a suspension guarantee kept its slot; otherwise a new
\* generation is admitted against the current limit.
BeginResume(p, s) ==
  /\ pc[p] = "idle"
  /\ status[s] = "paused" /\ identity[s] # 0 /\ Settled(s)
  /\ IF Held(s) THEN Mark(s, generation[s], "reserved") ELSE Reserve(s)
  /\ Begin(s, "resume", generation'[s], identity[s])
  /\ SetStatus(s, "resuming") /\ UNCHANGED identity
  /\ Take(p, "begun", BegunJob(s, "resume", identity[s]))
  /\ UNCHANGED <<maxConcurrency, operation, provider, faults>>

\* Variant: an accepted deletion counts as absence.
EvidenceByAcceptance(kind, state) ==
  CASE kind = "pause"  -> state = "paused"
    [] kind = "resume" -> state = "running"
    [] kind = "delete" -> AuthoritativeLifecycle
    [] OTHER -> FALSE

\* What the provider must be seen to report before an effect is finished.
Evidence(kind, state) ==
  CASE kind = "pause"  -> state = "paused"
    [] kind = "resume" -> state = "running"
    [] kind = "delete" -> AuthoritativeLifecycle /\ state = "gone"
    [] OTHER -> FALSE

\* The caller's own poll after the acknowledgement: evidence, an end without it,
\* or a GET that throws into the caller's catch block.
AwaitState(p, s) ==
  /\ At(p, "acknowledged", s) /\ job[p].kind # "provision"
  /\ \/ /\ Evidence(job[p].kind, runtime[s][job[p].runtime])
        /\ Take(p, "observed", EffectJob(s, job[p].kind, job[p].effect))
     \/ Rest(p)
     \/ Take(p, "doubtful", EffectJob(s, job[p].kind, job[p].effect))
  /\ UNCHANGED <<database, provider, faults>>

\* Variant: every pause gives the slot back.
FinishLifecycleReleasing(p, s) ==
  /\ At(p, "observed", s) /\ job[p].kind \in {"pause", "resume"} /\ Owns(p)
  /\ Settle(s)
  /\ SetStatus(s, IF job[p].kind = "pause" THEN "paused" ELSE "running")
  /\ UNCHANGED identity
  /\ IF job[p].kind = "pause"
     THEN Release(s, effect[s].generation, "provider_suspended")
     ELSE Mark(s, effect[s].generation, "active")
  /\ Rest(p)
  /\ UNCHANGED <<maxConcurrency, operation, provider, faults>>

\* Variant: completion does not look whether its effect is still unsettled.
FinishLifecycleLate(p, s) ==
  /\ At(p, "observed", s) /\ job[p].kind \in {"pause", "resume"}
  /\ Settle(s)
  /\ SetStatus(s, IF job[p].kind = "pause" THEN "paused" ELSE "running")
  /\ UNCHANGED identity
  /\ IF job[p].kind = "pause" /\ PauseStopsExecution
     THEN Release(s, effect[s].generation, "provider_suspended")
     ELSE Mark(s, effect[s].generation, "active")
  /\ Rest(p)
  /\ UNCHANGED <<maxConcurrency, operation, provider, faults>>

FinishLifecycle(p, s) ==
  /\ At(p, "observed", s) /\ job[p].kind \in {"pause", "resume"} /\ Owns(p)
  /\ Settle(s)
  /\ SetStatus(s, IF job[p].kind = "pause" THEN "paused" ELSE "running")
  /\ UNCHANGED identity
  /\ IF job[p].kind = "pause" /\ PauseStopsExecution
     THEN Release(s, effect[s].generation, "provider_suspended")
     ELSE Mark(s, effect[s].generation, "active")
  /\ Rest(p)
  /\ UNCHANGED <<maxConcurrency, operation, provider, faults>>

-----------------------------------------------------------------------------
(* requestSandboxTermination and executeRuntimeDeletion. *)

\* Nothing was dispatched: cancel the intent, terminate and give the slot back.
CancelBeforeDispatch(s) ==
  /\ Held(s) /\ identity[s] = 0
  /\ effect[s].kind # "delete" /\ ~effect[s].dispatched
  /\ Settle(s)
  /\ operation' = [operation EXCEPT ![s].state =
       IF @ \in {"queued", "running"} THEN "canceled" ELSE @]
  /\ SetStatus(s, "terminated") /\ UNCHANGED identity
  /\ Release(s, generation[s], "canceled_before_dispatch")
  /\ UNCHANGED <<maxConcurrency, processes, provider, faults>>

\* A paused sandbox is deleted under its released reservation.
RequestDeletion(p, s) ==
  /\ pc[p] = "idle"
  /\ Held(s) \/ status[s] = "paused"
  /\ identity[s] # 0 /\ Settled(s)
  /\ Begin(s, "delete", generation[s], identity[s])
  /\ Mark(s, generation[s], "releasing")
  /\ Take(p, "begun", BegunJob(s, "delete", identity[s]))
  /\ UNCHANGED <<maxConcurrency, sandbox, operation, provider, faults>>

FinishDeletion(p, s) ==
  /\ At(p, "observed", s) /\ job[p].kind = "delete" /\ Owns(p)
  /\ Settle(s)
  /\ SetStatus(s, "terminated") /\ UNCHANGED identity
  /\ Release(s, effect[s].generation, "provider_absent")
  /\ Rest(p)
  /\ UNCHANGED <<maxConcurrency, operation, provider, faults>>

-----------------------------------------------------------------------------
(* reconcileSandboxCapacity: the scheduler's recovery of interrupted work. *)

\* Variant: recovery cancels an intent that was dispatched.
CancelDispatched(s) ==
  /\ effect[s].kind \in {"prepare", "provision"}
  /\ Settle(s)
  /\ SetOperation(s, "failed")
  /\ SetStatus(s, "terminated") /\ UNCHANGED identity
  /\ Release(s, effect[s].generation, "canceled_before_dispatch")
  /\ UNCHANGED <<maxConcurrency, processes, provider, faults>>

\* A process died, or is slow, between begin and dispatch.
CancelUndispatched(s) ==
  /\ ~Settled(s) /\ ~effect[s].dispatched
  /\ Settle(s)
  /\ UNCHANGED identity
  /\ LET kind == effect[s].kind
         g == effect[s].generation
     IN \/ /\ kind \in {"prepare", "provision"}
           /\ SetOperation(s, "failed")
           /\ SetStatus(s, "terminated")
           /\ Release(s, g, "canceled_before_dispatch")
        \/ /\ kind = "resume"
           /\ SetStatus(s, "paused")
           /\ IF suspended[s] THEN Release(s, g, "canceled_before_dispatch")
                              ELSE Mark(s, generation[s], "active")
           /\ UNCHANGED operation
        \/ /\ kind \in {"pause", "delete"}
           /\ status' = [status EXCEPT ![s] = IF kind = "pause" THEN "running" ELSE @]
           /\ Mark(s, generation[s], "active")
           /\ UNCHANGED operation
  /\ UNCHANGED <<maxConcurrency, processes, provider, faults>>

\* Variant: a create with credentials is left to the request that is gone.
ReconcileFailedOnly(s) ==
  /\ Settled(s)
  /\ operation[s].state = "failed"
  /\ CancelBeforeDispatch(s)

\* A held reservation without effect or identity whose operation cannot be
\* replayed is terminated as a user's stop would terminate it.
ReconcileAbandoned(s) ==
  /\ Settled(s)
  /\ operation[s].state = "failed" \/ operation[s].secret
  /\ CancelBeforeDispatch(s)

\* The scheduler picks reservations that are held, or released under an
\* unsettled effect.
Watched(s) == Held(s) \/ ~Settled(s)

\* Variant: only an acknowledged request is looked at again.
ObserveAcknowledged(p, s) ==
  /\ pc[p] = "idle" /\ Watched(s)
  /\ effect[s].dispatched /\ effect[s].acknowledged /\ effect[s].runtime # 0
  /\ effect[s].kind = "delete" \/ AuthoritativeLifecycle
  /\ Evidence(effect[s].kind, runtime[s][effect[s].runtime])
  /\ Take(p, "observed", EffectJob(s, effect[s].kind, effect[s].id))
  /\ UNCHANGED <<database, provider, faults>>

ObserveEffect(p, s) ==
  /\ pc[p] = "idle" /\ Watched(s)
  /\ effect[s].dispatched /\ effect[s].runtime # 0
  /\ effect[s].kind = "delete" \/ AuthoritativeLifecycle
  /\ Evidence(effect[s].kind, runtime[s][effect[s].runtime])
  /\ Take(p, "observed", EffectJob(s, effect[s].kind, effect[s].id))
  /\ UNCHANGED <<database, provider, faults>>

\* A GET or a list item reports the runtime's state, or the state "failed", or a
\* word the normalizer does not know.  "gone" is an empty answer or a terminal
\* word; without the capability either may be given for a runtime that lives.
Reports(s, i) ==
  {runtime[s][i], "error", "unknown"}
    \cup (IF AuthoritativeLifecycle THEN {} ELSE {"gone"})

\* Recovery takes a word the normalizer does not know for "pending".
Known(seen) == IF seen \in Recoverable THEN seen ELSE "pending"

\* recoverProvision: a runtime whose metadata names this very dispatch.
FindRuntime(p, s) ==
  /\ pc[p] = "idle" /\ Watched(s)
  /\ effect[s].kind = "provision" /\ effect[s].dispatched /\ effect[s].runtime = 0
  /\ \E i \in EffectIds :
        /\ i = effect[s].id /\ runtime[s][i] # "none"
        /\ \E seen \in Reports(s, i) :
             Take(p, "found", Seeing(EffectJob(s, "provision", i), i, Known(seen)))
  /\ UNCHANGED <<database, provider, faults>>

RecoverAcknowledge(p, s) ==
  /\ At(p, "found", s) /\ Owns(p)
  /\ effect' = [effect EXCEPT ![s].acknowledged = TRUE, ![s].runtime = job[p].runtime]
  /\ Goto(p, "recovering")
  /\ UNCHANGED <<maxConcurrency, sandbox, ledger, version, creates, operation,
                 provider, faults>>

\* With an identity on the effect, one GET.  An empty answer about a creation
\* that was not acknowledged proves nothing and ends the recovery.
GetRuntime(p, s) ==
  /\ pc[p] = "idle" /\ Watched(s)
  /\ effect[s].kind = "provision" /\ effect[s].dispatched /\ effect[s].runtime # 0
  /\ \E seen \in Reports(s, effect[s].runtime) :
       Take(p, "recovering",
            Seeing(EffectJob(s, "provision", effect[s].id), effect[s].runtime, Known(seen)))
  /\ UNCHANGED <<database, provider, faults>>

\* The created runtime disappeared before provisioning completed.  Without the
\* capability an empty answer is no absence, and the recovery ends.
RecoverAbsent(p, s) ==
  /\ At(p, "recovering", s) /\ Owns(p)
  /\ job[p].seen = "gone"
  /\ IF AuthoritativeLifecycle
     THEN /\ Settle(s)
          /\ SetStatus(s, "terminated")
          /\ Release(s, effect[s].generation, "provider_absent")
          /\ SetOperation(s, "failed")
     ELSE UNCHANGED <<effects, status, ledger, operation>>
  /\ Rest(p)
  /\ UNCHANGED <<maxConcurrency, identity, provider, faults>>

\* The status an adopted runtime gives its sandbox: a terminal word that is no
\* authoritative absence is adopted like any other.
Adopted(seen) == IF seen = "gone" THEN "terminated" ELSE seen

\* Adopt the runtime, or, when the create carried credentials, save its
\* identity and go on to delete it.
RecoverRuntime(p, s) ==
  /\ At(p, "recovering", s) /\ Owns(p)
  /\ job[p].seen = "gone" => ~AuthoritativeLifecycle
  /\ LET i == job[p].runtime
         adoptable == identity[s] \in {0, i}
     IN \/ /\ adoptable /\ operation[s].secret
           /\ identity' = [identity EXCEPT ![s] = i]
           /\ SetStatus(s, "error")
           /\ SetOperation(s, "failed")
           /\ Held(s) /\ Begin(s, "delete", generation[s], i)
           /\ Mark(s, generation[s], "releasing")
           /\ Take(p, "begun", BegunJob(s, "delete", i))
        \/ /\ adoptable /\ ~operation[s].secret
           /\ operation[s].state \in {"running", "failed"}
           /\ identity' = [identity EXCEPT ![s] = i]
           /\ SetStatus(s, Adopted(job[p].seen))
           /\ SetOperation(s, "succeeded")
           /\ Settle(s)
           /\ Mark(s, effect[s].generation,
                   IF job[p].seen = "running" THEN "active" ELSE "reserved")
           /\ Rest(p)
        \/ /\ \/ ~adoptable
              \/ ~operation[s].secret /\ operation[s].state \notin {"running", "failed"}
           /\ Rest(p)
           /\ UNCHANGED <<sandbox, operation, effects, ledger>>
  /\ UNCHANGED <<maxConcurrency, provider, faults>>

-----------------------------------------------------------------------------
(* reconcileSandboxLease: observe outside the lock, apply if nothing began. *)

LeaseJob(s) == [EffectJob(s, "lease", version[s]) EXCEPT !.generation = generation[s]]

ObserveLease(p, s) ==
  /\ pc[p] = "idle"
  /\ identity[s] # 0 /\ Settled(s) /\ Held(s)
  /\ \E seen \in Reports(s, identity[s]) :
       Take(p, "leasing", Seeing(LeaseJob(s), identity[s], seen))
  /\ UNCHANGED <<database, provider, faults>>

\* Variant: the reservation and the effects begun since the GET are not looked at.
UnfencedByIdentity(p, s) == Settled(s) /\ identity[s] = job[p].runtime

\* readRuntimeFence: no effect is unsettled and none has begun since the GET.
Unfenced(p, s) ==
  /\ Settled(s) /\ version[s] = job[p].effect
  /\ identity[s] = job[p].runtime
  /\ Held(s) /\ generation[s] = job[p].generation

LeasePhase(state) ==
  CASE state \in {"running", "paused"} -> "active"
    [] state = "error" -> "uncertain"
    [] OTHER -> "reserved"

LeaseFenced(p, s) ==
  /\ At(p, "leasing", s) /\ ~Unfenced(p, s)
  /\ Rest(p)
  /\ UNCHANGED <<database, provider, faults>>

\* Variant: absence terminates the sandbox and forgets its slot.
LeaseAbsentKeepingSlot(p, s) ==
  /\ At(p, "leasing", s) /\ Unfenced(p, s)
  /\ AuthoritativeLifecycle /\ job[p].seen = "gone"
  /\ SetStatus(s, "terminated") /\ UNCHANGED <<identity, effects>>
  /\ Mark(s, job[p].generation, "active")
  /\ Rest(p)
  /\ UNCHANGED <<maxConcurrency, operation, provider, faults>>

LeaseAbsent(p, s) ==
  /\ At(p, "leasing", s) /\ Unfenced(p, s)
  /\ AuthoritativeLifecycle /\ job[p].seen = "gone"
  /\ SetStatus(s, "terminated") /\ UNCHANGED <<identity, effects>>
  /\ Release(s, job[p].generation, "provider_absent")
  /\ Rest(p)
  /\ UNCHANGED <<maxConcurrency, operation, provider, faults>>

LeaseUnknown(p, s) ==
  /\ At(p, "leasing", s) /\ Unfenced(p, s)
  /\ \/ job[p].seen = "unknown"
     \/ job[p].seen = "gone" /\ ~AuthoritativeLifecycle
  /\ Mark(s, generation[s], "uncertain")
  /\ Rest(p)
  /\ UNCHANGED <<maxConcurrency, sandbox, effects, operation, provider, faults>>

\* A due TTL continues into the deletion of a runtime that is still alive.
LeaseObserved(p, s) ==
  LET seen == job[p].seen
      suspends == seen = "paused" /\ PauseStopsExecution
  IN
  /\ At(p, "leasing", s) /\ Unfenced(p, s)
  /\ seen \in LiveStates \cup {"error"}
  /\ SetStatus(s, seen) /\ UNCHANGED identity
  /\ \/ /\ suspends
        /\ UNCHANGED effects
        /\ Release(s, job[p].generation, "provider_suspended")
        /\ Rest(p)
     \/ /\ ~suspends
        /\ UNCHANGED effects
        /\ Mark(s, generation[s], LeasePhase(seen))
        /\ Rest(p)
     \/ /\ seen \in {"running", "pending"}
        /\ Begin(s, "delete", generation[s], job[p].runtime)
        /\ Mark(s, generation[s], "releasing")
        /\ Take(p, "begun", BegunJob(s, "delete", job[p].runtime))
  /\ UNCHANGED <<maxConcurrency, operation, provider, faults>>

-----------------------------------------------------------------------------
(* processSandboxOperationQueue: provision operations whose worker is gone. *)

ClaimStale(p, s) ==
  /\ pc[p] = "idle"
  /\ operation[s].state = "running" /\ ~Unsettled(s)
  /\ Take(p, "stale", [NoJob EXCEPT !.sandbox = s, !.kind = "provision",
                         !.attempts = operation[s].attempts])
  /\ UNCHANGED <<database, provider, faults>>

\* Requeue only what was never dispatched; an unsettled effect is left to the
\* capacity reconciler.
ReconcileStale(p, s) ==
  /\ At(p, "stale", s)
  /\ LET replayable == ~operation[s].secret /\ identity[s] = 0 /\ creates[s] = {}
     IN operation' = [operation EXCEPT ![s].state =
          IF ~Settled(s) \/ ~Completable(s, job[p].attempts, {"running"}) THEN @
          ELSE IF replayable THEN "queued" ELSE "failed"]
  /\ Rest(p)
  /\ UNCHANGED <<maxConcurrency, sandbox, ledger, effects, provider, faults>>

\* The reconciling transaction failed: its catch block fails the operation by
\* id, whatever state and claim it has by now.
ReconcileStaleError(p, s) ==
  /\ StaleReconcileFails /\ faults < MaxFaults
  /\ At(p, "stale", s)
  /\ SetOperation(s, "failed")
  /\ Rest(p)
  /\ faults' = faults + 1
  /\ UNCHANGED <<maxConcurrency, sandbox, ledger, effects, provider>>

-----------------------------------------------------------------------------
(* The provider. *)

Waits(p, c) ==
  At(p, "calling", c.sandbox) /\ job[p].kind = c.kind /\ job[p].effect = c.effect

Answer(c, point, state) ==
  /\ calls' = calls \ {c}
  /\ pc' = [p \in Processes |-> IF Waits(p, c) THEN point ELSE pc[p]]
  /\ job' = [p \in Processes |->
       IF Waits(p, c) /\ point = "returned"
       THEN Seeing(job[p], c.runtime, state) ELSE job[p]]

\* A create makes the runtime its effect names.  Only a running runtime pauses
\* and only a paused one resumes; either may be accepted before it is done, and
\* a delete may be accepted before anything stops.
Result(kind, state) ==
  CASE kind = "provision" -> {"pending", "running"}
    [] kind = "pause"  /\ state = "running" -> {"pausing", "paused"}
    [] kind = "resume" /\ state = "paused"  -> {"resuming", "running"}
    [] kind = "delete" -> {"gone", state}
    [] OTHER -> {}

Perform(c) ==
  /\ c \in calls
  /\ \E state \in Result(c.kind, runtime[c.sandbox][c.runtime]) :
       /\ runtime' = [runtime EXCEPT ![c.sandbox][c.runtime] = state]
       /\ Answer(c, "returned", state)
  /\ UNCHANGED <<database, faults>>

Refuse(c) ==
  /\ c \in calls
  /\ Answer(c, "doubtful", "unknown")
  /\ UNCHANGED <<database, runtime, faults>>

\* An accepted create, pause or resume completes.
RuntimeSettles(s, i) ==
  /\ runtime[s][i] \in {"pending", "pausing", "resuming"}
  /\ runtime' = [runtime EXCEPT ![s][i] = IF @ = "pausing" THEN "paused" ELSE "running"]
  /\ UNCHANGED <<database, calls, processes, faults>>

\* Native expiry, a crash of the workload, or an operator.
RuntimeEnds(s, i) ==
  /\ runtime[s][i] \in LiveStates
  /\ runtime' = [runtime EXCEPT ![s][i] = "gone"]
  /\ UNCHANGED <<database, calls, processes, faults>>

-----------------------------------------------------------------------------
(* Administration and failure of processes. *)

SetLimit(n) ==
  /\ n # maxConcurrency
  /\ maxConcurrency' = n
  /\ UNCHANGED <<ledger, effects, sandbox, operation, provider, processes, faults>>

Crash(p) ==
  /\ faults < MaxFaults /\ pc[p] # "idle"
  /\ Rest(p)
  /\ faults' = faults + 1
  /\ UNCHANGED <<database, provider>>

-----------------------------------------------------------------------------
Request(p, s) ==
  \/ AdmitCreate(p, s) \/ BeginPause(p, s) \/ BeginResume(p, s)
  \/ RequestDeletion(p, s) \/ CancelBeforeDispatch(s)

Create(p, s) ==
  \/ FinishPreparation(p, s) \/ AbandonPreparation(p, s) \/ ClaimById(p, s)
  \/ CheckReplay(p, s) \/ FailOperation(p, s) \/ BeginProvision(p, s)
  \/ RefuseInput(p, s) \/ AbortProvision(p, s)
  \/ Persist(p, s) \/ CompleteProvision(p, s) \/ RollbackCredentialCreate(p, s)

Carry(p, s) ==
  \/ Dispatch(p, s) \/ LoseDispatchReply(p, s) \/ TimeOut(p, s)
  \/ Acknowledge(p, s) \/ AwaitState(p, s) \/ MarkUncertain(p, s)
  \/ Fenced(p, s) \/ FinishLifecycle(p, s) \/ FinishDeletion(p, s)

Work(p, s) ==
  \/ ClaimNext(p, s) \/ ClaimStale(p, s)
  \/ ReconcileStale(p, s) \/ ReconcileStaleError(p, s)

Reconcile(p, s) ==
  \/ CancelUndispatched(s) \/ ReconcileAbandoned(s)
  \/ ObserveEffect(p, s) \/ FindRuntime(p, s) \/ GetRuntime(p, s)
  \/ RecoverAcknowledge(p, s) \/ RecoverAbsent(p, s) \/ RecoverRuntime(p, s)
  \/ ObserveLease(p, s) \/ LeaseFenced(p, s) \/ LeaseAbsent(p, s)
  \/ LeaseUnknown(p, s) \/ LeaseObserved(p, s)

Provider ==
  \/ \E c \in calls : Perform(c) \/ Refuse(c)
  \/ \E s \in Sandboxes, i \in EffectIds : RuntimeSettles(s, i) \/ RuntimeEnds(s, i)

Next ==
  \/ \E p \in Processes, s \in Sandboxes :
       Request(p, s) \/ Create(p, s) \/ Carry(p, s) \/ Work(p, s) \/ Reconcile(p, s)
  \/ Provider
  \/ \E n \in Limits : SetLimit(n)
  \/ \E p \in Processes : Crash(p)

Spec == Init /\ [][Next]_vars

-----------------------------------------------------------------------------
(* Safety. *)

Executing(state) ==
  state \in LiveStates /\ (state = "paused" => ~PauseStopsExecution)

\* Execution exists, or a request that can still start it is with the provider.
MayExecute(s) ==
  \/ \E i \in EffectIds : Executing(runtime[s][i])
  \/ \E c \in calls : c.sandbox = s /\ c.kind \in {"provision", "resume"}

\* Execution never outlives its capacity hold: whatever crashes, times out or
\* is answered late, a runtime that executes, and a delivered create or resume,
\* are covered by an unreleased reservation.
HeldWhileExecuting == \A s \in Sandboxes : MayExecute(s) => Held(s)

\* A persisted create intent is dispatched to the provider at most once, over
\* all claims, retries, stale adoptions and replicas.
AtMostOneCreate == \A s \in Sandboxes : Cardinality(creates[s]) <= 1

\* No runtime is orphaned: one that is alive is either the sandbox's saved
\* identity or the product of the unsettled provision effect that recovery
\* looks for by its metadata.
NoOrphanRuntime ==
  \A s \in Sandboxes : \A i \in EffectIds :
    runtime[s][i] \in LiveStates =>
      \/ identity[s] = i
      \/ effect[s].kind = "provision" /\ effect[s].dispatched /\ effect[s].id = i

\* Where absence is authoritative, a terminated sandbox is finished: no slot, no
\* unsettled effect, no execution.  (Without it, recovery adopts a runtime that
\* is reported terminated and keeps its slot.)
TerminatedIsClean ==
  \A s \in Sandboxes : status[s] = "terminated" =>
    ~Held(s) /\ Settled(s) /\ ~MayExecute(s)

\* A reservation between effects without a runtime belongs to a create no request
\* of which was ever dispatched, whatever crashed: to replay it, to fail it or to
\* stop it loses no runtime.  (It does not say that somebody comes back for the
\* slot: see Exhausted.)
WaitingCreateIsUndispatched ==
  \A s \in Sandboxes : Held(s) /\ Settled(s) /\ identity[s] = 0 =>
    /\ creates[s] = {}
    /\ operation[s].ready
    /\ operation[s].state \in {"queued", "running", "failed"}

(* Steps. *)

\* Where absence is authoritative, no late completion, retry or observation
\* revives a terminated sandbox.
TerminatedIsFinal ==
  [][\A s \in Sandboxes : status[s] = "terminated" =>
       status'[s] = "terminated" /\ ~Held(s)' /\ effect'[s] = NoEffect]_vars

\* A process whose effect was settled by somebody else changes no row of the
\* sandbox, its reservation or its effects when it goes on.
StaleResultIsIgnored ==
  [][\A p \in Processes : \A s \in Sandboxes :
       /\ pc[p] \in {"begun", "returned", "acknowledged", "persisted", "observed",
                      "aborting", "doubtful", "found", "recovering", "preparing"}
       /\ job[p].sandbox = s /\ effect[s].id # job[p].effect /\ pc'[p] # pc[p]
       => UNCHANGED <<sandbox, ledger, effects>>]_vars

(* What the documentation and the tests say, and the code does not do. *)

\* docs/exec-plans/active/organization-capacity-admission.md:106 "Pending,
\* provisioning, running or idle sandbox: Hold one slot."  A provision that is
\* refused before dispatch gives the slot back and leaves the sandbox pending.
PendingHoldsSlot == \A s \in Sandboxes : status[s] = "pending" => Held(s)

\* docs/lifecycle.md:17 "error: next states pending, terminated".  A credential
\* create that failed and is waiting for its cleanup is set to running again
\* when the cleanup is interrupted before its dispatch.
FailedCreateStaysFailed ==
  [][\A s \in Sandboxes : status[s] = "error" /\ operation[s].state = "failed" =>
       status'[s] \in {"error", "pending", "terminated"}]_vars

-----------------------------------------------------------------------------
(* Fairness and liveness. *)

\* A process that is not idle goes on: every await is bounded by a timeout.
Proceed(p, s) ==
  /\ pc[p] # "idle"
  /\ \/ Create(p, s) \/ Carry(p, s) \/ ReconcileStale(p, s)
     \/ RecoverAcknowledge(p, s) \/ RecoverAbsent(p, s) \/ RecoverRuntime(p, s)
     \/ LeaseFenced(p, s) \/ LeaseAbsent(p, s) \/ LeaseUnknown(p, s)
     \/ LeaseObserved(p, s)

\* A GET that the provider answers with the state of the runtime.
ObserveTruthfully(p, s) ==
  ObserveLease(p, s) /\ job'[p].seen = runtime[s][identity[s]]

\* The scheduler ticks for ever and its scans cover every due row, so a scan
\* that keeps finding work does it although other work interrupts it.
FairSpec ==
  /\ Spec
  /\ \A p \in Processes, s \in Sandboxes : WF_vars(Proceed(p, s))
  /\ \A s \in Sandboxes :
       /\ WF_vars(CancelUndispatched(s)) /\ WF_vars(ReconcileAbandoned(s))
       /\ SF_vars(\E p \in Processes : ClaimNext(p, s))
       /\ SF_vars(\E p \in Processes : ClaimStale(p, s))
       /\ SF_vars(\E p \in Processes : ObserveEffect(p, s))
       /\ SF_vars(\E p \in Processes : ObserveTruthfully(p, s))

Gone(s) == identity[s] # 0 /\ runtime[s][identity[s]] = "gone"

\* A dispatched deletion whose runtime is gone gives its slot back, even if the
\* process that asked for it crashed or lost the provider's answer.
DeletionReleasesSlot ==
  \A s \in Sandboxes :
    (effect[s].kind = "delete" /\ effect[s].dispatched /\ Gone(s)) ~> ~Held(s)

\* A runtime that ends by itself does not keep the slot: its absence is noticed
\* unless another effect has begun on the sandbox.
DeadRuntimeReleasesSlot ==
  \A s \in Sandboxes : (Gone(s) /\ Settled(s)) ~> (~Held(s) \/ ~Settled(s))

\* An accepted create is dispatched or gives its slot back, whoever crashes.
\* The exception is what the code does not settle: an operation requeued with
\* no attempt left, which nothing claims, fails or cancels any more.
Exhausted(s) ==
  operation[s].state = "queued" /\ operation[s].attempts = MaxAttempts

UndispatchedCreateIsDecided ==
  \A s \in Sandboxes : Held(s) ~> (~Held(s) \/ creates[s] # {} \/ Exhausted(s))

-----------------------------------------------------------------------------
(* The abstract specification that this module implements. *)
Slots == INSTANCE ExecutionSlots WITH
  limit <- maxConcurrency,
  held <- {s \in Sandboxes : Held(s)},
  executing <- {s \in Sandboxes : MayExecute(s)}

\* The protocol implements ExecutionSlots: every step grants, starts, stops or
\* gives back at most one slot, never above the limit in force at that commit.
ImplementsSlots == Slots!Spec
=============================================================================
