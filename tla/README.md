# TLA+ models of h-sandbox

h-sandbox runs remote sandboxes for organizations.  Its API server keeps the
state of the system in PostgreSQL and lets a runtime provider (OpenSandbox)
execute the sandboxes.  The hard part of the code is the control plane in
`apps/api/src`: HTTP requests, operation workers and scheduler replicas act on
the same rows, call a provider whose answers may be late or lost, and may die
between any two database transactions.  This directory holds TLA+ models of
that control plane, the TLC configurations that check them, and proofs that
TLAPS checks.

## Inventory

Paths are relative to `src/apps/api/src/`.

| Component | State | Operations | Hard behaviour | What makes it correct |
|---|---|---|---|---|
| Organization capacity (`services/organization-capacity.ts`, migration 038) | `organizations.max_concurrency`; `sandbox_capacity_reservations`: one row per generation with phase and `released_at` | reserve, activate, mark uncertain, release | admissions of several requests; a limit that changes meanwhile; release racing a new effect | never a slot above the limit; execution only under a slot; slots come back |
| Runtime effects (`services/sandbox-runtime-effects.ts`) | `sandbox_runtime_effects`: at most one unsettled effect per sandbox with `dispatched_at`, `acknowledged_at`, provider id | begin, mark dispatched, acknowledge, finish, mark uncertain, read fence | a crash or a lost reply between the intent and the call; late answers | one provider call per effect; superseded work changes nothing |
| Create (`services/sandboxes.ts`, `sandbox-provision.ts`, `sandbox-admission.ts`) | `sandboxes`, prepared provision input | admit, prepare, abandon, provision, roll back credentials | preparation fails after admission; identity cannot be saved; credentials cannot be replayed | at most one dispatched create; no orphan runtime |
| Lifecycle (`services/sandbox-lifecycle.ts`) | `sandboxes.status` | pause, resume | a suspended sandbox gave its slot back; the provider may not stop execution when it pauses | a resume is admitted again, or reuses a slot that was kept |
| Termination (`services/sandbox-termination.ts`) | status, effect, reservation | cancel before dispatch, delete, await absence | user stop against a worker about to dispatch; acceptance is not absence | terminated is final and clean |
| Recovery (`services/sandbox-capacity-reconciler.ts`) | reads everything above | cancel undispatched, observe, find by metadata, adopt | acts while the original process is only slow | recovery and the original never both win |
| Lease and expiry (`services/sandbox-lease.ts`) | `expires_at`, lease ids | renew, reconcile, expire | GET outside the lock; renew against expire | a stale observation is not applied |
| Operation queue (`services/sandbox-operations.ts`, `sandbox-operation-worker.ts`, `scheduler.ts`) | `sandbox_operations`: state, attempts, `locked_at` | claim, complete, fail, adopt stale, requeue | two workers on one operation | a claim fences every completion |
| Capacity inventory (`services/capacity-inventory.ts`) | `organizations.capacity_state`, legacy reservations, quarantine | reconcile, classify, activate | writers of an older version; duplicate runtimes | enforcement starts only with everything accounted for |
| Persistent workspaces (`services/persistent-workspaces.ts`, trigger of migration 035) | attachment of a workspace to a sandbox, attempt marks | reserve, attach, archive, release, sweep | detachment after a GET outside any lock; a volume that was lost | exclusive mount; storage is created once |
| Snapshots (`services/sandbox-lifecycle.ts`) | snapshot rows, their operations | create, replay, restore, delete | answer lost; retry; deletion while the creation polls | one object per key; deleted stays deleted |
| Template builds (`template-builder.ts`, `services/template-builds.ts`, `template-retention.ts`) | templates, build rows, versions | queue, upload, claim, complete, cancel, archive, promote, retain | builder dies; cancel or archive against completion | one version per build; decisions are final |
| Credential vault (`services/credential-vault*.ts`) | attachments and their status; the vault beside the runtime | attach, detach, revoke, rotate, refresh, inspect, rehydrate | row and vault written by calls outside any transaction | what is attached comes to work |
| Routes (`services/sandbox-runtime.ts`, worker) | route rows, their operations | expose, delete, terminate | a slow request and the worker share an operation | a succeeded operation has made its route |
| Protected services (`services/protected-services*`) | connections in memory | admit, watch, pump, abort | abort before anybody listens; frames before the upstream is open | order of frames; revoked is disconnected |
| Terminals (`services/terminal-*`, `opensandbox-execd.ts`) | tickets, sockets, timers | attach, watch, renew, detach | events emitted before their listener exists | revoked is disconnected; detached stops renewing |
| Commands (`services/sandbox-runtime.ts`, `command-events.ts`, SDK `command-stream.ts`) | command rows, event cursor | start, refresh, kill, stream, observe | unfenced writes of one row; connections that break | output once and complete; viewers end |
| Usage (`services/usage-observer.ts`, `usage-history.ts`) | observations, windows, reservations | claim, probe, record, aggregate | a probe of another cycle; an expired claim; half-open intervals | ready has served; every unit counted once |
| Accounts (`services/account.ts`) | memberships, invitations | invite, resend, cancel, log in, remove | statements without a transaction | accepted has joined; an organization keeps an admin |
| OpenWebUI adapter (`integrations/openwebui/src/sessions.ts`) | a binding per user, a session lock | create, replace, stop, clean up | the lock is lost while a call is under way | nothing runs that no binding announces |
| Settings, API keys, authorization | users, keys, limits | request-local changes | none: read afresh by each request | |
| SDKs, CLI, web console, infrastructure | none of their own | | | |

How they interact.  A request or worker takes the row locks (organization, then
sandbox), changes the ledger, the effect and the sandbox in one transaction, and
only after the commit calls the provider.  Every later transaction is guarded
by the effect it belongs to.  What a process loses when it dies is found again
by the scheduler, which reads the effect rows and asks the provider.

## Modules

| Module | Role |
|---|---|
| `SandboxCapacity` | the slot protocol of one organization: ledger, effects, provision operation, requests, workers, scheduler, provider; its properties |
| `ExecutionSlots` | the abstract specification: grant, start, stop, give back, change the limit |
| `SandboxCapacityInvariant` | `CapacityInv`, the inductive invariant under the two main safety properties |
| `MCSandboxCapacity` | symmetry sets for TLC |
| `SandboxCapacityProofs` | type correctness, `CapacityInv` is inductive, and what follows from it, proved |
| `SandboxLease` | the lease of one running sandbox against a clock: renewal, coalescing, observation, expiry, native expiry |
| `CapacityInventory` | the cutover of one organization from a version without reservations |
| `Snapshots` | creations and deletions of snapshots, with keys, crashes and lost answers |
| `PersistentWorkspaces`, `PersistentWorkspacesProofs` | retained storage composed with the life of the sandboxes that mount it |
| `TemplateBuilds` | one template, its builds, builders, callers and retention |
| `CredentialVault` | one credential binding of one sandbox, its rows and the vault |
| `Routes` | the exposure of one port by requests and the worker |
| `ServiceSessions` | one WebSocket to a protected service |
| `Terminals` | one attachment of an interactive terminal |
| `Commands` | one detached command, its event stream and the SDK's observer |
| `UsageObserver`, `UsageObserverProofs` | when a cycle of a sandbox first served |
| `UsageHistory`, `UsageHistoryProofs` | the aggregation of held slots, against a definition unit by unit |
| `Members` | invitations, logins and the removal of members |
| `AdapterSessions` | the OpenWebUI adapter's binding of a user to a sandbox |
| `MCSafety`, `MCProgress`, `MCDelivery` | the suites: several components model-checked in one run |
| `MCSafetyComponents` | the rows and the instances of the components of `MCSafety`, without the slot protocol |
| `MCSafetyComponentsProofs` | the inductive invariants of snapshots, leases, the inventory, members and the adapter |
| `MCSafetyProofs` | the theorems of `MCSafety`, from the invariants of its components |
| `MCProgressProofs` | the same for `MCProgress`, with the proofs of template builds, of routes and of the frames of a connection |
| `MCDeliveryProofs` | the output of a command, proved |

### `SandboxCapacity`: how it corresponds to the code

State.  `maxConcurrency` is `organizations.max_concurrency`.  `generation`,
`phase` and `suspended` are what the code reads of a sandbox's reservations: the
newest row's generation and phase ("released" for a row with `released_at`), and
whether any row was released as `provider_suspended`.  `effect` is the one
unsettled row of `sandbox_runtime_effects` (a unique index keeps it at one),
`version` counts the rows, which is the fence of `readRuntimeFence`, and `creates` holds
the provision effects with `dispatched_at`.  `status`, `identity` are
`sandboxes.status`, `sandboxes.opensandbox_id`; `operation` is the provision row
of `sandbox_operations` (`ready`: its input is published; `secret`: the request
carried credentials that cannot be replayed).  `calls` and `runtime` are the
provider: requests it holds and has not performed, and the runtimes, named by
the effect that created them (the dispatch metadata carries the effect id).

Processes.  An API request, a worker and a scheduler replica are all
processes.  Between two transactions a process is at a point `pc[p]` and carries
`job[p]`, the values of its local variables that it goes on with; `Crash` loses
both and nothing else.  Any process may play any role, which only adds
interleavings.

Actions.  One action is one transaction, one provider call or one answer, with
everything that transaction writes.  `UPDATE ... WHERE` statements that would
update no row are the conditions inside `Release`, `Mark`, `FailClaim`, or, where
the code throws, the action `Fenced`.  The `Variant` operators are small,
plausible errors (a dropped guard, a slot released too early) placed beside
the definition they vary; nothing in the specification uses them, and each
shows that a property notices its error.

Abstractions.

* Time.  The staleness thresholds, poll intervals, deadlines and TTLs are
  nondeterministic: what may be stale may be scanned at any time, and a lease
  may be due whenever it is looked at.
* Pause, resume and delete have operation rows of their own, which follow
  their effect; they are not separate variables.  `idle` is part of `running`:
  every guard of this protocol accepts both.
* `reconcileSandboxLease` reads the fence and then the provider; the model does
  both in `ObserveLease`.  Whatever happens between them also happens, in the
  model, between `ObserveLease` and the applying transaction, which checks the fence.
* The scheduler's answer to an abandoned operation is the cancellation a user's
  stop performs; `CancelBeforeDispatch` is enabled whenever a user may stop, so
  the reads that precede it in the scheduler restrict nothing.
* A change of the limit is one step (the code compares and sets one row).
* Provider.  A create makes at most the runtime its effect names.  A delete,
  pause or resume may be accepted before it is done; a runtime may end by
  itself at any time; it never resumes by itself.  A GET may fail or report an
  unknown word; without `authoritativeLifecycle` it may report absence wrongly, and
  a terminal word is then no absence: `RecoverAbsent` and `RecoverRuntime` adopt a runtime
  that is reported terminated, as `sandbox-capacity-reconciler.ts:72-94` does, so that the
  row says terminated and the slot stays held.
* Not in this module: renew effects (`SandboxLease`), the inventory
  (`CapacityInventory`), workspaces (a refusal by them is `RefuseInput`;
  `PersistentWorkspaces`), routes (`Routes`), the quarantine of duplicate runtimes,
  and repeated requests with the same idempotency key, which return the first row.

### The other components

Each follows the same rule: one action is one transaction, one statement outside
a transaction, one call or one answer, with everything it writes; a process
carries its local variables in a record with its program point (`at`, `pc`).
Operators marked `mutant` stand beside the definition they vary, are used by
nothing, and show which property notices the error.

* `SandboxLease`.  `lease` is the sandbox row (`expires_at`,
  `provider_expires_at`), `effect` the unsettled row of `sandbox_runtime_effects`,
  `native` the runtime with its own deadline and the renewals it was asked for and has not
  performed: a request that timed out cannot be called back, so several may be under way and
  be performed in any order.  A
  client admits (or coalesces with) a renewal, reads the runtime, dispatches,
  gets an answer or none, and finishes; the scheduler looks outside the lock
  (`Look`) and applies under the fence (`ApplyLease`: adopt, expire or record).
  `Tick` is the clock; `MinLease` is the provider's native minimum.  `promised`,
  `asked` and `undercut` (a renewal performed after its effect was settled has lowered the native deadline)
  are history variables.
* `CapacityInventory`.  `record` is a sandbox row with its latest reservation and
  effect, `executor` its runtime.  The old version inserts, requests and records
  without reservations until `StopWriters`; the operator's tool lists,
  classifies sandbox by sandbox with a GET between two transactions, and enforces
  if nothing is unresolved; the new version works meanwhile.
* `Snapshots`.  A creation looks its key up, inserts row and operation, claims,
  calls the provider, records, and polls if asked to wait; a deletion reads,
  marks, calls and finishes.  `row`, `operation` and `store` are the three copies
  that no transaction spans.
* `PersistentWorkspaces`.  `Admit` includes the trigger that reserves the
  workspace; a worker claims the operation (`ClaimProvision`) and begins the effect in a later
  transaction (`BeginProvision`), between which `ReconcileStale` may take the claim away
  and another worker may have it; the number of an attempt is its owner here.  The claim by id with
  which a request takes a failed operation up again is in `SandboxCapacity`, not here.
  `MarkAttempt` is the one-time mark before the provider is asked to
  create the volume.  The sweep reads at most `ScanLimit` attached workspaces in the order of
  their last change (`older`, `Due`) and takes them in turn: `SweepGet` asks the provider, `SweepDetach` writes,
  a row it cannot decide is passed over and stays where it is, and a call that throws ends
  the scan (`SweepFails`).  `box` is the life of a sandbox, `SandboxCapacity`'s reduced to
  what decides about the mount.
* `TemplateBuilds`.  `ClaimBuild` skips builds without a context as the SQL does;
  `BuildImage` is everything between the claim and the final transaction;
  `CompleteBuild` may commit and lose its answer, after which `FailBuild`
  follows.  Archiving and promoting are several statements, as in the code.
* `CredentialVault`.  One binding: the rows made for it one after the other, the
  entry in the runtime's vault, and the processes between a provider call and
  the row they write (`Continue`), the scheduler's tick among them.  The source is a stored secret,
  whose value never expires, or an issuer.  A rotation is two statements (`RotateSource`,
  `MarkForReinjection`) and makes the value in the vault the superseded one, which an inspection
  by name cannot tell from the new one.  The expiry of a detached row, which nothing reads, is
  kept at one value.
* `Routes`.  `RequestExpose`, `RequestInsert`, `RequestComplete` are the steps the request
  and the worker have in common; `LockGoesStale` is the passing of the operation lease.
* `ServiceSessions`.  The two sockets, the watcher and the abort controller of
  one connection, and the queue of frames with its pump.  Events are heard only by
  listeners registered by then.
* `Terminals`.  The attach request at each of its awaits, the two sockets, the
  watcher and the renewal timer.  A "silent" socket is open, its peer gone.
* `Commands`.  `reader` is `refreshCommand`, run by the stream and by any other
  caller; nobody compares the row with what it read.  `stream` and `viewer` are
  the two ends of the event stream with its cursor.
* `UsageObserver`.  `cycle` is the sandbox with its reservation and effects; an
  observer reads the cycle, the fence, probes, reads the fence again and records.
* `UsageHistory`.  `aggregateUsageHistory` as operators (merge, clip, slice, binary
  search, buckets) beside a definition that looks at one unit of time after the other.
  The sort is any order by `from`, since the code's leaves ties as they come.  `Reserve`
  gives one sandbox its reservation; the computation has no other steps.
* `Members`.  A request of an admin and a login are the statements of
  `account.ts`; a row that is made again is another row.
* `AdapterSessions`.  `binding` is saved before each call it announces; `calls` are
  requests that are still to be carried out although the process that sent them
  lost the lock.  A workspace comes back only when its sandbox is terminated.

### Properties

| Property | What it says, and what could break it |
|---|---|
| `HeldWhileExecuting` | a runtime that executes, and a delivered create or resume, is covered by a held reservation |
| `AtMostOneCreate` | a create intent is dispatched at most once over all claims, retries and adoptions |
| `NoOrphanRuntime` | a live runtime is the saved identity or what recovery is looking for |
| `TerminatedIsClean`, `TerminatedIsFinal` | where absence is authoritative, a terminated sandbox has no slot, no effect, no execution, for ever |
| `WaitingCreateIsUndispatched` | a held slot between effects that has no runtime belongs to a prepared create no request of which was ever dispatched, so that to replay, fail or stop it loses nothing |
| `StaleResultIsIgnored` | a process whose effect somebody else settled changes no row of the sandbox |
| `CapacityInv` | the inductive strengthening (below) |
| `ImplementsSlots` | every step is a step of `ExecutionSlots` or a stutter |
| `DeletionReleasesSlot`, `DeadRuntimeReleasesSlot`, `UndispatchedCreateIsDecided` | slots come back although processes crash and answers are lost (the last: unless the operation was requeued after its last attempt, see Gaps) |
| `OneSnapshotPerKey` | retries under one key make one object at the provider, and none without a row |
| `SnapshotRowsAreTrue`, `DeletedStaysInvisible` | an acknowledged deletion is real, a restorable snapshot is complete, and a late write does not bring a deleted one back |
| `RenewalOrExpiration` | a renewal answered with success is not cut short, unless an earlier one that was performed late undercut it (see Gaps), and an expiration that won is not undone |
| `DeadlineWasAsked` | the recorded deadline was asked for by somebody (violated, see Findings) |
| `HoldsMatchExecution` | under an enforced limit what executes is held, and a slot given back is not in use |
| `ReadyHasServed`, `ResultsAreFinal` | a cycle recorded as ready has served itself; a result is written once although claims run out |
| `AcceptedHasJoined`, `OrganizationKeepsAnAdmin` | an accepted invitation has made its membership; an admin remains (the second violated) |
| `NothingIsLeftBehind` | the API holds no workspace or live sandbox that the adapter's binding does not announce |
| `VersionsHaveOneBuild`, `DecisionsAreFinal` | one version per build, whose row survives; cancel and archive are final whatever a builder finishes |
| `BuildableIsClaimed` | a build that can be built is not starved by one that never gets its context (that image builds go before context builds is not measured) |
| `ExclusiveMount`, `LostStorageStaysLost`, `ReleasedAfterTermination` | two runtimes never share a volume; lost data is not replaced by an empty volume; the workspace comes back, unless rows that nobody can decide fill the scan (see Gaps) |
| `SucceededHasRoute`, `ExposureSettles` | the operation and the route agree; no exposure stays queued or running |
| `RevokedIsDisconnected`, `DetachedStopsRenewing` | a terminal ends with its principal, and its renewals with its caller (the second violated) |
| `RevokedGivesPlaceBack`, `FramesInOrder` | a revoked connection frees its place; the service reads every frame once and in order |
| `AttachedBecomesUsable` | an attached credential comes to work over lost vaults, expiries, rotations, failures and late answers, unless a rotation was overlooked (see Gaps) |
| `OutputOnce`, `SucceededMeansAll`, `ViewerEnds` | output once and in order over reconnections; success means all of it; every viewer ends |
| `HistoryIsExact` | the aggregate equals the unit-by-unit definition |

## Runs

| cfg | Instance | Distinct states | Checks |
|---|---|---|---|
| `SandboxCapacity_safety` | 1 sandbox, 3 processes (2 at the last effect), 4 effects, 2 attempts, 1 fault | 902,810 | the safety properties and `CapacityInv` |
| `SandboxCapacity_contention` | 2 sandboxes, limits 1 and 2, 1 process, 4 effects | 1,839,684 | `ImplementsSlots` |
| `SandboxCapacity_liveness` | 1 sandbox, 2 processes, 3 effects, 1 fault, a failing reconciliation of stale work | 150,888 | the three liveness properties |
| `MCSafety` | below | 2,160,125 | what two actors must not do to shared rows |
| `MCProgress` | below | 239,250 | what is queued, attached or claimed is settled once; who is revoked is disconnected |
| `MCDelivery` | below | 434,038 | credentials and output arrive |
| `SandboxCapacity_pending`, `_failed`, `_stale`, `SandboxLease_minimum`, `Members_admins`, `Terminals_detached` | small | | expected violations, see Findings |

The capacity runs are of module `MCSandboxCapacity`, the suites of the module they
are named after, the last three of the component's own module.

### Suites

The components of a suite share no row: a command, a template and a membership
have tables of their own, and what they do need of each other (the life of a
sandbox, above all) is an environment inside the component's module.  A behaviour of a suite
is therefore about one component, which its initial state names in `subject`; the
others stay in their initial states.  The states explored are the sum of the components'
and not their product, and nothing is lost: an interleaving of components that share nothing
violates no property of one of them.  Components that do interact are composed
inside a module: workspaces with the life of sandboxes and the scheduler, routes and the worker with the
sandbox, credentials with pause, resume and termination, the event stream with its
viewer, the adapter with the API.

| Suite | Component | Instance |
|---|---|---|
| `MCSafety` | `Snapshots` | 2 creations, 1 deletion, 1 key, 1 poll |
| | `SandboxLease` | 2 clients, TTL 2, native minimum 1, clock to 4, 3 effects, any number of renewals under way |
| | `CapacityInventory` | 2 legacy sandboxes, 2 versions of each |
| | `UsageObserver` | 2 observers, 2 cycles |
| | `Members` | 2 admins, 1 invitee, 2 invitations, 2 membership rows, 1 login |
| | `AdapterSessions` | 2 processes, 2 generations, 2 calls under way |
| | `SandboxCapacity` | 1 sandbox, 2 processes, 4 effects, 2 attempts, 1 fault, no provider guarantees |
| `MCProgress` | `TemplateBuilds` | 2 builds, 2 builders, 2 callers, limit 2 |
| | `PersistentWorkspaces` | 2 sandboxes, 2 workspaces, 2 workers, a scan of 1 row, within `OneOfEach` and `OneSecret` |
| | `Routes` | 1 request with its repetitions, 2 attempts |
| | `ServiceSessions` | 3 frames, a queue of 2 |
| | `Terminals` | 1 attachment |
| | `UsageHistory` | times 0 to 4, buckets of 2, at most 2 observer windows, 2 reservations, asked from 1 at 3 or 5, available from 0 or 2 |
| `MCDelivery` | `CredentialVault` | 1 requester and the scheduler, 2 rows, 1 fault, both kinds of source |
| | `Commands` | 2 pieces of output, 1 reconnection |

The fallback instance of the slot protocol has `StaleReconcileFails` false: its one property,
`HeldWhileExecuting`, does not survive the third finding, which the run `stale` has to itself.

`MCSafety` alone uses symmetry: the members of each pair of actors are
interchangeable (no action names one), and `Exchanged` swaps all pairs at once, which is sound for
its invariants and action properties.  The suites with liveness use none.

### Bounds

In the capacity runs `MaxEffects` bounds the effects of one sandbox: four are a
preparation, a provision, a pause and a resume or a delete, the longest chain in
which each kind can follow another; the ledger forgets everything else about
older effects, and ids are never reused.  `MaxAttempts` is two instead of the
code's three: the first claim, and one after it was requeued.  `MaxFaults` counts
crashes, lost replies and failing transactions; slow processes, timeouts and refusals are not
counted, so a process that recovery has overtaken is explored without limit.
Three processes are a stalled one, the one that overtakes it, and a scheduler.  `OneRestsAtTheLast`
has two of them at work while the last of the four effects is on its way; without it
2,432,942 states were explored once, with the same result.
Sandboxes share nothing but the limit, so safety needs one and contention two.
In the contention run one process is enough: admission is one transaction under the
organization's row lock, and the requests it leaves with the provider go on while
it serves the other sandbox.  Processes, and sandboxes, are symmetric.

In the suites two of each actor are the one that is overtaken and the one that
overtakes.  Two snapshots under one key are a creation and its retry; with two usage
cycles a probe can be of the one before; two generations are a replaced session
and its successor, and two calls under way the one that a process left behind and the one of its
successor (with no such bound 918 thousand states were explored once, and the proof needs none); two membership rows are a member who left and joined again; two
credential rows are a detached attachment and its replacement.  The lease's
clock reaches twice the TTL, so that a renewed lease can end as well.  Three frames over a queue
of two fill the queue while one is with the socket.  Two requests for one route
were explored once (264 thousand states) and showed nothing that the
repetition of one does not.  A scan of one row is the smallest in which a row that is not decided
keeps another out, which `LIMIT 100` does with a hundred; a scan of two was explored for safety.
`OneOfEach` keeps either the second worker or the second
workspace out of a behaviour (two workers race over one workspace, two workspaces compete for one
scan; with the second workspace there are no secrets, archives and losses, which concern one workspace at a time), and
`OneSecret` gives secrets to one sandbox only.  With a horizon of four and buckets of two, windows and
reservations can begin, end, touch, overlap and be clipped inside and
across an unaligned bucket.

Deadlock is not checked: a run that has used its effects, attempts, frames or time
stops, which the program does not.

### Fairness

`SandboxCapacity`: `Proceed` is weakly fair, since a process that is not idle and does not
crash goes on: every await in the code is bounded by a timeout.  The
scheduler's scans are fair because it ticks for ever and its queries order rows
by age: weakly for the transactions that stay enabled, strongly for scans that other work
may interrupt (claims, observations).  Nothing is assumed of
users, of the provider's completion or of `Perform`; the liveness properties say
only what follows once the runtime is gone.

| Component | Assumed | Because |
|---|---|---|
| `TemplateBuilds` | WF of each builder's step | the loop of `runTemplateBuilder` repeats; its waits have deadlines.  No fairness for callers, uploads or retention |
| `PersistentWorkspaces` | WF of the sweep's scans and detachments, SF of the provider's answer about each workspace | the scheduler ticks; a GET that is made again and again succeeds infinitely often, not always.  A tick whose earlier reads throw does not reach the sweep (`scheduler.ts:69-93`); that this ends is assumed |
| `Routes` | WF of the worker's step and of leases going stale | the loop goes on after a death (another replica); time passes.  Requests may die anywhere |
| `ServiceSessions` | WF of authorization, upgrade, checks, timeouts and the stop deadline | each has a timer.  None for the database's answer (`CheckReads`) or the peers |
| `Terminals` | WF of the request's steps and of the watcher's timers | the same.  Before the watch starts the ticket, the first revalidation and the sandbox are read with no timeout (`db.ts` sets none): for these reads the fairness assumes that the database answers, and only the watch itself bears one that does not; the violation run also assumes the heartbeat, close handshakes, and that execd is reached or lost |
| `CredentialVault` | WF of the steps of the tick and of requests that were begun, and of expiry; SF of the inspection's listing and of claims | calls have timeouts; rows become due again and again.  Nobody is assumed to begin a request |
| `Commands` | WF of the stream and of the observer | both are loops with timeouts.  None for callers, kills or the program |

The safety suites assume none.

## Proofs

The theorems hold for every value of the constants (sandboxes, processes, effects,
observers, builders, frames and so on).  They assume the named ASSUMEs of the
modules, collected for the suites in `Bounds`; TLC evaluates them in every run.

`SandboxCapacityProofs`:

* `TypeCorrect`: `Spec => []TypeOK`.  `TypeOK` is inductive because it also says
  what a process carries at each point (`Carries`): a process that goes on
  with an answer holds a runtime and a state that may be written to the row.
  The proof has a lemma for each building block (`Release`, `Mark`, `Reserve`,
  `Begin`, `Settle`, `Take`, ...) and one for each group of actions of `Next`.

Under the hypothesis `StaleReconcileFails = FALSE`
(the third finding shows that without it `AtMostOneCreate` is false):

* `CapacityInvariant`: `Spec => []CapacityInv`.
* `ExecutionIsHeld`: `Spec => []HeldWhileExecuting`.
* `CreateIsDispatchedOnce`: `Spec => []AtMostOneCreate`.
* `NothingIsOrphaned`: `Spec => []NoOrphanRuntime`.
* `SlotsAreImplemented`: `Spec => ImplementsSlots`.  A step moves the slot of one
  sandbox, and each kind of write (`HoldMoves`, `LedgerMoves`, `ProviderMoves`) is a step of
  `ExecutionSlots` or a stutter; that a slot is taken before a start and given back
  after the end is `HeldWhileExecuting` of the next state.
* `TerminationIsClean`, `TerminationIsFinal`: `[]TerminatedIsClean` and
  `TerminatedIsFinal`, from `EndedInvariant`, under the further hypothesis `AuthoritativeLifecycle = TRUE`:
  without it recovery adopts a runtime that is reported terminated and the slot stays held.  Nobody writes to a terminated sandbox because a
  process that owns an effect owns an unsettled one (`OwnerIsUnsettled`).
* `WaitingCreatesAreUndispatched`: `Spec => []WaitingCreateIsUndispatched`, from `OwnerInv`.
  It says what is safe to do with such a slot, not that somebody does it: that is
  `UndispatchedCreateIsDecided`, and its exception.

and without that hypothesis

* `LateResultsAreIgnored`: `Spec => StaleResultIsIgnored`.  A step moves one process
  (`OneProcessMoves`), and one whose effect has been replaced writes nothing
  (`LateWritesNothing`).

None of `HeldWhileExecuting`, `AtMostOneCreate` and `NoOrphanRuntime` is inductive:
that a release is safe depends on what a process between two transactions knows (`OwnerShape`, `LeaseShape`), on
which effect may have created a runtime (`RuntimeShape`, `LiveShape`), on which
requests are with the provider (`CallShape`), on a paused runtime being stopped
(`PausedShape`), and on nobody else driving the same effect (`OneDriver`).  That
no second create is dispatched needs a reason for each way the first one may have ended
(`CreateOnce`), and for credentials that only the admitted request ever claims
the operation (`SecretShape`).  `CapacityInv` is the conjunction, one part about
the rows of a sandbox (`RowInv`) and one about the processes that act on it
(`WorkInv`).

The argument.  A step acts on one sandbox; `ElsewhereKept` says that the others
keep their parts because nothing of theirs changed.  For the sandbox itself most
transactions belong to one of three classes, each with its lemmas:

* it settles the effect (`RowSettled`, `WorkSettled`): nothing is left in flight,
  only the identity can be alive, and the release is safe because of what the
  finishing process saw (`ObservedOwns`, `RecoveringOwns`, `LeasingKnows`) or because
  nothing was dispatched (`Undispatched`);
* it begins an effect (`RowBegun`, `WorkBegun`): the id is new, so every process
  that carried an older one is fenced;
* it moves one process and writes at most the operation (`MoveKeeps`).

Dispatch, the acknowledgements, the saved identity and the provider's steps are
proved one by one; `Declines` covers every provider step that starts nothing.

The other components.  Each has an invariant of its own, proved of its own `Spec`:
in the module named after it, in `MCSafetyComponentsProofs` for those of `MCSafety`, or in the suite's
proof module.  A lemma `Spec => Component!Spec` (a step about another component
stutters on this one's rows) carries what follows to the suite, where the theorem names the very
property the run checks.  `MCSafetyComponents` is a module of its own so that these proofs
do not see the slot protocol.

Rows that no transaction spans:

* `KeysMakeOneSnapshot`, `RowsAreTrue` (`SnapshotInv`).  What a creation knows of its row
  and of the provider (`Creating`), what a deletion read of a row and still holds
  when it writes (`Deleting`), and the unique index (`OneRowPerKey`).  A deletion that knew
  the object writes its tombstone only over one that is gone.  `DeletedIsNotSeen` follows: a
  tombstone is written once and `UpdateFromProvider` writes around it.
* `CutoverCountsWhatExecutes` (`CutoverInv`).  Slots of the new version, and pauses
  and resumes, exist only after the writers stopped, and no request of the old version
  outlives them (`Counted`).  The tool applies what it saw of a row while
  the row's version is unchanged, and until then nothing has begun, so that what it saw is
  still so (`Sighted`); enforcement comes after the last row is classified (`Enforcing`).
* `NothingStays` (`AdapterInv`).  Whoever holds the advisory lock has read the binding
  under it (`Holding`); where a process is follows from what it read (`Placed`).
  A request that outlives the lock is announced in the binding, or was answered already and
  makes nothing (`Announced`), and a workspace is asked for once (`OneWorkspace`).
* `VolumesAreMountedOnce`, `LostVolumeIsNotReplaced` (`MountInv`).  Whoever may still mount a volume
  holds the reservation: a runtime or a request (`Mounting`), a worker about to send one
  (`Preparing`), and a sandbox, until it is terminated (`Life`).  A worker asks for a
  volume only under the mark that the workspace carries once per reservation, and only if there never was
  one (`Reserved`); the sweep's GET outside any lock is safe because what it found
  gone for good can be neither requested nor mounted again (`Sweeping`).
* `RenewalsAreKept` (`LeaseInv`), for every TTL and native minimum.  While no effect has begun
  since the scheduler looked, what it saw is still so (`Watched`).  As long as no renewal was
  undercut, the deadlines are
  ordered: what was promised, what the row says and has confirmed, what the provider keeps, and
  what the newest request under way will make of it (`Deadlines`); and a renewal is driven by
  nobody but the request that was admitted (`Renewals`).

Results that come late:

* `AcceptedInvitationsHaveJoined` (`AcceptanceInv`).  `AcceptedHasJoined` alone is not
  inductive: that a login may write "accepted" rests on the membership it
  inserted in the statement before (`LoginHasJoined`).
* `ReadyCyclesHaveServed`, `WrittenResultsAreFinal` (`ObserverInv`).  An observer carries a
  probe across statements; as long as the version is the one it read before the
  probe, no effect has begun since, so the probe was of this cycle
  (`ProbedItsCycle`); and a live claim is on a pending row (`ClaimedIsPending`).
* `OneVersionPerBuild`, `BuildDecisionsAreFinal` (`BuildInv`).  A builder at work is
  the only one of its build and its build has no version before it completes
  (`OneBuilder`).
* `SucceededExposureHasRoute` (`RouteInv`).  Whoever is about to report success has
  inserted the route or seen it (`InsertedBeforeComplete`).

Sequences of any length:

* `ServiceReadsInOrder` (`QueueInv`).  What was read is a prefix of what was sent and the
  queue continues it (`Continues`); the frame that is with the service's socket is
  the head of the queue and the last of what was read, which is why the pump must
  not run while one is (`PumpReads`).
* `OutputArrivesOnce`, `SuccessComesWithAllOutput` (`CommandInv`).  The events in flight
  form a chain from the viewer's cursor to the stream's offset (`Chain`, `InFlight`), each of
  which is true of the program (`EventTrue`), so that a connection may break between any two; what
  the viewer has is what its cursor says (`ViewerTrue`).  A row says "succeeded" only of a
  program that did (`RowTrue`), although refreshes write what they read
  earlier (`ReaderTrue`).

A computation on data, by recursion:

* `UsageHistoryIsExact`, and with it `HistoryReportsWhatWasObserved`.  A recursive function is a
  `CHOOSE`, of which nothing is known until some function with its equations
  exists.  `RecursionExists` builds one for a recursion on a bounded measure, and
  `SubsetInduction` argues by the size of a finite set; both take a set where the
  library's induction theorems take a predicate, and rest on the naturals being
  well founded (`FirstOf`, `CountUp`).  From them `SumRecursion` and `JoinRecursion` say what the folds of the
  community modules do, and `AfterCounts` what the search by halving returns.
  Then: the merge leaves intervals apart and in order that cover what was clipped
  (`Separate`, `MergeIsRight`), which is what the search needs (`CoversIsInside`) and
  makes the gaps the rest (`GapsAreUnobserved`); between two points that follow each other nothing is
  observed, taken or released (`SliceIsUniform`), so that the running sum is the number
  in use (`HeldIsInUse`); the slices of a bucket are apart and make up its observed
  units (`SlicesAreSeen`), so that their lengths add up to a cardinality (`SumIsCount`,
  `BucketIsExact`); and buckets are numbered as their starts are counted (`NumberIsRight`).
  The only hypothesis is `HistoryBounds`: times are naturals, a bucket is not
  empty, and there are finitely many sandboxes.

The suite as a whole:

* `FallbackIsHeld`: `HeldWhileExecuting` for a provider that promises nothing, an instance
  of `ExecutionIsHeld`, whose capabilities are constants.
* `TypesAreKept`: `Spec => []TypeOK` for all the components and the slot protocol, that is, nothing runs past its bound.  It takes more than types: that an
  observer's counters keep within their bound rests on the version counting the effects that
  were begun (`VersionCounts`), and that a login's next invitation exists on
  its list not being empty (`HasTodo`, with `FirstOf` by well-foundedness of the naturals).  The
  hypothesis `Ttl <= MaxTime + MinLease` says that the clock's range holds the first lease;
  it bounds the instance and says nothing of the code.

Only model-checked: the properties of credentials and terminals, which are liveness, as are
`BuildableIsClaimed`, `ExposureSettles`, `ReleasedAfterTermination`, `RevokedGivesPlaceBack`, `ViewerEnds` and
those of the slot protocol: liveness under
fairness is outside the prover's reach.  Every invariant and action property of a passing
run is proved.  The modules of `MCProgress` and
`MCDelivery` state their type invariants for the reader; the proofs use those they
need (`BuildType`, `OperationType`, `MountInv`, `Kinds`).  The properties that the violation
runs refute are false, and no theorem is near them except under the hypotheses named above.

## Findings

* `PendingHoldsSlot`.  A provision refused before its dispatch gives the slot
  back and leaves the sandbox `pending` with a failed operation; it cannot be
  deleted either, since `requestSandboxTermination` wants a held reservation.
  The admission plan's table says that a pending sandbox holds one slot.
* `FailedCreateStaysFailed`.  A create that failed for its credentials is in
  `error` and being deleted; if that deletion is interrupted before dispatch,
  recovery cancels it and the lease reconciliation sets the sandbox to `running`.
  `docs/lifecycle.md` lists only `pending` and `terminated` after `error`.
* `AtMostOneCreate` with `StaleReconcileFails`.  If the transaction that
  reconciles a stale provision throws, the handler fails the operation by id,
  whoever owns it by then.  A request stalled before its claim may then claim
  the failed operation and dispatch a second create.  The sandbox then has two runtimes and one
  slot, so `HeldWhileExecuting` fails with it: this is the hypothesis of
  `ExecutionIsHeld` and of the fallback instance.

* `DeadlineWasAsked`.  A renewal that fails after its dispatch is settled as done by
  the reconciler if the runtime's deadline is at least the target, which a longer native
  minimum always is; the target is then recorded as the confirmed
  native deadline, so the next look takes the unchanged minimum for a change and
  extends the TTL to it.  `docs/sandbox-lease-operations.md:15-16` excludes exactly that.
  `RenewalsAreKept` is proved for such a minimum too.
* `OrganizationKeepsAnAdmin`.  Two admins who remove each other both count two.
  `docs/members.md:61-64` says that the last admin cannot be removed.
* `DetachedStopsRenewing`.  A caller who leaves while its terminal is being set up
  has closed its socket before anything listens; the renewals go on for the life of the
  sandbox.  `docs/release-notes/0.5.0-rc.3.md:14-15` says that they last until
  detached.  With a look at `readyState` where the listener is registered the property
  holds.

Gaps, which the properties exclude by name or by what they speak of; none has a run of its own.
Without `undercut`, `Starved` or `Overlooked` TLC finds the property violated within the bounds of its run.

* `Exhausted`: an operation requeued after its last attempt is never claimed, failed or
  cancelled (`sandbox-operation-worker.ts:257-259`), and the slot of its create stays reserved.
* `undercut`: a renewal that timed out is settled when the native deadline is already at its target,
  and a later one is promised; the provider then performs the first one and lowers the
  deadline below the promise, which the next look takes over.  No call asks for a
  deadline only if it is later (`sandbox-lease.ts:143`).
* `Starved`: rows that the sweep cannot decide stay in front of its `LIMIT 100`
  (`persistent-workspaces.ts:113-124`), so that a hundred of them keep every later workspace attached.
* `Overlooked`: an inspection that finds the entry by name writes `injected` over
  `requires_reinjection` (`credential-vault.ts:1012-1016`), so that a rotated secret whose first
  injection failed is never injected; the same happens if the rotating request dies between its two
  statements.
* Without `authoritativeLifecycle`, recovery adopts a runtime that is reported terminated: the row is
  terminated and its slot is held (`sandbox-capacity-reconciler.ts:72-94`).
* A pause or resume dispatched to a runtime that then ended
  stays unsettled, because absence finishes only deletes
  (`sandbox-capacity-reconciler.ts:157`; `DeadRuntimeReleasesSlot` speaks of settled
  sandboxes).
* An abandoned preparation leaves a row in `error` that no request can delete.

Other divergences met while modelling, which no run is spent on: every version is
made with the alias `latest` and nothing takes it away, so retention retires none
(`docs/architecture.md:112`, `docs/template-builds.md:328-330`); an exposure that is slow inserts an
active route after the sandbox terminated (`docs/architecture.md:239`); a refresh writes its
older status over `killed`; a resend writes `sent` over a canceled invitation; and a
rehydration that listed an attachment before its detachment injects it again.

## Plan

Done: the slot protocol with its invariant, refinement and theorems; leases, the
inventory, snapshots, workspaces, template builds, credentials, routes, protected
connections, terminals, commands, usage, members and the adapter, each with the
properties above; theorems for every safety property of the passing runs.

Left, in this order:

1. One queue for all operation kinds, with an abstract specification: every accepted
   operation ends once.
2. The quarantine of duplicate runtimes and the recovery flag of the inventory.
3. Retirement of template versions, and several bindings in one vault.

## Not modelled

* API keys, scopes, onboarding and organization access: read afresh by every request,
  with no state between two steps.  Settings other than the limit likewise.
* Access modes and tokens of routes, HTTP requests through the proxy, byte limits and
  backpressure: transfer of data without shared state.  The limit on routes is a
  count without a lock, so that some more than the limit can be made at once.
* Envelope encryption, external references and inline values of the vault; bindings'
  targets and egress data.
* Image builders (Kaniko, BuildKit, import), preflight, scanner and registry
  credentials: one step of a build with any outcome.
* Commands that are not detached, command sessions, files, bytes of a terminal, and
  a provider log that loses what it once returned.
* Percentiles, retention and row limits of the usage history.
* Delete, renew and route rows of `sandbox_operations` in the slot protocol: they
  follow their effect.  `Routes` models the queue for exposures.
* The SDK (except its event observer), the CLI, the web console, OpenAPI schemas, the
  provider's HTTP client and deployment: request and response code that keeps no
  state of its own.  They are most of the lines of the repository.
