-------------------------------- MODULE MCSafety --------------------------------
(***************************************************************************)
(* Components that share no rows, model-checked one after the other in one *)
(* run: a behaviour is about the component that its initial state names,   *)
(* and every other component stays in its initial state.  The last one is  *)
(* the slot protocol over a provider that promises nothing: it may go on   *)
(* executing what it paused, and what it does not find may only be hidden. *)
(***************************************************************************)
EXTENDS MCSafetyComponents

CONSTANTS Sandboxes, NoSandbox, Processes, Limits,    \* SandboxCapacity
          MaxRuntimeEffects, MaxAttempts, MaxFaults

VARIABLES maxConcurrency, status, identity, generation, phase, suspended, runtimeEffect, version, creates,
          provision, point, job, requests, runtime, faults,
          subject   \* the component this behaviour is about

Slots == INSTANCE SandboxCapacityProofs
    WITH effect <- runtimeEffect, operation <- provision, pc <- point, calls <- requests,
         MaxEffects <- MaxRuntimeEffects, StaleReconcileFails <- FALSE,
         PauseStopsExecution <- FALSE, AuthoritativeLifecycle <- FALSE

ASSUME SlotBounds == Slots!SandboxesAssumption /\ Slots!LimitsAssumption /\ Slots!BoundsAssumption

slotVars ==
    <<maxConcurrency, status, identity, generation, phase, suspended, runtimeEffect, version, creates,
      provision, point, job, requests, runtime, faults>>
storedVars == <<snapshotVars, leaseVars, inventoryVars>>
peopleVars == <<observerVars, memberVars>>
sessionVars == <<adapterVars, slotVars>>
vars == <<storedVars, peopleVars, sessionVars, subject>>

Init ==
    /\ subject \in {"snapshots", "lease", "inventory", "observer", "members", "adapter", "fallback"}
    /\ Snapshot!Init /\ Lease!Init /\ Inventory!Init /\ Observation!Init /\ Membership!Init
    /\ Adapter!Init /\ Slots!Init

Next ==
    \/ /\ subject = "snapshots" /\ Snapshot!Next
       /\ UNCHANGED <<leaseVars, inventoryVars, peopleVars, sessionVars, subject>>
    \/ /\ subject = "lease" /\ Lease!Next
       /\ UNCHANGED <<snapshotVars, inventoryVars, peopleVars, sessionVars, subject>>
    \/ /\ subject = "inventory" /\ Inventory!Next
       /\ UNCHANGED <<snapshotVars, leaseVars, peopleVars, sessionVars, subject>>
    \/ /\ subject = "observer" /\ Observation!Next
       /\ UNCHANGED <<storedVars, memberVars, sessionVars, subject>>
    \/ /\ subject = "members" /\ Membership!Next
       /\ UNCHANGED <<storedVars, observerVars, sessionVars, subject>>
    \/ /\ subject = "adapter" /\ Adapter!Next
       /\ UNCHANGED <<storedVars, peopleVars, slotVars, subject>>
    \/ /\ subject = "fallback" /\ Slots!Next
       /\ UNCHANGED <<storedVars, peopleVars, adapterVars, subject>>

Spec == Init /\ [][Next]_vars

(* The two requests, processes or people of a component differ in nothing   *)
(* but their names: exchanging them all at once maps behaviours to          *)
(* behaviours.                                                              *)
Actors == {Creator, Client, Legacy, Observer, Admin, Process, Processes}
Other(a) == CHOOSE b \in UNION Actors : {a, b} \in Actors
Exchanged == {[a \in UNION Actors |-> IF exchange THEN Other(a) ELSE a] : exchange \in BOOLEAN}
--------------------------------------------------------------------------------
(* The component this run is about keeps its type: rows, locals, program   *)
(* points and the state of the provider, poll counters within their bound. *)
TypeOK ==
    /\ subject = "snapshots" => Snapshot!TypeOK
    /\ subject = "lease" => Lease!TypeOK
    /\ subject = "inventory" => Inventory!TypeOK
    /\ subject = "observer" => Observation!TypeOK
    /\ subject = "members" => Membership!TypeOK
    /\ subject = "adapter" => Adapter!TypeOK
    /\ subject = "fallback" => Slots!TypeOK

(* However often a caller retries a creation under one idempotency key, the *)
(* provider makes at most one snapshot for it, and none without a row.      *)
OneSnapshotPerKey == Snapshot!OneSnapshotPerKey

(* A snapshot that was deleted is never seen again, although the request    *)
(* that creates it may still write the provider's state over its row.       *)
DeletedStaysInvisible == Snapshot!DeletedStaysInvisible

(* What a row says of a snapshot is so at the provider: the object of an    *)
(* acknowledged deletion is gone if the deletion knew it, and what a restore *)
(* accepts is there and complete, unless a deletion was at least attempted. *)
SnapshotRowsAreTrue == Snapshot!AcknowledgedDeletionIsReal /\ Snapshot!RestorableIsComplete

(* Of a renewal and an expiration one wins: a renewal that was answered     *)
(* with success is not cut short by an expiration selected before it, and   *)
(* if the expiration wins, no renewal, however late, resurrects the sandbox. *)
(* (Where a renewal that timed out is performed after a later one, it takes *)
(* the native deadline back, and the scheduler follows it: see undercut.)   *)
RenewalOrExpiration == Lease!RenewedIsNotExpired /\ Lease!TerminatedStaysTerminated

(* The cutover counts what executes: once the limit is enforced every       *)
(* runtime that executes holds a slot, although the old version reserved    *)
(* none and the listing is incomplete, and a slot that was given back is    *)
(* not in use.                                                              *)
HoldsMatchExecution == Inventory!EnforcedIsHeld /\ Inventory!ReleasedIsNotExecuting

(* A cycle is recorded as ready only if its own runtime has served.         *)
ReadyHasServed == Observation!ReadyHasServed

(* A result is written once: an observer whose claim ran out and was taken  *)
(* over changes nothing any more.                                           *)
ResultsAreFinal == Observation!ResultsAreFinal

(* An invitation is marked accepted only after it has made its membership.  *)
AcceptedHasJoined == Membership!AcceptedHasJoined

(* Whichever process of the adapter dies, or is answered late: one durable  *)
(* workspace is made for a user, and a sandbox that runs for the user is    *)
(* the one its binding leads to.                                            *)
NothingIsLeftBehind == Adapter!NothingIsLeftBehind

(* Pauses and absences that prove nothing never give a slot back under a    *)
(* runtime that may execute.                                                *)
HeldWhileExecuting == Slots!HeldWhileExecuting
================================================================================
