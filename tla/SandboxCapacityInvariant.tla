----------------------- MODULE SandboxCapacityInvariant -----------------------
(***************************************************************************)
(* The inductive invariant behind HeldWhileExecuting and AtMostOneCreate:  *)
(* why a slot is never given back under a runtime that still executes.     *)
(* It holds while the stale-provision transaction itself does not fail     *)
(* (StaleReconcileFails = FALSE).                                          *)
(***************************************************************************)
EXTENDS SandboxCapacity

\* Points of a process that has not begun its provision effect yet, that drives
\* an effect it began, and that carries an observation.
Early    == {"preparing", "admitted", "checking", "starting"}
Driving  == {"preparing", "begun", "calling", "returned", "acknowledged",
             "persisted", "aborting", "doubtful"}
Carrying == Driving \cup {"observed", "found", "recovering"}

Stopped == {"paused", "gone"}
OwnsAt(p, s) == job[p].sandbox = s /\ effect[s].id = job[p].effect

\* A sandbox that was not admitted has left no trace.
AbsentShape(s) ==
  status[s] = "absent" =>
    /\ effect[s] = NoEffect /\ creates[s] = {} /\ identity[s] = 0
    /\ phase[s] = "none" /\ operation[s].state = "none"
    /\ \A p \in Processes : job[p].sandbox # s

\* An unsettled effect belongs to the newest reservation, which it keeps held
\* (a paused sandbox may be deleted under a released one), and a provision
\* effect is the only one that ever dispatched a create.
EffectShape(s) ==
  LET e == effect[s] IN
  /\ e.id <= version[s]
  /\ e.id = 0 => e = NoEffect
  /\ e.id # 0 => e.kind # "none" /\ e.generation = generation[s]
  /\ e.kind \in {"prepare", "provision", "pause", "resume"} => Held(s)
  /\ e.kind \in {"pause", "resume", "delete"} =>
       identity[s] # 0 /\ e.runtime = identity[s]
  /\ e.kind = "prepare" => creates[s] = {} /\ ~e.dispatched
  /\ e.kind = "provision" =>
       /\ e.runtime # 0 => e.runtime = e.id /\ runtime[s][e.id] # "none"
       /\ creates[s] = IF e.dispatched THEN {e.id} ELSE {}

\* Runtimes come from the one dispatched create; the identity names it.
RuntimeShape(s) ==
  /\ \A i \in creates[s] : i <= version[s] /\ creates[s] = {i}
  /\ identity[s] # 0 => identity[s] \in creates[s] /\ runtime[s][identity[s]] # "none"
  /\ \A i \in EffectIds : runtime[s][i] # "none" => i \in creates[s]

\* A live runtime is the identity or is what the unsettled provision effect made.
LiveShape(s) ==
  \A i \in EffectIds : runtime[s][i] \in LiveStates =>
    identity[s] = i \/ (effect[s].kind = "provision" /\ effect[s].id = i)

\* A paused sandbox is not being resumed, and its runtime does not execute.
PausedShape(s) ==
  /\ status[s] = "paused" /\ identity[s] # 0 =>
       effect[s].kind \in {"none", "delete"} /\ runtime[s][identity[s]] \in Stopped
  /\ effect[s].kind = "resume" /\ ~effect[s].dispatched =>
       runtime[s][identity[s]] \in Stopped
  /\ suspended[s] => PauseStopsExecution

\* Requests in flight that can start execution belong to an unsettled effect.
CallShape(s) ==
  \A c \in calls : c.sandbox = s =>
    LET e == effect[s] IN
    /\ c.kind = "provision" =>
         /\ e.kind = "provision" /\ e.dispatched /\ e.id = c.effect
         /\ c.runtime = c.effect /\ runtime[s][c.effect] = "none"
    /\ c.kind = "resume" =>
         /\ e.kind = "resume" /\ e.dispatched /\ e.id = c.effect
         /\ runtime[s][identity[s]] \in Stopped
    /\ c.kind # "provision" => identity[s] # 0 /\ c.runtime = identity[s]

\* Why a create is not dispatched again: its effect is unsettled, it succeeded,
\* its slot is gone for good, or it carried credentials and has no claimant.
CreateOnce(s) ==
  creates[s] # {} =>
    \/ effect[s].kind = "provision" /\ effect[s].dispatched
    \/ operation[s].state = "succeeded"
    \/ ~Held(s) /\ (identity[s] = 0 \/ status[s] = "terminated")
    \/ operation[s].secret

\* Only the request that was admitted ever claims a create with credentials.
Creating(p, s) ==
  /\ job[p].sandbox = s
  /\ pc[p] \in Early \/ (pc[p] \in Driving /\ job[p].kind = "provision")
SecretShape(s) ==
  operation[s].secret =>
    /\ \A p, q \in Processes : Creating(p, s) /\ Creating(q, s) => p = q
    /\ creates[s] # {} => \A p \in Processes : job[p].sandbox = s => pc[p] \notin Early

\* What a process between two transactions knows about the effect it carries.
JobShape(p, s) ==
  job[p].sandbox = s =>
    /\ pc[p] # "idle"
    /\ pc[p] \in Carrying => job[p].effect # 0 /\ job[p].effect <= version[s]
    /\ pc[p] \in Early => job[p].runtime = 0
OwnerShape(p, s) ==
  OwnsAt(p, s) /\ pc[p] \in Carrying =>
    LET e == effect[s] IN
    /\ job[p].kind = e.kind
    /\ pc[p] = "preparing" <=> e.kind = "prepare"
    /\ pc[p] = "begun" => ~e.dispatched
    /\ pc[p] \in {"calling", "returned", "acknowledged", "persisted", "observed"} =>
         e.dispatched
    /\ pc[p] = "aborting" =>
         /\ e.kind = "provision" /\ runtime[s][e.id] = "none"
         /\ \A c \in calls : c.sandbox = s => c.kind # "provision"
    /\ pc[p] \in {"returned", "acknowledged", "persisted"} /\ e.kind = "provision" =>
         job[p].runtime = e.id /\ runtime[s][e.id] # "none"
    /\ pc[p] \in {"begun", "calling"} /\ e.kind = "provision" => job[p].runtime = 0
    /\ pc[p] = "doubtful" /\ e.kind = "provision" /\ job[p].runtime # 0 =>
         job[p].runtime = e.id /\ runtime[s][e.id] # "none"
    /\ pc[p] \in {"begun", "calling", "returned", "acknowledged"}
       /\ e.kind # "provision" => job[p].runtime = identity[s]
    /\ pc[p] = "persisted" => e.kind = "provision" /\ identity[s] = e.id
    /\ pc[p] = "observed" =>
         /\ e.kind \in {"pause", "resume", "delete"}
         /\ e.kind = "pause" => runtime[s][identity[s]] \in Stopped
         /\ e.kind = "resume" => \A c \in calls : c.sandbox = s => c.kind # "resume"
         /\ e.kind = "delete" => runtime[s][identity[s]] = "gone"
    /\ pc[p] \in {"found", "recovering"} =>
         /\ e.kind = "provision" /\ e.dispatched /\ job[p].runtime = e.id
         /\ runtime[s][e.id] # "none"
         /\ job[p].seen = "gone" /\ AuthoritativeLifecycle => runtime[s][e.id] = "gone"
         /\ job[p].seen = "paused" => runtime[s][e.id] \in Stopped

\* A lease observation whose version is still current saw the last word about
\* absence and suspension.
LeaseShape(p, s) ==
  job[p].sandbox = s /\ pc[p] = "leasing" =>
    /\ job[p].runtime # 0 /\ job[p].effect <= version[s] /\ job[p].runtime = identity[s]
    /\ job[p].seen = "gone" /\ AuthoritativeLifecycle => runtime[s][identity[s]] = "gone"
    /\ version[s] = job[p].effect =>
         /\ Settled(s)
         /\ job[p].seen = "paused" => runtime[s][identity[s]] \in Stopped

\* One process drives an effect.
OneDriver(s) ==
  \A p, q \in Processes :
    /\ pc[p] \in Driving /\ pc[q] \in Driving
    /\ job[p].sandbox = s /\ job[q].sandbox = s /\ job[p].effect = job[q].effect
    => p = q

\* The rows of a sandbox and the provider.
RowInv(s) ==
  /\ EffectShape(s) /\ RuntimeShape(s) /\ LiveShape(s) /\ PausedShape(s)
  /\ CreateOnce(s) /\ CallShape(s)
  /\ MayExecute(s) => Held(s)

\* The processes that act on it.
WorkInv(s) ==
  /\ AbsentShape(s) /\ SecretShape(s) /\ OneDriver(s)
  /\ \A p \in Processes : JobShape(p, s) /\ OwnerShape(p, s) /\ LeaseShape(p, s)

CapacityInv == \A s \in Sandboxes : RowInv(s) /\ WorkInv(s)
=============================================================================
