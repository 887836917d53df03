------------------------- MODULE SandboxCapacityProofs ------------------------
(***************************************************************************)
(* Every reachable state is well typed.  CapacityInv is inductive while the *)
(* stale-provision transaction itself does not fail, hence                 *)
(* HeldWhileExecuting, AtMostOneCreate and the other safety properties of  *)
(* the protocol, and its refinement of ExecutionSlots.                     *)
(*                                                                         *)
(* A step acts on one sandbox s, usually as one process p.  For the other  *)
(* sandboxes nothing changes (Elsewhere).  For s, RowInv(s)' is about what *)
(* the transaction wrote, and WorkInv(s)' is about what every process that *)
(* carries an effect of s knows after it.  Most transactions either settle *)
(* the effect, begin one, or leave it, and the lemmas are stated for those *)
(* three classes.                                                          *)
(***************************************************************************)
EXTENDS SandboxCapacityInvariant, FiniteSetTheorems, TLAPS

-----------------------------------------------------------------------------
(* Type correctness. *)

(* What the building blocks of the actions preserve. *)

LEMMA LedgerStays == LedgerType /\ UNCHANGED ledger => LedgerType'
  BY DEF LedgerType, ledger

LEMMA EffectsStay == EffectsType /\ UNCHANGED effects => EffectsType'
  BY DEF EffectsType, effects

LEMMA SandboxStays == SandboxType /\ UNCHANGED sandbox => SandboxType'
  BY DEF SandboxType, sandbox

LEMMA ProcessesStay == ProcessType /\ UNCHANGED processes => ProcessType'
  BY DEF ProcessType, processes

LEMMA ProviderStays == ProviderType /\ UNCHANGED provider => ProviderType'
  BY DEF ProviderType, provider

LEMMA ReleaseTyped ==
  ASSUME LedgerType, NEW s \in Sandboxes, NEW g, NEW reason, Release(s, g, reason)
  PROVE  LedgerType'
  BY DEF LedgerType, Release, Held, HeldPhases

LEMMA MarkTyped ==
  ASSUME LedgerType, NEW s \in Sandboxes, NEW g, NEW ph \in HeldPhases, Mark(s, g, ph)
  PROVE  LedgerType'
  BY DEF LedgerType, Mark

LEMMA ReserveTyped ==
  ASSUME LedgerType, NEW s \in Sandboxes, Reserve(s)
  PROVE  LedgerType' /\ generation'[s] \in Nat
  BY DEF LedgerType, Reserve, HeldPhases

LEMMA NoEffectTyped == NoEffect \in Effect
  BY BoundsAssumption DEF NoEffect, Effect

LEMMA BeginTyped ==
  ASSUME EffectsType, NEW s \in Sandboxes, NEW kind \in EffectKinds,
         NEW g \in Nat, NEW i \in 0 .. MaxEffects, Begin(s, kind, g, i)
  PROVE  EffectsType' /\ version[s] + 1 \in EffectIds
<1>1. version[s] + 1 \in EffectIds
  BY BoundsAssumption DEF EffectsType, Begin, Room, EffectIds
<1>2. NewEffect(s, kind, g, i) \in Effect
  BY <1>1 DEF NewEffect, Effect, EffectIds
<1> QED
  BY <1>1, <1>2 DEF EffectsType, Begin, EffectIds

LEMMA SettleTyped ==
  ASSUME EffectsType, NEW s \in Sandboxes, Settle(s)
  PROVE  EffectsType'
  BY NoEffectTyped DEF EffectsType, Settle

LEMMA TakeTyped ==
  ASSUME ProcessType, NEW p \in Processes, NEW point \in Points, NEW j \in Job,
         Carries(point, j), Take(p, point, j)
  PROVE  ProcessType'
  BY DEF ProcessType, Take

LEMMA GotoTyped ==
  ASSUME ProcessType, NEW p \in Processes, NEW point \in Points,
         Carries(point, job[p]), Goto(p, point)
  PROVE  ProcessType'
  BY DEF ProcessType, Goto

LEMMA NoJobTyped == NoJob \in Job
  BY BoundsAssumption DEF NoJob, Job, Observations, RuntimeStates

LEMMA RestTyped ==
  ASSUME ProcessType, NEW p \in Processes, Rest(p)
  PROVE  ProcessType'
  BY NoJobTyped, TakeTyped DEF Rest, Carries, Points

LEMMA FailTyped ==
  ASSUME ProcessType, NEW p \in Processes, Fail(p)
  PROVE  ProcessType'
<1>1. [NoJob EXCEPT !.sandbox = job[p].sandbox, !.attempts = job[p].attempts] \in Job
  BY NoJobTyped DEF ProcessType, Job
<1> QED
  BY <1>1, TakeTyped DEF Fail, Carries, Points

LEMMA JobTyped ==
  ASSUME NEW s \in Sandboxes, NEW kind \in EffectKinds \cup {"lease"},
         NEW id \in 0 .. MaxEffects
  PROVE  /\ EffectJob(s, kind, id) \in Job
         /\ EffectJob(s, kind, id).kind = kind
         /\ EffectJob(s, kind, id).effect = id
         /\ EffectJob(s, kind, id).sandbox = s
  BY NoJobTyped DEF EffectJob, Job, NoJob

LEMMA ObservedTyped ==
  ASSUME NEW j \in Job, NEW i \in 0 .. MaxEffects, NEW seen \in Observations
  PROVE  /\ Seeing(j, i, seen) \in Job
         /\ Seeing(j, i, seen).runtime = i
         /\ Seeing(j, i, seen).seen = seen
         /\ Seeing(j, i, seen).kind = j.kind
         /\ Seeing(j, i, seen).sandbox = j.sandbox
         /\ Seeing(j, i, seen).effect = j.effect
  BY DEF Job, Seeing

LEMMA BegunJobTyped ==
  ASSUME EffectsType, NEW s \in Sandboxes, NEW kind \in CallKinds,
         kind # "provision", NEW i \in EffectIds, version[s] + 1 \in EffectIds
  PROVE  BegunJob(s, kind, i) \in Job /\ Carries("begun", BegunJob(s, kind, i))
  BY JobTyped DEF BegunJob, Job, EffectIds, Carries, Target, CallKinds

LEMMA StatusTyped ==
  ASSUME SandboxType, NEW s \in Sandboxes, NEW st \in Statuses,
         SetStatus(s, st), UNCHANGED identity
  PROVE  SandboxType'
  BY DEF SandboxType, SetStatus

LEMMA OperationTyped ==
  ASSUME operation \in [Sandboxes -> Operation], NEW s \in Sandboxes,
         NEW st \in {"none", "queued", "running", "succeeded", "failed", "canceled"},
         operation' = [operation EXCEPT ![s].state = st]
  PROVE  operation' \in [Sandboxes -> Operation]
  BY DEF Operation

LEMMA ClaimTyped ==
  ASSUME operation \in [Sandboxes -> Operation], NEW s \in Sandboxes, Claim(s),
         operation[s].attempts < MaxAttempts, NEW role \in {"api", "worker"}
  PROVE  /\ operation' \in [Sandboxes -> Operation]
         /\ ClaimJob(s, role) \in Job /\ ClaimJob(s, role).kind = "provision"
<1>1. operation'[s] \in Operation
  BY DEF Claim, Operation
<1>2. operation[s].attempts + 1 \in 0 .. MaxAttempts
  BY BoundsAssumption DEF Operation
<1>3. ClaimJob(s, role) \in Job /\ ClaimJob(s, role).kind = "provision"
  BY <1>2, NoJobTyped DEF ClaimJob, NoJob, Job, EffectKinds
<1> QED
  BY <1>1, <1>3 DEF Claim

LEMMA TypeInit == Init => TypeOK
<1> SUFFICES ASSUME Init PROVE TypeOK
  OBVIOUS
<1>1. LedgerType /\ EffectsType /\ SandboxType
  BY BoundsAssumption, NoEffectTyped
  DEF Init, LedgerType, EffectsType, SandboxType, Statuses, HeldPhases
<1>2. ProcessType
  BY NoJobTyped DEF Init, ProcessType, Points, Carries
<1>3. operation \in [Sandboxes -> Operation]
  BY BoundsAssumption DEF Init, Operation
<1>4. ProviderType
  BY DEF Init, ProviderType, RuntimeStates
<1> QED
  BY BoundsAssumption, <1>1, <1>2, <1>3, <1>4 DEF Init, TypeOK

LEMMA CancelTyped ==
  ASSUME TypeOK, NEW s \in Sandboxes, CancelBeforeDispatch(s)
  PROVE  TypeOK'
<1> USE DEF TypeOK
<1>1. operation' \in [Sandboxes -> Operation]
  BY DEF CancelBeforeDispatch, Operation
<1> QED
  BY <1>1, SettleTyped, StatusTyped, ReleaseTyped, ProcessesStay, ProviderStays
  DEF CancelBeforeDispatch, Statuses

LEMMA RecoverTyped ==
  ASSUME TypeOK, NEW p \in Processes, NEW s \in Sandboxes, RecoverRuntime(p, s)
  PROVE  TypeOK'
<1> USE DEF TypeOK
<1> DEFINE i == job[p].runtime
<1>1. /\ i \in EffectIds /\ i \in 0 .. MaxEffects /\ generation[s] \in Nat
  BY DEF RecoverRuntime, At, ProcessType, Carries, EffectIds, LedgerType
<1>a. Adopted(job[p].seen) \in Statuses
  BY DEF RecoverRuntime, At, ProcessType, Carries, Adopted, Statuses, Recoverable, LiveStates
<1>2. CASE /\ operation[s].secret /\ Begin(s, "delete", generation[s], i)
           /\ Take(p, "begun", BegunJob(s, "delete", i))
           /\ identity' = [identity EXCEPT ![s] = i] /\ SetStatus(s, "error")
           /\ SetOperation(s, "failed") /\ Mark(s, generation[s], "releasing")
  <2>1. EffectsType' /\ version[s] + 1 \in EffectIds
    BY <1>1, <1>2, BeginTyped DEF EffectKinds
  <2>2. ProcessType'
    BY <1>1, <1>2, <2>1, BegunJobTyped, TakeTyped DEF CallKinds, EffectKinds, Points
  <2>3. SandboxType'
    BY <1>1, <1>2 DEF SetStatus, SandboxType, Statuses
  <2> QED
    BY <1>2, <2>1, <2>2, <2>3, MarkTyped, OperationTyped, ProviderStays
    DEF RecoverRuntime, SetOperation, HeldPhases
<1>3. CASE /\ identity' = [identity EXCEPT ![s] = i] /\ SetStatus(s, Adopted(job[p].seen))
           /\ SetOperation(s, "succeeded") /\ Settle(s)
           /\ Mark(s, effect[s].generation,
                   IF job[p].seen = "running" THEN "active" ELSE "reserved")
           /\ Rest(p)
  <2>1. SandboxType'
    BY <1>1, <1>3, <1>a DEF SetStatus, SandboxType
  <2> QED
    BY <1>3, <2>1, SettleTyped, MarkTyped, OperationTyped, RestTyped, ProviderStays
    DEF RecoverRuntime, SetOperation, HeldPhases
<1>4. CASE Rest(p) /\ UNCHANGED <<sandbox, operation, effects, ledger>>
  BY <1>4, RestTyped, LedgerStays, EffectsStay, SandboxStays, ProviderStays
  DEF RecoverRuntime
<1> QED
  BY <1>2, <1>3, <1>4 DEF RecoverRuntime

(* Requests and the preparation and claims of a create. *)
LEMMA CreateTyped ==
  ASSUME TypeOK, NEW p \in Processes, NEW s \in Sandboxes,
         Request(p, s) \/ Create(p, s)
  PROVE  TypeOK'
<1> USE DEF TypeOK
<1>a. /\ effect[s] \in Effect /\ identity[s] \in 0 .. MaxEffects
      /\ generation[s] \in Nat /\ job[p] \in Job /\ Carries(pc[p], job[p])
  BY DEF EffectsType, SandboxType, LedgerType, ProcessType
<1>1. CASE AdmitCreate(p, s)
  <2>1. LedgerType' /\ EffectsType' /\ version[s] + 1 \in EffectIds
    <3>1. Reserve(s) /\ Begin(s, "prepare", generation[s] + 1, 0)
      BY <1>1 DEF AdmitCreate
    <3>2. LedgerType'
      BY <3>1, ReserveTyped
    <3>3. /\ generation[s] + 1 \in Nat /\ 0 \in 0 .. MaxEffects
          /\ "prepare" \in EffectKinds
      BY <1>a, BoundsAssumption DEF EffectKinds
    <3>4. EffectsType' /\ version[s] + 1 \in EffectIds
      BY <3>1, <3>3, BeginTyped
    <3> QED
      BY <3>2, <3>4
  <2>2. BegunJob(s, "prepare", 0) \in Job
    BY BoundsAssumption, <2>1, JobTyped DEF BegunJob, Job, EffectKinds, EffectIds
  <2>3. ProcessType'
    BY <1>1, <2>2, TakeTyped DEF AdmitCreate, Points, Carries
  <2>4. operation' \in [Sandboxes -> Operation]
    BY BoundsAssumption, <1>1 DEF AdmitCreate, Operation
  <2> QED
    BY <1>1, <2>1, <2>3, <2>4, StatusTyped, ProviderStays
    DEF AdmitCreate, Statuses
<1>2. CASE FinishPreparation(p, s)
  <2>1. [NoJob EXCEPT !.sandbox = s] \in Job
    BY NoJobTyped DEF Job
  <2>2. ProcessType'
    BY <1>2, <2>1, TakeTyped, RestTyped DEF FinishPreparation, Points, Carries
  <2>3. operation' \in [Sandboxes -> Operation]
    BY <1>2 DEF FinishPreparation, Operation
  <2> QED
    BY <1>2, <2>2, <2>3, SettleTyped, LedgerStays, SandboxStays, ProviderStays
    DEF FinishPreparation
<1>3. CASE AbandonPreparation(p, s)
  <2>1. SandboxType'
    BY <1>3 DEF AbandonPreparation, SandboxType, Statuses
  <2> QED
    BY <1>3, <2>1, SettleTyped, ReleaseTyped, RestTyped, OperationTyped, ProviderStays
    DEF AbandonPreparation, SetOperation
<1>4. CASE ClaimById(p, s)
  <2>1. ProcessType' /\ operation' \in [Sandboxes -> Operation]
    BY <1>4, ClaimTyped, TakeTyped, RestTyped DEF ClaimById, Points, Carries
  <2> QED
    BY <1>4, <2>1, LedgerStays, EffectsStay, SandboxStays, ProviderStays DEF ClaimById
<1>5. CASE CheckReplay(p, s)
  <2>1. ProcessType'
    BY <1>5, <1>a, GotoTyped, FailTyped DEF CheckReplay, At, Points, Carries
  <2> QED
    BY <1>5, <2>1, LedgerStays, EffectsStay, SandboxStays, ProviderStays
    DEF CheckReplay, database
<1>6. CASE FailOperation(p, s)
  <2>1. operation' \in [Sandboxes -> Operation]
    BY <1>6 DEF FailOperation, FailClaim, Operation
  <2> QED
    BY <1>6, <2>1, RestTyped, LedgerStays, EffectsStay, SandboxStays, ProviderStays
    DEF FailOperation
<1>7. CASE BeginProvision(p, s)
  <2>1. CASE Completable(s, job[p].attempts, {"running"}) /\ phase[s] = "reserved" /\ Settled(s)
    <3> DEFINE j == [job[p] EXCEPT !.effect = version[s] + 1]
    <3>1. EffectsType' /\ version[s] + 1 \in EffectIds
      BY <1>7, <1>a, <2>1, BeginTyped DEF BeginProvision, EffectKinds
    <3>2. j \in Job
      BY <1>a, <3>1 DEF Job, EffectIds
    <3>3. Carries("begun", j)
      BY <1>7, <1>a, <3>1
      DEF BeginProvision, At, Job, Carries, Target, CallKinds, EffectKinds
    <3> QED
      BY <1>7, <2>1, <3>1, <3>2, <3>3, TakeTyped, LedgerStays, SandboxStays, ProviderStays
      DEF BeginProvision, Points
  <2>2. CASE ~(Completable(s, job[p].attempts, {"running"}) /\ phase[s] = "reserved" /\ Settled(s))
    <3>1. ProcessType'
      BY <1>7, <2>2, FailTyped DEF BeginProvision, Points, Carries
    <3> QED
      BY <1>7, <2>2, <3>1, LedgerStays, EffectsStay, SandboxStays, ProviderStays
      DEF BeginProvision
  <2> QED
    BY <2>1, <2>2
<1>8. CASE RefuseInput(p, s)
  <2>1. ProcessType'
    BY <1>8, GotoTyped DEF RefuseInput, Points, Carries
  <2> QED
    BY <1>8, <2>1, LedgerStays, EffectsStay, SandboxStays, ProviderStays
    DEF RefuseInput, database
<1>9. CASE AbortProvision(p, s)
  <2>1. ProcessType'
    BY <1>9, FailTyped DEF AbortProvision
  <2> QED
    BY <1>9, <2>1, SettleTyped, ReleaseTyped, SandboxStays, ProviderStays DEF AbortProvision
<1>10. CASE Persist(p, s)
  <2>a. job[p].runtime \in 0 .. MaxEffects /\ job[p].seen \in Statuses
    BY <1>10, <1>a DEF Persist, At, Carries, Statuses, EffectIds
  <2>1. SandboxType'
    BY <1>10, <2>a DEF Persist, SetStatus, SandboxType, sandbox
  <2>2. ProcessType'
    BY <1>10, <1>a, GotoTyped DEF Persist, At, Carries, Points
  <2> QED
    BY <1>10, <2>1, <2>2, LedgerStays, EffectsStay, ProviderStays DEF Persist
<1>11. CASE CompleteProvision(p, s)
  <2>1. CASE Completable(s, job[p].attempts, {"running"})
    BY <1>11, <2>1, SettleTyped, MarkTyped, OperationTyped, RestTyped, SandboxStays,
       ProviderStays
    DEF CompleteProvision, SetOperation, HeldPhases
  <2>2. CASE ~Completable(s, job[p].attempts, {"running"})
    <3>1. ProcessType'
      BY <1>11, <2>2, FailTyped, RestTyped DEF CompleteProvision
    <3> QED
      BY <1>11, <2>2, <3>1, LedgerStays, EffectsStay, SandboxStays, ProviderStays
      DEF CompleteProvision
  <2> QED
    BY <2>1, <2>2
<1>12. CASE RollbackCredentialCreate(p, s)
  <2>1. job[p].runtime \in EffectIds /\ job[p].runtime \in 0 .. MaxEffects
    BY <1>12, <1>a DEF RollbackCredentialCreate, At, Carries, EffectIds
  <2>2. EffectsType' /\ version[s] + 1 \in EffectIds
    BY <1>12, <1>a, <2>1, BeginTyped DEF RollbackCredentialCreate, EffectKinds
  <2>3. ProcessType'
    BY <1>12, <2>1, <2>2, BegunJobTyped, TakeTyped
    DEF RollbackCredentialCreate, CallKinds, EffectKinds, Points
  <2>4. LedgerType' /\ SandboxType' /\ operation' \in [Sandboxes -> Operation]
    BY <1>12, MarkTyped, StatusTyped, OperationTyped
    DEF RollbackCredentialCreate, SetOperation, HeldPhases, Statuses
  <2> QED
    BY <1>12, <2>2, <2>3, <2>4, ProviderStays DEF RollbackCredentialCreate
<1>13. CASE BeginPause(p, s)
  <2>1. identity[s] \in EffectIds
    BY <1>13, <1>a DEF BeginPause, EffectIds
  <2>2. EffectsType' /\ version[s] + 1 \in EffectIds
    BY <1>13, <1>a, BeginTyped DEF BeginPause, EffectKinds
  <2>3. ProcessType'
    BY <1>13, <2>1, <2>2, BegunJobTyped, TakeTyped
    DEF BeginPause, CallKinds, EffectKinds, Points
  <2> QED
    BY <1>13, <2>2, <2>3, StatusTyped, LedgerStays, ProviderStays DEF BeginPause, Statuses
<1>14. CASE BeginResume(p, s)
  <2>1. identity[s] \in EffectIds
    BY <1>14, <1>a DEF BeginResume, EffectIds
  <2>2. LedgerType' /\ generation'[s] \in Nat
    BY <1>14, <1>a, ReserveTyped, MarkTyped DEF BeginResume, HeldPhases, Mark
  <2>3. EffectsType' /\ version[s] + 1 \in EffectIds
    BY <1>14, <1>a, <2>2, BeginTyped DEF BeginResume, EffectKinds
  <2>4. ProcessType'
    BY <1>14, <2>1, <2>3, BegunJobTyped, TakeTyped
    DEF BeginResume, CallKinds, EffectKinds, Points
  <2> QED
    BY <1>14, <2>2, <2>3, <2>4, StatusTyped, ProviderStays DEF BeginResume, Statuses
<1>15. CASE RequestDeletion(p, s)
  <2>1. identity[s] \in EffectIds
    BY <1>15, <1>a DEF RequestDeletion, EffectIds
  <2>2. EffectsType' /\ version[s] + 1 \in EffectIds
    BY <1>15, <1>a, BeginTyped DEF RequestDeletion, EffectKinds
  <2>3. ProcessType'
    BY <1>15, <2>1, <2>2, BegunJobTyped, TakeTyped
    DEF RequestDeletion, CallKinds, EffectKinds, Points
  <2> QED
    BY <1>15, <2>2, <2>3, MarkTyped, SandboxStays, ProviderStays
    DEF RequestDeletion, HeldPhases
<1>16. CASE CancelBeforeDispatch(s)
  BY <1>16, CancelTyped
<1> QED
  BY <1>1, <1>2, <1>3, <1>4, <1>5, <1>6, <1>7, <1>8, <1>9, <1>10, <1>11, <1>12, <1>13,
     <1>14, <1>15, <1>16
  DEF Request, Create

(* A process that carries out its effect. *)
LEMMA CarryTyped ==
  ASSUME TypeOK, NEW p \in Processes, NEW s \in Sandboxes, Carry(p, s)
  PROVE  TypeOK'
<1> USE DEF TypeOK
<1>a. /\ effect[s] \in Effect /\ job[p] \in Job /\ Carries(pc[p], job[p])
  BY DEF EffectsType, ProcessType
<1>b. pc[p] = "begun" /\ Owns(p) /\ job[p].sandbox = s /\ MarkDispatched(s) => EffectsType'
  <2> SUFFICES ASSUME pc[p] = "begun", Owns(p), job[p].sandbox = s, MarkDispatched(s)
               PROVE  EffectsType'
    OBVIOUS
  <2>1. effect[s].id \in EffectIds
    BY <1>a DEF Owns, Carries
  <2>2. [effect[s] EXCEPT !.dispatched = TRUE] \in Effect
    BY <1>a DEF Effect
  <2> QED
    BY <2>1, <2>2 DEF MarkDispatched, EffectsType
<1>1. CASE Dispatch(p, s)
  <2>1. calls' \subseteq Call
    BY <1>1, <1>a DEF Dispatch, At, Carries, Call, ProviderType
  <2>2. ProcessType'
    BY <1>1, <1>a, GotoTyped DEF Dispatch, At, Carries, Points
  <2> QED
    BY <1>1, <1>b, <2>1, <2>2, LedgerStays, SandboxStays DEF Dispatch, At, ProviderType
<1>2. CASE LoseDispatchReply(p, s)
  <2>1. ProcessType'
    BY <1>2, GotoTyped DEF LoseDispatchReply, Carries, Points
  <2> QED
    BY BoundsAssumption, <1>2, <1>b, <2>1, LedgerStays, SandboxStays, ProviderStays DEF LoseDispatchReply, At
<1>3. CASE TimeOut(p, s)
  <2>1. ProcessType'
    BY <1>3, GotoTyped DEF TimeOut, Carries, Points
  <2> QED
    BY <1>3, <2>1, LedgerStays, EffectsStay, SandboxStays, ProviderStays
    DEF TimeOut, database
<1>4. CASE Acknowledge(p, s)
  <2>1. EffectsType'
    BY <1>4, <1>a DEF Acknowledge, EffectsType, Effect, Job
  <2>2. ProcessType'
    BY <1>4, <1>a, GotoTyped DEF Acknowledge, At, Carries, Points
  <2> QED
    BY <1>4, <2>1, <2>2, LedgerStays, SandboxStays, ProviderStays DEF Acknowledge
<1>5. CASE AwaitState(p, s)
  <2>a. /\ job[p].kind \in EffectKinds \cup {"none", "lease"} /\ job[p].effect \in 0 .. MaxEffects
        /\ [NoJob EXCEPT !.sandbox = s, !.kind = job[p].kind, !.effect = job[p].effect] \in Job
    BY <1>a, NoJobTyped DEF Job
  <2>1. ProcessType'
    BY <1>5, <2>a, TakeTyped, RestTyped DEF AwaitState, EffectJob, Carries, Points
  <2> QED
    BY <1>5, <2>1, LedgerStays, EffectsStay, SandboxStays, ProviderStays
    DEF AwaitState, database
<1>6. CASE MarkUncertain(p, s)
  <2>1. EffectsType'
    BY <1>6, <1>a DEF MarkUncertain, EffectsType, Effect, Job
  <2>2. LedgerType'
    BY <1>6 DEF MarkUncertain, LedgerType, HeldPhases
  <2>3. ProcessType'
    BY <1>6, FailTyped, RestTyped DEF MarkUncertain
  <2> QED
    BY <1>6, <2>1, <2>2, <2>3, SandboxStays, ProviderStays DEF MarkUncertain
<1>7. CASE Fenced(p, s)
  <2>1. ProcessType'
    BY <1>7, GotoTyped, FailTyped, RestTyped DEF Fenced, Carries, Points
  <2> QED
    BY <1>7, <2>1, LedgerStays, EffectsStay, SandboxStays, ProviderStays
    DEF Fenced, database
<1>8. CASE FinishLifecycle(p, s)
  <2>1. LedgerType'
    BY <1>8, ReleaseTyped, MarkTyped DEF FinishLifecycle, HeldPhases
  <2> QED
    BY <1>8, <2>1, SettleTyped, StatusTyped, RestTyped, ProviderStays
    DEF FinishLifecycle, Statuses
<1>9. CASE FinishDeletion(p, s)
  BY <1>9, ReleaseTyped, SettleTyped, StatusTyped, RestTyped, ProviderStays
  DEF FinishDeletion, Statuses
<1> QED
  BY <1>1, <1>2, <1>3, <1>4, <1>5, <1>6, <1>7, <1>8, <1>9 DEF Carry

(* The queue and the scheduler. *)
LEMMA WorkTyped ==
  ASSUME TypeOK, NEW p \in Processes, NEW s \in Sandboxes, Work(p, s)
  PROVE  TypeOK'
<1> USE DEF TypeOK
<1>1. CASE ClaimNext(p, s)
  <2>1. ProcessType' /\ operation' \in [Sandboxes -> Operation]
    BY <1>1, ClaimTyped, TakeTyped DEF ClaimNext, Points, Carries
  <2> QED
    BY <1>1, <2>1, LedgerStays, EffectsStay, SandboxStays, ProviderStays DEF ClaimNext
<1>2. CASE ClaimStale(p, s)
  <2> DEFINE j == [NoJob EXCEPT !.sandbox = s, !.kind = "provision",
                                !.attempts = operation[s].attempts]
  <2>1. j \in Job
    BY NoJobTyped DEF Job, Operation, EffectKinds
  <2>2. ProcessType'
    BY <1>2, <2>1, TakeTyped DEF ClaimStale, Points, Carries
  <2> QED
    BY <1>2, <2>2, LedgerStays, EffectsStay, SandboxStays, ProviderStays
    DEF ClaimStale, database
<1>3. CASE ReconcileStale(p, s)
  <2>1. operation' \in [Sandboxes -> Operation]
    BY <1>3 DEF ReconcileStale, Operation
  <2> QED
    BY <1>3, <2>1, RestTyped, LedgerStays, EffectsStay, SandboxStays, ProviderStays
    DEF ReconcileStale
<1>4. CASE ReconcileStaleError(p, s)
  <2>1. operation' \in [Sandboxes -> Operation]
    BY <1>4, OperationTyped DEF ReconcileStaleError, SetOperation
  <2>2. ProcessType'
    BY <1>4, RestTyped DEF ReconcileStaleError
  <2> QED
    BY BoundsAssumption, <1>4, <2>1, <2>2, LedgerStays, EffectsStay, SandboxStays, ProviderStays
    DEF ReconcileStaleError
<1> QED
  BY <1>1, <1>2, <1>3, <1>4 DEF Work

LEMMA ReconcileTyped ==
  ASSUME TypeOK, NEW p \in Processes, NEW s \in Sandboxes, Reconcile(p, s)
  PROVE  TypeOK'
<1> USE DEF TypeOK
<1>a. /\ effect[s] \in Effect /\ identity[s] \in 0 .. MaxEffects
      /\ generation[s] \in Nat /\ version[s] \in 0 .. MaxEffects
      /\ job[p] \in Job /\ Carries(pc[p], job[p])
      /\ \A i \in EffectIds : runtime[s][i] \in RuntimeStates
  BY DEF EffectsType, SandboxType, LedgerType, ProcessType, ProviderType
<1>1. CASE CancelUndispatched(s)
  <2>1. LedgerType'
    BY <1>1, ReleaseTyped, MarkTyped DEF CancelUndispatched, HeldPhases
  <2>2. SandboxType'
    BY <1>1 DEF CancelUndispatched, SetStatus, SandboxType, Statuses
  <2>3. operation' \in [Sandboxes -> Operation]
    BY <1>1, OperationTyped DEF CancelUndispatched, SetOperation
  <2> QED
    BY <1>1, <2>1, <2>2, <2>3, SettleTyped, ProcessesStay, ProviderStays
    DEF CancelUndispatched
<1>2. CASE ReconcileAbandoned(s)
  BY <1>2, CancelTyped DEF ReconcileAbandoned
<1>3. CASE ObserveEffect(p, s)
  <2>1. ProcessType'
    BY <1>3, <1>a, JobTyped, TakeTyped
    DEF ObserveEffect, Evidence, EffectKinds, Effect, Points, Carries
  <2> QED
    BY <1>3, <2>1, LedgerStays, EffectsStay, SandboxStays, ProviderStays
    DEF ObserveEffect, database
<1>4. CASE FindRuntime(p, s)
  <2>c. PICK i \in EffectIds : \E seen \in Reports(s, i) :
          Take(p, "found", Seeing(EffectJob(s, "provision", i), i, Known(seen)))
    BY <1>4 DEF FindRuntime
  <2>1. PICK seen \in Reports(s, i) :
          Take(p, "found", Seeing(EffectJob(s, "provision", i), i, Known(seen)))
    BY <2>c
  <2> DEFINE j == Seeing(EffectJob(s, "provision", i), i, Known(seen))
  <2>a. Known(seen) \in Observations /\ Known(seen) \in Recoverable
    BY DEF Known, Recoverable, Observations, RuntimeStates, LiveStates
  <2>b. EffectJob(s, "provision", i) \in Job /\ i \in 0 .. MaxEffects
    BY JobTyped DEF EffectIds, EffectKinds
  <2>2. j \in Job /\ j.runtime = i /\ j.seen \in Recoverable
    BY <2>a, <2>b, ObservedTyped
  <2>3. ProcessType'
    BY <2>1, <2>2, TakeTyped DEF Points, Carries
  <2> QED
    BY <1>4, <2>3, LedgerStays, EffectsStay, SandboxStays, ProviderStays
    DEF FindRuntime, database
<1>5. CASE RecoverAcknowledge(p, s)
  <2>1. EffectsType'
    BY <1>5, <1>a DEF RecoverAcknowledge, EffectsType, Effect, Job
  <2>2. ProcessType'
    BY <1>5, <1>a, GotoTyped DEF RecoverAcknowledge, At, Carries, Points
  <2> QED
    BY <1>5, <2>1, <2>2, LedgerStays, SandboxStays, ProviderStays DEF RecoverAcknowledge
<1>6. CASE GetRuntime(p, s)
  <2> DEFINE i == effect[s].runtime
  <2>1. i \in EffectIds
    BY <1>6, <1>a DEF GetRuntime, Effect, EffectIds
  <2>c. PICK seen \in Reports(s, i) :
          Take(p, "recovering", Seeing(EffectJob(s, "provision", effect[s].id), i, Known(seen)))
    BY <1>6 DEF GetRuntime
  <2> DEFINE j == Seeing(EffectJob(s, "provision", effect[s].id), i, Known(seen))
  <2>2. effect[s].id \in 0 .. MaxEffects /\ i \in 0 .. MaxEffects
    BY <1>a DEF Effect
  <2>a. Known(seen) \in Observations /\ Known(seen) \in Recoverable
    BY DEF Known, Recoverable, Observations, RuntimeStates, LiveStates
  <2>b. EffectJob(s, "provision", effect[s].id) \in Job
    BY <2>2, JobTyped DEF EffectKinds
  <2>3. j \in Job /\ j.runtime = i /\ j.seen \in Recoverable
    BY <2>2, <2>a, <2>b, ObservedTyped
  <2>4. ProcessType'
    BY <2>1, <2>c, <2>3, TakeTyped DEF Points, Carries
  <2> QED
    BY <1>6, <2>4, LedgerStays, EffectsStay, SandboxStays, ProviderStays
    DEF GetRuntime, database
<1>7. CASE RecoverAbsent(p, s)
  <2>1. CASE AuthoritativeLifecycle
    BY <1>7, <2>1, SettleTyped, StatusTyped, ReleaseTyped, OperationTyped, RestTyped,
       ProviderStays
    DEF RecoverAbsent, SetOperation, Statuses
  <2>2. CASE ~AuthoritativeLifecycle
    BY <1>7, <2>2, RestTyped, LedgerStays, EffectsStay, SandboxStays, ProviderStays
    DEF RecoverAbsent, sandbox
  <2> QED
    BY <2>1, <2>2
<1>8. CASE RecoverRuntime(p, s)
  BY <1>8, <1>a, RecoverTyped
<1>9. CASE ObserveLease(p, s)
  <2>1. PICK seen \in Reports(s, identity[s]) :
          Take(p, "leasing", Seeing(LeaseJob(s), identity[s], seen))
    BY <1>9 DEF ObserveLease
  <2> DEFINE j == Seeing(LeaseJob(s), identity[s], seen)
  <2>2. identity[s] \in EffectIds
    BY <1>9, <1>a DEF ObserveLease, EffectIds
  <2>3. seen \in Observations /\ LeaseJob(s) \in Job
    BY <1>a, <2>2, JobTyped DEF Reports, Observations, RuntimeStates, LeaseJob, Job
  <2>4. j \in Job /\ j.runtime = identity[s]
    BY <1>a, <2>3, ObservedTyped
  <2>5. ProcessType'
    BY <2>1, <2>2, <2>4, TakeTyped DEF Points, Carries
  <2> QED
    BY <1>9, <2>5, LedgerStays, EffectsStay, SandboxStays, ProviderStays
    DEF ObserveLease, database
<1>10. CASE LeaseFenced(p, s)
  BY <1>10, RestTyped, LedgerStays, EffectsStay, SandboxStays, ProviderStays
  DEF LeaseFenced, database
<1>11. CASE LeaseAbsent(p, s)
  BY <1>11, StatusTyped, ReleaseTyped, RestTyped, EffectsStay, ProviderStays
  DEF LeaseAbsent, Statuses
<1>12. CASE LeaseUnknown(p, s)
  BY <1>12, MarkTyped, RestTyped, EffectsStay, SandboxStays, ProviderStays
  DEF LeaseUnknown, HeldPhases
<1>13. CASE LeaseObserved(p, s)
  <2>1. SandboxType'
    BY <1>13, StatusTyped DEF LeaseObserved, LiveStates, Statuses
  <2>2. job[p].runtime \in EffectIds /\ job[p].runtime \in 0 .. MaxEffects
    BY <1>13, <1>a DEF LeaseObserved, At, Carries, EffectIds
  <2>3. LedgerType'
    BY <1>13, ReleaseTyped, MarkTyped DEF LeaseObserved, LeasePhase, HeldPhases
  <2>4. CASE Begin(s, "delete", generation[s], job[p].runtime)
             /\ Take(p, "begun", BegunJob(s, "delete", job[p].runtime))
    <3>1. EffectsType' /\ version[s] + 1 \in EffectIds
      BY <1>a, <2>2, <2>4, BeginTyped DEF EffectKinds
    <3>2. ProcessType'
      BY <2>2, <2>4, <3>1, BegunJobTyped, TakeTyped DEF CallKinds, EffectKinds, Points
    <3> QED
      BY <1>13, <2>1, <2>3, <3>1, <3>2, ProviderStays DEF LeaseObserved
  <2>5. CASE Rest(p) /\ UNCHANGED effects
    BY <1>13, <2>1, <2>3, <2>5, RestTyped, EffectsStay, ProviderStays DEF LeaseObserved
  <2> QED
    BY <1>13, <2>4, <2>5 DEF LeaseObserved
<1> QED
  BY <1>1, <1>2, <1>3, <1>4, <1>5, <1>6, <1>7, <1>8, <1>9, <1>10, <1>11, <1>12, <1>13
  DEF Reconcile

LEMMA ProviderTyped ==
  ASSUME TypeOK, Provider
  PROVE  TypeOK'
<1> USE DEF TypeOK
<1>1. ASSUME NEW c \in calls, Perform(c) PROVE TypeOK'
  <2>1. c \in Call
    BY DEF ProviderType
  <2>2. c.runtime \in EffectIds /\ runtime[c.sandbox][c.runtime] \in RuntimeStates
    BY <2>1 DEF ProviderType, Call
  <2>3. PICK state \in Result(c.kind, runtime[c.sandbox][c.runtime]) :
          /\ runtime' = [runtime EXCEPT ![c.sandbox][c.runtime] = state]
          /\ Answer(c, "returned", state)
    BY <1>1 DEF Perform
  <2>4. state \in RuntimeStates /\ (c.kind = "provision" => state \in {"pending", "running"})
    BY <2>2, <2>3 DEF Result, RuntimeStates, LiveStates
  <2>5. ProviderType'
    BY <2>1, <2>3, <2>4 DEF ProviderType, Answer, Call
  <2>6. ASSUME NEW p \in Processes, Waits(p, c)
        PROVE  /\ pc'[p] = "returned" /\ job'[p] \in Job
               /\ Carries(pc'[p], job'[p])
    <3>1. job[p] \in Job /\ job[p].kind = c.kind
      BY <2>6 DEF ProcessType, Waits
    <3>2. pc'[p] = "returned" /\ job'[p] = Seeing(job[p], c.runtime, state)
      BY <2>3, <2>6 DEF Answer
    <3>3. c.runtime \in 0 .. MaxEffects /\ state \in Observations
      BY <2>2, <2>4 DEF EffectIds, Observations
    <3>4. /\ job'[p] \in Job /\ job'[p].runtime = c.runtime
          /\ job'[p].seen = state /\ job'[p].kind = c.kind
      BY <3>1, <3>2, <3>3, ObservedTyped
    <3> QED
      BY <2>2, <2>4, <3>2, <3>4 DEF Carries
  <2>7. ASSUME NEW p \in Processes, ~Waits(p, c)
        PROVE  pc'[p] = pc[p] /\ job'[p] = job[p]
    BY <2>3, <2>7 DEF Answer
  <2>8. ProcessType'
    <3>1. pc' = [p \in Processes |-> pc'[p]] /\ job' = [p \in Processes |-> job'[p]]
      BY <2>3 DEF Answer
    <3>2. \A p \in Processes :
            pc'[p] \in Points /\ job'[p] \in Job /\ Carries(pc'[p], job'[p])
      BY <2>6, <2>7 DEF ProcessType, Points
    <3> QED
      BY <3>1, <3>2 DEF ProcessType
  <2> QED
    BY <1>1, <2>5, <2>8, LedgerStays, EffectsStay, SandboxStays DEF Perform, database
<1>2. ASSUME NEW c \in calls, Refuse(c) PROVE TypeOK'
  <2>1. ProviderType'
    BY <1>2 DEF Refuse, Answer, ProviderType
  <2>2. ProcessType'
    BY <1>2 DEF Refuse, Answer, ProcessType, Points, Carries
  <2> QED
    BY <1>2, <2>1, <2>2, LedgerStays, EffectsStay, SandboxStays DEF Refuse, database
<1>3. ASSUME NEW s \in Sandboxes, NEW i \in EffectIds,
             RuntimeSettles(s, i) \/ RuntimeEnds(s, i)
      PROVE  TypeOK'
  <2>1. ProviderType'
    BY BoundsAssumption, <1>3 DEF RuntimeSettles, RuntimeEnds, ProviderType, RuntimeStates, LiveStates
  <2> QED
    BY <1>3, <2>1, LedgerStays, EffectsStay, SandboxStays, ProcessesStay
    DEF RuntimeSettles, RuntimeEnds, database
<1> QED
  BY <1>1, <1>2, <1>3 DEF Provider

\* Every variable keeps its type: the rows of the database, the program points
\* with the values carried there, and the provider.
THEOREM TypeCorrect == Spec => []TypeOK
<1>1. TypeOK /\ [Next]_vars => TypeOK'
  <2> SUFFICES ASSUME TypeOK, [Next]_vars PROVE TypeOK'
    OBVIOUS
  <2>1. CASE Provider
    BY <2>1, ProviderTyped
  <2>2. ASSUME NEW n \in Limits, SetLimit(n) PROVE TypeOK'
    BY <2>2, LedgerStays, EffectsStay, SandboxStays, ProcessesStay, ProviderStays
    DEF SetLimit, TypeOK
  <2>3. ASSUME NEW p \in Processes, Crash(p) PROVE TypeOK'
    BY BoundsAssumption, <2>3, RestTyped, LedgerStays, EffectsStay, SandboxStays, ProviderStays
    DEF Crash, TypeOK, database
  <2>4. CASE UNCHANGED vars
    BY <2>4, LedgerStays, EffectsStay, SandboxStays, ProcessesStay, ProviderStays
    DEF vars, database, TypeOK
  <2> QED
    BY <2>1, <2>2, <2>3, <2>4, CreateTyped, CarryTyped, WorkTyped, ReconcileTyped DEF Next
<1> QED
  BY TypeInit, <1>1, PTL DEF Spec

-----------------------------------------------------------------------------
(* What a step leaves alone. *)

Stays(q) == pc'[q] = pc[q] /\ job'[q] = job[q]
Only(p)  == \A q \in Processes : q # p => Stays(q)

NoNewCalls(s) == \A c \in calls' : c.sandbox = s => c \in calls

LedgerSame(s) ==
  generation'[s] = generation[s] /\ phase'[s] = phase[s] /\ suspended'[s] = suspended[s]
EffectsSame(s) ==
  effect'[s] = effect[s] /\ version'[s] = version[s] /\ creates'[s] = creates[s]
SandboxSame(s) == status'[s] = status[s] /\ identity'[s] = identity[s]
ProviderSame(s) == runtime'[s] = runtime[s] /\ NoNewCalls(s)
RowsSame(s) ==
  /\ LedgerSame(s) /\ EffectsSame(s) /\ SandboxSame(s) /\ ProviderSame(s)
  /\ operation'[s] = operation[s]
WorkSame(s) ==
  \A q \in Processes : job[q].sandbox = s \/ job'[q].sandbox = s => Stays(q)

Elsewhere(s) == \A t \in Sandboxes : t # s => RowsSame(t) /\ WorkSame(t)

LEMMA HeldSame == ASSUME NEW s, LedgerSame(s) PROVE Held(s)' <=> Held(s)
  BY DEF LedgerSame, Held

LEMMA MayExecuteKept ==
  ASSUME NEW s, ProviderSame(s), MayExecute(s)' PROVE MayExecute(s)
  BY DEF MayExecute, ProviderSame, NoNewCalls

\* What RowInv says besides CreateOnce does not depend on the operation.
LEMMA RowsKept ==
  ASSUME NEW s, RowInv(s), LedgerSame(s), EffectsSame(s), SandboxSame(s), ProviderSame(s)
  PROVE  /\ EffectShape(s)' /\ RuntimeShape(s)' /\ LiveShape(s)' /\ PausedShape(s)'
         /\ CallShape(s)' /\ (MayExecute(s)' => Held(s)')
<1>1. EffectShape(s)'
  BY HeldSame DEF RowInv, EffectShape, LedgerSame, EffectsSame, SandboxSame, ProviderSame
<1>2. RuntimeShape(s)'
  BY DEF RowInv, RuntimeShape, EffectsSame, SandboxSame, ProviderSame
<1>3. LiveShape(s)'
  BY DEF RowInv, LiveShape, EffectsSame, SandboxSame, ProviderSame
<1>4. PausedShape(s)'
  BY DEF RowInv, PausedShape, EffectsSame, SandboxSame, ProviderSame, LedgerSame
<1>5. CallShape(s)'
  BY DEF RowInv, CallShape, EffectsSame, SandboxSame, ProviderSame, NoNewCalls
<1>6. MayExecute(s)' => Held(s)'
  BY MayExecuteKept, HeldSame DEF RowInv
<1> QED
  BY <1>1, <1>2, <1>3, <1>4, <1>5, <1>6

LEMMA RowInvKept ==
  ASSUME NEW s, RowInv(s), RowsSame(s) PROVE RowInv(s)'
<1>1. CreateOnce(s)'
  BY HeldSame DEF RowInv, CreateOnce, RowsSame, EffectsSame, SandboxSame
<1> QED
  BY <1>1, RowsKept DEF RowsSame, RowInv

LEMMA WorkInvKept ==
  ASSUME NEW s, WorkInv(s), RowsSame(s), WorkSame(s) PROVE WorkInv(s)'
<1> USE DEF RowsSame, WorkSame, Stays
<1>1. AbsentShape(s)'
  BY DEF WorkInv, AbsentShape, EffectsSame, SandboxSame, LedgerSame
<1>2. SecretShape(s)'
  BY DEF WorkInv, SecretShape, Creating, EffectsSame
<1>3. OneDriver(s)'
  BY DEF WorkInv, OneDriver
<1>4. ASSUME NEW p \in Processes
      PROVE  JobShape(p, s)' /\ OwnerShape(p, s)' /\ LeaseShape(p, s)'
  <2>1. JobShape(p, s) /\ OwnerShape(p, s) /\ LeaseShape(p, s)
    BY DEF WorkInv
  <2>2. JobShape(p, s)'
    BY <2>1 DEF JobShape, EffectsSame
  <2>3. OwnerShape(p, s)'
    BY <2>1 DEF OwnerShape, OwnsAt, EffectsSame, SandboxSame, ProviderSame, NoNewCalls
  <2>4. LeaseShape(p, s)'
    BY <2>1 DEF LeaseShape, Settled, EffectsSame, SandboxSame, ProviderSame
  <2> QED
    BY <2>2, <2>3, <2>4
<1> QED
  BY <1>1, <1>2, <1>3, <1>4 DEF WorkInv

LEMMA ElsewhereKept ==
  ASSUME CapacityInv, NEW s \in Sandboxes, Elsewhere(s), RowInv(s)', WorkInv(s)'
  PROVE  CapacityInv'
  BY RowInvKept, WorkInvKept DEF CapacityInv, Elsewhere

-----------------------------------------------------------------------------
(* What the building blocks write. *)

LEMMA Fields ==
  ASSUME TypeOK, NEW s \in Sandboxes
  PROVE  /\ effect[s] \in Effect /\ effect[s].id \in 0 .. MaxEffects
         /\ effect[s].runtime \in 0 .. MaxEffects /\ effect[s].dispatched \in BOOLEAN
         /\ version[s] \in 0 .. MaxEffects /\ identity[s] \in 0 .. MaxEffects
         /\ generation[s] \in Nat /\ creates[s] \subseteq EffectIds
         /\ \A i \in EffectIds : runtime[s][i] \in RuntimeStates
         /\ operation[s] \in Operation
  BY DEF TypeOK, EffectsType, Effect, LedgerType, SandboxType, ProviderType

LEMMA Nothing ==
  /\ NoEffect.id = 0 /\ NoEffect.kind = "none" /\ NoEffect.dispatched = FALSE
  /\ NoJob.sandbox = NoSandbox /\ NoJob.effect = 0 /\ NoJob.runtime = 0
  BY DEF NoEffect, NoJob

LEMMA TakeWrites ==
  ASSUME TypeOK, NEW p \in Processes, NEW point, NEW j, Take(p, point, j)
  PROVE  pc'[p] = point /\ job'[p] = j /\ Only(p)
  BY DEF TypeOK, ProcessType, Take, Only, Stays

LEMMA RestWrites ==
  ASSUME TypeOK, NEW p \in Processes, Rest(p)
  PROVE  pc'[p] = "idle" /\ job'[p] = NoJob /\ Only(p)
  BY TakeWrites DEF Rest

LEMMA GotoWrites ==
  ASSUME TypeOK, NEW p \in Processes, NEW point, Goto(p, point)
  PROVE  pc'[p] = point /\ job'[p] = job[p] /\ Only(p)
  BY DEF TypeOK, ProcessType, Goto, Only, Stays

LEMMA FailWrites ==
  ASSUME TypeOK, NEW p \in Processes, Fail(p)
  PROVE  /\ pc'[p] = "failing" /\ Only(p)
         /\ job'[p].sandbox = job[p].sandbox /\ job'[p].runtime = 0
<1>1. /\ pc'[p] = "failing" /\ Only(p)
      /\ job'[p] = [NoJob EXCEPT !.sandbox = job[p].sandbox, !.attempts = job[p].attempts]
  BY TakeWrites DEF Fail
<1> QED
  BY <1>1 DEF NoJob

LEMMA EffectJobHas ==
  ASSUME NEW s, NEW kind, NEW id
  PROVE  /\ EffectJob(s, kind, id).sandbox = s /\ EffectJob(s, kind, id).kind = kind
         /\ EffectJob(s, kind, id).effect = id /\ EffectJob(s, kind, id).runtime = 0
  BY DEF EffectJob, NoJob

LEMMA BegunJobHas ==
  ASSUME NEW s, NEW kind, NEW i
  PROVE  /\ BegunJob(s, kind, i).sandbox = s /\ BegunJob(s, kind, i).kind = kind
         /\ BegunJob(s, kind, i).effect = version[s] + 1
         /\ BegunJob(s, kind, i).runtime = i
  BY DEF BegunJob, EffectJob, NoJob

LEMMA ReleaseWrites ==
  ASSUME TypeOK, NEW s \in Sandboxes, NEW g, NEW reason, Release(s, g, reason)
  PROVE  /\ Held(s) /\ generation[s] = g /\ effect'[s] = NoEffect =>
              ~Held(s)' /\ suspended'[s] = (suspended[s] \/ reason = "provider_suspended")
         /\ generation'[s] = generation[s]
         /\ \A t \in Sandboxes : t # s => LedgerSame(t)
  BY DEF TypeOK, LedgerType, Release, Held, HeldPhases, LedgerSame

LEMMA MarkWrites ==
  ASSUME TypeOK, NEW s \in Sandboxes, NEW g, NEW ph \in HeldPhases, Mark(s, g, ph)
  PROVE  /\ Held(s)' <=> Held(s)
         /\ generation'[s] = generation[s] /\ suspended'[s] = suspended[s]
         /\ \A t \in Sandboxes : t # s => LedgerSame(t)
  BY DEF TypeOK, LedgerType, Mark, Held, LedgerSame

LEMMA ReserveWrites ==
  ASSUME TypeOK, NEW s \in Sandboxes, Reserve(s)
  PROVE  /\ ~Held(s) /\ Held(s)'
         /\ generation'[s] = generation[s] + 1 /\ suspended'[s] = suspended[s]
         /\ \A t \in Sandboxes : t # s => LedgerSame(t)
  BY DEF TypeOK, LedgerType, Reserve, Held, HeldPhases, LedgerSame

LEMMA BeginWrites ==
  ASSUME TypeOK, NEW s \in Sandboxes, NEW kind, NEW g, NEW i, Begin(s, kind, g, i)
  PROVE  /\ effect'[s].id = version[s] + 1 /\ effect'[s].kind = kind
         /\ effect'[s].generation = g /\ effect'[s].runtime = i
         /\ effect'[s].dispatched = FALSE
         /\ version'[s] = version[s] + 1 /\ creates'[s] = creates[s]
         /\ \A t \in Sandboxes : t # s => EffectsSame(t)
  BY DEF TypeOK, EffectsType, Begin, NewEffect, EffectsSame

LEMMA SettleWrites ==
  ASSUME TypeOK, NEW s \in Sandboxes, Settle(s)
  PROVE  /\ effect'[s] = NoEffect /\ version'[s] = version[s] /\ creates'[s] = creates[s]
         /\ \A t \in Sandboxes : t # s => EffectsSame(t)
  BY DEF TypeOK, EffectsType, Settle, EffectsSame

LEMMA StatusWrites ==
  ASSUME TypeOK, NEW s \in Sandboxes, NEW st, SetStatus(s, st), UNCHANGED identity
  PROVE  /\ status'[s] = st /\ identity'[s] = identity[s]
         /\ \A t \in Sandboxes : t # s => SandboxSame(t)
  BY DEF TypeOK, SandboxType, SetStatus, SandboxSame

LEMMA OperationWrites ==
  ASSUME TypeOK, NEW s \in Sandboxes, NEW st, SetOperation(s, st)
  PROVE  /\ operation'[s].state = st /\ operation'[s].secret = operation[s].secret
         /\ \A t \in Sandboxes : t # s => operation'[t] = operation[t]
  BY DEF TypeOK, Operation, SetOperation

LEMMA SameWrites ==
  ASSUME NEW s
  PROVE  /\ UNCHANGED ledger => LedgerSame(s)
         /\ UNCHANGED effects => EffectsSame(s)
         /\ UNCHANGED sandbox => SandboxSame(s)
         /\ UNCHANGED provider => ProviderSame(s)
         /\ UNCHANGED processes => WorkSame(s)
         /\ UNCHANGED database => LedgerSame(s) /\ EffectsSame(s) /\ SandboxSame(s)
                                  /\ operation'[s] = operation[s]
         /\ UNCHANGED database /\ UNCHANGED provider => RowsSame(s)
  BY DEF ledger, effects, sandbox, provider, processes, database, LedgerSame, EffectsSame,
         SandboxSame, ProviderSame, NoNewCalls, WorkSame, Stays, RowsSame

-----------------------------------------------------------------------------
(* The processes of the sandbox after a transaction of one of them. *)

\* What no transaction on an admitted sandbox takes away.
Lasting(s) ==
  /\ status'[s] # "absent"
  /\ operation'[s].secret = operation[s].secret
  /\ creates'[s] = creates[s] /\ runtime'[s] = runtime[s]
  /\ identity[s] # 0 => identity'[s] = identity[s]
  /\ NoNewCalls(s)

DrivesOn(q, s) ==
  job'[q].sandbox = s /\ pc'[q] \in Driving =>
    job[q].sandbox = s /\ pc[q] \in Driving /\ job'[q].effect = job[q].effect
CreatesOn(q, s) ==
  /\ Creating(q, s)' => Creating(q, s)
  /\ job'[q].sandbox = s /\ pc'[q] \in Early => job[q].sandbox = s /\ pc[q] \in Early

LEMMA StaysOn ==
  ASSUME NEW q, NEW s, Stays(q) PROVE DrivesOn(q, s) /\ CreatesOn(q, s)
  BY DEF Stays, DrivesOn, CreatesOn, Creating

LEMMA DriversKept ==
  ASSUME NEW s, OneDriver(s), \A q \in Processes : DrivesOn(q, s)
  PROVE  OneDriver(s)'
  BY DEF OneDriver, DrivesOn

LEMMA DriverJoins ==
  ASSUME TypeOK, NEW s \in Sandboxes, NEW p \in Processes, OneDriver(s),
         \A q \in Processes : JobShape(q, s),
         \A q \in Processes : q # p => DrivesOn(q, s),
         job'[p].effect = version[s] + 1
  PROVE  OneDriver(s)'
<1>1. ASSUME NEW q \in Processes, q # p, job'[q].sandbox = s, pc'[q] \in Driving
      PROVE  job'[q].effect # job'[p].effect
  <2>1. job[q].sandbox = s /\ pc[q] \in Driving /\ job'[q].effect = job[q].effect
    BY <1>1 DEF DrivesOn
  <2>2. job[q].effect <= version[s]
    BY <2>1 DEF JobShape, Carrying
  <2>3. job[q].effect \in Nat /\ version[s] \in Nat
    BY DEF TypeOK, ProcessType, EffectsType, Job
  <2> QED
    BY <2>1, <2>2, <2>3
<1> QED
  BY <1>1 DEF OneDriver, DrivesOn

LEMMA SecretKept ==
  ASSUME NEW s, SecretShape(s), operation'[s].secret = operation[s].secret,
         creates'[s] = creates[s],
         operation[s].secret => \A q \in Processes : CreatesOn(q, s)
  PROVE  SecretShape(s)'
  BY DEF SecretShape, CreatesOn

\* A process that goes where it carries nothing about the effect.
Idles(q, s) ==
  /\ pc'[q] \notin Carrying \cup {"leasing"}
  /\ job'[q].sandbox = s => pc'[q] # "idle"
  /\ job'[q].sandbox = s /\ pc'[q] \in Early =>
       pc[q] \in Early /\ job[q].sandbox = s /\ job'[q].runtime = 0

SettledWork(p, s) ==
  /\ Lasting(s) /\ effect'[s] = NoEffect /\ version'[s] = version[s]
  /\ Only(p) /\ (Stays(p) \/ Idles(p, s))

LEMMA WorkSettled ==
  ASSUME TypeOK, NEW s \in Sandboxes, NEW p \in Processes, WorkInv(s), SettledWork(p, s)
  PROVE  WorkInv(s)'
<1> USE DEF SettledWork
<1>1. ASSUME NEW q \in Processes PROVE Stays(q) \/ Idles(q, s)
  BY <1>1 DEF Only
<1>2. ASSUME NEW q \in Processes PROVE DrivesOn(q, s) /\ CreatesOn(q, s)
  BY <1>1, StaysOn DEF Idles, DrivesOn, CreatesOn, Creating, Carrying
<1>3. ASSUME NEW q \in Processes
      PROVE  JobShape(q, s)' /\ OwnerShape(q, s)' /\ LeaseShape(q, s)'
  <2>1. JobShape(q, s) /\ OwnerShape(q, s) /\ LeaseShape(q, s)
    BY DEF WorkInv
  <2>2. CASE Stays(q)
    <3>1. JobShape(q, s)'
      BY <2>1, <2>2 DEF JobShape, Stays
    <3>2. OwnerShape(q, s)'
      BY <2>1, <2>2, Nothing DEF JobShape, OwnerShape, OwnsAt, Stays
    <3>3. LeaseShape(q, s)'
      BY <2>1, <2>2 DEF LeaseShape, Stays, Lasting, Settled
    <3> QED
      BY <3>1, <3>2, <3>3
  <2>3. CASE Idles(q, s)
    BY <2>3 DEF Idles, JobShape, OwnerShape, LeaseShape, Early, Carrying, Driving
  <2> QED
    BY <1>1, <2>2, <2>3
<1>4. AbsentShape(s)'
  BY DEF AbsentShape, Lasting
<1>5. SecretShape(s)' /\ OneDriver(s)'
  BY <1>2, SecretKept, DriversKept DEF WorkInv, Lasting
<1> QED
  BY <1>3, <1>4, <1>5 DEF WorkInv

\* A process that begins an effect, or goes on to the one that replaces its own.
BegunWork(p, s) ==
  /\ Lasting(s) /\ Only(p)
  /\ effect'[s].id = version[s] + 1 /\ version'[s] = version[s] + 1
  /\ effect'[s].kind # "prepare" /\ effect'[s].dispatched = FALSE
  /\ pc'[p] = "begun" /\ job'[p].sandbox = s
  /\ job'[p].effect = version[s] + 1 /\ job'[p].kind = effect'[s].kind
  /\ effect'[s].kind = "provision" => job'[p].runtime = 0 /\ Creating(p, s)
  /\ effect'[s].kind # "provision" => job'[p].runtime = identity'[s]

LEMMA WorkBegun ==
  ASSUME TypeOK, NEW s \in Sandboxes, NEW p \in Processes, WorkInv(s), BegunWork(p, s)
  PROVE  WorkInv(s)'
<1> USE DEF BegunWork
<1>a. version[s] \in Nat /\ version'[s] \in Nat
  BY Fields
<1>b. \A q \in Processes : job[q].effect \in Nat
  BY DEF TypeOK, ProcessType, Job
<1>1. ASSUME NEW q \in Processes, q # p
      PROVE  JobShape(q, s)' /\ OwnerShape(q, s)' /\ LeaseShape(q, s)'
  <2>1. JobShape(q, s) /\ LeaseShape(q, s) /\ Stays(q)
    BY <1>1 DEF WorkInv, Only
  <2>2. JobShape(q, s)'
    BY <1>a, <1>b, <2>1 DEF JobShape, Stays
  <2>3. OwnerShape(q, s)'
    BY <1>a, <1>b, <2>1 DEF JobShape, OwnerShape, OwnsAt, Stays
  <2>4. LeaseShape(q, s)'
    BY <1>a, <1>b, <2>1 DEF LeaseShape, Stays, Lasting
  <2> QED
    BY <2>2, <2>3, <2>4
<1>2. JobShape(p, s)' /\ LeaseShape(p, s)'
  BY <1>a DEF JobShape, LeaseShape, Early
<1>3. OwnerShape(p, s)'
  BY DEF OwnerShape, OwnsAt
<1>4. AbsentShape(s)'
  BY DEF AbsentShape, Lasting
<1>5. OneDriver(s)'
  BY DriverJoins, StaysOn DEF WorkInv, Only
<1>6. SecretShape(s)'
  <2>1. CreatesOn(p, s)
    BY DEF CreatesOn, Creating, Early
  <2> QED
    BY <2>1, SecretKept, StaysOn DEF WorkInv, Only, Lasting
<1> QED
  BY <1>1, <1>2, <1>3, <1>4, <1>5, <1>6 DEF WorkInv

\* A step that leaves the effect what it is.
SameWork(p, s) ==
  /\ Lasting(s) /\ identity'[s] = identity[s] /\ Only(p)
  /\ effect'[s].id = effect[s].id /\ effect'[s].kind = effect[s].kind
  /\ effect'[s].dispatched = effect[s].dispatched
  /\ Settled(s) => Settled(s)'
  /\ version'[s] = version[s]

LEMMA SameWorkOthers ==
  ASSUME TypeOK, NEW s \in Sandboxes, NEW p \in Processes, WorkInv(s), SameWork(p, s),
         NEW q \in Processes, Stays(q)
  PROVE  JobShape(q, s)' /\ OwnerShape(q, s)' /\ LeaseShape(q, s)'
<1>1. JobShape(q, s) /\ OwnerShape(q, s) /\ LeaseShape(q, s)
  BY DEF WorkInv
<1>2. JobShape(q, s)'
  BY <1>1 DEF JobShape, Stays, SameWork
<1>3. OwnerShape(q, s)'
  BY <1>1 DEF OwnerShape, OwnsAt, Stays, SameWork, Lasting, NoNewCalls
<1>4. LeaseShape(q, s)'
  BY <1>1 DEF LeaseShape, Stays, SameWork, Lasting
<1> QED
  BY <1>2, <1>3, <1>4

LEMMA WorkMoves ==
  ASSUME TypeOK, NEW s \in Sandboxes, NEW p \in Processes, WorkInv(s), SameWork(p, s),
         JobShape(p, s)', OwnerShape(p, s)', LeaseShape(p, s)',
         DrivesOn(p, s), operation[s].secret => CreatesOn(p, s)
  PROVE  WorkInv(s)'
<1>1. ASSUME NEW q \in Processes
      PROVE  JobShape(q, s)' /\ OwnerShape(q, s)' /\ LeaseShape(q, s)'
  BY SameWorkOthers DEF SameWork, Only
<1>2. AbsentShape(s)'
  BY DEF AbsentShape, Lasting, SameWork
<1>3. SecretShape(s)' /\ OneDriver(s)'
  BY SecretKept, DriversKept, StaysOn DEF WorkInv, SameWork, Only, Lasting
<1> QED
  BY <1>1, <1>2, <1>3 DEF WorkInv

LEMMA WorkIdles ==
  ASSUME TypeOK, NEW s \in Sandboxes, NEW p \in Processes, WorkInv(s), SameWork(p, s),
         Idles(p, s)
  PROVE  WorkInv(s)'
<1>1. JobShape(p, s)' /\ OwnerShape(p, s)' /\ LeaseShape(p, s)'
  BY DEF Idles, JobShape, OwnerShape, LeaseShape, Early, Carrying, Driving
<1>2. DrivesOn(p, s) /\ CreatesOn(p, s)
  BY DEF Idles, DrivesOn, CreatesOn, Creating, Carrying
<1> QED
  BY <1>1, <1>2, WorkMoves

-----------------------------------------------------------------------------
(* The rows of the sandbox after an effect is settled or begun. *)

\* No request that can start execution is with the provider.
Quiet(s) == \A c \in calls : c.sandbox = s => c.kind \notin {"provision", "resume"}

\* The create of the unsettled effect was performed.
Created(s) ==
  effect[s].kind = "provision" /\ effect[s].dispatched /\ runtime[s][effect[s].id] # "none"

LEMMA QuietSlot ==
  ASSUME NEW s, CallShape(s),
         effect[s].kind \notin {"provision", "resume"} \/ ~effect[s].dispatched \/ Created(s)
  PROVE  Quiet(s)
  BY DEF CallShape, Quiet, Created

\* The runtime that may be alive once the effect is settled or replaced.
OnlyRuntime(s) ==
  /\ runtime'[s] = runtime[s] /\ NoNewCalls(s) /\ Quiet(s) /\ creates'[s] = creates[s]
  /\ \/ identity'[s] = identity[s]
     \/ Created(s) /\ identity[s] \in {0, effect[s].id} /\ identity'[s] = effect[s].id
  /\ \A i \in EffectIds : runtime[s][i] \in LiveStates => identity'[s] = i

LEMMA OnlyRuntimeQuiet ==
  ASSUME NEW s, OnlyRuntime(s) PROVE Quiet(s)'
  BY DEF OnlyRuntime, Quiet, NoNewCalls

\* Once settled, only the identity can be alive; or nothing, if there is none.
LEMMA OnlyIdentity ==
  ASSUME NEW s, RowInv(s), runtime'[s] = runtime[s], NoNewCalls(s), creates'[s] = creates[s],
         identity'[s] = identity[s], effect[s].kind # "provision" \/ ~effect[s].dispatched
                                     \/ (Created(s) /\ identity[s] = effect[s].id)
                                     \/ (Quiet(s) /\ runtime[s][effect[s].id] \notin LiveStates),
         effect[s].kind # "resume" \/ ~effect[s].dispatched \/ Quiet(s)
  PROVE  OnlyRuntime(s)
<1>1. Quiet(s)
  BY QuietSlot DEF RowInv
<1>2. \A i \in EffectIds : runtime[s][i] \in LiveStates => identity'[s] = i
  BY DEF RowInv, LiveShape, RuntimeShape, EffectShape, LiveStates
<1> QED
  BY <1>1, <1>2 DEF OnlyRuntime

LEMMA OnlyRuntimeRows ==
  ASSUME TypeOK, NEW s \in Sandboxes, RowInv(s), OnlyRuntime(s), version'[s] >= version[s],
         version'[s] \in Nat
  PROVE  RuntimeShape(s)' /\ LiveShape(s)' /\ CallShape(s)'
<1>a. version[s] \in Nat /\ creates[s] \subseteq Nat
  BY Fields DEF EffectIds
<1>1. RuntimeShape(s)'
  <2>1. \A i \in creates'[s] : i <= version'[s] /\ creates'[s] = {i}
    BY <1>a DEF RowInv, RuntimeShape, OnlyRuntime
  <2>2. identity'[s] # 0 => identity'[s] \in creates'[s] /\ runtime'[s][identity'[s]] # "none"
    BY DEF RowInv, RuntimeShape, EffectShape, OnlyRuntime, Created
  <2>3. \A i \in EffectIds : runtime'[s][i] # "none" => i \in creates'[s]
    BY DEF RowInv, RuntimeShape, OnlyRuntime
  <2> QED
    BY <2>1, <2>2, <2>3 DEF RuntimeShape
<1>2. LiveShape(s)'
  BY DEF OnlyRuntime, LiveShape
<1>3. CallShape(s)'
  BY OnlyRuntimeQuiet DEF RowInv, CallShape, OnlyRuntime, Quiet, NoNewCalls
<1> QED
  BY <1>1, <1>2, <1>3

\* Settling: what is left to show of each transaction that settles.
SettledRow(s) ==
  OnlyRuntime(s) /\ effect'[s] = NoEffect /\ version'[s] = version[s]

LEMMA RowSettled ==
  ASSUME TypeOK, NEW s \in Sandboxes, RowInv(s), SettledRow(s),
         PausedShape(s)', CreateOnce(s)', MayExecute(s)' => Held(s)'
  PROVE  RowInv(s)'
<1>1. RuntimeShape(s)' /\ LiveShape(s)' /\ CallShape(s)'
  BY Fields, OnlyRuntimeRows DEF SettledRow
<1>2. EffectShape(s)'
  BY Nothing, Fields DEF EffectShape, SettledRow
<1> QED
  BY <1>1, <1>2 DEF RowInv

\* With nothing in flight, execution is the identity's.
LEMMA ExecutesIdentity ==
  ASSUME NEW s, OnlyRuntime(s), MayExecute(s)'
  PROVE  /\ identity'[s] \in EffectIds /\ runtime[s][identity'[s]] \in LiveStates
         /\ runtime[s][identity'[s]] = "paused" => ~PauseStopsExecution
<1>1. PICK i \in EffectIds : Executing(runtime'[s][i])
  BY OnlyRuntimeQuiet DEF MayExecute, Quiet
<1> QED
  BY <1>1 DEF OnlyRuntime, Executing

\* Beginning a pause, a resume or a delete of the identity.
BegunRow(s) ==
  /\ OnlyRuntime(s)
  /\ effect'[s].id = version[s] + 1 /\ version'[s] = version[s] + 1
  /\ effect'[s].kind \in {"pause", "resume", "delete"}
  /\ effect'[s].runtime = identity'[s] /\ identity'[s] # 0
  /\ effect'[s].generation = generation'[s] /\ effect'[s].dispatched = FALSE
  /\ effect'[s].kind # "delete" => Held(s)'

LEMMA RowBegun ==
  ASSUME TypeOK, NEW s \in Sandboxes, RowInv(s), BegunRow(s),
         PausedShape(s)', CreateOnce(s)', MayExecute(s)' => Held(s)'
  PROVE  RowInv(s)'
<1>a. version[s] \in Nat
  BY Fields
<1>1. RuntimeShape(s)' /\ LiveShape(s)' /\ CallShape(s)'
  BY <1>a, OnlyRuntimeRows DEF BegunRow
<1>2. EffectShape(s)'
  BY <1>a DEF EffectShape, BegunRow
<1> QED
  BY <1>1, <1>2 DEF RowInv

\* What an admitted sandbox is not.
LEMMA Admitted ==
  ASSUME NEW s, WorkInv(s),
         \/ Held(s) \/ ~Settled(s) \/ identity[s] # 0 \/ phase[s] # "none"
         \/ operation[s].state # "none"
         \/ \E p \in Processes : job[p].sandbox = s
  PROVE  status[s] # "absent"
  BY DEF WorkInv, AbsentShape, Held, HeldPhases, Settled

-----------------------------------------------------------------------------
(* Steps that move one process and write at most the operation. *)

LEMMA IdleIsNowhere ==
  ASSUME CapacityInv, NEW p \in Processes, pc[p] = "idle", NEW s \in Sandboxes
  PROVE  job[p].sandbox # s
  BY DEF CapacityInv, WorkInv, JobShape

LEMMA WorkElsewhere ==
  ASSUME CapacityInv, NEW p \in Processes, NEW s \in Sandboxes, Only(p),
         pc[p] = "idle" \/ job[p].sandbox = s, job'[p].sandbox \in {s, NoSandbox},
         NEW t \in Sandboxes, t # s
  PROVE  WorkSame(t)
  BY IdleIsNowhere, SandboxesAssumption DEF WorkSame, Only

\* The step of process p on sandbox s that writes no row but the operation.
MovesAt(p, s) ==
  /\ Only(p) /\ status[s] # "absent"
  /\ pc[p] = "idle" \/ job[p].sandbox = s
  /\ job'[p].sandbox \in {s, NoSandbox}
  /\ UNCHANGED <<sandbox, ledger, effects, provider>>
  /\ operation'[s].secret = operation[s].secret
  /\ \A t \in Sandboxes : t # s => operation'[t] = operation[t]

LEMMA MovesElsewhere ==
  ASSUME CapacityInv, NEW p \in Processes, NEW s \in Sandboxes, MovesAt(p, s)
  PROVE  Elsewhere(s)
<1>1. ASSUME NEW t \in Sandboxes, t # s PROVE RowsSame(t)
  BY <1>1, SameWrites DEF MovesAt, RowsSame
<1> QED
  BY <1>1, WorkElsewhere DEF MovesAt, Elsewhere

LEMMA MovesSameWork ==
  ASSUME NEW p \in Processes, NEW s \in Sandboxes, MovesAt(p, s) PROVE SameWork(p, s)
<1>1. EffectsSame(s) /\ SandboxSame(s) /\ ProviderSame(s)
  BY SameWrites DEF MovesAt
<1> QED
  BY <1>1 DEF MovesAt, SameWork, Lasting, Settled, EffectsSame, SandboxSame, ProviderSame

LEMMA MoveKeeps ==
  ASSUME TypeOK, CapacityInv, NEW p \in Processes, NEW s \in Sandboxes, MovesAt(p, s),
         CreateOnce(s)',
         \/ Idles(p, s)
         \/ /\ JobShape(p, s)' /\ OwnerShape(p, s)' /\ LeaseShape(p, s)'
            /\ DrivesOn(p, s) /\ (operation[s].secret => CreatesOn(p, s))
  PROVE  CapacityInv'
<1>1. RowInv(s) /\ WorkInv(s)
  BY DEF CapacityInv
<1>2. LedgerSame(s) /\ EffectsSame(s) /\ SandboxSame(s) /\ ProviderSame(s)
  BY SameWrites DEF MovesAt
<1>3. RowInv(s)'
  BY <1>1, <1>2, RowsKept DEF RowInv
<1>4. WorkInv(s)'
  BY <1>1, MovesSameWork, WorkMoves, WorkIdles
<1> QED
  BY <1>3, <1>4, MovesElsewhere, ElsewhereKept

LEMMA CreateOnceKept ==
  ASSUME NEW s \in Sandboxes, RowInv(s), UNCHANGED <<sandbox, ledger, effects>>,
         operation'[s].secret = operation[s].secret,
         operation[s].state = "succeeded" => operation'[s].state = "succeeded"
  PROVE  CreateOnce(s)'
<1>1. LedgerSame(s) /\ EffectsSame(s) /\ SandboxSame(s)
  BY SameWrites
<1> QED
  BY <1>1, HeldSame DEF RowInv, CreateOnce, EffectsSame, SandboxSame

\* The step of process p that writes nothing.
PureMove(p, s) ==
  /\ Only(p) /\ status[s] # "absent"
  /\ pc[p] = "idle" \/ job[p].sandbox = s
  /\ job'[p].sandbox \in {s, NoSandbox}
  /\ UNCHANGED database /\ UNCHANGED provider

LEMMA PureMoveKeeps ==
  ASSUME TypeOK, CapacityInv, NEW p \in Processes, NEW s \in Sandboxes, PureMove(p, s),
         \/ Idles(p, s)
         \/ /\ JobShape(p, s)' /\ OwnerShape(p, s)' /\ LeaseShape(p, s)'
            /\ DrivesOn(p, s) /\ (operation[s].secret => CreatesOn(p, s))
  PROVE  CapacityInv'
<1>1. MovesAt(p, s)
  BY DEF PureMove, MovesAt, database
<1>2. CreateOnce(s)'
  BY CreateOnceKept DEF CapacityInv, PureMove, database
<1> QED
  BY <1>1, <1>2, MoveKeeps

LEMMA CheckReplayKeeps ==
  ASSUME TypeOK, CapacityInv, NEW p \in Processes, NEW s \in Sandboxes, CheckReplay(p, s)
  PROVE  CapacityInv'
<1>1. /\ pc'[p] \in {"failing", "starting"} /\ Only(p)
      /\ job'[p].sandbox = s /\ job'[p].runtime \in {0, job[p].runtime}
      /\ pc[p] = "checking" /\ job[p].sandbox = s
  BY GotoWrites, FailWrites DEF CheckReplay, At
<1>2. PureMove(p, s)
  BY <1>1, Admitted DEF CapacityInv, PureMove, CheckReplay
<1>3. JobShape(p, s)
  BY DEF CapacityInv, WorkInv
<1>4. Idles(p, s)
  BY <1>1, <1>3 DEF JobShape, Idles, Early, Carrying, Driving
<1> QED
  BY <1>2, <1>4, PureMoveKeeps

LEMMA RestKeeps ==
  ASSUME TypeOK, CapacityInv, NEW p \in Processes, NEW s \in Sandboxes,
         job[p].sandbox = s, Rest(p), UNCHANGED database, UNCHANGED provider
  PROVE  CapacityInv'
<1>1. pc'[p] = "idle" /\ job'[p] = NoJob /\ Only(p)
  BY RestWrites
<1>2. PureMove(p, s)
  BY <1>1, Admitted, Nothing DEF CapacityInv, PureMove
<1>3. Idles(p, s)
  BY <1>1, Nothing, SandboxesAssumption DEF Idles, Early, Carrying, Driving
<1> QED
  BY <1>2, <1>3, PureMoveKeeps

LEMMA FailKeeps ==
  ASSUME TypeOK, CapacityInv, NEW p \in Processes, NEW s \in Sandboxes,
         job[p].sandbox = s, Fail(p), UNCHANGED database, UNCHANGED provider
  PROVE  CapacityInv'
<1>1. pc'[p] = "failing" /\ job'[p].sandbox = s /\ Only(p)
  BY FailWrites
<1>2. PureMove(p, s)
  BY <1>1, Admitted DEF CapacityInv, PureMove
<1>3. Idles(p, s)
  BY <1>1 DEF Idles, Early, Carrying, Driving
<1> QED
  BY <1>2, <1>3, PureMoveKeeps

\* A process that goes on with the job it has.
GoesOn(p, s) ==
  /\ job[p].sandbox = s /\ pc[p] \in Driving
  /\ job'[p] = job[p] /\ Only(p) /\ UNCHANGED database /\ UNCHANGED provider
  /\ pc'[p] \in Points \ {"idle", "leasing"} /\ pc'[p] \notin Early

LEMMA GoesOnKeeps ==
  ASSUME TypeOK, CapacityInv, NEW p \in Processes, NEW s \in Sandboxes, GoesOn(p, s),
         OwnerShape(p, s)'
  PROVE  CapacityInv'
<1>1. PureMove(p, s)
  BY Admitted DEF GoesOn, CapacityInv, PureMove
<1>2. JobShape(p, s) /\ version'[s] = version[s]
  BY DEF CapacityInv, WorkInv, GoesOn, database, effects
<1>3. JobShape(p, s)' /\ LeaseShape(p, s)'
  BY <1>2 DEF JobShape, LeaseShape, GoesOn, Carrying
<1>4. DrivesOn(p, s)
  BY DEF GoesOn, DrivesOn
<1>5. CreatesOn(p, s)
  BY DEF GoesOn, CreatesOn, Creating
<1> QED
  BY <1>1, <1>3, <1>4, <1>5, PureMoveKeeps

\* A process that goes on with its effect and forgets what it saw of the runtime.
PassesOn(p, s) ==
  /\ job[p].sandbox = s /\ pc[p] \in Driving /\ job[p].kind # "provision"
  /\ job'[p].sandbox = s /\ job'[p].kind = job[p].kind /\ job'[p].effect = job[p].effect
  /\ Only(p) /\ UNCHANGED database /\ UNCHANGED provider
  /\ pc'[p] \in {"observed", "doubtful"}

LEMMA PassesOnKeeps ==
  ASSUME TypeOK, CapacityInv, NEW p \in Processes, NEW s \in Sandboxes, PassesOn(p, s),
         OwnerShape(p, s)'
  PROVE  CapacityInv'
<1>1. PureMove(p, s)
  BY Admitted DEF PassesOn, CapacityInv, PureMove
<1>2. JobShape(p, s) /\ version'[s] = version[s]
  BY DEF CapacityInv, WorkInv, PassesOn, database, effects
<1>3. JobShape(p, s)' /\ LeaseShape(p, s)'
  BY <1>2 DEF JobShape, LeaseShape, PassesOn, Carrying, Driving, Early
<1>4. DrivesOn(p, s) /\ CreatesOn(p, s)
  BY DEF PassesOn, DrivesOn, CreatesOn, Creating, Driving, Early
<1> QED
  BY <1>1, <1>3, <1>4, PureMoveKeeps

LEMMA RefuseInputKeeps ==
  ASSUME TypeOK, CapacityInv, NEW p \in Processes, NEW s \in Sandboxes, RefuseInput(p, s)
  PROVE  CapacityInv'
<1>1. /\ pc'[p] = "aborting" /\ pc[p] = "begun" /\ job[p].kind = "provision"
      /\ job'[p] = job[p] /\ job[p].sandbox = s /\ Only(p)
  BY GotoWrites DEF RefuseInput, At
<1>2. GoesOn(p, s)
  BY <1>1 DEF GoesOn, RefuseInput, Driving, Early, Points
<1>3. OwnerShape(p, s) /\ EffectShape(s) /\ RuntimeShape(s) /\ CallShape(s)
  BY DEF CapacityInv, RowInv, WorkInv
<1>4. EffectsSame(s) /\ SandboxSame(s) /\ ProviderSame(s)
  BY SameWrites DEF RefuseInput
<1>5. job[p].effect \in EffectIds
  BY <1>1 DEF TypeOK, ProcessType, Carries
<1>6. OwnsAt(p, s) =>
        /\ effect[s].kind = "provision" /\ ~effect[s].dispatched
        /\ runtime[s][effect[s].id] = "none"
  BY <1>1, <1>3, <1>5 DEF OwnerShape, OwnsAt, Carrying, Driving, EffectShape, RuntimeShape
<1>7. OwnsAt(p, s) => \A c \in calls' : c.sandbox = s => c.kind # "provision"
  BY <1>3, <1>4, <1>6 DEF CallShape, ProviderSame, NoNewCalls
<1>8. OwnerShape(p, s)'
  BY <1>1, <1>4, <1>6, <1>7
  DEF OwnerShape, OwnsAt, EffectsSame, ProviderSame
<1> QED
  BY <1>2, <1>8, GoesOnKeeps

LEMMA TimeOutKeeps ==
  ASSUME TypeOK, CapacityInv, NEW p \in Processes, NEW s \in Sandboxes, TimeOut(p, s)
  PROVE  CapacityInv'
<1>1. /\ pc'[p] = "doubtful" /\ pc[p] = "calling"
      /\ job'[p] = job[p] /\ job[p].sandbox = s /\ Only(p)
  BY GotoWrites DEF TimeOut, At
<1>2. GoesOn(p, s)
  BY <1>1 DEF GoesOn, TimeOut, Driving, Early, Points
<1>3. OwnerShape(p, s) /\ EffectsSame(s) /\ SandboxSame(s) /\ ProviderSame(s)
  BY SameWrites DEF CapacityInv, WorkInv, TimeOut
<1>4. OwnerShape(p, s)'
  BY <1>1, <1>3 DEF OwnerShape, OwnsAt, Carrying, Driving, EffectsSame
<1> QED
  BY <1>2, <1>4, GoesOnKeeps

LEMMA FencedKeeps ==
  ASSUME TypeOK, CapacityInv, NEW p \in Processes, NEW s \in Sandboxes, Fenced(p, s)
  PROVE  CapacityInv'
<1>1. job[p].sandbox = s /\ effect[s].id # job[p].effect
  BY DEF Fenced, Owns
<1>2. CASE Rest(p) \/ Fail(p)
  BY <1>1, <1>2, RestKeeps, FailKeeps DEF Fenced
<1>3. CASE /\ pc[p] \in Driving
           /\ \E point \in {"aborting", "doubtful"} : Goto(p, point)
  <2>1. GoesOn(p, s)
    BY <1>1, <1>3, GotoWrites DEF GoesOn, Fenced, Early, Points
  <2>2. OwnerShape(p, s)'
    BY <1>1, <2>1, SameWrites DEF OwnerShape, OwnsAt, GoesOn, EffectsSame
  <2> QED
    BY <2>1, <2>2, GoesOnKeeps
<1> QED
  BY <1>2, <1>3 DEF Fenced, Driving

LEMMA AwaitStateKeeps ==
  ASSUME TypeOK, CapacityInv, NEW p \in Processes, NEW s \in Sandboxes, AwaitState(p, s)
  PROVE  CapacityInv'
<1>1. job[p].sandbox = s /\ pc[p] = "acknowledged" /\ job[p].kind # "provision"
  BY DEF AwaitState, At
<1>2. CASE Rest(p)
  BY <1>1, <1>2, RestKeeps DEF AwaitState
<1> DEFINE j == EffectJob(s, job[p].kind, job[p].effect)
<1>a. OwnerShape(p, s) /\ JobShape(p, s) /\ EffectsSame(s) /\ SandboxSame(s) /\ ProviderSame(s)
  BY SameWrites DEF CapacityInv, WorkInv, AwaitState
<1>b. OwnsAt(p, s) => job[p].kind = effect[s].kind /\ job[p].runtime = identity[s]
  BY <1>1, <1>a DEF OwnerShape, Carrying, Driving
<1>3. CASE Evidence(job[p].kind, runtime[s][job[p].runtime]) /\ Take(p, "observed", j)
  <2>1. /\ pc'[p] = "observed" /\ Only(p) /\ job'[p].sandbox = s
        /\ job'[p].kind = job[p].kind /\ job'[p].effect = job[p].effect
    BY <1>3, TakeWrites, EffectJobHas
  <2>2. PassesOn(p, s)
    BY <1>1, <2>1 DEF PassesOn, AwaitState, Driving
  <2>3. OwnsAt(p, s) /\ effect[s].kind = "resume" =>
          \A c \in calls' : c.sandbox = s => c.kind # "resume"
    BY <1>3, <1>a, <1>b
    DEF CapacityInv, RowInv, CallShape, Evidence, Stopped, ProviderSame, NoNewCalls
  <2>4. OwnerShape(p, s)'
    BY <1>1, <1>3, <1>a, <1>b, <2>1, <2>3
    DEF OwnerShape, OwnsAt, Carrying, Driving, Stopped, Evidence, EffectsSame,
        SandboxSame, ProviderSame
  <2> QED
    BY <2>2, <2>4, PassesOnKeeps
<1>4. CASE Take(p, "doubtful", j)
  <2>1. /\ pc'[p] = "doubtful" /\ Only(p) /\ job'[p].sandbox = s
        /\ job'[p].kind = job[p].kind /\ job'[p].effect = job[p].effect
        /\ job'[p].runtime = 0
    BY <1>4, TakeWrites, EffectJobHas
  <2>2. PassesOn(p, s)
    BY <1>1, <2>1 DEF PassesOn, AwaitState, Driving
  <2>3. OwnerShape(p, s)'
    BY <1>1, <1>a, <1>b, <2>1 DEF OwnerShape, OwnsAt, Carrying, Driving, EffectsSame
  <2> QED
    BY <2>2, <2>3, PassesOnKeeps
<1> QED
  BY <1>2, <1>3, <1>4 DEF AwaitState

\* An idle process that takes up an effect or a runtime it has just read.
TakesUp(p, s) ==
  /\ pc[p] = "idle" /\ Only(p) /\ status[s] # "absent"
  /\ UNCHANGED database /\ UNCHANGED provider
  /\ pc'[p] \in {"observed", "found", "recovering", "leasing", "stale"}
  /\ job'[p].sandbox = s
  /\ pc'[p] \in Carrying => job'[p].effect # 0 /\ job'[p].effect <= version[s]

LEMMA TakesUpKeeps ==
  ASSUME TypeOK, CapacityInv, NEW p \in Processes, NEW s \in Sandboxes, TakesUp(p, s),
         OwnerShape(p, s)', LeaseShape(p, s)'
  PROVE  CapacityInv'
<1>1. PureMove(p, s)
  BY DEF TakesUp, PureMove
<1>2. JobShape(p, s)'
  BY DEF TakesUp, JobShape, Early, database, effects
<1>3. DrivesOn(p, s) /\ CreatesOn(p, s)
  BY DEF TakesUp, DrivesOn, CreatesOn, Creating, Driving, Early
<1> QED
  BY <1>1, <1>2, <1>3, PureMoveKeeps

LEMMA ObserveEffectKeeps ==
  ASSUME TypeOK, CapacityInv, NEW p \in Processes, NEW s \in Sandboxes, ObserveEffect(p, s)
  PROVE  CapacityInv'
<1>a. RowInv(s) /\ WorkInv(s)
  BY DEF CapacityInv
<1>1. /\ pc[p] = "idle" /\ pc'[p] = "observed" /\ Only(p)
      /\ job'[p] = EffectJob(s, effect[s].kind, effect[s].id)
      /\ effect[s].dispatched /\ Evidence(effect[s].kind, runtime[s][effect[s].runtime])
  BY TakeWrites DEF ObserveEffect
<1>2. /\ job'[p].sandbox = s /\ job'[p].kind = effect[s].kind
      /\ job'[p].effect = effect[s].id
  BY <1>1, EffectJobHas
<1>3. /\ effect[s].id # 0 /\ effect[s].id <= version[s] /\ effect[s] # NoEffect
      /\ effect[s].kind \in {"pause", "resume", "delete"}
      /\ effect[s].runtime = identity[s]
  BY <1>1, <1>a, Nothing DEF RowInv, EffectShape, Evidence
<1>4. TakesUp(p, s)
  BY <1>1, <1>2, <1>3, <1>a, Admitted DEF TakesUp, ObserveEffect, Settled
<1>5. EffectsSame(s) /\ SandboxSame(s) /\ ProviderSame(s)
  BY SameWrites DEF ObserveEffect
<1>b. effect[s].kind = "resume" => \A c \in calls' : c.sandbox = s => c.kind # "resume"
  BY <1>1, <1>3, <1>5, <1>a
  DEF RowInv, CallShape, Evidence, Stopped, ProviderSame, NoNewCalls
<1>6. OwnerShape(p, s)'
  BY <1>1, <1>2, <1>3, <1>5, <1>b
  DEF OwnerShape, Evidence, Stopped, EffectsSame, SandboxSame, ProviderSame
<1>7. LeaseShape(p, s)'
  BY <1>1 DEF LeaseShape
<1> QED
  BY <1>4, <1>6, <1>7, TakesUpKeeps

\* A report that counts as an end or a suspension is true of the runtime.
KnowsEnd(s, i, seen) ==
  /\ seen = "gone" /\ AuthoritativeLifecycle => runtime[s][i] = "gone"
  /\ seen = "paused" => runtime[s][i] \in Stopped

LEMMA SeenEnd ==
  ASSUME NEW s, NEW i, NEW seen \in Reports(s, i)
  PROVE  Known(seen) \in Observations /\ KnowsEnd(s, i, Known(seen))
  BY DEF Known, KnowsEnd, Reports, Recoverable, Observations, RuntimeStates, LiveStates, Stopped

LEMMA FindRuntimeKeeps ==
  ASSUME TypeOK, CapacityInv, NEW p \in Processes, NEW s \in Sandboxes, FindRuntime(p, s)
  PROVE  CapacityInv'
<1>a. RowInv(s) /\ WorkInv(s)
  BY DEF CapacityInv
<1> DEFINE i == effect[s].id
<1>b. PICK seen \in Reports(s, i) :
        Take(p, "found", Seeing(EffectJob(s, "provision", i), i, Known(seen)))
  BY DEF FindRuntime
<1> DEFINE j == Seeing(EffectJob(s, "provision", i), i, Known(seen))
<1>1. /\ pc[p] = "idle" /\ effect[s].kind = "provision" /\ effect[s].dispatched
      /\ runtime[s][i] # "none" /\ i \in EffectIds /\ Take(p, "found", j)
  BY <1>b DEF FindRuntime
<1>c. Known(seen) \in Observations /\ KnowsEnd(s, i, Known(seen))
  BY <1>b, SeenEnd
<1>2. pc'[p] = "found" /\ job'[p] = j /\ Only(p)
  BY <1>1, TakeWrites
<1>3. EffectJob(s, "provision", i) \in Job
  BY <1>1, JobTyped DEF EffectIds, EffectKinds
<1>4. /\ j.sandbox = s /\ j.kind = "provision" /\ j.effect = i
      /\ j.runtime = i /\ j.seen = Known(seen)
  BY <1>1, <1>3, <1>c, EffectJobHas, ObservedTyped DEF EffectIds
<1>5. i # 0 /\ i <= version[s] /\ effect[s] # NoEffect
  BY <1>1, <1>a, Nothing DEF RowInv, EffectShape, EffectIds
<1>6. TakesUp(p, s)
  BY <1>1, <1>2, <1>4, <1>5, <1>a, Admitted DEF TakesUp, FindRuntime, Settled
<1>7. EffectsSame(s) /\ SandboxSame(s) /\ ProviderSame(s)
  BY SameWrites DEF FindRuntime
<1>8. OwnerShape(p, s)'
  BY <1>1, <1>2, <1>4, <1>7, <1>c
  DEF OwnerShape, KnowsEnd, EffectsSame, SandboxSame, ProviderSame
<1>9. LeaseShape(p, s)'
  BY <1>2 DEF LeaseShape
<1> QED
  BY <1>6, <1>8, <1>9, TakesUpKeeps

LEMMA GetRuntimeKeeps ==
  ASSUME TypeOK, CapacityInv, NEW p \in Processes, NEW s \in Sandboxes, GetRuntime(p, s)
  PROVE  CapacityInv'
<1>a. RowInv(s) /\ WorkInv(s)
  BY DEF CapacityInv
<1> DEFINE i == effect[s].runtime
<1>b. PICK seen \in Reports(s, i) :
        Take(p, "recovering", Seeing(EffectJob(s, "provision", effect[s].id), i, Known(seen)))
  BY DEF GetRuntime
<1> DEFINE j == Seeing(EffectJob(s, "provision", effect[s].id), i, Known(seen))
<1>1. /\ pc[p] = "idle" /\ effect[s].kind = "provision" /\ effect[s].dispatched
      /\ i # 0 /\ Take(p, "recovering", j)
  BY <1>b DEF GetRuntime
<1>c. Known(seen) \in Observations /\ KnowsEnd(s, i, Known(seen))
  BY <1>b, SeenEnd
<1>2. pc'[p] = "recovering" /\ job'[p] = j /\ Only(p)
  BY <1>1, TakeWrites
<1>3. i = effect[s].id /\ runtime[s][i] # "none" /\ i <= version[s] /\ effect[s] # NoEffect
  BY <1>1, <1>a, Nothing DEF RowInv, EffectShape
<1>4. i \in EffectIds /\ EffectJob(s, "provision", i) \in Job
  BY <1>1, Fields, JobTyped DEF EffectIds, EffectKinds
<1>5. /\ j.sandbox = s /\ j.kind = "provision" /\ j.effect = i
      /\ j.runtime = i /\ j.seen = Known(seen)
  BY <1>3, <1>4, <1>c, EffectJobHas, ObservedTyped DEF EffectIds
<1>6. TakesUp(p, s)
  BY <1>1, <1>2, <1>3, <1>5, <1>a, Admitted DEF TakesUp, GetRuntime, Settled
<1>7. EffectsSame(s) /\ SandboxSame(s) /\ ProviderSame(s)
  BY SameWrites DEF GetRuntime
<1>8. OwnerShape(p, s)'
  BY <1>1, <1>2, <1>3, <1>5, <1>7, <1>c
  DEF OwnerShape, KnowsEnd, EffectsSame, SandboxSame, ProviderSame
<1>9. LeaseShape(p, s)'
  BY <1>2 DEF LeaseShape
<1> QED
  BY <1>6, <1>8, <1>9, TakesUpKeeps

LEMMA ObserveLeaseKeeps ==
  ASSUME TypeOK, CapacityInv, NEW p \in Processes, NEW s \in Sandboxes, ObserveLease(p, s)
  PROVE  CapacityInv'
<1>a. RowInv(s) /\ WorkInv(s)
  BY DEF CapacityInv
<1>1. PICK seen \in Reports(s, identity[s]) :
        Take(p, "leasing", Seeing(LeaseJob(s), identity[s], seen))
  BY DEF ObserveLease
<1> DEFINE j == Seeing(LeaseJob(s), identity[s], seen)
<1>2. pc[p] = "idle" /\ identity[s] # 0 /\ Settled(s) /\ Held(s)
  BY DEF ObserveLease
<1>3. pc'[p] = "leasing" /\ job'[p] = j /\ Only(p)
  BY <1>1, TakeWrites
<1>4. j.sandbox = s /\ j.effect = version[s] /\ j.runtime = identity[s] /\ j.seen = seen
  BY DEF Seeing, LeaseJob, EffectJob, NoJob
<1>5. TakesUp(p, s)
  BY <1>2, <1>3, <1>4, <1>a, Admitted DEF TakesUp, ObserveLease, Carrying, Driving
<1>6. EffectsSame(s) /\ SandboxSame(s) /\ ProviderSame(s)
  BY SameWrites DEF ObserveLease
<1>7. /\ seen = "gone" /\ AuthoritativeLifecycle => runtime[s][identity[s]] = "gone"
      /\ seen = "paused" => runtime[s][identity[s]] \in Stopped
  BY <1>1 DEF Reports, Stopped
<1>8. LeaseShape(p, s)'
  BY <1>2, <1>3, <1>4, <1>6, <1>7, Fields
  DEF LeaseShape, Settled, EffectsSame, SandboxSame, ProviderSame
<1>9. OwnerShape(p, s)'
  BY <1>3 DEF OwnerShape, Carrying, Driving
<1> QED
  BY <1>5, <1>8, <1>9, TakesUpKeeps

LEMMA ClaimStaleKeeps ==
  ASSUME TypeOK, CapacityInv, NEW p \in Processes, NEW s \in Sandboxes, ClaimStale(p, s)
  PROVE  CapacityInv'
<1> DEFINE j == [NoJob EXCEPT !.sandbox = s, !.kind = "provision",
                              !.attempts = operation[s].attempts]
<1>1. pc[p] = "idle" /\ pc'[p] = "stale" /\ job'[p] = j /\ Only(p)
  BY TakeWrites DEF ClaimStale
<1>2. j.sandbox = s
  BY DEF NoJob
<1>3. TakesUp(p, s)
  BY <1>1, <1>2, Admitted DEF CapacityInv, TakesUp, ClaimStale, Carrying, Driving
<1>4. OwnerShape(p, s)' /\ LeaseShape(p, s)'
  BY <1>1 DEF OwnerShape, LeaseShape, Carrying, Driving
<1> QED
  BY <1>3, <1>4, TakesUpKeeps

LEMMA LeaseFencedKeeps ==
  ASSUME TypeOK, CapacityInv, NEW p \in Processes, NEW s \in Sandboxes, LeaseFenced(p, s)
  PROVE  CapacityInv'
  BY RestKeeps DEF LeaseFenced, At

LEMMA CrashKeeps ==
  ASSUME TypeOK, CapacityInv, NEW p \in Processes, Crash(p)
  PROVE  CapacityInv'
<1>1. pc'[p] = "idle" /\ job'[p] = NoJob /\ Only(p)
  BY RestWrites DEF Crash
<1>2. CASE job[p].sandbox \in Sandboxes
  BY <1>2, RestKeeps DEF Crash
<1>3. CASE job[p].sandbox \notin Sandboxes
  <2>1. ASSUME NEW s \in Sandboxes PROVE RowsSame(s) /\ WorkSame(s)
    BY <1>1, <1>3, <2>1, SameWrites, Nothing, SandboxesAssumption DEF Crash, WorkSame, Only
  <2> QED
    BY <2>1, RowInvKept, WorkInvKept DEF CapacityInv
<1> QED
  BY <1>2, <1>3

LEMMA ClaimWrites ==
  ASSUME TypeOK, NEW s \in Sandboxes, NEW p \in Processes, Claim(s), NEW point,
         NEW role, Take(p, point, ClaimJob(s, role))
  PROVE  /\ operation'[s].secret = operation[s].secret /\ operation'[s].state = "running"
         /\ \A t \in Sandboxes : t # s => operation'[t] = operation[t]
         /\ pc'[p] = point /\ Only(p)
         /\ job'[p].sandbox = s /\ job'[p].runtime = 0
<1>1. ClaimJob(s, role).sandbox = s /\ ClaimJob(s, role).runtime = 0
  BY DEF ClaimJob, NoJob
<1> QED
  BY <1>1, TakeWrites DEF TypeOK, Operation, Claim

LEMMA ClaimByIdKeeps ==
  ASSUME TypeOK, CapacityInv, NEW p \in Processes, NEW s \in Sandboxes, ClaimById(p, s)
  PROVE  CapacityInv'
<1>1. CASE Claim(s) /\ Take(p, "starting", ClaimJob(s, "api"))
           /\ operation[s].state \in {"queued", "failed"}
  <2>1. MovesAt(p, s)
    BY <1>1, ClaimWrites, Admitted DEF CapacityInv, MovesAt, ClaimById, At
  <2>2. Idles(p, s)
    BY <1>1, ClaimWrites DEF Idles, ClaimById, At, Early, Carrying, Driving
  <2>3. CreateOnce(s)'
    BY <1>1, ClaimWrites, CreateOnceKept DEF CapacityInv, ClaimById
  <2> QED
    BY <2>1, <2>2, <2>3, MoveKeeps
<1>2. CASE Rest(p) /\ UNCHANGED operation
  BY <1>2, RestKeeps DEF ClaimById, At, database
<1> QED
  BY <1>1, <1>2 DEF ClaimById

LEMMA ClaimNextKeeps ==
  ASSUME TypeOK, CapacityInv, NEW p \in Processes, NEW s \in Sandboxes, ClaimNext(p, s)
  PROVE  CapacityInv'
<1>1. MovesAt(p, s)
  BY ClaimWrites, Admitted DEF CapacityInv, MovesAt, ClaimNext
<1>2. CreateOnce(s)'
  BY ClaimWrites, CreateOnceKept DEF CapacityInv, ClaimNext
<1>3. pc'[p] = "checking" /\ job'[p].sandbox = s /\ job'[p].runtime = 0
  BY ClaimWrites DEF ClaimNext
<1>4. JobShape(p, s)' /\ OwnerShape(p, s)' /\ LeaseShape(p, s)' /\ DrivesOn(p, s)
  BY <1>3 DEF JobShape, OwnerShape, LeaseShape, DrivesOn, Early, Carrying, Driving
<1>5. ~operation[s].secret
  BY DEF ClaimNext
<1> QED
  BY <1>1, <1>2, <1>4, <1>5, MoveKeeps

\* A process that rests after it changed the state of the operation.
LEMMA OperationRestKeeps ==
  ASSUME TypeOK, CapacityInv, NEW p \in Processes, NEW s \in Sandboxes,
         job[p].sandbox = s, Rest(p), UNCHANGED <<sandbox, ledger, effects, provider>>,
         operation'[s].secret = operation[s].secret,
         operation[s].state = "succeeded" => operation'[s].state = "succeeded",
         \A t \in Sandboxes : t # s => operation'[t] = operation[t]
  PROVE  CapacityInv'
<1>1. pc'[p] = "idle" /\ job'[p] = NoJob /\ Only(p)
  BY RestWrites
<1>2. MovesAt(p, s)
  BY <1>1, Admitted, Nothing DEF CapacityInv, MovesAt
<1>3. Idles(p, s)
  BY <1>1, Nothing, SandboxesAssumption DEF Idles, Early, Carrying, Driving
<1>4. CreateOnce(s)'
  BY CreateOnceKept DEF CapacityInv
<1> QED
  BY <1>2, <1>3, <1>4, MoveKeeps

LEMMA FailOperationKeeps ==
  ASSUME TypeOK, CapacityInv, NEW p \in Processes, NEW s \in Sandboxes, FailOperation(p, s)
  PROVE  CapacityInv'
<1>1. /\ operation'[s].secret = operation[s].secret
      /\ operation[s].state = "succeeded" => operation'[s].state = "succeeded"
      /\ \A t \in Sandboxes : t # s => operation'[t] = operation[t]
  BY DEF FailOperation, FailClaim, Completable, TypeOK, Operation
<1> QED
  BY <1>1, OperationRestKeeps DEF FailOperation, At

LEMMA ReconcileStaleKeeps ==
  ASSUME TypeOK, CapacityInv, NEW p \in Processes, NEW s \in Sandboxes, ReconcileStale(p, s)
  PROVE  CapacityInv'
<1>1. /\ operation'[s].secret = operation[s].secret
      /\ operation[s].state = "succeeded" => operation'[s].state = "succeeded"
      /\ \A t \in Sandboxes : t # s => operation'[t] = operation[t]
  BY DEF ReconcileStale, Completable, TypeOK, Operation
<1> QED
  BY <1>1, OperationRestKeeps DEF ReconcileStale, At

-----------------------------------------------------------------------------
(* Transactions that settle the effect, or find it settled. *)

LEMMA SettlingKeeps ==
  ASSUME TypeOK, CapacityInv, NEW p \in Processes, NEW s \in Sandboxes,
         SettledRow(s), SettledWork(p, s), Elsewhere(s),
         PausedShape(s)', CreateOnce(s)', MayExecute(s)' => Held(s)'
  PROVE  CapacityInv'
  BY RowSettled, WorkSettled, ElsewhereKept DEF CapacityInv

\* What the rows say about an effect of which nothing was dispatched.
LEMMA Undispatched ==
  ASSUME NEW s, RowInv(s), effect[s].kind \in {"prepare", "provision"},
         ~effect[s].dispatched
  PROVE  /\ creates[s] = {} /\ identity[s] = 0 /\ Held(s)
         /\ effect[s].generation = generation[s]
  BY Nothing DEF RowInv, EffectShape, RuntimeShape

LEMMA PreparingOwns ==
  ASSUME CapacityInv, NEW p \in Processes, NEW s \in Sandboxes, At(p, "preparing", s), Owns(p)
  PROVE  effect[s].kind = "prepare" /\ ~effect[s].dispatched /\ status[s] # "absent"
<1>1. EffectShape(s) /\ OwnerShape(p, s) /\ WorkInv(s)
  BY DEF CapacityInv, RowInv, WorkInv
<1>2. effect[s].kind = "prepare" /\ ~effect[s].dispatched
  BY <1>1 DEF OwnerShape, OwnsAt, At, Owns, Carrying, Driving, EffectShape
<1> QED
  BY <1>1, <1>2, Admitted DEF At

LEMMA FinishPreparationKeeps ==
  ASSUME TypeOK, CapacityInv, NEW p \in Processes, NEW s \in Sandboxes,
         FinishPreparation(p, s)
  PROVE  CapacityInv'
<1>a. RowInv(s) /\ WorkInv(s)
  BY DEF CapacityInv
<1>b. At(p, "preparing", s) /\ Owns(p)
  BY DEF FinishPreparation
<1>1. /\ effect[s].kind = "prepare" /\ ~effect[s].dispatched /\ status[s] # "absent"
      /\ creates[s] = {} /\ identity[s] = 0 /\ Held(s)
  BY <1>a, <1>b, PreparingOwns, Undispatched
<1>2. /\ effect'[s] = NoEffect /\ version'[s] = version[s] /\ creates'[s] = creates[s]
      /\ LedgerSame(s) /\ SandboxSame(s) /\ ProviderSame(s)
  BY SettleWrites, SameWrites DEF FinishPreparation
<1>3. /\ operation'[s].secret = operation[s].secret
      /\ \A t \in Sandboxes : t # s => operation'[t] = operation[t]
  BY DEF FinishPreparation, TypeOK, Operation
<1>4. SettledRow(s)
  BY <1>a, <1>1, <1>2, OnlyIdentity DEF SettledRow, SandboxSame, ProviderSame
<1>5. Only(p) /\ Idles(p, s) /\ job'[p].sandbox \in {s, NoSandbox}
  <2>1. CASE Take(p, "admitted", [NoJob EXCEPT !.sandbox = s])
    <3>1. /\ [NoJob EXCEPT !.sandbox = s].sandbox = s
          /\ [NoJob EXCEPT !.sandbox = s].runtime = 0
      BY DEF NoJob
    <3>2. /\ pc'[p] = "admitted" /\ job'[p].sandbox = s /\ job'[p].runtime = 0
          /\ Only(p)
      BY <2>1, <3>1, TakeWrites
    <3> QED
      BY <1>b, <3>2 DEF Idles, At, Early, Carrying, Driving
  <2>2. CASE Rest(p)
    BY <2>2, RestWrites, Nothing, SandboxesAssumption DEF Idles, Early, Carrying, Driving
  <2> QED
    BY <2>1, <2>2 DEF FinishPreparation
<1>6. SettledWork(p, s)
  BY <1>1, <1>2, <1>3, <1>5 DEF SettledWork, Lasting, SandboxSame, ProviderSame
<1>7. Elsewhere(s)
  BY <1>b, <1>3, <1>5, SettleWrites, SameWrites, WorkElsewhere
  DEF FinishPreparation, At, Elsewhere, RowsSame
<1>8. PausedShape(s)' /\ CreateOnce(s)'
  BY <1>a, <1>1, <1>2, Nothing
  DEF RowInv, PausedShape, CreateOnce, SandboxSame, LedgerSame
<1>9. Held(s)'
  BY <1>1, <1>2, HeldSame
<1> QED
  BY <1>4, <1>6, <1>7, <1>8, <1>9, SettlingKeeps

LEMMA AbandonPreparationKeeps ==
  ASSUME TypeOK, CapacityInv, NEW p \in Processes, NEW s \in Sandboxes,
         AbandonPreparation(p, s)
  PROVE  CapacityInv'
<1>a. RowInv(s) /\ WorkInv(s)
  BY DEF CapacityInv
<1>b. At(p, "preparing", s) /\ Owns(p)
  BY DEF AbandonPreparation
<1>1. /\ effect[s].kind = "prepare" /\ ~effect[s].dispatched /\ status[s] # "absent"
      /\ creates[s] = {} /\ identity[s] = 0 /\ Held(s)
      /\ effect[s].generation = generation[s]
  BY <1>a, <1>b, PreparingOwns, Undispatched
<1>2. /\ effect'[s] = NoEffect /\ version'[s] = version[s] /\ creates'[s] = creates[s]
      /\ ProviderSame(s)
  BY SettleWrites, SameWrites DEF AbandonPreparation
<1>3. status'[s] = "error" /\ identity'[s] = 0
      /\ \A t \in Sandboxes : t # s => SandboxSame(t)
  BY <1>1 DEF AbandonPreparation, TypeOK, SandboxType, SandboxSame
<1>4. suspended'[s] = suspended[s]
  BY <1>1, <1>2, ReleaseWrites DEF AbandonPreparation, TypeOK, LedgerType
<1>5. SettledRow(s)
  BY <1>a, <1>1, <1>2, <1>3, OnlyIdentity DEF SettledRow, ProviderSame
<1>6. Only(p) /\ Idles(p, s) /\ job'[p].sandbox \in {s, NoSandbox}
  BY RestWrites, Nothing, SandboxesAssumption
  DEF AbandonPreparation, Idles, Early, Carrying, Driving
<1>7. SettledWork(p, s)
  BY <1>1, <1>2, <1>3, <1>6, OperationWrites
  DEF AbandonPreparation, SettledWork, Lasting, ProviderSame
<1>8. Elsewhere(s)
  BY <1>b, <1>3, <1>6, SettleWrites, ReleaseWrites, OperationWrites, SameWrites,
     WorkElsewhere
  DEF AbandonPreparation, At, Elsewhere, RowsSame
<1>9. PausedShape(s)' /\ CreateOnce(s)'
  BY <1>a, <1>1, <1>2, <1>3, <1>4, Nothing DEF RowInv, PausedShape, CreateOnce
<1>10. ~MayExecute(s)'
  BY <1>3, <1>5, ExecutesIdentity DEF SettledRow, EffectIds
<1> QED
  BY <1>5, <1>7, <1>8, <1>9, <1>10, SettlingKeeps

LEMMA AbortProvisionKeeps ==
  ASSUME TypeOK, CapacityInv, NEW p \in Processes, NEW s \in Sandboxes, AbortProvision(p, s)
  PROVE  CapacityInv'
<1>a. RowInv(s) /\ WorkInv(s) /\ OwnerShape(p, s)
  BY DEF CapacityInv, WorkInv
<1>b. At(p, "aborting", s) /\ Owns(p) /\ OwnsAt(p, s)
  BY DEF AbortProvision, At, Owns, OwnsAt
<1>1. /\ effect[s].kind = "provision" /\ runtime[s][effect[s].id] = "none"
      /\ \A c \in calls : c.sandbox = s => c.kind # "provision"
  BY <1>a, <1>b DEF OwnerShape, At, Carrying, Driving
<1>2. Held(s) /\ effect[s].generation = generation[s] /\ identity[s] = 0
  BY <1>a, <1>1, Nothing DEF RowInv, EffectShape, RuntimeShape
<1>3. Quiet(s)
  BY <1>a, <1>1 DEF RowInv, CallShape, Quiet
<1>4. /\ effect'[s] = NoEffect /\ version'[s] = version[s] /\ creates'[s] = creates[s]
      /\ SandboxSame(s) /\ ProviderSame(s) /\ operation' = operation
  BY SettleWrites, SameWrites DEF AbortProvision
<1>5. ~Held(s)' /\ suspended'[s] = suspended[s]
  BY <1>2, <1>4, ReleaseWrites DEF AbortProvision, TypeOK, LedgerType
<1>6. SettledRow(s)
  BY <1>a, <1>1, <1>3, <1>4, OnlyIdentity
  DEF SettledRow, SandboxSame, ProviderSame, LiveStates
<1>7. pc'[p] = "failing" /\ job'[p].sandbox = s /\ Only(p)
  BY <1>b, FailWrites DEF AbortProvision, At
<1>8. SettledWork(p, s)
  BY <1>a, <1>2, <1>4, <1>7, Admitted
  DEF SettledWork, Idles, Lasting, SandboxSame, ProviderSame, Early, Carrying, Driving
<1>9. Elsewhere(s)
  BY <1>b, <1>4, <1>7, SettleWrites, ReleaseWrites, SameWrites, WorkElsewhere
  DEF AbortProvision, At, Elsewhere, RowsSame
<1>10. PausedShape(s)' /\ CreateOnce(s)'
  BY <1>a, <1>2, <1>4, <1>5, Nothing DEF RowInv, PausedShape, CreateOnce, SandboxSame
<1>11. ~MayExecute(s)'
  BY <1>2, <1>4, <1>6, ExecutesIdentity DEF SettledRow, EffectIds, SandboxSame
<1> QED
  BY <1>6, <1>8, <1>9, <1>10, <1>11, SettlingKeeps

LEMMA CompleteProvisionKeeps ==
  ASSUME TypeOK, CapacityInv, NEW p \in Processes, NEW s \in Sandboxes,
         CompleteProvision(p, s)
  PROVE  CapacityInv'
<1>a. RowInv(s) /\ WorkInv(s) /\ OwnerShape(p, s)
  BY DEF CapacityInv, WorkInv
<1>b. At(p, "persisted", s) /\ job[p].sandbox = s /\ Owns(p) /\ OwnsAt(p, s)
  BY DEF CompleteProvision, At, Owns, OwnsAt
<1>1. CASE ~Completable(s, job[p].attempts, {"running"})
  <2>1. UNCHANGED database /\ UNCHANGED provider
    BY <1>1 DEF CompleteProvision, database
  <2>2. CASE Rest(p)
    BY <1>b, <2>1, <2>2, RestKeeps
  <2>3. CASE Fail(p)
    BY <1>b, <2>1, <2>3, FailKeeps
  <2> QED
    BY <1>1, <2>2, <2>3 DEF CompleteProvision
<1>2. CASE Completable(s, job[p].attempts, {"running"})
  <2>1. /\ effect[s].kind = "provision" /\ identity[s] = effect[s].id
        /\ Created(s) /\ identity[s] # 0
    BY <1>a, <1>b, Nothing
    DEF OwnerShape, At, Carrying, Driving, Created, RowInv, EffectShape
  <2>2. Held(s)
    BY <1>a, <2>1 DEF RowInv, EffectShape
  <2>3. /\ effect'[s] = NoEffect /\ version'[s] = version[s] /\ creates'[s] = creates[s]
        /\ SandboxSame(s) /\ ProviderSame(s)
    BY <1>2, SettleWrites, SameWrites DEF CompleteProvision
  <2>4. /\ Held(s)' /\ suspended'[s] = suspended[s]
        /\ \A t \in Sandboxes : t # s => LedgerSame(t)
    BY <1>2, <2>2, MarkWrites DEF CompleteProvision, HeldPhases
  <2>5. SettledRow(s)
    BY <1>a, <2>1, <2>3, OnlyIdentity DEF SettledRow, SandboxSame, ProviderSame
  <2>6. Only(p) /\ Idles(p, s) /\ job'[p].sandbox \in {s, NoSandbox}
    BY <1>2, RestWrites, Nothing, SandboxesAssumption
    DEF CompleteProvision, Idles, Early, Carrying, Driving
  <2>7. SettledWork(p, s)
    BY <1>a, <1>2, <2>1, <2>3, <2>6, OperationWrites, Admitted
    DEF CompleteProvision, SettledWork, Lasting, SandboxSame, ProviderSame
  <2>8. Elsewhere(s)
    BY <1>b, <1>2, <2>4, <2>6, SettleWrites, OperationWrites, SameWrites, WorkElsewhere
    DEF CompleteProvision, Elsewhere, RowsSame
  <2>9. PausedShape(s)' /\ CreateOnce(s)'
    BY <1>a, <1>2, <2>1, <2>3, <2>4, Nothing, OperationWrites
    DEF CompleteProvision, RowInv, PausedShape, CreateOnce, SandboxSame
  <2> QED
    BY <2>4, <2>5, <2>7, <2>8, <2>9, SettlingKeeps
<1> QED
  BY <1>1, <1>2

\* What a process that saw its effect's evidence knows.
LEMMA ObservedOwns ==
  ASSUME TypeOK, CapacityInv, NEW p \in Processes, NEW s \in Sandboxes,
         At(p, "observed", s), Owns(p)
  PROVE  /\ job[p].sandbox = s /\ job[p].kind = effect[s].kind
         /\ effect[s].kind \in {"pause", "resume", "delete"}
         /\ effect[s].generation = generation[s] /\ identity[s] # 0
         /\ effect[s].kind # "delete" => Held(s)
         /\ effect[s].kind = "pause" => runtime[s][identity[s]] \in Stopped
         /\ effect[s].kind = "delete" => runtime[s][identity[s]] = "gone"
         /\ Quiet(s) /\ status[s] # "absent"
<1>1. RowInv(s) /\ WorkInv(s) /\ OwnerShape(p, s) /\ OwnsAt(p, s)
  BY DEF CapacityInv, WorkInv, At, Owns, OwnsAt
<1>2. /\ job[p].kind = effect[s].kind /\ effect[s].kind \in {"pause", "resume", "delete"}
      /\ effect[s].kind = "pause" => runtime[s][identity[s]] \in Stopped
      /\ effect[s].kind = "delete" => runtime[s][identity[s]] = "gone"
      /\ effect[s].kind = "resume" => \A c \in calls : c.sandbox = s => c.kind # "resume"
  BY <1>1 DEF OwnerShape, At, Carrying
<1>3. /\ effect[s].generation = generation[s] /\ identity[s] # 0
      /\ effect[s].kind # "delete" => Held(s)
  BY <1>1, <1>2, Nothing DEF RowInv, EffectShape
<1>4. Quiet(s)
  BY <1>1, <1>2 DEF RowInv, CallShape, Quiet
<1> QED
  BY <1>1, <1>2, <1>3, <1>4, Admitted DEF At

LEMMA FinishLifecycleKeeps ==
  ASSUME TypeOK, CapacityInv, NEW p \in Processes, NEW s \in Sandboxes,
         FinishLifecycle(p, s)
  PROVE  CapacityInv'
<1>a. RowInv(s) /\ WorkInv(s)
  BY DEF CapacityInv
<1>1. /\ job[p].sandbox = s /\ job[p].kind = effect[s].kind
      /\ effect[s].kind \in {"pause", "resume"}
      /\ effect[s].generation = generation[s] /\ identity[s] # 0 /\ Held(s)
      /\ effect[s].kind = "pause" => runtime[s][identity[s]] \in Stopped
      /\ Quiet(s) /\ status[s] # "absent"
  BY ObservedOwns DEF FinishLifecycle
<1>2. /\ effect'[s] = NoEffect /\ version'[s] = version[s] /\ creates'[s] = creates[s]
      /\ ProviderSame(s) /\ operation' = operation
  BY SettleWrites, SameWrites DEF FinishLifecycle
<1>3. /\ status'[s] = IF effect[s].kind = "pause" THEN "paused" ELSE "running"
      /\ identity'[s] = identity[s]
      /\ \A t \in Sandboxes : t # s => SandboxSame(t)
  BY <1>1, StatusWrites DEF FinishLifecycle
<1>4. SettledRow(s)
  BY <1>a, <1>1, <1>2, <1>3, OnlyIdentity DEF SettledRow, ProviderSame
<1>5. Only(p) /\ Idles(p, s) /\ job'[p].sandbox \in {s, NoSandbox}
  BY RestWrites, Nothing, SandboxesAssumption
  DEF FinishLifecycle, Idles, Early, Carrying, Driving
<1>6. SettledWork(p, s)
  BY <1>2, <1>3, <1>5 DEF SettledWork, Lasting, ProviderSame
<1>7. /\ \A t \in Sandboxes : t # s => LedgerSame(t)
      /\ suspended'[s] => suspended[s] \/ PauseStopsExecution
      /\ ~Held(s)' => effect[s].kind = "pause" /\ PauseStopsExecution
  <2>1. CASE effect[s].kind = "pause" /\ PauseStopsExecution
    BY <1>1, <1>2, <2>1, ReleaseWrites DEF FinishLifecycle
  <2>2. CASE ~(effect[s].kind = "pause" /\ PauseStopsExecution)
    BY <1>1, <2>2, MarkWrites DEF FinishLifecycle, HeldPhases
  <2> QED
    BY <2>1, <2>2
<1>8. Elsewhere(s)
  BY <1>1, <1>2, <1>3, <1>5, <1>7, SettleWrites, SameWrites, WorkElsewhere
  DEF FinishLifecycle, Elsewhere, RowsSame
<1>9. PausedShape(s)'
  BY <1>a, <1>1, <1>2, <1>3, <1>7, Nothing DEF RowInv, PausedShape, ProviderSame
<1>10. CreateOnce(s)'
  BY <1>a, <1>1, <1>2 DEF RowInv, CreateOnce
<1>11. MayExecute(s)' => Held(s)'
  BY <1>1, <1>3, <1>4, <1>7, ExecutesIdentity DEF SettledRow, Stopped, LiveStates
<1> QED
  BY <1>4, <1>6, <1>8, <1>9, <1>10, <1>11, SettlingKeeps

LEMMA FinishDeletionKeeps ==
  ASSUME TypeOK, CapacityInv, NEW p \in Processes, NEW s \in Sandboxes, FinishDeletion(p, s)
  PROVE  CapacityInv'
<1>a. RowInv(s) /\ WorkInv(s)
  BY DEF CapacityInv
<1>1. /\ job[p].sandbox = s /\ effect[s].kind = "delete"
      /\ effect[s].generation = generation[s] /\ identity[s] # 0
      /\ runtime[s][identity[s]] = "gone" /\ Quiet(s) /\ status[s] # "absent"
  BY ObservedOwns DEF FinishDeletion
<1>2. /\ effect'[s] = NoEffect /\ version'[s] = version[s] /\ creates'[s] = creates[s]
      /\ ProviderSame(s) /\ operation' = operation
  BY SettleWrites, SameWrites DEF FinishDeletion
<1>3. /\ status'[s] = "terminated" /\ identity'[s] = identity[s]
      /\ \A t \in Sandboxes : t # s => SandboxSame(t)
  BY StatusWrites DEF FinishDeletion
<1>4. SettledRow(s)
  BY <1>a, <1>1, <1>2, <1>3, OnlyIdentity DEF SettledRow, ProviderSame
<1>5. Only(p) /\ Idles(p, s) /\ job'[p].sandbox \in {s, NoSandbox}
  BY RestWrites, Nothing, SandboxesAssumption
  DEF FinishDeletion, Idles, Early, Carrying, Driving
<1>6. SettledWork(p, s)
  BY <1>2, <1>3, <1>5 DEF SettledWork, Lasting, ProviderSame
<1>7. ~Held(s)' /\ suspended'[s] = suspended[s]
  BY <1>1, <1>2 DEF FinishDeletion, Release, Held, HeldPhases, TypeOK, LedgerType
<1>8. Elsewhere(s)
  BY <1>1, <1>2, <1>3, <1>5, SettleWrites, ReleaseWrites, SameWrites, WorkElsewhere
  DEF FinishDeletion, Elsewhere, RowsSame
<1>9. PausedShape(s)' /\ CreateOnce(s)'
  BY <1>a, <1>1, <1>2, <1>3, <1>7, Nothing DEF RowInv, PausedShape, CreateOnce
<1>10. ~MayExecute(s)'
  BY <1>1, <1>3, <1>4, ExecutesIdentity DEF SettledRow, LiveStates
<1> QED
  BY <1>4, <1>6, <1>8, <1>9, <1>10, SettlingKeeps

LEMMA CancelBeforeDispatchKeeps ==
  ASSUME TypeOK, CapacityInv, NEW p \in Processes, NEW s \in Sandboxes,
         CancelBeforeDispatch(s)
  PROVE  CapacityInv'
<1>a. RowInv(s) /\ WorkInv(s)
  BY DEF CapacityInv
<1>1. Held(s) /\ identity[s] = 0 /\ ~effect[s].dispatched /\ status[s] # "absent"
  BY <1>a, Admitted DEF CancelBeforeDispatch
<1>2. /\ effect'[s] = NoEffect /\ version'[s] = version[s] /\ creates'[s] = creates[s]
      /\ ProviderSame(s)
  BY SettleWrites, SameWrites DEF CancelBeforeDispatch
<1>3. /\ status'[s] = "terminated" /\ identity'[s] = identity[s]
      /\ \A t \in Sandboxes : t # s => SandboxSame(t)
  BY StatusWrites DEF CancelBeforeDispatch
<1>4. /\ operation'[s].secret = operation[s].secret
      /\ \A t \in Sandboxes : t # s => operation'[t] = operation[t]
  BY DEF CancelBeforeDispatch, TypeOK, Operation
<1>5. SettledRow(s)
  BY <1>a, <1>1, <1>2, <1>3, OnlyIdentity DEF SettledRow, ProviderSame
<1>6. Stays(p) /\ Only(p)
  BY DEF CancelBeforeDispatch, processes, Stays, Only
<1>7. SettledWork(p, s)
  BY <1>2, <1>3, <1>4, <1>6 DEF SettledWork, Lasting, ProviderSame
<1>8. ~Held(s)' /\ suspended'[s] = suspended[s]
  BY <1>1, <1>2, ReleaseWrites DEF CancelBeforeDispatch, TypeOK, LedgerType
<1>9. Elsewhere(s)
  BY <1>3, <1>4, SettleWrites, ReleaseWrites, SameWrites
  DEF CancelBeforeDispatch, Elsewhere, RowsSame
<1>10. PausedShape(s)' /\ CreateOnce(s)'
  BY <1>a, <1>1, <1>2, <1>3, <1>8, Nothing DEF RowInv, PausedShape, CreateOnce
<1>11. ~MayExecute(s)'
  BY <1>1, <1>3, <1>5, ExecutesIdentity DEF SettledRow, EffectIds
<1> QED
  BY <1>5, <1>7, <1>9, <1>10, <1>11, SettlingKeeps

LEMMA CancelUndispatchedKeeps ==
  ASSUME TypeOK, CapacityInv, NEW p \in Processes, NEW s \in Sandboxes,
         CancelUndispatched(s)
  PROVE  CapacityInv'
<1>a. RowInv(s) /\ WorkInv(s)
  BY DEF CapacityInv
<1> DEFINE kind == effect[s].kind
           g == effect[s].generation
<1>1. ~effect[s].dispatched /\ ~Settled(s) /\ g = generation[s] /\ status[s] # "absent"
  BY <1>a, Admitted DEF CancelUndispatched, RowInv, EffectShape, Settled
<1>2. /\ effect'[s] = NoEffect /\ version'[s] = version[s] /\ creates'[s] = creates[s]
      /\ ProviderSame(s) /\ identity'[s] = identity[s]
  BY SettleWrites, SameWrites DEF CancelUndispatched
<1>3. SettledRow(s)
  BY <1>a, <1>1, <1>2, OnlyIdentity DEF SettledRow, ProviderSame
<1>4. Stays(p) /\ Only(p)
  BY DEF CancelUndispatched, processes, Stays, Only
<1>5. ASSUME status'[s] # "absent", operation'[s].secret = operation[s].secret,
             \A t \in Sandboxes : t # s =>
               LedgerSame(t) /\ status'[t] = status[t] /\ operation'[t] = operation[t]
      PROVE  SettledWork(p, s) /\ Elsewhere(s)
  <2>1. SettledWork(p, s)
    BY <1>2, <1>4, <1>5 DEF SettledWork, Lasting, ProviderSame
  <2>2. Elsewhere(s)
    BY <1>5, SettleWrites, SameWrites
    DEF CancelUndispatched, Elsewhere, RowsSame, SandboxSame
  <2> QED
    BY <2>1, <2>2
<1>6. CASE /\ kind \in {"prepare", "provision"}
           /\ SetOperation(s, "failed") /\ SetStatus(s, "terminated")
           /\ Release(s, g, "canceled_before_dispatch")
  <2>1. creates[s] = {} /\ identity[s] = 0 /\ Held(s)
    BY <1>a, <1>1, <1>6, Undispatched
  <2>2. ~Held(s)' /\ suspended'[s] = suspended[s]
    BY <1>1, <1>2, <1>6, <2>1, ReleaseWrites DEF TypeOK, LedgerType
  <2>3. SettledWork(p, s) /\ Elsewhere(s)
    BY <1>5, <1>6, ReleaseWrites, OperationWrites DEF SetStatus, TypeOK, SandboxType
  <2>4. PausedShape(s)' /\ CreateOnce(s)'
    BY <1>a, <1>2, <2>1, <2>2, Nothing DEF RowInv, PausedShape, CreateOnce
  <2>5. ~MayExecute(s)'
    BY <1>2, <1>3, <2>1, ExecutesIdentity DEF SettledRow, EffectIds
  <2> QED
    BY <1>3, <2>3, <2>4, <2>5, SettlingKeeps
<1>7. CASE /\ kind = "resume" /\ SetStatus(s, "paused")
           /\ IF suspended[s] THEN Release(s, g, "canceled_before_dispatch")
                              ELSE Mark(s, generation[s], "active")
           /\ UNCHANGED operation
  <2>1. Held(s) /\ identity[s] # 0 /\ runtime[s][identity[s]] \in Stopped
    BY <1>a, <1>1, <1>7, Nothing DEF RowInv, EffectShape, PausedShape
  <2>2. /\ suspended'[s] = suspended[s]
        /\ ~Held(s)' => suspended[s]
        /\ \A t \in Sandboxes : t # s => LedgerSame(t)
    <3>1. CASE suspended[s]
      BY <1>1, <1>2, <1>7, <2>1, <3>1, ReleaseWrites DEF TypeOK, LedgerType
    <3>2. CASE ~suspended[s]
      BY <1>7, <2>1, <3>2, MarkWrites DEF HeldPhases
    <3> QED
      BY <3>1, <3>2
  <2>3. SettledWork(p, s) /\ Elsewhere(s)
    BY <1>5, <1>7, <2>2 DEF SetStatus, TypeOK, SandboxType
  <2>4. PausedShape(s)' /\ CreateOnce(s)'
    BY <1>a, <1>2, <1>7, <2>1, <2>2, Nothing
    DEF RowInv, PausedShape, CreateOnce, ProviderSame
  <2>5. MayExecute(s)' => Held(s)'
    BY <1>a, <1>2, <1>3, <2>1, <2>2, ExecutesIdentity
    DEF SettledRow, RowInv, PausedShape, Stopped, LiveStates
  <2> QED
    BY <1>3, <2>3, <2>4, <2>5, SettlingKeeps
<1>8. CASE /\ kind \in {"pause", "delete"}
           /\ status' = [status EXCEPT ![s] = IF kind = "pause" THEN "running" ELSE @]
           /\ Mark(s, generation[s], "active")
           /\ UNCHANGED operation
  <2>1. /\ Held(s)' <=> Held(s)
        /\ suspended'[s] = suspended[s]
        /\ \A t \in Sandboxes : t # s => LedgerSame(t)
    BY <1>8, MarkWrites DEF HeldPhases
  <2>2. /\ status'[s] = IF kind = "pause" THEN "running" ELSE status[s]
        /\ \A t \in Sandboxes : t # s => status'[t] = status[t]
    BY <1>8 DEF TypeOK, SandboxType
  <2>3. SettledWork(p, s) /\ Elsewhere(s)
    BY <1>1, <1>5, <1>8, <2>1, <2>2
  <2>4. PausedShape(s)'
    BY <1>a, <1>2, <1>8, <2>1, <2>2, Nothing DEF RowInv, PausedShape, ProviderSame
  <2>5. CreateOnce(s)'
    BY <1>a, <1>2, <1>8, <2>1, <2>2 DEF RowInv, EffectShape, CreateOnce
  <2>6. MayExecute(s)' => Held(s)'
    BY <1>a, <1>2, <2>1, MayExecuteKept DEF RowInv
  <2> QED
    BY <1>3, <2>3, <2>4, <2>5, <2>6, SettlingKeeps
<1> QED
  BY <1>6, <1>7, <1>8 DEF CancelUndispatched

\* What a process that recovers a create knows.
LEMMA RecoveringOwns ==
  ASSUME CapacityInv, NEW p \in Processes, NEW s \in Sandboxes,
         pc[p] \in {"found", "recovering"}, job[p].sandbox = s, Owns(p)
  PROVE  /\ effect[s].kind = "provision" /\ Created(s) /\ job[p].runtime = effect[s].id
         /\ effect[s].id # 0 /\ effect[s].generation = generation[s] /\ Held(s)
         /\ creates[s] = {effect[s].id} /\ identity[s] \in {0, effect[s].id}
         /\ Quiet(s) /\ status[s] # "absent"
         /\ job[p].seen = "gone" /\ AuthoritativeLifecycle => runtime[s][effect[s].id] = "gone"
         /\ job[p].seen = "paused" => runtime[s][effect[s].id] \in Stopped
<1>1. RowInv(s) /\ WorkInv(s) /\ OwnerShape(p, s) /\ OwnsAt(p, s)
  BY DEF CapacityInv, WorkInv, Owns, OwnsAt
<1>2. /\ effect[s].kind = "provision" /\ Created(s) /\ job[p].runtime = effect[s].id
      /\ job[p].seen = "gone" /\ AuthoritativeLifecycle => runtime[s][effect[s].id] = "gone"
      /\ job[p].seen = "paused" => runtime[s][effect[s].id] \in Stopped
  BY <1>1 DEF OwnerShape, Carrying, Created
<1>3. /\ effect[s].id # 0 /\ effect[s].generation = generation[s] /\ Held(s)
      /\ creates[s] = {effect[s].id}
  BY <1>1, <1>2, Nothing DEF RowInv, EffectShape, Created
<1>4. identity[s] \in {0, effect[s].id}
  BY <1>1, <1>3 DEF RowInv, RuntimeShape
<1>5. Quiet(s)
  BY <1>1, <1>2, QuietSlot DEF RowInv
<1> QED
  BY <1>1, <1>2, <1>3, <1>4, <1>5, Admitted

LEMMA RecoverAbsentKeeps ==
  ASSUME TypeOK, CapacityInv, NEW p \in Processes, NEW s \in Sandboxes, RecoverAbsent(p, s)
  PROVE  CapacityInv'
<1>a. RowInv(s) /\ WorkInv(s)
  BY DEF CapacityInv
<1>b. pc[p] = "recovering" /\ job[p].sandbox = s /\ Owns(p) /\ job[p].seen = "gone"
  BY DEF RecoverAbsent, At
<1>1. CASE ~AuthoritativeLifecycle
  BY <1>1, <1>b, RestKeeps DEF RecoverAbsent, database, sandbox
<1>2. CASE AuthoritativeLifecycle
  <2>1. /\ effect[s].kind = "provision" /\ effect[s].generation = generation[s] /\ Held(s)
        /\ identity[s] \in {0, effect[s].id} /\ runtime[s][effect[s].id] = "gone"
        /\ Quiet(s) /\ status[s] # "absent"
    BY <1>2, <1>b, RecoveringOwns
  <2>2. /\ effect'[s] = NoEffect /\ version'[s] = version[s] /\ creates'[s] = creates[s]
        /\ ProviderSame(s)
    BY <1>2, SettleWrites, SameWrites DEF RecoverAbsent
  <2>3. /\ status'[s] = "terminated" /\ identity'[s] = identity[s]
        /\ \A t \in Sandboxes : t # s => SandboxSame(t)
    BY <1>2, StatusWrites DEF RecoverAbsent
  <2>4. SettledRow(s)
    BY <1>a, <2>1, <2>2, <2>3, OnlyIdentity DEF SettledRow, ProviderSame, LiveStates
  <2>5. Only(p) /\ Idles(p, s) /\ job'[p].sandbox \in {s, NoSandbox}
    BY RestWrites, Nothing, SandboxesAssumption
    DEF RecoverAbsent, Idles, Early, Carrying, Driving
  <2>6. SettledWork(p, s)
    BY <1>2, <2>2, <2>3, <2>5, OperationWrites
    DEF RecoverAbsent, SettledWork, Lasting, ProviderSame
  <2>7. ~Held(s)' /\ suspended'[s] = suspended[s]
    BY <1>2, <2>1, <2>2, ReleaseWrites DEF RecoverAbsent, TypeOK, LedgerType
  <2>8. Elsewhere(s)
    BY <1>2, <1>b, <2>3, <2>5, SettleWrites, ReleaseWrites, OperationWrites, SameWrites,
       WorkElsewhere
    DEF RecoverAbsent, Elsewhere, RowsSame
  <2>9. PausedShape(s)' /\ CreateOnce(s)'
    BY <1>a, <2>2, <2>3, <2>7, Nothing DEF RowInv, PausedShape, CreateOnce
  <2>10. ~MayExecute(s)'
    BY <2>1, <2>3, <2>4, ExecutesIdentity DEF SettledRow, EffectIds, LiveStates
  <2> QED
    BY <2>4, <2>6, <2>8, <2>9, <2>10, SettlingKeeps
<1> QED
  BY <1>1, <1>2

LEMMA AdoptKeeps ==
  ASSUME TypeOK, CapacityInv, NEW p \in Processes, NEW s \in Sandboxes,
         At(p, "recovering", s), Owns(p),
         identity' = [identity EXCEPT ![s] = job[p].runtime], SetStatus(s, Adopted(job[p].seen)),
         SetOperation(s, "succeeded"), Settle(s),
         Mark(s, effect[s].generation,
              IF job[p].seen = "running" THEN "active" ELSE "reserved"),
         Rest(p), UNCHANGED provider
  PROVE  CapacityInv'
<1>a. RowInv(s) /\ WorkInv(s) /\ job[p].sandbox = s
  BY DEF CapacityInv, At
<1>1. /\ effect[s].kind = "provision" /\ Created(s) /\ job[p].runtime = effect[s].id
      /\ effect[s].id # 0 /\ Held(s) /\ identity[s] \in {0, effect[s].id}
      /\ job[p].seen = "paused" => runtime[s][effect[s].id] \in Stopped
      /\ Quiet(s) /\ status[s] # "absent"
  BY RecoveringOwns DEF At
<1>2. /\ effect'[s] = NoEffect /\ version'[s] = version[s] /\ creates'[s] = creates[s]
      /\ ProviderSame(s)
  BY SettleWrites, SameWrites
<1>3. /\ status'[s] = Adopted(job[p].seen) /\ identity'[s] = effect[s].id
      /\ \A t \in Sandboxes : t # s => SandboxSame(t)
  BY <1>1 DEF SetStatus, TypeOK, SandboxType, SandboxSame
<1>b. status'[s] # "absent" /\ (status'[s] = "paused" => job[p].seen = "paused")
  BY <1>3 DEF At, TypeOK, ProcessType, Carries, Recoverable, LiveStates, Adopted
<1>4. \A i \in EffectIds : runtime[s][i] \in LiveStates => i = effect[s].id
  BY <1>a, <1>1 DEF RowInv, LiveShape, EffectIds
<1>5. SettledRow(s)
  BY <1>1, <1>2, <1>3, <1>4 DEF SettledRow, OnlyRuntime, ProviderSame
<1>6. Only(p) /\ Idles(p, s) /\ job'[p].sandbox \in {s, NoSandbox}
  BY RestWrites, Nothing, SandboxesAssumption DEF Idles, Early, Carrying, Driving
<1>7. SettledWork(p, s)
  BY <1>1, <1>2, <1>3, <1>b, <1>6, OperationWrites
  DEF SettledWork, Lasting, ProviderSame
<1>8. Held(s)' /\ suspended'[s] = suspended[s] /\ \A t \in Sandboxes : t # s => LedgerSame(t)
  BY <1>1, MarkWrites DEF HeldPhases
<1>9. Elsewhere(s)
  BY <1>a, <1>3, <1>6, <1>8, SettleWrites, OperationWrites, SameWrites, WorkElsewhere
  DEF Elsewhere, RowsSame
<1>10. PausedShape(s)' /\ CreateOnce(s)'
  BY <1>a, <1>1, <1>2, <1>3, <1>b, <1>8, Nothing, OperationWrites
  DEF RowInv, PausedShape, CreateOnce, ProviderSame
<1> QED
  BY <1>5, <1>7, <1>8, <1>9, <1>10, SettlingKeeps

\* A current lease observation: nothing is unsettled and the identity is held.
LEMMA LeasingKnows ==
  ASSUME TypeOK, CapacityInv, NEW p \in Processes, NEW s \in Sandboxes,
         At(p, "leasing", s), Unfenced(p, s)
  PROVE  /\ job[p].sandbox = s /\ effect[s] = NoEffect /\ Held(s)
         /\ identity[s] # 0 /\ job[p].runtime = identity[s]
         /\ job[p].generation = generation[s]
         /\ job[p].seen = "gone" /\ AuthoritativeLifecycle =>
              runtime[s][identity[s]] = "gone"
         /\ job[p].seen = "paused" => runtime[s][identity[s]] \in Stopped
         /\ Quiet(s) /\ status[s] # "absent"
<1>1. RowInv(s) /\ WorkInv(s) /\ LeaseShape(p, s)
  BY DEF CapacityInv, WorkInv
<1>2. /\ job[p].sandbox = s /\ effect[s] = NoEffect /\ Held(s)
      /\ identity[s] # 0 /\ job[p].runtime = identity[s]
      /\ job[p].generation = generation[s]
      /\ job[p].seen = "gone" /\ AuthoritativeLifecycle =>
           runtime[s][identity[s]] = "gone"
      /\ job[p].seen = "paused" => runtime[s][identity[s]] \in Stopped
  BY <1>1 DEF LeaseShape, At, Unfenced, Settled
<1>3. Quiet(s)
  BY <1>1, <1>2, Nothing, QuietSlot DEF RowInv
<1> QED
  BY <1>1, <1>2, <1>3, Admitted

\* The end of a lease reconciliation that leaves the effects alone.
LEMMA LeaseKeeps ==
  ASSUME TypeOK, CapacityInv, NEW p \in Processes, NEW s \in Sandboxes,
         At(p, "leasing", s), Unfenced(p, s), Rest(p),
         identity' = identity, UNCHANGED <<effects, operation, provider>>,
         \A t \in Sandboxes : t # s => LedgerSame(t) /\ status'[t] = status[t],
         status'[s] # "absent",
         status'[s] = "paused" =>
           status[s] = "paused" \/ runtime[s][identity[s]] \in Stopped,
         suspended'[s] => suspended[s] \/ PauseStopsExecution,
         ~Held(s)' => \/ runtime[s][identity[s]] = "gone"
                      \/ runtime[s][identity[s]] \in Stopped /\ PauseStopsExecution
  PROVE  CapacityInv'
<1>a. RowInv(s) /\ WorkInv(s)
  BY DEF CapacityInv
<1>1. effect[s] = NoEffect /\ Held(s) /\ identity[s] # 0 /\ Quiet(s) /\ job[p].sandbox = s
  BY LeasingKnows
<1>2. EffectsSame(s) /\ ProviderSame(s) /\ operation'[s] = operation[s]
  BY SameWrites
<1>3. SettledRow(s)
  BY <1>a, <1>1, <1>2, OnlyIdentity, Nothing DEF SettledRow, EffectsSame, ProviderSame
<1>4. Only(p) /\ Idles(p, s) /\ job'[p].sandbox \in {s, NoSandbox}
  BY RestWrites, Nothing, SandboxesAssumption DEF Idles, Early, Carrying, Driving
<1>5. SettledWork(p, s)
  BY <1>1, <1>2, <1>4 DEF SettledWork, Lasting, EffectsSame, ProviderSame
<1>6. Elsewhere(s)
  BY <1>1, <1>4, SameWrites, WorkElsewhere DEF Elsewhere, RowsSame, SandboxSame
<1>7. PausedShape(s)' /\ CreateOnce(s)'
  BY <1>a, <1>1, <1>2, Nothing
  DEF RowInv, PausedShape, CreateOnce, EffectsSame, ProviderSame
<1>8. MayExecute(s)' => Held(s)'
  BY <1>3, ExecutesIdentity DEF SettledRow, Stopped, LiveStates
<1> QED
  BY <1>3, <1>5, <1>6, <1>7, <1>8, SettlingKeeps

LEMMA LeaseAbsentKeeps ==
  ASSUME TypeOK, CapacityInv, NEW p \in Processes, NEW s \in Sandboxes, LeaseAbsent(p, s)
  PROVE  CapacityInv'
<1>1. /\ effect'[s] = NoEffect /\ Held(s) /\ job[p].generation = generation[s]
      /\ runtime[s][identity[s]] = "gone"
  BY LeasingKnows DEF LeaseAbsent, effects
<1>2. status'[s] = "terminated" /\ \A t \in Sandboxes : t # s => status'[t] = status[t]
  BY DEF LeaseAbsent, SetStatus, TypeOK, SandboxType
<1>3. suspended'[s] = suspended[s] /\ \A t \in Sandboxes : t # s => LedgerSame(t)
  BY <1>1, ReleaseWrites DEF LeaseAbsent, TypeOK, LedgerType
<1> QED
  BY <1>1, <1>2, <1>3, LeaseKeeps DEF LeaseAbsent

LEMMA LeaseUnknownKeeps ==
  ASSUME TypeOK, CapacityInv, NEW p \in Processes, NEW s \in Sandboxes, LeaseUnknown(p, s)
  PROVE  CapacityInv'
<1>1. Held(s) /\ status[s] # "absent"
  BY LeasingKnows DEF LeaseUnknown
<1>2. /\ Held(s)' /\ suspended'[s] = suspended[s]
      /\ \A t \in Sandboxes : t # s => LedgerSame(t)
  BY <1>1, MarkWrites DEF LeaseUnknown, HeldPhases
<1>3. status' = status /\ identity' = identity
  BY DEF LeaseUnknown, sandbox
<1> QED
  BY <1>1, <1>2, <1>3, LeaseKeeps DEF LeaseUnknown

-----------------------------------------------------------------------------
(* Transactions that begin an effect of the identity. *)

LEMMA BeginningKeeps ==
  ASSUME TypeOK, CapacityInv, NEW p \in Processes, NEW s \in Sandboxes,
         BegunRow(s), BegunWork(p, s), Elsewhere(s),
         PausedShape(s)', CreateOnce(s)', MayExecute(s)' => Held(s)'
  PROVE  CapacityInv'
  BY RowBegun, WorkBegun, ElsewhereKept DEF CapacityInv

\* A pause, a resume or a delete of the saved identity when nothing is unsettled.
LEMMA BeginKeeps ==
  ASSUME TypeOK, CapacityInv, NEW p \in Processes, NEW s \in Sandboxes,
         effect[s] = NoEffect, identity[s] # 0, pc[p] = "idle" \/ job[p].sandbox = s,
         NEW kind \in {"pause", "resume", "delete"},
         Begin(s, kind, generation'[s], identity[s]),
         Take(p, "begun", BegunJob(s, kind, identity[s])),
         identity' = identity, UNCHANGED <<operation, provider>>,
         \A t \in Sandboxes : t # s => LedgerSame(t) /\ status'[t] = status[t],
         Held(s) \/ status[s] = "paused",
         Held(s) => Held(s)', kind # "delete" => Held(s)', suspended'[s] = suspended[s],
         status'[s] # "absent",
         status'[s] = "paused" => kind = "delete" /\ runtime[s][identity[s]] \in Stopped,
         kind = "resume" => runtime[s][identity[s]] \in Stopped
  PROVE  CapacityInv'
<1>a. RowInv(s) /\ WorkInv(s)
  BY DEF CapacityInv
<1>1. /\ effect'[s].id = version[s] + 1 /\ effect'[s].kind = kind
      /\ effect'[s].generation = generation'[s] /\ effect'[s].runtime = identity[s]
      /\ effect'[s].dispatched = FALSE
      /\ version'[s] = version[s] + 1 /\ creates'[s] = creates[s]
      /\ \A t \in Sandboxes : t # s => EffectsSame(t)
  BY BeginWrites
<1>2. /\ pc'[p] = "begun" /\ Only(p) /\ job'[p].sandbox = s /\ job'[p].kind = kind
      /\ job'[p].effect = version[s] + 1 /\ job'[p].runtime = identity[s]
  BY TakeWrites, BegunJobHas
<1>3. ProviderSame(s) /\ operation' = operation /\ identity' = identity
  BY SameWrites
<1>4. OnlyRuntime(s)
  BY <1>a, <1>1, <1>3, OnlyIdentity, Nothing DEF ProviderSame
<1>5. BegunRow(s)
  BY <1>1, <1>3, <1>4 DEF BegunRow
<1>6. BegunWork(p, s)
  BY <1>1, <1>2, <1>3 DEF BegunWork, Lasting, ProviderSame
<1>7. Elsewhere(s)
  BY <1>1, <1>2, <1>3, SameWrites, WorkElsewhere DEF Elsewhere, RowsSame, SandboxSame
<1>8. PausedShape(s)'
  BY <1>a, <1>1, <1>3 DEF RowInv, PausedShape, ProviderSame
<1>9. CreateOnce(s)'
  BY <1>a, <1>1, <1>3, Nothing DEF RowInv, CreateOnce
<1>10. MayExecute(s)' => Held(s)'
  BY <1>a, <1>3, MayExecuteKept DEF RowInv
<1> QED
  BY <1>5, <1>6, <1>7, <1>8, <1>9, <1>10, BeginningKeeps

LEMMA BeginPauseKeeps ==
  ASSUME TypeOK, CapacityInv, NEW p \in Processes, NEW s \in Sandboxes, BeginPause(p, s)
  PROVE  CapacityInv'
<1>1. /\ generation' = generation /\ phase' = phase /\ suspended' = suspended
      /\ identity' = identity
  BY DEF BeginPause, ledger
<1>2. status'[s] = "pausing" /\ \A t \in Sandboxes : t # s => status'[t] = status[t]
  BY DEF BeginPause, SetStatus, TypeOK, SandboxType
<1>3. Held(s) /\ Held(s)' /\ \A t \in Sandboxes : LedgerSame(t)
  BY <1>1 DEF BeginPause, Held, LedgerSame
<1> QED
  BY <1>1, <1>2, <1>3, BeginKeeps DEF BeginPause, Settled

LEMMA BeginResumeKeeps ==
  ASSUME TypeOK, CapacityInv, NEW p \in Processes, NEW s \in Sandboxes, BeginResume(p, s)
  PROVE  CapacityInv'
<1>1. /\ pc[p] = "idle" /\ status[s] = "paused" /\ identity[s] # 0 /\ effect[s] = NoEffect
      /\ Begin(s, "resume", generation'[s], identity[s])
      /\ Take(p, "begun", BegunJob(s, "resume", identity[s]))
      /\ identity' = identity /\ UNCHANGED <<operation, provider>>
  BY DEF BeginResume, Settled
<1>2. status'[s] = "resuming" /\ \A t \in Sandboxes : t # s => status'[t] = status[t]
  BY DEF BeginResume, SetStatus, TypeOK, SandboxType
<1>3. /\ Held(s)' /\ suspended'[s] = suspended[s]
      /\ \A t \in Sandboxes : t # s => LedgerSame(t)
  <2>1. CASE Held(s)
    BY <2>1, MarkWrites DEF BeginResume, HeldPhases
  <2>2. CASE ~Held(s)
    BY <2>2, ReserveWrites DEF BeginResume
  <2> QED
    BY <2>1, <2>2
<1>4. runtime[s][identity[s]] \in Stopped
  BY <1>1 DEF CapacityInv, RowInv, PausedShape
<1> QED
  BY <1>1, <1>2, <1>3, <1>4, BeginKeeps

LEMMA RequestDeletionKeeps ==
  ASSUME TypeOK, CapacityInv, NEW p \in Processes, NEW s \in Sandboxes,
         RequestDeletion(p, s)
  PROVE  CapacityInv'
<1>1. /\ pc[p] = "idle" /\ identity[s] # 0 /\ effect[s] = NoEffect
      /\ Held(s) \/ status[s] = "paused"
      /\ Begin(s, "delete", generation[s], identity[s])
      /\ Take(p, "begun", BegunJob(s, "delete", identity[s]))
      /\ status' = status /\ identity' = identity /\ UNCHANGED <<operation, provider>>
  BY DEF RequestDeletion, Settled, sandbox
<1>2. /\ Held(s)' <=> Held(s)
      /\ generation'[s] = generation[s] /\ suspended'[s] = suspended[s]
      /\ \A t \in Sandboxes : t # s => LedgerSame(t)
  BY MarkWrites DEF RequestDeletion, HeldPhases
<1>3. status[s] = "paused" => runtime[s][identity[s]] \in Stopped
  BY <1>1 DEF CapacityInv, RowInv, PausedShape
<1>4. status'[s] # "absent"
  BY <1>1, Admitted DEF CapacityInv
<1> QED
  BY <1>1, <1>2, <1>3, <1>4, BeginKeeps

LEMMA LeaseObservedKeeps ==
  ASSUME TypeOK, CapacityInv, NEW p \in Processes, NEW s \in Sandboxes, LeaseObserved(p, s)
  PROVE  CapacityInv'
<1> DEFINE seen == job[p].seen
<1>1. /\ job[p].sandbox = s /\ effect[s] = NoEffect /\ Held(s) /\ identity[s] # 0
      /\ job[p].runtime = identity[s] /\ job[p].generation = generation[s]
      /\ seen = "paused" => runtime[s][identity[s]] \in Stopped
  BY LeasingKnows DEF LeaseObserved
<1>2. /\ At(p, "leasing", s) /\ Unfenced(p, s) /\ identity' = identity
      /\ UNCHANGED <<operation, provider>>
  BY DEF LeaseObserved
<1>3. /\ status'[s] = seen /\ status'[s] # "absent"
      /\ \A t \in Sandboxes : t # s => status'[t] = status[t]
  BY DEF LeaseObserved, SetStatus, TypeOK, SandboxType, LiveStates
<1>4. CASE /\ seen = "paused" /\ PauseStopsExecution /\ UNCHANGED effects
           /\ Release(s, job[p].generation, "provider_suspended") /\ Rest(p)
  <2>1. \A t \in Sandboxes : t # s => LedgerSame(t)
    BY <1>4, ReleaseWrites
  <2> QED
    BY <1>1, <1>2, <1>3, <1>4, <2>1, LeaseKeeps
<1>5. CASE UNCHANGED effects /\ Mark(s, generation[s], LeasePhase(seen)) /\ Rest(p)
  <2>1. LeasePhase(seen) \in HeldPhases
    BY DEF LeasePhase, HeldPhases
  <2>2. /\ Held(s)' /\ suspended'[s] = suspended[s]
        /\ \A t \in Sandboxes : t # s => LedgerSame(t)
    BY <1>1, <1>5, <2>1, MarkWrites
  <2> QED
    BY <1>1, <1>2, <1>3, <1>5, <2>2, LeaseKeeps
<1>6. CASE /\ seen \in {"running", "pending"}
           /\ Begin(s, "delete", generation[s], job[p].runtime)
           /\ Mark(s, generation[s], "releasing")
           /\ Take(p, "begun", BegunJob(s, "delete", job[p].runtime))
  <2>1. /\ Held(s)' /\ suspended'[s] = suspended[s] /\ generation'[s] = generation[s]
        /\ \A t \in Sandboxes : t # s => LedgerSame(t)
    BY <1>1, <1>6, MarkWrites DEF HeldPhases
  <2> QED
    BY <1>1, <1>2, <1>3, <1>6, <2>1, BeginKeeps
<1> QED
  BY <1>4, <1>5, <1>6 DEF LeaseObserved

\* The delete of a created runtime that replaces its provision effect.
LEMMA ReplaceKeeps ==
  ASSUME TypeOK, CapacityInv, NEW p \in Processes, NEW s \in Sandboxes,
         job[p].sandbox = s, Created(s), identity[s] \in {0, effect[s].id},
         Held(s), operation[s].secret,
         identity'[s] = effect[s].id, \A t \in Sandboxes : t # s => identity'[t] = identity[t],
         SetStatus(s, "error"), SetOperation(s, "failed"),
         Begin(s, "delete", generation[s], effect[s].id), Mark(s, generation[s], "releasing"),
         Take(p, "begun", BegunJob(s, "delete", effect[s].id)), UNCHANGED provider
  PROVE  CapacityInv'
<1>a. RowInv(s) /\ WorkInv(s)
  BY DEF CapacityInv
<1>1. /\ effect'[s].id = version[s] + 1 /\ effect'[s].kind = "delete"
      /\ effect'[s].generation = generation[s] /\ effect'[s].runtime = effect[s].id
      /\ effect'[s].dispatched = FALSE
      /\ version'[s] = version[s] + 1 /\ creates'[s] = creates[s]
      /\ \A t \in Sandboxes : t # s => EffectsSame(t)
  BY BeginWrites
<1>2. /\ pc'[p] = "begun" /\ Only(p) /\ job'[p].sandbox = s /\ job'[p].kind = "delete"
      /\ job'[p].effect = version[s] + 1 /\ job'[p].runtime = effect[s].id
  BY TakeWrites, BegunJobHas
<1>3. /\ Held(s)' /\ generation'[s] = generation[s] /\ suspended'[s] = suspended[s]
      /\ \A t \in Sandboxes : t # s => LedgerSame(t)
  BY MarkWrites DEF HeldPhases
<1>4. status'[s] = "error" /\ \A t \in Sandboxes : t # s => SandboxSame(t)
  BY DEF SetStatus, TypeOK, SandboxType, SandboxSame
<1>5. /\ operation'[s].secret = operation[s].secret
      /\ \A t \in Sandboxes : t # s => operation'[t] = operation[t]
  BY OperationWrites
<1>6. ProviderSame(s)
  BY SameWrites
<1>7. OnlyRuntime(s)
  <2>1. Quiet(s)
    BY <1>a, QuietSlot DEF RowInv
  <2>2. \A i \in EffectIds : runtime[s][i] \in LiveStates => i = effect[s].id
    BY <1>a DEF RowInv, LiveShape, EffectIds
  <2> QED
    BY <1>1, <1>6, <2>1, <2>2 DEF OnlyRuntime, ProviderSame
<1>8. effect[s].id # 0
  BY <1>a, Nothing DEF RowInv, EffectShape, Created
<1>9. BegunRow(s)
  BY <1>1, <1>3, <1>7, <1>8 DEF BegunRow
<1>10. BegunWork(p, s)
  BY <1>1, <1>2, <1>4, <1>5, <1>6, <1>8 DEF BegunWork, Lasting, ProviderSame
<1>11. Elsewhere(s)
  BY <1>1, <1>2, <1>3, <1>4, <1>5, SameWrites, WorkElsewhere DEF Elsewhere, RowsSame
<1>12. PausedShape(s)' /\ CreateOnce(s)'
  BY <1>a, <1>1, <1>3, <1>4, <1>5 DEF RowInv, PausedShape, CreateOnce
<1> QED
  BY <1>3, <1>9, <1>10, <1>11, <1>12, BeginningKeeps

LEMMA RollbackCredentialCreateKeeps ==
  ASSUME TypeOK, CapacityInv, NEW p \in Processes, NEW s \in Sandboxes,
         RollbackCredentialCreate(p, s)
  PROVE  CapacityInv'
<1>1. RowInv(s) /\ OwnerShape(p, s) /\ OwnsAt(p, s) /\ job[p].sandbox = s
  BY DEF CapacityInv, WorkInv, RollbackCredentialCreate, At, Owns, OwnsAt
<1>2. Created(s) /\ job[p].runtime = effect[s].id /\ identity[s] = effect[s].id
  BY <1>1 DEF RollbackCredentialCreate, At, OwnerShape, Carrying, Driving, Created
<1> QED
  BY <1>1, <1>2, ReplaceKeeps DEF RollbackCredentialCreate

LEMMA RecoverRuntimeKeeps ==
  ASSUME TypeOK, CapacityInv, NEW p \in Processes, NEW s \in Sandboxes,
         RecoverRuntime(p, s)
  PROVE  CapacityInv'
<1>1. /\ At(p, "recovering", s) /\ job[p].sandbox = s /\ pc[p] = "recovering" /\ Owns(p)
      /\ UNCHANGED <<maxConcurrency, provider, faults>>
  BY DEF RecoverRuntime, At
<1>2. Created(s) /\ job[p].runtime = effect[s].id /\ identity[s] \in {0, effect[s].id}
  BY <1>1, RecoveringOwns
<1>3. CASE /\ operation[s].secret
           /\ identity' = [identity EXCEPT ![s] = job[p].runtime]
           /\ SetStatus(s, "error") /\ SetOperation(s, "failed")
           /\ Held(s) /\ Begin(s, "delete", generation[s], job[p].runtime)
           /\ Mark(s, generation[s], "releasing")
           /\ Take(p, "begun", BegunJob(s, "delete", job[p].runtime))
  <2>1. identity'[s] = effect[s].id /\ \A t \in Sandboxes : t # s => identity'[t] = identity[t]
    BY <1>2, <1>3 DEF TypeOK, SandboxType
  <2> QED
    BY <1>1, <1>2, <1>3, <2>1, ReplaceKeeps
<1>4. CASE /\ identity' = [identity EXCEPT ![s] = job[p].runtime]
           /\ SetStatus(s, Adopted(job[p].seen)) /\ SetOperation(s, "succeeded") /\ Settle(s)
           /\ Mark(s, effect[s].generation,
                   IF job[p].seen = "running" THEN "active" ELSE "reserved")
           /\ Rest(p)
  BY <1>1, <1>4, AdoptKeeps
<1>5. CASE Rest(p) /\ UNCHANGED <<sandbox, operation, effects, ledger>>
  BY <1>1, <1>5, RestKeeps DEF database
<1> QED
  BY <1>3, <1>4, <1>5 DEF RecoverRuntime

\* A claimed operation that has not begun its effect dispatched nothing.
LEMMA StartingIsFresh ==
  ASSUME TypeOK, NEW p \in Processes, NEW s \in Sandboxes, RowInv(s), WorkInv(s),
         At(p, "starting", s), operation[s].state = "running", Held(s), effect[s] = NoEffect
  PROVE  /\ creates[s] = {} /\ identity[s] = 0
         /\ \A i \in EffectIds : runtime[s][i] = "none"
         /\ \A c \in calls : c.sandbox # s
<1>1. creates[s] = {}
  BY Nothing DEF RowInv, WorkInv, CreateOnce, SecretShape, At, Early
<1>2. identity[s] = 0 /\ \A i \in EffectIds : runtime[s][i] = "none"
  BY <1>1 DEF RowInv, RuntimeShape
<1>3. \A c \in calls : c.sandbox # s
  BY <1>2, Nothing DEF RowInv, CallShape
<1> QED
  BY <1>1, <1>2, <1>3

LEMMA BeginProvisionKeeps ==
  ASSUME TypeOK, CapacityInv, NEW p \in Processes, NEW s \in Sandboxes,
         BeginProvision(p, s)
  PROVE  CapacityInv'
<1>a. RowInv(s) /\ WorkInv(s) /\ JobShape(p, s)
  BY DEF CapacityInv, WorkInv
<1>b. /\ At(p, "starting", s) /\ job[p].sandbox = s /\ pc[p] = "starting"
      /\ job[p].kind = "provision" /\ job[p].runtime = 0 /\ status[s] # "absent"
  BY <1>a, Admitted DEF BeginProvision, At, TypeOK, ProcessType, Carries, JobShape, Early
<1>1. CASE Fail(p) /\ UNCHANGED effects
  BY <1>b, <1>1, FailKeeps DEF BeginProvision, database
<1>2. CASE /\ Completable(s, job[p].attempts, {"running"})
           /\ phase[s] = "reserved" /\ Settled(s)
           /\ Begin(s, "provision", generation[s], identity[s])
           /\ Take(p, "begun", [job[p] EXCEPT !.effect = version[s] + 1])
  <2>1. Held(s) /\ effect[s] = NoEffect /\ operation[s].state = "running"
    BY <1>2 DEF Held, HeldPhases, Settled, Completable
  <2>2. /\ creates[s] = {} /\ identity[s] = 0
        /\ \A i \in EffectIds : runtime[s][i] = "none"
        /\ \A c \in calls : c.sandbox # s
    BY <1>a, <1>b, <2>1, StartingIsFresh
  <2>3. /\ effect'[s].id = version[s] + 1 /\ effect'[s].kind = "provision"
        /\ effect'[s].generation = generation[s] /\ effect'[s].runtime = identity[s]
        /\ effect'[s].dispatched = FALSE
        /\ version'[s] = version[s] + 1 /\ creates'[s] = creates[s]
        /\ \A t \in Sandboxes : t # s => EffectsSame(t)
    BY <1>2, BeginWrites
  <2>4. /\ pc'[p] = "begun" /\ Only(p) /\ job'[p].sandbox = s
        /\ job'[p].kind = "provision" /\ job'[p].effect = version[s] + 1
        /\ job'[p].runtime = 0
    <3>1. job[p] \in Job
      BY DEF TypeOK, ProcessType
    <3>2. /\ [job[p] EXCEPT !.effect = version[s] + 1].sandbox = s
          /\ [job[p] EXCEPT !.effect = version[s] + 1].kind = "provision"
          /\ [job[p] EXCEPT !.effect = version[s] + 1].effect = version[s] + 1
          /\ [job[p] EXCEPT !.effect = version[s] + 1].runtime = 0
      BY <1>b, <3>1 DEF Job
    <3> QED
      BY <1>2, <3>2, TakeWrites, ZenonT(60)
  <2>5. LedgerSame(s) /\ SandboxSame(s) /\ ProviderSame(s) /\ operation'[s] = operation[s]
    BY SameWrites DEF BeginProvision
  <2>6. version[s] \in Nat
    BY Fields
  <2>7. EffectShape(s)' /\ RuntimeShape(s)'
    BY <2>1, <2>2, <2>3, <2>5, <2>6, HeldSame
    DEF EffectShape, RuntimeShape, SandboxSame, ProviderSame, LedgerSame
  <2>8. LiveShape(s)' /\ CallShape(s)' /\ CreateOnce(s)'
    BY <2>2, <2>3, <2>5
    DEF LiveShape, CallShape, CreateOnce, ProviderSame, NoNewCalls, LiveStates
  <2>9. PausedShape(s)'
    BY <1>a, <2>2, <2>3, <2>5
    DEF RowInv, PausedShape, SandboxSame, ProviderSame, LedgerSame
  <2>10. RowInv(s)'
    BY <2>1, <2>5, <2>7, <2>8, <2>9, HeldSame DEF RowInv
  <2>11. BegunWork(p, s)
    BY <1>b, <2>2, <2>3, <2>4, <2>5
    DEF BegunWork, Lasting, Creating, Early, SandboxSame, ProviderSame
  <2>12. Elsewhere(s)
    BY <1>b, <2>3, <2>4, SameWrites, WorkElsewhere DEF BeginProvision, Elsewhere, RowsSame
  <2> QED
    BY <1>a, <2>10, <2>11, <2>12, WorkBegun, ElsewhereKept
<1> QED
  BY <1>1, <1>2 DEF BeginProvision

-----------------------------------------------------------------------------
(* Transactions that mark the effect. *)

\* Acknowledgement and doubt: the effect is the same, and at most learns the
\* runtime that its create made.
Marked(s) ==
  /\ effect[s].id # 0 /\ effect'[s].id = effect[s].id /\ effect'[s].kind = effect[s].kind
  /\ effect'[s].generation = effect[s].generation
  /\ effect'[s].dispatched = effect[s].dispatched
  /\ \/ effect'[s].runtime = effect[s].runtime
     \/ effect'[s].runtime = effect[s].id /\ Created(s)
  /\ version'[s] = version[s] /\ creates'[s] = creates[s]
  /\ SandboxSame(s) /\ ProviderSame(s) /\ operation'[s] = operation[s]
  /\ Held(s)' <=> Held(s)
  /\ generation'[s] = generation[s] /\ suspended'[s] = suspended[s]

LEMMA MarkedKeeps ==
  ASSUME TypeOK, CapacityInv, NEW p \in Processes, NEW s \in Sandboxes, Marked(s), Only(p),
         job[p].sandbox = s, job'[p].sandbox \in {s, NoSandbox},
         \A t \in Sandboxes : t # s => RowsSame(t),
         \/ Idles(p, s)
         \/ /\ JobShape(p, s)' /\ OwnerShape(p, s)' /\ LeaseShape(p, s)'
            /\ DrivesOn(p, s) /\ CreatesOn(p, s)
  PROVE  CapacityInv'
<1>a. RowInv(s) /\ WorkInv(s)
  BY DEF CapacityInv
<1>1. EffectShape(s)'
  BY <1>a DEF RowInv, EffectShape, Marked, Created, SandboxSame, ProviderSame
<1>2. RuntimeShape(s)' /\ LiveShape(s)'
  BY <1>a DEF RowInv, RuntimeShape, LiveShape, Marked, SandboxSame, ProviderSame
<1>3. PausedShape(s)' /\ CreateOnce(s)'
  BY <1>a DEF RowInv, PausedShape, CreateOnce, Marked, SandboxSame, ProviderSame
<1>4. CallShape(s)'
  BY <1>a DEF RowInv, CallShape, Marked, SandboxSame, ProviderSame, NoNewCalls
<1>5. MayExecute(s)' => Held(s)'
  BY <1>a, MayExecuteKept DEF RowInv, Marked
<1>6. SameWork(p, s)
  BY <1>a, Admitted, Nothing
  DEF SameWork, Lasting, Settled, Marked, SandboxSame, ProviderSame
<1>7. WorkInv(s)'
  BY <1>a, <1>6, WorkMoves, WorkIdles
<1>8. Elsewhere(s)
  BY WorkElsewhere DEF Elsewhere
<1> QED
  BY <1>1, <1>2, <1>3, <1>4, <1>5, <1>7, <1>8, ElsewhereKept DEF RowInv

LEMMA AcknowledgeKeeps ==
  ASSUME TypeOK, CapacityInv, NEW p \in Processes, NEW s \in Sandboxes, Acknowledge(p, s)
  PROVE  CapacityInv'
<1>a. RowInv(s) /\ JobShape(p, s) /\ OwnerShape(p, s)
  BY DEF CapacityInv, WorkInv
<1>b. /\ pc[p] = "returned" /\ job[p].sandbox = s /\ OwnsAt(p, s) /\ effect[s].id = job[p].effect
  BY DEF Acknowledge, At, Owns, OwnsAt
<1>1. /\ job[p].kind = effect[s].kind /\ effect[s].id # 0 /\ effect[s].dispatched
      /\ effect[s].kind = "provision" => Created(s) /\ job[p].runtime = effect[s].id
  BY <1>a, <1>b DEF JobShape, OwnerShape, Carrying, Driving, Created
<1>2. /\ effect'[s].id = effect[s].id /\ effect'[s].kind = effect[s].kind
      /\ effect'[s].generation = effect[s].generation
      /\ effect'[s].dispatched = effect[s].dispatched
      /\ effect'[s].runtime =
           IF job[p].kind = "provision" THEN job[p].runtime ELSE effect[s].runtime
      /\ \A t \in Sandboxes : t # s => effect'[t] = effect[t]
  BY DEF Acknowledge, TypeOK, EffectsType, Effect
<1>3. /\ version' = version /\ creates' = creates /\ operation' = operation
      /\ \A t \in Sandboxes : SandboxSame(t) /\ ProviderSame(t) /\ LedgerSame(t)
  BY SameWrites DEF Acknowledge
<1>4. Marked(s)
  BY <1>1, <1>2, <1>3, HeldSame DEF Marked, LedgerSame
<1>5. pc'[p] = "acknowledged" /\ job'[p] = job[p] /\ Only(p)
  BY GotoWrites DEF Acknowledge
<1>6. JobShape(p, s)' /\ LeaseShape(p, s)'
  BY <1>a, <1>b, <1>3, <1>5 DEF JobShape, LeaseShape, Early, Carrying, Driving
<1>7. OwnerShape(p, s)'
  BY <1>a, <1>b, <1>1, <1>2, <1>3, <1>5
  DEF OwnerShape, OwnsAt, Carrying, Driving, SandboxSame, ProviderSame
<1>8. DrivesOn(p, s) /\ CreatesOn(p, s)
  BY <1>b, <1>5 DEF DrivesOn, CreatesOn, Creating, Driving, Early
<1>9. \A t \in Sandboxes : t # s => RowsSame(t)
  BY <1>2, <1>3 DEF RowsSame, EffectsSame
<1> QED
  BY <1>b, <1>4, <1>5, <1>6, <1>7, <1>8, <1>9, MarkedKeeps

LEMMA RecoverAcknowledgeKeeps ==
  ASSUME TypeOK, CapacityInv, NEW p \in Processes, NEW s \in Sandboxes,
         RecoverAcknowledge(p, s)
  PROVE  CapacityInv'
<1>a. JobShape(p, s) /\ OwnerShape(p, s)
  BY DEF CapacityInv, WorkInv
<1>b. pc[p] = "found" /\ job[p].sandbox = s /\ Owns(p)
  BY DEF RecoverAcknowledge, At
<1>1. Created(s) /\ job[p].runtime = effect[s].id /\ effect[s].id # 0
  BY <1>b, RecoveringOwns
<1>2. /\ effect'[s].id = effect[s].id /\ effect'[s].kind = effect[s].kind
      /\ effect'[s].generation = effect[s].generation
      /\ effect'[s].dispatched = effect[s].dispatched
      /\ effect'[s].runtime = job[p].runtime
      /\ \A t \in Sandboxes : t # s => effect'[t] = effect[t]
  BY DEF RecoverAcknowledge, TypeOK, EffectsType, Effect
<1>3. /\ version' = version /\ creates' = creates /\ operation' = operation
      /\ \A t \in Sandboxes : SandboxSame(t) /\ ProviderSame(t) /\ LedgerSame(t)
  BY SameWrites DEF RecoverAcknowledge
<1>4. Marked(s)
  BY <1>1, <1>2, <1>3, HeldSame DEF Marked, LedgerSame
<1>5. pc'[p] = "recovering" /\ job'[p] = job[p] /\ Only(p)
  BY GotoWrites DEF RecoverAcknowledge
<1>6. JobShape(p, s)' /\ LeaseShape(p, s)'
  BY <1>a, <1>b, <1>3, <1>5 DEF JobShape, LeaseShape, Early, Carrying
<1>7. OwnerShape(p, s)'
  BY <1>a, <1>b, <1>1, <1>2, <1>3, <1>5
  DEF OwnerShape, OwnsAt, Carrying, SandboxSame, ProviderSame
<1>8. DrivesOn(p, s) /\ CreatesOn(p, s)
  BY <1>b, <1>5 DEF DrivesOn, CreatesOn, Creating, Driving, Early
<1>9. \A t \in Sandboxes : t # s => RowsSame(t)
  BY <1>2, <1>3 DEF RowsSame, EffectsSame
<1> QED
  BY <1>b, <1>4, <1>5, <1>6, <1>7, <1>8, <1>9, MarkedKeeps

LEMMA MarkUncertainKeeps ==
  ASSUME TypeOK, CapacityInv, NEW p \in Processes, NEW s \in Sandboxes, MarkUncertain(p, s)
  PROVE  CapacityInv'
<1>a. WorkInv(s) /\ JobShape(p, s) /\ OwnerShape(p, s)
  BY DEF CapacityInv, WorkInv
<1>b. pc[p] = "doubtful" /\ job[p].sandbox = s
  BY DEF MarkUncertain, At
<1>1. Only(p) /\ Idles(p, s) /\ job'[p].sandbox \in {s, NoSandbox}
  BY <1>b, RestWrites, FailWrites, Nothing, SandboxesAssumption
  DEF MarkUncertain, Idles, Early, Carrying, Driving
<1>2. /\ version' = version /\ creates' = creates /\ operation' = operation
      /\ generation' = generation /\ suspended' = suspended
      /\ \A t \in Sandboxes : SandboxSame(t) /\ ProviderSame(t)
  BY SameWrites DEF MarkUncertain
<1>3. CASE ~Owns(p)
  <2>1. PureMove(p, s)
    BY <1>a, <1>b, <1>1, <1>3, Admitted
    DEF PureMove, MarkUncertain, database, ledger, effects
  <2> QED
    BY <1>1, <2>1, PureMoveKeeps
<1>4. CASE Owns(p)
  <2>1. /\ effect[s].id # 0
        /\ job[p].kind = "provision" /\ job[p].runtime # 0 =>
             Created(s) /\ job[p].runtime = effect[s].id
    <3>1. /\ effect[s].id # 0
          /\ job[p].kind = "provision" /\ job[p].runtime # 0 =>
               /\ effect[s].kind = "provision" /\ job[p].runtime = effect[s].id
               /\ runtime[s][effect[s].id] # "none"
      BY <1>a, <1>b, <1>4 DEF JobShape, OwnerShape, OwnsAt, Owns, Carrying, Driving
    <3>2. effect[s].id \in EffectIds
      BY <3>1, Fields DEF EffectIds
    <3>3. EffectShape(s) /\ RuntimeShape(s)
      BY DEF CapacityInv, RowInv
    <3> QED
      BY <3>1, <3>2, <3>3 DEF EffectShape, RuntimeShape, Created
  <2>2. /\ effect'[s].id = effect[s].id /\ effect'[s].kind = effect[s].kind
        /\ effect'[s].generation = effect[s].generation
        /\ effect'[s].dispatched = effect[s].dispatched
        /\ effect'[s].runtime = IF job[p].kind = "provision" /\ job[p].runtime # 0
                                THEN job[p].runtime ELSE effect[s].runtime
        /\ \A t \in Sandboxes : t # s => effect'[t] = effect[t]
    BY <1>4 DEF MarkUncertain, TypeOK, EffectsType, Effect
  <2>3. /\ Held(s)' <=> Held(s)
        /\ \A t \in Sandboxes : t # s => phase'[t] = phase[t]
    BY <1>4 DEF MarkUncertain, TypeOK, LedgerType, Held, HeldPhases
  <2>4. Marked(s)
    BY <1>2, <2>1, <2>2, <2>3 DEF Marked
  <2>5. \A t \in Sandboxes : t # s => RowsSame(t)
    BY <1>2, <2>2, <2>3 DEF RowsSame, EffectsSame, LedgerSame
  <2> QED
    BY <1>b, <1>1, <2>4, <2>5, MarkedKeeps
<1> QED
  BY <1>3, <1>4

\* The general case: any number of processes move, none becomes a driver.
LEMMA WorkFrom ==
  ASSUME NEW s, WorkInv(s), status'[s] # "absent",
         operation'[s].secret = operation[s].secret, creates'[s] = creates[s],
         \A q \in Processes : /\ JobShape(q, s)' /\ OwnerShape(q, s)' /\ LeaseShape(q, s)'
                              /\ DrivesOn(q, s) /\ CreatesOn(q, s)
  PROVE  WorkInv(s)'
<1>1. AbsentShape(s)'
  BY DEF AbsentShape
<1>2. SecretShape(s)' /\ OneDriver(s)'
  BY SecretKept, DriversKept DEF WorkInv
<1> QED
  BY <1>1, <1>2 DEF WorkInv

LEMMA PersistKeeps ==
  ASSUME TypeOK, CapacityInv, NEW p \in Processes, NEW s \in Sandboxes, Persist(p, s)
  PROVE  CapacityInv'
<1>a. RowInv(s) /\ WorkInv(s) /\ JobShape(p, s) /\ OwnerShape(p, s)
  BY DEF CapacityInv, WorkInv
<1>b. /\ pc[p] = "acknowledged" /\ job[p].sandbox = s /\ job[p].kind = "provision"
      /\ Owns(p) /\ OwnsAt(p, s)
  BY DEF Persist, At, Owns, OwnsAt
<1>c. /\ effect[s].kind = "provision" /\ effect[s].dispatched /\ effect[s].id # 0
      /\ job[p].runtime = effect[s].id /\ runtime[s][effect[s].id] # "none"
  BY <1>a, <1>b DEF JobShape, OwnerShape, Carrying, Driving, OwnsAt
<1>1. CASE Goto(p, "doubtful") /\ UNCHANGED sandbox
  <2>1. pc'[p] = "doubtful" /\ job'[p] = job[p] /\ Only(p)
    BY <1>1, GotoWrites
  <2>2. UNCHANGED database /\ UNCHANGED provider
    BY <1>1 DEF Persist, database
  <2>3. GoesOn(p, s)
    BY <1>b, <2>1, <2>2 DEF GoesOn, Driving, Early, Points
  <2>4. EffectsSame(s) /\ ProviderSame(s)
    BY <2>2, SameWrites
  <2>5. OwnerShape(p, s)'
    BY <1>a, <1>b, <1>c, <2>1, <2>4
    DEF OwnerShape, OwnsAt, Carrying, Driving, EffectsSame, ProviderSame
  <2> QED
    BY <2>3, <2>5, GoesOnKeeps
<1>2. CASE /\ status[s] = "pending" /\ identity[s] = 0
           /\ identity' = [identity EXCEPT ![s] = job[p].runtime]
           /\ SetStatus(s, job[p].seen) /\ Goto(p, "persisted")
  <2>1. /\ pc'[p] = "persisted" /\ job'[p] = job[p] /\ Only(p)
    BY <1>2, GotoWrites
  <2>2. job[p].seen \in {"pending", "running"}
    BY <1>b DEF TypeOK, ProcessType, Carries
  <2>3. /\ identity'[s] = effect[s].id /\ status'[s] \in {"pending", "running"}
        /\ \A t \in Sandboxes : t # s => SandboxSame(t)
    BY <1>c, <1>2, <2>2 DEF SetStatus, TypeOK, SandboxType, SandboxSame
  <2>4. /\ operation' = operation
        /\ \A t \in Sandboxes : LedgerSame(t) /\ EffectsSame(t) /\ ProviderSame(t)
    BY SameWrites DEF Persist
  <2>5. creates[s] = {effect[s].id} /\ \A c \in calls : c.sandbox # s
    BY <1>a, <1>c, <1>2 DEF RowInv, EffectShape, CallShape
  <2>6. EffectShape(s)' /\ RuntimeShape(s)'
    BY <1>a, <1>c, <2>3, <2>4, <2>5, HeldSame
    DEF RowInv, EffectShape, RuntimeShape, LedgerSame, EffectsSame, ProviderSame
  <2>7. LiveShape(s)' /\ PausedShape(s)' /\ CreateOnce(s)'
    <3>1. LiveShape(s)'
      BY <1>a, <1>2, <2>3, <2>4, <2>5 DEF RowInv, LiveShape, EffectIds, EffectsSame, ProviderSame
    <3>2. PausedShape(s)'
      BY <1>a, <1>c, <2>3, <2>4
      DEF RowInv, PausedShape, LedgerSame, EffectsSame, ProviderSame
    <3>3. CreateOnce(s)'
      BY <1>c, <2>4 DEF CreateOnce, EffectsSame
    <3> QED
      BY <3>1, <3>2, <3>3
  <2>8. CallShape(s)' /\ (MayExecute(s)' => Held(s)')
    BY <1>a, <2>4, <2>5, MayExecuteKept, HeldSame
    DEF RowInv, CallShape, ProviderSame, NoNewCalls
  <2>9. ASSUME NEW q \in Processes, q # p
        PROVE  /\ JobShape(q, s)' /\ OwnerShape(q, s)' /\ LeaseShape(q, s)'
               /\ DrivesOn(q, s) /\ CreatesOn(q, s)
    <3>1. JobShape(q, s) /\ OwnerShape(q, s) /\ LeaseShape(q, s) /\ Stays(q)
      BY <1>a, <2>1, <2>9 DEF WorkInv, Only
    <3>2. JobShape(q, s)' /\ DrivesOn(q, s) /\ CreatesOn(q, s)
      BY <2>4, <3>1, StaysOn DEF JobShape, Stays, EffectsSame
    <3>3. OwnerShape(q, s)'
      BY <1>c, <1>2, <2>3, <2>4, <3>1
      DEF OwnerShape, OwnsAt, Stays, EffectsSame, ProviderSame, NoNewCalls
    <3>4. LeaseShape(q, s)'
      BY <1>2, <3>1 DEF LeaseShape, Stays
    <3> QED
      BY <3>2, <3>3, <3>4
  <2>10. /\ JobShape(p, s)' /\ OwnerShape(p, s)' /\ LeaseShape(p, s)'
         /\ DrivesOn(p, s) /\ CreatesOn(p, s)
    <3>1. JobShape(p, s)' /\ LeaseShape(p, s)'
      BY <1>a, <1>b, <2>1, <2>4
      DEF JobShape, LeaseShape, Early, Carrying, Driving, EffectsSame
    <3>2. OwnerShape(p, s)'
      BY <1>a, <1>b, <1>c, <2>1, <2>3, <2>4
      DEF OwnerShape, OwnsAt, Carrying, Driving, EffectsSame, ProviderSame
    <3>3. DrivesOn(p, s) /\ CreatesOn(p, s)
      BY <1>b, <2>1 DEF DrivesOn, CreatesOn, Creating, Driving, Early
    <3> QED
      BY <3>1, <3>2, <3>3
  <2>11. WorkInv(s)'
    BY <1>a, <2>3, <2>4, <2>9, <2>10, WorkFrom DEF EffectsSame
  <2>12. Elsewhere(s)
    BY <1>b, <2>1, <2>3, <2>4, WorkElsewhere DEF Elsewhere, RowsSame
  <2> QED
    BY <2>6, <2>7, <2>8, <2>11, <2>12, ElsewhereKept DEF RowInv
<1> QED
  BY <1>1, <1>2 DEF Persist

LEMMA AdmitCreateKeeps ==
  ASSUME TypeOK, CapacityInv, NEW p \in Processes, NEW s \in Sandboxes, AdmitCreate(p, s)
  PROVE  CapacityInv'
<1>a. RowInv(s) /\ WorkInv(s)
  BY DEF CapacityInv
<1>1. /\ effect[s] = NoEffect /\ creates[s] = {} /\ identity[s] = 0
      /\ \A q \in Processes : job[q].sandbox # s
      /\ \A i \in EffectIds : runtime[s][i] = "none"
      /\ \A c \in calls : c.sandbox # s
  <2>1. /\ effect[s] = NoEffect /\ creates[s] = {} /\ identity[s] = 0
        /\ \A q \in Processes : job[q].sandbox # s
    BY <1>a DEF AdmitCreate, WorkInv, AbsentShape
  <2>2. \A i \in EffectIds : runtime[s][i] = "none"
    BY <1>a, <2>1 DEF RowInv, RuntimeShape
  <2>3. \A c \in calls : c.sandbox # s
    BY <1>a, <2>1, Nothing DEF RowInv, CallShape
  <2> QED
    BY <2>1, <2>2, <2>3
<1>2. status'[s] = "pending" /\ identity'[s] = 0 /\ \A t \in Sandboxes : t # s => SandboxSame(t)
  BY <1>1, StatusWrites DEF AdmitCreate
<1>3. /\ Held(s)' /\ generation'[s] = generation[s] + 1 /\ suspended'[s] = suspended[s]
      /\ \A t \in Sandboxes : t # s => LedgerSame(t)
  BY ReserveWrites DEF AdmitCreate
<1>4. /\ effect'[s].id = version[s] + 1 /\ effect'[s].kind = "prepare"
      /\ effect'[s].generation = generation[s] + 1 /\ effect'[s].runtime = 0
      /\ effect'[s].dispatched = FALSE
      /\ version'[s] = version[s] + 1 /\ creates'[s] = {}
      /\ \A t \in Sandboxes : t # s => EffectsSame(t)
  <2>1. Begin(s, "prepare", generation[s] + 1, 0)
    BY DEF AdmitCreate
  <2>2. /\ effect'[s].id = version[s] + 1 /\ effect'[s].kind = "prepare"
        /\ effect'[s].generation = generation[s] + 1 /\ effect'[s].runtime = 0
        /\ effect'[s].dispatched = FALSE
        /\ version'[s] = version[s] + 1 /\ creates'[s] = creates[s]
        /\ \A t \in Sandboxes : t # s => EffectsSame(t)
    BY <2>1, BeginWrites
  <2> QED
    BY <1>1, <2>2
<1>5. /\ pc'[p] = "preparing" /\ Only(p) /\ job'[p].sandbox = s /\ job'[p].kind = "prepare"
      /\ job'[p].effect = version[s] + 1 /\ job'[p].runtime = 0
  BY TakeWrites, BegunJobHas DEF AdmitCreate
<1>6. \A t \in Sandboxes : ProviderSame(t) /\ (t # s => operation'[t] = operation[t])
  BY SameWrites DEF AdmitCreate, TypeOK
<1>7. version[s] \in Nat
  BY Fields
<1>8. EffectShape(s)' /\ RuntimeShape(s)'
  BY <1>1, <1>2, <1>3, <1>4, <1>6, <1>7 DEF EffectShape, RuntimeShape, ProviderSame
<1>9. LiveShape(s)' /\ CreateOnce(s)' /\ CallShape(s)'
  BY <1>1, <1>4, <1>6
  DEF LiveShape, CreateOnce, CallShape, ProviderSame, NoNewCalls, LiveStates
<1>10. PausedShape(s)'
  BY <1>a, <1>2, <1>3, <1>4 DEF RowInv, PausedShape
<1>11. RowInv(s)'
  BY <1>3, <1>8, <1>9, <1>10 DEF RowInv
<1>12. \A q \in Processes : q # p => job'[q].sandbox # s
  BY <1>1, <1>5 DEF Only, Stays
<1>13. WorkInv(s)'
  <2>1. ASSUME NEW q \in Processes PROVE JobShape(q, s)' /\ OwnerShape(q, s)' /\ LeaseShape(q, s)'
    <3>1. CASE q # p
      BY <1>12, <3>1 DEF JobShape, OwnerShape, OwnsAt, LeaseShape
    <3>2. CASE q = p
      BY <1>4, <1>5, <1>7, <3>2 DEF JobShape, OwnerShape, LeaseShape
    <3> QED
      BY <3>1, <3>2
  <2>2. AbsentShape(s)' /\ SecretShape(s)' /\ OneDriver(s)'
    BY <1>2, <1>4, <1>12 DEF AbsentShape, SecretShape, Creating, OneDriver
  <2> QED
    BY <2>1, <2>2 DEF WorkInv
<1>14. Elsewhere(s)
  BY <1>2, <1>3, <1>4, <1>5, <1>6, WorkElsewhere DEF AdmitCreate, Elsewhere, RowsSame
<1> QED
  BY <1>11, <1>13, <1>14, ElsewhereKept

\* The dispatch mark commits; the request reaches the provider or does not.
LEMMA DispatchedKeeps ==
  ASSUME TypeOK, CapacityInv, NEW p \in Processes, NEW s \in Sandboxes,
         At(p, "begun", s), Owns(p), ~effect[s].dispatched, MarkDispatched(s),
         UNCHANGED <<sandbox, ledger, operation, runtime>>,
         \A c \in calls' : \/ c \in calls
                           \/ c = [sandbox |-> s, kind |-> job[p].kind,
                                   effect |-> job[p].effect, runtime |-> Target(job[p])],
         NEW point, Goto(p, point),
         \/ point = "calling"
         \/ point = "doubtful"
         \/ point = "aborting" /\ job[p].kind = "provision" /\ calls' = calls
  PROVE  CapacityInv'
<1> DEFINE e == effect[s]
           request == [sandbox |-> s, kind |-> job[p].kind,
                       effect |-> job[p].effect, runtime |-> Target(job[p])]
<1>a. RowInv(s) /\ WorkInv(s) /\ JobShape(p, s) /\ OwnerShape(p, s)
  BY DEF CapacityInv, WorkInv
<1>b. /\ pc[p] = "begun" /\ job[p].sandbox = s /\ OwnsAt(p, s) /\ e.id = job[p].effect
      /\ job[p].kind = e.kind /\ e.kind # "prepare" /\ e.id # 0 /\ e.id \in EffectIds
      /\ e.kind = "provision" => job[p].runtime = 0
      /\ e.kind # "provision" => job[p].runtime = identity[s]
  BY <1>a, Fields DEF At, Owns, OwnsAt, JobShape, OwnerShape, Carrying, Driving, EffectIds
<1>c. e.kind \in {"provision", "pause", "resume", "delete"}
  BY <1>b DEF TypeOK, ProcessType, Carries, CallKinds, EffectKinds
<1>d. request.sandbox = s /\ request.kind = e.kind /\ request.effect = e.id
      /\ request.runtime = IF e.kind = "provision" THEN e.id ELSE identity[s]
  BY <1>b DEF Target
<1>e. Quiet(s)
  BY <1>a, QuietSlot DEF RowInv
<1>1. /\ effect'[s].id = e.id /\ effect'[s].kind = e.kind
      /\ effect'[s].generation = e.generation /\ effect'[s].runtime = e.runtime
      /\ effect'[s].dispatched = TRUE
      /\ \A t \in Sandboxes : t # s => effect'[t] = effect[t]
  BY DEF MarkDispatched, TypeOK, EffectsType, Effect
<1>2. /\ version' = version
      /\ e.kind = "provision" => creates[s] = {} /\ creates'[s] = {e.id}
      /\ e.kind # "provision" => creates'[s] = creates[s]
      /\ \A t \in Sandboxes : t # s => creates'[t] = creates[t]
  <2>1. e.kind = "provision" => creates[s] = {}
    BY <1>a DEF RowInv, EffectShape
  <2> QED
    BY <2>1 DEF MarkDispatched, TypeOK, EffectsType
<1>3. /\ runtime' = runtime /\ operation' = operation
      /\ \A t \in Sandboxes : SandboxSame(t) /\ LedgerSame(t)
  BY SameWrites
<1>4. e.kind = "provision" => identity[s] = 0 /\ \A i \in EffectIds : runtime[s][i] = "none"
  BY <1>a, <1>2 DEF RowInv, RuntimeShape
<1>5. e.kind # "provision" => identity[s] # 0
  BY <1>a, <1>c DEF RowInv, EffectShape
<1>6. EffectShape(s)'
  BY <1>a, <1>b, <1>1, <1>2, <1>3, HeldSame
  DEF RowInv, EffectShape, SandboxSame, LedgerSame
<1>7. RuntimeShape(s)'
  <2>1. CASE e.kind = "provision"
    BY <1>a, <1>2, <1>3, <1>4, <2>1 DEF RowInv, RuntimeShape, EffectShape, SandboxSame
  <2>2. CASE e.kind # "provision"
    BY <1>a, <1>2, <1>3, <2>2 DEF RowInv, RuntimeShape, SandboxSame
  <2> QED
    BY <2>1, <2>2
<1>8. LiveShape(s)' /\ PausedShape(s)'
  BY <1>a, <1>1, <1>3 DEF RowInv, LiveShape, PausedShape, SandboxSame, LedgerSame
<1>9. CreateOnce(s)'
  BY <1>a, <1>1, <1>2, <1>3, HeldSame DEF RowInv, CreateOnce, SandboxSame
<1>10. CallShape(s)'
  <2>1. e.kind = "resume" => runtime[s][identity[s]] \in Stopped
    BY <1>a DEF RowInv, PausedShape
  <2>2. ASSUME NEW c \in calls', c.sandbox = s, c \in calls
        PROVE  c.kind # "provision" /\ c.kind # "resume" /\ identity[s] # 0
               /\ c.runtime = identity[s]
    BY <1>a, <1>e, <2>2 DEF RowInv, CallShape, Quiet
  <2> QED
    BY <1>b, <1>d, <1>1, <1>3, <1>4, <1>5, <2>1, <2>2 DEF CallShape, SandboxSame
<1>11. MayExecute(s)' => Held(s)'
  <2>1. CASE e.kind # "delete"
    BY <1>a, <1>c, <1>3, <2>1, HeldSame DEF RowInv, EffectShape
  <2>2. CASE e.kind = "delete"
    <3>1. MayExecute(s)' => MayExecute(s)
      BY <1>d, <1>3, <2>2 DEF MayExecute
    <3> QED
      BY <1>a, <1>3, <3>1, HeldSame DEF RowInv
  <2> QED
    BY <2>1, <2>2
<1>12. RowInv(s)'
  BY <1>6, <1>7, <1>8, <1>9, <1>10, <1>11 DEF RowInv
<1>13. pc'[p] = point /\ job'[p] = job[p] /\ Only(p)
  BY GotoWrites
<1>14. Elsewhere(s)
  <2>1. ASSUME NEW t \in Sandboxes, t # s PROVE RowsSame(t)
    BY <1>d, <1>1, <1>2, <1>3, <2>1 DEF RowsSame, EffectsSame, ProviderSame, NoNewCalls
  <2> QED
    BY <1>b, <1>13, <2>1, WorkElsewhere DEF Elsewhere
<1>15. ASSUME NEW q \in Processes, q # p
       PROVE  JobShape(q, s)' /\ OwnerShape(q, s)' /\ LeaseShape(q, s)'
  <2>1. JobShape(q, s) /\ OwnerShape(q, s) /\ LeaseShape(q, s) /\ OneDriver(s) /\ Stays(q)
    BY <1>a, <1>13, <1>15 DEF WorkInv, Only
  <2>2. JobShape(q, s)'
    BY <1>2, <2>1 DEF JobShape, Stays
  <2>3. ~(OwnsAt(q, s) /\ pc[q] \in Carrying)
    <3>1. SUFFICES ASSUME OwnsAt(q, s), pc[q] \in Carrying PROVE FALSE
      OBVIOUS
    <3>2. pc[q] \notin Driving
      BY <1>b, <1>15, <2>1, <3>1 DEF OneDriver, OwnsAt, Driving
    <3> QED
      BY <2>1, <3>1, <3>2 DEF OwnerShape, Carrying
  <2>4. OwnerShape(q, s)'
    BY <1>1, <2>1, <2>3 DEF OwnerShape, OwnsAt, Stays
  <2>5. LeaseShape(q, s)'
    BY <1>b, <1>2, <1>3, <2>1, Nothing DEF LeaseShape, Stays, Settled, SandboxSame
  <2> QED
    BY <2>2, <2>4, <2>5
<1>16. JobShape(p, s)' /\ LeaseShape(p, s)'
  BY <1>a, <1>b, <1>2, <1>13 DEF JobShape, LeaseShape, Early, Carrying, Driving
<1>17. OwnerShape(p, s)'
  <2>1. calls' = calls /\ e.kind = "provision" =>
          \A c \in calls' : c.sandbox = s => c.kind # "provision"
    BY <1>e DEF Quiet
  <2> QED
    BY <1>b, <1>1, <1>3, <1>4, <1>13, <2>1 DEF OwnerShape, OwnsAt, SandboxSame
<1>18. AbsentShape(s)'
  BY <1>a, <1>b, <1>3, Admitted DEF AbsentShape, SandboxSame
<1>19. OneDriver(s)'
  <2>1. DrivesOn(p, s)
    BY <1>b, <1>13 DEF DrivesOn, Driving
  <2> QED
    BY <1>a, <1>13, <2>1, DriversKept, StaysOn DEF WorkInv, Only
<1>20. SecretShape(s)'
  <2>1. CreatesOn(p, s)
    BY <1>b, <1>13 DEF CreatesOn, Creating, Driving, Early
  <2>2. \A q \in Processes : CreatesOn(q, s)
    BY <1>13, <2>1, StaysOn DEF Only
  <2>3. CASE e.kind = "provision"
    <3>1. Creating(p, s) /\ pc[p] \notin Early
      BY <1>b, <2>3 DEF Creating, Driving, Early
    <3>2. operation[s].secret =>
            \A q \in Processes : job[q].sandbox = s => pc[q] \notin Early
      BY <1>a, <3>1 DEF WorkInv, SecretShape, Creating
    <3> QED
      BY <1>a, <1>3, <2>2, <3>2 DEF WorkInv, SecretShape, CreatesOn
  <2>4. CASE e.kind # "provision"
    BY <1>a, <1>2, <1>3, <2>2, <2>4, SecretKept DEF WorkInv
  <2> QED
    BY <2>3, <2>4
<1>21. WorkInv(s)'
  BY <1>15, <1>16, <1>17, <1>18, <1>19, <1>20 DEF WorkInv
<1> QED
  BY <1>12, <1>14, <1>21, ElsewhereKept

LEMMA DispatchKeeps ==
  ASSUME TypeOK, CapacityInv, NEW p \in Processes, NEW s \in Sandboxes, Dispatch(p, s)
  PROVE  CapacityInv'
  BY DispatchedKeeps DEF Dispatch

LEMMA LoseDispatchReplyKeeps ==
  ASSUME TypeOK, CapacityInv, NEW p \in Processes, NEW s \in Sandboxes,
         LoseDispatchReply(p, s)
  PROVE  CapacityInv'
<1>1. calls' = calls /\ runtime' = runtime
  BY DEF LoseDispatchReply, provider
<1>2. CASE job[p].kind = "provision"
  BY <1>1, <1>2, DispatchedKeeps DEF LoseDispatchReply
<1>3. CASE job[p].kind # "provision"
  BY <1>1, <1>3, DispatchedKeeps DEF LoseDispatchReply
<1> QED
  BY <1>2, <1>3

-----------------------------------------------------------------------------
(* Steps of the provider. *)

\* What a runtime may become without a create or a resume.
Declines(s) ==
  \A i \in EffectIds :
    /\ runtime'[s][i] = "none" <=> runtime[s][i] = "none"
    /\ runtime[s][i] \in Stopped => runtime'[s][i] \in Stopped
    /\ runtime[s][i] = "gone" => runtime'[s][i] = "gone"
    /\ runtime'[s][i] \in LiveStates => runtime[s][i] \in LiveStates
    /\ Executing(runtime'[s][i]) => Executing(runtime[s][i])

DatabaseSame(s) ==
  LedgerSame(s) /\ EffectsSame(s) /\ SandboxSame(s) /\ operation'[s] = operation[s]

LEMMA DeclineRows ==
  ASSUME TypeOK, NEW s \in Sandboxes, RowInv(s), DatabaseSame(s), Declines(s), NoNewCalls(s)
  PROVE  RowInv(s)'
<1> USE DEF DatabaseSame, EffectsSame, SandboxSame
<1>a. /\ effect[s].id # 0 => effect[s].id \in EffectIds
      /\ identity[s] # 0 => identity[s] \in EffectIds
      /\ \A c \in calls : c.effect \in EffectIds
  BY Fields DEF EffectIds, TypeOK, ProviderType, Call
<1>1. EffectShape(s)' /\ RuntimeShape(s)'
  BY <1>a, HeldSame DEF RowInv, EffectShape, RuntimeShape, LedgerSame, Declines
<1>2. LiveShape(s)' /\ PausedShape(s)'
  <2>1. LiveShape(s)'
    BY DEF RowInv, LiveShape, Declines
  <2>2. effect[s].kind = "resume" => identity[s] # 0
    BY DEF RowInv, EffectShape
  <2>3. PausedShape(s)'
    BY <1>a, <2>2 DEF RowInv, PausedShape, Declines, LedgerSame
  <2> QED
    BY <2>1, <2>3
<1>3. CreateOnce(s)'
  BY HeldSame DEF RowInv, CreateOnce
<1>4. CallShape(s)'
  BY <1>a DEF RowInv, CallShape, NoNewCalls, Declines
<1>5. MayExecute(s)' => Held(s)'
  BY HeldSame DEF RowInv, MayExecute, Declines, NoNewCalls
<1> QED
  BY <1>1, <1>2, <1>3, <1>4, <1>5 DEF RowInv

LEMMA DeclineWork ==
  ASSUME TypeOK, NEW s \in Sandboxes, RowInv(s), WorkInv(s), DatabaseSame(s),
         Declines(s), NoNewCalls(s), NEW q \in Processes, Stays(q)
  PROVE  JobShape(q, s)' /\ OwnerShape(q, s)' /\ LeaseShape(q, s)'
<1> USE DEF DatabaseSame, EffectsSame, SandboxSame
<1>a. /\ effect[s].id # 0 => effect[s].id \in EffectIds
      /\ identity[s] # 0 => identity[s] \in EffectIds
  BY Fields DEF EffectIds
<1>b. effect[s].kind \in {"pause", "resume", "delete"} => identity[s] # 0
  BY DEF RowInv, EffectShape
<1>1. JobShape(q, s) /\ OwnerShape(q, s) /\ LeaseShape(q, s)
  BY DEF WorkInv
<1>2. JobShape(q, s)'
  BY <1>1 DEF JobShape, Stays
<1>3. OwnerShape(q, s)'
  BY <1>a, <1>b, <1>1 DEF JobShape, OwnerShape, OwnsAt, Stays, Declines, NoNewCalls
<1>4. LeaseShape(q, s)'
  BY <1>a, <1>1 DEF LeaseShape, Settled, Stays, Declines
<1> QED
  BY <1>2, <1>3, <1>4

\* What an answer does to the processes: those that wait for it move on.
Answered(c, point, state) ==
  /\ \A q \in Processes : Waits(q, c) \/ Stays(q)
  /\ \A q \in Processes : Waits(q, c) =>
       /\ pc[q] = "calling" /\ job[q].sandbox = c.sandbox /\ job[q].kind = c.kind
       /\ pc'[q] = point /\ job'[q].sandbox = c.sandbox /\ job'[q].kind = job[q].kind
       /\ job'[q].effect = job[q].effect
       /\ job'[q].runtime = IF point = "returned" THEN c.runtime ELSE job[q].runtime
  /\ calls' = calls \ {c}

LEMMA AnswerWrites ==
  ASSUME TypeOK, NEW c \in calls, NEW point \in {"returned", "doubtful"}, NEW state,
         Answer(c, point, state)
  PROVE  Answered(c, point, state)
<1>1. \A q \in Processes : job[q] \in Job
  BY DEF TypeOK, ProcessType
<1>2. ASSUME NEW q \in Processes
      PROVE  /\ Seeing(job[q], c.runtime, state).sandbox = job[q].sandbox
             /\ Seeing(job[q], c.runtime, state).kind = job[q].kind
             /\ Seeing(job[q], c.runtime, state).effect = job[q].effect
             /\ Seeing(job[q], c.runtime, state).runtime = c.runtime
  BY <1>1 DEF Seeing, Job
<1> QED
  BY <1>2 DEF Answer, Answered, Waits, At, Stays

LEMMA AnswerElsewhere ==
  ASSUME NEW c \in calls, NEW point, NEW state, Answered(c, point, state),
         NEW t, t # c.sandbox, DatabaseSame(t), runtime'[t] = runtime[t]
  PROVE  RowsSame(t) /\ WorkSame(t)
  BY DEF Answered, DatabaseSame, RowsSame, ProviderSame, NoNewCalls, WorkSame, Stays

\* A waiting process after an answer that keeps what the rows say.
LEMMA AnsweredShapes ==
  ASSUME TypeOK, NEW c \in calls, WorkInv(c.sandbox), NEW point \in {"returned", "doubtful"},
         NEW state, Answered(c, point, state), DatabaseSame(c.sandbox),
         CallShape(c.sandbox),
         NEW q \in Processes, Waits(q, c),
         point = "returned" /\ c.kind = "provision" => runtime'[c.sandbox][c.effect] # "none"
  PROVE  /\ JobShape(q, c.sandbox)' /\ OwnerShape(q, c.sandbox)' /\ LeaseShape(q, c.sandbox)'
         /\ DrivesOn(q, c.sandbox) /\ CreatesOn(q, c.sandbox)
<1> DEFINE s == c.sandbox
<1> USE DEF DatabaseSame, EffectsSame, SandboxSame
<1>1. /\ pc[q] = "calling" /\ job[q].sandbox = s /\ job[q].kind = c.kind
      /\ pc'[q] = point /\ job'[q].sandbox = s /\ job'[q].kind = job[q].kind
      /\ job'[q].effect = job[q].effect /\ job[q].effect = c.effect
      /\ job'[q].runtime = IF point = "returned" THEN c.runtime ELSE job[q].runtime
  BY DEF Answered, Waits
<1>2. JobShape(q, s) /\ OwnerShape(q, s)
  BY DEF WorkInv
<1>3. JobShape(q, s)' /\ LeaseShape(q, s)'
  BY <1>1, <1>2 DEF JobShape, LeaseShape, Early, Carrying, Driving
<1>4. DrivesOn(q, s) /\ CreatesOn(q, s)
  BY <1>1 DEF DrivesOn, CreatesOn, Creating, Driving, Early
<1>5. /\ c.kind = "provision" => c.runtime = c.effect
      /\ c.kind # "provision" => c.runtime = identity[s]
  BY DEF CallShape
<1>6. OwnerShape(q, s)'
  BY <1>1, <1>2, <1>5 DEF OwnerShape, OwnsAt, Carrying, Driving
<1> QED
  BY <1>3, <1>4, <1>6

\* Every answer keeps the invariant if the rows and the other processes do.
LEMMA AnsweringKeeps ==
  ASSUME TypeOK, CapacityInv, NEW c \in calls, NEW point \in {"returned", "doubtful"},
         NEW state, Answered(c, point, state), UNCHANGED database,
         \A t \in Sandboxes : t # c.sandbox => runtime'[t] = runtime[t],
         c.sandbox \in Sandboxes, RowInv(c.sandbox)',
         point = "returned" /\ c.kind = "provision" => runtime'[c.sandbox][c.effect] # "none",
         \A q \in Processes : Stays(q) =>
           JobShape(q, c.sandbox)' /\ OwnerShape(q, c.sandbox)' /\ LeaseShape(q, c.sandbox)'
  PROVE  CapacityInv'
<1> DEFINE s == c.sandbox
<1>a. RowInv(s) /\ WorkInv(s) /\ CallShape(s)
  BY DEF CapacityInv, RowInv
<1>1. \A t \in Sandboxes : DatabaseSame(t)
  BY SameWrites DEF DatabaseSame
<1>2. Elsewhere(s)
  BY <1>1, AnswerElsewhere DEF Elsewhere
<1>3. ASSUME NEW q \in Processes
      PROVE  /\ JobShape(q, s)' /\ OwnerShape(q, s)' /\ LeaseShape(q, s)'
             /\ DrivesOn(q, s) /\ CreatesOn(q, s)
  <2>1. CASE Waits(q, c)
    BY <1>a, <1>1, <2>1, AnsweredShapes
  <2>2. CASE Stays(q)
    BY <2>2, StaysOn
  <2> QED
    BY <2>1, <2>2 DEF Answered
<1>4. status[s] # "absent"
  <2>1. effect[s] # NoEffect \/ identity[s] # 0
    BY <1>a, Nothing DEF CallShape
  <2> QED
    BY <1>a, <2>1, Admitted DEF Settled
<1>5. WorkInv(s)'
  BY <1>a, <1>1, <1>3, <1>4, WorkFrom DEF DatabaseSame, EffectsSame, SandboxSame
<1> QED
  BY <1>2, <1>5, ElsewhereKept

\* The provider refuses, or does what does not start execution.
LEMMA DecliningKeeps ==
  ASSUME TypeOK, CapacityInv, NEW c \in calls, NEW point \in {"returned", "doubtful"},
         NEW state, Answered(c, point, state), UNCHANGED database,
         \A t \in Sandboxes : t # c.sandbox => runtime'[t] = runtime[t],
         Declines(c.sandbox), point = "returned" => c.kind # "provision"
  PROVE  CapacityInv'
<1> DEFINE s == c.sandbox
<1>1. s \in Sandboxes
  BY DEF TypeOK, ProviderType, Call
<1>2. RowInv(s) /\ WorkInv(s)
  BY <1>1 DEF CapacityInv
<1>3. DatabaseSame(s) /\ NoNewCalls(s)
  BY SameWrites DEF DatabaseSame, Answered, NoNewCalls
<1> QED
  BY <1>1, <1>2, <1>3, DeclineRows, DeclineWork, AnsweringKeeps

LEMMA RefuseKeeps ==
  ASSUME TypeOK, CapacityInv, NEW c \in calls, Refuse(c)
  PROVE  CapacityInv'
<1>1. Answered(c, "doubtful", "unknown")
  BY AnswerWrites DEF Refuse
<1>2. runtime' = runtime /\ Declines(c.sandbox)
  BY DEF Refuse, Declines
<1> QED
  BY <1>1, <1>2, DecliningKeeps DEF Refuse

\* A runtime that ends, or completes what was accepted, declines.
LEMMA RuntimeKeeps ==
  ASSUME TypeOK, CapacityInv, NEW s \in Sandboxes, UNCHANGED <<database, calls, processes>>,
         Declines(s), \A t \in Sandboxes : t # s => runtime'[t] = runtime[t]
  PROVE  CapacityInv'
<1>1. \A t \in Sandboxes : DatabaseSame(t) /\ NoNewCalls(t) /\ WorkSame(t)
  BY SameWrites DEF DatabaseSame, NoNewCalls
<1>2. RowInv(s) /\ WorkInv(s)
  BY DEF CapacityInv
<1>3. \A q \in Processes : Stays(q)
  BY DEF processes, Stays
<1>4. RowInv(s)'
  BY <1>1, <1>2, DeclineRows
<1>5. WorkInv(s)'
  <2>1. \A q \in Processes : JobShape(q, s)' /\ OwnerShape(q, s)' /\ LeaseShape(q, s)'
    BY <1>1, <1>2, <1>3, DeclineWork
  <2>2. AbsentShape(s)'
    BY <1>1, <1>2, <1>3
    DEF WorkInv, AbsentShape, DatabaseSame, LedgerSame, EffectsSame, SandboxSame, Stays
  <2>3. SecretShape(s)' /\ OneDriver(s)'
    BY <1>1, <1>2, <1>3, StaysOn, SecretKept, DriversKept
    DEF WorkInv, DatabaseSame, EffectsSame
  <2> QED
    BY <2>1, <2>2, <2>3 DEF WorkInv
<1>6. Elsewhere(s)
  BY <1>1 DEF Elsewhere, DatabaseSame, RowsSame, ProviderSame
<1> QED
  BY <1>4, <1>5, <1>6, ElsewhereKept

LEMMA RuntimeSettlesKeeps ==
  ASSUME TypeOK, CapacityInv, NEW s \in Sandboxes, NEW i \in EffectIds, RuntimeSettles(s, i)
  PROVE  CapacityInv'
<1>1. /\ \A j \in EffectIds : j # i => runtime'[s][j] = runtime[s][j]
      /\ runtime[s][i] \in {"pending", "pausing", "resuming"}
      /\ runtime'[s][i] = IF runtime[s][i] = "pausing" THEN "paused" ELSE "running"
      /\ \A t \in Sandboxes : t # s => runtime'[t] = runtime[t]
  BY DEF RuntimeSettles, TypeOK, ProviderType
<1>2. Declines(s)
  BY <1>1 DEF Declines, Stopped, LiveStates, Executing
<1> QED
  BY <1>1, <1>2, RuntimeKeeps DEF RuntimeSettles

LEMMA RuntimeEndsKeeps ==
  ASSUME TypeOK, CapacityInv, NEW s \in Sandboxes, NEW i \in EffectIds, RuntimeEnds(s, i)
  PROVE  CapacityInv'
<1>1. /\ \A j \in EffectIds : j # i => runtime'[s][j] = runtime[s][j]
      /\ runtime[s][i] \in LiveStates /\ runtime'[s][i] = "gone"
      /\ \A t \in Sandboxes : t # s => runtime'[t] = runtime[t]
  BY DEF RuntimeEnds, TypeOK, ProviderType
<1>2. Declines(s)
  BY <1>1 DEF Declines, Stopped, LiveStates, Executing
<1> QED
  BY <1>1, <1>2, RuntimeKeeps DEF RuntimeEnds

\* What a performed request writes.
LEMMA PerformWrites ==
  ASSUME TypeOK, NEW c \in calls, NEW state, state \in RuntimeStates,
         runtime' = [runtime EXCEPT ![c.sandbox][c.runtime] = state]
  PROVE  /\ c.sandbox \in Sandboxes /\ c.runtime \in EffectIds /\ c.effect \in EffectIds
         /\ runtime'[c.sandbox][c.runtime] = state
         /\ \A j \in EffectIds : j # c.runtime =>
              runtime'[c.sandbox][j] = runtime[c.sandbox][j]
         /\ \A t \in Sandboxes : t # c.sandbox => runtime'[t] = runtime[t]
<1>1. c.sandbox \in Sandboxes /\ c.runtime \in EffectIds /\ c.effect \in EffectIds
  BY DEF TypeOK, ProviderType, Call
<1> QED
  BY <1>1 DEF TypeOK, ProviderType

\* Two requests that agree are one.
LEMMA SameCall ==
  ASSUME TypeOK, NEW c \in calls, NEW d \in calls, d.sandbox = c.sandbox, d.kind = c.kind,
         d.effect = c.effect, d.runtime = c.runtime
  PROVE  d = c
<1>1. c \in Call /\ d \in Call
  BY DEF TypeOK, ProviderType
<1> QED
  BY <1>1 DEF Call

LEMMA PerformProvisionKeeps ==
  ASSUME TypeOK, CapacityInv, NEW c \in calls, NEW state \in {"pending", "running"},
         c.kind = "provision", UNCHANGED database, Answered(c, "returned", state),
         runtime' = [runtime EXCEPT ![c.sandbox][c.runtime] = state]
  PROVE  CapacityInv'
<1> DEFINE s == c.sandbox
           e == effect[s]
<1>1. /\ s \in Sandboxes /\ c.runtime \in EffectIds
      /\ runtime'[s][c.runtime] = state
      /\ \A j \in EffectIds : j # c.runtime => runtime'[s][j] = runtime[s][j]
      /\ \A t \in Sandboxes : t # s => runtime'[t] = runtime[t]
  BY PerformWrites DEF RuntimeStates, LiveStates
<1>2. RowInv(s) /\ WorkInv(s)
  BY <1>1 DEF CapacityInv
<1>3. /\ e.kind = "provision" /\ e.dispatched /\ e.id = c.effect /\ c.runtime = e.id
      /\ runtime[s][e.id] = "none"
  BY <1>2 DEF RowInv, CallShape
<1>4. creates[s] = {e.id} /\ Held(s) /\ identity[s] = 0
  BY <1>2, <1>3 DEF RowInv, EffectShape, RuntimeShape
<1>5. \A d \in calls' : d.sandbox # s
  <2>1. ASSUME NEW d \in calls', d.sandbox = s PROVE FALSE
    <3>1. d \in calls /\ d # c
      BY <2>1 DEF Answered
    <3>2. d.kind = "provision" /\ d.effect = e.id /\ d.runtime = e.id
      BY <1>2, <1>3, <1>4, <2>1, <3>1 DEF RowInv, CallShape
    <3> QED
      BY <1>3, <2>1, <3>1, <3>2, SameCall
  <2> QED
    BY <2>1
<1>6. LedgerSame(s) /\ EffectsSame(s) /\ SandboxSame(s) /\ operation'[s] = operation[s]
  BY SameWrites
<1>7. RowInv(s)'
  <2>1. EffectShape(s)' /\ RuntimeShape(s)'
    BY <1>1, <1>2, <1>3, <1>4, <1>6, HeldSame
    DEF RowInv, EffectShape, RuntimeShape, LedgerSame, EffectsSame, SandboxSame
  <2>2. LiveShape(s)' /\ PausedShape(s)'
    BY <1>1, <1>2, <1>3, <1>4, <1>6
    DEF RowInv, LiveShape, PausedShape, LedgerSame, EffectsSame, SandboxSame
  <2>3. CreateOnce(s)' /\ CallShape(s)'
    BY <1>3, <1>5, <1>6 DEF CreateOnce, CallShape, EffectsSame
  <2>4. Held(s)'
    BY <1>4, <1>6, HeldSame
  <2> QED
    BY <2>1, <2>2, <2>3, <2>4 DEF RowInv
<1>8. ASSUME NEW q \in Processes, Stays(q)
      PROVE  JobShape(q, s)' /\ OwnerShape(q, s)' /\ LeaseShape(q, s)'
  <2>1. JobShape(q, s) /\ OwnerShape(q, s) /\ LeaseShape(q, s)
    BY <1>2 DEF WorkInv
  <2>2. JobShape(q, s)'
    BY <1>6, <1>8, <2>1 DEF JobShape, Stays, EffectsSame
  <2>3. OwnerShape(q, s)'
    BY <1>1, <1>3, <1>6, <1>8, <2>1
    DEF OwnerShape, OwnsAt, Stays, EffectsSame, SandboxSame
  <2>4. LeaseShape(q, s)'
    BY <1>4, <1>6, <1>8, <2>1 DEF LeaseShape, Stays, SandboxSame
  <2> QED
    BY <2>2, <2>3, <2>4
<1> QED
  BY <1>1, <1>3, <1>7, <1>8, AnsweringKeeps

LEMMA PerformResumeKeeps ==
  ASSUME TypeOK, CapacityInv, NEW c \in calls, NEW state \in {"resuming", "running"},
         c.kind = "resume", runtime[c.sandbox][c.runtime] = "paused",
         UNCHANGED database, Answered(c, "returned", state),
         runtime' = [runtime EXCEPT ![c.sandbox][c.runtime] = state]
  PROVE  CapacityInv'
<1> DEFINE s == c.sandbox
           e == effect[s]
<1>1. /\ s \in Sandboxes /\ c.runtime \in EffectIds
      /\ runtime'[s][c.runtime] = state
      /\ \A j \in EffectIds : j # c.runtime => runtime'[s][j] = runtime[s][j]
      /\ \A t \in Sandboxes : t # s => runtime'[t] = runtime[t]
  BY PerformWrites DEF RuntimeStates, LiveStates
<1>2. RowInv(s) /\ WorkInv(s)
  BY <1>1 DEF CapacityInv
<1>3. /\ e.kind = "resume" /\ e.dispatched /\ e.id = c.effect
      /\ identity[s] # 0 /\ c.runtime = identity[s] /\ Held(s)
  BY <1>2 DEF RowInv, CallShape, EffectShape
<1>4. \A d \in calls' : d \in calls /\ (d.sandbox = s => d.kind \notin {"provision", "resume"})
  <2>1. ASSUME NEW d \in calls', d.sandbox = s PROVE d.kind \notin {"provision", "resume"}
    <3>1. d \in calls /\ d # c
      BY <2>1 DEF Answered
    <3>2. d.kind # "provision"
      BY <1>2, <1>3, <2>1, <3>1 DEF RowInv, CallShape
    <3>3. d.kind = "resume" => d.effect = e.id /\ d.runtime = identity[s]
      BY <1>2, <2>1, <3>1 DEF RowInv, CallShape
    <3> QED
      BY <1>3, <2>1, <3>1, <3>2, <3>3, SameCall
  <2> QED
    BY <2>1 DEF Answered
<1>5. LedgerSame(s) /\ EffectsSame(s) /\ SandboxSame(s) /\ operation'[s] = operation[s]
  BY SameWrites
<1>6. RowInv(s)'
  <2>1. EffectShape(s)' /\ RuntimeShape(s)'
    BY <1>1, <1>2, <1>3, <1>5, HeldSame
    DEF RowInv, EffectShape, RuntimeShape, LedgerSame, EffectsSame, SandboxSame
  <2>2. LiveShape(s)' /\ PausedShape(s)'
    BY <1>1, <1>2, <1>3, <1>5
    DEF RowInv, LiveShape, PausedShape, LedgerSame, EffectsSame, SandboxSame
  <2>3. CreateOnce(s)'
    BY <1>2, <1>5, HeldSame DEF RowInv, CreateOnce, EffectsSame, SandboxSame
  <2>4. CallShape(s)'
    BY <1>2, <1>4, <1>5 DEF RowInv, CallShape, SandboxSame
  <2>5. Held(s)'
    BY <1>3, <1>5, HeldSame
  <2> QED
    BY <2>1, <2>2, <2>3, <2>4, <2>5 DEF RowInv
<1>7. ASSUME NEW q \in Processes, Stays(q)
      PROVE  JobShape(q, s)' /\ OwnerShape(q, s)' /\ LeaseShape(q, s)'
  <2>1. JobShape(q, s) /\ OwnerShape(q, s) /\ LeaseShape(q, s)
    BY <1>2 DEF WorkInv
  <2>2. JobShape(q, s)'
    BY <1>5, <1>7, <2>1 DEF JobShape, Stays, EffectsSame
  <2>3. OwnerShape(q, s)'
    BY <1>3, <1>4, <1>5, <1>7, <2>1
    DEF OwnerShape, OwnsAt, Stays, EffectsSame, SandboxSame
  <2>4. LeaseShape(q, s)'
    BY <1>3, <1>5, <1>7, <2>1, Nothing
    DEF LeaseShape, Settled, Stays, SandboxSame, EffectsSame
  <2> QED
    BY <2>2, <2>3, <2>4
<1> QED
  BY <1>1, <1>3, <1>6, <1>7, AnsweringKeeps

LEMMA PerformKeeps ==
  ASSUME TypeOK, CapacityInv, NEW c \in calls, Perform(c)
  PROVE  CapacityInv'
<1> DEFINE s == c.sandbox
<1>1. PICK state \in Result(c.kind, runtime[s][c.runtime]) :
        /\ runtime' = [runtime EXCEPT ![s][c.runtime] = state]
        /\ Answer(c, "returned", state)
  BY DEF Perform
<1>2. Answered(c, "returned", state) /\ UNCHANGED database
  BY <1>1, AnswerWrites DEF Perform
<1>3. s \in Sandboxes /\ c.runtime \in EffectIds /\ runtime[s][c.runtime] \in RuntimeStates
  BY DEF TypeOK, ProviderType, Call
<1>4. CASE c.kind = "provision"
  BY <1>1, <1>2, <1>4, PerformProvisionKeeps DEF Result
<1>5. CASE c.kind = "resume"
  <2>1. runtime[s][c.runtime] = "paused" /\ state \in {"resuming", "running"}
    BY <1>1, <1>5 DEF Result
  <2> QED
    BY <1>1, <1>2, <1>5, <2>1, PerformResumeKeeps
<1>6. CASE c.kind \notin {"provision", "resume"}
  <2>1. \/ c.kind = "pause" /\ runtime[s][c.runtime] = "running"
           /\ state \in {"pausing", "paused"}
        \/ c.kind = "delete" /\ state \in {"gone", runtime[s][c.runtime]}
    BY <1>1, <1>6 DEF Result
  <2>2. state \in RuntimeStates
    BY <1>3, <2>1 DEF RuntimeStates, LiveStates
  <2>3. RowInv(s)
    BY <1>3 DEF CapacityInv
  <2>4. runtime[s][c.runtime] # "none"
    BY <1>6, <2>3 DEF RowInv, CallShape, RuntimeShape
  <2>5. /\ runtime'[s][c.runtime] = state
        /\ \A j \in EffectIds : j # c.runtime => runtime'[s][j] = runtime[s][j]
        /\ \A t \in Sandboxes : t # s => runtime'[t] = runtime[t]
    BY <1>1, <2>2, PerformWrites
  <2>6. Declines(s)
    <3>1. CASE state = runtime[s][c.runtime]
      BY <2>5, <3>1 DEF Declines
    <3>2. CASE state = "gone"
      BY <2>4, <2>5, <3>2 DEF Declines, Stopped, LiveStates, Executing
    <3>3. CASE runtime[s][c.runtime] = "running" /\ state \in {"pausing", "paused"}
      BY <2>5, <3>3 DEF Declines, Stopped, LiveStates, Executing
    <3> QED
      BY <2>1, <3>1, <3>2, <3>3
  <2> QED
    BY <1>2, <1>6, <2>5, <2>6, DecliningKeeps
<1> QED
  BY <1>4, <1>5, <1>6

-----------------------------------------------------------------------------
(* The invariant, and the two properties it was found for. *)

LEMMA UnchangedKeeps ==
  ASSUME CapacityInv, UNCHANGED <<ledger, effects, sandbox, operation, provider, processes>>
  PROVE  CapacityInv'
<1>1. ASSUME NEW s \in Sandboxes PROVE RowsSame(s) /\ WorkSame(s)
  BY SameWrites DEF RowsSame
<1> QED
  BY <1>1, RowInvKept, WorkInvKept DEF CapacityInv

LEMMA CapacityInitially == Init => CapacityInv
<1>1. SUFFICES ASSUME Init, NEW s \in Sandboxes PROVE RowInv(s) /\ WorkInv(s)
  BY DEF CapacityInv
<1>2. /\ status[s] = "absent" /\ identity[s] = 0 /\ phase[s] = "none"
      /\ suspended[s] = FALSE /\ effect[s] = NoEffect /\ version[s] = 0 /\ creates[s] = {}
      /\ operation[s].state = "none" /\ operation[s].secret = FALSE
      /\ calls = {} /\ \A i \in EffectIds : runtime[s][i] = "none"
  <2>1. /\ status[s] = "absent" /\ identity[s] = 0 /\ phase[s] = "none"
        /\ effect[s] = NoEffect /\ version[s] = 0 /\ creates[s] = {}
    BY <1>1 DEF Init
  <2>2. suspended[s] = FALSE /\ calls = {}
    BY <1>1 DEF Init
  <2>3. operation[s].state = "none" /\ operation[s].secret = FALSE
    BY <1>1 DEF Init
  <2>4. \A i \in EffectIds : runtime[s][i] = "none"
    BY <1>1 DEF Init
  <2> QED
    BY <2>1, <2>2, <2>3, <2>4
<1>3. \A p \in Processes : pc[p] = "idle" /\ job[p].sandbox # s
  <2>1. ASSUME NEW p \in Processes PROVE pc[p] = "idle" /\ job[p] = NoJob
    BY <1>1 DEF Init
  <2> QED
    BY <2>1, Nothing, SandboxesAssumption
<1>4. RowInv(s)
  <2>1. EffectShape(s) /\ RuntimeShape(s) /\ LiveShape(s)
    BY <1>2, Nothing DEF EffectShape, RuntimeShape, LiveShape, LiveStates
  <2>2. PausedShape(s) /\ CreateOnce(s) /\ CallShape(s)
    BY <1>2, Nothing DEF PausedShape, CreateOnce, CallShape
  <2>3. ~MayExecute(s)
    BY <1>2 DEF MayExecute, Executing, LiveStates
  <2> QED
    BY <2>1, <2>2, <2>3 DEF RowInv
<1>5. WorkInv(s)
  <2>1. AbsentShape(s) /\ SecretShape(s) /\ OneDriver(s)
    BY <1>2, <1>3 DEF AbsentShape, SecretShape, OneDriver
  <2>2. \A p \in Processes : JobShape(p, s) /\ OwnerShape(p, s) /\ LeaseShape(p, s)
    BY <1>3 DEF JobShape, OwnerShape, OwnsAt, LeaseShape
  <2> QED
    BY <2>1, <2>2 DEF WorkInv
<1> QED
  BY <1>4, <1>5

LEMMA CapacityStep ==
  ASSUME StaleReconcileFails = FALSE, TypeOK, CapacityInv, [Next]_vars
  PROVE  CapacityInv'
<1>1. ASSUME NEW p \in Processes, NEW s \in Sandboxes, Request(p, s) PROVE CapacityInv'
  BY <1>1, AdmitCreateKeeps, BeginPauseKeeps, BeginResumeKeeps, RequestDeletionKeeps,
     CancelBeforeDispatchKeeps
  DEF Request
<1>2. ASSUME NEW p \in Processes, NEW s \in Sandboxes, Create(p, s) PROVE CapacityInv'
  BY <1>2, FinishPreparationKeeps, AbandonPreparationKeeps, ClaimByIdKeeps,
     CheckReplayKeeps, FailOperationKeeps, BeginProvisionKeeps, RefuseInputKeeps,
     AbortProvisionKeeps, PersistKeeps, CompleteProvisionKeeps,
     RollbackCredentialCreateKeeps
  DEF Create
<1>3. ASSUME NEW p \in Processes, NEW s \in Sandboxes, Carry(p, s) PROVE CapacityInv'
  BY <1>3, DispatchKeeps, LoseDispatchReplyKeeps, TimeOutKeeps, AcknowledgeKeeps,
     AwaitStateKeeps, MarkUncertainKeeps, FencedKeeps, FinishLifecycleKeeps,
     FinishDeletionKeeps
  DEF Carry
<1>4. ASSUME NEW p \in Processes, NEW s \in Sandboxes, Work(p, s) PROVE CapacityInv'
  BY <1>4, ClaimNextKeeps, ClaimStaleKeeps, ReconcileStaleKeeps
  DEF Work, ReconcileStaleError
<1>5. ASSUME NEW p \in Processes, NEW s \in Sandboxes, Reconcile(p, s) PROVE CapacityInv'
  BY <1>5, CancelUndispatchedKeeps, CancelBeforeDispatchKeeps, ObserveEffectKeeps,
     FindRuntimeKeeps, GetRuntimeKeeps, RecoverAcknowledgeKeeps, RecoverAbsentKeeps,
     RecoverRuntimeKeeps, ObserveLeaseKeeps, LeaseFencedKeeps, LeaseAbsentKeeps,
     LeaseUnknownKeeps, LeaseObservedKeeps
  DEF Reconcile, ReconcileAbandoned
<1>6. ASSUME Provider PROVE CapacityInv'
  BY <1>6, PerformKeeps, RefuseKeeps, RuntimeSettlesKeeps, RuntimeEndsKeeps DEF Provider
<1>7. ASSUME NEW n \in Limits, SetLimit(n) PROVE CapacityInv'
  BY <1>7, UnchangedKeeps DEF SetLimit
<1>8. ASSUME NEW p \in Processes, Crash(p) PROVE CapacityInv'
  BY <1>8, CrashKeeps
<1>9. CASE UNCHANGED vars
  BY <1>9, UnchangedKeeps DEF vars, database
<1> QED
  BY <1>1, <1>2, <1>3, <1>4, <1>5, <1>6, <1>7, <1>8, <1>9 DEF Next

\* The rows, the runtimes and what every process between two transactions knows
\* stay as CapacityInv says, for any number of sandboxes, processes, effects and
\* faults, as long as the stale-provision transaction itself does not fail.
THEOREM CapacityInvariant ==
  ASSUME StaleReconcileFails = FALSE PROVE Spec => []CapacityInv
<1>1. Init => CapacityInv
  BY CapacityInitially
<1>2. TypeOK /\ CapacityInv /\ [Next]_vars => CapacityInv'
  BY CapacityStep
<1> QED
  BY <1>1, <1>2, TypeCorrect, PTL DEF Spec

\* Execution never outlives its capacity hold: a runtime that executes, and a
\* create or resume still with the provider, are covered by an unreleased
\* reservation, whatever crashes, times out or is answered late.
THEOREM ExecutionIsHeld ==
  ASSUME StaleReconcileFails = FALSE PROVE Spec => []HeldWhileExecuting
<1>1. CapacityInv => HeldWhileExecuting
  BY DEF CapacityInv, RowInv, HeldWhileExecuting
<1> QED
  BY <1>1, CapacityInvariant, PTL

\* A create intent is dispatched to the provider at most once, over all claims,
\* retries, stale adoptions and replicas.
THEOREM CreateIsDispatchedOnce ==
  ASSUME StaleReconcileFails = FALSE PROVE Spec => []AtMostOneCreate
<1>1. CapacityInv => AtMostOneCreate
  <2>1. ASSUME CapacityInv, NEW s \in Sandboxes PROVE Cardinality(creates[s]) <= 1
    <3>1. \A i \in creates[s] : creates[s] = {i}
      BY <2>1 DEF CapacityInv, RowInv, RuntimeShape
    <3>2. CASE creates[s] = {}
      BY <3>2, FS_EmptySet
    <3>3. CASE creates[s] # {}
      <4>1. PICK i : creates[s] = {i}
        BY <3>1, <3>3
      <4> QED
        BY <4>1, FS_Singleton
    <3> QED
      BY <3>2, <3>3
  <2> QED
    BY <2>1 DEF AtMostOneCreate
<1> QED
  BY <1>1, CapacityInvariant, PTL

\* No runtime is orphaned: a live one is the saved identity, or the product of
\* the unsettled provision effect that recovery finds by its metadata.
THEOREM NothingIsOrphaned ==
  ASSUME StaleReconcileFails = FALSE PROVE Spec => []NoOrphanRuntime
<1>1. TypeOK /\ CapacityInv => NoOrphanRuntime
  <2>1. ASSUME TypeOK, CapacityInv, NEW s \in Sandboxes, NEW i \in EffectIds,
               runtime[s][i] \in LiveStates, identity[s] # i
        PROVE  effect[s].kind = "provision" /\ effect[s].dispatched /\ effect[s].id = i
    <3>1. EffectShape(s) /\ RuntimeShape(s) /\ LiveShape(s)
      BY <2>1 DEF CapacityInv, RowInv
    <3>2. effect[s].kind = "provision" /\ effect[s].id = i
      BY <2>1, <3>1 DEF LiveShape
    <3> QED
      BY <2>1, <3>1, <3>2 DEF EffectShape, RuntimeShape, LiveStates
  <2> QED
    BY <2>1 DEF NoOrphanRuntime
<1> QED
  BY <1>1, TypeCorrect, CapacityInvariant, PTL
-----------------------------------------------------------------------------
(* The refinement.  A step changes the slots of one sandbox, either what is *)
(* held of it or what of it executes, and never both.                       *)

HeldSet == {t \in Sandboxes : Held(t)}
ExecutingSet == {t \in Sandboxes : MayExecute(t)}

LEMMA OneSlotMoves ==
  ASSUME NEW s \in Sandboxes, maxConcurrency' = maxConcurrency, HeldWhileExecuting',
         \A t \in Sandboxes \ {s} : (Held(t)' <=> Held(t)) /\ (MayExecute(t)' <=> MayExecute(t)),
         \/ Held(s)' <=> Held(s)
         \/ (MayExecute(s)' <=> MayExecute(s)) /\ (Held(s)' => Held(s) \/ Available)
  PROVE  [Slots!Next]_(Slots!slots)
<1>1. HeldSet' = {t \in Sandboxes : Held(t)'} /\ ExecutingSet' = {t \in Sandboxes : MayExecute(t)'}
  BY DEF HeldSet, ExecutingSet
<1>2. CASE (Held(s)' <=> Held(s)) /\ (MayExecute(s)' <=> MayExecute(s))
  <2>1. HeldSet' = HeldSet /\ ExecutingSet' = ExecutingSet
    BY <1>1, <1>2 DEF HeldSet, ExecutingSet
  <2> QED
    BY <2>1 DEF Slots!slots, HeldSet, ExecutingSet
<1>3. CASE (Held(s)' <=> Held(s)) /\ MayExecute(s)' /\ ~MayExecute(s)
  <2>1. HeldSet' = HeldSet /\ ExecutingSet' = ExecutingSet \cup {s}
    BY <1>1, <1>3 DEF HeldSet, ExecutingSet
  <2>2. s \in HeldSet
    BY <1>3 DEF HeldWhileExecuting, HeldSet
  <2>3. Slots!Start(s)
    BY <2>1, <2>2 DEF Slots!Start, HeldSet, ExecutingSet
  <2> QED
    BY <2>3 DEF Slots!Next
<1>4. CASE (Held(s)' <=> Held(s)) /\ ~MayExecute(s)' /\ MayExecute(s)
  <2>1. HeldSet' = HeldSet /\ ExecutingSet' = ExecutingSet \ {s}
    BY <1>1, <1>4 DEF HeldSet, ExecutingSet
  <2>2. Slots!Stop(s)
    BY <2>1 DEF Slots!Stop, HeldSet, ExecutingSet
  <2> QED
    BY <2>2 DEF Slots!Next
<1>5. CASE (MayExecute(s)' <=> MayExecute(s)) /\ Held(s)' /\ ~Held(s) /\ Available
  <2>1. HeldSet' = HeldSet \cup {s} /\ ExecutingSet' = ExecutingSet
    BY <1>1, <1>5 DEF HeldSet, ExecutingSet
  <2>2. s \notin HeldSet /\ Cardinality(HeldSet) < maxConcurrency
    BY <1>5 DEF HeldSet, Available, HeldCount
  \* an instance carries a copy of FiniteSets' definition
  <2>3. Slots!Cardinality(HeldSet) = Cardinality(HeldSet)
    BY DEF Cardinality, Slots!Cardinality
  <2>4. Slots!Grant(s)
    BY <2>1, <2>2, <2>3 DEF Slots!Grant, HeldSet, ExecutingSet
  <2> QED
    BY <2>4 DEF Slots!Next
<1>6. CASE (MayExecute(s)' <=> MayExecute(s)) /\ ~Held(s)' /\ Held(s)
  <2>1. HeldSet' = HeldSet \ {s} /\ ExecutingSet' = ExecutingSet
    BY <1>1, <1>6 DEF HeldSet, ExecutingSet
  <2>2. s \in HeldSet \ ExecutingSet
    BY <1>6 DEF HeldWhileExecuting, HeldSet, ExecutingSet
  <2>3. Slots!GiveBack(s)
    BY <2>1, <2>2 DEF Slots!GiveBack, HeldSet, ExecutingSet
  <2> QED
    BY <2>3 DEF Slots!Next
<1> QED
  BY <1>2, <1>3, <1>4, <1>5, <1>6

\* What the transactions do to the ledger: nothing elsewhere, and a new hold
\* only below the limit.
HoldMoves(s) ==
  /\ \A t \in Sandboxes \ {s} : phase'[t] = phase[t]
  /\ Held(s)' => Held(s) \/ Available

LEMMA KeptHolds == ASSUME NEW s \in Sandboxes, phase' = phase PROVE HoldMoves(s)
  BY DEF HoldMoves, Held

LEMMA ReleasedHolds ==
  ASSUME TypeOK, NEW s \in Sandboxes, NEW g, NEW reason, Release(s, g, reason) PROVE HoldMoves(s)
  BY DEF HoldMoves, Release, Held, HeldPhases, TypeOK, LedgerType

LEMMA MarkedHolds ==
  ASSUME TypeOK, NEW s \in Sandboxes, NEW g, NEW ph, Mark(s, g, ph) PROVE HoldMoves(s)
  BY DEF HoldMoves, Mark, Held, TypeOK, LedgerType

LEMMA ReservedHolds ==
  ASSUME TypeOK, NEW s \in Sandboxes, Reserve(s) PROVE HoldMoves(s)
  BY DEF HoldMoves, Reserve, TypeOK, LedgerType

LEMMA LedgerMoves ==
  ASSUME NEW s \in Sandboxes, HeldWhileExecuting', HoldMoves(s), UNCHANGED <<maxConcurrency, provider>>
  PROVE  [Slots!Next]_(Slots!slots)
<1>1. \A t \in Sandboxes : MayExecute(t)' <=> MayExecute(t)
  BY DEF provider, MayExecute
<1>2. \A t \in Sandboxes \ {s} : Held(t)' <=> Held(t)
  BY DEF HoldMoves, Held
<1> QED
  BY <1>1, <1>2, OneSlotMoves DEF HoldMoves

LEMMA ProviderMoves ==
  ASSUME NEW s \in Sandboxes, HeldWhileExecuting', UNCHANGED <<maxConcurrency, phase>>,
         \A t \in Sandboxes \ {s} :
            /\ runtime'[t] = runtime[t]
            /\ \A c : c.sandbox = t => (c \in calls' <=> c \in calls)
  PROVE  [Slots!Next]_(Slots!slots)
<1>1. \A t \in Sandboxes : Held(t)' <=> Held(t)
  BY DEF Held
<1>2. \A t \in Sandboxes \ {s} : MayExecute(t)' <=> MayExecute(t)
  BY DEF MayExecute
<1> QED
  BY <1>1, <1>2, OneSlotMoves

LEMMA RequestHolds ==
  ASSUME TypeOK, NEW p \in Processes, NEW s \in Sandboxes, Request(p, s)
  PROVE  HoldMoves(s) /\ UNCHANGED <<maxConcurrency, provider>>
<1>1. CASE AdmitCreate(p, s)
  BY <1>1, ReservedHolds DEF AdmitCreate
<1>2. CASE BeginPause(p, s)
  BY <1>2, KeptHolds DEF BeginPause, ledger
<1>3. CASE BeginResume(p, s)
  BY <1>3, ReservedHolds, MarkedHolds DEF BeginResume
<1>4. CASE RequestDeletion(p, s)
  BY <1>4, MarkedHolds DEF RequestDeletion
<1>5. CASE CancelBeforeDispatch(s)
  BY <1>5, ReleasedHolds DEF CancelBeforeDispatch
<1> QED
  BY <1>1, <1>2, <1>3, <1>4, <1>5 DEF Request

LEMMA CreateHolds ==
  ASSUME TypeOK, NEW p \in Processes, NEW s \in Sandboxes, Create(p, s)
  PROVE  HoldMoves(s) /\ UNCHANGED <<maxConcurrency, provider>>
<1>1. CASE FinishPreparation(p, s)
  BY <1>1, KeptHolds DEF FinishPreparation, ledger
<1>2. CASE AbandonPreparation(p, s)
  BY <1>2, ReleasedHolds DEF AbandonPreparation
<1>3. CASE ClaimById(p, s)
  BY <1>3, KeptHolds DEF ClaimById, ledger
<1>4. CASE CheckReplay(p, s)
  BY <1>4, KeptHolds DEF CheckReplay, database, ledger
<1>5. CASE FailOperation(p, s)
  BY <1>5, KeptHolds DEF FailOperation, ledger
<1>6. CASE BeginProvision(p, s)
  BY <1>6, KeptHolds DEF BeginProvision, ledger
<1>7. CASE RefuseInput(p, s)
  BY <1>7, KeptHolds DEF RefuseInput, database, ledger
<1>8. CASE AbortProvision(p, s)
  BY <1>8, ReleasedHolds DEF AbortProvision
<1>9. CASE Persist(p, s)
  BY <1>9, KeptHolds DEF Persist, ledger
<1>10. CASE CompleteProvision(p, s)
  BY <1>10, KeptHolds, MarkedHolds DEF CompleteProvision, ledger
<1>11. CASE RollbackCredentialCreate(p, s)
  BY <1>11, MarkedHolds DEF RollbackCredentialCreate
<1> QED
  BY <1>1, <1>2, <1>3, <1>4, <1>5, <1>6, <1>7, <1>8, <1>9, <1>10, <1>11 DEF Create

LEMMA WorkHolds ==
  ASSUME TypeOK, NEW p \in Processes, NEW s \in Sandboxes, Work(p, s)
  PROVE  HoldMoves(s) /\ UNCHANGED <<maxConcurrency, provider>>
<1>1. phase' = phase /\ UNCHANGED <<maxConcurrency, provider>>
  BY DEF Work, ClaimNext, ClaimStale, ReconcileStale, ReconcileStaleError, database, ledger
<1> QED
  BY <1>1, KeptHolds

LEMMA ReconcileHolds ==
  ASSUME TypeOK, NEW p \in Processes, NEW s \in Sandboxes, Reconcile(p, s)
  PROVE  HoldMoves(s) /\ UNCHANGED <<maxConcurrency, provider>>
<1>1. CASE CancelUndispatched(s)
  <2>1. \E g : Mark(s, g, "active") \/ Release(s, g, "canceled_before_dispatch")
    BY <1>1 DEF CancelUndispatched
  <2> QED
    BY <1>1, <2>1, MarkedHolds, ReleasedHolds DEF CancelUndispatched
<1>2. CASE ReconcileAbandoned(s)
  BY <1>2, ReleasedHolds DEF ReconcileAbandoned, CancelBeforeDispatch
<1>3. CASE ObserveEffect(p, s) \/ FindRuntime(p, s) \/ GetRuntime(p, s) \/ ObserveLease(p, s) \/ LeaseFenced(p, s)
  BY <1>3, KeptHolds DEF ObserveEffect, FindRuntime, GetRuntime, ObserveLease, LeaseFenced, database, ledger
<1>4. CASE RecoverAcknowledge(p, s)
  BY <1>4, KeptHolds DEF RecoverAcknowledge, ledger
<1>5. CASE RecoverAbsent(p, s)
  BY <1>5, KeptHolds, ReleasedHolds DEF RecoverAbsent, ledger
<1>6. CASE RecoverRuntime(p, s)
  <2>1. \/ \E g, ph : Mark(s, g, ph)
        \/ phase' = phase
    BY <1>6 DEF RecoverRuntime, ledger
  <2> QED
    BY <1>6, <2>1, KeptHolds, MarkedHolds DEF RecoverRuntime
<1>7. CASE LeaseAbsent(p, s)
  BY <1>7, ReleasedHolds DEF LeaseAbsent
<1>8. CASE LeaseUnknown(p, s)
  BY <1>8, MarkedHolds DEF LeaseUnknown
<1>9. CASE LeaseObserved(p, s)
  <2>1. \E g, x : Mark(s, g, x) \/ Release(s, g, x)
    BY <1>9 DEF LeaseObserved
  <2> QED
    BY <1>9, <2>1, MarkedHolds, ReleasedHolds DEF LeaseObserved
<1> QED
  BY <1>1, <1>2, <1>3, <1>4, <1>5, <1>6, <1>7, <1>8, <1>9 DEF Reconcile

LEMMA CarryHolds ==
  ASSUME TypeOK, NEW p \in Processes, NEW s \in Sandboxes, Carry(p, s), ~Dispatch(p, s)
  PROVE  HoldMoves(s) /\ UNCHANGED <<maxConcurrency, provider>>
<1>1. CASE LoseDispatchReply(p, s) \/ Acknowledge(p, s)
  BY <1>1, KeptHolds DEF LoseDispatchReply, Acknowledge, ledger
<1>2. CASE TimeOut(p, s) \/ AwaitState(p, s) \/ Fenced(p, s)
  BY <1>2, KeptHolds DEF TimeOut, AwaitState, Fenced, database, ledger
<1>3. CASE MarkUncertain(p, s)
  BY <1>3 DEF MarkUncertain, HoldMoves, Held, TypeOK, LedgerType
<1>4. CASE FinishLifecycle(p, s)
  BY <1>4, MarkedHolds, ReleasedHolds DEF FinishLifecycle
<1>5. CASE FinishDeletion(p, s)
  BY <1>5, ReleasedHolds DEF FinishDeletion
<1> QED
  BY <1>1, <1>2, <1>3, <1>4, <1>5 DEF Carry

LEMMA SlotStep ==
  ASSUME TypeOK, HeldWhileExecuting', [Next]_vars
  PROVE  [Slots!Next]_(Slots!slots)
<1>1. ASSUME NEW p \in Processes, NEW s \in Sandboxes,
             Request(p, s) \/ Create(p, s) \/ Work(p, s) \/ Reconcile(p, s) \/ (Carry(p, s) /\ ~Dispatch(p, s))
      PROVE  [Slots!Next]_(Slots!slots)
  <2>1. HoldMoves(s) /\ UNCHANGED <<maxConcurrency, provider>>
    BY <1>1, RequestHolds, CreateHolds, WorkHolds, ReconcileHolds, CarryHolds
  <2> QED
    BY <2>1, LedgerMoves
<1>2. ASSUME NEW p \in Processes, NEW s \in Sandboxes, Dispatch(p, s) PROVE [Slots!Next]_(Slots!slots)
  <2>1. UNCHANGED <<maxConcurrency, phase, runtime>>
    BY <1>2 DEF Dispatch, ledger
  <2>2. \A t \in Sandboxes \ {s} : \A c : c.sandbox = t => (c \in calls' <=> c \in calls)
    BY <1>2 DEF Dispatch
  <2> QED
    BY <2>1, <2>2, ProviderMoves
<1>3. ASSUME NEW c \in calls, Perform(c) \/ Refuse(c) PROVE [Slots!Next]_(Slots!slots)
  <2>1. c.sandbox \in Sandboxes
    BY <1>3 DEF TypeOK, ProviderType, Call
  <2>2. UNCHANGED <<maxConcurrency, phase>> /\ calls' = calls \ {c}
    BY <1>3 DEF Perform, Refuse, Answer, database, ledger
  <2>3. \A t \in Sandboxes \ {c.sandbox} : runtime'[t] = runtime[t]
    BY <1>3, <2>1 DEF Perform, Refuse, TypeOK, ProviderType
  <2>4. \A t \in Sandboxes \ {c.sandbox} : \A d : d.sandbox = t => (d \in calls' <=> d \in calls)
    BY <2>2
  <2> QED
    BY <2>1, <2>2, <2>3, <2>4, ProviderMoves
<1>4. ASSUME NEW s \in Sandboxes, NEW i \in EffectIds, RuntimeSettles(s, i) \/ RuntimeEnds(s, i)
      PROVE  [Slots!Next]_(Slots!slots)
  <2>1. UNCHANGED <<maxConcurrency, phase, calls>>
    BY <1>4 DEF RuntimeSettles, RuntimeEnds, database, ledger
  <2>2. \A t \in Sandboxes \ {s} : runtime'[t] = runtime[t]
    BY <1>4 DEF RuntimeSettles, RuntimeEnds, TypeOK, ProviderType
  <2> QED
    BY <2>1, <2>2, ProviderMoves
<1>5. ASSUME NEW n \in Limits, SetLimit(n) PROVE [Slots!Next]_(Slots!slots)
  <2>1. HeldSet' = HeldSet /\ ExecutingSet' = ExecutingSet /\ maxConcurrency' = n
    BY <1>5 DEF SetLimit, ledger, provider, HeldSet, ExecutingSet, Held, MayExecute
  <2>2. Slots!ChangeLimit(n)
    BY <2>1 DEF Slots!ChangeLimit, HeldSet, ExecutingSet
  <2> QED
    BY <2>2 DEF Slots!Next
<1>6. CASE UNCHANGED <<maxConcurrency, phase, provider>>
  <2>1. HeldSet' = HeldSet /\ ExecutingSet' = ExecutingSet
    BY <1>6 DEF provider, HeldSet, ExecutingSet, Held, MayExecute
  <2> QED
    BY <1>6, <2>1 DEF Slots!slots, HeldSet, ExecutingSet
<1>7. ASSUME NEW p \in Processes, Crash(p) PROVE [Slots!Next]_(Slots!slots)
  BY <1>6, <1>7 DEF Crash, database, ledger
<1>8. CASE UNCHANGED vars
  BY <1>6, <1>8 DEF vars, database, ledger
<1> QED
  BY <1>1, <1>2, <1>3, <1>4, <1>5, <1>7, <1>8 DEF Next, Provider

\* The protocol implements ExecutionSlots: every step grants a slot below the
\* limit in force, starts or stops execution under one, gives back one that
\* nothing executes in, changes the limit, or does none of these.
THEOREM SlotsAreImplemented ==
  ASSUME StaleReconcileFails = FALSE PROVE Spec => ImplementsSlots
<1>1. Init => Slots!Init
  <2> SUFFICES ASSUME Init PROVE Slots!Init
    OBVIOUS
  <2>1. maxConcurrency \in Limits /\ HeldSet = {} /\ ExecutingSet = {}
    BY DEF Init, HeldSet, ExecutingSet, Held, HeldPhases, MayExecute, Executing, LiveStates
  <2> QED
    BY <2>1 DEF Slots!Init, HeldSet, ExecutingSet
<1>2. TypeOK /\ HeldWhileExecuting' /\ [Next]_vars => [Slots!Next]_(Slots!slots)
  BY SlotStep
<1> QED
  BY <1>1, <1>2, TypeCorrect, ExecutionIsHeld, PTL DEF Spec, ImplementsSlots, Slots!Spec
-----------------------------------------------------------------------------
(* A process whose effect was settled by somebody else. *)

Late == {"begun", "returned", "acknowledged", "persisted", "observed",
         "aborting", "doubtful", "found", "recovering", "preparing"}

LEMMA OneProcessMoves ==
  ASSUME TypeOK, NEW p \in Processes, NEW q \in Processes, NEW s \in Sandboxes, p # q,
         Request(q, s) \/ Create(q, s) \/ Carry(q, s) \/ Work(q, s) \/ Reconcile(q, s)
  PROVE  pc'[p] = pc[p]
<1> USE DEF Take, Rest, Fail, Goto, TypeOK, ProcessType, processes
<1>1. CASE Request(q, s)
  BY <1>1 DEF Request, AdmitCreate, BeginPause, BeginResume, RequestDeletion,
              CancelBeforeDispatch
<1>2. CASE Create(q, s)
  BY <1>2 DEF Create, FinishPreparation, AbandonPreparation, ClaimById, CheckReplay,
     FailOperation, BeginProvision, RefuseInput, AbortProvision, Persist,
     CompleteProvision, RollbackCredentialCreate
<1>3. CASE Carry(q, s)
  BY <1>3 DEF Carry, Dispatch, LoseDispatchReply, TimeOut, Acknowledge, AwaitState,
     MarkUncertain, Fenced, FinishLifecycle, FinishDeletion
<1>4. CASE Work(q, s)
  BY <1>4 DEF Work, ClaimNext, ClaimStale, ReconcileStale, ReconcileStaleError
<1>5. CASE Reconcile(q, s)
  BY <1>5 DEF Reconcile, CancelUndispatched, ReconcileAbandoned, CancelBeforeDispatch,
     ObserveEffect, FindRuntime, GetRuntime, RecoverAcknowledge, RecoverAbsent,
     RecoverRuntime, ObserveLease, LeaseFenced, LeaseAbsent, LeaseUnknown, LeaseObserved
<1> QED
  BY <1>1, <1>2, <1>3, <1>4, <1>5

\* What such a process still does leaves the rows alone.
LEMMA LateWritesNothing ==
  ASSUME TypeOK, NEW p \in Processes, NEW s \in Sandboxes, pc[p] \in Late, ~Owns(p),
         pc'[p] # pc[p],
         Request(p, s) \/ Create(p, s) \/ Carry(p, s) \/ Work(p, s) \/ Reconcile(p, s)
  PROVE  UNCHANGED <<sandbox, ledger, effects>>
<1> USE DEF Late, At, processes
<1>1. CASE Request(p, s)
  BY <1>1 DEF Request, AdmitCreate, BeginPause, BeginResume, RequestDeletion,
              CancelBeforeDispatch
<1>2. CASE Create(p, s)
  BY <1>2 DEF Create, FinishPreparation, AbandonPreparation, ClaimById, CheckReplay,
     FailOperation, BeginProvision, RefuseInput, AbortProvision, Persist,
     CompleteProvision, RollbackCredentialCreate, database
<1>3. CASE Carry(p, s)
  <2>1. CASE MarkUncertain(p, s)
    BY <1>3, <2>1 DEF MarkUncertain, ledger, effects
  <2> QED
    BY <1>3, <2>1 DEF Carry, Dispatch, LoseDispatchReply, TimeOut, Acknowledge,
       AwaitState, Fenced, FinishLifecycle, FinishDeletion, database
<1>4. CASE Work(p, s)
  BY <1>4 DEF Work, ClaimNext, ClaimStale, ReconcileStale, ReconcileStaleError
<1>5. CASE Reconcile(p, s)
  BY <1>5 DEF Reconcile, CancelUndispatched, ReconcileAbandoned, CancelBeforeDispatch,
     ObserveEffect, FindRuntime, GetRuntime, RecoverAcknowledge, RecoverAbsent,
     RecoverRuntime, ObserveLease, LeaseFenced, LeaseAbsent, LeaseUnknown, LeaseObserved
<1> QED
  BY <1>1, <1>2, <1>3, <1>4, <1>5

\* A process that comes back after its effect was settled by somebody else (by
\* another replica, the scheduler or a user's stop) changes no row of a sandbox,
\* of its reservation or of its effects, whatever it saw.
THEOREM LateResultsAreIgnored == Spec => StaleResultIsIgnored
<1>1. TypeOK /\ [Next]_vars =>
        [\A p \in Processes : \A s \in Sandboxes :
           /\ pc[p] \in {"begun", "returned", "acknowledged", "persisted", "observed",
                          "aborting", "doubtful", "found", "recovering", "preparing"}
           /\ job[p].sandbox = s /\ effect[s].id # job[p].effect /\ pc'[p] # pc[p]
           => UNCHANGED <<sandbox, ledger, effects>>]_vars
  <2> SUFFICES ASSUME TypeOK, Next, NEW p \in Processes, NEW s \in Sandboxes,
                      pc[p] \in Late, job[p].sandbox = s, effect[s].id # job[p].effect,
                      pc'[p] # pc[p]
               PROVE  UNCHANGED <<sandbox, ledger, effects>>
    BY DEF Late, vars
  <2>1. ~Owns(p)
    BY DEF Owns
  <2>2. ASSUME NEW q \in Processes, NEW t \in Sandboxes,
               Request(q, t) \/ Create(q, t) \/ Carry(q, t) \/ Work(q, t) \/ Reconcile(q, t)
        PROVE  UNCHANGED <<sandbox, ledger, effects>>
    BY <2>1, <2>2, OneProcessMoves, LateWritesNothing
  <2>3. CASE Provider
    BY <2>3 DEF Provider, Perform, Refuse, RuntimeSettles, RuntimeEnds, database
  <2>4. ASSUME NEW n \in Limits, SetLimit(n) PROVE UNCHANGED <<sandbox, ledger, effects>>
    BY <2>4 DEF SetLimit
  <2>5. ASSUME NEW q \in Processes, Crash(q) PROVE UNCHANGED <<sandbox, ledger, effects>>
    BY <2>5 DEF Crash, database
  <2> QED
    BY <2>2, <2>3, <2>4, <2>5 DEF Next
<1> QED
  BY <1>1, TypeCorrect, PTL DEF Spec, StaleResultIsIgnored

-----------------------------------------------------------------------------
(* The end of a sandbox.  Where absence is authoritative, nothing that a    *)
(* process carries can be unsettled once the sandbox is terminated, so      *)
(* nothing begins or completes again.                                       *)

Ended(s) == status[s] = "terminated" => ~Held(s) /\ Settled(s)
EndedInv == \A s \in Sandboxes : Ended(s)

\* A step does not leave "terminated", and enters it with nothing left.
StaysEnded(s) ==
  /\ status[s] = "terminated" => status'[s] = "terminated"
  /\ Ended(s)'
AliveSame(s) ==
  status'[s] = status[s] /\ phase'[s] = phase[s] /\ effect'[s] = effect[s]
EndsAt(s) ==
  /\ StaysEnded(s)
  /\ \A t \in Sandboxes \ {s} : AliveSame(t)

LEMMA AllStayEnded ==
  ASSUME EndedInv, NEW s \in Sandboxes, EndsAt(s)
  PROVE  \A t \in Sandboxes : StaysEnded(t)
  BY DEF EndedInv, Ended, EndsAt, StaysEnded, AliveSame, Held, Settled

LEMMA NobodyStays ==
  ASSUME EndedInv, \A t \in Sandboxes : AliveSame(t)
  PROVE  \A t \in Sandboxes : StaysEnded(t)
  BY DEF EndedInv, Ended, StaysEnded, AliveSame, Held, Settled

\* Who owns an effect owns an unsettled one, under the newest reservation.
LEMMA OwnerIsUnsettled ==
  ASSUME TypeOK, CapacityInv, NEW p \in Processes, NEW s \in Sandboxes,
         pc[p] \in Carrying, job[p].sandbox = s, Owns(p)
  PROVE  ~Settled(s) /\ effect[s].generation = generation[s]
<1>1. JobShape(p, s) /\ EffectShape(s)
  BY DEF CapacityInv, RowInv, WorkInv
<1>2. effect[s].id # 0
  BY <1>1 DEF JobShape, Owns
<1> QED
  BY <1>1, <1>2 DEF EffectShape, Settled, NoEffect

LEMMA EndsAtRequest ==
  ASSUME TypeOK, CapacityInv, EndedInv, NEW p \in Processes, NEW s \in Sandboxes, Request(p, s)
  PROVE  EndsAt(s)
<1>0. Ended(s) /\ EffectShape(s)
  BY DEF EndedInv, CapacityInv, RowInv
<1> USE <1>0 DEF EndsAt, StaysEnded, AliveSame, Ended, TypeOK, LedgerType, EffectsType, SandboxType
<1>1. CASE AdmitCreate(p, s)
  BY <1>1 DEF AdmitCreate, SetStatus, Reserve, Begin
<1>2. CASE BeginPause(p, s)
  BY <1>2 DEF BeginPause, SetStatus, Begin, ledger
<1>3. CASE BeginResume(p, s)
  BY <1>3 DEF BeginResume, SetStatus, Reserve, Mark, Begin
<1>4. CASE RequestDeletion(p, s)
  BY <1>4 DEF RequestDeletion, sandbox, Mark, Begin
<1>5. CASE CancelBeforeDispatch(s)
  BY <1>5 DEF CancelBeforeDispatch, SetStatus, Settle, Release, Held, HeldPhases, Settled
<1> QED
  BY <1>1, <1>2, <1>3, <1>4, <1>5 DEF Request

LEMMA EndsAtCreate ==
  ASSUME TypeOK, CapacityInv, EndedInv, NEW p \in Processes, NEW s \in Sandboxes, Create(p, s)
  PROVE  EndsAt(s)
<1>0. Ended(s) /\ EffectShape(s)
  BY DEF EndedInv, CapacityInv, RowInv
<1>1. pc[p] \in Carrying /\ job[p].sandbox = s /\ Owns(p) => ~Settled(s) /\ status[s] # "terminated"
  BY <1>0, OwnerIsUnsettled DEF Ended
<1> USE <1>0 DEF EndsAt, StaysEnded, AliveSame, Ended, TypeOK, LedgerType, EffectsType, SandboxType
<1>2. CASE FinishPreparation(p, s)
  BY <1>1, <1>2 DEF FinishPreparation, At, Carrying, Driving, Settle, sandbox, ledger
<1>3. CASE AbandonPreparation(p, s)
  BY <1>1, <1>3 DEF AbandonPreparation, At, Carrying, Driving, Settle, Release
<1>4. CASE \/ ClaimById(p, s) \/ CheckReplay(p, s) \/ FailOperation(p, s) \/ RefuseInput(p, s)
  BY <1>4 DEF ClaimById, CheckReplay, FailOperation, RefuseInput, database, sandbox, ledger,
              effects, Held, Settled
<1>5. CASE BeginProvision(p, s)
  BY <1>5 DEF BeginProvision, Begin, sandbox, ledger, effects, Held, HeldPhases, Settled
<1>6. CASE AbortProvision(p, s)
  BY <1>1, <1>6 DEF AbortProvision, At, Carrying, Driving, Settle, Release, sandbox
<1>7. CASE Persist(p, s)
  BY <1>1, <1>7 DEF Persist, At, Carrying, Driving, SetStatus, sandbox, ledger, effects,
                    ProcessType, Carries, Held, Settled
<1>8. CASE CompleteProvision(p, s)
  BY <1>1, <1>8 DEF CompleteProvision, At, Carrying, Driving, Settle, Mark, sandbox, ledger, effects
<1>9. CASE RollbackCredentialCreate(p, s)
  BY <1>1, <1>9 DEF RollbackCredentialCreate, At, Carrying, Driving, SetStatus, Begin, Mark
<1> QED
  BY <1>2, <1>3, <1>4, <1>5, <1>6, <1>7, <1>8, <1>9 DEF Create

LEMMA EndsAtCarry ==
  ASSUME TypeOK, CapacityInv, EndedInv, NEW p \in Processes, NEW s \in Sandboxes, Carry(p, s)
  PROVE  EndsAt(s)
<1>0. Ended(s) /\ EffectShape(s)
  BY DEF EndedInv, CapacityInv, RowInv
<1>1. pc[p] \in Carrying /\ job[p].sandbox = s /\ Owns(p) =>
        /\ ~Settled(s) /\ status[s] # "terminated"
        /\ effect[s].generation = generation[s]
  BY <1>0, OwnerIsUnsettled DEF Ended
<1> USE <1>0 DEF EndsAt, StaysEnded, AliveSame, Ended, TypeOK, LedgerType, EffectsType, SandboxType
<1>2. CASE Dispatch(p, s) \/ LoseDispatchReply(p, s)
  BY <1>1, <1>2 DEF Dispatch, LoseDispatchReply, MarkDispatched, At, Carrying, Driving, sandbox, ledger
<1>3. CASE TimeOut(p, s) \/ AwaitState(p, s) \/ Fenced(p, s)
  BY <1>3 DEF TimeOut, AwaitState, Fenced, database, sandbox, ledger, effects, Held, Settled
<1>4. CASE Acknowledge(p, s)
  BY <1>1, <1>4 DEF Acknowledge, At, Carrying, Driving, sandbox, ledger
<1>5. CASE MarkUncertain(p, s)
  BY <1>1, <1>5 DEF MarkUncertain, At, Carrying, Driving, sandbox, Held, Settled
<1>6. CASE FinishLifecycle(p, s)
  BY <1>1, <1>6 DEF FinishLifecycle, At, Carrying, Driving, Settle, SetStatus, Release, Mark
<1>7. CASE FinishDeletion(p, s)
  BY <1>1, <1>7 DEF FinishDeletion, At, Carrying, Driving, Settle, SetStatus, Release, Held,
                    HeldPhases, Settled
<1> QED
  BY <1>2, <1>3, <1>4, <1>5, <1>6, <1>7 DEF Carry

LEMMA EndsAtReconcile ==
  ASSUME AuthoritativeLifecycle, TypeOK, CapacityInv, EndedInv, NEW p \in Processes, NEW s \in Sandboxes, Reconcile(p, s)
  PROVE  EndsAt(s)
<1>0. Ended(s) /\ EffectShape(s)
  BY DEF EndedInv, CapacityInv, RowInv
<1>1. pc[p] \in Carrying /\ job[p].sandbox = s /\ Owns(p) =>
        /\ ~Settled(s) /\ status[s] # "terminated"
        /\ effect[s].generation = generation[s]
  BY <1>0, OwnerIsUnsettled DEF Ended
<1> USE <1>0 DEF EndsAt, StaysEnded, AliveSame, Ended, TypeOK, LedgerType, EffectsType, SandboxType
<1>2. CASE CancelUndispatched(s)
  <2>1. effect[s].generation = generation[s]
    BY <1>2 DEF CancelUndispatched, EffectShape, Settled
  <2>2. effect[s].kind # "none" /\ status[s] # "terminated"
    BY <1>2 DEF CancelUndispatched, EffectShape, Settled
  <2> QED
    BY <1>2, <2>1, <2>2 DEF CancelUndispatched, Settle, SetStatus, Release, Mark, Held, HeldPhases, Settled
<1>3. CASE ReconcileAbandoned(s)
  BY <1>3 DEF ReconcileAbandoned, CancelBeforeDispatch, SetStatus, Settle, Release, Held,
              HeldPhases, Settled
<1>4. CASE \/ ObserveEffect(p, s) \/ FindRuntime(p, s) \/ GetRuntime(p, s)
           \/ ObserveLease(p, s) \/ LeaseFenced(p, s)
  BY <1>4 DEF ObserveEffect, FindRuntime, GetRuntime, ObserveLease, LeaseFenced, database,
              sandbox, ledger, effects, Held, Settled
<1>5. CASE RecoverAcknowledge(p, s)
  BY <1>1, <1>5 DEF RecoverAcknowledge, At, Carrying, sandbox, ledger
<1>6. CASE RecoverAbsent(p, s)
  BY <1>1, <1>6 DEF RecoverAbsent, At, Carrying, Settle, SetStatus, Release, ledger, effects,
                    Held, HeldPhases, Settled
<1>7. CASE RecoverRuntime(p, s)
  <2>1. ~Settled(s) /\ status[s] # "terminated" /\ Adopted(job[p].seen) # "terminated"
    BY <1>1, <1>7 DEF RecoverRuntime, At, Carrying, ProcessType, Carries, Recoverable,
                      LiveStates, Adopted
  <2> QED
    BY <1>7, <2>1 DEF RecoverRuntime, SetStatus, Settle, Begin, Mark, sandbox, ledger, effects
<1>8. CASE LeaseAbsent(p, s)
  BY <1>8 DEF LeaseAbsent, Unfenced, SetStatus, Release, effects, Held, HeldPhases, Settled
<1>9. CASE LeaseUnknown(p, s)
  BY <1>9 DEF LeaseUnknown, Unfenced, Mark, sandbox, effects, Held
<1>10. CASE LeaseObserved(p, s)
  BY <1>10 DEF LeaseObserved, Unfenced, SetStatus, Release, Mark, Begin, effects, Held, LiveStates
<1> QED
  BY <1>2, <1>3, <1>4, <1>5, <1>6, <1>7, <1>8, <1>9, <1>10 DEF Reconcile

LEMMA EndedStep ==
  ASSUME AuthoritativeLifecycle, TypeOK, CapacityInv, EndedInv, [Next]_vars
  PROVE  \A t \in Sandboxes : StaysEnded(t)
<1>1. ASSUME NEW p \in Processes, NEW s \in Sandboxes,
             Request(p, s) \/ Create(p, s) \/ Carry(p, s) \/ Reconcile(p, s)
      PROVE  \A t \in Sandboxes : StaysEnded(t)
  BY <1>1, EndsAtRequest, EndsAtCreate, EndsAtCarry, EndsAtReconcile, AllStayEnded
<1>2. ASSUME NEW p \in Processes, NEW s \in Sandboxes, Work(p, s)
      PROVE  \A t \in Sandboxes : AliveSame(t)
  BY <1>2 DEF Work, ClaimNext, ClaimStale, ReconcileStale, ReconcileStaleError, database,
              sandbox, ledger, effects, AliveSame
<1>3. CASE UNCHANGED <<status, phase, effect>>
  BY <1>3, NobodyStays DEF AliveSame
<1>4. CASE Provider \/ UNCHANGED vars
  BY <1>3, <1>4 DEF Provider, Perform, Refuse, RuntimeSettles, RuntimeEnds, vars, database,
                    sandbox, ledger, effects
<1>5. ASSUME NEW n \in Limits, SetLimit(n) PROVE \A t \in Sandboxes : StaysEnded(t)
  BY <1>3, <1>5 DEF SetLimit, sandbox, ledger, effects
<1>6. ASSUME NEW p \in Processes, Crash(p) PROVE \A t \in Sandboxes : StaysEnded(t)
  BY <1>3, <1>6 DEF Crash, database, sandbox, ledger, effects
<1> QED
  BY <1>1, <1>2, <1>4, <1>5, <1>6, NobodyStays DEF Next

\* Where absence is authoritative, a sandbox that is terminated holds no slot and
\* has no unsettled effect, after every step of every process: the strengthening
\* of the two theorems below.
THEOREM EndedInvariant ==
  ASSUME StaleReconcileFails = FALSE, AuthoritativeLifecycle = TRUE
  PROVE  Spec => []EndedInv
<1>1. Init => EndedInv
  BY DEF Init, EndedInv, Ended
<1>2. TypeOK /\ CapacityInv /\ EndedInv /\ [Next]_vars => EndedInv'
  BY EndedStep DEF EndedInv, StaysEnded
<1> QED
  BY <1>1, <1>2, TypeCorrect, CapacityInvariant, PTL DEF Spec

\* Where absence is authoritative, a terminated sandbox holds no slot, has no
\* unsettled effect and executes nothing, and no request that could start it is
\* with the provider.  Without that capability recovery adopts a runtime that is
\* reported terminated, and its sandbox is terminated while its slot is held.
THEOREM TerminationIsClean ==
  ASSUME StaleReconcileFails = FALSE, AuthoritativeLifecycle = TRUE
  PROVE  Spec => []TerminatedIsClean
<1>1. CapacityInv /\ EndedInv => TerminatedIsClean
  BY DEF CapacityInv, RowInv, EndedInv, Ended, TerminatedIsClean
<1> QED
  BY <1>1, CapacityInvariant, EndedInvariant, PTL

\* Where absence is authoritative, no late completion, retry or observation
\* revives a terminated sandbox.  (Without it, the next lease observation of an
\* adopted runtime writes the status again.)
THEOREM TerminationIsFinal ==
  ASSUME StaleReconcileFails = FALSE, AuthoritativeLifecycle = TRUE
  PROVE  Spec => TerminatedIsFinal
<1>1. TypeOK /\ CapacityInv /\ EndedInv /\ [Next]_vars =>
        [\A s \in Sandboxes : status[s] = "terminated" =>
           status'[s] = "terminated" /\ ~Held(s)' /\ effect'[s] = NoEffect]_vars
  BY EndedStep DEF StaysEnded, Ended, Settled
<1> QED
  BY <1>1, TypeCorrect, CapacityInvariant, EndedInvariant, PTL DEF Spec, TerminatedIsFinal

-----------------------------------------------------------------------------
(* The creates that wait under a reservation between two effects.           *)

\* The operation waits while its input is prepared and is ready afterwards; it
\* succeeds with an identity, and its cancellation gives everything back.  Until
\* there is an identity, a request that was dispatched keeps its effect unsettled
\* or its slot released.
OwnerAt(s) ==
  LET o == operation[s] IN
  /\ o.state = "none" => status[s] = "absent" /\ ~Held(s)
  /\ o.state = "succeeded" => identity[s] # 0
  /\ o.state = "canceled" => ~Held(s) /\ Settled(s) /\ identity[s] = 0
  /\ effect[s].kind = "prepare" => o.state = "queued"
  /\ Held(s) /\ effect[s].kind # "prepare" => o.ready \/ identity[s] # 0
  /\ Held(s) /\ identity[s] = 0 /\ creates[s] # {} => effect[s].kind = "provision"
OwnerInv == \A s \in Sandboxes : OwnerAt(s)

Untouched(s) ==
  /\ AliveSame(s) /\ identity'[s] = identity[s] /\ operation'[s] = operation[s]
  /\ creates'[s] = creates[s]
OwnedAt(s) == OwnerAt(s)' /\ \A t \in Sandboxes \ {s} : Untouched(t)

LEMMA AllOwned ==
  ASSUME OwnerInv, NEW s \in Sandboxes, OwnedAt(s) PROVE OwnerInv'
  BY DEF OwnerInv, OwnerAt, OwnedAt, Untouched, AliveSame, Held, Settled

LEMMA NobodyTouched ==
  ASSUME OwnerInv, \A t \in Sandboxes : Untouched(t) PROVE OwnerInv'
  BY DEF OwnerInv, OwnerAt, Untouched, AliveSame, Held, Settled

\* A step that keeps an unsettled effect, the operation and the hold, and adds a
\* dispatched create only under a provision effect, keeps the owner.
LEMMA KindKept ==
  ASSUME TypeOK, NEW s \in Sandboxes, OwnerAt(s), ~Settled(s), effect'[s].kind = effect[s].kind,
         status' = status, operation' = operation, Held(s)' <=> Held(s),
         identity'[s] = identity[s],
         creates'[s] = creates[s] \/ effect[s].kind = "provision"
  PROVE  OwnerAt(s)'
  BY DEF OwnerAt

LEMMA OwnedAtRequest ==
  ASSUME TypeOK, CapacityInv, OwnerInv, NEW p \in Processes, NEW s \in Sandboxes,
         Request(p, s)
  PROVE  OwnedAt(s)
<1>0. OwnerAt(s) /\ EffectShape(s) /\ AbsentShape(s)
  BY DEF OwnerInv, CapacityInv, RowInv, WorkInv
<1> USE <1>0 DEF OwnedAt, Untouched, AliveSame, OwnerAt, TypeOK, LedgerType, EffectsType,
                 SandboxType, Operation, Settled
<1>1. CASE AdmitCreate(p, s)
  <2>1. creates[s] = {} /\ creates' = creates /\ effect'[s].kind = "prepare"
    BY <1>1 DEF AdmitCreate, AbsentShape, Begin, NewEffect
  <2> QED
    BY <1>1, <2>1 DEF AdmitCreate, SetStatus, Reserve, Begin, NewEffect
<1>2. CASE BeginPause(p, s)
  BY <1>2 DEF BeginPause, SetStatus, Begin, NewEffect, ledger, Held
<1>3. CASE BeginResume(p, s)
  BY <1>3 DEF BeginResume, SetStatus, Reserve, Mark, Begin, NewEffect, Held
<1>4. CASE RequestDeletion(p, s)
  BY <1>4 DEF RequestDeletion, sandbox, Mark, Begin, NewEffect, Held, HeldPhases
<1>5. CASE CancelBeforeDispatch(s)
  BY <1>5 DEF CancelBeforeDispatch, SetStatus, Settle, NoEffect, Release, Held, HeldPhases
<1> QED
  BY <1>1, <1>2, <1>3, <1>4, <1>5 DEF Request

LEMMA OwnedAtCreate ==
  ASSUME TypeOK, CapacityInv, OwnerInv, NEW p \in Processes, NEW s \in Sandboxes,
         Create(p, s)
  PROVE  OwnedAt(s)
<1>0. OwnerAt(s) /\ EffectShape(s) /\ OwnerShape(p, s)
  BY DEF OwnerInv, CapacityInv, RowInv, WorkInv
<1>1. pc[p] \in Carrying /\ job[p].sandbox = s /\ Owns(p) =>
        ~Settled(s) /\ effect[s].generation = generation[s]
  BY OwnerIsUnsettled
<1> USE <1>0 DEF OwnedAt, Untouched, AliveSame, OwnerAt, TypeOK, LedgerType, EffectsType,
                 SandboxType, Operation, Settled
<1>2. CASE FinishPreparation(p, s)
  BY <1>1, <1>2, PreparingOwns DEF FinishPreparation, Settle, NoEffect, sandbox, ledger, Held
<1>3. CASE AbandonPreparation(p, s)
  <2>1. Held(s) /\ effect[s].generation = generation[s]
    BY <1>3, PreparingOwns DEF AbandonPreparation, EffectShape, NoEffect
  <2> QED
    BY <1>3, <2>1 DEF AbandonPreparation, SetOperation, Settle, NoEffect, Release, Held, HeldPhases
<1>4. CASE ClaimById(p, s)
  BY <1>4 DEF ClaimById, Claim, Unsettled, sandbox, ledger, effects, Held
<1>5. CASE CheckReplay(p, s) \/ RefuseInput(p, s)
  BY <1>5 DEF CheckReplay, RefuseInput, database, sandbox, ledger, effects, Held
<1>6. CASE FailOperation(p, s)
  BY <1>6 DEF FailOperation, FailClaim, Completable, sandbox, ledger, effects, Held
<1>7. CASE BeginProvision(p, s)
  <2>1. CASE UNCHANGED effects
    BY <1>7, <2>1 DEF BeginProvision, sandbox, ledger, effects, Held
  <2>2. CASE Begin(s, "provision", generation[s], identity[s]) /\ Settled(s)
                 /\ operation[s].state = "running"
    <3>1. effect[s].kind # "prepare" /\ effect'[s].kind = "provision"
      BY <2>2 DEF Begin, NewEffect, NoEffect
    <3>2. UNCHANGED <<status, identity, phase, operation, creates>>
          /\ \A t \in Sandboxes \ {s} : effect'[t] = effect[t]
      BY <1>7, <2>2 DEF BeginProvision, Begin, sandbox, ledger
    <3> QED
      BY <2>2, <3>1, <3>2 DEF Held
  <2> QED
    BY <1>7, <2>1, <2>2 DEF BeginProvision, Completable
<1>8. CASE AbortProvision(p, s)
  <2>1. effect[s].kind = "provision" /\ effect[s].generation = generation[s] /\ Held(s)
    BY <1>1, <1>8 DEF AbortProvision, OwnerShape, OwnsAt, Owns, At, Carrying, Driving,
                      EffectShape
  <2> QED
    BY <1>8, <2>1 DEF AbortProvision, Settle, NoEffect, Release, sandbox, Held, HeldPhases
<1>9. CASE Persist(p, s)
  <2>1. ~Settled(s) /\ effect[s].kind = "provision"
    BY <1>1, <1>9 DEF Persist, OwnerShape, OwnsAt, Owns, At, Carrying, Driving
  <2>2. UNCHANGED <<phase, effect, creates, operation>>
    BY <1>9 DEF Persist, ledger, effects
  <2>3. CASE UNCHANGED sandbox
    BY <2>2, <2>3 DEF sandbox, Held
  <2>4. CASE identity' = [identity EXCEPT ![s] = job[p].runtime] /\ SetStatus(s, job[p].seen)
    <3>1. job[p].runtime # 0 /\ status[s] # "absent" /\ operation[s].state # "none"
      BY <1>9, <2>4, Admitted DEF Persist, At, ProcessType, Carries, EffectIds, CapacityInv
    <3> QED
      BY <2>1, <2>2, <2>4, <3>1 DEF SetStatus, Held
  <2> QED
    BY <1>9, <2>3, <2>4 DEF Persist
<1>10. CASE CompleteProvision(p, s)
  <2>1. identity[s] # 0 /\ effect[s].kind = "provision"
    BY <1>1, <1>10 DEF CompleteProvision, OwnerShape, OwnsAt, Owns, At, Carrying, Driving,
                       EffectShape, Settled
  <2> QED
    BY <1>10, <2>1 DEF CompleteProvision, SetOperation, Settle, NoEffect, Mark, sandbox, ledger,
                       effects, Held, HeldPhases
<1>11. CASE RollbackCredentialCreate(p, s)
  <2>1. identity[s] # 0 /\ effect[s].kind = "provision"
    BY <1>1, <1>11 DEF RollbackCredentialCreate, OwnerShape, OwnsAt, Owns, At, Carrying,
                       Driving, EffectShape, Settled
  <2> QED
    BY <1>11, <2>1 DEF RollbackCredentialCreate, SetStatus, SetOperation, Begin, NewEffect,
                       Mark, Held, HeldPhases
<1> QED
  BY <1>2, <1>3, <1>4, <1>5, <1>6, <1>7, <1>8, <1>9, <1>10, <1>11 DEF Create

LEMMA OwnedAtCarry ==
  ASSUME TypeOK, CapacityInv, OwnerInv, NEW p \in Processes, NEW s \in Sandboxes,
         Carry(p, s)
  PROVE  OwnedAt(s)
<1>0. OwnerAt(s) /\ EffectShape(s) /\ OwnerShape(p, s) /\ AbsentShape(s)
  BY DEF OwnerInv, CapacityInv, RowInv, WorkInv
<1>1. pc[p] \in Carrying /\ job[p].sandbox = s /\ Owns(p) =>
        ~Settled(s) /\ effect[s].generation = generation[s]
  BY OwnerIsUnsettled
<1> USE <1>0 DEF OwnedAt, Untouched, AliveSame, OwnerAt, TypeOK, LedgerType, EffectsType,
                 SandboxType, Operation, Settled
<1>2. CASE Dispatch(p, s) \/ LoseDispatchReply(p, s)
  <2>1. ~Settled(s)
    BY <1>1, <1>2 DEF Dispatch, LoseDispatchReply, At, Carrying, Driving
  <2>2. MarkDispatched(s) /\ UNCHANGED <<status, identity, phase, operation>>
    BY <1>2 DEF Dispatch, LoseDispatchReply, sandbox, ledger
  <2>3. effect'[s].kind = effect[s].kind
    BY <2>2 DEF MarkDispatched, Effect
  <2>4. creates'[s] = creates[s] \/ effect[s].kind = "provision"
    BY <2>2 DEF MarkDispatched
  <2>5. OwnerAt(s)'
    BY <1>0, <2>1, <2>2, <2>3, <2>4, KindKept DEF Held
  <2>6. \A t \in Sandboxes \ {s} : effect'[t] = effect[t] /\ creates'[t] = creates[t]
    BY <2>2 DEF MarkDispatched
  <2> QED
    BY <2>2, <2>5, <2>6 DEF OwnedAt, Untouched, AliveSame
<1>3. CASE TimeOut(p, s) \/ AwaitState(p, s) \/ Fenced(p, s)
  BY <1>3 DEF TimeOut, AwaitState, Fenced, database, sandbox, ledger, effects, Held
<1>4. CASE Acknowledge(p, s)
  <2>1. ~Settled(s)
    BY <1>1, <1>4 DEF Acknowledge, At, Carrying, Driving
  <2>2. UNCHANGED <<status, identity, phase, operation, creates>>
        /\ effect'[s].kind = effect[s].kind
        /\ \A t \in Sandboxes \ {s} : effect'[t] = effect[t]
    BY <1>4 DEF Acknowledge, sandbox, ledger, Effect
  <2>3. OwnerAt(s)'
    BY <1>0, <2>1, <2>2, KindKept DEF Held
  <2> QED
    BY <2>2, <2>3 DEF OwnedAt, Untouched, AliveSame
<1>5. CASE MarkUncertain(p, s)
  <2>1. /\ UNCHANGED <<status, identity, operation, creates>>
        /\ Held(s)' <=> Held(s)
        /\ effect'[s].kind = effect[s].kind
        /\ \A t \in Sandboxes \ {s} : effect'[t] = effect[t] /\ phase'[t] = phase[t]
    BY <1>5 DEF MarkUncertain, sandbox, Effect, Held, HeldPhases
  <2>2. CASE Owns(p)
    <3>1. ~Settled(s)
      BY <1>1, <1>5, <2>2 DEF MarkUncertain, At, Carrying, Driving
    <3>2. OwnerAt(s)'
      BY <1>0, <2>1, <3>1, KindKept
    <3> QED
      BY <2>1, <3>2 DEF OwnedAt, Untouched, AliveSame
  <2>3. CASE ~Owns(p)
    BY <1>5, <2>1, <2>3 DEF MarkUncertain, Held
  <2> QED
    BY <2>2, <2>3
<1>6. CASE FinishLifecycle(p, s) \/ FinishDeletion(p, s)
  <2>1. identity[s] # 0 /\ effect[s].kind # "prepare"
    BY <1>1, <1>6 DEF FinishLifecycle, FinishDeletion, OwnerShape, OwnsAt, Owns, At,
                      Carrying, EffectShape
  <2>2. operation[s].state # "none" /\ operation[s].state # "canceled"
    BY <1>1, <1>6 DEF FinishLifecycle, FinishDeletion, At, Carrying, AbsentShape, Settled
  <2>3. CASE FinishLifecycle(p, s)
    BY <2>1, <2>2, <2>3 DEF FinishLifecycle, Settle, NoEffect, SetStatus, Release, Mark
  <2>4. CASE FinishDeletion(p, s)
    BY <2>1, <2>2, <2>4 DEF FinishDeletion, Settle, NoEffect, SetStatus, Release
  <2> QED
    BY <1>6, <2>3, <2>4
<1> QED
  BY <1>2, <1>3, <1>4, <1>5, <1>6 DEF Carry

LEMMA OwnedAtWork ==
  ASSUME StaleReconcileFails = FALSE, TypeOK, CapacityInv, OwnerInv, NEW p \in Processes,
         NEW s \in Sandboxes, Work(p, s)
  PROVE  OwnedAt(s)
<1>0. OwnerAt(s) /\ EffectShape(s)
  BY DEF OwnerInv, CapacityInv, RowInv
<1> USE <1>0 DEF OwnedAt, Untouched, AliveSame, OwnerAt, TypeOK, LedgerType, EffectsType,
                 SandboxType, Operation, Settled
<1>1. CASE ClaimNext(p, s)
  BY <1>1 DEF ClaimNext, Claim, Unsettled, sandbox, ledger, effects, Held
<1>2. CASE ClaimStale(p, s)
  BY <1>2 DEF ClaimStale, database, sandbox, ledger, effects, Held
<1>3. CASE ReconcileStale(p, s)
  BY <1>3 DEF ReconcileStale, Completable, Settled, NoEffect, sandbox, ledger, effects, Held
<1> QED
  BY <1>1, <1>2, <1>3 DEF Work, ReconcileStaleError

LEMMA OwnedAtReconcile ==
  ASSUME TypeOK, CapacityInv, OwnerInv, NEW p \in Processes, NEW s \in Sandboxes,
         Reconcile(p, s)
  PROVE  OwnedAt(s)
<1>0. OwnerAt(s) /\ EffectShape(s) /\ RuntimeShape(s) /\ OwnerShape(p, s) /\ AbsentShape(s)
  BY DEF OwnerInv, CapacityInv, RowInv, WorkInv
<1>1. pc[p] \in Carrying /\ job[p].sandbox = s /\ Owns(p) =>
        ~Settled(s) /\ effect[s].generation = generation[s]
  BY OwnerIsUnsettled
<1> USE <1>0 DEF OwnedAt, Untouched, AliveSame, OwnerAt, TypeOK, LedgerType, EffectsType,
                 SandboxType, Operation, Settled
<1>2. CASE CancelUndispatched(s)
  <2>1. /\ effect[s].generation = generation[s] /\ ~Settled(s)
        /\ effect[s].kind \in {"pause", "resume", "delete"} => identity[s] # 0
        /\ effect[s].kind # "delete" => Held(s)
    BY <1>2 DEF CancelUndispatched, EffectShape, Effect, EffectKinds
  <2>2. operation[s].state # "none" \/ effect[s].kind = "delete"
    BY <2>1
  <2>3. operation[s].state # "canceled"
    BY <2>1
  <2> QED
    BY <1>2, <2>1, <2>2, <2>3 DEF CancelUndispatched, Settle, NoEffect, SetStatus, SetOperation, Release,
                      Mark, Held, HeldPhases
<1>3. CASE ReconcileAbandoned(s)
  BY <1>3 DEF ReconcileAbandoned, CancelBeforeDispatch, SetStatus, Settle, NoEffect, Release,
              Held, HeldPhases
<1>4. CASE \/ ObserveEffect(p, s) \/ FindRuntime(p, s) \/ GetRuntime(p, s)
           \/ ObserveLease(p, s) \/ LeaseFenced(p, s)
  BY <1>4 DEF ObserveEffect, FindRuntime, GetRuntime, ObserveLease, LeaseFenced, database,
              sandbox, ledger, effects, Held
<1>5. CASE RecoverAcknowledge(p, s)
  <2>1. ~Settled(s)
    BY <1>1, <1>5 DEF RecoverAcknowledge, At, Carrying
  <2>2. UNCHANGED <<status, identity, phase, operation, creates>>
        /\ effect'[s].kind = effect[s].kind
        /\ \A t \in Sandboxes \ {s} : effect'[t] = effect[t]
    BY <1>5 DEF RecoverAcknowledge, sandbox, ledger, Effect
  <2>3. OwnerAt(s)'
    BY <1>0, <2>1, <2>2, KindKept DEF Held
  <2> QED
    BY <2>2, <2>3 DEF OwnedAt, Untouched, AliveSame
<1>6. CASE RecoverAbsent(p, s)
  <2>1. effect[s].kind = "provision" /\ effect[s].generation = generation[s]
    BY <1>1, <1>6 DEF RecoverAbsent, OwnerShape, OwnsAt, Owns, At, Carrying
  <2>2. Held(s)
    BY <2>1 DEF EffectShape
  <2> QED
    <3>1. CASE UNCHANGED <<effects, status, ledger, operation>>
      BY <1>6, <3>1 DEF RecoverAbsent, effects, ledger, Held
    <3>2. CASE Settle(s) /\ SetStatus(s, "terminated") /\ SetOperation(s, "failed")
               /\ Release(s, effect[s].generation, "provider_absent")
      BY <1>6, <2>1, <2>2, <3>2 DEF RecoverAbsent, SetOperation, Settle, NoEffect, SetStatus,
                                    Release, Held, HeldPhases
    <3> QED
      BY <1>6, <3>1, <3>2 DEF RecoverAbsent
<1>7. CASE RecoverRuntime(p, s)
  <2>1. effect[s].kind = "provision" /\ job[p].runtime # 0 /\ Held(s)
    BY <1>1, <1>7 DEF RecoverRuntime, OwnerShape, OwnsAt, Owns, At, Carrying, EffectShape
  <2> QED
    BY <1>7, <2>1 DEF RecoverRuntime, SetOperation, SetStatus, Settle, Begin, NewEffect, NoEffect,
                      Mark, sandbox, ledger, effects, Held, HeldPhases
<1>8. CASE LeaseAbsent(p, s)
  BY <1>8 DEF LeaseAbsent, Unfenced, Settled, NoEffect, SetStatus, Release, effects, Held, HeldPhases
<1>9. CASE LeaseUnknown(p, s)
  BY <1>9 DEF LeaseUnknown, Unfenced, Mark, sandbox, effects, Held, HeldPhases
<1>10. CASE LeaseObserved(p, s)
  <2>1. identity[s] # 0 /\ Held(s)
    BY <1>10 DEF LeaseObserved, Unfenced, At, ProcessType, Carries, EffectIds
  <2>2. operation[s].state # "none" /\ operation[s].state # "canceled"
    BY <2>1
  <2> QED
    BY <1>10, <2>1, <2>2 DEF LeaseObserved, SetStatus, Release, Mark, Begin, NewEffect, effects, Held
<1> QED
  BY <1>2, <1>3, <1>4, <1>5, <1>6, <1>7, <1>8, <1>9, <1>10 DEF Reconcile

LEMMA OwnerStep ==
  ASSUME StaleReconcileFails = FALSE, TypeOK, CapacityInv, OwnerInv, [Next]_vars
  PROVE  OwnerInv'
<1>1. ASSUME NEW p \in Processes, NEW s \in Sandboxes,
             Request(p, s) \/ Create(p, s) \/ Carry(p, s) \/ Work(p, s) \/ Reconcile(p, s)
      PROVE  OwnerInv'
  BY <1>1, OwnedAtRequest, OwnedAtCreate, OwnedAtCarry, OwnedAtWork, OwnedAtReconcile, AllOwned
<1>2. CASE UNCHANGED <<status, identity, phase, effect, creates, operation>>
  BY <1>2, NobodyTouched DEF Untouched, AliveSame
<1>3. CASE Provider \/ UNCHANGED vars
  BY <1>2, <1>3 DEF Provider, Perform, Refuse, RuntimeSettles, RuntimeEnds, vars, database,
                    sandbox, ledger, effects
<1>4. ASSUME NEW n \in Limits, SetLimit(n) PROVE OwnerInv'
  BY <1>2, <1>4 DEF SetLimit, sandbox, ledger, effects
<1>5. ASSUME NEW p \in Processes, Crash(p) PROVE OwnerInv'
  BY <1>2, <1>5 DEF Crash, database, sandbox, ledger, effects
<1> QED
  BY <1>1, <1>3, <1>4, <1>5 DEF Next

\* A reservation between effects without a runtime belongs to a create of which
\* no request was ever dispatched, so that replaying, failing or stopping it
\* loses no runtime, whatever the provider's capabilities.
THEOREM WaitingCreatesAreUndispatched ==
  ASSUME StaleReconcileFails = FALSE PROVE Spec => []WaitingCreateIsUndispatched
<1>1. Init => OwnerInv
  BY DEF Init, OwnerInv, OwnerAt, Held, HeldPhases, NoEffect
<1>2. TypeOK /\ CapacityInv /\ OwnerInv /\ [Next]_vars => OwnerInv'
  BY OwnerStep
<1>3. TypeOK /\ OwnerInv => WaitingCreateIsUndispatched
  BY DEF TypeOK, Operation, OwnerInv, OwnerAt, Settled, NoEffect, WaitingCreateIsUndispatched
<1> QED
  BY <1>1, <1>2, <1>3, TypeCorrect, CapacityInvariant, PTL DEF Spec
=============================================================================
