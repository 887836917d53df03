-------------------------- MODULE PersistentWorkspaces -------------------------
(***************************************************************************)
(* Retained storage that one sandbox at a time may mount.  The INSERT of a *)
(* sandbox reserves the workspace in a trigger; the worker that provisions *)
(* the sandbox marks its one attachment attempt and then asks the provider *)
(* for a runtime with the volume; the scheduler sweeps the rows that were  *)
(* written longest ago, and gives a workspace back after a look at the     *)
(* provider made outside any lock.  The life of the sandbox is the one of  *)
(* SandboxCapacity, reduced to what decides about the mount.               *)
(***************************************************************************)
EXTENDS Naturals, FiniteSets

CONSTANTS Sandbox, Workspace, Worker,
          Nobody,              \* no sandbox, no workspace, no worker
          MaxPerOrganization,  \* workspaces an organization may allocate
          ScanLimit            \* rows a sweep reads: 100

NobodyIsNobody == Nobody \notin Sandbox \cup Workspace \cup Worker
QuotaIsPositive == MaxPerOrganization \in Nat \ {0} /\ ScanLimit \in Nat \ {0}

VARIABLES
    workspace,   \* persistent_workspaces
    older,       \* updated_at of the attached ones: who was written before whom
    box,         \* sandboxes, with the provision operation and the open effect
    runtime,     \* the runtime of each sandbox at the provider
    createIfMissing, \* what the create request of each sandbox asked for
    volume,      \* the provider's volume of each workspace
    worker,      \* a worker between two steps of a provision
    sweep        \* the rows reconcileWorkspaces has read and not yet decided

workspaceVars == <<workspace, older, box, runtime, createIfMissing, volume, worker, sweep>>
provider == <<runtime, createIfMissing, volume>>
scheduler == <<older, sweep>>

NoBox == [status |-> "none", wants |-> Nobody, known |-> FALSE, secret |-> FALSE,
          operation |-> "none", effect |-> "none", owner |-> Nobody]
IdleWorker == [at |-> "idle", for |-> Nobody, fresh |-> FALSE]

Retained == [allocated : BOOLEAN, attached : Sandbox \cup {Nobody},
             provisioned : BOOLEAN, attempted : BOOLEAN, archived : BOOLEAN]
Box == [status : {"none", "pending", "running", "error", "terminated"},
        wants : Workspace \cup {Nobody}, known : BOOLEAN, secret : BOOLEAN,
        operation : {"none", "queued", "running", "succeeded", "failed", "canceled"},
        effect : {"none", "prepare", "intent", "sent", "acknowledged", "delete"},
        owner : Worker \cup {Nobody}]
Place == [at : {"idle", "begin", "select", "attempt", "dispatch", "answer", "persist", "abort"},
          for : Sandbox \cup {Nobody}, fresh : BOOLEAN]
\* A row of a sweep: its place in the order, and whether its sandbox is known
\* to have no runtime.
Row == [workspace : Workspace, for : Sandbox, place : Nat, absent : BOOLEAN]

TypeOK ==
    /\ workspace \in [Workspace -> Retained]
    /\ older \in SUBSET (Workspace \X Workspace)
    /\ box \in [Sandbox -> Box]
    /\ runtime \in [Sandbox -> {"none", "requested", "live", "gone"}]
    /\ createIfMissing \in [Sandbox -> BOOLEAN]
    /\ volume \in [Workspace -> {"none", "present", "lost"}]
    /\ worker \in [Worker -> Place]
    /\ sweep \in SUBSET Row

Init ==
    /\ workspace = [w \in Workspace |-> [allocated |-> FALSE, attached |-> Nobody,
                                         provisioned |-> FALSE, attempted |-> FALSE, archived |-> FALSE]]
    /\ box = [s \in Sandbox |-> NoBox]
    /\ runtime = [s \in Sandbox |-> "none"]
    /\ createIfMissing = [s \in Sandbox |-> FALSE]
    /\ volume = [w \in Workspace |-> "none"]
    /\ worker = [p \in Worker |-> IdleWorker]
    /\ older = {} /\ sweep = {}
--------------------------------------------------------------------------------
(* The workspace itself *)

\* Slots are never given back, so the lowest free slot is the number of rows.
CreateWorkspace(w) ==
    /\ ~workspace[w].allocated
    /\ Cardinality({v \in Workspace : workspace[v].allocated}) < MaxPerOrganization
    /\ workspace' = [workspace EXCEPT ![w].allocated = TRUE]
    /\ UNCHANGED <<box, provider, worker, scheduler>>

ArchiveWorkspace(w) ==
    /\ workspace[w].allocated /\ workspace[w].attached = Nobody
    /\ workspace' = [workspace EXCEPT ![w].archived = TRUE]
    /\ UNCHANGED <<box, provider, worker, scheduler>>

\* updated_at = now(): the row goes behind every other one.
Touch(w) == older' = {e \in older : w \notin {e[1], e[2]}} \cup {<<v, w>> : v \in Workspace \ {w}}

\* Every transaction that ends a sandbox before its dispatch gives the workspace
\* back, unless an attachment was attempted.
ReleaseUnattempted(s) ==
    workspace' = [w \in Workspace |->
        IF workspace[w].attached = s /\ ~workspace[w].attempted
        THEN [workspace[w] EXCEPT !.attached = Nobody] ELSE workspace[w]]
--------------------------------------------------------------------------------
(* Admission and provisioning *)

Admit(s, w) ==
    /\ box[s].status = "none"
    /\ workspace[w].allocated /\ ~workspace[w].archived /\ workspace[w].attached = Nobody
    /\ workspace' = [workspace EXCEPT ![w] = [@ EXCEPT !.attached = s, !.attempted = FALSE]]
    /\ Touch(w)
    /\ \E secret \in BOOLEAN :
          box' = [box EXCEPT ![s] = [NoBox EXCEPT !.status = "pending", !.wants = w,
                      !.secret = secret, !.operation = "queued", !.effect = "prepare"]]
    /\ UNCHANGED <<provider, worker, sweep>>

FinishPreparation(s) ==
    /\ box[s].effect = "prepare"
    /\ box' = [box EXCEPT ![s].effect = "none"]
    /\ UNCHANGED <<workspace, provider, worker, scheduler>>

AbandonPreparation(s) ==
    /\ box[s].effect = "prepare"
    /\ box' = [box EXCEPT ![s] = [@ EXCEPT !.effect = "none", !.status = "error", !.operation = "failed"]]
    /\ ReleaseUnattempted(s)
    /\ UNCHANGED <<provider, worker, scheduler>>

Advance(p, at) == worker' = [worker EXCEPT ![p].at = at]
Idle(p) == worker' = [worker EXCEPT ![p] = IdleWorker]
Wanted(p) == box[worker[p].for].wants
Driving(p) == LET b == box[worker[p].for] IN b.effect = "intent" /\ b.owner = p

\* The attempt of the claim is its number in the code, its owner here.
ClaimProvision(p, s) ==
    /\ worker[p].at = "idle"
    /\ box[s].operation = "queued" /\ box[s].effect = "none"
    /\ box' = [box EXCEPT ![s] = [@ EXCEPT !.operation = "running", !.owner = p]]
    /\ worker' = [worker EXCEPT ![p] = [IdleWorker EXCEPT !.at = "begin", !.for = s]]
    /\ UNCHANGED <<workspace, provider, scheduler>>

Claimed(p) == LET b == box[worker[p].for] IN b.operation = "running" /\ b.owner = p
BeginProvision(p) ==
    /\ worker[p].at = "begin" /\ Claimed(p) /\ box[worker[p].for].effect = "none"
    /\ box' = [box EXCEPT ![worker[p].for].effect = "intent"]
    /\ Advance(p, "select")
    /\ UNCHANGED <<workspace, provider, scheduler>>

\* prepareRuntimeWorkspace reads the row ...
SelectWorkspace(p) ==
    /\ worker[p].at = "select"
    /\ IF workspace[Wanted(p)].attached = worker[p].for
       THEN worker' = [worker EXCEPT ![p] = [@ EXCEPT !.at = "attempt", !.fresh = ~workspace[Wanted(p)].provisioned]]
       ELSE Advance(p, "abort")
    /\ UNCHANGED <<workspace, box, provider, scheduler>>

\* ... and marks the attempt in an update of its own.
MarkAttemptByAttachment(p) ==
    /\ worker[p].at = "attempt"
    /\ LET w == Wanted(p) IN
       IF workspace[w].attached = worker[p].for /\ ~workspace[w].attempted
       THEN /\ workspace' = [workspace EXCEPT ![w] = [@ EXCEPT !.provisioned = TRUE, !.attempted = TRUE]]
            /\ worker' = [worker EXCEPT ![p] = [@ EXCEPT !.at = "dispatch", !.fresh = TRUE]]
            /\ Touch(w)
       ELSE Advance(p, "abort") /\ UNCHANGED <<workspace, older>>
    /\ UNCHANGED <<box, provider, sweep>>

MarkAttempt(p) ==
    /\ worker[p].at = "attempt"
    /\ LET w == Wanted(p) IN
       IF workspace[w].attached = worker[p].for /\ ~workspace[w].attempted
       THEN /\ workspace' = [workspace EXCEPT ![w] = [@ EXCEPT !.provisioned = TRUE, !.attempted = TRUE]]
            /\ Touch(w) /\ Advance(p, "dispatch")
       ELSE Advance(p, "abort") /\ UNCHANGED <<workspace, older>>
    /\ UNCHANGED <<box, provider, sweep>>

\* A refusal before the dispatch settles the effect; the sandbox stays pending.
\* A claim that was taken over begins nothing and fails nothing.
AbortProvision(p) ==
    /\ worker[p].at \in {"begin", "select", "attempt", "dispatch", "abort"}
    /\ Idle(p)
    /\ box' = IF Driving(p) \/ (worker[p].at = "begin" /\ Claimed(p))
              THEN [box EXCEPT ![worker[p].for] = [@ EXCEPT !.effect = "none", !.operation = "failed"]]
              ELSE box
    /\ UNCHANGED <<workspace, provider, scheduler>>

Dispatch(p) ==
    /\ worker[p].at = "dispatch" /\ Driving(p)
    /\ LET s == worker[p].for IN
       /\ box' = [box EXCEPT ![s].effect = "sent"]
       /\ runtime' = [runtime EXCEPT ![s] = "requested"]
       /\ createIfMissing' = [createIfMissing EXCEPT ![s] = worker[p].fresh]
    /\ Advance(p, "answer")
    /\ UNCHANGED <<workspace, volume, scheduler>>

Acknowledge(p) ==
    /\ worker[p].at = "answer" /\ runtime[worker[p].for] \in {"live", "gone"}
    /\ LET s == worker[p].for IN
       IF box[s].effect = "sent" /\ box[s].owner = p
       THEN box' = [box EXCEPT ![s].effect = "acknowledged"] /\ Advance(p, "persist")
       ELSE UNCHANGED box /\ Idle(p)
    /\ UNCHANGED <<workspace, provider, scheduler>>

\* The identity and the completion; credentials that cannot be attached end in
\* a rollback: error, with a deletion of the runtime.
PersistIdentity(p) ==
    /\ worker[p].at = "persist"
    /\ LET s == worker[p].for
           done == [box[s] EXCEPT !.known = TRUE, !.status = "running",
                                  !.operation = "succeeded", !.effect = "none"]
           rolledBack == [done EXCEPT !.status = "error", !.operation = "failed", !.effect = "delete"]
       IN IF box[s].effect = "acknowledged" /\ box[s].owner = p
          THEN \E b \in {done} \cup (IF box[s].secret THEN {rolledBack} ELSE {}) : box' = [box EXCEPT ![s] = b]
          ELSE UNCHANGED box
    /\ Idle(p)
    /\ UNCHANGED <<workspace, provider, scheduler>>

Crash(p) ==
    /\ worker[p].at # "idle"
    /\ Idle(p)
    /\ UNCHANGED <<workspace, box, provider, scheduler>>
--------------------------------------------------------------------------------
(* Recovery and the end of a sandbox *)

Terminate(s, operation) ==
    box' = [box EXCEPT ![s] = [@ EXCEPT !.status = "terminated", !.operation = operation, !.effect = "none"]]

\* A stop by the user ...
StopPending(s) ==
    /\ box[s].effect \in {"none", "prepare", "intent"} /\ box[s].operation \in {"queued", "running"}
    /\ Terminate(s, "canceled")
\* ... and the scheduler's cancellation of an effect whose process is gone or slow.
CancelUndispatched(s) == box[s].effect \in {"prepare", "intent"} /\ Terminate(s, "failed")

CancelBeforeDispatch(s) ==
    /\ box[s].status = "pending" /\ ~box[s].known
    /\ StopPending(s) \/ CancelUndispatched(s)
    /\ ReleaseUnattempted(s)
    /\ UNCHANGED <<provider, worker, scheduler>>

\* A claim whose worker died, or is slow, before it began.
ReconcileStale(s) ==
    /\ box[s].operation = "running" /\ box[s].effect = "none"
    /\ box' = [box EXCEPT ![s].operation =
                  IF ~box[s].secret /\ ~box[s].known /\ runtime[s] = "none" THEN "queued" ELSE "failed"]
    /\ UNCHANGED <<workspace, provider, worker, scheduler>>

\* recoverProvision found the runtime, or found that an acknowledged one is gone.
RecoverProvision(s) ==
    /\ box[s].effect \in {"sent", "acknowledged"}
    /\ \/ /\ runtime[s] = "live"
          /\ box' = [box EXCEPT ![s] = IF box[s].secret
                THEN [@ EXCEPT !.known = TRUE, !.status = "error", !.operation = "failed", !.effect = "delete"]
                ELSE [@ EXCEPT !.known = TRUE, !.status = "running", !.operation = "succeeded", !.effect = "none"]]
       \/ runtime[s] = "gone" /\ box[s].effect = "acknowledged" /\ Terminate(s, "failed")
    /\ UNCHANGED <<workspace, provider, worker, scheduler>>

BeginDelete(s) ==
    /\ box[s].status \in {"running", "error"} /\ box[s].known /\ box[s].effect = "none"
    /\ box' = [box EXCEPT ![s].effect = "delete"]
    /\ UNCHANGED <<workspace, provider, worker, scheduler>>

\* A deletion ends when the runtime is seen to be absent, or is cancelled
\* before its dispatch.
EndDelete(s) ==
    /\ box[s].effect = "delete"
    /\ \/ runtime[s] = "gone" /\ Terminate(s, box[s].operation)
       \/ box' = [box EXCEPT ![s].effect = "none"]
    /\ UNCHANGED <<workspace, provider, worker, scheduler>>

ReconcileLease(s) ==
    /\ box[s].known /\ box[s].effect = "none" /\ box[s].status \in {"running", "error"}
    /\ IF runtime[s] = "gone" THEN Terminate(s, box[s].operation)
       ELSE box' = [box EXCEPT ![s].status = "running"]
    /\ UNCHANGED <<workspace, provider, worker, scheduler>>
--------------------------------------------------------------------------------
(* reconcileWorkspaces: read, look at the provider, detach *)

Due(w) ==
    LET s == workspace[w].attached IN
    s # Nobody /\ box[s].status \in {"terminated", "error"} /\ box[s].operation \notin {"queued", "running"}
InFront(w) == {v \in Workspace : Due(v) /\ <<v, w>> \in older}

\* A row without a known runtime is decided by its attempt: one that was
\* attempted takes a place of the scan and is skipped.
SweepRead ==
    /\ sweep = {}
    /\ sweep' = {[workspace |-> w, for |-> workspace[w].attached, place |-> Cardinality(InFront(w)),
                  absent |-> ~box[workspace[w].attached].known] :
                 w \in {v \in Workspace : /\ Due(v) /\ Cardinality(InFront(v)) < ScanLimit
                                          /\ box[workspace[v].attached].known \/ ~workspace[v].attempted}}
    /\ UNCHANGED <<workspace, older, box, provider, worker>>

Turn(r) == r \in sweep /\ \A q \in sweep : r.place <= q.place

SweepGetTrusting(r) ==
    /\ Turn(r) /\ ~r.absent
    /\ sweep' = (sweep \ {r}) \cup {[r EXCEPT !.absent = TRUE]}
    /\ UNCHANGED <<workspace, older, box, provider, worker>>

\* A runtime that is there, or not known to be gone, is left for a later sweep.
SweepGet(r) ==
    /\ Turn(r) /\ ~r.absent
    /\ sweep' = (sweep \ {r}) \cup (IF runtime[r.for] = "gone" THEN {[r EXCEPT !.absent = TRUE]} ELSE {})
    /\ UNCHANGED <<workspace, older, box, provider, worker>>

\* A call that throws ends the sweep: the rows behind it are not looked at.
SweepFails ==
    /\ \E r \in sweep : Turn(r) /\ ~r.absent
    /\ sweep' = {}
    /\ UNCHANGED <<workspace, older, box, provider, worker>>

SweepDetachKeeping(r) ==
    /\ Turn(r) /\ r.absent
    /\ workspace' = IF workspace[r.workspace].attached = r.for
                    THEN [workspace EXCEPT ![r.workspace].attempted = FALSE] ELSE workspace
    /\ sweep' = sweep \ {r}
    /\ UNCHANGED <<older, box, provider, worker>>

SweepDetach(r) ==
    /\ Turn(r) /\ r.absent
    /\ workspace' = IF workspace[r.workspace].attached = r.for
                    THEN [workspace EXCEPT ![r.workspace].attached = Nobody] ELSE workspace
    /\ sweep' = sweep \ {r}
    /\ UNCHANGED <<older, box, provider, worker>>
--------------------------------------------------------------------------------
(* The provider *)

\* Without createIfMissing a create whose volume is missing fails.
PerformCreate(s) ==
    /\ runtime[s] = "requested"
    /\ LET w == box[s].wants IN
       \/ /\ volume[w] = "present" \/ createIfMissing[s]
          /\ runtime' = [runtime EXCEPT ![s] = "live"]
          /\ volume' = [volume EXCEPT ![w] = "present"]
       \/ runtime' = [runtime EXCEPT ![s] = "none"] /\ UNCHANGED volume
    /\ UNCHANGED <<workspace, box, createIfMissing, worker, scheduler>>

RuntimeEnds(s) ==
    /\ runtime[s] = "live"
    /\ runtime' = [runtime EXCEPT ![s] = "gone"]
    /\ UNCHANGED <<workspace, box, createIfMissing, volume, worker, scheduler>>

VolumeLost(w) ==
    /\ volume[w] = "present"
    /\ \A s \in Sandbox : box[s].wants = w => runtime[s] # "live"
    /\ volume' = [volume EXCEPT ![w] = "lost"]
    /\ UNCHANGED <<workspace, box, runtime, createIfMissing, worker, scheduler>>

Next ==
    \/ \E w \in Workspace : CreateWorkspace(w) \/ ArchiveWorkspace(w) \/ VolumeLost(w)
    \/ \E s \in Sandbox :
          \/ \E w \in Workspace : Admit(s, w)
          \/ \E p \in Worker : ClaimProvision(p, s)
          \/ FinishPreparation(s) \/ AbandonPreparation(s) \/ CancelBeforeDispatch(s) \/ ReconcileStale(s)
          \/ RecoverProvision(s) \/ BeginDelete(s) \/ EndDelete(s) \/ ReconcileLease(s)
          \/ PerformCreate(s) \/ RuntimeEnds(s)
    \/ \E p \in Worker :
          \/ BeginProvision(p) \/ SelectWorkspace(p) \/ MarkAttempt(p) \/ AbortProvision(p) \/ Dispatch(p)
          \/ Acknowledge(p) \/ PersistIdentity(p) \/ Crash(p)
    \/ SweepRead \/ SweepFails
    \/ \E r \in sweep : SweepGet(r) \/ SweepDetach(r)

\* The scheduler ticks for ever, and the provider answers about every sandbox
\* sooner or later.
Sweeps == SweepRead \/ \E r \in sweep : SweepDetach(r)
Answers(w) == \E r \in sweep : r.workspace = w /\ SweepGet(r)

Spec == Init /\ [][Next]_workspaceVars
FairSpec == Spec /\ WF_workspaceVars(Sweeps) /\ \A w \in Workspace : SF_workspaceVars(Answers(w))
--------------------------------------------------------------------------------
(* Properties *)

\* A runtime that has the volume mounted, or a create request that may still
\* mount it, belongs to the sandbox that holds the reservation: whoever the
\* workspace is given to next, and however late the provider acts, two
\* runtimes never share the volume.
ExclusiveMount ==
    /\ \A s \in Sandbox : runtime[s] \in {"requested", "live"} => workspace[box[s].wants].attached = s
    /\ \A w \in Workspace : workspace[w].archived => workspace[w].attached = Nobody

\* Storage that was lost is never replaced by an empty volume behind the user's
\* back: only one request in the life of a workspace may create it.
LostStorageStaysLost ==
    [][\A w \in Workspace : volume[w] = "lost" => volume'[w] = "lost"]_workspaceVars

\* Rows that nobody can decide stay in front of the scan: those of a failed
\* sandbox whose runtime is still there, and those that were attempted without a
\* runtime to ask for.
Undecidable(w) ==
    LET s == workspace[w].attached IN
    IF box[s].known THEN runtime[s] # "gone" ELSE workspace[w].attempted
Starved(w) == Cardinality({v \in InFront(w) : Undecidable(v)}) >= ScanLimit

Waiting(w) ==
    LET s == workspace[w].attached IN s # Nobody /\ box[s].status = "terminated" /\ box[s].known
\* The workspace of a terminated sandbox whose runtime was known comes back,
\* unless undecidable rows take every place of the scan.  (One that was attempted
\* and has no known runtime waits for an operator.)
ReleasedAfterTermination ==
    \A w \in Workspace : Waiting(w) ~> (workspace[w].attached = Nobody \/ Starved(w))
================================================================================
