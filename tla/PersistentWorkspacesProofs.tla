------------------------ MODULE PersistentWorkspacesProofs ------------------------
(***************************************************************************)
(* Workspaces, the sandboxes that mount them and the workers and scheduler *)
(* between, for any number of each.                                        *)
(***************************************************************************)
EXTENDS PersistentWorkspaces, TLAPS

(* Until its create is dispatched a sandbox is pending and has no runtime, *)
(* and after it has ended or run it is never provisioned again.            *)
Undispatched == {"none", "prepare", "intent"}
Life(s) ==
    LET b == box[s] IN
    /\ b.status = "none" => b.effect = "none" /\ b.operation = "none" /\ ~b.known /\ b.wants = Nobody /\ runtime[s] = "none"
    /\ b.effect = "delete" => b.known
    /\ b.status # "none" => b.wants \in Workspace
    /\ b.effect \in {"prepare", "intent", "sent", "acknowledged"} => b.status = "pending"
    /\ b.status = "pending" => ~b.known
    /\ b.status = "pending" /\ b.effect \in Undispatched => runtime[s] = "none"
    /\ b.operation \in {"queued", "running"} => b.status = "pending"
    /\ b.effect = "intent" => b.operation = "running"

(* What holds of a workspace: its holder wanted it, and a volume was made   *)
(* by the one attempt that was marked before.                              *)
Reserved(w) ==
    LET k == workspace[w] IN
    /\ k.attached # Nobody => box[k.attached].wants = w
    /\ k.archived => k.attached = Nobody
    /\ k.attempted => k.provisioned
    /\ ~k.provisioned => volume[w] = "none"

(* A runtime that has the volume mounted or may still mount it.            *)
Mounting(s) ==
    runtime[s] \in {"requested", "live"} =>
      /\ workspace[box[s].wants].attached = s /\ workspace[box[s].wants].attempted
      /\ runtime[s] = "requested" /\ createIfMissing[s] => volume[box[s].wants] = "none"

(* A worker about to ask for the runtime holds the reservation, and asks   *)
(* for a volume only if there never was one.                               *)
Preparing(p) ==
    LET s == worker[p].for
        w == Wanted(p) IN
    /\ worker[p].at # "idle" => s \in Sandbox /\ box[s].status # "none"
    /\ worker[p].at = "begin" /\ Claimed(p) => box[s].effect = "none"
    /\ worker[p].at = "attempt" /\ worker[p].fresh /\ workspace[w].attached = s /\ ~workspace[w].attempted =>
         ~workspace[w].provisioned
    /\ worker[p].at = "dispatch" /\ Driving(p) =>
         /\ workspace[w].attached = s /\ workspace[w].attempted
         /\ worker[p].fresh => volume[w] = "none"

(* The scheduler detaches only what has stopped for good.                  *)
Sweeping ==
    \A r \in sweep :
      /\ r.workspace \in Workspace /\ r.for \in Sandbox
      /\ box[r.for].status \notin {"none", "pending"}
      /\ r.absent => runtime[r.for] \in {"none", "gone"}

(* The types of what the proofs read: the places of a scan are numbers only  *)
(* if the workspaces are finitely many, and nothing here depends on them.    *)
Typed ==
    /\ workspace \in [Workspace -> Retained]
    /\ box \in [Sandbox -> Box]
    /\ runtime \in [Sandbox -> {"none", "requested", "live", "gone"}]
    /\ createIfMissing \in [Sandbox -> BOOLEAN]
    /\ volume \in [Workspace -> {"none", "present", "lost"}]
    /\ worker \in [Worker -> Place]

MountInv ==
    /\ Typed
    /\ \A s \in Sandbox : Life(s) /\ Mounting(s)
    /\ \A w \in Workspace : Reserved(w)
    /\ \A p \in Worker : Preparing(p)
    /\ Sweeping

(* What a type says of the fields the proofs read. *)
LEMMA Fields ==
  ASSUME Typed
  PROVE  /\ \A s \in Sandbox : /\ box[s].known \in BOOLEAN /\ box[s].wants \in Workspace \cup {Nobody}
                              /\ runtime[s] \in {"none", "requested", "live", "gone"}
         /\ \A w \in Workspace : /\ workspace[w].attached \in Sandbox \cup {Nobody} /\ workspace[w].archived \in BOOLEAN
                                /\ workspace[w].provisioned \in BOOLEAN /\ workspace[w].attempted \in BOOLEAN
         /\ \A p \in Worker : worker[p].fresh \in BOOLEAN /\ worker[p].for \in Sandbox \cup {Nobody}
  BY DEF Typed, Box, Retained, Place

(* Every action keeps the type: one step per variable it writes. *)
LEMMA TypeKept == ASSUME Typed, [Next]_workspaceVars PROVE Typed'
<1>1. workspace \in [Workspace -> Retained]
  BY DEF Typed
<1>2. box \in [Sandbox -> Box]
  BY DEF Typed
<1>3. runtime \in [Sandbox -> {"none", "requested", "live", "gone"}]
  BY DEF Typed
<1>4. createIfMissing \in [Sandbox -> BOOLEAN]
  BY DEF Typed
<1>5. volume \in [Workspace -> {"none", "present", "lost"}]
  BY DEF Typed
<1>6. worker \in [Worker -> Place]
  BY DEF Typed
<1>8. ASSUME NEW w \in Workspace, CreateWorkspace(w) PROVE Typed'
  <2>1. workspace' \in [Workspace -> Retained]
    BY <1>8, <1>1, ZenonT(60) DEF CreateWorkspace, Retained
  <2>2. UNCHANGED <<box, runtime, createIfMissing, volume, worker>>
    BY <1>8 DEF CreateWorkspace, provider, scheduler
  <2> QED
    BY <1>1, <1>2, <1>3, <1>4, <1>5, <1>6, <2>1, <2>2 DEF Typed
<1>9. ASSUME NEW w \in Workspace, ArchiveWorkspace(w) PROVE Typed'
  <2>1. workspace' \in [Workspace -> Retained]
    BY <1>9, <1>1, ZenonT(60) DEF ArchiveWorkspace, Retained
  <2>2. UNCHANGED <<box, runtime, createIfMissing, volume, worker>>
    BY <1>9 DEF ArchiveWorkspace, provider, scheduler
  <2> QED
    BY <1>1, <1>2, <1>3, <1>4, <1>5, <1>6, <2>1, <2>2 DEF Typed
<1>10. ASSUME NEW s \in Sandbox, NEW w \in Workspace, Admit(s, w) PROVE Typed'
  <2>1. workspace' \in [Workspace -> Retained]
    BY <1>10, <1>1, ZenonT(60) DEF Admit, Retained
  <2>2. box' \in [Sandbox -> Box]
    <3>1. PICK secret \in BOOLEAN : box' = [box EXCEPT ![s] = [NoBox EXCEPT !.status = "pending", !.wants = w,
                      !.secret = secret, !.operation = "queued", !.effect = "prepare"]]
      BY <1>10 DEF Admit
    <3>2. [NoBox EXCEPT !.status = "pending", !.wants = w,
                      !.secret = secret, !.operation = "queued", !.effect = "prepare"] \in Box
      BY ZenonT(60) DEF Box, NoBox
    <3> QED
      BY <3>1, <3>2, <1>2, ZenonT(60)
  <2>3. UNCHANGED <<runtime, createIfMissing, volume, worker>>
    BY <1>10 DEF Admit, provider, scheduler
  <2> QED
    BY <1>1, <1>2, <1>3, <1>4, <1>5, <1>6, <2>1, <2>2, <2>3 DEF Typed
<1>11. ASSUME NEW s \in Sandbox, FinishPreparation(s) PROVE Typed'
  <2>1. box' \in [Sandbox -> Box]
    BY <1>11, <1>2, ZenonT(60) DEF FinishPreparation, Box
  <2>2. UNCHANGED <<workspace, runtime, createIfMissing, volume, worker>>
    BY <1>11 DEF FinishPreparation, provider, scheduler
  <2> QED
    BY <1>1, <1>2, <1>3, <1>4, <1>5, <1>6, <2>1, <2>2 DEF Typed
<1>12. ASSUME NEW s \in Sandbox, AbandonPreparation(s) PROVE Typed'
  <2>1. workspace' \in [Workspace -> Retained]
    BY <1>12, <1>1, ZenonT(60) DEF AbandonPreparation, ReleaseUnattempted, Retained
  <2>2. box' \in [Sandbox -> Box]
    BY <1>12, <1>2, ZenonT(60) DEF AbandonPreparation, ReleaseUnattempted, Box
  <2>3. UNCHANGED <<runtime, createIfMissing, volume, worker>>
    BY <1>12 DEF AbandonPreparation, ReleaseUnattempted, provider, scheduler
  <2> QED
    BY <1>1, <1>2, <1>3, <1>4, <1>5, <1>6, <2>1, <2>2, <2>3 DEF Typed
<1>13. ASSUME NEW p \in Worker, NEW s \in Sandbox, ClaimProvision(p, s) PROVE Typed'
  <2>1. box' \in [Sandbox -> Box]
    BY <1>13, <1>2, ZenonT(60) DEF ClaimProvision, Box
  <2>2. worker' \in [Worker -> Place]
    BY <1>13, <1>6, ZenonT(60) DEF ClaimProvision, Place, IdleWorker
  <2>3. UNCHANGED <<workspace, runtime, createIfMissing, volume>>
    BY <1>13 DEF ClaimProvision, provider, scheduler
  <2> QED
    BY <1>1, <1>2, <1>3, <1>4, <1>5, <1>6, <2>1, <2>2, <2>3 DEF Typed
<1>14. ASSUME NEW p \in Worker, BeginProvision(p) PROVE Typed'
  <2>1. box' \in [Sandbox -> Box]
    <3>1. box' = [box EXCEPT ![worker[p].for].effect = "intent"]
      BY <1>14 DEF BeginProvision
    <3> QED
      BY <3>1, <1>2, ZenonT(60) DEF Box
  <2>2. worker' \in [Worker -> Place]
    BY <1>14, <1>6, ZenonT(60) DEF BeginProvision, Advance, Place
  <2>3. UNCHANGED <<workspace, runtime, createIfMissing, volume>>
    BY <1>14 DEF BeginProvision, Advance, provider, scheduler
  <2> QED
    BY <1>1, <1>2, <1>3, <1>4, <1>5, <1>6, <2>1, <2>2, <2>3 DEF Typed
<1>15. ASSUME NEW p \in Worker, SelectWorkspace(p) PROVE Typed'
  <2>1. worker' \in [Worker -> Place]
    BY <1>15, <1>6, ZenonT(60) DEF SelectWorkspace, Advance, Place
  <2>2. UNCHANGED <<workspace, box, runtime, createIfMissing, volume>>
    BY <1>15 DEF SelectWorkspace, Advance, provider, scheduler
  <2> QED
    BY <1>1, <1>2, <1>3, <1>4, <1>5, <1>6, <2>1, <2>2 DEF Typed
<1>16. ASSUME NEW p \in Worker, MarkAttempt(p) PROVE Typed'
  <2>1. workspace' \in [Workspace -> Retained]
    BY <1>16, <1>1, ZenonT(60) DEF MarkAttempt, Advance, Retained
  <2>2. worker' \in [Worker -> Place]
    BY <1>16, <1>6, ZenonT(60) DEF MarkAttempt, Advance, Place
  <2>3. UNCHANGED <<box, runtime, createIfMissing, volume>>
    BY <1>16 DEF MarkAttempt, Advance, provider, scheduler
  <2> QED
    BY <1>1, <1>2, <1>3, <1>4, <1>5, <1>6, <2>1, <2>2, <2>3 DEF Typed
<1>17. ASSUME NEW p \in Worker, AbortProvision(p) PROVE Typed'
  <2>1. box' \in [Sandbox -> Box]
    <3>1. \/ box' = [box EXCEPT ![worker[p].for] = [@ EXCEPT !.effect = "none", !.operation = "failed"]]
          \/ box' = box
      BY <1>17 DEF AbortProvision
    <3>2. CASE box' = [box EXCEPT ![worker[p].for] = [@ EXCEPT !.effect = "none", !.operation = "failed"]]
      BY <3>2, <1>2, ZenonT(60) DEF Box
    <3>3. CASE box' = box
      BY <3>3, <1>2, ZenonT(60) DEF Box
    <3> QED
      BY <3>1, <3>2, <3>3
  <2>2. worker' \in [Worker -> Place]
    BY <1>17, <1>6, ZenonT(60) DEF AbortProvision, Idle, Place, IdleWorker
  <2>3. UNCHANGED <<workspace, runtime, createIfMissing, volume>>
    BY <1>17 DEF AbortProvision, Idle, provider, scheduler
  <2> QED
    BY <1>1, <1>2, <1>3, <1>4, <1>5, <1>6, <2>1, <2>2, <2>3 DEF Typed
<1>18. ASSUME NEW p \in Worker, Dispatch(p) PROVE Typed'
  <2>1. box' \in [Sandbox -> Box]
    <3>1. box' = [box EXCEPT ![worker[p].for].effect = "sent"]
      BY <1>18 DEF Dispatch
    <3> QED
      BY <3>1, <1>2, ZenonT(60) DEF Box
  <2>2. runtime' \in [Sandbox -> {"none", "requested", "live", "gone"}]
    <3>1. runtime' = [runtime EXCEPT ![worker[p].for] = "requested"]
      BY <1>18 DEF Dispatch
    <3> QED
      BY <3>1, <1>3, ZenonT(60)
  <2>3. createIfMissing' \in [Sandbox -> BOOLEAN]
    <3>1. worker[p].fresh \in BOOLEAN
      BY <1>6 DEF Place
    <3>2. createIfMissing' = [createIfMissing EXCEPT ![worker[p].for] = worker[p].fresh]
      BY <1>18 DEF Dispatch
    <3> QED
      BY <3>1, <3>2, <1>4, ZenonT(60)
  <2>4. worker' \in [Worker -> Place]
    BY <1>18, <1>6, ZenonT(60) DEF Dispatch, Advance, Place
  <2>5. UNCHANGED <<workspace, volume>>
    BY <1>18 DEF Dispatch, Advance, provider, scheduler
  <2> QED
    BY <1>1, <1>2, <1>3, <1>4, <1>5, <1>6, <2>1, <2>2, <2>3, <2>4, <2>5 DEF Typed
<1>19. ASSUME NEW p \in Worker, Acknowledge(p) PROVE Typed'
  <2>1. box' \in [Sandbox -> Box]
    <3>1. \/ box' = [box EXCEPT ![worker[p].for].effect = "acknowledged"]
          \/ box' = box
      BY <1>19 DEF Acknowledge
    <3>2. CASE box' = [box EXCEPT ![worker[p].for].effect = "acknowledged"]
      BY <3>2, <1>2, ZenonT(60) DEF Box
    <3>3. CASE box' = box
      BY <3>3, <1>2, ZenonT(60) DEF Box
    <3> QED
      BY <3>1, <3>2, <3>3
  <2>2. worker' \in [Worker -> Place]
    <3>1. \/ worker' = [worker EXCEPT ![p].at = "persist"]
          \/ worker' = [worker EXCEPT ![p] = IdleWorker]
      BY <1>19 DEF Acknowledge, Advance, Idle
    <3>2. CASE worker' = [worker EXCEPT ![p].at = "persist"]
      BY <3>2, <1>6, ZenonT(60) DEF Place, IdleWorker
    <3>3. CASE worker' = [worker EXCEPT ![p] = IdleWorker]
      BY <3>3, <1>6, ZenonT(60) DEF Place, IdleWorker
    <3> QED
      BY <3>1, <3>2, <3>3
  <2>3. UNCHANGED <<workspace, runtime, createIfMissing, volume>>
    BY <1>19 DEF Acknowledge, Advance, Idle, provider, scheduler
  <2> QED
    BY <1>1, <1>2, <1>3, <1>4, <1>5, <1>6, <2>1, <2>2, <2>3 DEF Typed
<1>20. ASSUME NEW p \in Worker, PersistIdentity(p) PROVE Typed'
  <2>1. box' \in [Sandbox -> Box]
    <3> DEFINE b == box[worker[p].for]
               done == [b EXCEPT !.known = TRUE, !.status = "running", !.operation = "succeeded", !.effect = "none"]
               rolledBack == [done EXCEPT !.status = "error", !.operation = "failed", !.effect = "delete"]
    <3>1. \/ box' = [box EXCEPT ![worker[p].for] = done]
          \/ box' = [box EXCEPT ![worker[p].for] = rolledBack]
          \/ box' = box
      BY <1>20 DEF PersistIdentity
    <3>2. CASE worker[p].for \in Sandbox
      <4>1. b \in Box
        BY <3>2, <1>2, ZenonT(60)
      <4>2. done \in Box
        BY <4>1, ZenonT(60) DEF Box
      <4> HIDE DEF done
      <4>3. rolledBack \in Box
        BY <4>2, ZenonT(60) DEF Box
      <4> HIDE DEF rolledBack
      <4> QED
        BY <3>1, <4>2, <4>3, <1>2, ZenonT(60)
    <3>3. CASE worker[p].for \notin Sandbox
      BY <3>1, <3>3, <1>2
    <3> QED
      BY <3>2, <3>3
  <2>2. worker' \in [Worker -> Place]
    BY <1>20, <1>6, ZenonT(60) DEF PersistIdentity, Idle, Place, IdleWorker
  <2>3. UNCHANGED <<workspace, runtime, createIfMissing, volume>>
    BY <1>20 DEF PersistIdentity, Idle, provider, scheduler
  <2> QED
    BY <1>1, <1>2, <1>3, <1>4, <1>5, <1>6, <2>1, <2>2, <2>3 DEF Typed
<1>21. ASSUME NEW p \in Worker, Crash(p) PROVE Typed'
  <2>1. worker' \in [Worker -> Place]
    BY <1>21, <1>6, ZenonT(60) DEF Crash, Idle, Place, IdleWorker
  <2>2. UNCHANGED <<workspace, box, runtime, createIfMissing, volume>>
    BY <1>21 DEF Crash, Idle, provider, scheduler
  <2> QED
    BY <1>1, <1>2, <1>3, <1>4, <1>5, <1>6, <2>1, <2>2 DEF Typed
<1>22. ASSUME NEW s \in Sandbox, CancelBeforeDispatch(s) PROVE Typed'
  <2>1. workspace' \in [Workspace -> Retained]
    BY <1>22, <1>1, ZenonT(60) DEF CancelBeforeDispatch, StopPending, CancelUndispatched, Terminate, ReleaseUnattempted, Retained
  <2>2. box' \in [Sandbox -> Box]
    <3>1. \/ box' = [box EXCEPT ![s] = [@ EXCEPT !.status = "terminated", !.operation = "canceled", !.effect = "none"]]
          \/ box' = [box EXCEPT ![s] = [@ EXCEPT !.status = "terminated", !.operation = "failed", !.effect = "none"]]
      BY <1>22 DEF CancelBeforeDispatch, StopPending, CancelUndispatched, Terminate
    <3>2. CASE box' = [box EXCEPT ![s] = [@ EXCEPT !.status = "terminated", !.operation = "canceled", !.effect = "none"]]
      BY <3>2, <1>2, ZenonT(60) DEF Box
    <3>3. CASE box' = [box EXCEPT ![s] = [@ EXCEPT !.status = "terminated", !.operation = "failed", !.effect = "none"]]
      BY <3>3, <1>2, ZenonT(60) DEF Box
    <3> QED
      BY <3>1, <3>2, <3>3
  <2>3. UNCHANGED <<runtime, createIfMissing, volume, worker>>
    BY <1>22 DEF CancelBeforeDispatch, StopPending, CancelUndispatched, Terminate, ReleaseUnattempted, provider, scheduler
  <2> QED
    BY <1>1, <1>2, <1>3, <1>4, <1>5, <1>6, <2>1, <2>2, <2>3 DEF Typed
<1>23. ASSUME NEW s \in Sandbox, ReconcileStale(s) PROVE Typed'
  <2>1. box' \in [Sandbox -> Box]
    <3>1. \/ box' = [box EXCEPT ![s].operation = "queued"]
          \/ box' = [box EXCEPT ![s].operation = "failed"]
      BY <1>23 DEF ReconcileStale
    <3>2. CASE box' = [box EXCEPT ![s].operation = "queued"]
      BY <3>2, <1>2, ZenonT(60) DEF Box
    <3>3. CASE box' = [box EXCEPT ![s].operation = "failed"]
      BY <3>3, <1>2, ZenonT(60) DEF Box
    <3> QED
      BY <3>1, <3>2, <3>3
  <2>2. UNCHANGED <<workspace, runtime, createIfMissing, volume, worker>>
    BY <1>23 DEF ReconcileStale, provider, scheduler
  <2> QED
    BY <1>1, <1>2, <1>3, <1>4, <1>5, <1>6, <2>1, <2>2 DEF Typed
<1>24. ASSUME NEW s \in Sandbox, RecoverProvision(s) PROVE Typed'
  <2>1. box' \in [Sandbox -> Box]
    <3>1. \/ box' = [box EXCEPT ![s] = [@ EXCEPT !.known = TRUE, !.status = "running", !.operation = "succeeded", !.effect = "none"]]
          \/ box' = [box EXCEPT ![s] = [@ EXCEPT !.known = TRUE, !.status = "error", !.operation = "failed", !.effect = "delete"]]
          \/ box' = [box EXCEPT ![s] = [@ EXCEPT !.status = "terminated", !.operation = "failed", !.effect = "none"]]
      BY <1>24 DEF RecoverProvision, Terminate
    <3>2. CASE box' = [box EXCEPT ![s] = [@ EXCEPT !.known = TRUE, !.status = "running", !.operation = "succeeded", !.effect = "none"]]
      BY <3>2, <1>2, ZenonT(60) DEF Box
    <3>3. CASE box' = [box EXCEPT ![s] = [@ EXCEPT !.known = TRUE, !.status = "error", !.operation = "failed", !.effect = "delete"]]
      BY <3>3, <1>2, ZenonT(60) DEF Box
    <3>4. CASE box' = [box EXCEPT ![s] = [@ EXCEPT !.status = "terminated", !.operation = "failed", !.effect = "none"]]
      BY <3>4, <1>2, ZenonT(60) DEF Box
    <3> QED
      BY <3>1, <3>2, <3>3, <3>4
  <2>2. UNCHANGED <<workspace, runtime, createIfMissing, volume, worker>>
    BY <1>24 DEF RecoverProvision, Terminate, provider, scheduler
  <2> QED
    BY <1>1, <1>2, <1>3, <1>4, <1>5, <1>6, <2>1, <2>2 DEF Typed
<1>25. ASSUME NEW s \in Sandbox, BeginDelete(s) PROVE Typed'
  <2>1. box' \in [Sandbox -> Box]
    <3>1. box' = [box EXCEPT ![s].effect = "delete"]
      BY <1>25 DEF BeginDelete
    <3> QED
      BY <3>1, <1>2, ZenonT(60) DEF Box
  <2>2. UNCHANGED <<workspace, runtime, createIfMissing, volume, worker>>
    BY <1>25 DEF BeginDelete, provider, scheduler
  <2> QED
    BY <1>1, <1>2, <1>3, <1>4, <1>5, <1>6, <2>1, <2>2 DEF Typed
<1>26. ASSUME NEW s \in Sandbox, EndDelete(s) PROVE Typed'
  <2>1. box' \in [Sandbox -> Box]
    <3>1. \/ box' = [box EXCEPT ![s] = [@ EXCEPT !.status = "terminated", !.operation = box[s].operation, !.effect = "none"]]
          \/ box' = [box EXCEPT ![s].effect = "none"]
      BY <1>26 DEF EndDelete, Terminate
    <3>2. CASE box' = [box EXCEPT ![s] = [@ EXCEPT !.status = "terminated", !.operation = box[s].operation, !.effect = "none"]]
      BY <3>2, <1>2, ZenonT(60) DEF Box
    <3>3. CASE box' = [box EXCEPT ![s].effect = "none"]
      BY <3>3, <1>2, ZenonT(60) DEF Box
    <3> QED
      BY <3>1, <3>2, <3>3
  <2>2. UNCHANGED <<workspace, runtime, createIfMissing, volume, worker>>
    BY <1>26 DEF EndDelete, Terminate, provider, scheduler
  <2> QED
    BY <1>1, <1>2, <1>3, <1>4, <1>5, <1>6, <2>1, <2>2 DEF Typed
<1>27. ASSUME NEW s \in Sandbox, ReconcileLease(s) PROVE Typed'
  <2>1. box' \in [Sandbox -> Box]
    <3>1. \/ box' = [box EXCEPT ![s] = [@ EXCEPT !.status = "terminated", !.operation = box[s].operation, !.effect = "none"]]
          \/ box' = [box EXCEPT ![s].status = "running"]
      BY <1>27 DEF ReconcileLease, Terminate
    <3>2. CASE box' = [box EXCEPT ![s] = [@ EXCEPT !.status = "terminated", !.operation = box[s].operation, !.effect = "none"]]
      BY <3>2, <1>2, ZenonT(60) DEF Box
    <3>3. CASE box' = [box EXCEPT ![s].status = "running"]
      BY <3>3, <1>2, ZenonT(60) DEF Box
    <3> QED
      BY <3>1, <3>2, <3>3
  <2>2. UNCHANGED <<workspace, runtime, createIfMissing, volume, worker>>
    BY <1>27 DEF ReconcileLease, Terminate, provider, scheduler
  <2> QED
    BY <1>1, <1>2, <1>3, <1>4, <1>5, <1>6, <2>1, <2>2 DEF Typed
<1>28. CASE SweepRead \/ SweepFails
  BY <1>1, <1>2, <1>3, <1>4, <1>5, <1>6, <1>28 DEF SweepRead, SweepFails, provider, Typed
<1>29. ASSUME NEW r \in sweep, SweepGet(r) PROVE Typed'
  BY <1>1, <1>2, <1>3, <1>4, <1>5, <1>6, <1>29 DEF SweepGet, provider, Typed
<1>30. ASSUME NEW r \in sweep, SweepDetach(r) PROVE Typed'
  <2>1. workspace' \in [Workspace -> Retained]
    BY <1>30, <1>1, ZenonT(60) DEF SweepDetach, Retained
  <2>2. UNCHANGED <<box, runtime, createIfMissing, volume, worker>>
    BY <1>30 DEF SweepDetach, provider
  <2> QED
    BY <1>1, <1>2, <1>3, <1>4, <1>5, <1>6, <2>1, <2>2 DEF Typed
<1>31. ASSUME NEW s \in Sandbox, PerformCreate(s) PROVE Typed'
  <2>1. runtime' \in [Sandbox -> {"none", "requested", "live", "gone"}]
    BY <1>31, <1>3, ZenonT(60) DEF PerformCreate
  <2>2. volume' \in [Workspace -> {"none", "present", "lost"}]
    BY <1>31, <1>5, ZenonT(60) DEF PerformCreate
  <2>3. UNCHANGED <<workspace, box, createIfMissing, worker>>
    BY <1>31 DEF PerformCreate, provider, scheduler
  <2> QED
    BY <1>1, <1>2, <1>3, <1>4, <1>5, <1>6, <2>1, <2>2, <2>3 DEF Typed
<1>32. ASSUME NEW s \in Sandbox, RuntimeEnds(s) PROVE Typed'
  <2>1. runtime' \in [Sandbox -> {"none", "requested", "live", "gone"}]
    BY <1>32, <1>3, ZenonT(60) DEF RuntimeEnds
  <2>2. UNCHANGED <<workspace, box, createIfMissing, volume, worker>>
    BY <1>32 DEF RuntimeEnds, provider, scheduler
  <2> QED
    BY <1>1, <1>2, <1>3, <1>4, <1>5, <1>6, <2>1, <2>2 DEF Typed
<1>33. ASSUME NEW w \in Workspace, VolumeLost(w) PROVE Typed'
  <2>1. volume' \in [Workspace -> {"none", "present", "lost"}]
    BY <1>33, <1>5, ZenonT(60) DEF VolumeLost
  <2>2. UNCHANGED <<workspace, box, runtime, createIfMissing, worker>>
    BY <1>33 DEF VolumeLost, provider, scheduler
  <2> QED
    BY <1>1, <1>2, <1>3, <1>4, <1>5, <1>6, <2>1, <2>2 DEF Typed
<1>34. CASE UNCHANGED workspaceVars
  BY <1>34 DEF workspaceVars, Typed
<1> QED
  BY <1>8, <1>9, <1>10, <1>11, <1>12, <1>13, <1>14, <1>15, <1>16, <1>17, <1>18, <1>19, <1>20, <1>21, <1>22, <1>23, <1>24, <1>25, <1>26, <1>27, <1>28, <1>29, <1>30, <1>31, <1>32, <1>33, <1>34 DEF Next

(* One step per action: what it writes, then each part of the invariant it *)
(* can disturb; a part that reads none of it is carried over.              *)
LEMMA MountKept == ASSUME NobodyIsNobody, MountInv, [Next]_workspaceVars PROVE MountInv'
<1>1. /\ workspace \in [Workspace -> Retained] /\ box \in [Sandbox -> Box] /\ worker \in [Worker -> Place]
      /\ runtime \in [Sandbox -> {"none", "requested", "live", "gone"}]
      /\ createIfMissing \in [Sandbox -> BOOLEAN] /\ volume \in [Workspace -> {"none", "present", "lost"}]
  BY DEF MountInv, Typed
<1>2. /\ \A s \in Sandbox : Life(s) /\ Mounting(s)
      /\ \A w \in Workspace : Reserved(w)
      /\ \A p \in Worker : Preparing(p)
      /\ Sweeping /\ Typed
      /\ Nobody \notin Sandbox /\ Nobody \notin Workspace /\ Nobody \notin Worker
  BY DEF MountInv, NobodyIsNobody
<1>3. Typed'
  BY TypeKept DEF MountInv
<1>4. ASSUME NEW w \in Workspace, CreateWorkspace(w) PROVE MountInv'
  <2>1. ~workspace[w].allocated
    BY <1>4 DEF CreateWorkspace
  <2>2. workspace' = [workspace EXCEPT ![w].allocated = TRUE]
    BY <1>4 DEF CreateWorkspace
  <2>3. /\ workspace'[w].attached = workspace[w].attached
        /\ workspace'[w].provisioned = workspace[w].provisioned
        /\ workspace'[w].attempted = workspace[w].attempted
        /\ workspace'[w].archived = workspace[w].archived
        /\ \A z \in Workspace : z # w => workspace'[z] = workspace[z]
    BY <1>1, <2>1, <2>2 DEF Retained
  <2>4. UNCHANGED <<box, runtime, createIfMissing, volume, worker, sweep>>
    BY <1>4 DEF CreateWorkspace, provider, scheduler
  <2>5. ASSUME NEW x \in Sandbox PROVE Life(x)'
    BY <1>2, <2>4 DEF Life, Undispatched
  <2>6. ASSUME NEW x \in Sandbox PROVE Mounting(x)'
    BY <1>2, Fields, <2>1, <2>3, <2>4, SMTT(60) DEF Mounting, Life, Undispatched
  <2>7. ASSUME NEW v \in Workspace PROVE Reserved(v)'
    BY <1>2, Fields, <2>1, <2>3, <2>4, SMTT(60) DEF Reserved
  <2>8. ASSUME NEW q \in Worker PROVE Preparing(q)'
    BY <1>2, Fields, <2>1, <2>3, <2>4, SMTT(60) DEF Preparing, Wanted, Driving, Claimed, Life, Undispatched
  <2>9. Sweeping'
    BY <1>2, <2>4 DEF Sweeping
  <2> QED
    BY <1>3, <2>5, <2>6, <2>7, <2>8, <2>9 DEF MountInv
<1>5. ASSUME NEW w \in Workspace, ArchiveWorkspace(w) PROVE MountInv'
  <2>1. workspace[w].attached = Nobody
    BY <1>5 DEF ArchiveWorkspace
  <2>2. workspace' = [workspace EXCEPT ![w].archived = TRUE]
    BY <1>5 DEF ArchiveWorkspace
  <2>3. /\ workspace'[w].attached = workspace[w].attached
        /\ workspace'[w].provisioned = workspace[w].provisioned
        /\ workspace'[w].attempted = workspace[w].attempted
        /\ workspace'[w].archived = TRUE
        /\ \A z \in Workspace : z # w => workspace'[z] = workspace[z]
    BY <1>1, <2>1, <2>2 DEF Retained
  <2>4. UNCHANGED <<box, runtime, createIfMissing, volume, worker, sweep>>
    BY <1>5 DEF ArchiveWorkspace, provider, scheduler
  <2>5. ASSUME NEW x \in Sandbox PROVE Life(x)'
    BY <1>2, <2>4 DEF Life, Undispatched
  <2>6. ASSUME NEW x \in Sandbox PROVE Mounting(x)'
    BY <1>2, Fields, <2>1, <2>3, <2>4, SMTT(60) DEF Mounting, Life, Undispatched
  <2>7. ASSUME NEW v \in Workspace PROVE Reserved(v)'
    BY <1>2, Fields, <2>1, <2>3, <2>4, SMTT(60) DEF Reserved
  <2>8. ASSUME NEW q \in Worker PROVE Preparing(q)'
    BY <1>2, Fields, <2>1, <2>3, <2>4, SMTT(60) DEF Preparing, Wanted, Driving, Claimed, Life, Undispatched
  <2>9. Sweeping'
    BY <1>2, <2>4 DEF Sweeping
  <2> QED
    BY <1>3, <2>5, <2>6, <2>7, <2>8, <2>9 DEF MountInv
<1>6. ASSUME NEW s \in Sandbox, NEW w \in Workspace, Admit(s, w) PROVE MountInv'
  <2>1. /\ box[s].status = "none"
        /\ ~workspace[w].archived
        /\ workspace[w].attached = Nobody
    BY <1>6 DEF Admit, NoBox
  <2>2. workspace' = [workspace EXCEPT ![w] = [@ EXCEPT !.attached = s, !.attempted = FALSE]]
    BY <1>6 DEF Admit, NoBox
  <2>3. /\ workspace'[w].attached = s
        /\ workspace'[w].provisioned = workspace[w].provisioned
        /\ workspace'[w].attempted = FALSE
        /\ workspace'[w].archived = workspace[w].archived
        /\ \A z \in Workspace : z # w => workspace'[z] = workspace[z]
    BY <1>1, <2>1, <2>2 DEF Retained
  <2>4. \E secret \in BOOLEAN : box' = [box EXCEPT ![s] = [NoBox EXCEPT !.status = "pending", !.wants = w,
             !.secret = secret, !.operation = "queued", !.effect = "prepare"]]
    BY <1>6 DEF Admit, NoBox
  <2>5. /\ box'[s].status = "pending"
        /\ box'[s].wants = w
        /\ box'[s].known = FALSE
        /\ box'[s].operation = "queued"
        /\ box'[s].effect = "prepare"
        /\ box'[s].owner = Nobody
        /\ \A z \in Sandbox : z # s => box'[z] = box[z]
    BY <1>1, <2>1, <2>4 DEF Box, NoBox
  <2>6. UNCHANGED <<runtime, createIfMissing, volume, worker, sweep>>
    BY <1>6 DEF Admit, NoBox, provider, scheduler
  <2>7. ASSUME NEW x \in Sandbox PROVE Life(x)'
    BY <1>2, Fields, <2>1, <2>3, <2>5, <2>6, SMTT(60) DEF Life, Undispatched
  <2>8. ASSUME NEW x \in Sandbox PROVE Mounting(x)'
    BY <1>2, Fields, <2>1, <2>3, <2>5, <2>6, SMTT(60) DEF Mounting, Life, Undispatched
  <2>9. ASSUME NEW v \in Workspace PROVE Reserved(v)'
    BY <1>2, Fields, <2>1, <2>3, <2>5, <2>6, SMTT(60) DEF Reserved, Life, Undispatched
  <2>10. ASSUME NEW q \in Worker PROVE Preparing(q)'
    BY <1>2, Fields, <2>1, <2>3, <2>5, <2>6, SMTT(60) DEF Preparing, Wanted, Driving, Claimed, Life, Undispatched
  <2>11. Sweeping'
    BY <1>2, Fields, <2>1, <2>3, <2>5, <2>6, SMTT(60) DEF Sweeping
  <2> QED
    BY <1>3, <2>7, <2>8, <2>9, <2>10, <2>11 DEF MountInv
<1>7. ASSUME NEW s \in Sandbox, FinishPreparation(s) PROVE MountInv'
  <2>1. box[s].effect = "prepare"
    BY <1>7 DEF FinishPreparation
  <2>2. box' = [box EXCEPT ![s].effect = "none"]
    BY <1>7 DEF FinishPreparation
  <2>3. /\ box'[s].status = box[s].status
        /\ box'[s].wants = box[s].wants
        /\ box'[s].known = box[s].known
        /\ box'[s].operation = box[s].operation
        /\ box'[s].effect = "none"
        /\ box'[s].owner = box[s].owner
        /\ \A z \in Sandbox : z # s => box'[z] = box[z]
    BY <1>1, <2>1, <2>2 DEF Box
  <2>4. UNCHANGED <<workspace, runtime, createIfMissing, volume, worker, sweep>>
    BY <1>7 DEF FinishPreparation, provider, scheduler
  <2>5. ASSUME NEW x \in Sandbox PROVE Life(x)'
    BY <1>2, Fields, <2>1, <2>3, <2>4, SMTT(60) DEF Life, Undispatched
  <2>6. ASSUME NEW x \in Sandbox PROVE Mounting(x)'
    BY <1>2, Fields, <2>1, <2>3, <2>4, SMTT(60) DEF Mounting
  <2>7. ASSUME NEW v \in Workspace PROVE Reserved(v)'
    BY <1>2, Fields, <2>1, <2>3, <2>4, SMTT(60) DEF Reserved
  <2>8. ASSUME NEW q \in Worker PROVE Preparing(q)'
    BY <1>2, Fields, <2>1, <2>3, <2>4, SMTT(60) DEF Preparing, Wanted, Driving, Claimed
  <2>9. Sweeping'
    BY <1>2, Fields, <2>1, <2>3, <2>4, SMTT(60) DEF Sweeping
  <2> QED
    BY <1>3, <2>5, <2>6, <2>7, <2>8, <2>9 DEF MountInv
<1>8. ASSUME NEW s \in Sandbox, AbandonPreparation(s) PROVE MountInv'
  <2>1. box[s].effect = "prepare"
    BY <1>8 DEF AbandonPreparation, ReleaseUnattempted
  <2>2. box' = [box EXCEPT ![s] = [@ EXCEPT !.effect = "none", !.status = "error", !.operation = "failed"]]
    BY <1>8 DEF AbandonPreparation, ReleaseUnattempted
  <2>3. /\ box'[s].status = "error"
        /\ box'[s].wants = box[s].wants
        /\ box'[s].known = box[s].known
        /\ box'[s].operation = "failed"
        /\ box'[s].effect = "none"
        /\ box'[s].owner = box[s].owner
        /\ \A z \in Sandbox : z # s => box'[z] = box[z]
    BY <1>1, <2>1, <2>2 DEF Box
  <2>4. workspace' = [w \in Workspace |-> IF workspace[w].attached = s /\ ~workspace[w].attempted
             THEN [workspace[w] EXCEPT !.attached = Nobody] ELSE workspace[w]]
    BY <1>8 DEF AbandonPreparation, ReleaseUnattempted
  <2>5. /\ \A v \in Workspace : workspace'[v].attached = (IF workspace[v].attached = s /\ ~workspace[v].attempted THEN Nobody ELSE workspace[v].attached)
        /\ \A v \in Workspace : workspace'[v].provisioned = workspace[v].provisioned
        /\ \A v \in Workspace : workspace'[v].attempted = workspace[v].attempted
        /\ \A v \in Workspace : workspace'[v].archived = workspace[v].archived
    BY <1>1, <2>1, <2>4 DEF Retained
  <2>6. UNCHANGED <<runtime, createIfMissing, volume, worker, sweep>>
    BY <1>8 DEF AbandonPreparation, ReleaseUnattempted, provider, scheduler
  <2>7. ASSUME NEW x \in Sandbox PROVE Life(x)'
    BY <1>2, Fields, <2>1, <2>3, <2>5, <2>6, SMTT(60) DEF Life, Undispatched
  <2>8. ASSUME NEW x \in Sandbox PROVE Mounting(x)'
    BY <1>2, Fields, <2>1, <2>3, <2>5, <2>6, SMTT(60) DEF Mounting, Life, Undispatched
  <2>9. ASSUME NEW v \in Workspace PROVE Reserved(v)'
    BY <1>2, Fields, <2>1, <2>3, <2>5, <2>6, SMTT(60) DEF Reserved
  <2>10. ASSUME NEW q \in Worker PROVE Preparing(q)'
    BY <1>2, Fields, <2>1, <2>3, <2>5, <2>6, SMTT(60) DEF Preparing, Wanted, Driving, Claimed, Life, Undispatched
  <2>11. Sweeping'
    BY <1>2, Fields, <2>1, <2>3, <2>5, <2>6, SMTT(60) DEF Sweeping
  <2> QED
    BY <1>3, <2>7, <2>8, <2>9, <2>10, <2>11 DEF MountInv
<1>9. ASSUME NEW p \in Worker, NEW s \in Sandbox, ClaimProvision(p, s) PROVE MountInv'
  <2>1. /\ worker[p].at = "idle"
        /\ box[s].operation = "queued"
        /\ box[s].effect = "none"
    BY <1>9 DEF ClaimProvision, IdleWorker
  <2>2. box' = [box EXCEPT ![s] = [@ EXCEPT !.operation = "running", !.owner = p]]
    BY <1>9 DEF ClaimProvision, IdleWorker
  <2>3. /\ box'[s].status = box[s].status
        /\ box'[s].wants = box[s].wants
        /\ box'[s].known = box[s].known
        /\ box'[s].operation = "running"
        /\ box'[s].effect = box[s].effect
        /\ box'[s].owner = p
        /\ \A z \in Sandbox : z # s => box'[z] = box[z]
    BY <1>1, <2>1, <2>2 DEF Box
  <2>4. worker' = [worker EXCEPT ![p] = [IdleWorker EXCEPT !.at = "begin", !.for = s]]
    BY <1>9 DEF ClaimProvision, IdleWorker
  <2>5. /\ worker'[p].at = "begin"
        /\ worker'[p].for = s
        /\ worker'[p].fresh = FALSE
        /\ \A z \in Worker : z # p => worker'[z] = worker[z]
    BY <1>1, <2>1, <2>4 DEF Place, IdleWorker
  <2>6. UNCHANGED <<workspace, runtime, createIfMissing, volume, sweep>>
    BY <1>9 DEF ClaimProvision, IdleWorker, provider, scheduler
  <2>7. ASSUME NEW x \in Sandbox PROVE Life(x)'
    BY <1>2, Fields, <2>1, <2>3, <2>5, <2>6, SMTT(60) DEF Life, Undispatched
  <2>8. ASSUME NEW x \in Sandbox PROVE Mounting(x)'
    BY <1>2, Fields, <2>1, <2>3, <2>5, <2>6, SMTT(60) DEF Mounting
  <2>9. ASSUME NEW v \in Workspace PROVE Reserved(v)'
    BY <1>2, Fields, <2>1, <2>3, <2>5, <2>6, SMTT(60) DEF Reserved
  <2>10. ASSUME NEW q \in Worker PROVE Preparing(q)'
    BY <1>2, Fields, <2>1, <2>3, <2>5, <2>6, SMTT(60) DEF Preparing, Wanted, Driving, Claimed, Life, Undispatched
  <2>11. Sweeping'
    BY <1>2, Fields, <2>1, <2>3, <2>5, <2>6, SMTT(60) DEF Sweeping
  <2> QED
    BY <1>3, <2>7, <2>8, <2>9, <2>10, <2>11 DEF MountInv
<1>10. ASSUME NEW p \in Worker, BeginProvision(p) PROVE MountInv'
  <2>1. /\ worker[p].at = "begin"
        /\ worker[p].for \in Sandbox
        /\ box[worker[p].for].operation = "running"
        /\ box[worker[p].for].owner = p
        /\ box[worker[p].for].effect = "none"
    BY <1>10, <1>2, Fields DEF BeginProvision, Claimed, Advance, Preparing, Claimed, Driving, Wanted, Life
  <2>2. box' = [box EXCEPT ![worker[p].for].effect = "intent"]
    BY <1>10 DEF BeginProvision, Claimed, Advance
  <2>3. /\ box'[worker[p].for].status = box[worker[p].for].status
        /\ box'[worker[p].for].wants = box[worker[p].for].wants
        /\ box'[worker[p].for].known = box[worker[p].for].known
        /\ box'[worker[p].for].operation = box[worker[p].for].operation
        /\ box'[worker[p].for].effect = "intent"
        /\ box'[worker[p].for].owner = box[worker[p].for].owner
        /\ \A z \in Sandbox : z # worker[p].for => box'[z] = box[z]
    BY <1>1, <2>1, <2>2 DEF Box
  <2>4. worker' = [worker EXCEPT ![p].at = "select"]
    BY <1>10 DEF BeginProvision, Claimed, Advance
  <2>5. /\ worker'[p].at = "select"
        /\ worker'[p].for = worker[p].for
        /\ worker'[p].fresh = worker[p].fresh
        /\ \A z \in Worker : z # p => worker'[z] = worker[z]
    BY <1>1, <2>1, <2>4 DEF Place
  <2>6. UNCHANGED <<workspace, runtime, createIfMissing, volume, sweep>>
    BY <1>10 DEF BeginProvision, Claimed, Advance, provider, scheduler
  <2>7. ASSUME NEW x \in Sandbox PROVE Life(x)'
    BY <1>2, Fields, <2>1, <2>3, <2>5, <2>6, SMTT(60) DEF Life, Undispatched
  <2>8. ASSUME NEW x \in Sandbox PROVE Mounting(x)'
    BY <1>2, Fields, <2>1, <2>3, <2>5, <2>6, SMTT(60) DEF Mounting
  <2>9. ASSUME NEW v \in Workspace PROVE Reserved(v)'
    BY <1>2, Fields, <2>1, <2>3, <2>5, <2>6, SMTT(60) DEF Reserved
  <2>10. ASSUME NEW q \in Worker PROVE Preparing(q)'
    BY <1>2, Fields, <2>1, <2>3, <2>5, <2>6, SMTT(60) DEF Preparing, Wanted, Driving, Claimed
  <2>11. Sweeping'
    BY <1>2, Fields, <2>1, <2>3, <2>5, <2>6, SMTT(60) DEF Sweeping
  <2> QED
    BY <1>3, <2>7, <2>8, <2>9, <2>10, <2>11 DEF MountInv
<1>11. ASSUME NEW p \in Worker, SelectWorkspace(p) PROVE MountInv'
  <2>1. CASE workspace[Wanted(p)].attached = worker[p].for
    <3>1. /\ worker[p].at = "select"
          /\ worker[p].for \in Sandbox
      BY <1>11, <2>1, <1>2, Fields DEF SelectWorkspace, Advance, Preparing, Claimed, Driving, Wanted, Life
    <3>2. worker' = [worker EXCEPT ![p] = [@ EXCEPT !.at = "attempt", !.fresh = ~workspace[Wanted(p)].provisioned]]
      BY <1>11, <2>1 DEF SelectWorkspace, Advance
    <3>3. /\ worker'[p].at = "attempt"
          /\ worker'[p].for = worker[p].for
          /\ worker'[p].fresh = ~workspace[Wanted(p)].provisioned
          /\ \A z \in Worker : z # p => worker'[z] = worker[z]
      BY <1>1, <3>1, <3>2 DEF Place
    <3>4. UNCHANGED <<workspace, box, runtime, createIfMissing, volume, sweep>>
      BY <1>11, <2>1 DEF SelectWorkspace, Advance, provider, scheduler
    <3>5. ASSUME NEW x \in Sandbox PROVE Life(x)'
      BY <1>2, <3>4 DEF Life, Undispatched
    <3>6. ASSUME NEW x \in Sandbox PROVE Mounting(x)'
      BY <1>2, <3>4 DEF Mounting
    <3>7. ASSUME NEW v \in Workspace PROVE Reserved(v)'
      BY <1>2, <3>4 DEF Reserved
    <3>8. ASSUME NEW q \in Worker PROVE Preparing(q)'
      BY <1>2, Fields, <3>1, <3>3, <3>4, SMTT(60) DEF Preparing, Wanted, Driving, Claimed, Life, Undispatched
    <3>9. Sweeping'
      BY <1>2, <3>4 DEF Sweeping
    <3> QED
      BY <1>3, <3>5, <3>6, <3>7, <3>8, <3>9 DEF MountInv
  <2>2. CASE workspace[Wanted(p)].attached # worker[p].for
    <3>1. /\ worker[p].at = "select"
          /\ worker[p].for \in Sandbox
      BY <1>11, <2>2, <1>2, Fields DEF SelectWorkspace, Advance, Preparing, Claimed, Driving, Wanted, Life
    <3>2. worker' = [worker EXCEPT ![p].at = "abort"]
      BY <1>11, <2>2 DEF SelectWorkspace, Advance
    <3>3. /\ worker'[p].at = "abort"
          /\ worker'[p].for = worker[p].for
          /\ worker'[p].fresh = worker[p].fresh
          /\ \A z \in Worker : z # p => worker'[z] = worker[z]
      BY <1>1, <3>1, <3>2 DEF Place
    <3>4. UNCHANGED <<workspace, box, runtime, createIfMissing, volume, sweep>>
      BY <1>11, <2>2 DEF SelectWorkspace, Advance, provider, scheduler
    <3>5. ASSUME NEW x \in Sandbox PROVE Life(x)'
      BY <1>2, <3>4 DEF Life, Undispatched
    <3>6. ASSUME NEW x \in Sandbox PROVE Mounting(x)'
      BY <1>2, <3>4 DEF Mounting
    <3>7. ASSUME NEW v \in Workspace PROVE Reserved(v)'
      BY <1>2, <3>4 DEF Reserved
    <3>8. ASSUME NEW q \in Worker PROVE Preparing(q)'
      BY <1>2, Fields, <3>1, <3>3, <3>4, SMTT(60) DEF Preparing, Wanted, Driving, Claimed
    <3>9. Sweeping'
      BY <1>2, <3>4 DEF Sweeping
    <3> QED
      BY <1>3, <3>5, <3>6, <3>7, <3>8, <3>9 DEF MountInv
  <2> QED
    BY <2>1, <2>2, <1>11 DEF SelectWorkspace, Advance
<1>12. ASSUME NEW p \in Worker, MarkAttempt(p) PROVE MountInv'
  <2>1. CASE workspace[Wanted(p)].attached = worker[p].for /\ ~workspace[Wanted(p)].attempted
    <3>1. /\ worker[p].at = "attempt"
          /\ worker[p].for \in Sandbox
          /\ box[worker[p].for].wants \in Workspace
          /\ workspace[box[worker[p].for].wants].attached = worker[p].for
          /\ ~workspace[box[worker[p].for].wants].attempted
      BY <1>12, <2>1, <1>2, Fields DEF MarkAttempt, Advance, Preparing, Claimed, Driving, Wanted, Life
    <3>2. workspace' = [workspace EXCEPT ![box[worker[p].for].wants] = [@ EXCEPT !.provisioned = TRUE, !.attempted = TRUE]]
      BY <1>12, <2>1 DEF MarkAttempt, Advance, Wanted
    <3>3. /\ workspace'[box[worker[p].for].wants].attached = workspace[box[worker[p].for].wants].attached
          /\ workspace'[box[worker[p].for].wants].provisioned = TRUE
          /\ workspace'[box[worker[p].for].wants].attempted = TRUE
          /\ workspace'[box[worker[p].for].wants].archived = workspace[box[worker[p].for].wants].archived
          /\ \A z \in Workspace : z # box[worker[p].for].wants => workspace'[z] = workspace[z]
      BY <1>1, <3>1, <3>2 DEF Retained
    <3>4. worker' = [worker EXCEPT ![p].at = "dispatch"]
      BY <1>12, <2>1 DEF MarkAttempt, Advance
    <3>5. /\ worker'[p].at = "dispatch"
          /\ worker'[p].for = worker[p].for
          /\ worker'[p].fresh = worker[p].fresh
          /\ \A z \in Worker : z # p => worker'[z] = worker[z]
      BY <1>1, <3>1, <3>4 DEF Place
    <3>6. UNCHANGED <<box, runtime, createIfMissing, volume, sweep>>
      BY <1>12, <2>1 DEF MarkAttempt, Advance, provider, scheduler
    <3>7. ASSUME NEW x \in Sandbox PROVE Life(x)'
      BY <1>2, <3>6 DEF Life, Undispatched
    <3>8. ASSUME NEW x \in Sandbox PROVE Mounting(x)'
      BY <1>2, Fields, <3>1, <3>3, <3>5, <3>6, SMTT(60) DEF Mounting, Life, Undispatched
    <3>9. ASSUME NEW v \in Workspace PROVE Reserved(v)'
      BY <1>2, Fields, <3>1, <3>3, <3>5, <3>6, SMTT(60) DEF Reserved
    <3>10. ASSUME NEW q \in Worker PROVE Preparing(q)'
      <4>1. CASE q = p
        <5>1. worker[p].fresh => ~workspace[box[worker[p].for].wants].provisioned
          BY <1>2, <3>1, ZenonT(60) DEF Preparing, Wanted
        <5>2. worker[p].fresh => volume[box[worker[p].for].wants] = "none"
          BY <5>1, <3>1, <1>2, ZenonT(60) DEF Reserved
        <5>3. box[worker[p].for].status # "none"
          BY <1>2, <3>1 DEF Preparing
        <5> QED
          BY <3>1, <3>3, <3>5, <3>6, <4>1, <5>2, <5>3, SMTT(30) DEF Preparing, Wanted, Driving, Claimed
      <4>2. CASE q # p
        <5>1. Preparing(q) /\ worker'[q] = worker[q]
          BY <1>2, <3>5, <4>2
        <5>2. CASE worker[q].at = "idle"
          BY <5>1, <5>2 DEF Preparing
        <5>3. CASE worker[q].at # "idle"
          <6>1. box[worker[q].for].wants \in Workspace
            BY <5>1, <5>3, <1>2 DEF Preparing, Life
          <6>2. CASE box[worker[q].for].wants = box[worker[p].for].wants
            BY <3>1, <3>3, <3>6, <5>1, <6>1, <6>2 DEF Preparing, Wanted, Driving, Claimed
          <6>3. CASE box[worker[q].for].wants # box[worker[p].for].wants
            <7>1. workspace'[box[worker[q].for].wants] = workspace[box[worker[q].for].wants]
              BY <3>3, <6>1, <6>3
            <7> QED
              BY <3>6, <5>1, <7>1 DEF Preparing, Wanted, Driving, Claimed
          <6> QED
            BY <6>2, <6>3
        <5> QED
          BY <5>2, <5>3
      <4> QED
        BY <4>1, <4>2
    <3>11. Sweeping'
      BY <1>2, <3>6 DEF Sweeping
    <3> QED
      BY <1>3, <3>7, <3>8, <3>9, <3>10, <3>11 DEF MountInv
  <2>2. CASE ~(workspace[Wanted(p)].attached = worker[p].for /\ ~workspace[Wanted(p)].attempted)
    <3>1. /\ worker[p].at = "attempt"
          /\ worker[p].for \in Sandbox
      BY <1>12, <2>2, <1>2, Fields DEF MarkAttempt, Advance, Preparing, Claimed, Driving, Wanted, Life
    <3>2. worker' = [worker EXCEPT ![p].at = "abort"]
      BY <1>12, <2>2 DEF MarkAttempt, Advance
    <3>3. /\ worker'[p].at = "abort"
          /\ worker'[p].for = worker[p].for
          /\ worker'[p].fresh = worker[p].fresh
          /\ \A z \in Worker : z # p => worker'[z] = worker[z]
      BY <1>1, <3>1, <3>2 DEF Place
    <3>4. UNCHANGED <<workspace, box, runtime, createIfMissing, volume, sweep>>
      BY <1>12, <2>2 DEF MarkAttempt, Advance, provider, scheduler
    <3>5. ASSUME NEW x \in Sandbox PROVE Life(x)'
      BY <1>2, <3>4 DEF Life, Undispatched
    <3>6. ASSUME NEW x \in Sandbox PROVE Mounting(x)'
      BY <1>2, <3>4 DEF Mounting
    <3>7. ASSUME NEW v \in Workspace PROVE Reserved(v)'
      BY <1>2, <3>4 DEF Reserved
    <3>8. ASSUME NEW q \in Worker PROVE Preparing(q)'
      BY <1>2, Fields, <3>1, <3>3, <3>4, SMTT(60) DEF Preparing, Wanted, Driving, Claimed
    <3>9. Sweeping'
      BY <1>2, <3>4 DEF Sweeping
    <3> QED
      BY <1>3, <3>5, <3>6, <3>7, <3>8, <3>9 DEF MountInv
  <2> QED
    BY <2>1, <2>2, <1>12 DEF MarkAttempt, Advance
<1>13. ASSUME NEW p \in Worker, AbortProvision(p) PROVE MountInv'
  <2>1. CASE Driving(p) \/ (worker[p].at = "begin" /\ Claimed(p))
    <3>1. /\ worker[p].at # "idle"
          /\ worker[p].for \in Sandbox
          /\ box[worker[p].for].effect \in {"none", "intent"}
          /\ box[worker[p].for].operation = "running"
      BY <1>13, <2>1, <1>2, Fields DEF AbortProvision, Idle, IdleWorker, Preparing, Claimed, Driving, Wanted, Life
    <3>2. worker' = [worker EXCEPT ![p] = IdleWorker]
      BY <1>13, <2>1 DEF AbortProvision, Idle, IdleWorker
    <3>3. /\ worker'[p].at = "idle"
          /\ worker'[p].for = Nobody
          /\ worker'[p].fresh = FALSE
          /\ \A z \in Worker : z # p => worker'[z] = worker[z]
      BY <1>1, <3>1, <3>2 DEF Place, IdleWorker
    <3>4. box' = [box EXCEPT ![worker[p].for] = [@ EXCEPT !.effect = "none", !.operation = "failed"]]
      BY <1>13, <2>1 DEF AbortProvision, Idle, IdleWorker
    <3>5. /\ box'[worker[p].for].status = box[worker[p].for].status
          /\ box'[worker[p].for].wants = box[worker[p].for].wants
          /\ box'[worker[p].for].known = box[worker[p].for].known
          /\ box'[worker[p].for].operation = "failed"
          /\ box'[worker[p].for].effect = "none"
          /\ box'[worker[p].for].owner = box[worker[p].for].owner
          /\ \A z \in Sandbox : z # worker[p].for => box'[z] = box[z]
      BY <1>1, <3>1, <3>4 DEF Box
    <3>6. UNCHANGED <<workspace, runtime, createIfMissing, volume, sweep>>
      BY <1>13, <2>1 DEF AbortProvision, Idle, IdleWorker, provider, scheduler
    <3>7. ASSUME NEW x \in Sandbox PROVE Life(x)'
      BY <1>2, Fields, <3>1, <3>3, <3>5, <3>6, SMTT(60) DEF Life, Undispatched
    <3>8. ASSUME NEW x \in Sandbox PROVE Mounting(x)'
      BY <1>2, Fields, <3>1, <3>3, <3>5, <3>6, SMTT(60) DEF Mounting
    <3>9. ASSUME NEW v \in Workspace PROVE Reserved(v)'
      BY <1>2, Fields, <3>1, <3>3, <3>5, <3>6, SMTT(60) DEF Reserved
    <3>10. ASSUME NEW q \in Worker PROVE Preparing(q)'
      BY <1>2, Fields, <3>1, <3>3, <3>5, <3>6, SMTT(60) DEF Preparing, Wanted, Driving, Claimed
    <3>11. Sweeping'
      BY <1>2, Fields, <3>1, <3>3, <3>5, <3>6, SMTT(60) DEF Sweeping
    <3> QED
      BY <1>3, <3>7, <3>8, <3>9, <3>10, <3>11 DEF MountInv
  <2>2. CASE ~(Driving(p) \/ (worker[p].at = "begin" /\ Claimed(p)))
    <3>1. worker[p].at # "idle"
      BY <1>13, <2>2 DEF AbortProvision, Idle, IdleWorker
    <3>2. worker' = [worker EXCEPT ![p] = IdleWorker]
      BY <1>13, <2>2 DEF AbortProvision, Idle, IdleWorker
    <3>3. /\ worker'[p].at = "idle"
          /\ worker'[p].for = Nobody
          /\ worker'[p].fresh = FALSE
          /\ \A z \in Worker : z # p => worker'[z] = worker[z]
      BY <1>1, <3>1, <3>2 DEF Place, IdleWorker
    <3>4. UNCHANGED <<workspace, box, runtime, createIfMissing, volume, sweep>>
      BY <1>13, <2>2 DEF AbortProvision, Idle, IdleWorker, provider, scheduler
    <3>5. ASSUME NEW x \in Sandbox PROVE Life(x)'
      BY <1>2, <3>4 DEF Life, Undispatched
    <3>6. ASSUME NEW x \in Sandbox PROVE Mounting(x)'
      BY <1>2, <3>4 DEF Mounting
    <3>7. ASSUME NEW v \in Workspace PROVE Reserved(v)'
      BY <1>2, <3>4 DEF Reserved
    <3>8. ASSUME NEW q \in Worker PROVE Preparing(q)'
      BY <1>2, Fields, <3>1, <3>3, <3>4, SMTT(60) DEF Preparing, Wanted, Driving, Claimed
    <3>9. Sweeping'
      BY <1>2, <3>4 DEF Sweeping
    <3> QED
      BY <1>3, <3>5, <3>6, <3>7, <3>8, <3>9 DEF MountInv
  <2> QED
    BY <2>1, <2>2, <1>13 DEF AbortProvision, Idle, IdleWorker
<1>14. ASSUME NEW p \in Worker, Dispatch(p) PROVE MountInv'
  <2>1. /\ worker[p].at = "dispatch"
        /\ Driving(p)
        /\ worker[p].for \in Sandbox
    BY <1>14, <1>2, Fields DEF Dispatch, Advance, Preparing, Claimed, Driving, Wanted, Life
  <2>2. box' = [box EXCEPT ![worker[p].for].effect = "sent"]
    BY <1>14 DEF Dispatch, Advance
  <2>3. /\ box'[worker[p].for].status = box[worker[p].for].status
        /\ box'[worker[p].for].wants = box[worker[p].for].wants
        /\ box'[worker[p].for].known = box[worker[p].for].known
        /\ box'[worker[p].for].operation = box[worker[p].for].operation
        /\ box'[worker[p].for].effect = "sent"
        /\ box'[worker[p].for].owner = box[worker[p].for].owner
        /\ \A z \in Sandbox : z # worker[p].for => box'[z] = box[z]
    BY <1>1, <2>1, <2>2 DEF Box
  <2>4. runtime' = [runtime EXCEPT ![worker[p].for] = "requested"]
    BY <1>14 DEF Dispatch, Advance
  <2>5. /\ runtime'[worker[p].for] = "requested"
        /\ \A z \in Sandbox : z # worker[p].for => runtime'[z] = runtime[z]
    BY <1>1, <2>1, <2>4
  <2>6. createIfMissing' = [createIfMissing EXCEPT ![worker[p].for] = worker[p].fresh]
    BY <1>14 DEF Dispatch, Advance
  <2>7. /\ createIfMissing'[worker[p].for] = worker[p].fresh
        /\ \A z \in Sandbox : z # worker[p].for => createIfMissing'[z] = createIfMissing[z]
    BY <1>1, <2>1, <2>6
  <2>8. worker' = [worker EXCEPT ![p].at = "answer"]
    BY <1>14 DEF Dispatch, Advance
  <2>9. /\ worker'[p].at = "answer"
        /\ worker'[p].for = worker[p].for
        /\ worker'[p].fresh = worker[p].fresh
        /\ \A z \in Worker : z # p => worker'[z] = worker[z]
    BY <1>1, <2>1, <2>8 DEF Place
  <2>10. UNCHANGED <<workspace, volume, sweep>>
    BY <1>14 DEF Dispatch, Advance, provider, scheduler
  <2>11. ASSUME NEW x \in Sandbox PROVE Life(x)'
    BY <1>2, Fields, <2>1, <2>3, <2>5, <2>7, <2>9, <2>10, SMTT(60) DEF Life, Undispatched, Preparing, Wanted, Driving, Claimed
  <2>12. ASSUME NEW x \in Sandbox PROVE Mounting(x)'
    BY <1>2, Fields, <2>1, <2>3, <2>5, <2>7, <2>9, <2>10, SMTT(60) DEF Mounting, Life, Undispatched, Preparing, Wanted, Driving, Claimed
  <2>13. ASSUME NEW v \in Workspace PROVE Reserved(v)'
    BY <1>2, Fields, <2>1, <2>3, <2>5, <2>7, <2>9, <2>10, SMTT(60) DEF Reserved
  <2>14. ASSUME NEW q \in Worker PROVE Preparing(q)'
    BY <1>2, Fields, <2>1, <2>3, <2>5, <2>7, <2>9, <2>10, SMTT(60) DEF Preparing, Wanted, Driving, Claimed
  <2>15. Sweeping'
    BY <1>2, Fields, <2>1, <2>3, <2>5, <2>7, <2>9, <2>10, SMTT(60) DEF Life, Undispatched, Mounting, Reserved, Preparing, Wanted, Driving, Claimed, Sweeping
  <2> QED
    BY <1>3, <2>11, <2>12, <2>13, <2>14, <2>15 DEF MountInv
<1>15. ASSUME NEW p \in Worker, Acknowledge(p) PROVE MountInv'
  <2>1. CASE box[worker[p].for].effect = "sent" /\ box[worker[p].for].owner = p
    <3>1. /\ worker[p].at = "answer"
          /\ worker[p].for \in Sandbox
          /\ runtime[worker[p].for] \in {"live", "gone"}
      BY <1>15, <2>1, <1>2, Fields DEF Acknowledge, Advance, Idle, IdleWorker, Preparing, Claimed, Driving, Wanted, Life
    <3>2. box' = [box EXCEPT ![worker[p].for].effect = "acknowledged"]
      BY <1>15, <2>1 DEF Acknowledge, Advance, Idle, IdleWorker
    <3>3. /\ box'[worker[p].for].status = box[worker[p].for].status
          /\ box'[worker[p].for].wants = box[worker[p].for].wants
          /\ box'[worker[p].for].known = box[worker[p].for].known
          /\ box'[worker[p].for].operation = box[worker[p].for].operation
          /\ box'[worker[p].for].effect = "acknowledged"
          /\ box'[worker[p].for].owner = box[worker[p].for].owner
          /\ \A z \in Sandbox : z # worker[p].for => box'[z] = box[z]
      BY <1>1, <3>1, <3>2 DEF Box
    <3>4. worker' = [worker EXCEPT ![p].at = "persist"]
      BY <1>15, <2>1 DEF Acknowledge, Advance, Idle, IdleWorker
    <3>5. /\ worker'[p].at = "persist"
          /\ worker'[p].for = worker[p].for
          /\ worker'[p].fresh = worker[p].fresh
          /\ \A z \in Worker : z # p => worker'[z] = worker[z]
      BY <1>1, <3>1, <3>4 DEF Place
    <3>6. UNCHANGED <<workspace, runtime, createIfMissing, volume, sweep>>
      BY <1>15, <2>1 DEF Acknowledge, Advance, Idle, IdleWorker, provider, scheduler
    <3>7. ASSUME NEW x \in Sandbox PROVE Life(x)'
      BY <2>1, <1>2, Fields, <3>1, <3>3, <3>5, <3>6, SMTT(60) DEF Life, Undispatched
    <3>8. ASSUME NEW x \in Sandbox PROVE Mounting(x)'
      BY <2>1, <1>2, Fields, <3>1, <3>3, <3>5, <3>6, SMTT(60) DEF Mounting
    <3>9. ASSUME NEW v \in Workspace PROVE Reserved(v)'
      BY <2>1, <1>2, Fields, <3>1, <3>3, <3>5, <3>6, SMTT(60) DEF Reserved
    <3>10. ASSUME NEW q \in Worker PROVE Preparing(q)'
      BY <2>1, <1>2, Fields, <3>1, <3>3, <3>5, <3>6, SMTT(60) DEF Preparing, Wanted, Driving, Claimed
    <3>11. Sweeping'
      BY <2>1, <1>2, Fields, <3>1, <3>3, <3>5, <3>6, SMTT(60) DEF Sweeping
    <3> QED
      BY <1>3, <3>7, <3>8, <3>9, <3>10, <3>11 DEF MountInv
  <2>2. CASE ~(box[worker[p].for].effect = "sent" /\ box[worker[p].for].owner = p)
    <3>1. worker[p].at = "answer"
      BY <1>15, <2>2 DEF Acknowledge, Advance, Idle, IdleWorker
    <3>2. worker' = [worker EXCEPT ![p] = IdleWorker]
      BY <1>15, <2>2 DEF Acknowledge, Advance, Idle, IdleWorker
    <3>3. /\ worker'[p].at = "idle"
          /\ worker'[p].for = Nobody
          /\ worker'[p].fresh = FALSE
          /\ \A z \in Worker : z # p => worker'[z] = worker[z]
      BY <1>1, <3>1, <3>2 DEF Place, IdleWorker
    <3>4. UNCHANGED <<workspace, box, runtime, createIfMissing, volume, sweep>>
      BY <1>15, <2>2 DEF Acknowledge, Advance, Idle, IdleWorker, provider, scheduler
    <3>5. ASSUME NEW x \in Sandbox PROVE Life(x)'
      BY <1>2, <3>4 DEF Life, Undispatched
    <3>6. ASSUME NEW x \in Sandbox PROVE Mounting(x)'
      BY <1>2, <3>4 DEF Mounting
    <3>7. ASSUME NEW v \in Workspace PROVE Reserved(v)'
      BY <1>2, <3>4 DEF Reserved
    <3>8. ASSUME NEW q \in Worker PROVE Preparing(q)'
      BY <2>2, <1>2, Fields, <3>1, <3>3, <3>4, SMTT(60) DEF Preparing, Wanted, Driving, Claimed
    <3>9. Sweeping'
      BY <1>2, <3>4 DEF Sweeping
    <3> QED
      BY <1>3, <3>5, <3>6, <3>7, <3>8, <3>9 DEF MountInv
  <2> QED
    BY <2>1, <2>2, <1>15 DEF Acknowledge, Advance, Idle, IdleWorker
<1>16. ASSUME NEW p \in Worker, PersistIdentity(p) PROVE MountInv'
  <2>1. CASE box[worker[p].for].effect = "acknowledged" /\ box' = [box EXCEPT ![worker[p].for] = [@ EXCEPT !.known = TRUE, !.status = "running", !.operation = "succeeded", !.effect = "none"]]
    <3>1. /\ worker[p].at = "persist"
          /\ worker[p].for \in Sandbox
      BY <1>16, <2>1, <1>2, Fields DEF PersistIdentity, Idle, IdleWorker, Preparing, Claimed, Driving, Wanted, Life
    <3>2. box' = [box EXCEPT ![worker[p].for] = [@ EXCEPT !.known = TRUE, !.status = "running", !.operation = "succeeded", !.effect = "none"]]
      BY <1>16, <2>1 DEF PersistIdentity, Idle, IdleWorker
    <3>3. /\ box'[worker[p].for].status = "running"
          /\ box'[worker[p].for].wants = box[worker[p].for].wants
          /\ box'[worker[p].for].known = TRUE
          /\ box'[worker[p].for].operation = "succeeded"
          /\ box'[worker[p].for].effect = "none"
          /\ box'[worker[p].for].owner = box[worker[p].for].owner
          /\ \A z \in Sandbox : z # worker[p].for => box'[z] = box[z]
      BY <1>1, <3>1, <3>2 DEF Box
    <3>4. worker' = [worker EXCEPT ![p] = IdleWorker]
      BY <1>16, <2>1 DEF PersistIdentity, Idle, IdleWorker
    <3>5. /\ worker'[p].at = "idle"
          /\ worker'[p].for = Nobody
          /\ worker'[p].fresh = FALSE
          /\ \A z \in Worker : z # p => worker'[z] = worker[z]
      BY <1>1, <3>1, <3>4 DEF Place, IdleWorker
    <3>6. UNCHANGED <<workspace, runtime, createIfMissing, volume, sweep>>
      BY <1>16, <2>1 DEF PersistIdentity, Idle, IdleWorker, provider, scheduler
    <3>7. ASSUME NEW x \in Sandbox PROVE Life(x)'
      BY <1>2, Fields, <3>1, <3>3, <3>5, <3>6, SMTT(60) DEF Life, Undispatched, Preparing, Wanted, Driving, Claimed
    <3>8. ASSUME NEW x \in Sandbox PROVE Mounting(x)'
      BY <1>2, Fields, <3>1, <3>3, <3>5, <3>6, SMTT(60) DEF Mounting
    <3>9. ASSUME NEW v \in Workspace PROVE Reserved(v)'
      BY <1>2, Fields, <3>1, <3>3, <3>5, <3>6, SMTT(60) DEF Reserved
    <3>10. ASSUME NEW q \in Worker PROVE Preparing(q)'
      BY <1>2, Fields, <3>1, <3>3, <3>5, <3>6, SMTT(60) DEF Preparing, Wanted, Driving, Claimed
    <3>11. Sweeping'
      BY <1>2, Fields, <3>1, <3>3, <3>5, <3>6, SMTT(60) DEF Sweeping
    <3> QED
      BY <1>3, <3>7, <3>8, <3>9, <3>10, <3>11 DEF MountInv
  <2>2. CASE box[worker[p].for].effect = "acknowledged" /\ box' = [box EXCEPT ![worker[p].for] = [[@ EXCEPT !.known = TRUE, !.status = "running", !.operation = "succeeded", !.effect = "none"] EXCEPT !.status = "error", !.operation = "failed", !.effect = "delete"]]
    <3>1. /\ worker[p].at = "persist"
          /\ worker[p].for \in Sandbox
      BY <1>16, <2>2, <1>2, Fields DEF PersistIdentity, Idle, IdleWorker, Preparing, Claimed, Driving, Wanted, Life
    <3>2. box' = [box EXCEPT ![worker[p].for] = [[@ EXCEPT !.known = TRUE, !.status = "running", !.operation = "succeeded", !.effect = "none"] EXCEPT !.status = "error", !.operation = "failed", !.effect = "delete"]]
      BY <1>16, <2>2 DEF PersistIdentity, Idle, IdleWorker
    <3>3. /\ box'[worker[p].for].status = "error"
          /\ box'[worker[p].for].wants = box[worker[p].for].wants
          /\ box'[worker[p].for].known = TRUE
          /\ box'[worker[p].for].operation = "failed"
          /\ box'[worker[p].for].effect = "delete"
          /\ box'[worker[p].for].owner = box[worker[p].for].owner
          /\ \A z \in Sandbox : z # worker[p].for => box'[z] = box[z]
      BY <1>1, <3>1, <3>2 DEF Box
    <3>4. worker' = [worker EXCEPT ![p] = IdleWorker]
      BY <1>16, <2>2 DEF PersistIdentity, Idle, IdleWorker
    <3>5. /\ worker'[p].at = "idle"
          /\ worker'[p].for = Nobody
          /\ worker'[p].fresh = FALSE
          /\ \A z \in Worker : z # p => worker'[z] = worker[z]
      BY <1>1, <3>1, <3>4 DEF Place, IdleWorker
    <3>6. UNCHANGED <<workspace, runtime, createIfMissing, volume, sweep>>
      BY <1>16, <2>2 DEF PersistIdentity, Idle, IdleWorker, provider, scheduler
    <3>7. ASSUME NEW x \in Sandbox PROVE Life(x)'
      BY <1>2, Fields, <3>1, <3>3, <3>5, <3>6, SMTT(60) DEF Life, Undispatched, Preparing, Wanted, Driving, Claimed
    <3>8. ASSUME NEW x \in Sandbox PROVE Mounting(x)'
      BY <1>2, Fields, <3>1, <3>3, <3>5, <3>6, SMTT(60) DEF Mounting
    <3>9. ASSUME NEW v \in Workspace PROVE Reserved(v)'
      BY <1>2, Fields, <3>1, <3>3, <3>5, <3>6, SMTT(60) DEF Reserved
    <3>10. ASSUME NEW q \in Worker PROVE Preparing(q)'
      BY <1>2, Fields, <3>1, <3>3, <3>5, <3>6, SMTT(60) DEF Preparing, Wanted, Driving, Claimed
    <3>11. Sweeping'
      BY <1>2, Fields, <3>1, <3>3, <3>5, <3>6, SMTT(60) DEF Sweeping
    <3> QED
      BY <1>3, <3>7, <3>8, <3>9, <3>10, <3>11 DEF MountInv
  <2>3. CASE box' = box
    <3>1. worker[p].at = "persist"
      BY <1>16, <2>3 DEF PersistIdentity, Idle, IdleWorker
    <3>2. worker' = [worker EXCEPT ![p] = IdleWorker]
      BY <1>16, <2>3 DEF PersistIdentity, Idle, IdleWorker
    <3>3. /\ worker'[p].at = "idle"
          /\ worker'[p].for = Nobody
          /\ worker'[p].fresh = FALSE
          /\ \A z \in Worker : z # p => worker'[z] = worker[z]
      BY <1>1, <3>1, <3>2 DEF Place, IdleWorker
    <3>4. UNCHANGED <<workspace, box, runtime, createIfMissing, volume, sweep>>
      BY <1>16, <2>3 DEF PersistIdentity, Idle, IdleWorker, provider, scheduler
    <3>5. ASSUME NEW x \in Sandbox PROVE Life(x)'
      BY <1>2, <3>4 DEF Life, Undispatched
    <3>6. ASSUME NEW x \in Sandbox PROVE Mounting(x)'
      BY <1>2, <3>4 DEF Mounting
    <3>7. ASSUME NEW v \in Workspace PROVE Reserved(v)'
      BY <1>2, <3>4 DEF Reserved
    <3>8. ASSUME NEW q \in Worker PROVE Preparing(q)'
      BY <2>3, <1>2, Fields, <3>1, <3>3, <3>4, SMTT(60) DEF Preparing, Wanted, Driving, Claimed
    <3>9. Sweeping'
      BY <1>2, <3>4 DEF Sweeping
    <3> QED
      BY <1>3, <3>5, <3>6, <3>7, <3>8, <3>9 DEF MountInv
  <2> QED
    BY <2>1, <2>2, <2>3, <1>16 DEF PersistIdentity, Idle, IdleWorker
<1>17. ASSUME NEW p \in Worker, Crash(p) PROVE MountInv'
  <2>1. worker[p].at # "idle"
    BY <1>17 DEF Crash, Idle, IdleWorker
  <2>2. worker' = [worker EXCEPT ![p] = IdleWorker]
    BY <1>17 DEF Crash, Idle, IdleWorker
  <2>3. /\ worker'[p].at = "idle"
        /\ worker'[p].for = Nobody
        /\ worker'[p].fresh = FALSE
        /\ \A z \in Worker : z # p => worker'[z] = worker[z]
    BY <1>1, <2>1, <2>2 DEF Place, IdleWorker
  <2>4. UNCHANGED <<workspace, box, runtime, createIfMissing, volume, sweep>>
    BY <1>17 DEF Crash, Idle, IdleWorker, provider, scheduler
  <2>5. ASSUME NEW x \in Sandbox PROVE Life(x)'
    BY <1>2, <2>4 DEF Life, Undispatched
  <2>6. ASSUME NEW x \in Sandbox PROVE Mounting(x)'
    BY <1>2, <2>4 DEF Mounting
  <2>7. ASSUME NEW v \in Workspace PROVE Reserved(v)'
    BY <1>2, <2>4 DEF Reserved
  <2>8. ASSUME NEW q \in Worker PROVE Preparing(q)'
    BY <1>2, Fields, <2>1, <2>3, <2>4, SMTT(60) DEF Preparing, Wanted, Driving, Claimed
  <2>9. Sweeping'
    BY <1>2, <2>4 DEF Sweeping
  <2> QED
    BY <1>3, <2>5, <2>6, <2>7, <2>8, <2>9 DEF MountInv
<1>18. ASSUME NEW s \in Sandbox, CancelBeforeDispatch(s) PROVE MountInv'
  <2>1. CASE box' = [box EXCEPT ![s] = [@ EXCEPT !.status = "terminated", !.operation = "canceled", !.effect = "none"]]
    <3>1. /\ box[s].status = "pending"
          /\ ~box[s].known
          /\ box[s].effect \in {"none", "prepare", "intent"}
          /\ box[s].effect # "none" \/ box[s].operation \in {"queued", "running"}
      BY <1>18, <2>1 DEF CancelBeforeDispatch, StopPending, CancelUndispatched, Terminate, ReleaseUnattempted
    <3>2. box' = [box EXCEPT ![s] = [@ EXCEPT !.status = "terminated", !.operation = "canceled", !.effect = "none"]]
      BY <1>18, <2>1 DEF CancelBeforeDispatch, StopPending, CancelUndispatched, Terminate, ReleaseUnattempted
    <3>3. /\ box'[s].status = "terminated"
          /\ box'[s].wants = box[s].wants
          /\ box'[s].known = box[s].known
          /\ box'[s].operation = "canceled"
          /\ box'[s].effect = "none"
          /\ box'[s].owner = box[s].owner
          /\ \A z \in Sandbox : z # s => box'[z] = box[z]
      BY <1>1, <3>1, <3>2 DEF Box
    <3>4. workspace' = [w \in Workspace |-> IF workspace[w].attached = s /\ ~workspace[w].attempted
             THEN [workspace[w] EXCEPT !.attached = Nobody] ELSE workspace[w]]
      BY <1>18, <2>1 DEF CancelBeforeDispatch, StopPending, CancelUndispatched, Terminate, ReleaseUnattempted
    <3>5. /\ \A v \in Workspace : workspace'[v].attached = (IF workspace[v].attached = s /\ ~workspace[v].attempted THEN Nobody ELSE workspace[v].attached)
          /\ \A v \in Workspace : workspace'[v].provisioned = workspace[v].provisioned
          /\ \A v \in Workspace : workspace'[v].attempted = workspace[v].attempted
          /\ \A v \in Workspace : workspace'[v].archived = workspace[v].archived
      BY <1>1, <3>1, <3>4 DEF Retained
    <3>6. UNCHANGED <<runtime, createIfMissing, volume, worker, sweep>>
      BY <1>18, <2>1 DEF CancelBeforeDispatch, StopPending, CancelUndispatched, Terminate, ReleaseUnattempted, provider, scheduler
    <3>7. ASSUME NEW x \in Sandbox PROVE Life(x)'
      BY <1>2, Fields, <3>1, <3>3, <3>5, <3>6, SMTT(60) DEF Life, Undispatched
    <3>8. ASSUME NEW x \in Sandbox PROVE Mounting(x)'
      BY <1>2, Fields, <3>1, <3>3, <3>5, <3>6, SMTT(60) DEF Mounting, Life, Undispatched
    <3>9. ASSUME NEW v \in Workspace PROVE Reserved(v)'
      BY <1>2, Fields, <3>1, <3>3, <3>5, <3>6, SMTT(60) DEF Reserved
    <3>10. ASSUME NEW q \in Worker PROVE Preparing(q)'
      BY <1>2, Fields, <3>1, <3>3, <3>5, <3>6, SMTT(60) DEF Preparing, Wanted, Driving, Claimed, Life, Undispatched
    <3>11. Sweeping'
      BY <1>2, Fields, <3>1, <3>3, <3>5, <3>6, SMTT(60) DEF Sweeping
    <3> QED
      BY <1>3, <3>7, <3>8, <3>9, <3>10, <3>11 DEF MountInv
  <2>2. CASE box' = [box EXCEPT ![s] = [@ EXCEPT !.status = "terminated", !.operation = "failed", !.effect = "none"]]
    <3>1. /\ box[s].status = "pending"
          /\ ~box[s].known
          /\ box[s].effect \in {"none", "prepare", "intent"}
          /\ box[s].effect # "none" \/ box[s].operation \in {"queued", "running"}
      BY <1>18, <2>2 DEF CancelBeforeDispatch, StopPending, CancelUndispatched, Terminate, ReleaseUnattempted
    <3>2. box' = [box EXCEPT ![s] = [@ EXCEPT !.status = "terminated", !.operation = "failed", !.effect = "none"]]
      BY <1>18, <2>2 DEF CancelBeforeDispatch, StopPending, CancelUndispatched, Terminate, ReleaseUnattempted
    <3>3. /\ box'[s].status = "terminated"
          /\ box'[s].wants = box[s].wants
          /\ box'[s].known = box[s].known
          /\ box'[s].operation = "failed"
          /\ box'[s].effect = "none"
          /\ box'[s].owner = box[s].owner
          /\ \A z \in Sandbox : z # s => box'[z] = box[z]
      BY <1>1, <3>1, <3>2 DEF Box
    <3>4. workspace' = [w \in Workspace |-> IF workspace[w].attached = s /\ ~workspace[w].attempted
             THEN [workspace[w] EXCEPT !.attached = Nobody] ELSE workspace[w]]
      BY <1>18, <2>2 DEF CancelBeforeDispatch, StopPending, CancelUndispatched, Terminate, ReleaseUnattempted
    <3>5. /\ \A v \in Workspace : workspace'[v].attached = (IF workspace[v].attached = s /\ ~workspace[v].attempted THEN Nobody ELSE workspace[v].attached)
          /\ \A v \in Workspace : workspace'[v].provisioned = workspace[v].provisioned
          /\ \A v \in Workspace : workspace'[v].attempted = workspace[v].attempted
          /\ \A v \in Workspace : workspace'[v].archived = workspace[v].archived
      BY <1>1, <3>1, <3>4 DEF Retained
    <3>6. UNCHANGED <<runtime, createIfMissing, volume, worker, sweep>>
      BY <1>18, <2>2 DEF CancelBeforeDispatch, StopPending, CancelUndispatched, Terminate, ReleaseUnattempted, provider, scheduler
    <3>7. ASSUME NEW x \in Sandbox PROVE Life(x)'
      BY <1>2, Fields, <3>1, <3>3, <3>5, <3>6, SMTT(60) DEF Life, Undispatched
    <3>8. ASSUME NEW x \in Sandbox PROVE Mounting(x)'
      BY <1>2, Fields, <3>1, <3>3, <3>5, <3>6, SMTT(60) DEF Mounting, Life, Undispatched
    <3>9. ASSUME NEW v \in Workspace PROVE Reserved(v)'
      BY <1>2, Fields, <3>1, <3>3, <3>5, <3>6, SMTT(60) DEF Reserved
    <3>10. ASSUME NEW q \in Worker PROVE Preparing(q)'
      BY <1>2, Fields, <3>1, <3>3, <3>5, <3>6, SMTT(60) DEF Preparing, Wanted, Driving, Claimed, Life, Undispatched
    <3>11. Sweeping'
      BY <1>2, Fields, <3>1, <3>3, <3>5, <3>6, SMTT(60) DEF Sweeping
    <3> QED
      BY <1>3, <3>7, <3>8, <3>9, <3>10, <3>11 DEF MountInv
  <2> QED
    BY <2>1, <2>2, <1>18 DEF CancelBeforeDispatch, StopPending, CancelUndispatched, Terminate, ReleaseUnattempted
<1>19. ASSUME NEW s \in Sandbox, ReconcileStale(s) PROVE MountInv'
  <2>1. CASE ~box[s].secret /\ ~box[s].known /\ runtime[s] = "none"
    <3>1. /\ box[s].operation = "running"
          /\ box[s].effect = "none"
      BY <1>19, <2>1 DEF ReconcileStale
    <3>2. box' = [box EXCEPT ![s].operation = "queued"]
      BY <1>19, <2>1 DEF ReconcileStale
    <3>3. /\ box'[s].status = box[s].status
          /\ box'[s].wants = box[s].wants
          /\ box'[s].known = box[s].known
          /\ box'[s].operation = "queued"
          /\ box'[s].effect = box[s].effect
          /\ box'[s].owner = box[s].owner
          /\ \A z \in Sandbox : z # s => box'[z] = box[z]
      BY <1>1, <3>1, <3>2 DEF Box
    <3>4. UNCHANGED <<workspace, runtime, createIfMissing, volume, worker, sweep>>
      BY <1>19, <2>1 DEF ReconcileStale, provider, scheduler
    <3>5. ASSUME NEW x \in Sandbox PROVE Life(x)'
      BY <2>1, <1>2, Fields, <3>1, <3>3, <3>4, SMTT(60) DEF Life, Undispatched
    <3>6. ASSUME NEW x \in Sandbox PROVE Mounting(x)'
      BY <2>1, <1>2, Fields, <3>1, <3>3, <3>4, SMTT(60) DEF Mounting
    <3>7. ASSUME NEW v \in Workspace PROVE Reserved(v)'
      BY <2>1, <1>2, Fields, <3>1, <3>3, <3>4, SMTT(60) DEF Reserved
    <3>8. ASSUME NEW q \in Worker PROVE Preparing(q)'
      BY <2>1, <1>2, Fields, <3>1, <3>3, <3>4, SMTT(60) DEF Preparing, Wanted, Driving, Claimed
    <3>9. Sweeping'
      BY <2>1, <1>2, Fields, <3>1, <3>3, <3>4, SMTT(60) DEF Sweeping
    <3> QED
      BY <1>3, <3>5, <3>6, <3>7, <3>8, <3>9 DEF MountInv
  <2>2. CASE ~(~box[s].secret /\ ~box[s].known /\ runtime[s] = "none")
    <3>1. /\ box[s].operation = "running"
          /\ box[s].effect = "none"
      BY <1>19, <2>2 DEF ReconcileStale
    <3>2. box' = [box EXCEPT ![s].operation = "failed"]
      BY <1>19, <2>2 DEF ReconcileStale
    <3>3. /\ box'[s].status = box[s].status
          /\ box'[s].wants = box[s].wants
          /\ box'[s].known = box[s].known
          /\ box'[s].operation = "failed"
          /\ box'[s].effect = box[s].effect
          /\ box'[s].owner = box[s].owner
          /\ \A z \in Sandbox : z # s => box'[z] = box[z]
      BY <1>1, <3>1, <3>2 DEF Box
    <3>4. UNCHANGED <<workspace, runtime, createIfMissing, volume, worker, sweep>>
      BY <1>19, <2>2 DEF ReconcileStale, provider, scheduler
    <3>5. ASSUME NEW x \in Sandbox PROVE Life(x)'
      BY <2>2, <1>2, Fields, <3>1, <3>3, <3>4, SMTT(60) DEF Life, Undispatched
    <3>6. ASSUME NEW x \in Sandbox PROVE Mounting(x)'
      BY <2>2, <1>2, Fields, <3>1, <3>3, <3>4, SMTT(60) DEF Mounting
    <3>7. ASSUME NEW v \in Workspace PROVE Reserved(v)'
      BY <2>2, <1>2, Fields, <3>1, <3>3, <3>4, SMTT(60) DEF Reserved
    <3>8. ASSUME NEW q \in Worker PROVE Preparing(q)'
      BY <2>2, <1>2, Fields, <3>1, <3>3, <3>4, SMTT(60) DEF Preparing, Wanted, Driving, Claimed
    <3>9. Sweeping'
      BY <2>2, <1>2, Fields, <3>1, <3>3, <3>4, SMTT(60) DEF Sweeping
    <3> QED
      BY <1>3, <3>5, <3>6, <3>7, <3>8, <3>9 DEF MountInv
  <2> QED
    BY <2>1, <2>2, <1>19 DEF ReconcileStale
<1>20. ASSUME NEW s \in Sandbox, RecoverProvision(s) PROVE MountInv'
  <2>1. CASE runtime[s] = "live" /\ box[s].secret
    <3>1. box[s].effect \in {"sent", "acknowledged"}
      BY <1>20, <2>1 DEF RecoverProvision, Terminate
    <3>2. box' = [box EXCEPT ![s] = [@ EXCEPT !.known = TRUE, !.status = "error", !.operation = "failed", !.effect = "delete"]]
      BY <1>20, <2>1 DEF RecoverProvision, Terminate
    <3>3. /\ box'[s].status = "error"
          /\ box'[s].wants = box[s].wants
          /\ box'[s].known = TRUE
          /\ box'[s].operation = "failed"
          /\ box'[s].effect = "delete"
          /\ box'[s].owner = box[s].owner
          /\ \A z \in Sandbox : z # s => box'[z] = box[z]
      BY <1>1, <3>1, <3>2 DEF Box
    <3>4. UNCHANGED <<workspace, runtime, createIfMissing, volume, worker, sweep>>
      BY <1>20, <2>1 DEF RecoverProvision, Terminate, provider, scheduler
    <3>5. ASSUME NEW x \in Sandbox PROVE Life(x)'
      BY <2>1, <1>2, Fields, <3>1, <3>3, <3>4, SMTT(60) DEF Life, Undispatched
    <3>6. ASSUME NEW x \in Sandbox PROVE Mounting(x)'
      BY <2>1, <1>2, Fields, <3>1, <3>3, <3>4, SMTT(60) DEF Mounting
    <3>7. ASSUME NEW v \in Workspace PROVE Reserved(v)'
      BY <2>1, <1>2, Fields, <3>1, <3>3, <3>4, SMTT(60) DEF Reserved
    <3>8. ASSUME NEW q \in Worker PROVE Preparing(q)'
      BY <2>1, <1>2, Fields, <3>1, <3>3, <3>4, SMTT(60) DEF Preparing, Wanted, Driving, Claimed
    <3>9. Sweeping'
      BY <2>1, <1>2, Fields, <3>1, <3>3, <3>4, SMTT(60) DEF Sweeping
    <3> QED
      BY <1>3, <3>5, <3>6, <3>7, <3>8, <3>9 DEF MountInv
  <2>2. CASE runtime[s] = "live" /\ ~box[s].secret
    <3>1. box[s].effect \in {"sent", "acknowledged"}
      BY <1>20, <2>2 DEF RecoverProvision, Terminate
    <3>2. box' = [box EXCEPT ![s] = [@ EXCEPT !.known = TRUE, !.status = "running", !.operation = "succeeded", !.effect = "none"]]
      BY <1>20, <2>2 DEF RecoverProvision, Terminate
    <3>3. /\ box'[s].status = "running"
          /\ box'[s].wants = box[s].wants
          /\ box'[s].known = TRUE
          /\ box'[s].operation = "succeeded"
          /\ box'[s].effect = "none"
          /\ box'[s].owner = box[s].owner
          /\ \A z \in Sandbox : z # s => box'[z] = box[z]
      BY <1>1, <3>1, <3>2 DEF Box
    <3>4. UNCHANGED <<workspace, runtime, createIfMissing, volume, worker, sweep>>
      BY <1>20, <2>2 DEF RecoverProvision, Terminate, provider, scheduler
    <3>5. ASSUME NEW x \in Sandbox PROVE Life(x)'
      BY <2>2, <1>2, Fields, <3>1, <3>3, <3>4, SMTT(60) DEF Life, Undispatched
    <3>6. ASSUME NEW x \in Sandbox PROVE Mounting(x)'
      BY <2>2, <1>2, Fields, <3>1, <3>3, <3>4, SMTT(60) DEF Mounting
    <3>7. ASSUME NEW v \in Workspace PROVE Reserved(v)'
      BY <2>2, <1>2, Fields, <3>1, <3>3, <3>4, SMTT(60) DEF Reserved
    <3>8. ASSUME NEW q \in Worker PROVE Preparing(q)'
      BY <2>2, <1>2, Fields, <3>1, <3>3, <3>4, SMTT(60) DEF Preparing, Wanted, Driving, Claimed
    <3>9. Sweeping'
      BY <2>2, <1>2, Fields, <3>1, <3>3, <3>4, SMTT(60) DEF Sweeping
    <3> QED
      BY <1>3, <3>5, <3>6, <3>7, <3>8, <3>9 DEF MountInv
  <2>3. CASE runtime[s] # "live"
    <3>1. /\ box[s].effect \in {"sent", "acknowledged"}
          /\ runtime[s] = "gone"
      BY <1>20, <2>3 DEF RecoverProvision, Terminate
    <3>2. box' = [box EXCEPT ![s] = [@ EXCEPT !.status = "terminated", !.operation = "failed", !.effect = "none"]]
      BY <1>20, <2>3 DEF RecoverProvision, Terminate
    <3>3. /\ box'[s].status = "terminated"
          /\ box'[s].wants = box[s].wants
          /\ box'[s].known = box[s].known
          /\ box'[s].operation = "failed"
          /\ box'[s].effect = "none"
          /\ box'[s].owner = box[s].owner
          /\ \A z \in Sandbox : z # s => box'[z] = box[z]
      BY <1>1, <3>1, <3>2 DEF Box
    <3>4. UNCHANGED <<workspace, runtime, createIfMissing, volume, worker, sweep>>
      BY <1>20, <2>3 DEF RecoverProvision, Terminate, provider, scheduler
    <3>5. ASSUME NEW x \in Sandbox PROVE Life(x)'
      BY <2>3, <1>2, Fields, <3>1, <3>3, <3>4, SMTT(60) DEF Life, Undispatched
    <3>6. ASSUME NEW x \in Sandbox PROVE Mounting(x)'
      BY <2>3, <1>2, Fields, <3>1, <3>3, <3>4, SMTT(60) DEF Mounting
    <3>7. ASSUME NEW v \in Workspace PROVE Reserved(v)'
      BY <2>3, <1>2, Fields, <3>1, <3>3, <3>4, SMTT(60) DEF Reserved
    <3>8. ASSUME NEW q \in Worker PROVE Preparing(q)'
      BY <2>3, <1>2, Fields, <3>1, <3>3, <3>4, SMTT(60) DEF Preparing, Wanted, Driving, Claimed
    <3>9. Sweeping'
      BY <2>3, <1>2, Fields, <3>1, <3>3, <3>4, SMTT(60) DEF Sweeping
    <3> QED
      BY <1>3, <3>5, <3>6, <3>7, <3>8, <3>9 DEF MountInv
  <2> QED
    BY <2>1, <2>2, <2>3, <1>20 DEF RecoverProvision, Terminate
<1>21. ASSUME NEW s \in Sandbox, BeginDelete(s) PROVE MountInv'
  <2>1. /\ box[s].status \in {"running", "error"}
        /\ box[s].known
        /\ box[s].effect = "none"
    BY <1>21 DEF BeginDelete
  <2>2. box' = [box EXCEPT ![s].effect = "delete"]
    BY <1>21 DEF BeginDelete
  <2>3. /\ box'[s].status = box[s].status
        /\ box'[s].wants = box[s].wants
        /\ box'[s].known = box[s].known
        /\ box'[s].operation = box[s].operation
        /\ box'[s].effect = "delete"
        /\ box'[s].owner = box[s].owner
        /\ \A z \in Sandbox : z # s => box'[z] = box[z]
    BY <1>1, <2>1, <2>2 DEF Box
  <2>4. UNCHANGED <<workspace, runtime, createIfMissing, volume, worker, sweep>>
    BY <1>21 DEF BeginDelete, provider, scheduler
  <2>5. ASSUME NEW x \in Sandbox PROVE Life(x)'
    <3>1. CASE x = s
      BY <1>2, Fields, <2>1, <2>3, <2>4, <3>1, ZenonT(60) DEF Life, Undispatched
    <3>2. CASE x # s
      BY <1>2, <2>3, <2>4, <3>2 DEF Life, Undispatched
    <3> QED
      BY <3>1, <3>2
  <2>6. ASSUME NEW x \in Sandbox PROVE Mounting(x)'
    BY <1>2, Fields, <2>1, <2>3, <2>4, SMTT(60) DEF Mounting
  <2>7. ASSUME NEW v \in Workspace PROVE Reserved(v)'
    BY <1>2, Fields, <2>1, <2>3, <2>4, SMTT(60) DEF Reserved
  <2>8. ASSUME NEW q \in Worker PROVE Preparing(q)'
    BY <1>2, Fields, <2>1, <2>3, <2>4, SMTT(60) DEF Preparing, Wanted, Driving, Claimed, Life, Undispatched
  <2>9. Sweeping'
    BY <1>2, Fields, <2>1, <2>3, <2>4, SMTT(60) DEF Sweeping
  <2> QED
    BY <1>3, <2>5, <2>6, <2>7, <2>8, <2>9 DEF MountInv
<1>22. ASSUME NEW s \in Sandbox, EndDelete(s) PROVE MountInv'
  <2>1. CASE runtime[s] = "gone" /\ Terminate(s, box[s].operation)
    <3>1. box[s].effect = "delete"
      BY <1>22, <2>1 DEF EndDelete, Terminate
    <3>2. box' = [box EXCEPT ![s] = [@ EXCEPT !.status = "terminated", !.operation = box[s].operation, !.effect = "none"]]
      BY <1>22, <2>1 DEF EndDelete, Terminate
    <3>3. /\ box'[s].status = "terminated"
          /\ box'[s].wants = box[s].wants
          /\ box'[s].known = box[s].known
          /\ box'[s].operation = box[s].operation
          /\ box'[s].effect = "none"
          /\ box'[s].owner = box[s].owner
          /\ \A z \in Sandbox : z # s => box'[z] = box[z]
      BY <1>1, <3>1, <3>2 DEF Box
    <3>4. UNCHANGED <<workspace, runtime, createIfMissing, volume, worker, sweep>>
      BY <1>22, <2>1 DEF EndDelete, Terminate, provider, scheduler
    <3>5. ASSUME NEW x \in Sandbox PROVE Life(x)'
      BY <1>2, Fields, <3>1, <3>3, <3>4, SMTT(60) DEF Life, Undispatched
    <3>6. ASSUME NEW x \in Sandbox PROVE Mounting(x)'
      BY <1>2, Fields, <3>1, <3>3, <3>4, SMTT(60) DEF Mounting
    <3>7. ASSUME NEW v \in Workspace PROVE Reserved(v)'
      BY <1>2, Fields, <3>1, <3>3, <3>4, SMTT(60) DEF Reserved
    <3>8. ASSUME NEW q \in Worker PROVE Preparing(q)'
      BY <1>2, Fields, <3>1, <3>3, <3>4, SMTT(60) DEF Preparing, Wanted, Driving, Claimed
    <3>9. Sweeping'
      BY <1>2, Fields, <3>1, <3>3, <3>4, SMTT(60) DEF Sweeping
    <3> QED
      BY <1>3, <3>5, <3>6, <3>7, <3>8, <3>9 DEF MountInv
  <2>2. CASE box' = [box EXCEPT ![s].effect = "none"]
    <3>1. box[s].effect = "delete"
      BY <1>22, <2>2 DEF EndDelete, Terminate
    <3>2. box' = [box EXCEPT ![s].effect = "none"]
      BY <1>22, <2>2 DEF EndDelete, Terminate
    <3>3. /\ box'[s].status = box[s].status
          /\ box'[s].wants = box[s].wants
          /\ box'[s].known = box[s].known
          /\ box'[s].operation = box[s].operation
          /\ box'[s].effect = "none"
          /\ box'[s].owner = box[s].owner
          /\ \A z \in Sandbox : z # s => box'[z] = box[z]
      BY <1>1, <3>1, <3>2 DEF Box
    <3>4. UNCHANGED <<workspace, runtime, createIfMissing, volume, worker, sweep>>
      BY <1>22, <2>2 DEF EndDelete, Terminate, provider, scheduler
    <3>5. ASSUME NEW x \in Sandbox PROVE Life(x)'
      BY <1>2, Fields, <3>1, <3>3, <3>4, SMTT(60) DEF Life, Undispatched
    <3>6. ASSUME NEW x \in Sandbox PROVE Mounting(x)'
      BY <1>2, Fields, <3>1, <3>3, <3>4, SMTT(60) DEF Mounting
    <3>7. ASSUME NEW v \in Workspace PROVE Reserved(v)'
      BY <1>2, Fields, <3>1, <3>3, <3>4, SMTT(60) DEF Reserved
    <3>8. ASSUME NEW q \in Worker PROVE Preparing(q)'
      BY <1>2, Fields, <3>1, <3>3, <3>4, SMTT(60) DEF Preparing, Wanted, Driving, Claimed
    <3>9. Sweeping'
      BY <1>2, Fields, <3>1, <3>3, <3>4, SMTT(60) DEF Sweeping
    <3> QED
      BY <1>3, <3>5, <3>6, <3>7, <3>8, <3>9 DEF MountInv
  <2> QED
    BY <2>1, <2>2, <1>22 DEF EndDelete, Terminate
<1>23. ASSUME NEW s \in Sandbox, ReconcileLease(s) PROVE MountInv'
  <2>1. CASE runtime[s] = "gone"
    <3>1. /\ box[s].known
          /\ box[s].effect = "none"
          /\ box[s].status \in {"running", "error"}
      BY <1>23, <2>1 DEF ReconcileLease, Terminate
    <3>2. box' = [box EXCEPT ![s] = [@ EXCEPT !.status = "terminated", !.operation = box[s].operation, !.effect = "none"]]
      BY <1>23, <2>1 DEF ReconcileLease, Terminate
    <3>3. /\ box'[s].status = "terminated"
          /\ box'[s].wants = box[s].wants
          /\ box'[s].known = box[s].known
          /\ box'[s].operation = box[s].operation
          /\ box'[s].effect = "none"
          /\ box'[s].owner = box[s].owner
          /\ \A z \in Sandbox : z # s => box'[z] = box[z]
      BY <1>1, <3>1, <3>2, ZenonT(60) DEF Box
    <3>4. UNCHANGED <<workspace, runtime, createIfMissing, volume, worker, sweep>>
      BY <1>23, <2>1 DEF ReconcileLease, Terminate, provider, scheduler
    <3>5. ASSUME NEW x \in Sandbox PROVE Life(x)'
      BY <2>1, <1>2, Fields, <3>1, <3>3, <3>4, SMTT(60) DEF Life, Undispatched
    <3>6. ASSUME NEW x \in Sandbox PROVE Mounting(x)'
      BY <2>1, <1>2, Fields, <3>1, <3>3, <3>4, SMTT(60) DEF Mounting
    <3>7. ASSUME NEW v \in Workspace PROVE Reserved(v)'
      BY <2>1, <1>2, Fields, <3>1, <3>3, <3>4, SMTT(60) DEF Reserved
    <3>8. ASSUME NEW q \in Worker PROVE Preparing(q)'
      BY <2>1, <1>2, Fields, <3>1, <3>3, <3>4, SMTT(60) DEF Preparing, Wanted, Driving, Claimed
    <3>9. Sweeping'
      BY <2>1, <1>2, Fields, <3>1, <3>3, <3>4, SMTT(60) DEF Sweeping
    <3> QED
      BY <1>3, <3>5, <3>6, <3>7, <3>8, <3>9 DEF MountInv
  <2>2. CASE runtime[s] # "gone"
    <3>1. /\ box[s].known
          /\ box[s].effect = "none"
          /\ box[s].status \in {"running", "error"}
      BY <1>23, <2>2 DEF ReconcileLease, Terminate
    <3>2. box' = [box EXCEPT ![s].status = "running"]
      BY <1>23, <2>2 DEF ReconcileLease, Terminate
    <3>3. /\ box'[s].status = "running"
          /\ box'[s].wants = box[s].wants
          /\ box'[s].known = box[s].known
          /\ box'[s].operation = box[s].operation
          /\ box'[s].effect = box[s].effect
          /\ box'[s].owner = box[s].owner
          /\ \A z \in Sandbox : z # s => box'[z] = box[z]
      BY <1>1, <3>1, <3>2, ZenonT(60) DEF Box
    <3>4. UNCHANGED <<workspace, runtime, createIfMissing, volume, worker, sweep>>
      BY <1>23, <2>2 DEF ReconcileLease, Terminate, provider, scheduler
    <3>5. ASSUME NEW x \in Sandbox PROVE Life(x)'
      BY <2>2, <1>2, Fields, <3>1, <3>3, <3>4, SMTT(60) DEF Life, Undispatched
    <3>6. ASSUME NEW x \in Sandbox PROVE Mounting(x)'
      BY <2>2, <1>2, Fields, <3>1, <3>3, <3>4, SMTT(60) DEF Mounting
    <3>7. ASSUME NEW v \in Workspace PROVE Reserved(v)'
      BY <2>2, <1>2, Fields, <3>1, <3>3, <3>4, SMTT(60) DEF Reserved
    <3>8. ASSUME NEW q \in Worker PROVE Preparing(q)'
      BY <2>2, <1>2, Fields, <3>1, <3>3, <3>4, SMTT(60) DEF Preparing, Wanted, Driving, Claimed
    <3>9. Sweeping'
      BY <2>2, <1>2, Fields, <3>1, <3>3, <3>4, SMTT(60) DEF Sweeping
    <3> QED
      BY <1>3, <3>5, <3>6, <3>7, <3>8, <3>9 DEF MountInv
  <2> QED
    BY <2>1, <2>2, <1>23 DEF ReconcileLease, Terminate
<1>24. CASE SweepRead \/ SweepFails
  <2>1. UNCHANGED <<workspace, box, runtime, createIfMissing, volume, worker>>
    BY <1>24 DEF SweepRead, SweepFails, provider
  <2>2. ASSUME NEW r \in sweep'
        PROVE  \E w \in Workspace :
                 /\ r.workspace = w /\ r.for = workspace[w].attached
                 /\ r.absent <=> ~box[workspace[w].attached].known
                 /\ Due(w) /\ (box[workspace[w].attached].known \/ ~workspace[w].attempted)
    <3>1. CASE SweepFails
      BY <2>2, <3>1 DEF SweepFails
    <3>2. CASE SweepRead
      <4> DEFINE Read(w) == [workspace |-> w, for |-> workspace[w].attached, place |-> Cardinality(InFront(w)),
                             absent |-> ~box[workspace[w].attached].known]
      <4>1. PICK w \in Workspace : /\ Due(w) /\ (box[workspace[w].attached].known \/ ~workspace[w].attempted)
                                   /\ r = Read(w)
        BY <2>2, <3>2, Zenon DEF SweepRead
      <4>2. /\ r.workspace = w /\ r.for = workspace[w].attached
            /\ r.absent <=> ~box[workspace[w].attached].known
        BY <4>1
      <4> QED
        BY <4>1, <4>2
    <3> QED
      BY <1>24, <3>1, <3>2
  <2>3. ASSUME NEW x \in Sandbox PROVE Life(x)'
    BY <1>2, <2>1 DEF Life, Undispatched
  <2>4. ASSUME NEW x \in Sandbox PROVE Mounting(x)'
    BY <1>2, <2>1 DEF Mounting
  <2>5. ASSUME NEW v \in Workspace PROVE Reserved(v)'
    BY <1>2, <2>1 DEF Reserved
  <2>6. ASSUME NEW q \in Worker PROVE Preparing(q)'
    BY <1>2, <2>1 DEF Preparing, Wanted, Driving, Claimed
  <2>7. ASSUME NEW r \in sweep'
        PROVE  /\ r.workspace \in Workspace /\ r.for \in Sandbox
               /\ box[r.for].status \notin {"none", "pending"}
               /\ r.absent => runtime[r.for] \in {"none", "gone"}
    <3>1. PICK w \in Workspace : /\ r.workspace = w /\ r.for = workspace[w].attached
                                 /\ r.absent <=> ~box[workspace[w].attached].known
                                 /\ Due(w) /\ (box[workspace[w].attached].known \/ ~workspace[w].attempted)
      BY <2>2, <2>7
    <3>2. r.for \in Sandbox /\ box[r.for].status \notin {"none", "pending"}
      BY <3>1, <1>2, Fields DEF Due
    <3>3. Mounting(r.for) /\ runtime[r.for] \in {"none", "requested", "live", "gone"} /\ box[r.for].wants = w
      BY <3>1, <3>2, <1>2, Fields DEF Reserved
    <3>4. r.absent => ~workspace[w].attempted
      BY <3>1
    <3>5. runtime[r.for] \in {"requested", "live"} => workspace[w].attempted
      BY <3>3 DEF Mounting
    <3> QED
      BY <3>1, <3>2, <3>3, <3>4, <3>5
  <2>8. Sweeping'
    BY <2>1, <2>7 DEF Sweeping
  <2> QED
    BY <1>3, <2>3, <2>4, <2>5, <2>6, <2>8 DEF MountInv
<1>25. ASSUME NEW r \in sweep, SweepGet(r) PROVE MountInv'
  <2>1. UNCHANGED <<workspace, box, runtime, createIfMissing, volume, worker>>
    BY <1>25 DEF SweepGet, provider
  <2>2. ASSUME NEW x \in Sandbox PROVE Life(x)'
    BY <1>2, <2>1 DEF Life, Undispatched
  <2>3. ASSUME NEW x \in Sandbox PROVE Mounting(x)'
    BY <1>2, <2>1 DEF Mounting
  <2>4. ASSUME NEW v \in Workspace PROVE Reserved(v)'
    BY <1>2, <2>1 DEF Reserved
  <2>5. ASSUME NEW q \in Worker PROVE Preparing(q)'
    BY <1>2, <2>1 DEF Preparing, Wanted, Driving, Claimed
  <2>6. ASSUME NEW q \in sweep'
        PROVE  q \in sweep \/ (q = [r EXCEPT !.absent = TRUE] /\ runtime[r.for] = "gone")
    BY <1>25, <2>6 DEF SweepGet
  <2>7. /\ [r EXCEPT !.absent = TRUE].workspace = r.workspace
        /\ [r EXCEPT !.absent = TRUE].for = r.for
    OBVIOUS
  <2>8. Sweeping'
    BY <1>2, <1>25, <2>1, <2>6, <2>7 DEF Sweeping
  <2> QED
    BY <1>3, <2>2, <2>3, <2>4, <2>5, <2>8 DEF MountInv
<1>26. ASSUME NEW r \in sweep, SweepDetach(r) PROVE MountInv'
  <2>1. /\ r.absent /\ sweep' = sweep \ {r}
        /\ UNCHANGED <<box, runtime, createIfMissing, volume, worker>>
    BY <1>26 DEF SweepDetach, provider
  <2>2. Sweeping'
    BY <1>2, <2>1 DEF Sweeping
  <2>3. ASSUME NEW x \in Sandbox PROVE Life(x)'
    BY <1>2, <2>1 DEF Life, Undispatched
  <2>4. CASE workspace[r.workspace].attached = r.for
    <3>1. r.workspace \in Workspace /\ r.for \in Sandbox /\ box[r.for].status \notin {"none", "pending"}
          /\ runtime[r.for] \in {"none", "gone"}
      BY <1>2, <2>1 DEF Sweeping
    <3>2. workspace' = [workspace EXCEPT ![r.workspace].attached = Nobody]
      BY <1>26, <2>4 DEF SweepDetach
    <3>3. /\ workspace'[r.workspace].attached = Nobody
          /\ workspace'[r.workspace].provisioned = workspace[r.workspace].provisioned
          /\ workspace'[r.workspace].attempted = workspace[r.workspace].attempted
          /\ workspace'[r.workspace].archived = workspace[r.workspace].archived
          /\ \A z \in Workspace : z # r.workspace => workspace'[z] = workspace[z]
      BY <1>1, <3>1, <3>2 DEF Retained
    <3>4. ASSUME NEW x \in Sandbox PROVE Mounting(x)'
      BY <2>4, <1>2, Fields, <2>1, <3>1, <3>3, SMTT(60) DEF Mounting, Life
    <3>5. ASSUME NEW v \in Workspace PROVE Reserved(v)'
      BY <2>4, <1>2, Fields, <2>1, <3>1, <3>3, SMTT(60) DEF Reserved
    <3>6. ASSUME NEW q \in Worker PROVE Preparing(q)'
      BY <2>4, <1>2, Fields, <2>1, <3>1, <3>3, SMTT(60) DEF Life, Undispatched, Preparing, Wanted, Driving, Claimed
    <3> QED
      BY <1>3, <2>2, <2>3, <3>4, <3>5, <3>6 DEF MountInv
  <2>5. CASE workspace[r.workspace].attached # r.for
    <3>1. UNCHANGED <<workspace, box, runtime, createIfMissing, volume, worker>>
      BY <1>26, <2>5, <2>1 DEF SweepDetach
    <3>2. ASSUME NEW x \in Sandbox PROVE Mounting(x)'
      BY <1>2, <3>1 DEF Mounting
    <3>3. ASSUME NEW v \in Workspace PROVE Reserved(v)'
      BY <1>2, <3>1 DEF Reserved
    <3>4. ASSUME NEW q \in Worker PROVE Preparing(q)'
      BY <1>2, <3>1 DEF Preparing, Wanted, Driving, Claimed
    <3> QED
      BY <1>3, <2>2, <2>3, <3>2, <3>3, <3>4 DEF MountInv
  <2> QED
    BY <2>4, <2>5
<1>27. ASSUME NEW s \in Sandbox, PerformCreate(s) PROVE MountInv'
  <2>1. CASE (volume[box[s].wants] = "present" \/ createIfMissing[s]) /\ runtime' = [runtime EXCEPT ![s] = "live"] /\ volume' = [volume EXCEPT ![box[s].wants] = "present"]
    <3>1. /\ runtime[s] = "requested"
          /\ box[s].wants \in Workspace
          /\ volume[box[s].wants] = "present" \/ createIfMissing[s]
      BY <1>27, <2>1, <1>2, Fields DEF PerformCreate, Preparing, Claimed, Driving, Wanted, Life
    <3>2. runtime' = [runtime EXCEPT ![s] = "live"]
      BY <1>27, <2>1 DEF PerformCreate
    <3>3. /\ runtime'[s] = "live"
          /\ \A z \in Sandbox : z # s => runtime'[z] = runtime[z]
      BY <1>1, <3>1, <3>2
    <3>4. volume' = [volume EXCEPT ![box[s].wants] = "present"]
      BY <1>27, <2>1 DEF PerformCreate
    <3>5. /\ volume'[box[s].wants] = "present"
          /\ \A z \in Workspace : z # box[s].wants => volume'[z] = volume[z]
      BY <1>1, <3>1, <3>4
    <3>6. UNCHANGED <<workspace, box, createIfMissing, worker, sweep>>
      BY <1>27, <2>1 DEF PerformCreate, provider, scheduler
    <3>7. ASSUME NEW x \in Sandbox PROVE Life(x)'
      BY <1>2, Fields, <3>1, <3>3, <3>5, <3>6, SMTT(60) DEF Life, Undispatched
    <3>8. ASSUME NEW x \in Sandbox PROVE Mounting(x)'
      BY <1>2, Fields, <3>1, <3>3, <3>5, <3>6, SMTT(60) DEF Mounting, Life, Undispatched
    <3>9. ASSUME NEW v \in Workspace PROVE Reserved(v)'
      BY <1>2, Fields, <3>1, <3>3, <3>5, <3>6, SMTT(60) DEF Reserved, Mounting
    <3>10. ASSUME NEW q \in Worker PROVE Preparing(q)'
      BY <1>2, Fields, <3>1, <3>3, <3>5, <3>6, SMTT(60) DEF Preparing, Wanted, Driving, Claimed, Life, Undispatched, Mounting
    <3>11. Sweeping'
      BY <1>2, Fields, <3>1, <3>3, <3>5, <3>6, SMTT(60) DEF Sweeping
    <3> QED
      BY <1>3, <3>7, <3>8, <3>9, <3>10, <3>11 DEF MountInv
  <2>2. CASE runtime' = [runtime EXCEPT ![s] = "none"] /\ UNCHANGED volume
    <3>1. runtime[s] = "requested"
      BY <1>27, <2>2 DEF PerformCreate
    <3>2. runtime' = [runtime EXCEPT ![s] = "none"]
      BY <1>27, <2>2 DEF PerformCreate
    <3>3. /\ runtime'[s] = "none"
          /\ \A z \in Sandbox : z # s => runtime'[z] = runtime[z]
      BY <1>1, <3>1, <3>2
    <3>4. UNCHANGED <<workspace, box, createIfMissing, volume, worker, sweep>>
      BY <1>27, <2>2 DEF PerformCreate, provider, scheduler
    <3>5. ASSUME NEW x \in Sandbox PROVE Life(x)'
      BY <1>2, Fields, <3>1, <3>3, <3>4, SMTT(60) DEF Life, Undispatched
    <3>6. ASSUME NEW x \in Sandbox PROVE Mounting(x)'
      BY <1>2, Fields, <3>1, <3>3, <3>4, SMTT(60) DEF Mounting
    <3>7. ASSUME NEW v \in Workspace PROVE Reserved(v)'
      BY <1>2, <3>4 DEF Reserved
    <3>8. ASSUME NEW q \in Worker PROVE Preparing(q)'
      BY <1>2, <3>4 DEF Preparing, Wanted, Driving, Claimed
    <3>9. Sweeping'
      BY <1>2, Fields, <3>1, <3>3, <3>4, SMTT(60) DEF Sweeping
    <3> QED
      BY <1>3, <3>5, <3>6, <3>7, <3>8, <3>9 DEF MountInv
  <2> QED
    BY <2>1, <2>2, <1>27 DEF PerformCreate
<1>28. ASSUME NEW s \in Sandbox, RuntimeEnds(s) PROVE MountInv'
  <2>1. runtime[s] = "live"
    BY <1>28 DEF RuntimeEnds
  <2>2. runtime' = [runtime EXCEPT ![s] = "gone"]
    BY <1>28 DEF RuntimeEnds
  <2>3. /\ runtime'[s] = "gone"
        /\ \A z \in Sandbox : z # s => runtime'[z] = runtime[z]
    BY <1>1, <2>1, <2>2
  <2>4. UNCHANGED <<workspace, box, createIfMissing, volume, worker, sweep>>
    BY <1>28 DEF RuntimeEnds, provider, scheduler
  <2>5. ASSUME NEW x \in Sandbox PROVE Life(x)'
    BY <1>2, Fields, <2>1, <2>3, <2>4, SMTT(60) DEF Life, Undispatched
  <2>6. ASSUME NEW x \in Sandbox PROVE Mounting(x)'
    BY <1>2, Fields, <2>1, <2>3, <2>4, SMTT(60) DEF Mounting
  <2>7. ASSUME NEW v \in Workspace PROVE Reserved(v)'
    BY <1>2, <2>4 DEF Reserved
  <2>8. ASSUME NEW q \in Worker PROVE Preparing(q)'
    BY <1>2, <2>4 DEF Preparing, Wanted, Driving, Claimed
  <2>9. Sweeping'
    BY <1>2, Fields, <2>1, <2>3, <2>4, SMTT(60) DEF Sweeping
  <2> QED
    BY <1>3, <2>5, <2>6, <2>7, <2>8, <2>9 DEF MountInv
<1>29. ASSUME NEW w \in Workspace, VolumeLost(w) PROVE MountInv'
  <2>1. volume[w] = "present"
    BY <1>29 DEF VolumeLost
  <2>2. volume' = [volume EXCEPT ![w] = "lost"]
    BY <1>29 DEF VolumeLost
  <2>3. /\ volume'[w] = "lost"
        /\ \A z \in Workspace : z # w => volume'[z] = volume[z]
    BY <1>1, <2>1, <2>2
  <2>4. UNCHANGED <<workspace, box, runtime, createIfMissing, worker, sweep>>
    BY <1>29 DEF VolumeLost, provider, scheduler
  <2>5. ASSUME NEW x \in Sandbox PROVE Life(x)'
    BY <1>2, <2>4 DEF Life, Undispatched
  <2>6. ASSUME NEW x \in Sandbox PROVE Mounting(x)'
    BY <1>2, Fields, <2>1, <2>3, <2>4, SMTT(60) DEF Mounting, Life, Undispatched
  <2>7. ASSUME NEW v \in Workspace PROVE Reserved(v)'
    BY <1>2, Fields, <2>1, <2>3, <2>4, SMTT(60) DEF Reserved
  <2>8. ASSUME NEW q \in Worker PROVE Preparing(q)'
    BY <1>2, Fields, <2>1, <2>3, <2>4, SMTT(60) DEF Preparing, Wanted, Driving, Claimed, Life, Undispatched
  <2>9. Sweeping'
    BY <1>2, <2>4 DEF Sweeping
  <2> QED
    BY <1>3, <2>5, <2>6, <2>7, <2>8, <2>9 DEF MountInv
<1>30. CASE UNCHANGED workspaceVars
  BY <1>2, <1>3, <1>30, SMTT(30) DEF workspaceVars, MountInv, Life, Undispatched, Mounting, Reserved, Preparing, Sweeping, Wanted, Driving, Claimed
<1> QED
  BY <1>4, <1>5, <1>6, <1>7, <1>8, <1>9, <1>10, <1>11, <1>12, <1>13, <1>14, <1>15, <1>16, <1>17, <1>18, <1>19, <1>20, <1>21, <1>22, <1>23, <1>24, <1>25, <1>26, <1>27, <1>28, <1>29, <1>30 DEF Next
--------------------------------------------------------------------------------
LEMMA MountInvariant ==
    ASSUME NobodyIsNobody
    PROVE  Spec => []MountInv
<1>1. Init => MountInv
  <2> SUFFICES ASSUME Init PROVE MountInv
    OBVIOUS
  <2>1. Typed
    BY DEF Init, Typed, Retained, Box, Place, NoBox, IdleWorker
  <2>2. ASSUME NEW s \in Sandbox PROVE Life(s) /\ Mounting(s)
    BY DEF Init, NoBox, Life, Mounting
  <2>3. ASSUME NEW w \in Workspace PROVE Reserved(w)
    BY DEF Init, Reserved
  <2>4. ASSUME NEW p \in Worker PROVE Preparing(p)
    BY DEF Init, IdleWorker, Preparing
  <2>5. Sweeping
    BY DEF Init, Sweeping
  <2> QED
    BY <2>1, <2>2, <2>3, <2>4, <2>5 DEF MountInv
<1> QED
  BY <1>1, MountKept, PTL DEF Spec

(* Two runtimes never share a volume, and an archived workspace has no     *)
(* holder, for any number of sandboxes, workspaces and workers.            *)
THEOREM MountsAreExclusive ==
    ASSUME NobodyIsNobody
    PROVE  Spec => []ExclusiveMount
<1>1. MountInv => ExclusiveMount
  BY DEF MountInv, Mounting, Reserved, ExclusiveMount
<1> QED
  BY <1>1, MountInvariant, PTL

(* Lost storage is never replaced: a request that may create the volume is *)
(* the only one of its workspace, and finds none that was ever there.      *)
THEOREM LostIsNotReplaced ==
    ASSUME NobodyIsNobody
    PROVE  Spec => LostStorageStaysLost
<1>1. MountInv /\ [Next]_workspaceVars =>
        [\A w \in Workspace : volume[w] = "lost" => volume'[w] = "lost"]_workspaceVars
  <2> SUFFICES ASSUME MountInv, Next, NEW w \in Workspace, volume[w] = "lost" PROVE volume'[w] = "lost"
    OBVIOUS
  <2>1. ASSUME NEW s \in Sandbox, PerformCreate(s) PROVE volume'[w] = "lost"
    <3>1. runtime[s] = "requested" /\ Mounting(s) /\ volume \in [Workspace -> {"none", "present", "lost"}]
      BY <2>1 DEF PerformCreate, MountInv, Typed
    <3>2. CASE (volume[box[s].wants] = "present" \/ createIfMissing[s])
               /\ volume' = [volume EXCEPT ![box[s].wants] = "present"]
      <4>1. volume[box[s].wants] # "lost"
        BY <3>1, <3>2 DEF Mounting
      <4> QED
        BY <3>1, <3>2, <4>1
    <3>3. CASE UNCHANGED volume
      BY <3>3
    <3> QED
      BY <2>1, <3>2, <3>3 DEF PerformCreate
  <2>2. ASSUME NEW v \in Workspace, VolumeLost(v) PROVE volume'[w] = "lost"
    BY <2>2 DEF VolumeLost, MountInv, Typed
  <2>3. CASE UNCHANGED volume
    BY <2>3
  <2>4. ASSUME NEW v \in Workspace, CreateWorkspace(v) \/ ArchiveWorkspace(v) PROVE UNCHANGED volume
    BY <2>4 DEF CreateWorkspace, ArchiveWorkspace, provider, scheduler
  <2>5. ASSUME NEW s \in Sandbox, NEW v \in Workspace, Admit(s, v) PROVE UNCHANGED volume
    BY <2>5 DEF Admit, provider, scheduler
  <2>6. ASSUME NEW s \in Sandbox, NEW p \in Worker, ClaimProvision(p, s) PROVE UNCHANGED volume
    BY <2>6 DEF ClaimProvision, provider, scheduler
  <2>7. ASSUME NEW s \in Sandbox,
               \/ FinishPreparation(s) \/ AbandonPreparation(s) \/ CancelBeforeDispatch(s) \/ ReconcileStale(s)
               \/ RecoverProvision(s) \/ BeginDelete(s) \/ EndDelete(s) \/ ReconcileLease(s) \/ RuntimeEnds(s)
        PROVE  UNCHANGED volume
    BY <2>7, ZenonT(60) DEF FinishPreparation, AbandonPreparation, CancelBeforeDispatch, ReconcileStale, RecoverProvision,
                BeginDelete, EndDelete, ReconcileLease, RuntimeEnds, provider, scheduler
  <2>8. ASSUME NEW p \in Worker,
               \/ BeginProvision(p) \/ SelectWorkspace(p) \/ MarkAttempt(p) \/ AbortProvision(p) \/ Dispatch(p)
               \/ Acknowledge(p) \/ PersistIdentity(p) \/ Crash(p)
        PROVE  UNCHANGED volume
    BY <2>8, ZenonT(60) DEF BeginProvision, SelectWorkspace, MarkAttempt, AbortProvision, Dispatch, Acknowledge,
                PersistIdentity, Crash, provider, scheduler
  <2>9. ASSUME SweepRead \/ SweepFails \/ \E r \in sweep : SweepGet(r) \/ SweepDetach(r)
        PROVE  UNCHANGED volume
    BY <2>9 DEF SweepRead, SweepFails, SweepGet, SweepDetach, provider, scheduler
  <2> QED
    BY <2>1, <2>2, <2>3, <2>4, <2>5, <2>6, <2>7, <2>8, <2>9 DEF Next
<1> QED
  BY <1>1, MountInvariant, PTL DEF Spec, LostStorageStaysLost
================================================================================
