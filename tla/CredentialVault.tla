---------------------------- MODULE CredentialVault ----------------------------
(***************************************************************************)
(* One binding of one running sandbox: the attachment rows that were made  *)
(* for it, the in-memory vault beside the runtime, and the requests and    *)
(* scheduler ticks that move a credential between the two.  Every one of   *)
(* them reads a row, calls the provider outside any transaction and writes *)
(* the row afterwards.  The source is an issuer, whose values expire, or a *)
(* stored secret or reference, whose values never do; a rotation makes the *)
(* values that were resolved before it superseded ones.  Values a caller   *)
(* passes inline are not kept, so nothing re-injects them: they are left   *)
(* out.                                                                    *)
(***************************************************************************)
EXTENDS Naturals

CONSTANTS Requester,  \* API requests, and the completion of a resume
          MaxRows,    \* bound: attachments of the binding, one after the other
          MaxFaults   \* bound: lost vaults, failed provider calls, stopped processes

VaultBounds == MaxRows \in Nat /\ MaxFaults \in Nat

Attachment == 1..MaxRows
NoAttachment == 0
Scheduler == "scheduler"
Process == Requester \cup {Scheduler}

VARIABLES
    active,      \* the sandbox's status; "resuming" once the runtime runs again
    source,      \* what the attachments refer to, and whether it is usable
    attachment,  \* sandbox_credential_attachments, expires_at as seen from now;
                 \* nobody reads the one of a detached row: it is "later"
    vault,       \* the entry of the binding in the runtime's vault
    process,     \* a request or tick between two steps
    faults       \* how many faults there were

vaultVars == <<active, source, attachment, vault, process, faults>>

\* A process that carries a value: "old" once a rotation has superseded it.
IdleProcess == [at |-> "idle", of |-> NoAttachment, old |-> FALSE]

TypeOK ==
    /\ active \in {"running", "paused", "resuming", "terminated"}
    /\ source \in [kind : {"stored", "issuer"}, usable : BOOLEAN]
    /\ attachment \in [Attachment -> [status : {"none", "pending", "injected", "failed", "requires_reinjection", "detached"},
                                      detached : BOOLEAN, expires : {"later", "soon", "past"}]]
    /\ vault \in {"none", "valid", "superseded", "expired"}
    /\ process \in [Process -> [at : {"idle", "insert", "apply", "attached", "attachFailed", "remove", "removed", "revoke",
                                      "mark", "work", "rehydrate", "refresh", "reapply", "renew", "applied", "rehydrateFailed",
                                      "refreshFailed", "inspect", "present", "missing"},
                                of : Attachment \cup {NoAttachment}, old : BOOLEAN]]
    /\ faults \in 0..MaxFaults

Init ==
    /\ active = "running" /\ vault = "none" /\ faults = 0
    /\ source \in [kind : {"stored", "issuer"}, usable : {TRUE}]
    /\ attachment = [a \in Attachment |-> [status |-> "none", detached |-> FALSE, expires |-> "later"]]
    /\ process = [p \in Process |-> IdleProcess]

Attached == {a \in Attachment : attachment[a].status # "none" /\ ~attachment[a].detached}

At(p, at) == process[p].at = at
Goto(p, at) == process' = [process EXCEPT ![p].at = at]
Return(p) == process' = [process EXCEPT ![p] = IdleProcess]
Take(p, at, a) == process' = [process EXCEPT ![p] = [IdleProcess EXCEPT !.at = at, !.of = a]]
\* The scheduler goes on from its inspections to the work it claims.
EndInspection(p) == IF p = Scheduler THEN Take(p, "work", NoAttachment) ELSE Return(p)

\* A provider call takes effect, or fails with or without having taken effect;
\* the vault of a sandbox that does not run cannot be reached.
Call(p, value, done, failed) ==
    LET reachable == active \in {"running", "resuming"}
        End(at) == IF at = "idle" THEN Return(p) ELSE Take(p, at, process[p].of) IN
    \/ reachable /\ vault' = value /\ End(done) /\ UNCHANGED faults
    \/ ~reachable /\ End(failed) /\ UNCHANGED <<vault, faults>>
    \/ /\ faults < MaxFaults /\ faults' = faults + 1
       /\ vault' \in {vault} \cup (IF reachable THEN {value} ELSE {})
       /\ End(failed)
Value(p) == IF process[p].old THEN "superseded" ELSE "valid"

SetRow(a, status) == attachment' = [attachment EXCEPT ![a].status = status]
--------------------------------------------------------------------------------
(* attachSandboxCredential *)

ResolveForAttach(r) ==
    /\ At(r, "idle") /\ active = "running" /\ source.usable
    /\ Goto(r, "insert")
    /\ UNCHANGED <<active, source, attachment, vault, faults>>

\* A binding that is attached, and an egress policy the provider refuses, end
\* the request before the row exists.
InsertPending(r) ==
    /\ At(r, "insert")
    /\ \/ /\ Attached = {} /\ active = "running"
          /\ \E a \in Attachment :
                /\ attachment[a].status = "none" /\ \A b \in 1..(a - 1) : attachment[b].status # "none"
                /\ SetRow(a, "pending")
                /\ process' = [process EXCEPT ![r] = [@ EXCEPT !.at = "apply", !.of = a]]
       \/ Return(r) /\ UNCHANGED attachment
    /\ UNCHANGED <<active, source, vault, faults>>

ApplyPrepared(r) ==
    /\ At(r, "apply")
    /\ Call(r, Value(r), "attached", "attachFailed")
    /\ UNCHANGED <<active, source, attachment>>

\* Both updates are by id alone, whatever became of the row.
MarkAttached(r) ==
    /\ \/ At(r, "attached") /\ attachment' = [attachment EXCEPT ![process[r].of].status = "injected", ![process[r].of].expires = "later"]
       \/ At(r, "attachFailed") /\ SetRow(process[r].of, "failed")
    /\ Return(r)
    /\ UNCHANGED <<active, source, vault, faults>>
--------------------------------------------------------------------------------
(* detachSandboxCredential, and the revocation of a disabled or deleted source *)

Detach(r, a) ==
    /\ At(r, "idle") /\ active = "running" /\ a \in Attached
    /\ Take(r, "remove", a)
    /\ UNCHANGED <<active, source, attachment, vault, faults>>

RemoveEntry(r) ==
    /\ At(r, "remove")
    /\ Call(r, "none", "removed", "idle")
    /\ UNCHANGED <<active, source, attachment>>

DetachedRow == [status |-> "detached", detached |-> TRUE, expires |-> "later"]
Detached(a) == [attachment EXCEPT ![a] = DetachedRow]
MarkDetached(r) ==
    /\ At(r, "removed")
    /\ attachment' = Detached(process[r].of)
    /\ Return(r)
    /\ UNCHANGED <<active, source, vault, faults>>

DisableSource(r) ==
    /\ At(r, "idle") /\ source.usable
    /\ source' = [source EXCEPT !.usable = FALSE]
    /\ Goto(r, "revoke")
    /\ UNCHANGED <<active, attachment, vault, faults>>

\* A row whose sandbox does not run is detached without the provider; a resuming
\* one fails the request, and the operator repeats it.
RevokeAttachment(r) ==
    /\ At(r, "revoke")
    /\ \/ \E a \in Attached :
             \/ /\ active = "running" /\ UNCHANGED attachment
                /\ Take(r, "remove", a)
             \/ active \in {"paused", "terminated"} /\ attachment' = Detached(a) /\ Return(r)
             \/ active = "resuming" /\ Return(r) /\ UNCHANGED attachment
       \/ Attached = {} /\ Return(r) /\ UNCHANGED attachment
    /\ UNCHANGED <<active, source, vault, faults>>

EnableSource ==
    /\ ~source.usable
    /\ source' = [source EXCEPT !.usable = TRUE]
    /\ UNCHANGED <<active, attachment, vault, process, faults>>

\* rotateCredentialSecret and its kin: the values handed out so far are
\* superseded, those a request still carries included ...
RotateSource(r) ==
    /\ At(r, "idle")
    /\ vault' = IF vault = "valid" THEN "superseded" ELSE vault
    /\ process' = [p \in Process |->
          IF p = r THEN [IdleProcess EXCEPT !.at = "mark"]
          ELSE [process[p] EXCEPT !.old = @ \/ process[p].at \in {"insert", "apply", "reapply", "renew"}]]
    /\ UNCHANGED <<active, source, attachment, faults>>

\* ... and every attachment of the source is marked in an update of its own.
MarkForReinjection(r) ==
    /\ At(r, "mark")
    /\ \/ \E a \in Attached :
             /\ SetRow(a, "requires_reinjection")
             /\ IF active = "running" THEN Take(r, "rehydrate", a) ELSE Return(r)
       \/ Attached = {} /\ Return(r) /\ UNCHANGED attachment
    /\ UNCHANGED <<active, source, vault, faults>>
--------------------------------------------------------------------------------
(* rehydrateSandboxCredentials and refreshSandboxCredential *)

ListForRehydration(r) ==
    /\ At(r, "idle") /\ active = "running"
    /\ \E a \in Attached :
          /\ attachment[a].status = "requires_reinjection"
          /\ Take(r, "rehydrate", a)
    /\ UNCHANGED <<active, source, attachment, vault, faults>>

ListForRefresh(r) ==
    /\ At(r, "idle") /\ active = "running" /\ source.kind = "issuer"
    /\ \E a \in Attached : Take(r, "refresh", a)
    /\ UNCHANGED <<active, source, attachment, vault, faults>>

ResolveMaterial(p) ==
    /\ \/ At(p, "rehydrate") /\ Goto(p, IF source.usable THEN "reapply" ELSE "rehydrateFailed")
       \/ At(p, "refresh") /\ Goto(p, IF source.usable THEN "renew" ELSE "refreshFailed")
    /\ UNCHANGED <<active, source, attachment, vault, faults>>

ApplyResolved(p) ==
    /\ \/ At(p, "reapply") /\ Call(p, Value(p), "applied", "rehydrateFailed")
       \/ At(p, "renew") /\ Call(p, Value(p), "applied", "refreshFailed")
    /\ UNCHANGED <<active, source, attachment>>

\* All three updates want detached_at IS NULL and throw otherwise.
MarkApplied(p) ==
    /\ At(p, "applied") \/ At(p, "rehydrateFailed") \/ At(p, "refreshFailed")
    /\ LET a == process[p].of IN
       attachment' =
          CASE a \notin Attached -> attachment
            [] At(p, "applied") -> [attachment EXCEPT ![a].status = "injected", ![a].expires = "later"]
            [] At(p, "rehydrateFailed") -> [attachment EXCEPT ![a].status = "requires_reinjection"]
            [] OTHER -> IF attachment[a].expires = "past"
                        THEN [attachment EXCEPT ![a].status = "requires_reinjection"] ELSE attachment
    /\ Return(p)
    /\ UNCHANGED <<active, source, vault, faults>>
--------------------------------------------------------------------------------
(* inspectSandboxCredentials, and the scheduler's tick around it *)

\* Every attachment is inspected, pending and failed ones included.
ListForInspection(p) ==
    /\ At(p, "idle") /\ active = "running"
    /\ \E a \in Attached : Take(p, "inspect", a)
    /\ UNCHANGED <<active, source, attachment, vault, faults>>

GetVault(p) ==
    /\ At(p, "inspect")
    /\ \/ /\ active \in {"running", "resuming"}
          /\ Goto(p, IF vault = "none" THEN "missing" ELSE "present") /\ UNCHANGED faults
       \/ active \notin {"running", "resuming"} /\ EndInspection(p) /\ UNCHANGED faults
       \/ faults < MaxFaults /\ faults' = faults + 1 /\ EndInspection(p)
    /\ UNCHANGED <<active, source, attachment, vault>>

MissingKeepsStatus(p) ==
    /\ At(p, "present") \/ At(p, "missing")
    /\ attachment' = IF process[p].of \in Attached /\ At(p, "present")
                     THEN [attachment EXCEPT ![process[p].of].status = "injected"] ELSE attachment
    /\ EndInspection(p)
    /\ UNCHANGED <<active, source, vault, faults>>

RecordInspection(p) ==
    /\ At(p, "present") \/ At(p, "missing")
    /\ attachment' = IF process[p].of \in Attached
                     THEN [attachment EXCEPT ![process[p].of].status = IF At(p, "present") THEN "injected" ELSE "requires_reinjection"]
                     ELSE attachment
    /\ EndInspection(p)
    /\ UNCHANGED <<active, source, vault, faults>>

\* No inspection is due.
SkipInspection ==
    /\ At(Scheduler, "idle")
    /\ Goto(Scheduler, "work")
    /\ UNCHANGED <<active, source, attachment, vault, faults>>

Claimable(a) ==
    \/ attachment[a].status = "requires_reinjection"
    \/ source.kind = "issuer" /\ attachment[a].status = "injected" /\ attachment[a].expires # "later"

ClaimWork ==
    /\ At(Scheduler, "work") /\ active = "running"
    /\ \E a \in Attached :
          /\ Claimable(a)
          /\ Take(Scheduler, IF attachment[a].status = "injected" THEN "refresh" ELSE "rehydrate", a)
    /\ UNCHANGED <<active, source, attachment, vault, faults>>

\* Nothing to claim, or the last attempt was less than a minute ago.
EndTick ==
    /\ At(Scheduler, "work")
    /\ Return(Scheduler)
    /\ UNCHANGED <<active, source, attachment, vault, faults>>
--------------------------------------------------------------------------------
(* The sandbox, the clock and the faults *)

Pause ==
    /\ active = "running"
    /\ active' = "paused"
    /\ UNCHANGED <<source, attachment, vault, process, faults>>

\* The runtime comes back with an empty vault before the control plane knows.
ProviderResume ==
    /\ active = "paused"
    /\ active' = "resuming" /\ vault' = "none"
    /\ UNCHANGED <<source, attachment, process, faults>>

CompleteResume(r) ==
    /\ active = "resuming" /\ At(r, "idle")
    /\ active' = "running"
    /\ LET marked == {a \in Attached : attachment[a].status = "injected"} IN
       /\ attachment' = [a \in Attachment |-> IF a \in marked THEN [attachment[a] EXCEPT !.status = "requires_reinjection"]
                                              ELSE attachment[a]]
       /\ IF marked = {} THEN UNCHANGED process
          ELSE \E a \in marked : Take(r, "rehydrate", a)
    /\ UNCHANGED <<source, vault, faults>>

Terminate ==
    /\ active # "terminated"
    /\ active' = "terminated" /\ vault' = "none"
    /\ attachment' = [a \in Attachment |-> IF a \in Attached THEN DetachedRow ELSE attachment[a]]
    /\ UNCHANGED <<source, process, faults>>

\* An issued value outlives the request that applies it.
Expire(a) ==
    /\ source.kind = "issuer" /\ a \in Attached /\ attachment[a].expires # "past"
    /\ \A p \in Process : process[p].at \notin {"attached", "applied"}
    /\ attachment' = [attachment EXCEPT ![a].expires = IF @ = "later" THEN "soon" ELSE "past"]
    /\ vault' = IF attachment[a].expires = "soon" /\ vault # "none" THEN "expired" ELSE vault
    /\ UNCHANGED <<active, source, process, faults>>

LoseVault ==
    /\ vault # "none" /\ faults < MaxFaults
    /\ vault' = "none" /\ faults' = faults + 1
    /\ UNCHANGED <<active, source, attachment, process>>

Stop(p) ==
    /\ process[p].at # "idle" /\ faults < MaxFaults
    /\ faults' = faults + 1
    /\ Return(p)
    /\ UNCHANGED <<active, source, attachment, vault>>

\* The steps of what was begun.
Continue(p) == ResolveMaterial(p) \/ ApplyResolved(p) \/ MarkApplied(p) \/ GetVault(p) \/ RecordInspection(p)
RequestStep(r) ==
    \/ InsertPending(r) \/ ApplyPrepared(r) \/ MarkAttached(r) \/ RemoveEntry(r) \/ MarkDetached(r)
    \/ RevokeAttachment(r) \/ MarkForReinjection(r)

Next ==
    \/ \E r \in Requester :
          \/ RequestStep(r) \/ ResolveForAttach(r) \/ (\E a \in Attachment : Detach(r, a))
          \/ DisableSource(r) \/ RotateSource(r) \/ ListForRehydration(r) \/ ListForRefresh(r) \/ CompleteResume(r)
    \/ \E p \in Process : ListForInspection(p) \/ Continue(p) \/ Stop(p)
    \/ SkipInspection \/ ClaimWork \/ EndTick \/ EnableSource
    \/ Pause \/ ProviderResume \/ Terminate \/ LoseVault
    \/ \E a \in Attachment : Expire(a)

Spec == Init /\ [][Next]_vaultVars

\* The tick repeats, and a request that was begun returns; an inspection and a
\* retry become due again and again; time passes.
Fairness ==
    /\ \A p \in Process : WF_vaultVars(Continue(p))
    /\ \A r \in Requester : WF_vaultVars(RequestStep(r))
    /\ WF_vaultVars(SkipInspection) /\ WF_vaultVars(EndTick)
    /\ SF_vaultVars(ListForInspection(Scheduler)) /\ SF_vaultVars(ClaimWork)
    /\ \A a \in Attachment : WF_vaultVars(Expire(a))

FairSpec == Spec /\ Fairness
--------------------------------------------------------------------------------
(* Properties *)

Serving == active = "running" /\ source.usable /\ Attached # {}

\* A superseded value that an inspection found by name, or that an apply of
\* before the rotation brought: the row is injected, no request is left that
\* would apply the new value, nothing looks at the row again, and a stored value
\* has no end at which it would be refreshed.
Overlooked ==
    /\ source.kind = "stored" /\ vault = "superseded" /\ \E a \in Attached : attachment[a].status = "injected"
    /\ \A p \in Process : process[p].at \in {"idle", "work", "inspect", "present"}

\* A credential that is attached to a running sandbox comes to work: whatever
\* was lost, had expired, had failed, was rotated or was written over by an
\* answer that came late, the vault holds a valid value again unless it is
\* detached, its source is disabled or the sandbox stops running.  The code
\* breaks its promise to keep retrying in one case, the Overlooked one.
AttachedBecomesUsable == Serving ~> (vault = "valid" \/ ~Serving \/ Overlooked)
================================================================================
