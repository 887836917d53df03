----------------------------- MODULE AdapterSessions -----------------------------
(***************************************************************************)
(* The OpenWebUI adapter keeps one binding per user: a workspace, the      *)
(* sandbox of the current generation and the grant of its route.  A        *)
(* process holds a session lock and saves each intent before the call that *)
(* it announces.  The lock goes with the database connection, and so does  *)
(* the right to save, but a call already sent may be carried out later.    *)
(* Every step may fail, be canceled or die: the process gives up, and      *)
(* whoever comes next starts from the binding that was saved last.         *)
(***************************************************************************)
EXTENDS Naturals, FiniteSets

CONSTANTS Process, Nobody,
          MaxGenerations, \* bound: generations of one binding
          MaxCalls        \* bound: calls under way at once

AdapterBounds == MaxGenerations \in Nat \ {0} /\ MaxCalls \in Nat /\ Nobody \notin Process

Generation == 1 .. MaxGenerations
CallKinds == {"createWorkspace", "createSandbox", "exposeRoute"}

VARIABLES
    binding,    \* openwebui_bindings
    holder,     \* of the advisory lock
    at, local,  \* each process: its program point and its copy of the binding
    calls,      \* sent to the API and not yet carried out
    workspaces, \* persistent_workspaces of this name
    attached,   \* the generation the workspace is attached to, 0 for none
    sandbox,    \* of each generation: "stopped" is paused or in error
    route       \* of each generation: who exposed it, if it is exposed

adapterVars == <<binding, holder, at, local, calls, workspaces, attached, sandbox, route>>

Binding == [generation : 0..MaxGenerations, workspaceIntent : BOOLEAN, workspaceId : 0..1,
            sandboxIntent : BOOLEAN, sandboxId : 0..MaxGenerations, routeIntent : BOOLEAN, grant : BOOLEAN]
Request == [kind : CallKinds, by : Process, generation : Generation]
Points == {"idle", "first", "intendWorkspace", "createWorkspace", "listWorkspaces",
           "getSandbox", "getWorkspace", "renew", "intendSandbox", "createSandbox",
           "wait", "intendRoute", "exposeRoute", "use",
           "check", "revoke", "deleteRoute", "listRoutes", "reset"}

TypeOK ==
    /\ binding \in Binding /\ holder \in Process \cup {Nobody}
    /\ at \in [Process -> Points] /\ local \in [Process -> Binding]
    /\ calls \subseteq Request
    /\ workspaces \in 0..2 /\ attached \in 0..MaxGenerations
    /\ sandbox \in [Generation -> {"none", "running", "stopped", "terminated"}]
    /\ route \in [Generation -> Process \cup {Nobody}]

NewBinding(generation, workspace) ==
    [generation |-> generation, workspaceIntent |-> workspace # 0, workspaceId |-> workspace,
     sandboxIntent |-> FALSE, sandboxId |-> 0, routeIntent |-> FALSE, grant |-> FALSE]
NoRow == NewBinding(0, 0)

Init ==
    /\ binding = NoRow /\ holder = Nobody
    /\ at = [p \in Process |-> "idle"]
    /\ local = [p \in Process |-> NoRow]
    /\ calls = {} /\ workspaces = 0 /\ attached = 0
    /\ sandbox = [g \in Generation |-> "none"] /\ route = [g \in Generation |-> Nobody]
--------------------------------------------------------------------------------
(* The API *)

api == <<workspaces, attached, sandbox, route>>

\* A create is accepted once per idempotency key, and only with a workspace that is free.
Accepts(c) == c.kind = "createSandbox" /\ sandbox[c.generation] = "none" /\ attached = 0
CarryOut(c) ==
    /\ c \in calls /\ calls' = calls \ {c}
    /\ workspaces' = IF c.kind = "createWorkspace" /\ workspaces < 2 THEN workspaces + 1 ELSE workspaces
    /\ sandbox' = IF Accepts(c) THEN [sandbox EXCEPT ![c.generation] = "running"] ELSE sandbox
    /\ attached' = IF Accepts(c) THEN c.generation ELSE attached
    /\ route' = IF c.kind = "exposeRoute" /\ sandbox[c.generation] = "running" /\ route[c.generation] = Nobody
                THEN [route EXCEPT ![c.generation] = c.by] ELSE route
    /\ UNCHANGED <<binding, holder, at, local>>
\* Paused, failed, resumed; or terminated with its routes, by its user, its TTL or session_expired.
SandboxChanges(g) ==
    /\ \/ sandbox[g] = "running" /\ sandbox' = [sandbox EXCEPT ![g] = "stopped"] /\ route' = route
       \/ sandbox[g] = "stopped" /\ sandbox' = [sandbox EXCEPT ![g] = "running"] /\ route' = route
       \/ /\ sandbox[g] \in {"running", "stopped"} /\ sandbox' = [sandbox EXCEPT ![g] = "terminated"]
          /\ route' = [route EXCEPT ![g] = Nobody]
    /\ UNCHANGED <<binding, holder, at, local, calls, workspaces, attached>>
\* Detached some time after the runtime is confirmed gone.
WorkspaceReleased ==
    /\ attached # 0 /\ sandbox[attached] = "terminated" /\ attached' = 0
    /\ UNCHANGED <<binding, holder, at, local, calls, workspaces, sandbox, route>>
--------------------------------------------------------------------------------
(* The lock and the binding *)

Goto(p, from, to) == at[p] = from /\ at' = [at EXCEPT ![p] = to]
Keep(p, row) == local' = [local EXCEPT ![p] = row]
\* On the connection that holds the lock, or not at all.
Save(p, row) == holder = p /\ binding' = row /\ Keep(p, row)
Call(p, kind) == [kind |-> kind, by |-> p, generation |-> local[p].generation]
Send(p, kind) == Cardinality(calls) < MaxCalls /\ calls' = calls \cup {Call(p, kind)}
Answered(p, kind) == Call(p, kind) \notin calls

AfterWorkspace(row) == IF row.sandboxId # 0 THEN "getSandbox" ELSE "intendSandbox"
First(row) ==
    IF row.workspaceId # 0 THEN AfterWorkspace(row)
    ELSE IF row.workspaceIntent THEN "listWorkspaces" ELSE "intendWorkspace"
\* withBinding: a session begins, or the operator's reset.
Load(p) ==
    /\ holder = Nobody /\ holder' = p /\ Keep(p, binding)
    /\ \/ Goto(p, "idle", IF binding = NoRow THEN "first" ELSE First(binding))
       \/ binding # NoRow /\ Goto(p, "idle", "check")
    /\ UNCHANGED <<binding, calls, api>>
SaveFirst(p) ==
    /\ Goto(p, "first", First(NewBinding(1, 0))) /\ Save(p, NewBinding(1, 0))
    /\ UNCHANGED <<holder, calls, api>>
\* Returned, refused, threw, was canceled or died; what it sent may still arrive.  A request that
\* may not create a runtime gives up where it would.
GiveUp(p) ==
    /\ at[p] # "idle" /\ at' = [at EXCEPT ![p] = "idle"] /\ Keep(p, NoRow)
    /\ holder' = IF holder = p THEN Nobody ELSE holder
    /\ UNCHANGED <<binding, calls, api>>
LoseConnection(p) ==
    /\ holder = p /\ holder' = Nobody
    /\ UNCHANGED <<binding, at, local, calls, api>>
--------------------------------------------------------------------------------
(* Sessions.resolve *)

CreateUnannounced(p) ==  \* mutant: the intent is saved with the result
    /\ Goto(p, "intendWorkspace", "createWorkspace") /\ Keep(p, local[p]) /\ Send(p, "createWorkspace")
    /\ UNCHANGED <<binding, holder, api>>
IntendWorkspace(p) ==
    /\ Goto(p, "intendWorkspace", "createWorkspace")
    /\ Save(p, [local[p] EXCEPT !.workspaceIntent = TRUE]) /\ Send(p, "createWorkspace")
    /\ UNCHANGED <<holder, api>>
KeepWorkspace(p) ==
    /\ \/ Answered(p, "createWorkspace") /\ Goto(p, "createWorkspace", AfterWorkspace(local[p]))
       \/ workspaces = 1 /\ Goto(p, "listWorkspaces", AfterWorkspace(local[p]))
    /\ Save(p, [local[p] EXCEPT !.workspaceIntent = TRUE, !.workspaceId = 1])
    /\ UNCHANGED <<holder, calls, api>>
\* sandbox_recovery_required and session_expired end here.
Recoverable(p) == sandbox[local[p].sandboxId] = "terminated"
GetSandbox(p) ==
    /\ \/ Goto(p, "getSandbox", "getWorkspace") /\ Recoverable(p)
       \/ Goto(p, "getSandbox", "wait") /\ sandbox[local[p].sandboxId] = "running"
    /\ UNCHANGED <<binding, holder, local, calls, api>>
GetWorkspace(p) ==
    /\ Goto(p, "getWorkspace", "renew") /\ attached = 0
    /\ UNCHANGED <<binding, holder, local, calls, api>>
RenewBinding(p) ==
    /\ Goto(p, "renew", "intendSandbox") /\ local[p].generation < MaxGenerations
    /\ Save(p, NewBinding(local[p].generation + 1, local[p].workspaceId))
    /\ UNCHANGED <<holder, calls, api>>
IntendSandbox(p) ==
    /\ Goto(p, "intendSandbox", "createSandbox")
    /\ Save(p, [local[p] EXCEPT !.sandboxIntent = TRUE]) /\ Send(p, "createSandbox")
    /\ UNCHANGED <<holder, api>>
KeepSandbox(p) ==
    /\ Goto(p, "createSandbox", "wait")
    /\ Answered(p, "createSandbox") /\ sandbox[local[p].generation] # "none"
    /\ Save(p, [local[p] EXCEPT !.sandboxId = local[p].generation])
    /\ UNCHANGED <<holder, calls, api>>
\* route_creation_unconfirmed ends here.
WaitForSandbox(p) ==
    /\ Goto(p, "wait", "intendRoute") /\ ~local[p].grant /\ ~local[p].routeIntent
    /\ sandbox[local[p].sandboxId] = "running"
    /\ UNCHANGED <<binding, holder, local, calls, api>>
IntendRoute(p) ==
    /\ Goto(p, "intendRoute", "exposeRoute")
    /\ Save(p, [local[p] EXCEPT !.routeIntent = TRUE]) /\ Send(p, "exposeRoute")
    /\ UNCHANGED <<holder, api>>
KeepGrant(p) ==
    /\ Goto(p, "exposeRoute", "use") /\ Answered(p, "exposeRoute") /\ route[local[p].generation] = p
    /\ Save(p, [local[p] EXCEPT !.grant = TRUE])
    /\ UNCHANGED <<holder, calls, api>>
--------------------------------------------------------------------------------
(* resetServiceGrant *)

CheckReset(p) ==
    /\ Goto(p, "check", "revoke") /\ local[p].sandboxId # 0 /\ sandbox[local[p].sandboxId] = "running"
    /\ UNCHANGED <<binding, holder, local, calls, api>>
RevokeGrant(p) ==
    /\ Goto(p, "revoke", "deleteRoute") /\ Save(p, [local[p] EXCEPT !.grant = FALSE, !.routeIntent = TRUE])
    /\ UNCHANGED <<holder, calls, api>>
DeleteRoute(p) ==
    /\ Goto(p, "deleteRoute", "listRoutes") /\ route' = [route EXCEPT ![local[p].sandboxId] = Nobody]
    /\ UNCHANGED <<binding, holder, local, calls, workspaces, attached, sandbox>>
ListRoutes(p) ==
    /\ Goto(p, "listRoutes", "reset") /\ route[local[p].sandboxId] = Nobody
    /\ UNCHANGED <<binding, holder, local, calls, api>>
ResetGrant(p) ==
    /\ Goto(p, "reset", "use") /\ Save(p, [local[p] EXCEPT !.routeIntent = FALSE])
    /\ UNCHANGED <<holder, calls, api>>
--------------------------------------------------------------------------------
Step(p) ==
    \/ Load(p) \/ SaveFirst(p) \/ GiveUp(p) \/ LoseConnection(p)
    \/ IntendWorkspace(p) \/ KeepWorkspace(p) \/ GetSandbox(p) \/ GetWorkspace(p) \/ RenewBinding(p)
    \/ IntendSandbox(p) \/ KeepSandbox(p) \/ WaitForSandbox(p) \/ IntendRoute(p) \/ KeepGrant(p)
    \/ CheckReset(p) \/ RevokeGrant(p) \/ DeleteRoute(p) \/ ListRoutes(p) \/ ResetGrant(p)

Next ==
    \/ \E p \in Process : Step(p)
    \/ \E c \in calls : CarryOut(c)
    \/ \E g \in Generation : SandboxChanges(g)
    \/ WorkspaceReleased

Spec == Init /\ [][Next]_adapterVars
--------------------------------------------------------------------------------
(* Whatever dies, is delayed or loses its lock, the API never holds a       *)
(* second workspace of the user, nor a live sandbox the binding does not    *)
(* announce: nobody would ever stop it.                                     *)
NothingIsLeftBehind ==
    /\ workspaces <= 1
    /\ \A g \in Generation : sandbox[g] \in {"running", "stopped"} =>
          binding.generation = g /\ binding.sandboxIntent
================================================================================
