--------------------------- MODULE MCSafetyComponents ---------------------------
(***************************************************************************)
(* Components that share no rows, side by side: the rows of each, and the  *)
(* modules whose actions work on them.                                     *)
(***************************************************************************)
EXTENDS Naturals

CONSTANTS Creator, Delete, Key, NoKey, MaxPolls,      \* Snapshots
          Client, Ttl, MinLease, MaxTime, MaxEffects, \* SandboxLease
          Legacy, MaxVersions,                        \* CapacityInventory
          Observer, NoObserver, MaxCycles,            \* UsageObserver
          Admin, Invitee, Login, MaxInvitations, MaxMemberships,  \* Members
          Process, Nobody, MaxGenerations, MaxCalls   \* AdapterSessions

VARIABLES key, wait, row, operation, store, deleteSent, pc, answer, polls, dpc, target, seen,
          now, lease, effect, native, client, watch, promised, asked, undercut,
          capacity, writers, record, executor, tool,
          cycle, served, observation, observer,
          membership, invitation, account, joined, actor, login,
          binding, holder, at, local, calls, workspaces, attached, sandbox, route

Snapshot == INSTANCE Snapshots
Lease == INSTANCE SandboxLease
Inventory == INSTANCE CapacityInventory
Observation == INSTANCE UsageObserverProofs
Membership == INSTANCE Members
Adapter == INSTANCE AdapterSessions

ASSUME Bounds ==
    /\ Snapshot!RequestsAreDistinct /\ Snapshot!NoKeyIsNoKey /\ Snapshot!PollsAreBounded
    /\ Lease!LeaseBounds /\ Inventory!InventoryBound
    /\ Observation!ObserverAssumption /\ Membership!MemberBounds
    /\ Adapter!AdapterBounds

snapshotVars == <<key, wait, row, operation, store, deleteSent, pc, answer, polls, dpc, target, seen>>
leaseVars == <<now, lease, effect, native, client, watch, promised, asked, undercut>>
inventoryVars == <<capacity, writers, record, executor, tool>>
observerVars == <<cycle, served, observation, observer>>
memberVars == <<membership, invitation, account, joined, actor, login>>
adapterVars == <<binding, holder, at, local, calls, workspaces, attached, sandbox, route>>
================================================================================
