---------------------------- MODULE CapacityInventory ---------------------------
(***************************************************************************)
(* The cutover of one organization to enforced capacity.  A version that   *)
(* knew no reservations has left sandboxes and runtimes behind; once its   *)
(* writers are stopped the operator's tool looks at the provider, sandbox  *)
(* by sandbox, and the limit is enforced when every sandbox is accounted   *)
(* for.  The new version pauses, resumes and kills meanwhile.              *)
(* Restoring a backup (the tool's recovery flag) is not modelled.          *)
(***************************************************************************)
EXTENDS Naturals

CONSTANTS Legacy,      \* the sandboxes of the organization
          MaxVersions  \* bound on the runtime effects of a sandbox

InventoryBound == MaxVersions \in Nat

VARIABLES
    capacity,   \* organizations.capacity_state, "old" before migration 038
    writers,    \* whether the processes of the old version still run
    record,     \* the row of a sandbox with its latest reservation and its effects
    executor,   \* its runtime at the provider, tagged with the sandbox's id
    tool        \* reconcileCapacityInventory between two steps

inventoryVars == <<capacity, writers, record, executor, tool>>

NoRecord == [exists |-> FALSE, known |-> FALSE, status |-> "pending", hold |-> "none", version |-> 0, busy |-> "no"]
IdleTool == [at |-> "idle", todo |-> {}, listed |-> {}, of |-> "none", known |-> FALSE, version |-> 0,
             action |-> "none", unresolved |-> FALSE, foreign |-> FALSE]

Record == [exists : BOOLEAN, known : BOOLEAN, status : {"pending", "running", "paused", "terminated"},
           hold : {"none", "legacy", "held", "released"}, version : 0..MaxVersions,
           busy : {"no", "resume", "pause", "delete"}]
Tool == [at : {"idle", "list", "fence", "get", "apply", "finish"}, todo : SUBSET Legacy,
         listed : SUBSET Legacy, of : Legacy \cup {"none"}, known : BOOLEAN, version : 0..MaxVersions,
         action : {"none", "hold", "absent", "suspended", "unresolved"},
         unresolved : BOOLEAN, foreign : BOOLEAN]

TypeOK ==
    /\ capacity \in {"old", "reconciling", "quarantined", "enforced"}
    /\ writers \in BOOLEAN
    /\ record \in [Legacy -> Record]
    /\ executor \in [Legacy -> {"none", "requested", "live", "paused", "gone"}]
    /\ tool \in Tool

Init ==
    /\ capacity = "old" /\ writers = TRUE
    /\ record = [s \in Legacy |-> NoRecord]
    /\ executor = [s \in Legacy |-> "none"]
    /\ tool = IdleTool

Rows == {s \in Legacy : record[s].exists}
--------------------------------------------------------------------------------
(* The version that knew no reservations *)

OldInsert(s) ==
    /\ writers /\ ~record[s].exists
    /\ record' = [record EXCEPT ![s] = [NoRecord EXCEPT !.exists = TRUE]]
    /\ UNCHANGED <<capacity, writers, executor, tool>>

OldRequest(s) ==
    /\ writers /\ record[s].exists /\ executor[s] = "none"
    /\ executor' = [executor EXCEPT ![s] = "requested"]
    /\ UNCHANGED <<capacity, writers, record, tool>>

OldRecord(s) ==
    /\ writers /\ record[s].exists /\ ~record[s].known /\ executor[s] \in {"live", "paused", "gone"}
    /\ record' = [record EXCEPT ![s] = [@ EXCEPT !.known = TRUE, !.status = "running"]]
    /\ UNCHANGED <<capacity, writers, executor, tool>>

\* The row may stay as it was when the process stops in between.
OldPause(s) ==
    /\ writers /\ record[s].known /\ executor[s] = "live"
    /\ executor' = [executor EXCEPT ![s] = "paused"]
    /\ \E status \in {"paused", record[s].status} : record' = [record EXCEPT ![s].status = status]
    /\ UNCHANGED <<capacity, writers, tool>>

\* Migration 038 backfills an uncertain reservation for every row of that moment.
Migrate ==
    /\ capacity = "old"
    /\ capacity' = "reconciling"
    /\ record' = [s \in Legacy |-> IF record[s].exists THEN [record[s] EXCEPT !.hold = "legacy"] ELSE record[s]]
    /\ UNCHANGED <<writers, executor, tool>>

\* The operator stops the old version and waits for its last requests.
StopWriters ==
    /\ capacity # "old" /\ \A s \in Legacy : executor[s] # "requested"
    /\ writers' = FALSE
    /\ UNCHANGED <<capacity, record, executor, tool>>
--------------------------------------------------------------------------------
(* The version that knows them, at work at the same time *)

Effect(s, busy) == [record[s] EXCEPT !.busy = busy, !.version = @ + 1]
NewBegin(s) ==
    /\ ~writers /\ record[s].exists /\ record[s].known /\ record[s].busy = "no" /\ record[s].version < MaxVersions
    /\ \/ /\ record[s].status = "running" /\ record[s].hold \in {"legacy", "held"}
          /\ record' = [record EXCEPT ![s] = Effect(s, "pause")]
       \/ /\ record[s].status = "paused"
          /\ record[s].hold \in {"legacy", "held"} \/ capacity = "enforced"
          /\ record' = [record EXCEPT ![s] = [Effect(s, "resume") EXCEPT !.hold = "held"]]
       \/ /\ record[s].status \in {"running", "paused"} /\ record[s].hold # "none"
          /\ record' = [record EXCEPT ![s] = Effect(s, "delete")]
    /\ UNCHANGED <<capacity, writers, executor, tool>>

\* The provider performs what was dispatched, before the effect is settled.
NewPerform(s) ==
    /\ record[s].busy # "no"
    /\ executor' = [executor EXCEPT ![s] =
          IF @ \notin {"live", "paused"} THEN @
          ELSE CASE record[s].busy = "pause" -> "paused" [] record[s].busy = "resume" -> "live" [] OTHER -> "gone"]
    /\ UNCHANGED <<capacity, writers, record, tool>>

NewFinish(s) ==
    /\ \/ /\ record[s].busy = "pause" /\ executor[s] = "paused"
          /\ record' = [record EXCEPT ![s] = [@ EXCEPT !.busy = "no", !.status = "paused", !.hold = "released"]]
       \/ /\ record[s].busy = "resume" /\ executor[s] = "live"
          /\ record' = [record EXCEPT ![s] = [@ EXCEPT !.busy = "no", !.status = "running"]]
       \/ /\ record[s].busy = "delete" /\ executor[s] = "gone"
          /\ record' = [record EXCEPT ![s] = [@ EXCEPT !.busy = "no", !.status = "terminated", !.hold = "released"]]
    /\ UNCHANGED <<capacity, writers, executor, tool>>
--------------------------------------------------------------------------------
(* reconcileCapacityInventory --apply --writers-stopped *)

StartInventory ==
    /\ tool.at = "idle" /\ ~writers
    /\ capacity' = "reconciling"
    /\ record' = [s \in Legacy |-> IF record[s].exists /\ record[s].hold = "none"
                                   THEN [record[s] EXCEPT !.hold = "legacy"] ELSE record[s]]
    /\ tool' = [IdleTool EXCEPT !.at = "list", !.todo = Rows]
    /\ UNCHANGED <<writers, executor>>

\* The list is positive evidence only: it may miss any runtime.
ListRuntimes ==
    /\ tool.at = "list"
    /\ \E listed \in SUBSET {s \in Legacy : executor[s] \in {"live", "paused"}} :
          tool' = [tool EXCEPT !.at = "fence", !.listed = listed, !.foreign = ~(listed \subseteq tool.todo)]
    /\ UNCHANGED <<capacity, writers, record, executor>>

ReadFence ==
    /\ tool.at = "fence"
    /\ \/ \E s \in tool.todo :
             tool' = [tool EXCEPT !.at = "get", !.of = s, !.todo = @ \ {s},
                                  !.known = record[s].known, !.version = record[s].version,
                                  !.action = IF record[s].busy = "no" THEN "none" ELSE "unresolved"]
       \/ tool.todo = {} /\ tool' = [tool EXCEPT !.at = "finish"]
    /\ UNCHANGED <<capacity, writers, record, executor>>

\* The row's identity, the listed one, or none: then only an operator, who
\* looked for the runtime, can say that there is none.
Classify(s) ==
    IF tool.known \/ s \in tool.listed
    THEN {CASE executor[s] = "gone" -> "absent" [] executor[s] = "paused" -> "suspended" [] OTHER -> "hold"}
    ELSE {"unresolved"} \cup (IF executor[s] \in {"none", "gone"} THEN {"absent"} ELSE {})

GetRuntime ==
    /\ tool.at = "get"
    /\ IF tool.action = "unresolved"
       THEN tool' = [tool EXCEPT !.at = "apply"]
       ELSE \E action \in Classify(tool.of) : tool' = [tool EXCEPT !.at = "apply", !.action = action]
    /\ UNCHANGED <<capacity, writers, record, executor>>

Applied(s, action) ==
    CASE action = "hold" -> [record[s] EXCEPT !.known = TRUE, !.status = "running", !.hold = "held"]
      [] action = "absent" -> [record[s] EXCEPT !.status = "terminated", !.hold = "released"]
      [] OTHER -> [record[s] EXCEPT !.known = TRUE, !.status = "paused", !.hold = "released"]

UnchangedUnfenced(s) == tool.action = "hold" => record[s].hold # "released"

\* The action is applied only to the sandbox that was classified; a runtime that
\* is held again after a release needs the recovery flag.
Unchanged(s) ==
    /\ record[s].busy = "no" /\ record[s].version = tool.version /\ record[s].known = tool.known
    /\ tool.action = "hold" => record[s].hold # "released"

ApplyClassification ==
    /\ tool.at = "apply"
    /\ LET s == tool.of IN
       \/ /\ tool.action # "unresolved" /\ Unchanged(s)
          /\ record' = [record EXCEPT ![s] = Applied(s, tool.action)]
          /\ tool' = [tool EXCEPT !.at = "fence"]
       \/ /\ tool.action = "unresolved" \/ ~Unchanged(s)
          /\ UNCHANGED record
          /\ tool' = [tool EXCEPT !.at = "fence", !.unresolved = TRUE]
    /\ UNCHANGED <<capacity, writers, executor>>

FinishInventory ==
    /\ tool.at = "finish"
    /\ capacity' = IF tool.foreign THEN "quarantined"
                   ELSE IF tool.unresolved \/ \E s \in Rows : record[s].hold \in {"none", "legacy"} THEN "reconciling"
                   ELSE "enforced"
    /\ tool' = IdleTool
    /\ UNCHANGED <<writers, record, executor>>

StopTool ==
    /\ tool.at # "idle"
    /\ tool' = IdleTool
    /\ UNCHANGED <<capacity, writers, record, executor>>
--------------------------------------------------------------------------------
OldCreatePerformed(s) ==
    /\ executor[s] = "requested"
    /\ executor' = [executor EXCEPT ![s] = "live"]
    /\ UNCHANGED <<capacity, writers, record, tool>>

RuntimeGone(s) ==
    /\ executor[s] \in {"live", "paused"}
    /\ executor' = [executor EXCEPT ![s] = "gone"]
    /\ UNCHANGED <<capacity, writers, record, tool>>

Next ==
    \/ \E s \in Legacy :
          \/ OldInsert(s) \/ OldRequest(s) \/ OldRecord(s) \/ OldPause(s) \/ OldCreatePerformed(s)
          \/ NewBegin(s) \/ NewPerform(s) \/ NewFinish(s) \/ RuntimeGone(s)
    \/ Migrate \/ StopWriters \/ StartInventory \/ ListRuntimes \/ ReadFence \/ GetRuntime
    \/ ApplyClassification \/ FinishInventory \/ StopTool

Spec == Init /\ [][Next]_inventoryVars
--------------------------------------------------------------------------------
(* Properties *)

\* Once the limit is enforced, every runtime that executes or may be resumed
\* for a sandbox of the organization holds a slot, although the old version
\* never reserved one and the provider's list is incomplete.
EnforcedIsHeld ==
    capacity = "enforced" =>
        \A s \in Rows : executor[s] = "live" => record[s].hold = "held"

\* A slot given back by the inventory or by the new version is not in use.
ReleasedIsNotExecuting ==
    \A s \in Legacy : record[s].hold = "released" => executor[s] \in {"none", "paused", "gone"}
================================================================================
