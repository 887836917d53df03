------------------------------- MODULE Snapshots -------------------------------
(***************************************************************************)
(* Creating, replaying, restoring and deleting sandbox snapshots.  A       *)
(* snapshot has a row in PostgreSQL and an object at the provider; no      *)
(* transaction spans the two.  A creation and a deletion are requests of   *)
(* several steps that interleave, may crash between any two steps, and     *)
(* may lose the provider's answer.  Nothing in the scheduler looks at      *)
(* snapshots: what a request leaves behind, stays.                         *)
(*                                                                         *)
(* A creating request c inserts the row c and creates the provider object  *)
(* c (the id travels in the metadata of the call).                         *)
(***************************************************************************)
EXTENDS Naturals, FiniteSets

CONSTANTS Creator,     \* requests that create a snapshot; also the ids they make
          Delete,      \* requests that delete one
          Key,         \* idempotency keys
          NoKey,       \* a request without a key
          MaxPolls     \* GETs of one waiting request before its deadline

RequestsAreDistinct == Creator \cap Delete = {}
NoKeyIsNoKey == NoKey \notin Key
PollsAreBounded == MaxPolls \in Nat

VARIABLES
    key, wait,         \* what each creating request asked for
    row,               \* sandbox_snapshots, by id
    operation,         \* the snapshot operation of each row
    store,             \* the provider's snapshots, by the id in their metadata
    deleteSent,        \* ids whose deletion was ever sent to the provider
    pc, answer, polls, \* the local state of creating requests
    dpc, target, seen  \* the local state of deleting requests

vars == <<key, wait, row, operation, store, deleteSent, pc, answer, polls,
          dpc, target, seen>>
rows == <<row, operation>>
creates == <<key, wait, pc, answer, polls>>
deletes == <<dpc, target, seen>>

Statuses == {"creating", "ready", "failed", "deleting", "deleted"}
ProviderStates == {"creating", "ready", "failed"}
NoRow == [status |-> "none", tombstone |-> FALSE, known |-> FALSE]

Unseen == [status |-> "none", known |-> FALSE]
NoTarget == "none"  \* before a deletion has read its row

Row == [status : Statuses \cup {"none"}, tombstone : BOOLEAN, known : BOOLEAN]
Seen == [status : Statuses \cup {"none"}, known : BOOLEAN]

TypeOK ==
    /\ key \in [Creator -> Key \cup {NoKey}]
    /\ wait \in [Creator -> BOOLEAN]
    /\ row \in [Creator -> Row]
    /\ operation \in [Creator -> {"none", "running", "succeeded", "failed"}]
    /\ store \in [Creator -> ProviderStates \cup {"none", "gone"}]
    /\ deleteSent \subseteq Creator
    /\ pc \in [Creator -> {"lookup", "insert", "claim", "call", "record", "read", "poll",
                          "refresh", "finish", "fail", "done"}]
    /\ answer \in [Creator -> ProviderStates \cup {"none"}]
    /\ polls \in [Creator -> 0..MaxPolls]
    /\ dpc \in [Delete -> {"read", "mark", "call", "tombstone", "undo", "deleted", "done"}]
    /\ target \in [Delete -> Creator \cup {NoTarget}]
    /\ seen \in [Delete -> Seen]

Init ==
    /\ key = [c \in Creator |-> NoKey]
    /\ wait = [c \in Creator |-> FALSE]
    /\ row = [c \in Creator |-> NoRow]
    /\ operation = [c \in Creator |-> "none"]
    /\ store = [c \in Creator |-> "none"]
    /\ deleteSent = {}
    /\ pc = [c \in Creator |-> "lookup"]
    /\ answer = [c \in Creator |-> "none"]
    /\ polls = [c \in Creator |-> 0]
    /\ dpc = [d \in Delete |-> "read"]
    /\ target = [d \in Delete |-> NoTarget]
    /\ seen = [d \in Delete |-> Unseen]
--------------------------------------------------------------------------------
Inserted(s) == row[s].status # "none"

\* Every reader selects rows that have no tombstone, whatever their status.
VisibleByStatus(s) == Inserted(s) /\ row[s].status # "deleted"
Visible(s) == Inserted(s) /\ ~row[s].tombstone

Restorable(s) == Visible(s) /\ row[s].status = "ready" /\ row[s].known

\* A step of request c to point q; a request that ends forgets its variables.
Goto(c, q) == pc' = [pc EXCEPT ![c] = q]
End(c) ==
    /\ Goto(c, "done")
    /\ wait' = [wait EXCEPT ![c] = FALSE]
    /\ answer' = [answer EXCEPT ![c] = "none"]
    /\ polls' = [polls EXCEPT ![c] = 0]
--------------------------------------------------------------------------------
(* Creation *)

\* A visible snapshot with the same key is the answer; otherwise the sandbox
\* must exist and be running, idle or paused.
Lookup(c) ==
    /\ pc[c] = "lookup"
    /\ \/ End(c) /\ UNCHANGED key
       \/ \E k \in Key \cup {NoKey}, w \in BOOLEAN :
             /\ ~\E s \in Creator : k # NoKey /\ key[s] = k /\ Visible(s)
             /\ key' = [key EXCEPT ![c] = k]
             /\ wait' = [wait EXCEPT ![c] = w]
             /\ Goto(c, "insert") /\ UNCHANGED <<answer, polls>>
    /\ UNCHANGED <<rows, store, deleteSent, deletes>>

\* The unique index on (organization, key) also covers tombstones.
InsertUnchecked(c) ==
    /\ pc[c] = "insert"
    /\ row' = [row EXCEPT ![c] = [status |-> "creating", tombstone |-> FALSE, known |-> FALSE]]
    /\ Goto(c, "claim")
    /\ UNCHANGED <<operation, store, deleteSent, key, wait, answer, polls, deletes>>

Insert(c) ==
    /\ pc[c] = "insert"
    /\ IF key[c] # NoKey /\ \E s \in Creator : Inserted(s) /\ key[s] = key[c]
       THEN End(c) /\ UNCHANGED row
       ELSE /\ row' = [row EXCEPT ![c] = [status |-> "creating", tombstone |-> FALSE, known |-> FALSE]]
            /\ Goto(c, "claim") /\ UNCHANGED <<wait, answer, polls>>
    /\ UNCHANGED <<operation, store, deleteSent, key, deletes>>

ClaimOperation(c) ==
    /\ pc[c] = "claim"
    /\ operation' = [operation EXCEPT ![c] = "running"]
    /\ Goto(c, "call")
    /\ UNCHANGED <<row, store, deleteSent, key, wait, answer, polls, deletes>>

\* The provider refuses, or makes the object; its answer may be lost, and
\* without an answer the call throws.
CallProvider(c) ==
    /\ pc[c] = "call"
    /\ \/ Goto(c, "fail") /\ UNCHANGED <<store, answer>>
       \/ \E s \in ProviderStates :
             /\ store' = [store EXCEPT ![c] = s]
             /\ \/ answer' = [answer EXCEPT ![c] = s] /\ Goto(c, "record")
                \/ UNCHANGED answer /\ Goto(c, "fail")
    /\ UNCHANGED <<rows, deleteSent, key, wait, polls, deletes>>

UpdateFromProvider(c) ==
    /\ row' = [row EXCEPT ![c] = [@ EXCEPT !.status = answer[c], !.known = TRUE]]
    /\ answer' = [answer EXCEPT ![c] = "none"]

Record(c) ==
    /\ pc[c] = "record"
    /\ UpdateFromProvider(c)
    /\ Goto(c, IF wait[c] THEN "poll" ELSE "read")
    /\ UNCHANGED <<operation, store, deleteSent, key, wait, polls, deletes>>

\* The request goes on with the row it can see; a tombstone makes it throw.
ReadRow(c) ==
    /\ pc[c] = "read"
    /\ Goto(c, IF Visible(c) THEN "finish" ELSE "fail")
    /\ UNCHANGED <<rows, store, deleteSent, key, wait, answer, polls, deletes>>

PollPastDeadline(c) ==
    /\ pc[c] = "poll"
    /\ store[c] \in ProviderStates
    /\ polls' = [polls EXCEPT ![c] = @ + 1]
    /\ answer' = [answer EXCEPT ![c] = store[c]]
    /\ Goto(c, "refresh")
    /\ UNCHANGED <<rows, store, deleteSent, key, wait, deletes>>

\* GET the provider's state; it may be unknown there.  At the deadline the row
\* is read a last time.
Poll(c) ==
    /\ pc[c] = "poll"
    /\ IF polls[c] = MaxPolls
       THEN Goto(c, "read") /\ UNCHANGED <<answer, polls>>
       ELSE /\ polls' = [polls EXCEPT ![c] = @ + 1]
            /\ \/ /\ store[c] \in ProviderStates
                  /\ answer' = [answer EXCEPT ![c] = store[c]]
                  /\ Goto(c, "refresh")
               \/ /\ store[c] = "gone"
                  /\ Goto(c, IF Visible(c) /\ row[c].status \in {"ready", "failed", "deleted"}
                             THEN "finish" ELSE "poll")
                  /\ UNCHANGED answer
               \/ Goto(c, "fail") /\ UNCHANGED answer
    /\ UNCHANGED <<rows, store, deleteSent, key, wait, deletes>>

Refresh(c) ==
    /\ pc[c] = "refresh"
    /\ UpdateFromProvider(c)
    /\ Goto(c, IF Visible(c) /\ answer[c] \in {"ready", "failed"} THEN "finish" ELSE "poll")
    /\ UNCHANGED <<operation, store, deleteSent, key, wait, polls, deletes>>

\* The outcome is the row's status; neither update of the operation is guarded.
Finish(c) ==
    /\ pc[c] = "finish"
    /\ operation' = [operation EXCEPT ![c] =
           IF row[c].status \in {"failed", "deleted"} THEN "failed" ELSE "succeeded"]
    /\ End(c)
    /\ UNCHANGED <<row, store, deleteSent, key, deletes>>

FailCreate(c) ==
    /\ pc[c] = "fail"
    /\ row' = [row EXCEPT ![c].status = "failed"]
    /\ operation' = [operation EXCEPT ![c] = "failed"]
    /\ End(c)
    /\ UNCHANGED <<store, deleteSent, key, deletes>>
--------------------------------------------------------------------------------
(* Deletion *)

Dgoto(d, q) == dpc' = [dpc EXCEPT ![d] = q]
EndDelete(d) ==
    /\ Dgoto(d, "done")
    /\ target' = [target EXCEPT ![d] = NoTarget]
    /\ seen' = [seen EXCEPT ![d] = Unseen]

ReadDeletable(d) ==
    /\ dpc[d] = "read"
    /\ \E s \in Creator :
          /\ Visible(s)
          /\ target' = [target EXCEPT ![d] = s]
          /\ seen' = [seen EXCEPT ![d] = [status |-> row[s].status, known |-> row[s].known]]
    /\ Dgoto(d, "mark")
    /\ UNCHANGED <<rows, store, deleteSent, creates>>

MarkDeleting(d) ==
    /\ dpc[d] = "mark"
    /\ row' = [row EXCEPT ![target[d]].status = "deleting"]
    /\ Dgoto(d, IF seen[d].known THEN "call" ELSE "tombstone")
    /\ UNCHANGED <<operation, store, deleteSent, target, seen, creates>>

\* 404 is success.  A lost answer looks like a failure.
DeleteAtProviderUnconfirmed(d) ==
    /\ dpc[d] = "call"
    /\ deleteSent' = deleteSent \cup {target[d]}
    /\ store' \in {store, [store EXCEPT ![target[d]] = "gone"]}
    /\ Dgoto(d, "tombstone")
    /\ UNCHANGED <<rows, target, seen, creates>>

DeleteAtProvider(d) ==
    /\ dpc[d] = "call"
    /\ deleteSent' = deleteSent \cup {target[d]}
    /\ \/ store' = [store EXCEPT ![target[d]] = "gone"] /\ \E q \in {"tombstone", "undo"} : Dgoto(d, q)
       \/ UNCHANGED store /\ Dgoto(d, "undo")
    /\ UNCHANGED <<rows, target, seen, creates>>

MarkDeleted(d) ==
    /\ dpc[d] = "tombstone"
    /\ row' = [row EXCEPT ![target[d]] = [@ EXCEPT !.status = "deleted", !.tombstone = TRUE]]
    /\ Dgoto(d, "deleted")
    /\ UNCHANGED <<operation, store, deleteSent, target, seen, creates>>

\* The status read at the beginning is written back, the tombstone is not touched.
FailDelete(d) ==
    /\ dpc[d] = "undo"
    /\ row' = [row EXCEPT ![target[d]].status = seen[d].status]
    /\ EndDelete(d)
    /\ UNCHANGED <<operation, store, deleteSent, creates>>
--------------------------------------------------------------------------------
(* The provider, and crashes *)

ProviderProgress(s) ==
    /\ store[s] = "creating"
    /\ \E q \in {"ready", "failed"} : store' = [store EXCEPT ![s] = q]
    /\ UNCHANGED <<rows, deleteSent, creates, deletes>>

CrashCreate(c) ==
    /\ pc[c] \notin {"lookup", "done"}
    /\ End(c)
    /\ UNCHANGED <<rows, store, deleteSent, key, deletes>>

CrashDelete(d) ==
    /\ dpc[d] \notin {"read", "deleted", "done"}
    /\ EndDelete(d)
    /\ UNCHANGED <<rows, store, deleteSent, creates>>

CreateStep(c) ==
    \/ Lookup(c) \/ Insert(c) \/ ClaimOperation(c) \/ CallProvider(c) \/ Record(c)
    \/ ReadRow(c) \/ Poll(c) \/ Refresh(c) \/ Finish(c) \/ FailCreate(c)

DeleteStep(d) ==
    \/ ReadDeletable(d) \/ MarkDeleting(d) \/ DeleteAtProvider(d) \/ MarkDeleted(d) \/ FailDelete(d)

Next ==
    \/ \E c \in Creator : CreateStep(c) \/ ProviderProgress(c) \/ CrashCreate(c)
    \/ \E d \in Delete : DeleteStep(d) \/ CrashDelete(d)

Spec == Init /\ [][Next]_vars

--------------------------------------------------------------------------------
(* Properties *)

\* However often a caller retries a creation under one idempotency key, with
\* crashes, lost answers and deletions in between, the provider makes at most
\* one snapshot for it, and none without a row that names it.
OneSnapshotPerKey ==
    /\ \A s \in Creator : store[s] # "none" => Inserted(s)
    /\ \A s, t \in Creator :
          (s # t /\ key[s] # NoKey /\ key[s] = key[t]) => store[s] = "none" \/ store[t] = "none"

\* A snapshot that was deleted is never seen again, although the request that
\* creates it may still write the provider's state, or its failure, over the row.
DeletedStaysInvisible ==
    [][\A s \in Creator : Inserted(s) /\ ~Visible(s) => ~Visible(s)']_vars

\* When a deletion that knew the provider's object is acknowledged, the object is gone.
AcknowledgedDeletionIsReal ==
    \A d \in Delete : dpc[d] = "deleted" /\ seen[d].known => store[target[d]] \in {"none", "gone"}

\* What a restore accepts exists at the provider and is complete, unless a
\* deletion of it was at least attempted.
RestorableIsComplete ==
    \A s \in Creator : Restorable(s) => store[s] = "ready" \/ s \in deleteSent

================================================================================
