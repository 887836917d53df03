------------------------------ MODULE MCSafetyProofs ------------------------------
(***************************************************************************)
(* What is proved of a component holds in the composition that the model   *)
(* checker explores, for every value of the constants: each behaviour of   *)
(* it is, for the rows of one component, a behaviour of that component.    *)
(***************************************************************************)
EXTENDS MCSafety, MCSafetyComponentsProofs

(* A step about another component leaves the observers' rows alone. *)
LEMMA ImplementsObservation == Spec => Observation!Spec
<1>1. Init => Observation!Init
  BY DEF Init
<1>2. [Next]_vars => [Observation!Next]_(Observation!observerVars)
  BY DEF Next, vars, peopleVars, observerVars, Observation!observerVars
<1> QED
  BY <1>1, <1>2, PTL DEF Spec, Observation!Spec

(* A cycle is recorded as ready only if its own runtime has served, for    *)
(* any number of observers and of creates and resumes.                     *)
THEOREM ReadyCyclesHaveServed == Spec => []ReadyHasServed
<1>1. Observation!Spec => []Observation!ReadyHasServed
  BY Bounds, Observation!ReadyCyclesHaveServed DEF Bounds
<1> QED
  BY <1>1, ImplementsObservation, PTL DEF ReadyHasServed

(* A result is written once, whoever's claim ran out and was taken over.   *)
THEOREM WrittenResultsAreFinal == Spec => ResultsAreFinal
<1>1. Observation!Spec => Observation!ResultsAreFinal
  BY Bounds, Observation!WrittenResultsAreFinal DEF Bounds
<1> QED
  BY <1>1, ImplementsObservation DEF ResultsAreFinal

--------------------------------------------------------------------------------
(* Invitations: accepted by nobody who has not joined.                      *)

LEMMA ImplementsMembership == Spec => Membership!Spec
<1>1. Init => Membership!Init
  BY DEF Init
<1>2. [Next]_vars => [Membership!Next]_(Membership!memberVars)
  BY DEF Next, vars, peopleVars, memberVars, Membership!memberVars
<1> QED
  BY <1>1, <1>2, PTL DEF Spec, Membership!Spec

(* An invitation is marked accepted only after its login has made the      *)
(* membership, however logins, resends and cancellations interleave and    *)
(* wherever a login stops (account.ts, acceptPendingOrganizationInvitations). *)
THEOREM AcceptedInvitationsHaveJoined == Spec => []AcceptedHasJoined
<1>1. AcceptanceInv => Membership!AcceptedHasJoined
  BY DEF AcceptanceInv
<1> QED
  BY <1>1, AcceptanceInvariant, ImplementsMembership, PTL DEF AcceptedHasJoined

--------------------------------------------------------------------------------
(* The lease: why an expiration that ends a sandbox is due.                 *)

LEMMA ImplementsLease == Spec => Lease!Spec
<1>1. Init => Lease!Init
  BY DEF Init
<1>2. [Next]_vars => [Lease!Next]_(Lease!leaseVars)
  BY DEF Next, vars, storedVars, leaseVars, Lease!leaseVars
<1> QED
  BY <1>1, <1>2, PTL DEF Spec, Lease!Spec

(* Of a renewal and an expiration one wins, for any number of renewals in   *)
(* flight, any length of the clock, and a native minimum below or above the *)
(* TTL: an expiration is due unless a renewal performed late has taken the  *)
(* native deadline back.                                                    *)
THEOREM RenewalsAreKept == Spec => RenewalOrExpiration
<1>1. Lease!Init => LeaseInv
  BY LeaseInitially
<1>2. LeaseInv /\ [Lease!Next]_(Lease!leaseVars) => LeaseInv'
  BY LeaseStep
<1>3. LeaseInv /\ [Lease!Next]_(Lease!leaseVars) =>
        /\ [(effect.kind = "none" /\ effect'.kind = "delete") => now >= promised \/ undercut]_(Lease!leaseVars)
        /\ [lease.status = "terminated" =>
              lease'.status = "terminated" /\ promised' = promised]_(Lease!leaseVars)
  BY ExpiryIsDue
<1> QED
  BY <1>1, <1>2, <1>3, ImplementsLease, PTL
  DEF Lease!Spec, RenewalOrExpiration, Lease!RenewedIsNotExpired, Lease!TerminatedStaysTerminated

--------------------------------------------------------------------------------
(* The cutover counts what executes.                                        *)

LEMMA ImplementsInventory == Spec => Inventory!Spec
<1>1. Init => Inventory!Init
  BY DEF Init
<1>2. [Next]_vars => [Inventory!Next]_(Inventory!inventoryVars)
  BY DEF Next, vars, storedVars, inventoryVars, Inventory!inventoryVars
<1> QED
  BY <1>1, <1>2, PTL DEF Spec, Inventory!Spec

(* The cutover counts what executes, for any number of sandboxes of the    *)
(* old version and any order of their requests, their pauses and the tool. *)
THEOREM CutoverCountsWhatExecutes == Spec => []HoldsMatchExecution
<1>1. CutoverInv => Inventory!EnforcedIsHeld /\ Inventory!ReleasedIsNotExecuting
  <2> SUFFICES ASSUME CutoverInv PROVE Inventory!EnforcedIsHeld /\ Inventory!ReleasedIsNotExecuting
    OBVIOUS
  <2>1. Enforcing /\ \A s \in Legacy : Counted(s)
    BY DEF CutoverInv
  <2> QED
    BY <2>1 DEF Enforcing, Counted, Inventory!EnforcedIsHeld, Inventory!ReleasedIsNotExecuting, Inventory!Rows
<1>2. Inventory!Spec => []CutoverInv
  BY Bounds, CutoverInvariant DEF Bounds
<1> QED
  BY <1>1, <1>2, ImplementsInventory, PTL DEF HoldsMatchExecution

--------------------------------------------------------------------------------
(* Snapshots: a key makes one, a deletion is final, a row is true.          *)

LEMMA ImplementsSnapshot == Spec => Snapshot!Spec
<1>1. Init => Snapshot!Init
  BY DEF Init
<1>2. [Next]_vars => [Snapshot!Next]_(Snapshot!vars)
  BY DEF Next, vars, storedVars, snapshotVars, Snapshot!vars
<1> QED
  BY <1>1, <1>2, PTL DEF Spec, Snapshot!Spec

(* One snapshot is made for a key, and none without a row, for any number   *)
(* of requests and keys.                                                    *)
THEOREM KeysMakeOneSnapshot == Spec => []OneSnapshotPerKey
<1>1. SnapshotInv => Snapshot!OneSnapshotPerKey
  BY DEF SnapshotInv, Creating, OneRowPerKey, Snapshot!OneSnapshotPerKey
<1>2. Snapshot!Spec => []SnapshotInv
  BY Bounds, SnapshotInvariant DEF Bounds
<1> QED
  BY <1>1, <1>2, ImplementsSnapshot, PTL DEF OneSnapshotPerKey

(* What a row says of a snapshot is so at the provider, for any number of   *)
(* requests that create, poll and delete it.                                *)
THEOREM RowsAreTrue == Spec => []SnapshotRowsAreTrue
<1>1. SnapshotInv => Snapshot!AcknowledgedDeletionIsReal /\ Snapshot!RestorableIsComplete
  <2> SUFFICES ASSUME SnapshotInv PROVE Snapshot!AcknowledgedDeletionIsReal /\ Snapshot!RestorableIsComplete
    OBVIOUS
  <2>1. (\A c \in Creator : Creating(c)) /\ \A d \in Delete : Deleting(d)
    BY DEF SnapshotInv
  <2> QED
    BY <2>1 DEF Creating, Deleting, Ready, Snapshot!Restorable, Snapshot!AcknowledgedDeletionIsReal,
       Snapshot!RestorableIsComplete
<1>2. Snapshot!Spec => []SnapshotInv
  BY Bounds, SnapshotInvariant DEF Bounds
<1> QED
  BY <1>1, <1>2, ImplementsSnapshot, PTL DEF SnapshotRowsAreTrue

(* A snapshot that was deleted is never seen again, whichever requests are  *)
(* under way.                                                               *)
THEOREM DeletedIsNotSeen == Spec => DeletedStaysInvisible
<1>1. ASSUME SnapshotInv, [Snapshot!Next]_(Snapshot!vars)
      PROVE  [\A s \in Creator : Snapshot!Inserted(s) /\ ~Snapshot!Visible(s) => ~Snapshot!Visible(s)']_(Snapshot!vars)
  <2> SUFFICES ASSUME NEW s \in Creator, Snapshot!Inserted(s), ~Snapshot!Visible(s) PROVE ~Snapshot!Visible(s)'
    OBVIOUS
  <2>1. row[s].tombstone
    BY Zenon DEF Snapshot!Visible
  <2>2. row'[s].tombstone
    BY <1>1, <2>1, TombstoneStays
  <2> QED
    BY <2>2 DEF Snapshot!Visible
<1>2. Snapshot!Spec => []SnapshotInv
  BY Bounds, SnapshotInvariant DEF Bounds
<1> QED
  BY <1>1, <1>2, ImplementsSnapshot, PTL DEF Snapshot!Spec, DeletedStaysInvisible, Snapshot!DeletedStaysInvisible

--------------------------------------------------------------------------------
(* The adapter leaves nothing behind.                                       *)

LEMMA ImplementsAdapter == Spec => Adapter!Spec
<1>1. Init => Adapter!Init
  BY DEF Init
<1>2. [Next]_vars => [Adapter!Next]_(Adapter!adapterVars)
  BY DEF Next, vars, sessionVars, adapterVars, Adapter!adapterVars
<1> QED
  BY <1>1, <1>2, PTL DEF Spec, Adapter!Spec

(* Nothing is left behind, however many processes die or lose their lock,  *)
(* and however late the answers are.                                       *)
THEOREM NothingStays == Spec => []NothingIsLeftBehind
<1>1. AdapterInv => Adapter!NothingIsLeftBehind
  BY DEF AdapterInv, OneWorkspace, Announced, Adapter!NothingIsLeftBehind
<1>2. Adapter!Spec => []AdapterInv
  BY Bounds, AdapterInvariant DEF Bounds
<1> QED
  BY <1>1, <1>2, ImplementsAdapter, PTL DEF NothingIsLeftBehind

--------------------------------------------------------------------------------
(* The slots over a provider that promises nothing.                         *)

LEMMA ImplementsSlots == Spec => Slots!Spec
<1>1. Init => Slots!Init
  BY DEF Init
<1>2. [Next]_vars => [Slots!Next]_(Slots!vars)
  BY DEF Next, vars, sessionVars, slotVars, Slots!vars, Slots!database, Slots!ledger, Slots!effects, Slots!sandbox,
     Slots!provider, Slots!processes
<1> QED
  BY <1>1, <1>2, PTL DEF Spec, Slots!Spec

(* Pauses and absences that prove nothing never give a slot back under a    *)
(* runtime that may execute, for any number of sandboxes, processes and     *)
(* faults.                                                                  *)
THEOREM FallbackIsHeld == Spec => []HeldWhileExecuting
<1>1. Slots!Spec => []Slots!HeldWhileExecuting
  BY SlotBounds, Slots!ExecutionIsHeld DEF SlotBounds, Slots!CapabilitiesAssumption
<1> QED
  BY <1>1, ImplementsSlots, PTL DEF HeldWhileExecuting

(* Every component, and the slot protocol over a provider that promises     *)
(* nothing, keeps its types and its counters their bounds, as soon as the   *)
(* clock can reach the end of the first lease.                              *)
THEOREM TypesAreKept == ASSUME Ttl <= MaxTime + MinLease PROVE Spec => []TypeOK
<1>1. Snapshot!Spec => []SnapshotInv
  BY Bounds, SnapshotInvariant DEF Bounds
<1>2. Lease!Spec => []Lease!TypeOK
  BY Bounds, LeaseTypeInvariant DEF Bounds
<1>3. Inventory!Spec => []CutoverInv
  BY Bounds, CutoverInvariant DEF Bounds
<1>4. Observation!Spec => []Observation!TypeOK
  BY Bounds, Observation!ObserverTypeInvariant DEF Bounds
<1>5. Membership!Spec => []Membership!TypeOK
  BY Bounds, MemberTypeInvariant DEF Bounds
<1>6. Adapter!Spec => []AdapterInv
  BY Bounds, AdapterInvariant DEF Bounds
<1>7. /\ SnapshotInv => Snapshot!TypeOK
      /\ CutoverInv => Inventory!TypeOK
      /\ AdapterInv => Adapter!TypeOK
  BY DEF SnapshotInv, CutoverInv, AdapterInv
<1>8. Slots!Spec => []Slots!TypeOK
  BY SlotBounds, Slots!TypeCorrect DEF SlotBounds, Slots!CapabilitiesAssumption
<1>9. /\ Snapshot!TypeOK /\ Lease!TypeOK /\ Inventory!TypeOK
      /\ Observation!TypeOK /\ Membership!TypeOK /\ Adapter!TypeOK /\ Slots!TypeOK
      => TypeOK
  BY DEF TypeOK
<1> QED
  BY <1>1, <1>2, <1>3, <1>4, <1>5, <1>6, <1>7, <1>8, <1>9, ImplementsSlots, ImplementsSnapshot, ImplementsLease, ImplementsInventory,
     ImplementsObservation, ImplementsMembership, ImplementsAdapter, PTL
================================================================================
