---------------------------- MODULE ExecutionSlots ----------------------------
(***************************************************************************)
(* What the capacity protocol promises an organization, without saying     *)
(* how: a slot is granted below the limit, execution starts only under a   *)
(* slot, and a slot is given back only when nothing executes.  Lowering    *)
(* the limit evicts nobody.                                                *)
(***************************************************************************)
EXTENDS Naturals, FiniteSets

CONSTANTS Sandboxes, Limits

VARIABLES
  limit,      \* the organization's max_concurrency
  held,       \* sandboxes with an unreleased reservation
  executing   \* sandboxes that execute, or whose start is with the provider

slots == <<limit, held, executing>>

Init == limit \in Limits /\ held = {} /\ executing = {}

Grant(s) ==
  /\ s \notin held /\ Cardinality(held) < limit
  /\ held' = held \cup {s}
  /\ UNCHANGED <<limit, executing>>

Start(s) ==
  /\ s \in held
  /\ executing' = executing \cup {s}
  /\ UNCHANGED <<limit, held>>

Stop(s) ==
  /\ executing' = executing \ {s}
  /\ UNCHANGED <<limit, held>>

GiveBack(s) ==
  /\ s \in held \ executing
  /\ held' = held \ {s}
  /\ UNCHANGED <<limit, executing>>

ChangeLimit(n) == limit' = n /\ UNCHANGED <<held, executing>>

Next ==
  \/ \E s \in Sandboxes : Grant(s) \/ Start(s) \/ Stop(s) \/ GiveBack(s)
  \/ \E n \in Limits : ChangeLimit(n)

Spec == Init /\ [][Next]_slots
=============================================================================
