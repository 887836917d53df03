------------------------------ MODULE UsageObserver -----------------------------
(***************************************************************************)
(* When did a create or a resume first serve?  The observer of each API    *)
(* process claims pending observations, reads the sandbox's cycle, asks    *)
(* getSandboxReadiness and writes what it saw, with no lock held in        *)
(* between, while the sandbox is paused and resumed.  A claim lasts 30     *)
(* seconds, and the observer that holds it does not notice its end.        *)
(***************************************************************************)
EXTENDS Naturals

CONSTANTS Observer, NoObserver,
          MaxCycles  \* bound on the creates and resumes of the sandbox

ObserverAssumption == MaxCycles \in Nat \ {0} /\ NoObserver \notin Observer

VARIABLES
    cycle,        \* the sandbox, its unreleased reservation and its runtime effects
    served,       \* the cycles whose runtime has served: what an observer would have to have seen
    observation,  \* usage_readiness_observations, by the cycle its operation began
    observer      \* observeUsage in each process

observerVars == <<cycle, served, observation, observer>>

Cycles == 1..MaxCycles

TypeOK ==
    /\ cycle \in [last : 0..MaxCycles, of : 0..MaxCycles, status : {"none", "starting", "running", "paused"},
                  busy : {"no", "start", "stop"}, version : 0..(2 * MaxCycles), executes : BOOLEAN, serves : BOOLEAN]
    /\ served \subseteq Cycles
    /\ observation \in [Cycles -> [state : {"none", "pending", "ready", "censored"},
                                   by : Observer \cup {NoObserver}, live : BOOLEAN]]
    /\ observer \in [Observer -> [at : {"idle", "read", "fence", "before", "probe", "after", "record"},
                                  of : 0..MaxCycles, version : 0..(2 * MaxCycles), busy : BOOLEAN,
                                  before : 0..(2 * MaxCycles), ready : BOOLEAN]]

Resting == [at |-> "idle", of |-> 0, version |-> 0, busy |-> FALSE, before |-> 0, ready |-> FALSE]

Init ==
    /\ cycle = [last |-> 0, of |-> 0, status |-> "none", busy |-> "no", version |-> 0,
                executes |-> FALSE, serves |-> FALSE]
    /\ served = {}
    /\ observation = [c \in Cycles |-> [state |-> "none", by |-> NoObserver, live |-> FALSE]]
    /\ observer = [o \in Observer |-> Resting]
--------------------------------------------------------------------------------
(* The sandbox *)

\* A create or a resume: its operation, reservation and effect in one transaction.
BeginStart ==
    /\ cycle.of = 0 /\ cycle.busy = "no" /\ cycle.last < MaxCycles
    /\ cycle' = [cycle EXCEPT !.last = @ + 1, !.of = cycle.last + 1, !.status = "starting",
                              !.busy = "start", !.version = @ + 1]
    /\ UNCHANGED <<served, observation, observer>>
BeginStop ==
    /\ cycle.status = "running" /\ cycle.busy = "no"
    /\ cycle' = [cycle EXCEPT !.busy = "stop", !.version = @ + 1]
    /\ UNCHANGED <<served, observation, observer>>
Perform ==
    /\ cycle.busy # "no" /\ cycle.executes # (cycle.busy = "start")
    /\ cycle' = [cycle EXCEPT !.executes = ~@, !.serves = FALSE]
    /\ UNCHANGED <<served, observation, observer>>
Settle ==
    /\ cycle.busy # "no" /\ cycle.executes = (cycle.busy = "start")
    /\ cycle' = IF cycle.busy = "start" THEN [cycle EXCEPT !.busy = "no", !.status = "running"]
                ELSE [cycle EXCEPT !.busy = "no", !.status = "paused", !.of = 0]
    /\ UNCHANGED <<served, observation, observer>>
Serve ==
    /\ cycle.executes /\ cycle.busy # "stop"
    /\ cycle' = [cycle EXCEPT !.serves = ~@]
    /\ served' = IF cycle.serves THEN served ELSE served \cup {cycle.of}
    /\ UNCHANGED <<observation, observer>>
--------------------------------------------------------------------------------
(* The observer *)

\* Discovery and claim are one transaction; a claim replaces one that has run out.
Claim(o, c) ==
    /\ observer[o].at = "idle" /\ c <= cycle.last
    /\ observation[c].state \in {"none", "pending"} /\ ~observation[c].live
    /\ observation' = [observation EXCEPT ![c] = [state |-> "pending", by |-> o, live |-> TRUE]]
    /\ observer' = [observer EXCEPT ![o] = [Resting EXCEPT !.at = "read", !.of = c]]
    /\ UNCHANGED <<cycle, served>>
ClaimRunsOut(c) ==
    /\ observation[c].live /\ observation' = [observation EXCEPT ![c].live = FALSE]
    /\ UNCHANGED <<cycle, served, observer>>

HoldsUnchecked(o) == observation[observer[o].of].state # "none"  \* mutant
Holds(o) ==
    LET row == observation[observer[o].of] IN row.by = o /\ row.live /\ row.state = "pending"
Finish(o, state) ==
    /\ observation' = [observation EXCEPT ![observer[o].of] =
          IF Holds(o) THEN [state |-> state, by |-> NoObserver, live |-> FALSE] ELSE @]
    /\ observer' = [observer EXCEPT ![o] = Resting]
Continue(o, next) == observer' = [observer EXCEPT ![o] = next] /\ observation' = observation

\* The reservation is another operation's by now, or ten minutes have passed.
ReadCycle(o) ==
    /\ observer[o].at = "read"
    /\ \/ cycle.of = observer[o].of /\ Continue(o, [observer[o] EXCEPT !.at = "fence"])
       \/ Finish(o, "censored")
    /\ UNCHANGED <<cycle, served>>
ReadFence(o) ==
    /\ observer[o].at = "fence"
    /\ Continue(o, [observer[o] EXCEPT !.at = "before", !.version = cycle.version, !.busy = cycle.busy # "no"])
    /\ UNCHANGED <<cycle, served>>

\* getSandboxReadiness: row and fence (read as one here), the probe, and row and fence again.
ReadBefore(o) ==
    /\ observer[o].at = "before"
    /\ IF cycle.status \notin {"starting", "running"} THEN Finish(o, "censored")
       ELSE IF cycle.status = "starting" \/ cycle.busy # "no" THEN Finish(o, "pending")
       ELSE Continue(o, [observer[o] EXCEPT !.at = "probe", !.before = cycle.version])
    /\ UNCHANGED <<cycle, served>>
Probe(o) ==
    /\ observer[o].at = "probe"
    /\ Continue(o, [observer[o] EXCEPT !.at = "after", !.ready = cycle.serves])
    /\ UNCHANGED <<cycle, served>>
ReadAfter(o) ==
    /\ observer[o].at = "after"
    /\ IF cycle.status \notin {"starting", "running"} THEN Finish(o, "censored")
       ELSE Continue(o, [observer[o] EXCEPT !.at = "record",
               !.ready = @ /\ cycle.busy = "no" /\ cycle.version = observer[o].before /\ cycle.status = "running"])
    /\ UNCHANGED <<cycle, served>>

\* The cycle is validated again by the statement that writes the result.
RunningNow(o) == cycle.status = "running" /\ cycle.busy = "no"  \* mutant
SameCycle(o) ==
    /\ cycle.of = observer[o].of /\ cycle.status = "running"
    /\ cycle.version = observer[o].version /\ cycle.busy = "no"
Record(o) ==
    /\ observer[o].at = "record"
    /\ Finish(o, IF observer[o].ready /\ ~observer[o].busy /\ SameCycle(o) THEN "ready" ELSE "pending")
    /\ UNCHANGED <<cycle, served>>

\* A read or the probe fails, or the process dies: the claim is left to run out.
GiveUp(o) ==
    /\ observer[o].at # "idle" /\ Continue(o, Resting)
    /\ UNCHANGED <<cycle, served>>
--------------------------------------------------------------------------------
Next ==
    \/ BeginStart \/ BeginStop \/ Perform \/ Settle \/ Serve
    \/ \E c \in Cycles : ClaimRunsOut(c) \/ \E o \in Observer : Claim(o, c)
    \/ \E o \in Observer : ReadCycle(o) \/ ReadFence(o) \/ ReadBefore(o) \/ Probe(o) \/ ReadAfter(o)
                           \/ Record(o) \/ GiveUp(o)

Spec == Init /\ [][Next]_observerVars
--------------------------------------------------------------------------------
(* A create or resume is recorded as ready only if its own runtime has     *)
(* served, never for what a probe saw of the cycle before or after it.     *)
ReadyHasServed == \A c \in Cycles : observation[c].state = "ready" => c \in served

(* A result is written once: an observer whose claim ran out, and was      *)
(* taken over, changes nothing any more.                                   *)
ResultsAreFinal ==
    [][\A c \in Cycles : observation[c].state \in {"ready", "censored"} => observation'[c] = observation[c]]_observerVars
================================================================================
