--------------------------- MODULE UsageObserverProofs ---------------------------
(***************************************************************************)
(* What the observers record: for any number of them and of cycles.        *)
(***************************************************************************)
EXTENDS UsageObserver, TLAPS

CycleType ==
    [last : Nat, of : Nat, status : {"none", "starting", "running", "paused"},
     busy : {"no", "start", "stop"}, version : Nat, executes : BOOLEAN, serves : BOOLEAN]

ObserverType ==
    /\ cycle \in CycleType
    /\ observation \in [Cycles -> [state : {"none", "pending", "ready", "censored"},
                                   by : Observer \cup {NoObserver}, live : BOOLEAN]]
    /\ observer \in [Observer -> [at : {"idle", "read", "fence", "before", "probe", "after", "record"},
                                  of : Nat, version : Nat, busy : BOOLEAN, before : Nat, ready : BOOLEAN]]

(* Only a runtime that executes serves, and it serves for its own cycle.   *)
ServesForItsCycle ==
    /\ cycle.serves => cycle.executes /\ cycle.of \in served
    /\ cycle.of = 0 => ~cycle.executes /\ cycle.busy = "no" /\ cycle.status \notin {"starting", "running"}

(* As long as the version is the one read before the probe, nothing has    *)
(* begun since, so the sandbox is still in the cycle it was probed in.     *)
Settled(o) ==
    /\ observer[o].version <= observer[o].before /\ observer[o].before <= cycle.version
    /\ cycle.version = observer[o].before => cycle.busy = "no"
ProbedItsCycle ==
    \A o \in Observer :
        /\ observer[o].at = "before" => observer[o].version <= cycle.version
        /\ observer[o].at \in {"probe", "after", "record"} => Settled(o)
        /\ observer[o].at \in {"after", "record"} /\ observer[o].ready /\ cycle.version = observer[o].before
              => cycle.of \in served

(* A claim is on a pending row. *)
ClaimedIsPending == \A c \in Cycles : observation[c].live => observation[c].state = "pending"

ObserverInv ==
    ObserverType /\ ServesForItsCycle /\ ProbedItsCycle /\ ClaimedIsPending /\ ReadyHasServed

(* What a step of the sandbox may do under the observers' eyes.            *)
LEMMA CycleKeeps ==
    ASSUME ObserverInv, UNCHANGED <<observation, observer>>, served \subseteq served', ServesForItsCycle',
           cycle' \in CycleType,
           \/ cycle'.version > cycle.version
           \/ cycle'.version = cycle.version /\ (cycle.busy = "no" => cycle'.busy = "no" /\ cycle'.of = cycle.of)
    PROVE  ObserverInv'
<1> USE DEF ObserverInv
<1>1. ObserverType'
  BY DEF ObserverType, CycleType
<1>2. ProbedItsCycle'
  <2> SUFFICES ASSUME NEW o \in Observer
               PROVE  /\ observer[o].at = "before" => observer[o].version <= cycle'.version
                      /\ observer[o].at \in {"probe", "after", "record"} =>
                            /\ observer[o].version <= observer[o].before /\ observer[o].before <= cycle'.version
                            /\ cycle'.version = observer[o].before => cycle'.busy = "no"
                      /\ observer[o].at \in {"after", "record"} /\ observer[o].ready
                            /\ cycle'.version = observer[o].before => cycle'.of \in served'
    BY DEF ProbedItsCycle, Settled
  <2>1. observer[o].version \in Nat /\ observer[o].before \in Nat /\ cycle.version \in Nat /\ cycle'.version \in Nat
    BY DEF ObserverType, CycleType
  <2> QED
    BY <2>1 DEF ProbedItsCycle, Settled
<1>3. ClaimedIsPending' /\ ReadyHasServed'
  BY DEF ClaimedIsPending, ReadyHasServed
<1> QED
  BY <1>1, <1>2, <1>3

LEMMA SandboxKeeps ==
    ASSUME ObserverInv, BeginStart \/ BeginStop \/ Perform \/ Settle \/ Serve
    PROVE  ObserverInv'
<1> USE DEF ObserverInv
<1>0. /\ cycle \in CycleType /\ cycle.version \in Nat /\ cycle.last \in Nat /\ cycle.of \in Nat
      /\ cycle.executes \in BOOLEAN /\ cycle.serves \in BOOLEAN
  BY DEF ObserverType, CycleType
<1>1. CASE BeginStart
  <2>1. cycle' \in CycleType /\ cycle'.version = cycle.version + 1
    <3>1. cycle' = [cycle EXCEPT !.last = cycle.last + 1, !.of = cycle.last + 1, !.status = "starting",
                                 !.busy = "start", !.version = cycle.version + 1]
      BY <1>1 DEF BeginStart
    <3>2. cycle.version + 1 \in Nat /\ cycle.last + 1 \in Nat
      BY <1>0
    <3>3. cycle' \in CycleType
      BY <1>0, <3>1, <3>2, Zenon DEF CycleType
    <3>4. cycle'.version = cycle.version + 1
      BY <1>0, <3>1, Zenon DEF CycleType
    <3> QED
      BY <3>3, <3>4
  <2>2. ServesForItsCycle'
    BY <1>1 DEF BeginStart, ObserverType, CycleType, ServesForItsCycle
  <2> QED
    BY <1>0, <1>1, <2>1, <2>2, CycleKeeps DEF BeginStart
<1>2. CASE BeginStop
  <2>1. cycle' \in CycleType /\ cycle'.version = cycle.version + 1
    <3>1. cycle' = [cycle EXCEPT !.busy = "stop", !.version = cycle.version + 1]
      BY <1>2 DEF BeginStop
    <3>2. cycle.version + 1 \in Nat /\ cycle.last + 1 \in Nat
      BY <1>0
    <3>3. cycle' \in CycleType
      BY <1>0, <3>1, <3>2, Zenon DEF CycleType
    <3>4. cycle'.version = cycle.version + 1
      BY <1>0, <3>1, Zenon DEF CycleType
    <3> QED
      BY <3>3, <3>4
  <2>2. ServesForItsCycle'
    BY <1>0, <1>2 DEF BeginStop, CycleType, ServesForItsCycle
  <2> QED
    BY <1>0, <1>2, <2>1, <2>2, CycleKeeps DEF BeginStop
<1>3. CASE Perform
  BY <1>3, CycleKeeps DEF Perform, ObserverType, CycleType, ServesForItsCycle
<1>4. CASE Settle
  BY <1>4, CycleKeeps DEF Settle, ObserverType, CycleType, ServesForItsCycle
<1>5. CASE Serve
  BY <1>5, CycleKeeps DEF Serve, ObserverType, CycleType, ServesForItsCycle
<1> QED
  BY <1>1, <1>2, <1>3, <1>4, <1>5

LEMMA FinishKeeps ==
    ASSUME ObserverInv, NEW o \in Observer, NEW state \in {"pending", "ready", "censored"}, Finish(o, state),
           UNCHANGED <<cycle, served>>, state = "ready" => observer[o].of \in served
    PROVE  ObserverInv'
<1> USE DEF ObserverInv
<1>1. ObserverType'
  BY DEF Finish, Resting, ObserverType
<1>2. ServesForItsCycle' /\ ProbedItsCycle'
  BY DEF Finish, Resting, ObserverType, ServesForItsCycle, ProbedItsCycle, Settled
<1>3. ClaimedIsPending' /\ ReadyHasServed'
  BY DEF Finish, ObserverType, ClaimedIsPending, ReadyHasServed
<1> QED
  BY <1>1, <1>2, <1>3

LEMMA ContinueKeeps ==
    ASSUME ObserverInv, NEW o \in Observer, UNCHANGED <<cycle, served>>,
           NEW next \in [at : {"idle", "read", "fence", "before", "probe", "after", "record"},
                         of : Nat, version : Nat, busy : BOOLEAN, before : Nat, ready : BOOLEAN],
           Continue(o, next),
           next.at = "before" => next.version <= cycle.version,
           next.at \in {"probe", "after", "record"} =>
              /\ next.version <= next.before /\ next.before <= cycle.version
              /\ cycle.version = next.before => cycle.busy = "no",
           next.at \in {"after", "record"} /\ next.ready /\ cycle.version = next.before => cycle.of \in served
    PROVE  ObserverInv'
<1> USE DEF ObserverInv, Continue
<1>1. ObserverType'
  BY DEF ObserverType
<1>2. ProbedItsCycle'
  BY DEF ObserverType, ProbedItsCycle, Settled
<1>3. ServesForItsCycle' /\ ClaimedIsPending' /\ ReadyHasServed'
  BY DEF ServesForItsCycle, ClaimedIsPending, ReadyHasServed
<1> QED
  BY <1>1, <1>2, <1>3

LEMMA RestingTyped ==
    Resting \in [at : {"idle", "read", "fence", "before", "probe", "after", "record"},
                 of : Nat, version : Nat, busy : BOOLEAN, before : Nat, ready : BOOLEAN]
  BY DEF Resting

LEMMA ObserverKeeps ==
    ASSUME ObserverInv, NEW o \in Observer,
           ReadCycle(o) \/ ReadFence(o) \/ ReadBefore(o) \/ Probe(o) \/ ReadAfter(o) \/ Record(o) \/ GiveUp(o)
    PROVE  ObserverInv'
<1>0. observer[o] \in [at : {"idle", "read", "fence", "before", "probe", "after", "record"},
                      of : Nat, version : Nat, busy : BOOLEAN, before : Nat, ready : BOOLEAN]
  BY DEF ObserverInv, ObserverType
<1>t. /\ cycle.version \in Nat /\ cycle.busy \in {"no", "start", "stop"} /\ cycle.serves \in BOOLEAN
      /\ UNCHANGED <<cycle, served>>
  <2>1. UNCHANGED <<cycle, served>>
    BY DEF ReadCycle, ReadFence, ReadBefore, Probe, ReadAfter, Record, GiveUp
  <2> QED
    BY <2>1 DEF ObserverInv, ObserverType, CycleType
<1>1. CASE ReadCycle(o)
  <2>1. CASE Continue(o, [observer[o] EXCEPT !.at = "fence"])
    BY <1>0, <1>t, <2>1, ContinueKeeps
  <2>2. CASE Finish(o, "censored")
    BY <1>t, <2>2, FinishKeeps
  <2> QED
    BY <1>1, <2>1, <2>2 DEF ReadCycle
<1>2. CASE ReadFence(o)
  <2> DEFINE next == [observer[o] EXCEPT !.at = "before", !.version = cycle.version, !.busy = cycle.busy # "no"]
  <2>1. /\ next \in [at : {"idle", "read", "fence", "before", "probe", "after", "record"},
                     of : Nat, version : Nat, busy : BOOLEAN, before : Nat, ready : BOOLEAN]
        /\ next.at = "before" /\ next.version = cycle.version
    BY <1>0, <1>t
  <2>2. Continue(o, next)
    BY <1>2 DEF ReadFence
  <2> HIDE DEF next
  <2> QED
    BY <1>t, <2>1, <2>2, ContinueKeeps
<1>3. CASE ReadBefore(o)
  <2> DEFINE next == [observer[o] EXCEPT !.at = "probe", !.before = cycle.version]
  <2>1. /\ next \in [at : {"idle", "read", "fence", "before", "probe", "after", "record"},
                     of : Nat, version : Nat, busy : BOOLEAN, before : Nat, ready : BOOLEAN]
        /\ next.at = "probe" /\ next.before = cycle.version /\ next.version = observer[o].version
    BY <1>0, <1>t
  <2>2. observer[o].version <= cycle.version
    BY <1>3 DEF ReadBefore, ObserverInv, ProbedItsCycle
  <2>3. Finish(o, "censored") \/ Finish(o, "pending") \/ (cycle.busy = "no" /\ Continue(o, next))
    BY <1>3 DEF ReadBefore
  <2>4. CASE cycle.busy = "no" /\ Continue(o, next)
    <3> HIDE DEF next
    <3> QED
      BY <1>t, <2>1, <2>2, <2>4, ContinueKeeps
  <2> QED
    BY <1>t, <2>3, <2>4, FinishKeeps
<1>4. CASE Probe(o)
  <2> DEFINE next == [observer[o] EXCEPT !.at = "after", !.ready = cycle.serves]
  <2>1. /\ next \in [at : {"idle", "read", "fence", "before", "probe", "after", "record"},
                     of : Nat, version : Nat, busy : BOOLEAN, before : Nat, ready : BOOLEAN]
        /\ next.at = "after" /\ next.before = observer[o].before /\ next.version = observer[o].version
        /\ next.ready = cycle.serves
    BY <1>0, <1>t
  <2>2. Settled(o) /\ (cycle.serves => cycle.of \in served)
    BY <1>4 DEF Probe, ObserverInv, ProbedItsCycle, ServesForItsCycle
  <2>3. Continue(o, next)
    BY <1>4 DEF Probe
  <2> HIDE DEF next
  <2> QED
    BY <1>t, <2>1, <2>2, <2>3, ContinueKeeps DEF Settled
<1>5. CASE ReadAfter(o)
  <2> DEFINE same == cycle.busy = "no" /\ cycle.version = observer[o].before /\ cycle.status = "running"
             next == [observer[o] EXCEPT !.at = "record", !.ready = @ /\ cycle.busy = "no"
                                  /\ cycle.version = observer[o].before /\ cycle.status = "running"]
  <2>1. /\ next \in [at : {"idle", "read", "fence", "before", "probe", "after", "record"},
                     of : Nat, version : Nat, busy : BOOLEAN, before : Nat, ready : BOOLEAN]
        /\ next.at = "record" /\ next.before = observer[o].before /\ next.version = observer[o].version
        /\ next.ready => observer[o].ready
    BY <1>0, <1>t
  <2>2. Settled(o) /\ (observer[o].ready /\ cycle.version = observer[o].before => cycle.of \in served)
    BY <1>5 DEF ReadAfter, ObserverInv, ProbedItsCycle
  <2>3. Finish(o, "censored") \/ Continue(o, next)
    BY <1>5 DEF ReadAfter
  <2>4. CASE Continue(o, next)
    <3> HIDE DEF next
    <3> QED
      BY <1>t, <2>1, <2>2, <2>4, ContinueKeeps DEF Settled
  <2> QED
    BY <1>t, <2>3, <2>4, FinishKeeps
<1>6. CASE Record(o)
  <2> DEFINE served1 == observer[o].ready /\ ~observer[o].busy /\ SameCycle(o)
  <2>1. Finish(o, IF served1 THEN "ready" ELSE "pending")
    BY <1>6 DEF Record
  <2>2. served1 => observer[o].of \in served
    BY <1>0, <1>t, <1>6 DEF Record, SameCycle, ObserverInv, ProbedItsCycle, Settled
  <2>3. CASE served1
    BY <1>t, <2>1, <2>2, <2>3, FinishKeeps
  <2>4. CASE ~served1
    BY <1>t, <2>1, <2>4, FinishKeeps
  <2> QED
    BY <2>3, <2>4
<1>7. CASE GiveUp(o)
  BY <1>t, <1>7, RestingTyped, ContinueKeeps DEF GiveUp, Resting
<1> QED
  BY <1>1, <1>2, <1>3, <1>4, <1>5, <1>6, <1>7

LEMMA ClaimKeeps ==
    ASSUME ObserverInv, NEW c \in Cycles, ClaimRunsOut(c) \/ \E o \in Observer : Claim(o, c)
    PROVE  ObserverInv'
<1> USE DEF ObserverInv
<1>1. CASE ClaimRunsOut(c)
  BY <1>1, ZenonT(60) DEF ClaimRunsOut, ObserverType, ServesForItsCycle, ProbedItsCycle, Settled, ClaimedIsPending, ReadyHasServed
<1>2. ASSUME NEW o \in Observer, Claim(o, c) PROVE ObserverInv'
  <2>1. ObserverType'
    <3>1. c \in Nat
      BY DEF Cycles
    <3> QED
      BY <1>2, <3>1 DEF Claim, Resting, ObserverType
  <2>2. ServesForItsCycle' /\ ProbedItsCycle'
    BY <1>2 DEF Claim, Resting, ObserverType, ServesForItsCycle, ProbedItsCycle, Settled
  <2>3. ClaimedIsPending' /\ ReadyHasServed'
    BY <1>2 DEF Claim, ObserverType, ClaimedIsPending, ReadyHasServed
  <2> QED
    BY <2>1, <2>2, <2>3
<1> QED
  BY <1>1, <1>2

LEMMA ObserverInvariant ==
    Spec => []ObserverInv
<1>1. Init => ObserverInv
  <2> SUFFICES ASSUME Init PROVE ObserverInv
    OBVIOUS
  <2>1. ObserverType
    BY DEF Init, Resting, ObserverType, CycleType
  <2>2. ServesForItsCycle /\ ProbedItsCycle /\ ClaimedIsPending /\ ReadyHasServed
    BY DEF Init, Resting, ServesForItsCycle, ProbedItsCycle, ClaimedIsPending, ReadyHasServed
  <2> QED
    BY <2>1, <2>2 DEF ObserverInv
<1>2. ObserverInv /\ [Next]_observerVars => ObserverInv'
  <2> SUFFICES ASSUME ObserverInv, [Next]_observerVars PROVE ObserverInv'
    OBVIOUS
  <2>1. CASE UNCHANGED observerVars
    BY <2>1 DEF observerVars, ObserverInv, ObserverType, ServesForItsCycle, ProbedItsCycle, Settled,
                ClaimedIsPending, ReadyHasServed
  <2> QED
    BY <2>1, SandboxKeeps, ClaimKeeps, ObserverKeeps DEF Next
<1> QED
  BY <1>1, <1>2, PTL DEF Spec

(* A create or resume is recorded as ready only if its own runtime has     *)
(* served: the version read before the probe and again by the statement    *)
(* that writes ties the probe to the cycle (usage-observer.ts).            *)
THEOREM ReadyCyclesHaveServed ==
    Spec => []ReadyHasServed
  BY ObserverInvariant, PTL DEF ObserverInv

(* Nothing changes a result that was written: a row is written by the      *)
(* holder of a live claim only, and a claim is on a pending row.           *)
THEOREM WrittenResultsAreFinal ==
    Spec => ResultsAreFinal
<1> DEFINE Kept(c) == observation[c].state \in {"ready", "censored"} => observation'[c] = observation[c]
<1>1. ObserverInv /\ [Next]_observerVars => [\A c \in Cycles : Kept(c)]_observerVars
  <2> SUFFICES ASSUME ObserverInv, Next, NEW c \in Cycles PROVE Kept(c)
    OBVIOUS
  <2>1. CASE BeginStart \/ BeginStop \/ Perform \/ Settle \/ Serve
    BY <2>1 DEF BeginStart, BeginStop, Perform, Settle, Serve
  <2>2. ASSUME NEW k \in Cycles, ClaimRunsOut(k) \/ \E o \in Observer : Claim(o, k) PROVE Kept(c)
    BY <2>2 DEF ClaimRunsOut, Claim, ObserverInv, ObserverType, ClaimedIsPending
  <2>3. ASSUME NEW o \in Observer,
               ReadCycle(o) \/ ReadFence(o) \/ ReadBefore(o) \/ Probe(o) \/ ReadAfter(o) \/ Record(o) \/ GiveUp(o)
        PROVE  Kept(c)
    BY <2>3 DEF ReadCycle, ReadFence, ReadBefore, Probe, ReadAfter, Record, GiveUp, Finish, Continue, Holds,
                ObserverInv, ObserverType
  <2> QED
    BY <2>1, <2>2, <2>3 DEF Next
<1> QED
  BY <1>1, ObserverInvariant, PTL DEF Spec, ResultsAreFinal
--------------------------------------------------------------------------------
(* A cycle is begun by one effect and ended by at most one: the version     *)
(* counts both, so two for every cycle bound it, and an end not begun yet   *)
(* leaves one to spare.                                                     *)
VersionCounts ==
    /\ cycle.last \in 0..MaxCycles /\ cycle.of \in {0, cycle.last}
    /\ cycle.version <= 2 * cycle.last
    /\ cycle.of # 0 /\ cycle.busy # "stop" => cycle.version < 2 * cycle.last

TypeInv == TypeOK /\ VersionCounts

LEMMA SandboxTyped ==
    ASSUME ObserverAssumption, TypeInv, ServesForItsCycle, BeginStart \/ BeginStop \/ Perform \/ Settle \/ Serve
    PROVE  TypeInv'
<1> USE DEF ObserverAssumption, TypeInv, VersionCounts
<1> DEFINE C == [last : 0..MaxCycles, of : 0..MaxCycles, status : {"none", "starting", "running", "paused"},
                 busy : {"no", "start", "stop"}, version : 0..(2 * MaxCycles), executes : BOOLEAN, serves : BOOLEAN]
<1>0. cycle \in C
  BY DEF TypeOK
<1>1. ASSUME cycle' \in C, served' \subseteq Cycles, UNCHANGED <<observation, observer>>
      PROVE  TypeOK'
  BY <1>1 DEF TypeOK
<1>2. cycle.version + 1 <= 2 * MaxCycles \/ ~(BeginStart \/ BeginStop)
  BY <1>0 DEF BeginStart, BeginStop, ServesForItsCycle
<1>3. CASE BeginStart
  <2>1. cycle' = [last |-> cycle.last + 1, of |-> cycle.last + 1, status |-> "starting", busy |-> "start",
                  version |-> cycle.version + 1, executes |-> cycle.executes, serves |-> cycle.serves]
    BY <1>0, <1>3 DEF BeginStart
  <2>2. cycle.last + 1 \in 0..MaxCycles /\ cycle.version + 1 \in 0..(2 * MaxCycles)
    BY <1>0, <1>2, <1>3 DEF BeginStart
  <2>5. cycle' \in C
    BY <1>0, <2>1, <2>2, Zenon
  <2>3. TypeOK'
    BY <1>1, <1>3, <2>5 DEF BeginStart, TypeOK
  <2>4. VersionCounts'
    BY <1>0, <2>1, <2>2
  <2> QED
    BY <2>3, <2>4
<1>4. CASE BeginStop
  <2>1. cycle' = [last |-> cycle.last, of |-> cycle.of, status |-> cycle.status, busy |-> "stop",
                  version |-> cycle.version + 1, executes |-> cycle.executes, serves |-> cycle.serves]
    BY <1>0, <1>4 DEF BeginStop
  <2>2. cycle.version + 1 \in 0..(2 * MaxCycles)
    BY <1>0, <1>2, <1>4
  <2>5. cycle' \in C
    BY <1>0, <2>1, <2>2, Zenon
  <2>3. TypeOK'
    BY <1>1, <1>4, <2>5 DEF BeginStop, TypeOK
  <2>4. VersionCounts'
    BY <1>0, <1>4, <2>1, <2>2 DEF BeginStop, ServesForItsCycle
  <2> QED
    BY <2>3, <2>4
<1>5. CASE Perform
  <2>1. cycle' = [last |-> cycle.last, of |-> cycle.of, status |-> cycle.status, busy |-> cycle.busy,
                  version |-> cycle.version, executes |-> ~cycle.executes, serves |-> FALSE]
    BY <1>0, <1>5 DEF Perform
  <2>3. cycle' \in C
    BY <1>0, <2>1, Zenon
  <2>2. TypeOK'
    BY <1>1, <1>5, <2>3 DEF Perform, TypeOK
  <2> QED
    BY <1>0, <2>1, <2>2
<1>6. CASE Settle
  <2>1. CASE cycle.busy = "start"
    <3>1. cycle' = [last |-> cycle.last, of |-> cycle.of, status |-> "running", busy |-> "no",
                    version |-> cycle.version, executes |-> cycle.executes, serves |-> cycle.serves]
      BY <1>0, <1>6, <2>1 DEF Settle
    <3>3. cycle' \in C
      BY <1>0, <3>1, Zenon
    <3>2. TypeOK'
      BY <1>1, <1>6, <3>3 DEF Settle, TypeOK
    <3> QED
      BY <1>0, <2>1, <3>1, <3>2
  <2>2. CASE cycle.busy # "start"
    <3>1. cycle' = [last |-> cycle.last, of |-> 0, status |-> "paused", busy |-> "no",
                    version |-> cycle.version, executes |-> cycle.executes, serves |-> cycle.serves]
      BY <1>0, <1>6, <2>2 DEF Settle
    <3>4. 0 \in 0..MaxCycles
      OBVIOUS
    <3>3. cycle' \in C
      BY <1>0, <3>1, <3>4, Zenon
    <3>2. TypeOK'
      BY <1>1, <1>6, <3>3 DEF Settle, TypeOK
    <3> QED
      BY <1>0, <3>1, <3>2
  <2> QED
    BY <2>1, <2>2
<1>7. CASE Serve
  <2>1. cycle' = [last |-> cycle.last, of |-> cycle.of, status |-> cycle.status, busy |-> cycle.busy,
                  version |-> cycle.version, executes |-> cycle.executes, serves |-> ~cycle.serves]
    BY <1>0, <1>7 DEF Serve
  <2>2. cycle.of \in Cycles
    BY <1>0, <1>7 DEF Serve, ServesForItsCycle, Cycles
  <2>4. cycle' \in C
    BY <1>0, <2>1, Zenon
  <2>3. TypeOK'
    BY <1>1, <1>7, <2>2, <2>4 DEF Serve, TypeOK
  <2> QED
    BY <1>0, <2>1, <2>3
<1> QED
  BY <1>3, <1>4, <1>5, <1>6, <1>7

LEMMA FinishTyped ==
    ASSUME ObserverAssumption, TypeInv, NEW o \in Observer, NEW state \in {"pending", "ready", "censored"},
           Finish(o, state), UNCHANGED <<cycle, served>>
    PROVE  TypeInv'
<1>1. observer' = [observer EXCEPT ![o] = Resting] /\ 0 \in 0..MaxCycles /\ 0 \in 0..(2 * MaxCycles)
  BY DEF Finish, ObserverAssumption
<1>2. Resting \in [at : {"idle", "read", "fence", "before", "probe", "after", "record"},
                   of : 0..MaxCycles, version : 0..(2 * MaxCycles), busy : BOOLEAN,
                   before : 0..(2 * MaxCycles), ready : BOOLEAN]
  BY <1>1, Zenon DEF Resting
<1>3. observation' \in [Cycles -> [state : {"none", "pending", "ready", "censored"},
                                   by : Observer \cup {NoObserver}, live : BOOLEAN]]
  BY DEF Finish, TypeInv, TypeOK
<1> QED
  BY <1>1, <1>2, <1>3 DEF TypeInv, VersionCounts, TypeOK

LEMMA ContinueTyped ==
    ASSUME TypeInv, NEW o \in Observer, UNCHANGED <<cycle, served>>,
           NEW next \in [at : {"idle", "read", "fence", "before", "probe", "after", "record"},
                         of : 0..MaxCycles, version : 0..(2 * MaxCycles), busy : BOOLEAN,
                         before : 0..(2 * MaxCycles), ready : BOOLEAN],
           Continue(o, next)
    PROVE  TypeInv'
  BY DEF TypeInv, VersionCounts, TypeOK, Continue

LEMMA ObserverTyped ==
    ASSUME ObserverAssumption, TypeInv, NEW o \in Observer,
           ReadCycle(o) \/ ReadFence(o) \/ ReadBefore(o) \/ Probe(o) \/ ReadAfter(o) \/ Record(o) \/ GiveUp(o)
    PROVE  TypeInv'
<1> DEFINE O == [at : {"idle", "read", "fence", "before", "probe", "after", "record"},
                 of : 0..MaxCycles, version : 0..(2 * MaxCycles), busy : BOOLEAN,
                 before : 0..(2 * MaxCycles), ready : BOOLEAN]
<1>1. observer[o] \in O /\ cycle.version \in 0..(2 * MaxCycles) /\ cycle.serves \in BOOLEAN
  BY DEF TypeInv, TypeOK
<1>2. UNCHANGED <<cycle, served>>
  BY DEF ReadCycle, ReadFence, ReadBefore, Probe, ReadAfter, Record, GiveUp
<1>3. Resting \in O
  BY DEF Resting, ObserverAssumption
<1>4. (cycle.busy # "no") \in BOOLEAN
  OBVIOUS
<1>5. \/ \E state \in {"pending", "ready", "censored"} : Finish(o, state)
      \/ \E next \in O : Continue(o, next)
  <2>1. CASE ReadCycle(o)
    <3>1. [observer[o] EXCEPT !.at = "fence"] \in O
      BY <1>1, Zenon
    <3> QED
      BY <2>1, <3>1, Zenon DEF ReadCycle
  <2>2. CASE ReadFence(o)
    <3>1. [observer[o] EXCEPT !.at = "before", !.version = cycle.version, !.busy = cycle.busy # "no"] \in O
      BY <1>1, <1>4, Zenon
    <3> QED
      BY <2>2, <3>1, Zenon DEF ReadFence
  <2>3. CASE ReadBefore(o)
    <3>1. [observer[o] EXCEPT !.at = "probe", !.before = cycle.version] \in O
      BY <1>1, Zenon
    <3>2. Finish(o, "censored") \/ Finish(o, "pending")
             \/ Continue(o, [observer[o] EXCEPT !.at = "probe", !.before = cycle.version])
      BY <2>3 DEF ReadBefore
    <3> QED
      BY <3>1, <3>2, Zenon
  <2>4. CASE Probe(o)
    <3>1. [observer[o] EXCEPT !.at = "after", !.ready = cycle.serves] \in O
      BY <1>1, Zenon
    <3> QED
      BY <2>4, <3>1, Zenon DEF Probe
  <2>5. CASE ReadAfter(o)
    <3> DEFINE seen == [observer[o] EXCEPT !.at = "record", !.ready = @ /\ cycle.busy = "no"
                                   /\ cycle.version = observer[o].before /\ cycle.status = "running"]
    <3>1. seen \in O
      BY <1>1
    <3>2. Finish(o, "censored") \/ Continue(o, seen)
      BY <2>5 DEF ReadAfter
    <3> HIDE DEF seen
    <3> QED
      BY <3>1, <3>2, Zenon
  <2>6. CASE Record(o)
    <3>1. Finish(o, "ready") \/ Finish(o, "pending")
      BY <2>6 DEF Record
    <3> QED
      BY <3>1, Zenon
  <2>7. CASE GiveUp(o)
    BY <1>3, <2>7, Zenon DEF GiveUp
  <2> QED
    BY <2>1, <2>2, <2>3, <2>4, <2>5, <2>6, <2>7
<1> HIDE DEF O
<1> QED
  BY <1>2, <1>5, FinishTyped, ContinueTyped DEF O

LEMMA ClaimTyped ==
    ASSUME ObserverAssumption, TypeInv, NEW c \in Cycles, ClaimRunsOut(c) \/ \E o \in Observer : Claim(o, c)
    PROVE  TypeInv'
<1>1. CASE ClaimRunsOut(c)
  BY <1>1, ZenonT(60) DEF ClaimRunsOut, TypeInv, TypeOK, VersionCounts
<1>2. ASSUME NEW o \in Observer, Claim(o, c) PROVE TypeInv'
  <2>1. c \in 0..MaxCycles /\ 0 \in 0..MaxCycles
    BY DEF Cycles, ObserverAssumption
  <2>2. 0 \in 0..(2 * MaxCycles)
    BY DEF ObserverAssumption
  <2>3. [Resting EXCEPT !.at = "read", !.of = c]
           \in [at : {"idle", "read", "fence", "before", "probe", "after", "record"},
                of : 0..MaxCycles, version : 0..(2 * MaxCycles), busy : BOOLEAN,
                before : 0..(2 * MaxCycles), ready : BOOLEAN]
    <3> DEFINE O == [at : {"idle", "read", "fence", "before", "probe", "after", "record"},
                     of : 0..MaxCycles, version : 0..(2 * MaxCycles), busy : BOOLEAN,
                     before : 0..(2 * MaxCycles), ready : BOOLEAN]
    <3>1. Resting \in O
      BY <2>1, <2>2, Zenon DEF Resting
    <3> QED
      BY <2>1, <3>1, Zenon
  <2>4. [state |-> "pending", by |-> o, live |-> TRUE]
           \in [state : {"none", "pending", "ready", "censored"}, by : Observer \cup {NoObserver}, live : BOOLEAN]
    BY Zenon
  <2> QED
    BY <1>2, <2>3, <2>4 DEF Claim, TypeInv, TypeOK, VersionCounts
<1> QED
  BY <1>1, <1>2

(* The bounds are bounds: no sandbox has more cycles than MaxCycles, and    *)
(* none of the counters that rows, claims and reads keep runs past what     *)
(* its cycles allow.                                                        *)
THEOREM ObserverTypeInvariant ==
    ASSUME ObserverAssumption PROVE Spec => []TypeOK
<1>1. Init => TypeInv
  BY DEF Init, TypeInv, TypeOK, VersionCounts, Resting, ObserverAssumption, Cycles
<1>2. TypeInv /\ ObserverInv /\ [Next]_observerVars => TypeInv'
  <2> SUFFICES ASSUME TypeInv, ObserverInv, [Next]_observerVars PROVE TypeInv'
    OBVIOUS
  <2>1. CASE UNCHANGED observerVars
    BY <2>1 DEF observerVars, TypeInv, TypeOK, VersionCounts
  <2>2. ServesForItsCycle
    BY DEF ObserverInv
  <2> QED
    BY <2>1, <2>2, SandboxTyped, ClaimTyped, ObserverTyped DEF Next
<1>3. Spec => []TypeInv
  BY <1>1, <1>2, ObserverInvariant, PTL DEF Spec
<1> QED
  BY <1>3, PTL DEF TypeInv
================================================================================
