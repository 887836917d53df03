------------------------------ MODULE UsageHistory ------------------------------
(***************************************************************************)
(* The held slots of an organization over a window, as usage-history.ts    *)
(* computes them: observer windows are merged and clipped, the window is   *)
(* cut at every bucket, observer window and reservation that begins or     *)
(* ends, and a slice counts when a binary search finds it observed.  A     *)
(* question is one set of rows and one window asked about; times are whole *)
(* units and a bucket is Step of them.  Percentiles are left out.          *)
(***************************************************************************)
EXTENDS Integers, Sequences, FiniteSets, SequencesExt, FiniteSetsExt

CONSTANTS Horizon,        \* times are 0..Horizon
          Step,           \* usageResolutionMs
          Sandbox,        \* each has one reservation at most
          MaxWindows,     \* of the observers
          AskedFrom, AvailableFrom, AskedAt  \* the times a question is asked with

HistoryBounds ==
    /\ Horizon \in Nat /\ Step \in Nat \ {0} /\ IsFiniteSet(Sandbox) /\ MaxWindows \in Nat
    /\ AskedFrom \subseteq Nat /\ AvailableFrom \subseteq Nat /\ AskedAt \subseteq Nat

VARIABLE question  \* the input of aggregateUsageHistory, or nothing yet

Time == 0..Horizon
Interval == {i \in [from : Time, to : Time] : i.from < i.to}
Absent == [from |-> 0, to |-> 0]

\* A reservation that is not released yet lasts up to now.
Open == Horizon + 1
Hold == {Absent} \cup Interval \cup [from : 0..(Horizon - 1), to : {Open}]
Question(holds) ==
    [from : AskedFrom, to : {Horizon}, available : AvailableFrom, now : AskedAt,
     windows : {w \in SUBSET Interval : Cardinality(w) <= MaxWindows}, holds : holds]
Released(q, s) == IF q.holds[s].to = Open THEN q.now ELSE q.holds[s].to

Init == question = {}
Ask == question = {} /\ \E q \in Question({[s \in Sandbox |-> Absent]}) : question' = {q}
Reserve ==
    \E q \in question, s \in Sandbox, i \in Hold :
        q.holds[s] = Absent /\ question' = {[q EXCEPT !.holds[s] = i]}
Next == Ask \/ Reserve
Spec == Init /\ [][Next]_question
--------------------------------------------------------------------------------
(* The code's computation *)

Larger(a, b) == IF a > b THEN a ELSE b
Smaller(a, b) == IF a < b THEN a ELSE b
\* Whichever order intervals that begin together are left in.
Sorted(intervals) ==
    CHOOSE s \in SetToSeqs(intervals) : \A i, j \in DOMAIN s : i < j => s[i].from <= s[j].from
Join(result, i) ==
    IF result # <<>> /\ i.from <= Last(result).to
    THEN [result EXCEPT ![Len(result)].to = Larger(@, i.to)]
    ELSE Append(result, i)
MergeUsageIntervals(intervals, from, to) ==
    LET clipped == {[from |-> Larger(from, i.from), to |-> Smaller(to, i.to)] : i \in intervals}
    IN FoldLeft(Join, <<>>, Sorted({i \in clipped : i.to > i.from}))
Windows(q) == MergeUsageIntervals(q.windows, Larger(q.from, q.available), Smaller(q.to, q.now))

\* The first index whose interval begins after the value, found by halving.
After(intervals, value) ==
    LET search[range \in (0..Len(intervals)) \X (0..Len(intervals))] ==
            LET low == range[1]
                high == range[2]
                mid == (low + high) \div 2
            IN IF low >= high THEN low
               ELSE search[IF intervals[mid + 1].from <= value THEN <<mid + 1, high>> ELSE <<low, mid>>]
    IN search[<<0, Len(intervals)>>]
CoversItsEnd(intervals, value) ==  \* mutant
    LET low == After(intervals, value) IN low > 0 /\ value <= intervals[low].to
Covers(intervals, value) ==
    LET low == After(intervals, value) IN low > 0 /\ value < intervals[low].to

Gaps(q) ==
    LET w == Windows(q)
        ends == <<q.from>> \o [i \in 1..Len(w) |-> w[i].to]
        begins == [i \in 1..Len(w) |-> w[i].from] \o <<q.to>>
    IN {[from |-> ends[i], to |-> begins[i]] : i \in {k \in 1..(Len(w) + 1) : ends[k] < begins[k]}}

\* Buckets are aligned to the resolution, except at the ends of the window.
Starts(q) == {t \in q.from..(q.to - 1) : t = q.from \/ t % Step = 0}
EndOf(q, start) == Smaller(q.to, (start \div Step + 1) * Step)

From(q, s) == Larger(q.from, q.holds[s].from)
To(q, s) == Smaller(q.to, Released(q, s))
Holding(q) == {s \in Sandbox : q.holds[s] # Absent /\ From(q, s) < To(q, s)}
Points(q) ==
    {q.from, q.to} \cup Starts(q)
    \cup {Windows(q)[i].from : i \in DOMAIN Windows(q)} \cup {Windows(q)[i].to : i \in DOMAIN Windows(q)}
    \cup {From(q, s) : s \in Holding(q)} \cup {To(q, s) : s \in Holding(q)}

\* The running sum of the points' deltas up to a slice.
Held(q, at) == Cardinality({s \in Holding(q) : From(q, s) <= at}) - Cardinality({s \in Holding(q) : To(q, s) <= at})
NextPoint(q, at) == Min({p \in Points(q) : p > at})
Counted(q, start) ==
    {at \in Points(q) : at \in start..(EndOf(q, start) - 1) /\ Covers(Windows(q), at)}
Bucket(q, start) ==
    LET length == [at \in Counted(q, start) |-> NextPoint(q, at) - at]
        slots == [at \in Counted(q, start) |-> Held(q, at) * length[at]]
    IN [covered |-> SumFunction(length),
        held |-> SumFunction(slots),
        peak |-> Max({0} \cup {Held(q, at) : at \in Counted(q, start)})]

\* The bucket an operation is counted in, by its number.
FindBucket(q, at) == IF Covers(Windows(q), at) THEN {at \div Step - q.from \div Step} ELSE {}
--------------------------------------------------------------------------------
(* What it should be, one unit of time after the other *)

Observed(q, t) == t >= q.available /\ t < q.now /\ \E w \in q.windows : w.from <= t /\ t < w.to
InUse(q, t) == {s \in Sandbox : q.holds[s] # Absent /\ q.holds[s].from <= t /\ t < Released(q, s)}
Seen(q, start) == {t \in start..(EndOf(q, start) - 1) : Observed(q, t)}
ExactBucket(q, start) ==
    [covered |-> Cardinality(Seen(q, start)),
     held |-> Cardinality({p \in Seen(q, start) \X Sandbox : p[2] \in InUse(q, p[1])}),
     peak |-> Max({0} \cup {Cardinality(InUse(q, t)) : t \in Seen(q, start)})]
NumberOf(q, start) == Cardinality({s \in Starts(q) : s < start})

TypeOK == \A q \in question : q \in Question([Sandbox -> Hold])

(* Every bucket reports the slot time, the peak and the coverage of exactly *)
(* its observed units, whatever the order, overlap and clipping of the      *)
(* windows; the gaps are the rest; an operation is in the bucket of its     *)
(* moment or, unobserved, in none.                                          *)
HistoryIsExact ==
    \A q \in question :
        /\ \A start \in Starts(q) :
              /\ Bucket(q, start) = ExactBucket(q, start)
              /\ \A t \in start..(EndOf(q, start) - 1) :
                    FindBucket(q, t) = (IF Observed(q, t) THEN {NumberOf(q, start)} ELSE {})
        /\ \A t \in q.from..(q.to - 1) : Observed(q, t) <=> \A g \in Gaps(q) : ~(g.from <= t /\ t < g.to)
================================================================================
