----------------------------- MODULE TraceAnalysis ----------------------------
(***************************************************************************)
(* The scheduler and off-CPU analyzer of a trace: the state machine of     *)
(* domain/trace_analysis.py over the normalized events of one target, the  *)
(* artifact that application/analyze_trace.py builds from its result, and  *)
(* the checks that contracts/trace.py and application/verify_trace.py make *)
(* of that artifact.                                                       *)
(*                                                                         *)
(* An event is its position in the trace, which is its sequence number and *)
(* its identity, and an interval names the events it was measured between, *)
(* 0 for an endpoint the trace does not have.  Stacks, wakers and the      *)
(* candidate category of a wait are left out, and so are the percentiles;  *)
(* the processor of an event counts in the migrations only.                *)
(* A public event is one direction of a switch: build_trace_evidence.py    *)
(* has made two events of a switch between two threads of the target.      *)
(***************************************************************************)
EXTENDS Integers, Sequences, FiniteSets, FiniteSetsExt

CONSTANTS
    Threads,        \* the threads of the target
    Cpus,           \* the processors they run on
    MaxEvents,      \* bound on the length of a trace
    MaxTime,        \* bound on the time stamps
    MaxIntervals,   \* AnalysisLimits.max_intervals
    MaxWarnings     \* TraceResourceLimits.max_warnings

AnalysisConstants ==
    /\ MaxEvents \in Nat /\ MaxTime \in Nat
    /\ MaxIntervals \in Nat /\ MaxWarnings \in Nat
    /\ 0 \notin Cpus

VARIABLES
    mode,       \* the analysis asked for
    events,     \* the events read so far
    run,        \* run_states: the switch-in that a running thread came with
    off,        \* off_states: the switch-out of a thread that is off the CPU
    wakes,      \* wakeups: the wakeups since the last switch
    lastCpu,    \* last_run_cpu, 0 where there is none
    acc,        \* thread_accumulators
    runtime,    \* runtime_intervals
    runnable,   \* runnable_intervals
    offcpu,     \* off_cpu_intervals
    reserved,   \* interval_count
    status,     \* the accounting of the events
    warnings,   \* warning_count
    phase,      \* how far the analysis is
    partial     \* the artifact says that it is partial

state == <<run, off, wakes, lastCpu, acc, runtime, runnable, offcpu, reserved,
           status, warnings>>
vars == <<mode, events, state, phase, partial>>

Kinds == {"out", "in", "wakeup", "migrate"}
Statuses == {"observed", "consumed", "unpaired"}
Reasons == {"none", "start_boundary", "end_boundary", "missing_wakeup",
            "duplicate_wakeup", "overlapping_switch_out"}

Index == 0 .. MaxEvents
Event == [kind : Kinds, tid : Threads, at : 0 .. MaxTime]
Counters == {"ins", "outs", "migrations", "incomplete", "complete", "split",
             "cut", "runs", "latencies", "runNs", "latencyNs", "offNs", "blockedNs",
             "runnableNs", "unknownNs"}
RuntimeInterval == [tid : Threads, in : Index, out : Index]
RunnableInterval == [tid : Threads, wake : Index, in : Index]
OffCpuInterval == [tid : Threads, out : Index, in : Index, wakes : Seq(Index),
                   reason : Reasons]

TypeOK ==
    /\ mode \in {"sched", "off_cpu"}
    /\ events \in Seq(Event) /\ Len(events) <= MaxEvents
    /\ run \in [Threads -> Index]
    /\ off \in [Threads -> Index]
    /\ wakes \in [Threads -> Seq(Index)]
    /\ lastCpu \in [Threads -> Cpus \cup {0}]
    /\ acc \in [Threads -> [Counters -> Nat]]
    /\ runtime \subseteq RuntimeInterval
    /\ runnable \subseteq RunnableInterval
    /\ offcpu \subseteq OffCpuInterval
    /\ reserved \in Nat
    /\ status \in Seq(Statuses) /\ Len(status) = Len(events)
    /\ warnings \in Nat
    /\ phase \in {"reading", "analyzed", "accepted", "refused"}
    /\ partial \in BOOLEAN

-----------------------------------------------------------------------------
At(i) == events'[i].at
Elapsed(i, j) == At(j) - At(i)

\* A Boolean as a number: each alternative of a handler that was taken.
One(b) == IF b THEN 1 ELSE 0

Elements(s) == {s[k] : k \in DOMAIN s}

\* consume overrides every other mark of an event and unpaired only the first
\* one, so the calls of a handler amount to two sets of events.
Mark(s, consumed, unpaired) ==
    [i \in DOMAIN s |->
        IF i \in consumed THEN "consumed"
        ELSE IF i \in unpaired /\ s[i] = "observed" THEN "unpaired"
        ELSE s[i]]

\* Fault: the state of a thread is looked up and stays.
StateKept(f, t) == f

\* pop: the state of a thread is taken out.
Popped(f, t) == [f EXCEPT ![t] = 0]

\* The counters of a thread: d gives what is added to some of them.
Add(t, d) ==
    acc' = [acc EXCEPT ![t] =
                [c \in Counters |-> @[c] + (IF c \in DOMAIN d THEN d[c] ELSE 0)]]

\* reserve_interval raises when the limit is passed, which ends the analysis
\* without an artifact.
Reserve(n) ==
    /\ reserved' = reserved + n
    /\ phase' = IF reserved + n > MaxIntervals THEN "refused" ELSE phase

\* The next event of the trace.  validate_trace_sequence has checked that the
\* time stamps do not decrease and that the events are those of the target.
Reads(kind, t, at) ==
    /\ phase = "reading"
    /\ Len(events) < MaxEvents
    /\ events # << >> => at >= events[Len(events)].at
    /\ events' = Append(events, [kind |-> kind, tid |-> t, at |-> at])
    /\ UNCHANGED <<mode, partial>>

n == Len(events) + 1
seen == Append(status, "observed")

\* append_incomplete: the off-CPU interval of a thread that ends now or, with 0
\* for in, is cut, with the wakeups in it.
OffCpu(t, in, reason) ==
    [tid |-> t, out |-> off[t], in |-> in, wakes |-> wakes[t], reason |-> reason]

\* The thread leaves the CPU.  A switch-out that no switch-in precedes starts
\* an off-CPU interval all the same; one that finds the thread off the CPU cuts
\* the interval it finds; wakeups of a thread that was running are dropped.
SwitchOut(t, at, cpu) ==
    LET hadRun == run[t] # 0
        hadOff == off[t] # 0
        stale == Elements(wakes[t])
    IN  /\ Reads("out", t, at)
        /\ run' = Popped(run, t)
        /\ off' = [off EXCEPT ![t] = n]
        /\ wakes' = [wakes EXCEPT ![t] = << >>]
        /\ lastCpu' = IF hadRun THEN [lastCpu EXCEPT ![t] = cpu] ELSE lastCpu
        /\ runtime' = runtime \cup
               {[tid |-> t, in |-> i, out |-> n] : i \in {run[t]} \ {0}}
        /\ offcpu' = offcpu \cup
               (IF hadOff THEN {OffCpu(t, 0, "overlapping_switch_out")} ELSE {})
        /\ status' = Mark(seen, IF hadRun THEN {run[t], n} ELSE {},
                          stale \cup {off[t]} \cup
                          (IF hadRun /\ ~hadOff THEN {} ELSE {n}))
        /\ Add(t, [outs |-> 1, incomplete |-> One(~hadRun) + One(hadOff),
                   cut |-> One(hadOff), runs |-> One(hadRun),
                   runNs |-> IF hadRun THEN Elapsed(run[t], n) ELSE 0])
        /\ warnings' = warnings + One(~hadRun) + One(hadOff \/ stale # {})
        /\ Reserve(One(hadRun) + One(hadOff))
        /\ UNCHANGED runnable

Wakeup(t, at) ==
    /\ Reads("wakeup", t, at)
    /\ wakes' = [wakes EXCEPT ![t] = Append(@, n)]
    /\ status' = seen
    /\ UNCHANGED <<run, off, lastCpu, acc, runtime, runnable, offcpu, reserved,
                   warnings, phase>>

\* A switch-in of a thread that is taken to be running: neither of the two is
\* the start of a runtime interval.
DuplicateSwitchIn(t, at) ==
    /\ run[t] # 0
    /\ Reads("in", t, at)
    /\ run' = Popped(run, t)
    /\ status' = Mark(seen, {}, {run[t], n})
    /\ Add(t, [ins |-> 1, incomplete |-> 1])
    /\ warnings' = warnings + 1
    /\ UNCHANGED <<off, wakes, lastCpu, runtime, runnable, offcpu, reserved, phase>>

\* Why the off-CPU interval that a switch-in ends is not split.
Incompleteness(t) ==
    IF off[t] = 0 THEN "start_boundary"
    ELSE IF wakes[t] = << >> THEN "missing_wakeup"
    ELSE IF Len(wakes[t]) > 1 THEN "duplicate_wakeup"
    ELSE "none"

\* The thread takes the CPU: the runnable latency is known after one wakeup,
\* the off-CPU time after a switch-out, and its split after both.
SwitchIn(t, at, cpu) ==
    LET k == Len(wakes[t])
        complete == off[t] # 0
        split == complete /\ k = 1
        total == IF complete THEN Elapsed(off[t], n) ELSE 0
        latency == IF k = 1 THEN Elapsed(wakes[t][1], n) ELSE 0
    IN  /\ run[t] = 0
        /\ Reads("in", t, at)
        /\ run' = [run EXCEPT ![t] = n]
        /\ off' = Popped(off, t)
        /\ wakes' = [wakes EXCEPT ![t] = << >>]
        /\ runnable' = runnable \cup
               {[tid |-> t, wake |-> i, in |-> n] :
                    i \in IF k = 1 THEN {wakes[t][1]} ELSE {}}
        /\ offcpu' = offcpu \cup {OffCpu(t, n, Incompleteness(t))}
        /\ status' = Mark(seen,
                          (IF k = 1 THEN {wakes[t][1], n} ELSE {}) \cup
                          (IF complete THEN {off[t], n} ELSE {}),
                          Elements(wakes[t]) \cup {n})
        /\ Add(t, [ins |-> 1,
                   migrations |-> One(lastCpu[t] \notin {0, cpu}),
                   incomplete |-> One(k > 1) + One(~complete) + One(complete /\ k = 0),
                   latencies |-> One(k = 1), latencyNs |-> latency,
                   complete |-> One(complete), split |-> One(split),
                   cut |-> One(~complete),
                   offNs |-> total,
                   blockedNs |-> IF split THEN Elapsed(off[t], wakes[t][1]) ELSE 0,
                   runnableNs |-> IF split THEN latency ELSE 0,
                   unknownNs |-> IF split THEN 0 ELSE total])
        /\ warnings' = warnings + One(k > 1) + One(complete /\ k = 0)
        /\ Reserve(One(k = 1) + 1)
        /\ UNCHANGED <<lastCpu, runtime>>

\* cpu is the destination; a later switch-in there is not counted again.
Migrate(t, at, cpu) ==
    /\ Reads("migrate", t, at)
    /\ lastCpu' = [lastCpu EXCEPT ![t] = cpu]
    /\ Add(t, [migrations |-> 1])
    /\ status' = Mark(seen, {n}, {})
    /\ UNCHANGED <<run, off, wakes, runtime, runnable, offcpu, reserved, warnings,
                   phase>>

\* The end of the trace: what is pending is cut there, and an event that no
\* handler has marked is unpaired.
EndOfTrace ==
    LET running == {t \in Threads : run[t] # 0}
        waiting == {t \in Threads : off[t] # 0 \/ wakes[t] # << >>}
    IN  /\ phase = "reading"
        /\ offcpu' = offcpu \cup {OffCpu(t, 0, "end_boundary") : t \in waiting}
        /\ status' = Mark(status, {}, DOMAIN status)
        /\ acc' = [t \in Threads |->
                      [acc[t] EXCEPT !["incomplete"] =
                                         @ + One(t \in running) + One(t \in waiting),
                                     !["cut"] = @ + One(t \in waiting)]]
        /\ warnings' = warnings + Cardinality(running) + Cardinality(waiting)
        /\ reserved' = reserved + Cardinality(waiting)
        /\ phase' = IF reserved' > MaxIntervals THEN "refused" ELSE "analyzed"
        /\ UNCHANGED <<mode, events, run, off, wakes, lastCpu, runtime, runnable,
                       partial>>

-----------------------------------------------------------------------------
(* The artifact and what is checked of it.                                  *)

Complete(x) == x.out # 0 /\ x.in # 0
Split(x) == x.reason = "none"
Of(t) == {x \in offcpu : x.tid = t}
Stamp(i) == events[i].at
Unpaired == {i \in DOMAIN status : status[i] = "unpaired"}
Total(c) == MapThenSumSet(LAMBDA t : acc[t][c], Threads)

\* _scheduler_artifact and _off_cpu_artifact: what limits the conclusions.
SchedulerLimited == \E t \in Threads : acc[t]["incomplete"] > 0

OffCpuLimited ==
    \/ \E x \in offcpu : ~Complete(x)
    \/ Cardinality({x \in offcpu : Split(x)}) < Cardinality({x \in offcpu : Complete(x)})

\* Fault: the unpaired events of the analysis are no limitation.
OnlyIncomplete ==
    \/ events = << >>
    \/ mode = "sched" /\ SchedulerLimited
    \/ mode = "off_cpu" /\ OffCpuLimited

\* _analysis_quality: the analysis is partial with the evidence, which an empty
\* trace is, with an unpaired event and with a limitation.
Degraded ==
    \/ events = << >>
    \/ Unpaired # {}
    \/ mode = "sched" /\ SchedulerLimited
    \/ mode = "off_cpu" /\ OffCpuLimited

\* The validators of the contract.
RunnableLatencyValid(x) == Stamp(x.wake) <= Stamp(x.in)

SchedulerThreadValid(t) ==
    Cardinality({x \in runnable : x.tid = t}) <= acc[t]["latencies"]

\* A wakeup that is named lies between the endpoints, and a reason is given
\* exactly for what is not split.
OffCpuIntervalValid(x) ==
    /\ Len(x.wakes) = 1 =>
           /\ x.out # 0 => Stamp(x.out) <= Stamp(x.wakes[1])
           /\ x.in # 0 => Stamp(x.wakes[1]) <= Stamp(x.in)
    /\ Complete(x) => Stamp(x.out) <= Stamp(x.in)
    /\ Split(x) => Complete(x) /\ Len(x.wakes) = 1

\* The counts and the times of a thread add up.
OffCpuThreadValid(t) ==
    /\ acc[t]["split"] <= acc[t]["complete"]
    /\ acc[t]["offNs"] =
           acc[t]["blockedNs"] + acc[t]["runnableNs"] + acc[t]["unknownNs"]
    /\ Cardinality(Of(t)) <= acc[t]["complete"] + acc[t]["cut"]

\* Every event has a place in the accounting, and the warnings are within their
\* limit.
AccountingValid ==
    /\ Cardinality(Unpaired) + Cardinality({i \in DOMAIN status : status[i] = "consumed"})
           = Len(events)
    /\ warnings <= MaxWarnings

\* The totals are those of the intervals and are the sums over the threads.
SchedulerValid ==
    /\ \A x \in runnable : RunnableLatencyValid(x)
    /\ \A t \in Threads : SchedulerThreadValid(t)
    /\ Total("runs") = Cardinality(runtime)
    /\ Total("latencies") = Cardinality(runnable)
    /\ Cardinality(runnable) <= MaxIntervals

OffCpuValid ==
    /\ \A x \in offcpu : OffCpuIntervalValid(x)
    /\ \A t \in Threads : OffCpuThreadValid(t)
    /\ Total("complete") = Cardinality({x \in offcpu : Complete(x)})
    /\ Total("split") = Cardinality({x \in offcpu : Split(x)})
    /\ Total("cut") = Cardinality({x \in offcpu : ~Complete(x)})
    /\ Total("offNs") = Total("blockedNs") + Total("runnableNs") + Total("unknownNs")
    /\ Cardinality(offcpu) <= MaxIntervals

\* The checks of the verifier, which come on top of the contract's: every time
\* stamp lies in the window of the evidence.
InWindow(i) == Stamp(1) <= Stamp(i) /\ Stamp(i) <= Stamp(Len(events))

RunnableConsistent(x) ==
    Stamp(x.wake) <= Stamp(x.in) /\ InWindow(x.wake) /\ InWindow(x.in)

\* The parts of a split interval make up the whole, and what is not complete
\* has a reason.
OffCpuConsistent(x) ==
    /\ ~Complete(x) => ~Split(x)
    /\ Split(x) =>
           /\ Stamp(x.out) <= Stamp(x.wakes[1]) /\ Stamp(x.wakes[1]) <= Stamp(x.in)
           /\ (Stamp(x.wakes[1]) - Stamp(x.out)) + (Stamp(x.in) - Stamp(x.wakes[1])) =
                  Stamp(x.in) - Stamp(x.out)
    /\ \A i \in ({x.out, x.in} \ {0}) \cup
                (IF Len(x.wakes) = 1 THEN Elements(x.wakes) ELSE {}) : InWindow(i)

\* Events in canonical order and consistent intervals.
TimeIntervalsConserved ==
    /\ \A i, j \in DOMAIN events : i < j => Stamp(i) <= Stamp(j)
    /\ mode = "sched" => \A x \in runnable : RunnableConsistent(x)
    /\ mode = "off_cpu" => \A x \in offcpu : OffCpuConsistent(x)

\* The verifier counts the accounting and the aggregates again.
AccountingConserved == DOMAIN status = DOMAIN events /\ AccountingValid

AggregatesConserved ==
    /\ AccountingConserved
    /\ mode = "sched" =>
           Total("runs") = Cardinality(runtime) /\ Total("latencies") = Cardinality(runnable)
    /\ mode = "off_cpu" =>
           /\ Total("complete") + Total("cut") = Cardinality(offcpu)
           /\ \A t \in Threads : OffCpuThreadValid(t)

\* An analysis with unpaired events or none does not say that it is complete.
QualityHonest(says) == events = << >> \/ Unpaired # {} => says

\* The artifact is built, which its contract validates, and verified; what fails
\* a check is not shown to the agent.
Built == AccountingValid /\ IF mode = "sched" THEN SchedulerValid ELSE OffCpuValid

Verified(says) == TimeIntervalsConserved /\ AggregatesConserved /\ QualityHonest(says)

Publish ==
    /\ phase = "analyzed"
    /\ partial' = Degraded
    /\ phase' = IF Built /\ Verified(Degraded) THEN "accepted" ELSE "refused"
    /\ UNCHANGED <<mode, events, state>>

-----------------------------------------------------------------------------
Init ==
    /\ mode \in {"sched", "off_cpu"}
    /\ events = << >>
    /\ run = [t \in Threads |-> 0]
    /\ off = [t \in Threads |-> 0]
    /\ wakes = [t \in Threads |-> << >>]
    /\ lastCpu = [t \in Threads |-> 0]
    /\ acc = [t \in Threads |-> [c \in Counters |-> 0]]
    /\ runtime = {} /\ runnable = {} /\ offcpu = {}
    /\ reserved = 0
    /\ status = << >>
    /\ warnings = 0
    /\ phase = "reading"
    /\ partial = FALSE

Next ==
    \/ \E t \in Threads, at \in 0 .. MaxTime :
           \/ \E cpu \in Cpus :
                  SwitchOut(t, at, cpu) \/ SwitchIn(t, at, cpu) \/ Migrate(t, at, cpu)
           \/ Wakeup(t, at)
           \/ DuplicateSwitchIn(t, at)
    \/ EndOfTrace
    \/ Publish

Spec == Init /\ [][Next]_vars

-----------------------------------------------------------------------------
\* The runtime and the off-CPU intervals of a thread, from event to event.
Spans(t) ==
    {<<x.in, x.out>> : x \in {y \in runtime : y.tid = t}} \cup
    {<<x.out, x.in>> : x \in {y \in Of(t) : Complete(y)}}

\* No time of a thread is counted twice: the intervals in which it is said to
\* run or to be off the CPU follow one another, whatever events are missing or
\* doubled (the handlers of _analyze_temporal in domain/trace_analysis.py).
TimeCountedOnce ==
    \A t \in Threads : \A a, b \in Spans(t) : a # b => a[2] <= b[1] \/ b[2] <= a[1]

\* What the analyzer builds passes the validators of its contract and the
\* verifier except at the limits on intervals and warnings, and an off-CPU
\* analysis that is not marked partial has found the split interval of every
\* event but the migrations (application/analyze_trace.py, verify_trace.py).
\* Within a runnable latency the thread was not switched, but for a duplicate
\* switch-in that the analysis reports as unpaired.
AnalysisTruthful ==
    /\ phase = "refused" => reserved > MaxIntervals \/ warnings > MaxWarnings
    /\ phase = "accepted" /\ ~partial =>
           \A i \in DOMAIN events :
               events[i].kind # "migrate" =>
                   \E x \in offcpu :
                       Split(x) /\ i \in {x.out, x.in} \cup Elements(x.wakes)
    /\ \A x \in runnable : \A i \in x.wake + 1 .. x.in - 1 :
           events[i].tid = x.tid /\ events[i].kind \in {"in", "out"} =>
               events[i].kind = "in" /\ status[i] = "unpaired"
=============================================================================
