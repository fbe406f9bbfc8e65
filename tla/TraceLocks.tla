------------------------------- MODULE TraceLocks -----------------------------
(***************************************************************************)
(* The lock analyzer of a trace: the pairing of domain/                    *)
(* trace_lock_analysis.py over the normalized events of one target, the    *)
(* artifact that application/analyze_trace.py builds from its result, and  *)
(* what contracts/trace.py and application/verify_trace.py check of it.    *)
(*                                                                         *)
(* An event is its position in the trace, and an interval names the two    *)
(* events it was measured between.  Owners and call paths are left out, so *)
(* there is one call path, and a key is a thread with a lock.  The trace   *)
(* of the Helper has no releases; a transcript of the older lock events    *)
(* has.                                                                    *)
(***************************************************************************)
EXTENDS Integers, Sequences, FiniteSets, FiniteSetsExt

CONSTANTS
    Threads,        \* the threads of the target
    Locks,          \* the locks and futexes
    MaxEvents,      \* bound on the length of a trace
    MaxTime,        \* bound on the time stamps
    MaxIntervals,   \* LockAnalysisLimits.max_intervals
    MaxWarnings     \* TraceResourceLimits.max_warnings

LockConstants ==
    {MaxEvents, MaxTime, MaxIntervals, MaxWarnings} \subseteq Nat

VARIABLES
    events,       \* the events read so far
    pend,         \* pending_waits
    hold,         \* active_holds, 0 where there is none
    waits,        \* wait_intervals
    holds,        \* hold_intervals
    issues,       \* incomplete_count
    candidates,   \* the observations of futexes
    byLock,       \* lock_values: the intervals and candidates of each lock
    byThread,     \* thread_values
    reserved,     \* interval_count
    status,       \* the accounting of the events
    warnings,     \* warning_count
    phase,        \* how far the analysis is
    partial       \* the artifact says that it is partial

vars == <<events, pend, hold, waits, holds, issues, candidates, byLock, byThread,
          reserved, status, warnings, phase, partial>>

Keys == Threads \X Locks
Index == 0 .. MaxEvents
Kinds == {"wait", "ended", "released", "candidate"}
Outcomes == {"acquired", "failed", "unknown"}
Event == [kind : Kinds, key : Keys, at : 0 .. MaxTime, outcome : Outcomes \cup {"none"}]
Interval == [key : Keys, from : Index, to : Index]
Projection == [waits : Nat, holds : Nat, candidates : Nat]
Empty == [waits |-> 0, holds |-> 0, candidates |-> 0]

TypeOK ==
    /\ events \in Seq(Event) /\ Len(events) <= MaxEvents
    /\ pend \in [Keys -> Seq(Index)]
    /\ hold \in [Keys -> Index]
    /\ waits \subseteq Interval
    /\ holds \subseteq Interval
    /\ issues \in Nat
    /\ candidates \subseteq Index
    /\ byLock \in [Locks -> Projection]
    /\ byThread \in [Threads -> Projection]
    /\ reserved \in Nat
    /\ status \in Seq({"observed", "consumed", "unpaired"})
    /\ Len(status) = Len(events)
    /\ warnings \in Nat
    /\ phase \in {"reading", "analyzed", "accepted", "refused"}
    /\ partial \in BOOLEAN

-----------------------------------------------------------------------------
n == Len(events) + 1
seen == Append(status, "observed")
One(b) == IF b THEN 1 ELSE 0
Elements(s) == {s[i] : i \in DOMAIN s}

\* consume overrides every other mark and unpaired only the first one.
Mark(s, consumed, unpaired) ==
    [i \in DOMAIN s |->
        IF i \in consumed THEN "consumed"
        ELSE IF i \in unpaired /\ s[i] = "observed" THEN "unpaired"
        ELSE s[i]]

\* The next event; validate_trace_sequence has checked the order of time.
Reads(kind, k, at, outcome) ==
    /\ phase = "reading"
    /\ Len(events) < MaxEvents
    /\ events # << >> => at >= events[Len(events)].at
    /\ events' = Append(events, [kind |-> kind, key |-> k, at |-> at,
                                 outcome |-> outcome])
    /\ UNCHANGED partial

\* The rows of a lock and of a thread; every interval and candidate is added to
\* both.
Row(p, w, h, c) == [waits |-> p.waits + w, holds |-> p.holds + h,
                    candidates |-> p.candidates + c]

Project(k, w, h, c) ==
    /\ byThread' = [byThread EXCEPT ![k[1]] = Row(@, w, h, c)]
    /\ byLock' = [byLock EXCEPT ![k[2]] = Row(@, w, h, c)]

\* reserve_interval raises at the limit, which ends the analysis.
Reserve(m) ==
    /\ reserved' = reserved + m
    /\ phase' = IF reserved + m > MaxIntervals THEN "refused" ELSE phase

\* A futex call: what it waited for is not known exactly.
Candidate(k, at) ==
    /\ Reads("candidate", k, at, "none")
    /\ candidates' = candidates \cup {n}
    /\ Project(k, 0, 0, 1)
    /\ status' = Mark(seen, {n}, {})
    /\ UNCHANGED <<pend, hold, waits, holds, issues, reserved, warnings, phase>>

\* Fault: a second wait takes the place of the first.
LastWait(k) == <<n>>

\* The waits that a key has pending once this one is added.
Pending(k) == Append(pend[k], n)

\* A second wait before the end of the first makes both ambiguous.
Wait(k, at) ==
    LET all == Pending(k)
    IN  /\ Reads("wait", k, at, "none")
        /\ pend' = [pend EXCEPT ![k] = all]
        /\ status' = Mark(seen, {}, IF Len(all) > 1 THEN Elements(all) ELSE {})
        /\ warnings' = warnings + One(Len(all) > 1)
        /\ UNCHANGED <<hold, waits, holds, issues, candidates, byLock, byThread,
                       reserved, phase>>

\* The end of a wait, or a legacy lock_acquired, which is always an acquisition.
\* It closes the wait if there is exactly one.  A successful one starts a hold,
\* unless the thread is taken to hold the lock already: then neither acquisition
\* is the start of one.
WaitEnded(k, at, outcome) ==
    LET open == pend[k]
        paired == Len(open) = 1
        acquired == outcome = "acquired"
        overlap == acquired /\ hold[k] # 0
    IN  /\ Reads("ended", k, at, outcome)
        /\ pend' = [pend EXCEPT ![k] = << >>]
        /\ hold' = [hold EXCEPT ![k] = IF ~acquired THEN @ ELSE IF overlap THEN 0 ELSE n]
        /\ waits' = waits \cup {[key |-> k, from |-> i, to |-> n] :
                                    i \in IF paired THEN Elements(open) ELSE {}}
        /\ status' = Mark(seen, IF paired THEN {open[1], n} ELSE {},
                          (IF paired THEN {} ELSE Elements(open) \cup {n}) \cup
                          (IF overlap THEN {hold[k], n} ELSE {}))
        /\ issues' = issues + One(~paired) + One(overlap)
        /\ warnings' = warnings + One(overlap)
        /\ Reserve(One(paired))
        /\ Project(k, One(paired), 0, 0)
        /\ UNCHANGED <<holds, candidates>>

Release(k, at) ==
    LET held == hold[k] # 0
    IN  /\ Reads("released", k, at, "none")
        /\ hold' = [hold EXCEPT ![k] = 0]
        /\ holds' = holds \cup {[key |-> k, from |-> i, to |-> n] : i \in {hold[k]} \ {0}}
        /\ status' = Mark(seen, IF held THEN {hold[k], n} ELSE {}, {n})
        /\ issues' = issues + One(~held)
        /\ warnings' = warnings + One(~held)
        /\ Reserve(One(held))
        /\ Project(k, 0, One(held), 0)
        /\ UNCHANGED <<pend, waits, candidates>>

\* What is open at the end of the trace is not paired.
OpenWaits == {k \in Keys : pend[k] # << >>}
OpenHolds == {k \in Keys : hold[k] # 0}

\* The rows add up to the intervals and the candidates of the trace.
LockSum == [waits |-> MapThenSumSet(LAMBDA l : byLock[l].waits, Locks),
            holds |-> MapThenSumSet(LAMBDA l : byLock[l].holds, Locks),
            candidates |-> MapThenSumSet(LAMBDA l : byLock[l].candidates, Locks)]
ThreadSum == [waits |-> MapThenSumSet(LAMBDA t : byThread[t].waits, Threads),
              holds |-> MapThenSumSet(LAMBDA t : byThread[t].holds, Threads),
              candidates |-> MapThenSumSet(LAMBDA t : byThread[t].candidates, Threads)]
Totals == [waits |-> Cardinality(waits), holds |-> Cardinality(holds),
           candidates |-> Cardinality(candidates)]
ProjectionsConserved == LockSum = Totals /\ ThreadSum = Totals

EndOfTrace ==
    LET open == Cardinality(OpenWaits) + Cardinality(OpenHolds)
    IN  /\ phase = "reading"
        /\ status' = Mark(status, {}, DOMAIN status)
        /\ issues' = issues + open
        /\ warnings' = warnings + open
        /\ phase' = IF ProjectionsConserved THEN "analyzed" ELSE "refused"
        /\ UNCHANGED <<events, pend, hold, waits, holds, candidates, byLock, byThread,
                       reserved, partial>>

-----------------------------------------------------------------------------
(* The artifact and what is checked of it.                                  *)

Unpaired == {i \in DOMAIN status : status[i] = "unpaired"}

\* The limitations of _lock_artifact.
LockLimited ==
    issues > 0 \/ candidates # {} \/ \E x \in waits : events[x.to].outcome = "unknown"

\* _analysis_quality; an empty trace is partial before it is analyzed.
Degraded == events = << >> \/ Unpaired # {} \/ LockLimited

\* LockWaitInterval and LockHoldInterval do not run backwards.
LockWaitValid(x) == events[x.from].at <= events[x.to].at
LockHoldValid(x) == events[x.from].at <= events[x.to].at

\* _lock_kind: a lock with futex calls only has no exact intervals.
FutexOnly(l) == \A i \in DOMAIN events : events[i].key[2] = l => events[i].kind = "candidate"

LockRowValid(l) ==
    /\ Cardinality({x.key[1] : x \in {y \in waits : y.key[2] = l}}) <= byLock[l].waits
    /\ Cardinality({x \in waits : x.key[2] = l}) <= byLock[l].waits
    /\ Cardinality({x \in holds : x.key[2] = l}) <= byLock[l].holds
    /\ FutexOnly(l) => byLock[l].waits = 0 /\ byLock[l].holds = 0

AccountingValid ==
    /\ Cardinality(Unpaired) + Cardinality({i \in DOMAIN status : status[i] = "consumed"})
           = Len(events)
    /\ warnings <= MaxWarnings

\* The artifact: the rows of the locks make up its totals, and those of the
\* threads make up the rows of the locks.
LockArtifactValid ==
    /\ AccountingValid
    /\ \A x \in waits : LockWaitValid(x)
    /\ \A x \in holds : LockHoldValid(x)
    /\ \A l \in Locks : LockRowValid(l)
    /\ LockSum = Totals
    /\ ThreadSum = LockSum
    /\ Cardinality(waits) + Cardinality(holds) <= MaxIntervals

\* The verifier: intervals within the window of the evidence, and the same sums
\* again.
InWindow(i) == events[1].at <= events[i].at /\ events[i].at <= events[Len(events)].at

LockHoldConsistent(x) == LockHoldValid(x) /\ InWindow(x.from) /\ InWindow(x.to)

LockProjectionsConserved == ThreadSum = LockSum

Verified(says) ==
    /\ \A x \in waits : LockWaitValid(x) /\ InWindow(x.from) /\ InWindow(x.to)
    /\ \A x \in holds : LockHoldConsistent(x)
    /\ LockProjectionsConserved
    /\ AccountingValid
    /\ Unpaired # {} => says

\* The artifact is built, validated and verified.
Publish ==
    /\ phase = "analyzed"
    /\ partial' = Degraded
    /\ phase' = IF LockArtifactValid /\ Verified(Degraded) THEN "accepted" ELSE "refused"
    /\ UNCHANGED <<events, pend, hold, waits, holds, issues, candidates, byLock,
                   byThread, reserved, status, warnings>>

-----------------------------------------------------------------------------
Init ==
    /\ events = << >>
    /\ pend = [k \in Keys |-> << >>]
    /\ hold = [k \in Keys |-> 0]
    /\ waits = {} /\ holds = {} /\ candidates = {}
    /\ issues = 0
    /\ byLock = [l \in Locks |-> Empty]
    /\ byThread = [t \in Threads |-> Empty]
    /\ reserved = 0
    /\ status = << >>
    /\ warnings = 0
    /\ phase = "reading"
    /\ partial = FALSE

Next ==
    \/ \E k \in Keys, at \in 0 .. MaxTime :
           \/ Candidate(k, at) \/ Wait(k, at) \/ Release(k, at)
           \/ \E outcome \in Outcomes : WaitEnded(k, at, outcome)
    \/ EndOfTrace
    \/ Publish

Spec == Init /\ [][Next]_vars

-----------------------------------------------------------------------------
Between(x, kinds) ==
    {i \in x.from + 1 .. x.to - 1 : events[i].key = x.key /\ events[i].kind \in kinds}

\* A wait is measured from the only wait event of its key before the end, and a
\* hold from an acquisition to the release that follows it: no other event of
\* the key that could start or end it lies between (domain/
\* trace_lock_analysis.py).  What the analyzer builds is accepted except at the
\* limits on intervals and warnings, and an analysis that is not marked partial
\* has an interval for every event (application/analyze_trace.py,
\* application/verify_trace.py).
PairsExact ==
    /\ \A x \in waits :
           /\ events[x.from].kind = "wait" /\ events[x.to].kind = "ended"
           /\ Between(x, {"wait", "ended"}) = {}
           /\ \A i \in 1 .. x.from - 1 :
                  events[i].key = x.key /\ events[i].kind = "wait" =>
                      \E j \in i .. x.from : events[j].key = x.key /\ events[j].kind = "ended"
    /\ \A x \in holds :
           /\ events[x.from].kind = "ended" /\ events[x.from].outcome = "acquired"
           /\ events[x.to].kind = "released"
           /\ \A i \in Between(x, {"ended", "released"}) :
                  events[i].kind = "ended" /\ events[i].outcome # "acquired"
    /\ phase = "refused" => reserved > MaxIntervals \/ warnings > MaxWarnings
    /\ phase = "accepted" /\ ~partial =>
           \A i \in DOMAIN events : \E x \in waits \cup holds : i \in {x.from, x.to}
=============================================================================
