------------------------------ MODULE TraceStream -----------------------------
(***************************************************************************)
(* From the records of a kernel trace to public evidence: the two stream   *)
(* readers (profiles/trace_stream.py for perf script transcripts and       *)
(* profiles/kernel_trace_stream.py for what the Trace Helper writes) and   *)
(* the projection of their result with the checks of its invariants        *)
(* (application/build_trace_evidence.py, application/trace_evidence.py).   *)
(*                                                                         *)
(* A record is a line of the trace with what the readers tell apart in it, *)
(* and a counter of the reader is the set of the records it has counted.   *)
(* epoch counts the loss markers before a record, which only a transcript  *)
(* has: the Helper reports its losses once, for the whole trace.  Payload  *)
(* grammar, hashing and redaction are left out.                            *)
(***************************************************************************)
EXTENDS Integers, Sequences, FiniteSets

CONSTANTS
    Threads,         \* the authenticated threads of the target
    Foreign,         \* any other task
    Locks,           \* lock addresses
    Cpus,            \* processors
    MaxTime,         \* bound on the time stamps
    MaxLines,        \* bound on the records of a trace
    MaxEvents,       \* TraceResourceLimits.max_input_events
    MaxExported,     \* TraceResourceLimits.max_exported_events
    MaxDiagnostics   \* TraceResourceLimits.max_diagnostics

StreamConstants ==
    /\ Foreign \notin Threads
    /\ Cpus \subseteq Nat
    /\ {MaxTime, MaxLines, MaxEvents, MaxExported, MaxDiagnostics} \subseteq Nat

VARIABLES
    adapter,   \* the reader of the trace
    mode,      \* what was traced
    input,     \* the records read so far
    lost,      \* lost_events, the loss markers or the Helper's total
    pending,   \* provisional_wakers: the sched_waking records of a thread
    audited,   \* audited_contentions
    events,    \* the events of the result: their record and what was added to it
    counted,   \* the records in each of the disposition counters
    last,      \* last_timestamp_ns
    diags,     \* diagnostic_count
    phase,     \* how far the trace is
    quality    \* quality_status of the evidence

vars == <<adapter, mode, input, lost, pending, audited, events, counted, last,
          diags, phase, quality>>

Tasks == Threads \cup {Foreign}
None == "none"
Keys == Threads \X Locks

\* legacy is an older lock event, foreign what is about other tasks only, alien
\* an event of the other mode, garbled a record whose fields do not parse,
\* unreadable no record and unseen any one beyond the limit.
Kinds == {"switch", "migrate", "waking", "wakeup",
          "begin", "end", "attempt", "legacy", "futex",
          "foreign", "alien", "garbled", "unreadable", "unseen"}
Classes == {"emitted", "malformed", "out_of_order", "unsupported", "truncated",
            "foreign", "merged"}

\* tid is the thread that the record is about and peer its waker or the other
\* task of a switch; good says that the state of a task, the flags of a lock or
\* the operation on a futex are known, or that a wait succeeded.
Record == [kind : Kinds, tid : Threads, peer : Tasks \cup {None}, lock : Locks \cup {None},
           good : BOOLEAN, at : 0 .. MaxTime, cpu : Cpus, epoch : Nat]

TypeOK ==
    /\ adapter \in {"perf_script", "kernel"}
    /\ mode \in {"sched", "lock"}
    /\ input \in Seq(Record) /\ Len(input) <= MaxLines
    /\ lost \in Nat
    /\ pending \in [Threads -> SUBSET (1 .. Len(input))]
    /\ audited \in [Keys -> {"none", "audited", "poisoned"}]
    /\ events \in Seq([rec : 1 .. Len(input),
                       note : Tasks \cup {None, "acquired", "unknown", "failed"}])
    /\ counted \in [Classes -> SUBSET (1 .. Len(input))]
    /\ last \in 0 .. MaxTime
    /\ diags \in Nat
    /\ phase \in {"reading", "published", "refused"}
    /\ quality \in {"none", "verified", "partial"}

-----------------------------------------------------------------------------
n == Len(input) + 1

Count(class, records) == counted' = [counted EXCEPT ![class] = @ \cup records]
Waiting == UNION {pending[t] : t \in Threads}

\* The next line of the trace.
Reads(r) ==
    /\ phase = "reading"
    /\ Len(input) < MaxLines
    /\ input' = Append(input, r)
    /\ UNCHANGED <<adapter, mode, quality>>

\* Below the event limit and not before its predecessor.  The time stamp counts
\* even if the event is then found to be of no use.
Admits(r) ==
    /\ Reads(r)
    /\ Len(input) < MaxEvents
    /\ r.at >= last
    /\ last' = r.at
    /\ UNCHANGED <<lost, phase>>

Emits(note) ==
    /\ events' = Append(events, [rec |-> n, note |-> note])
    /\ Count("emitted", {n})

\* A record that is counted in a class and leaves nothing else behind.
Drops(class, noted) ==
    /\ Count(class, {n})
    /\ diags' = diags + noted
    /\ UNCHANGED <<pending, audited, events>>

\* Fault: a loss is counted and what was pending is kept.
LossCounted ==
    /\ phase = "reading" /\ adapter = "perf_script" /\ lost < 1
    /\ lost' = lost + 1
    /\ diags' = diags + 1
    /\ UNCHANGED <<adapter, mode, input, pending, audited, events, counted, last,
                   phase, quality>>

\* Fault: pending sched_waking records are dropped without being counted.
LossForgets ==
    /\ phase = "reading" /\ adapter = "perf_script" /\ lost < 1
    /\ lost' = lost + 1
    /\ pending' = [t \in Threads |-> {}]
    /\ audited' = [k \in Keys |-> "none"]
    /\ diags' = diags + 1
    /\ UNCHANGED <<adapter, mode, input, events, counted, last, phase, quality>>

\* PERF_RECORD_LOST in a transcript: what was pending is no longer certain.
LossMarker ==
    /\ phase = "reading" /\ adapter = "perf_script" /\ lost < 1
    /\ lost' = lost + 1
    /\ Count("unsupported", Waiting)
    /\ pending' = [t \in Threads |-> {}]
    /\ audited' = [k \in Keys |-> "none"]
    /\ diags' = diags + 1 + (IF Waiting = {} THEN 0 ELSE 1)
    /\ UNCHANGED <<adapter, mode, input, events, last, phase, quality>>

\* A line that is no record at all.  The transcript reader finds some of them
\* before it looks at the event limit.
PerfUnreadable(r) ==
    /\ adapter = "perf_script" /\ r.kind = "unreadable"
    /\ Reads(r)
    /\ Drops("malformed", 1)
    /\ UNCHANGED <<lost, last, phase>>

KernelUnreadable(r) ==
    /\ adapter = "kernel" /\ r.kind = "unreadable"
    /\ Len(input) < MaxEvents
    /\ Reads(r)
    /\ Drops("malformed", 1)
    /\ UNCHANGED <<lost, last, phase>>

\* Beyond the event limit the transcript reader counts on without looking at
\* the record.
PerfOverLimit(r) ==
    /\ adapter = "perf_script" /\ r.kind = "unseen"
    /\ Len(input) >= MaxEvents
    /\ Reads(r)
    /\ Drops("truncated", 1)
    /\ UNCHANGED <<lost, last, phase>>

\* The reader of the Helper's trace gives up there.
KernelOverLimit ==
    /\ phase = "reading" /\ adapter = "kernel"
    /\ Len(input) >= MaxEvents
    /\ phase' = "refused"
    /\ UNCHANGED <<adapter, mode, input, lost, pending, audited, events, counted,
                   last, diags, quality>>

\* A record that is older than the one before it.
OutOfOrder(r) ==
    /\ r.kind \notin {"unreadable", "unseen"}
    /\ Len(input) < MaxEvents
    /\ r.at < last
    /\ Reads(r)
    /\ Drops("out_of_order", 1)
    /\ UNCHANGED <<lost, last, phase>>

\* Fields that do not parse.
Malformed(r) == r.kind = "garbled" /\ Admits(r) /\ Drops("malformed", 1)

\* An event outside of the list of the mode.
PerfAlien(r) == r.kind = "alien" /\ Admits(r) /\ Drops("unsupported", 1)

\* A record of a transcript that is about foreign tasks only: no diagnostic.
PerfForeign(r) == r.kind = "foreign" /\ Admits(r) /\ Drops("foreign", 0)

-----------------------------------------------------------------------------
(* The events of the scheduler.                                             *)

\* A record that is emitted as it is.
Exports(r, kind, noted) ==
    /\ r.kind = kind
    /\ Admits(r)
    /\ Emits(None)
    /\ diags' = diags + noted
    /\ UNCHANGED <<pending, audited>>

\* A task state that is not known is noted.
PerfSwitch(r) ==
    adapter = "perf_script" /\ Exports(r, "switch", IF r.good THEN 0 ELSE 1)

KernelSwitch(r) == adapter = "kernel" /\ Exports(r, "switch", 0)

PerfMigrate(r) == adapter = "perf_script" /\ Exports(r, "migrate", 0)

KernelMigrate(r) == adapter = "kernel" /\ Exports(r, "migrate", 0)

\* sched_waking waits for the wakeup that it announces.
Waking(r) ==
    /\ r.kind = "waking"
    /\ Admits(r)
    /\ pending' = [pending EXCEPT ![r.tid] = @ \cup {n}]
    /\ UNCHANGED <<audited, events, counted, diags>>

Only(records) == Cardinality(records) = 1

\* A wakeup merges the only sched_waking before it; several are ambiguous.
Wakeup(r, waker) ==
    LET before == pending[r.tid]
    IN  /\ r.kind = "wakeup"
        /\ Admits(r)
        /\ events' = Append(events, [rec |-> n, note |-> waker])
        /\ counted' = [counted EXCEPT !["emitted"] = @ \cup {n},
                          ![IF Only(before) THEN "merged" ELSE "unsupported"] =
                              @ \cup before]
        /\ pending' = [pending EXCEPT ![r.tid] = {}]
        /\ diags' = diags + (IF Only(before) \/ before = {} THEN 0 ELSE 1)
        /\ UNCHANGED audited

\* The waker of a wakeup is that of the only sched_waking before it.
Waker(before) == IF Only(before) THEN input[CHOOSE i \in before : TRUE].peer ELSE None

PerfWakeup(r) == adapter = "perf_script" /\ Wakeup(r, Waker(pending[r.tid]))

\* Without any, the Helper's record may name one itself.
KernelWakeup(r) ==
    /\ adapter = "kernel"
    /\ Wakeup(r, IF pending[r.tid] = {} THEN r.peer ELSE Waker(pending[r.tid]))

-----------------------------------------------------------------------------
(* The events of locks and futexes.                                         *)

\* contention_begin fires again in each phase of one wait: the first is the
\* wait, and flags that are not known make the rest of it ambiguous.
PerfBegin(r) ==
    LET k == <<r.tid, r.lock>>
        known == audited[k]
    IN  /\ r.kind = "begin" /\ adapter = "perf_script"
        /\ Admits(r)
        /\ \/ /\ ~r.good
              /\ Count("unsupported", {n})
              /\ audited' = [audited EXCEPT ![k] =
                                IF known = "none" THEN "none" ELSE "poisoned"]
              /\ diags' = diags + 1
              /\ UNCHANGED events
           \/ /\ r.good /\ known # "none"
              /\ Count(IF known = "audited" THEN "merged" ELSE "unsupported", {n})
              /\ diags' = diags + (IF known = "audited" THEN 0 ELSE 1)
              /\ UNCHANGED <<audited, events>>
           \/ /\ r.good /\ known = "none"
              /\ Emits(None)
              /\ audited' = [audited EXCEPT ![k] = "audited"]
              /\ UNCHANGED diags
        /\ UNCHANGED pending

\* A record of the Helper is always the wait itself.
KernelBegin(r) == adapter = "kernel" /\ Exports(r, "begin", 0)

\* _wait_outcome: for the transcript reader a wait that succeeded is an
\* acquisition only if its beginning is known.
Outcome(success, known) ==
    IF ~success THEN "failed" ELSE IF known THEN "acquired" ELSE "unknown"

PerfEnd(r) ==
    LET k == <<r.tid, r.lock>>
    IN  /\ r.kind = "end" /\ adapter = "perf_script"
        /\ Admits(r)
        /\ Emits(Outcome(r.good, audited[k] = "audited"))
        /\ audited' = [audited EXCEPT ![k] = "none"]
        /\ UNCHANGED <<pending, diags>>

KernelEnd(r) ==
    /\ r.kind = "end" /\ adapter = "kernel"
    /\ Admits(r)
    /\ Emits(Outcome(r.good, TRUE))
    /\ UNCHANGED <<pending, audited, diags>>

\* lock_acquire is an attempt on a lock and says nothing exact.
PerfAttempt(r) == r.kind = "attempt" /\ Admits(r) /\ Drops("unsupported", 1)

\* The older lock_contended, lock_acquired and lock_release.
LegacyLock(r) == Exports(r, "legacy", 0)

\* A futex call is a candidate; its exit, which has no address, and an operation
\* that is not known are not.
PerfFutex(r) ==
    /\ adapter = "perf_script"
    /\ \/ r.good /\ Exports(r, "futex", 0)
       \/ r.kind = "futex" /\ ~r.good /\ Admits(r) /\ Drops("unsupported", 1)

KernelFutex(r) == adapter = "kernel" /\ Exports(r, "futex", 0)

-----------------------------------------------------------------------------
(* The projection into public evidence.                                     *)

\* A switch between two threads of the target becomes two public events.
Both == {i \in DOMAIN events : LET r == input[events[i].rec]
                               IN  r.kind = "switch" /\ r.peer \in Threads}

\* validate_trace_event and validate_trace_sequence: every event is about a
\* thread of the target, a wakeup alone has a waker and the end of a wait alone
\* an outcome, and the events are in the order of their records and in time.
TaskValid(r) == r.tid \in Threads /\ r.peer \in Tasks \cup {None}

EventValid(e) ==
    LET r == input[e.rec]
    IN  /\ TaskValid(r)
        /\ r.kind \in {"switch", "migrate", "wakeup", "begin", "end", "legacy", "futex"}
        /\ r.kind = "wakeup" => e.note \in Tasks \cup {None}
        /\ r.kind = "end" <=> e.note \in {"acquired", "unknown", "failed"}

SequenceValid ==
    /\ Len(events) <= MaxEvents
    /\ \A i \in DOMAIN events : EventValid(events[i])
    /\ \A i \in 1 .. Len(events) - 1 :
           /\ events[i].rec < events[i + 1].rec
           /\ input[events[i].rec].at <= input[events[i + 1].rec].at

\* _validate_parser_result and _validate_export_limits: what was counted and
\* what is to be exported are within the limits.
ParserResultValid(noted) ==
    Len(input) <= MaxEvents /\ noted <= MaxDiagnostics /\ SequenceValid
ExportLimitsHold == Len(events) + Cardinality(Both) <= MaxExported

\* The records of the events do not descend in time or, at one time, in the
\* number of the processor.
Canonical ==
    \A i \in 1 .. Len(events) - 1 :
        LET a == input[events[i].rec]
            b == input[events[i + 1].rec]
        IN  a.at < b.at \/ (a.at = b.at /\ a.cpu <= b.cpu)

\* TraceParseStatistics.partial: nothing was emitted, or something was lost,
\* dropped or noted.
StatisticsPartial(dropped, noted) ==
    events = << >> \/ lost > 0 \/ dropped # {} \/ noted > 0

\* _quality: only the capture of the Helper can be complete.
Quality(dropped, noted) ==
    IF StatisticsPartial(dropped, noted) \/ adapter # "kernel"
    THEN "partial" ELSE "verified"

Dropped(after) == UNION {after[c] : c \in Classes \ {"emitted", "merged"}}

\* TraceQuality: the counts are conserved, and verified evidence has lost and
\* dropped nothing.
QualityValid(after, status) ==
    /\ UNION {after[c] : c \in Classes} = 1 .. Len(input)
    /\ status = "verified" => lost = 0 /\ input # << >> /\ Dropped(after) = {}

LimitsHold(noted) ==
    /\ Len(input) <= MaxEvents
    /\ Len(events) + Cardinality(Both) <= MaxExported
    /\ noted <= MaxDiagnostics

\* TraceEvidenceArtifact: the events are in order and within their limits.
ArtifactValid(noted) == Canonical /\ LimitsHold(noted)

\* trace_evidence_invariant_failures: the status is what the counts imply.
InvariantsHold(after, status, noted) ==
    /\ ArtifactValid(noted)
    /\ status = "partial" <=>
           \/ adapter # "kernel" \/ lost > 0 \/ events = << >> \/ input = << >>
           \/ Dropped(after) # {} \/ noted > 0

\* The end of the trace: sched_waking records without a wakeup are unsupported,
\* and the evidence is built and checked.
Build ==
    LET after == [counted EXCEPT !["unsupported"] = @ \cup Waiting]
        noted == diags + (IF Waiting = {} THEN 0 ELSE 1)
        status == Quality(Dropped(after), noted)
    IN  /\ phase = "reading"
        /\ counted' = after
        /\ pending' = [t \in Threads |-> {}]
        /\ diags' = noted
        /\ quality' = status
        /\ phase' = IF /\ ParserResultValid(noted) /\ ExportLimitsHold
                       /\ QualityValid(after, status)
                       /\ InvariantsHold(after, status, noted)
                    THEN "published" ELSE "refused"
        /\ UNCHANGED <<adapter, mode, input, lost, audited, events, last>>

-----------------------------------------------------------------------------
\* The Helper's loss total and its mark of a truncated output, which the reader
\* notes as a diagnostic, are known from the start.
HelperTotals == [lost : {0, 1}, diags : {0, 1}]

Init ==
    /\ adapter \in {"perf_script", "kernel"}
    /\ mode \in {"sched", "lock"}
    /\ input = << >>
    /\ \E h \in HelperTotals :
           /\ adapter # "kernel" => h = [lost |-> 0, diags |-> 0]
           /\ lost = h.lost /\ diags = h.diags
    /\ pending = [t \in Threads |-> {}]
    /\ audited = [k \in Keys |-> "none"]
    /\ events = << >>
    /\ counted = [c \in Classes |-> {}]
    /\ last = 0
    /\ phase = "reading"
    /\ quality = "none"

PerfConsume(r) ==
    \/ PerfUnreadable(r) \/ PerfOverLimit(r) \/ OutOfOrder(r)
    \/ Malformed(r) \/ PerfAlien(r) \/ PerfForeign(r)
    \/ PerfSwitch(r) \/ PerfMigrate(r) \/ Waking(r) \/ PerfWakeup(r)
    \/ PerfBegin(r) \/ PerfEnd(r) \/ PerfAttempt(r) \/ LegacyLock(r) \/ PerfFutex(r)

KernelConsume(r) ==
    \/ KernelUnreadable(r) \/ OutOfOrder(r) \/ Malformed(r)
    \/ KernelSwitch(r) \/ KernelMigrate(r) \/ Waking(r) \/ KernelWakeup(r)
    \/ KernelBegin(r) \/ KernelEnd(r) \/ KernelFutex(r)

\* Lines that agree in all but some fields.  Processors matter for the order of
\* the events only, and vary where nothing else does; what is dropped whatever
\* its time has one time stamp.
Of(kinds, peers, locks, goods) ==
    [kind : kinds, tid : Threads, peer : peers, lock : locks, good : goods,
     at : 0 .. MaxTime, cpu : {CHOOSE c \in Cpus : TRUE}, epoch : {lost}]

Blank(kinds) == {r \in Of(kinds, {None}, {None}, {TRUE}) : r.at = 0}

OnAnyCpu(kind) ==
    {[r EXCEPT !.cpu = c] : r \in Of({kind}, {None}, {None}, {TRUE}), c \in Cpus}

AnyLines == Blank({"unreadable"}) \cup Of({"garbled"}, {None}, {None}, {TRUE})

\* The lines of a transcript.
PerfLines ==
    AnyLines \cup Blank({"unseen", "alien", "foreign"}) \cup
    IF mode = "sched"
    THEN Of({"switch"}, Threads, {None}, {TRUE}) \cup
         Of({"switch"}, {Foreign}, {None}, {FALSE}) \cup
         OnAnyCpu("migrate") \cup
         Of({"wakeup"}, {None}, {None}, {TRUE}) \cup
         Of({"waking"}, Tasks, {None}, {TRUE})
    ELSE Of({"begin", "end"}, {None}, Locks, BOOLEAN) \cup
         Blank({"attempt", "futex"}) \cup {[r EXCEPT !.good = FALSE] : r \in Blank({"futex"})} \cup
         OnAnyCpu("legacy")

\* The lines of the Helper's trace: it filters foreign tasks, and its wakeups
\* name a waker.  To its reader an event of the other mode is garbled.
KernelLines ==
    AnyLines \cup
    IF mode = "sched"
    THEN Of({"switch"}, Tasks, {None}, {TRUE}) \cup
         OnAnyCpu("migrate") \cup
         Of({"waking"}, Tasks, {None}, {TRUE}) \cup
         Of({"wakeup"}, Tasks \cup {None}, {None}, {TRUE})
    ELSE Of({"begin"}, {None}, Locks, {TRUE}) \cup Of({"end"}, {None}, Locks, BOOLEAN) \cup
         OnAnyCpu("futex")

Next ==
    \/ LossMarker \/ KernelOverLimit \/ Build
    \/ adapter = "perf_script" /\ \E r \in PerfLines : PerfConsume(r)
    \/ adapter = "kernel" /\ \E r \in KernelLines : KernelConsume(r)

Spec == Init /\ [][Next]_vars

-----------------------------------------------------------------------------
\* Every record that was read is counted once, or is a sched_waking that waits
\* for its wakeup: the classes of TraceParseStatistics are conserved, which its
\* constructor demands (profiles/trace_stream.py, kernel_trace_stream.py).
RecordsConserved ==
    /\ (UNION {counted[c] : c \in Classes}) \cup Waiting = 1 .. Len(input)
    /\ \A c \in Classes : counted[c] \cap Waiting = {}
    /\ \A c, d \in Classes : c # d => counted[c] \cap counted[d] = {}
    /\ \A t, u \in Threads : t # u => pending[t] \cap pending[u] = {}
    /\ counted["emitted"] = {events[i].rec : i \in DOMAIN events}

\* The records that reached a handler.
Handled(kind, t) ==
    {i \in DOMAIN input : input[i].kind = kind /\ input[i].tid = t} \
    (counted["out_of_order"] \cup counted["truncated"])

\* The sched_waking records that a wakeup i of t may come from: those since the
\* wakeup before it and since the last report of lost events.
Sources(i, t) ==
    {j \in Handled("waking", t) :
        /\ j < i /\ input[j].epoch = input[i].epoch
        /\ \A k \in Handled("wakeup", t) : ~(j < k /\ k < i)}

\* The beginnings of the wait of t for l that ends at i, with flags known or
\* not, since its last end and the last report of lost events.
Beginnings(i, t, l) ==
    {j \in Handled("begin", t) :
        /\ j < i /\ input[j].lock = l /\ input[j].epoch = input[i].epoch
        /\ \A k \in Handled("end", t) : ~(input[k].lock = l /\ j < k /\ k < i)}

\* A waker that is named woke the thread: no other sched_waking of it lies
\* before the wakeup.  An acquisition that a transcript reports ended a wait
\* that the evidence has and no unknown phase disturbed.  Verified evidence has
\* all that the kernel wrote, and what is refused passed a limit or has events
\* of two processors at one time in descending order (profiles/trace_stream.py,
\* kernel_trace_stream.py, application/build_trace_evidence.py).
EvidenceTruthful ==
    /\ \A e \in DOMAIN events :
           LET i == events[e].rec
               r == input[i]
           IN  /\ r.kind = "wakeup" /\ events[e].note # None =>
                      \/ adapter = "kernel" /\ Sources(i, r.tid) = {}
                      \/ \E j \in Sources(i, r.tid) :
                             /\ Sources(i, r.tid) = {j}
                             /\ input[j].peer = events[e].note
               /\ events[e].note = "acquired" /\ adapter = "perf_script" =>
                      LET waits == Beginnings(i, r.tid, r.lock)
                      IN  \E j \in waits :
                             /\ j \in counted["emitted"]
                             /\ \A k \in waits : k > j => input[k].good
    /\ phase = "published" /\ quality = "verified" =>
           /\ adapter = "kernel" /\ lost = 0 /\ diags = 0
           /\ \A i \in DOMAIN input :
                  \/ i \in {events[e].rec : e \in DOMAIN events}
                  \/ input[i].kind = "waking" /\
                     \E e \in DOMAIN events : i \in Sources(events[e].rec, input[i].tid)
           /\ \A i, j \in DOMAIN input : i < j => input[i].at <= input[j].at
    /\ phase = "refused" =>
           \/ Len(input) >= MaxEvents \/ diags > MaxDiagnostics
           \/ 2 * Len(events) > MaxExported
           \/ \E d, e \in DOMAIN events :
                  /\ d < e
                  /\ input[events[d].rec].at = input[events[e].rec].at
                  /\ input[events[d].rec].cpu > input[events[e].rec].cpu
=============================================================================
