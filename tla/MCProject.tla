------------------------------ MODULE MCProject ------------------------------
(***************************************************************************)
(* What PerfLens does and keeps for a project: the containers it runs a    *)
(* workload in (ManagedDocker), the configuration that init, update and    *)
(* detach write (ProjectSetup), the store of Artifacts, and the trace      *)
(* Artifacts themselves, from the records of the kernel (TraceStream) to   *)
(* the analyses (TraceAnalysis, TraceLocks).  They work on different       *)
(* directories and on data they were handed, so a behaviour runs one of    *)
(* them.                                                                   *)
(***************************************************************************)
EXTENDS ManagedDocker, TLC

CONSTANTS
    Savers, MaxEdits, StoreFaults, Selections, MaxVersion, MaxCommands,
    SetupEdits, SetupFaults, Threads, Foreign, Locks, Cpus, MaxTime,
    MaxLines, MaxEvents, MaxExported, MaxDiagnostics, AnalysisEvents,
    AnalysisTime, MaxIntervals, MaxWarnings

VARIABLE
    part   \* the component that runs; the others stay in their initial states

VARIABLES
    s_request, s_file, s_root, s_at, s_step, s_fd, s_begun, s_got, s_held,
    s_saver, s_durable, s_edits, s_faults, s_deaths, s_losses

s_vars == <<
    s_request, s_file, s_root, s_at, s_step, s_fd, s_begun, s_got, s_held,
    s_saver, s_durable, s_edits, s_faults, s_deaths, s_losses>>

S == INSTANCE ArtifactStore WITH
    MaxFaults <- StoreFaults, request <- s_request, file <- s_file,
    root <- s_root, at <- s_at, step <- s_step, fd <- s_fd,
    begun <- s_begun, got <- s_got, held <- s_held, saver <- s_saver,
    durable <- s_durable, edits <- s_edits, faults <- s_faults,
    deaths <- s_deaths, losses <- s_losses

VARIABLES
    i_bundled, i_defaults, i_file, i_skill, i_output, i_backup, i_cmd,
    i_hist, i_commands, i_edits, i_faults

i_vars == <<
    i_bundled, i_defaults, i_file, i_skill, i_output, i_backup, i_cmd,
    i_hist, i_commands, i_edits, i_faults>>

I == INSTANCE ProjectSetup WITH
    MaxEdits <- SetupEdits, MaxFaults <- SetupFaults, bundled <- i_bundled,
    defaults <- i_defaults, file <- i_file, skill <- i_skill,
    output <- i_output, backup <- i_backup, cmd <- i_cmd, hist <- i_hist,
    commands <- i_commands, edits <- i_edits, faults <- i_faults

VARIABLES
    v_adapter, v_mode, v_input, v_lost, v_pending, v_audited, v_events,
    v_counted, v_last, v_diags, v_phase, v_quality

v_vars == <<
    v_adapter, v_mode, v_input, v_lost, v_pending, v_audited, v_events,
    v_counted, v_last, v_diags, v_phase, v_quality>>

V == INSTANCE TraceStream WITH
    adapter <- v_adapter, mode <- v_mode, input <- v_input, lost <- v_lost,
    pending <- v_pending, audited <- v_audited, events <- v_events,
    counted <- v_counted, last <- v_last, diags <- v_diags,
    phase <- v_phase, quality <- v_quality

VARIABLES
    a_mode, a_events, a_run, a_off, a_wakes, a_lastCpu, a_acc, a_runtime,
    a_runnable, a_offcpu, a_reserved, a_status, a_warnings, a_phase,
    a_partial

a_vars == <<
    a_mode, a_events, a_run, a_off, a_wakes, a_lastCpu, a_acc, a_runtime,
    a_runnable, a_offcpu, a_reserved, a_status, a_warnings, a_phase,
    a_partial>>

A == INSTANCE TraceAnalysis WITH
    MaxEvents <- AnalysisEvents, MaxTime <- AnalysisTime, mode <- a_mode,
    events <- a_events, run <- a_run, off <- a_off, wakes <- a_wakes,
    lastCpu <- a_lastCpu, acc <- a_acc, runtime <- a_runtime,
    runnable <- a_runnable, offcpu <- a_offcpu, reserved <- a_reserved,
    status <- a_status, warnings <- a_warnings, phase <- a_phase,
    partial <- a_partial

VARIABLES
    l_events, l_pend, l_hold, l_waits, l_holds, l_issues, l_candidates,
    l_byLock, l_byThread, l_reserved, l_status, l_warnings, l_phase,
    l_partial

l_vars == <<
    l_events, l_pend, l_hold, l_waits, l_holds, l_issues, l_candidates,
    l_byLock, l_byThread, l_reserved, l_status, l_warnings, l_phase,
    l_partial>>

L == INSTANCE TraceLocks WITH
    MaxEvents <- AnalysisEvents, events <- l_events, pend <- l_pend,
    hold <- l_hold, waits <- l_waits, holds <- l_holds, issues <- l_issues,
    candidates <- l_candidates, byLock <- l_byLock, byThread <- l_byThread,
    reserved <- l_reserved, status <- l_status, warnings <- l_warnings,
    phase <- l_phase, partial <- l_partial

ASSUME StoreAssumption == S!StoreBounds
ASSUME PlansAssumption == S!PlansOrdered
ASSUME SetupAssumption == I!SetupConstants
ASSUME StreamAssumption == V!StreamConstants
ASSUME AnalysisAssumption == A!AnalysisConstants
ASSUME LockAssumption == L!LockConstants

all == <<part, vars, s_vars, i_vars, v_vars, a_vars, l_vars>>

AllInit ==
    /\ part \in {"managed", "store", "setup", "stream", "analysis", "locks"}
    /\ Init
    /\ S!Init
    /\ I!Init
    /\ V!Init
    /\ A!Init
    /\ L!Init
    /\ part # "store" =>
          /\ s_request = [call |-> "load", kind |-> "benchmark"]
          /\ \A s \in Savers : s_saver[s].gen = 1
          /\ \A k \in DOMAIN s_file : s_file[k] = S!Written(1)
    /\ part # "stream" =>
          v_adapter = "kernel" /\ v_mode = "sched" /\ v_lost = 0 /\ v_diags = 0
    /\ part # "analysis" => a_mode = "sched"

AllNext ==
    \/ part = "managed" /\ Next
       /\ UNCHANGED <<part, s_vars, i_vars, v_vars, a_vars, l_vars>>
    \/ part = "store" /\ S!Next
       /\ UNCHANGED <<part, vars, i_vars, v_vars, a_vars, l_vars>>
    \/ part = "setup" /\ I!Next
       /\ UNCHANGED <<part, vars, s_vars, v_vars, a_vars, l_vars>>
    \/ part = "stream" /\ V!Next
       /\ UNCHANGED <<part, vars, s_vars, i_vars, a_vars, l_vars>>
    \/ part = "analysis" /\ A!Next
       /\ UNCHANGED <<part, vars, s_vars, i_vars, v_vars, l_vars>>
    \/ part = "locks" /\ L!Next
       /\ UNCHANGED <<part, vars, s_vars, i_vars, v_vars, a_vars>>

AllSpec == AllInit /\ [][AllNext]_all

AllSymmetry == Permutations(Savers)

-----------------------------------------------------------------------------
\* Setup keeps what is the user's and can take back what is its own, after any
\* sequence of commands, and an init that failed before its first Skill was
\* refreshed leaves everything as it was (distribution/onboarding.py and its
\* client writers).
SetupSound == I!OwnershipKept /\ I!RollbackRestores

\* A call returns one verified version of an artifact, and what was saved stays
\* and stays readable (mcp/storage.py, artifacts/filesystem.py).
StoreSound == S!ReadsVerified /\ S!SavesKept

\* Every record of a trace is counted once (profiles/trace_stream.py and
\* profiles/kernel_trace_stream.py).
RecordsConserved == V!RecordsConserved

\* Trace evidence names wakers and acquisitions it has seen, says what it lacks,
\* and is refused at its limits and for its order only (profiles/trace_stream.py,
\* application/build_trace_evidence.py).
EvidenceTruthful == V!EvidenceTruthful

\* No time of a thread is counted twice (domain/trace_analysis.py).
TimeCountedOnce == A!TimeCountedOnce

\* A trace analysis is accepted up to its limits and marked partial unless every
\* event was used (application/analyze_trace.py, application/verify_trace.py).
AnalysisTruthful == A!AnalysisTruthful

\* Waits and holds are measured between events that nothing separates
\* (domain/trace_lock_analysis.py).
PairsExact == L!PairsExact
=============================================================================
