------------------------------ MODULE MCHelpers ------------------------------
(***************************************************************************)
(* The two Helpers of the collector: the Privileged Helper, which records  *)
(* with perf, and the Trace Helper, which records with eBPF.  They share no*)
(* state, so a behaviour runs one of them.                                 *)
(***************************************************************************)
EXTENDS PrivilegedHelper

CONSTANTS
    Conns, Threads, RingSize, MaxEvents, MaxLines, TraceArtifacts, MaxEmit,
    MaxBirths

VARIABLE
    part   \* the component that runs; the others stay in their initial states

VARIABLES
    t_owner, t_births, t_conn, t_call, t_worker, t_attached, t_tids, t_scan,
    t_ev, t_marker, t_temp, t_spool, t_early, t_faults

t_vars == <<
    t_owner, t_births, t_conn, t_call, t_worker, t_attached, t_tids, t_scan,
    t_ev, t_marker, t_temp, t_spool, t_early, t_faults>>

T == INSTANCE TraceHelper WITH
    MaxArtifacts <- TraceArtifacts, owner <- t_owner, births <- t_births,
    conn <- t_conn, call <- t_call, worker <- t_worker,
    attached <- t_attached, tids <- t_tids, scan <- t_scan, ev <- t_ev,
    marker <- t_marker, temp <- t_temp, spool <- t_spool, early <- t_early,
    faults <- t_faults

ASSUME TraceAssumption == T!TraceConstants

\* No connection is called as nobody is.
ASSUME ConnsAssumption == T!Nobody \notin Conns

all == <<part, vars, t_vars>>

AllInit ==
    /\ part \in {"perf", "trace"}
    /\ Init
    /\ T!Init
    /\ part # "perf" =>
          plan[Main] = [src |-> "software", expires |-> MaxClock]

AllNext ==
    \/ part = "perf" /\ Next
       /\ UNCHANGED <<part, t_vars>>
    \/ part = "trace" /\ T!Next
       /\ UNCHANGED <<part, vars>>

AllSpec == AllInit /\ [][AllNext]_all

-----------------------------------------------------------------------------
\* Once the caller is told that the collection is ready, every thread of the
\* target is in the table; published evidence says what it lacks and whose events
\* it holds, and a failed collection leaves nothing in the way of the next (the
\* Trace Helper's backend.rs and execution.rs).
TraceHonest == T!ThreadsCovered /\ T!TraceHonest
=============================================================================
