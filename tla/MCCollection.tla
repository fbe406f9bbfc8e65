---------------------------- MODULE MCCollection -----------------------------
(***************************************************************************)
(* The two programs of a collection on the host: the collector broker and  *)
(* the launcher that is its client (ProjectWorkload).  Each module models  *)
(* the other as far as it meets it, in the frames between them, so a       *)
(* behaviour runs one of them.                                             *)
(***************************************************************************)
EXTENDS MCCollectorBroker

VARIABLE
    part   \* the component that runs; the others stay in their initial states

VARIABLES
    w_pc, w_outcome, w_leader, w_kids, w_number, w_ready, w_release,
    w_broker, w_frames, w_enabled, w_executed

w_vars == <<
    w_pc, w_outcome, w_leader, w_kids, w_number, w_ready, w_release,
    w_broker, w_frames, w_enabled, w_executed>>

W == INSTANCE ProjectWorkload WITH
    pc <- w_pc, outcome <- w_outcome, leader <- w_leader, kids <- w_kids,
    number <- w_number, ready <- w_ready, release <- w_release,
    broker <- w_broker, frames <- w_frames, enabled <- w_enabled,
    executed <- w_executed

all == <<part, vars, w_vars>>

AllInit ==
    /\ part \in {"broker", "launcher"}
    /\ Init
    /\ W!Init

AllNext ==
    \/ part = "broker" /\ Next
       /\ UNCHANGED <<part, w_vars>>
    \/ part = "launcher" /\ W!Next
       /\ UNCHANGED <<part, vars>>

\* The server thread keeps running, perf is bounded by its timeout and systemd
\* starts the broker again; the launcher and the bootstrap run, and a killed
\* process dies.  One formula for both modules, since only one of them runs.
Working ==
    \/ part = "broker" /\ Broker
       /\ UNCHANGED <<part, w_vars>>
    \/ part = "launcher" /\ W!LauncherStep
       /\ UNCHANGED <<part, vars>>

Recovering ==
    \/ part = "broker" /\ Restart
       /\ UNCHANGED <<part, w_vars>>
    \/ part = "launcher" /\ W!Dies
       /\ UNCHANGED <<part, vars>>

BootstrapEnds ==
    \/ part = "launcher" /\ W!BootEof
       /\ UNCHANGED <<part, vars>>

BootstrapStarts ==
    \/ part = "launcher" /\ W!BootReady
       /\ UNCHANGED <<part, vars>>

AllSpec == AllInit /\ [][AllNext]_all
    /\ WF_all(Working) /\ WF_all(Recovering) /\ WF_all(BootstrapEnds) /\ WF_all(BootstrapStarts)

-----------------------------------------------------------------------------
\* No instruction of the project executable runs before perf is enabled on it
\* (workloads/project.py).
ProfiledFromExec == W!ProfiledFromExec

\* Every call of the launcher ends, and no process of the workload is left by
\* one that returned, raised or was killed before the release (workloads/project.py, workloads/_bootstrap.py).
CallCleansUp == part = "launcher" => W!CallCleansUp
=============================================================================
