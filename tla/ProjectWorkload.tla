--------------------------- MODULE ProjectWorkload --------------------------
(***************************************************************************)
(* collect_project_workload (src/perflens/workloads/project.py): one       *)
(* project executable is started suspended in a bootstrap                  *)
(* (workloads/_bootstrap.py), profiled by the Collector broker, released   *)
(* by the broker's readiness frame (collector_broker/client.py) and ended  *)
(* with its process group on every path.                                   *)
(*                                                                         *)
(* Four actors: the launcher (with its broker client), the leader of the   *)
(* workload's process group, its descendants, and the broker, of which     *)
(* only the frames matter here (CollectorBroker models it).  A timeout may *)
(* happen at any step that waits.                                          *)
(***************************************************************************)
EXTENDS Naturals, Sequences

VARIABLES
    pc,          \* the launcher's step
    outcome,     \* what its call will end with
    leader,      \* the leader of the group: the bootstrap, then the workload
    kids,        \* its descendants in the group
    number,      \* who owns the PID that names the group
    ready,       \* the bootstrap's ready pipe
    release,     \* the release pipe
    broker,      \* the broker's step
    frames,      \* response frames on the way to the client
    enabled,     \* history: perf has been enabled on the workload
    executed     \* history: the executable has been started

vars == <<pc, outcome, leader, kids, number, ready, release, broker, frames,
          enabled, executed>>

Init ==
    /\ pc = "start" /\ outcome = "none"
    /\ leader = "none" /\ kids = "none" /\ number = "own"
    /\ ready = "empty" /\ release = "open"
    /\ broker = "idle" /\ frames = <<>>
    /\ enabled = "no" /\ executed = "no"

Workload == <<leader, kids, number, ready, executed>>
Broker == <<broker, enabled>>

----------------------------------------------------------------------------
(* The workload's process group and the kernel.                            *)

\* A zombie still belongs to its group.
Members == leader \notin {"none", "reaped"} \/ kids # "none"
GroupExists == Members \/ number = "other"

LeaderKeeps == UNCHANGED <<pc, outcome, kids, number, release, broker, frames,
                           enabled>>

\* The bootstrap announces itself.
BootReady ==
    /\ leader = "boot"
    /\ leader' = "waiting" /\ ready' = "R"
    /\ LeaderKeeps /\ UNCHANGED executed

\* The release byte arrives: exec keeps PID and group.
BootExec ==
    /\ leader = "waiting" /\ release = "byte"
    /\ leader' = "workload" /\ executed' = "yes"
    /\ LeaderKeeps /\ UNCHANGED ready

\* Fault: end of file counts as the release byte.
BootEofExecutes ==
    /\ leader = "waiting" /\ release = "closed"
    /\ leader' = "workload" /\ executed' = "yes"
    /\ LeaderKeeps /\ UNCHANGED ready

\* The release pipe is closed without the byte: exit status 125.
BootEof ==
    /\ leader = "waiting" /\ release = "closed"
    /\ leader' = "zombie"
    /\ LeaderKeeps /\ UNCHANGED <<ready, executed>>

\* The leader exits by itself, in any of its stages.
LeaderExits ==
    /\ leader \in {"boot", "waiting", "workload"}
    /\ leader' = "zombie"
    /\ LeaderKeeps /\ UNCHANGED <<ready, executed>>

\* A SIGKILL takes effect.
Dies ==
    \/ /\ leader = "killed" /\ leader' = "zombie"
       /\ LeaderKeeps /\ UNCHANGED <<ready, executed>>
    \/ /\ kids = "killed" /\ kids' = "none"
       /\ UNCHANGED <<pc, outcome, leader, number, ready, release, broker, frames,
                      enabled, executed>>

Forks ==
    /\ leader = "workload" /\ kids = "none"
    /\ kids' = "alive"
    /\ UNCHANGED <<pc, outcome, leader, number, ready, release, broker, frames,
                   enabled, executed>>

KidsExit ==
    /\ kids = "alive" /\ kids' = "none"
    /\ UNCHANGED <<pc, outcome, leader, number, ready, release, broker, frames,
                   enabled, executed>>

\* The PID is free once the leader is reaped and the group is empty.
ReusePid ==
    /\ number = "own" /\ leader = "reaped" /\ kids = "none"
    /\ number' = "other"
    /\ UNCHANGED <<pc, outcome, leader, kids, ready, release, broker, frames,
                   enabled, executed>>

----------------------------------------------------------------------------
(* The broker, as far as its client sees it.                               *)

\* perf is attached to the PID and enabled.
BrokerEnables ==
    /\ broker = "busy" /\ enabled = "no"
    /\ leader \in {"waiting", "killed"}
    /\ enabled' = "yes"
    /\ UNCHANGED <<pc, outcome, Workload, release, broker, frames>>

BrokerReady ==
    /\ broker = "busy" /\ enabled = "yes"
    /\ broker' = "reported" /\ frames' = Append(frames, "ready")
    /\ UNCHANGED <<pc, outcome, Workload, release, enabled>>

\* The final frame; an error may come before readiness.
BrokerReplies ==
    /\ \E f \in {"result", "error"} :
          /\ broker = "reported" \/ (broker = "busy" /\ f = "error")
          /\ frames' = Append(frames, f)
    /\ broker' = "closed"
    /\ UNCHANGED <<pc, outcome, Workload, release, enabled>>

BrokerDies ==
    /\ broker \in {"busy", "reported"}
    /\ broker' = "closed"
    /\ UNCHANGED <<pc, outcome, Workload, release, frames, enabled>>

----------------------------------------------------------------------------
(* The launcher.                                                           *)

Raise == pc' = "terminate" /\ outcome' = "error"
LauncherKeeps == UNCHANGED <<kids, number, executed, Broker>>

StartBootstrap ==
    /\ pc = "start"
    /\ \/ leader' = "boot" /\ pc' = "awaitReady" /\ UNCHANGED outcome
       \/ pc' = "ended" /\ outcome' = "error" /\ UNCHANGED leader
    /\ LauncherKeeps /\ UNCHANGED <<ready, release, frames>>

\* _wait_until_ready: the byte, and a leader that poll does not find dead.
WaitUntilReady ==
    /\ pc = "awaitReady"
    /\ \/ /\ ready = "R" /\ leader # "zombie"
          /\ pc' = "plan" /\ UNCHANGED <<outcome, leader>>
       \/ /\ ready = "R" /\ leader = "zombie"
          /\ leader' = "reaped" /\ Raise
       \/ ready = "empty" /\ Raise /\ UNCHANGED leader
    /\ LauncherKeeps /\ UNCHANGED <<ready, release, frames>>

\* create_collection_plan, connecting and sending the request.
Request ==
    /\ pc = "plan"
    /\ \/ pc' = "firstFrame" /\ broker' = "busy" /\ UNCHANGED outcome
       \/ Raise /\ UNCHANGED broker
    /\ UNCHANGED <<Workload, release, frames, enabled>>

\* Fault: any first frame counts as readiness.
FirstFrameAny ==
    /\ pc = "firstFrame"
    /\ pc' = "release" /\ UNCHANGED <<outcome, frames>>
    /\ LauncherKeeps /\ UNCHANGED <<leader, ready, release>>

\* _exchange: only a readiness frame of this plan leads to the callback; an
\* error, a closed connection and a timeout raise.
FirstFrame ==
    /\ pc = "firstFrame"
    /\ \/ /\ frames # <<>> /\ Head(frames) = "ready"
          /\ pc' = "release" /\ frames' = Tail(frames) /\ UNCHANGED outcome
       \/ /\ frames # <<>> /\ Head(frames) # "ready"
          /\ Raise /\ frames' = Tail(frames)
       \/ frames = <<>> /\ Raise /\ UNCHANGED frames
    /\ LauncherKeeps /\ UNCHANGED <<leader, ready, release>>

\* release_workload: the write fails when nobody can read the pipe any more.
ReleaseWorkload ==
    /\ pc = "release"
    /\ \/ /\ leader \in {"waiting", "boot"}
          /\ release' = "byte" /\ pc' = "finalFrame" /\ UNCHANGED outcome
       \/ leader \notin {"waiting", "boot"} /\ Raise /\ UNCHANGED release
    /\ LauncherKeeps /\ UNCHANGED <<leader, ready, frames>>

\* The final frame and the verification of the evidence.
FinalFrame ==
    /\ pc = "finalFrame"
    /\ \/ /\ frames = <<"result">>
          /\ pc' = "awaitExit" /\ frames' = <<>> /\ UNCHANGED outcome
       \/ Raise /\ frames' = <<>>
    /\ LauncherKeeps /\ UNCHANGED <<leader, ready, release>>

\* Fault: the wait for the workload has no timeout.
AwaitExitForever ==
    /\ pc = "awaitExit" /\ leader = "zombie"
    /\ leader' = "reaped"
    /\ pc' = "terminate" /\ outcome' = "run"
    /\ LauncherKeeps /\ UNCHANGED <<ready, release, frames>>

\* _wait_for_natural_exit reaps the leader if it has exited.
AwaitExit ==
    /\ pc = "awaitExit"
    /\ leader' = IF leader = "zombie" THEN "reaped" ELSE leader
    /\ pc' = "terminate" /\ outcome' = "run"
    /\ LauncherKeeps /\ UNCHANGED <<ready, release, frames>>

\* killpg with signal s: every member gets it; SIGTERM may be ignored.
Signal(s) ==
    /\ IF s = "SIGKILL"
       THEN /\ leader' = IF leader \in {"boot", "waiting", "workload"} THEN "killed" ELSE leader
            /\ kids' = IF kids = "alive" THEN "killed" ELSE kids
       ELSE /\ leader' \in {leader, IF leader \in {"boot", "waiting", "workload"}
                                    THEN "zombie" ELSE leader}
            /\ kids' \in {kids, "none"}

\* _terminate_group: SIGTERM first.
TerminateGroup ==
    /\ pc = "terminate"
    /\ Signal("SIGTERM")
    /\ pc' = "grace"
    /\ UNCHANGED <<outcome, number, ready, release, frames, Broker, executed>>

\* poll in the grace loop.
GracePoll ==
    /\ pc = "grace" /\ leader = "zombie"
    /\ leader' = "reaped"
    /\ LauncherKeeps /\ UNCHANGED <<pc, outcome, ready, release, frames>>

\* Fault: the group is taken for gone with its leader.
GraceOverLeaderOnly ==
    /\ pc = "grace"
    /\ pc' = IF leader \notin {"none", "reaped"} THEN "kill" ELSE "reap"
    /\ LauncherKeeps /\ UNCHANGED <<outcome, leader, ready, release, frames>>

\* The loop ends and the group is looked up again.
GraceOver ==
    /\ pc = "grace"
    /\ pc' = IF GroupExists THEN "kill" ELSE "reap"
    /\ LauncherKeeps /\ UNCHANGED <<outcome, leader, ready, release, frames>>

KillGroup ==
    /\ pc = "kill"
    /\ Signal("SIGKILL")
    /\ pc' = "reap"
    /\ UNCHANGED <<outcome, number, ready, release, frames, Broker, executed>>

\* The last poll and wait; the pipes are closed when the call ends.
Reap ==
    /\ pc = "reap" /\ leader \in {"zombie", "reaped"}
    /\ leader' = "reaped"
    /\ pc' = "ended"
    /\ release' = IF release = "open" THEN "closed" ELSE release
    /\ LauncherKeeps /\ UNCHANGED <<outcome, ready, frames>>

\* The leader is not gone in time: in the normal course the handler terminates
\* the group once more, in the handler itself the call ends.
ReapTimeout ==
    /\ pc = "reap" /\ leader \notin {"zombie", "reaped"}
    /\ IF outcome = "run" THEN Raise /\ UNCHANGED release
       ELSE /\ pc' = "ended" /\ UNCHANGED outcome
            /\ release' = IF release = "open" THEN "closed" ELSE release
    /\ LauncherKeeps /\ UNCHANGED <<leader, ready, frames>>

\* The launcher's process is killed: its pipe ends close, init reaps.
LauncherDies ==
    /\ pc \notin {"ended", "dead"}
    /\ pc' = "dead"
    /\ release' = IF release = "open" THEN "closed" ELSE release
    /\ LauncherKeeps /\ UNCHANGED <<outcome, leader, ready, frames>>

InitReaps ==
    /\ pc = "dead" /\ leader = "zombie"
    /\ leader' = "reaped"
    /\ LauncherKeeps /\ UNCHANGED <<pc, outcome, ready, release, frames>>

\* Nothing is left to happen.
Finished ==
    /\ pc \in {"ended", "dead"}
    /\ UNCHANGED vars

----------------------------------------------------------------------------
LauncherStep ==
    \/ StartBootstrap \/ WaitUntilReady \/ Request \/ FirstFrame
    \/ ReleaseWorkload \/ FinalFrame \/ AwaitExit \/ TerminateGroup
    \/ GraceOver \/ KillGroup \/ Reap \/ ReapTimeout

Next ==
    \/ LauncherStep \/ GracePoll \/ LauncherDies \/ InitReaps
    \/ BootReady \/ BootExec \/ BootEof \/ LeaderExits \/ Dies
    \/ Forks \/ KidsExit \/ ReusePid
    \/ BrokerEnables \/ BrokerReady \/ BrokerReplies \/ BrokerDies
    \/ Finished

\* The launcher never waits without a bound, a SIGKILL takes effect, a read of
\* a closed pipe returns.  Nothing is assumed of the broker and the workload.
Spec == Init /\ [][Next]_vars
             /\ WF_vars(LauncherStep) /\ WF_vars(Dies) /\ WF_vars(BootEof)
             /\ WF_vars(BootReady)

----------------------------------------------------------------------------
(* Properties.                                                             *)

TypeOK ==
    /\ pc \in {"start", "awaitReady", "plan", "firstFrame", "release", "finalFrame",
               "awaitExit", "terminate", "grace", "kill", "reap", "ended", "dead"}
    /\ outcome \in {"none", "run", "error"}
    /\ leader \in {"none", "boot", "waiting", "workload", "killed", "zombie", "reaped"}
    /\ kids \in {"none", "alive", "killed"}
    /\ number \in {"own", "other"}
    /\ ready \in {"empty", "R"} /\ release \in {"open", "byte", "closed"}
    /\ broker \in {"idle", "busy", "reported", "closed"}
    /\ frames \in Seq({"ready", "result", "error"})
    /\ {enabled, executed} \subseteq {"yes", "no"}

\* No instruction of the project executable runs before perf is enabled on it,
\* whatever the timing of the bootstrap, the broker's frames and the failures.
ProfiledFromExec == executed = "yes" => enabled = "yes"

\* However a call ends, in the end nothing of the group it started runs: the
\* handler also kills the descendants of a leader that exited by itself.
NothingLeftRunning ==
    [](pc = "ended" => <>(leader \in {"none", "zombie", "reaped"} /\ kids = "none"))

\* Every call ends, without any help from the broker or the workload, unless
\* the launcher itself is killed.
CallEnds == <>(pc \in {"ended", "dead"})

\* A launcher that dies before it released the workload leaves a bootstrap
\* that exits by itself and never starts the executable.
OrphanNeverExecutes ==
    [](pc = "dead" /\ release = "closed" =>
         [](executed = "no") /\ <>(leader \in {"none", "zombie", "reaped"}))

\* Every call ends, and no process of the workload is left: neither after a call
\* that returned or raised nor after a launcher killed before the release.
CallCleansUp == CallEnds /\ NothingLeftRunning /\ OrphanNeverExecutes
=============================================================================
