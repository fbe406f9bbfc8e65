---------------------------- MODULE ManagedDocker ---------------------------
(***************************************************************************)
(* Docker collection: the session authority (docker/session.py), the       *)
(* runtime that holds its access tokens (docker/runtime.py), the           *)
(* coordinator of one managed container (docker/managed.py), the Container *)
(* Gate (rust/perflens-container-gate), the cgroup monitor's thread        *)
(* (docker/cgroup.py) and the two collection tools of the MCP server.      *)
(*                                                                         *)
(* The server runs one tool call at a time.  The Gate, the workload, the   *)
(* monitor, the Docker daemon and the clock go on meanwhile; a Docker      *)
(* command may fail with or without its effect, and the server may die.    *)
(***************************************************************************)
EXTENDS Naturals

CONSTANTS
    Timeout,     \* workload_timeout_seconds: reserved and enforced
    Grace,       \* _LEASE_GRACE_SECONDS
    Expiry,      \* hard_expiry_seconds of a session
    MaxRuns,     \* max_workload_runs
    MaxSeconds,  \* max_active_seconds
    MaxClock,    \* bound: the clock
    MaxCalls,    \* bound: tool calls
    MaxFaults    \* bound: failing Docker commands and deaths of the server

DockerConstants ==
    /\ Timeout \in Nat \ {0} /\ Grace \in Nat \ {0} /\ Expiry \in Nat \ {0}
    /\ MaxRuns \in Nat \ {0} /\ MaxSeconds \in Nat \ {0}
    /\ MaxClock \in Nat \ {0} /\ MaxCalls \in Nat /\ MaxFaults \in Nat

ASSUME DockerAssumption == DockerConstants

VARIABLES
    clock,    \* seconds, from 1; 0 stands for "not yet"
    sess,     \* the session: kind, state, runs, seconds charged, hard expiry
    lease,    \* its active lease: expiry, 0 for none
    call,     \* the tool call: step, start and end of the workload as it knows them
    box,      \* the container
    gate,     \* the process in it
    conn,     \* the control connection, as the Gate finds it
    dir,      \* the private run directory
    mon,      \* the cgroup monitor: state, when it saw the cgroup removed
    coll,     \* the Broker's collection
    run,      \* the published container-run artifact
    hist,     \* history: release sent, seconds the workload ran during calls
    calls, faults

vars == <<clock, sess, lease, call, box, gate, conn, dir, mon, coll, run, hist, calls, faults>>

NoSession == [kind |-> "none", state |-> "none", runs |-> 0, secs |-> 0, expires |-> 0]
NoMonitor == [state |-> "off", ended |-> 0]
NoRun == [status |-> "none", cleanup |-> "none", settled |-> "no"]
Idle == [pc |-> "idle", started |-> 0, finished |-> 0, result |-> "none"]
NoHistory == [release |-> "no", ran |-> 0, now |-> 0]

Init ==
    /\ clock = 1 /\ sess = NoSession /\ lease = 0 /\ call = Idle /\ box = "none"
    /\ gate = "off" /\ conn = "none" /\ dir = "none" /\ mon = NoMonitor /\ coll = "off"
    /\ run = NoRun /\ hist = NoHistory /\ calls = 0 /\ faults = 0

World == <<box, gate, conn, dir>>
Watch == <<mon, coll>>

Smaller(a, b) == IF a < b THEN a ELSE b
Larger(a, b) == IF a > b THEN a ELSE b

At(pc) == call.pc = pc
GoTo(pc) == call' = [call EXCEPT !.pc = pc]
FaultAllowed == faults < MaxFaults /\ faults' = faults + 1

----------------------------------------------------------------------------
(* The clock.  hist.now counts the seconds the workload of this run has    *)
(* run while its call was in progress.                                     *)

Measured == {"broker", "closing", "collect", "wait", "convert", "failing"}

Tick ==
    /\ clock < MaxClock /\ call.pc \in Measured \cup {"idle"} /\ sess.state # "none"
    /\ clock' = clock + 1
    /\ hist' = IF gate = "running" /\ call.pc # "idle" THEN [hist EXCEPT !.now = @ + 1] ELSE hist
    /\ UNCHANGED <<sess, lease, call, World, Watch, run, calls, faults>>

----------------------------------------------------------------------------
(* The session authority.                                                  *)

SessionExpired == clock >= sess.expires
LeaseExpired == lease # 0 /\ clock >= lease
End(s, name) == [s EXCEPT !.state = name]

\* _require_session and what it does to a session or lease that has expired.
Usable == sess.state = "active" /\ ~SessionExpired /\ ~LeaseExpired
Expire == [sess EXCEPT !.state = IF @ = "active" /\ (SessionExpired \/ LeaseExpired)
                                 THEN "expired" ELSE @]
DropExpired == IF SessionExpired \/ LeaseExpired THEN 0 ELSE lease

\* A refused authorization: no explicit consent, a budget out of bounds, a
\* changed project, policy, gate or image, or a capacity that is taken.
\* A container left behind by an earlier call is followed no further.
Authorize(kind) ==
    /\ At("idle") /\ calls < MaxCalls /\ calls' = calls + 1
    /\ sess.state # "active" \/ SessionExpired
    /\ sess' = [kind |-> kind, state |-> "active", runs |-> 0, secs |-> 0,
                expires |-> clock + Expiry]
    /\ lease' = 0 /\ run' = NoRun /\ hist' = NoHistory /\ call' = Idle
    /\ box \in {"none", "gone"} /\ UNCHANGED <<clock, World, Watch, faults>>

AuthorizeExisting == Authorize("existing")
AuthorizeManaged == Authorize("managed")

Revoke ==
    /\ At("idle") /\ sess.state \in {"active", "expired", "exhausted"}
    /\ sess' = [Expire EXCEPT !.state = IF @ = "active" THEN "revoked" ELSE @]
    /\ lease' = 0 /\ sess' # sess
    /\ UNCHANGED <<clock, call, World, Watch, run, hist, calls, faults>>

\* What refuses a tool call before it changes anything: the request against the
\* server's policy; the project, its policy file, the Gate binary, the Docker
\* client and its endpoint against what was authorized; the treatment files.
Refused ==
    /\ At("idle") /\ calls < MaxCalls /\ calls' = calls + 1 /\ sess.state # "none"
    /\ call' = [Idle EXCEPT !.result = "refused"]
    /\ UNCHANGED <<clock, sess, lease, World, Watch, run, hist, faults>>

RefusePreflight == Refused
RefuseProject == Refused
RefusePolicyFile == Refused
RefuseGateBinary == Refused
RefuseDockerCli == Refused
RefuseEndpoint == Refused
RefuseTreatment == Refused

\* ... and for an existing container: no single process is selected, or what the
\* daemon lists is not what the kernel shows.
RefuseDiscovery == Refused
RefuseSelection == Refused

LeaseSeconds == Smaller(Timeout + Grace, Larger(1, sess.expires - clock))

Exhausted == sess.runs >= MaxRuns \/ sess.secs + Timeout > MaxSeconds

\* begin_run.  A refusal may end the session.
BeginRun(next) ==
    /\ At("idle") /\ calls < MaxCalls /\ calls' = calls + 1
    /\ run' = NoRun /\ mon' = NoMonitor /\ coll' = "off"
    /\ hist' = [hist EXCEPT !.release = "no", !.now = 0]
    /\ IF Usable /\ lease = 0 /\ ~Exhausted
       THEN /\ sess' = [sess EXCEPT !.runs = @ + 1, !.secs = @ + Timeout]
            /\ lease' = clock + LeaseSeconds
            /\ call' = [Idle EXCEPT !.pc = next]
       ELSE /\ sess' = IF Usable /\ lease = 0 THEN End(sess, "exhausted") ELSE Expire
            /\ lease' = DropExpired
            /\ call' = [Idle EXCEPT !.result = "refused"]
    /\ box' = IF box = "gone" THEN "none" ELSE box
    /\ UNCHANGED <<clock, gate, conn, dir, faults>>

CollectManaged ==
    /\ sess.kind = "managed" /\ box \in {"none", "gone"} /\ dir = "none"
    /\ BeginRun("dirs")

\* collect_docker_target: resolve, plan, open the cgroup, then the lease.
CollectExisting == sess.kind = "existing" /\ BeginRun("attach")

\* finish_run: the reservation is replaced by what was used, unless the session
\* or the lease is over.
Finish(actual) ==
    LET settled == [sess EXCEPT !.secs = @ - Timeout + actual]
        over == settled.runs >= MaxRuns \/ settled.secs >= MaxSeconds
    IN IF Usable /\ lease # 0
       THEN /\ sess' = IF over THEN End(settled, "exhausted") ELSE settled
            /\ lease' = 0
       ELSE /\ sess' = Expire /\ lease' = DropExpired

Finished == Usable /\ lease # 0

----------------------------------------------------------------------------
(* Docker commands: done, refused, or done and reported as failed.         *)

Work == <<clock, calls>>

\* The steps of prepare that only this process sees.
Prepare(pc, next) ==
    /\ At(pc) /\ GoTo(next) /\ UNCHANGED <<Work, sess, lease, Watch, run, hist, faults>>

CreateRunDirectories ==
    /\ Prepare("dirs", "create") /\ dir' = "present" /\ conn' = "listening"
    /\ UNCHANGED <<box, gate>>

\* prepare gives up: what it created is removed, and the lease is returned with
\* nothing used.
GiveUp == /\ GoTo("undo") /\ UNCHANGED <<Work, sess, lease, Watch, run, hist>>

PrepareRefused(pc) ==
    /\ At(pc) /\ conn' = "closed" /\ UNCHANGED <<box, gate, dir, faults>> /\ GiveUp

RefuseAuthorizedRun == PrepareRefused("dirs")
RefuseRuntimeRoot == PrepareRefused("dirs")
RefuseMountSource == PrepareRefused("create")
RefuseRuntimeLockSurface == PrepareRefused("create")
RefuseCreateArguments == PrepareRefused("create")
RefuseIsolation == PrepareRefused("accept")
RefusePeer == PrepareRefused("accept")
RefuseIdentity == PrepareRefused("bind")
RefuseNamespaces == PrepareRefused("bind")
RefuseMembership == PrepareRefused("bind")

PrepareFails ==
    \/ RefuseAuthorizedRun \/ RefuseRuntimeRoot \/ RefuseMountSource
    \/ RefuseRuntimeLockSurface \/ RefuseCreateArguments \/ RefuseIsolation
    \/ RefusePeer \/ RefuseIdentity \/ RefuseNamespaces \/ RefuseMembership

\* A docker create whose reply is lost leaves a container nobody knows.
CreateContainer ==
    \/ Prepare("create", "start") /\ box' = "created" /\ UNCHANGED <<gate, conn, dir>>
    \/ /\ At("create") /\ FaultAllowed /\ box' = "unknown" /\ conn' = "closed"
       /\ UNCHANGED <<gate, dir>> /\ GiveUp

StartContainer ==
    \/ Prepare("start", "accept") /\ box' = "running" /\ gate' = "connecting"
       /\ UNCHANGED <<conn, dir>>
    \/ /\ At("start") /\ FaultAllowed /\ conn' = "closed" /\ UNCHANGED dir /\ GiveUp
       /\ \/ UNCHANGED <<box, gate>>
          \/ box' = "running" /\ gate' = "connecting"

\* The container is the one that was created, its state and its isolation are as
\* requested, and its process is the one the kernel shows.
Current == box = "running"

AcceptGate ==
    /\ At("accept") /\ UNCHANGED <<box, gate, dir, faults>>
    /\ IF Current /\ gate = "waiting"
       THEN conn' = "open" /\ Prepare("accept", "bind")
       ELSE /\ gate = "exited" \/ ~Current
            /\ conn' = "closed" /\ GiveUp

\* The listener is retired and everything is inspected again.
BindTarget ==
    /\ At("bind") /\ UNCHANGED <<box, gate, dir, faults>>
    /\ IF Current THEN UNCHANGED conn /\ Prepare("bind", "plan")
       ELSE conn' = "closed" /\ GiveUp

----------------------------------------------------------------------------
(* The Gate and the workload.                                              *)

Gates == <<Work, sess, lease, call, dir, Watch, run, hist, faults>>

\* connect_control retries for two seconds.
GateConnects ==
    /\ gate = "connecting" /\ conn \in {"listening", "open"}
    /\ gate' = "waiting" /\ UNCHANGED <<Gates, box, conn>>

GateEnds == gate' = "exited" /\ box' = "exited" /\ UNCHANGED <<Gates, conn>>

GateFindsNoSocket == gate = "connecting" /\ GateEnds

\* Fault: the end of the connection is taken for a release.
ReadsEnd == conn \in {"sent", "closed"}

\* await_execution_release: exactly the release frame, then the end.
ReadsRelease == conn = "sent"

GateReads ==
    /\ gate = "waiting" /\ conn \in {"sent", "closed"}
    /\ IF ReadsRelease THEN gate' = "setup" /\ conn' = "read" /\ UNCHANGED <<Gates, box>>
       ELSE GateEnds

\* A minute without a release.
GateTimesOut == gate = "waiting" /\ conn \in {"open", "sent"} /\ GateEnds

\* configure_runtime_lock, then exec; either may fail.
GateExecs == gate = "setup" /\ gate' = "running" /\ UNCHANGED <<Gates, box, conn>>
GateSetupFails == gate = "setup" /\ GateEnds

WorkloadEnds == gate = "running" /\ GateEnds

----------------------------------------------------------------------------
(* The managed tool call.                                                  *)

\* Fault: the workload counts as started when the release was confirmed.
StartedAtConfirmation == 0

\* workload_started_monotonic is taken before the release.
StartedAt == clock

Step(pc, next) == At(pc) /\ GoTo(next) /\ UNCHANGED <<Work, sess, lease, run, hist, faults>>
Failing == GoTo("failing")

Fails(pc) == At(pc) /\ Failing /\ UNCHANGED <<Work, sess, lease, World, Watch, run, hist, faults>>

\* Treatment files, the stored target, the plan, the pinned root, the cgroup's
\* pinned directory and its baseline.
RefuseTarget == Fails("plan")
RefusePlan == Fails("plan")
RefuseRoot == Fails("plan")
RefuseCgroup == Fails("plan")
RefuseBaseline == Fails("plan")

PlanCollection ==
    \/ Step("plan", "broker") /\ UNCHANGED <<World, Watch>>
    \/ RefuseTarget \/ RefusePlan \/ RefuseRoot \/ RefuseCgroup \/ RefuseBaseline

\* The Broker has attached its collector and calls back: the monitor starts, the
\* identities are checked again, the release is sent.
Release ==
    /\ At("broker") /\ UNCHANGED <<Work, sess, lease, box, gate, dir, run, faults>>
    /\ coll' = "attached" /\ mon' = [NoMonitor EXCEPT !.state = "running"]
    /\ IF Current /\ gate = "waiting"
       THEN /\ call' = [call EXCEPT !.pc = "closing", !.started = StartedAt]
            /\ conn' = "sent" /\ hist' = [hist EXCEPT !.release = "yes"]
       ELSE /\ call' = [call EXCEPT !.pc = "failing", !.started = StartedAt]
            /\ conn' = "closed" /\ UNCHANGED hist

\* The Gate closes its end once it has read the release; a Gate that ended
\* unread resets the connection; one that does neither runs into the timeout.
ReleaseConfirmed ==
    /\ At("closing") /\ UNCHANGED <<Work, sess, lease, World, Watch, run, hist, faults>>
    /\ \/ conn = "read" /\ GoTo("collect")
       \/ conn # "read" /\ Failing

\* The Broker's collection ends, or fails before or after the callback.
BrokerEnds ==
    /\ UNCHANGED <<Work, sess, lease, World, mon, run, hist, faults>>
    /\ \/ At("collect") /\ coll' = "done" /\ GoTo("wait")
       \/ call.pc \in {"broker", "collect"} /\ coll' = "failed" /\ Failing

\* The monitor's thread sees the cgroup removed, or a read fails.
MonitorSees ==
    /\ mon.state = "running" /\ box \in {"exited", "gone"} /\ mon.ended = 0
    /\ mon' = [mon EXCEPT !.ended = clock]
    /\ UNCHANGED <<Work, sess, lease, call, World, coll, run, hist, faults>>

MonitorFails ==
    /\ mon.state = "running" /\ FaultAllowed /\ mon' = [mon EXCEPT !.state = "error"]
    /\ UNCHANGED <<Work, sess, lease, call, World, coll, run, hist>>

Elapsed(t) == t - call.started

\* coordinator.wait: until the observed end is confirmed or the remainder is used.
Wait ==
    /\ At("wait") /\ UNCHANGED <<Work, sess, lease, World, Watch, run, hist, faults>>
    /\ \/ /\ box = "exited"
          /\ IF mon.ended # 0 THEN Elapsed(mon.ended) <= Timeout ELSE Elapsed(clock) < Timeout
          /\ call' = [call EXCEPT !.pc = "convert",
                                  !.finished = IF mon.ended # 0 THEN mon.ended ELSE clock]
       \/ /\ IF mon.ended # 0 THEN Elapsed(mon.ended) > Timeout ELSE Elapsed(clock) >= Timeout
          /\ Failing

\* The modules the profile names are captured before the wait: a root that is
\* gone gives a partial snapshot, a replaced profile or root an error.
RefuseProfile == Fails("wait")
RefuseModules == Fails("wait")

WaitCommandFails ==
    /\ At("wait") /\ FaultAllowed /\ Failing
    /\ UNCHANGED <<Work, sess, lease, World, Watch, run, hist>>

WaitFails == RefuseProfile \/ RefuseModules \/ WaitCommandFails

\* The treatment changed; the Runtime Lock evidence in the scratch directory or
\* the benchmark is refused; the last counters are older than the first.
RefuseChangedTreatment == Fails("convert")
RefuseLockCapture == Fails("convert")
RefuseBenchmark == Fails("convert")
RefuseCounters == Fails("convert")
RefuseContext == Fails("convert")

\* finish joins the monitor's thread and returns its last snapshot or its error.
FinishMonitor ==
    /\ At("convert") /\ UNCHANGED <<Work, sess, lease, World, coll, run, hist, faults>>
    /\ IF mon.state = "running"
       THEN GoTo("cleanup") /\ mon' = [mon EXCEPT !.state = "finished"]
       ELSE Failing /\ UNCHANGED mon

Convert ==
    \/ FinishMonitor \/ RefuseChangedTreatment \/ RefuseLockCapture \/ RefuseBenchmark
    \/ RefuseCounters \/ RefuseContext

----------------------------------------------------------------------------
(* Removal of the container and settlement.                                *)

\* Fault: a running container is not stopped and cannot be removed.
VerifiedStopped == box \in {"created", "exited"}

\* _cleanup_verified_container: inspect, stop a running container, inspect, remove.
Verified == box \in {"created", "running", "exited"}

Removes(next) ==
    /\ Verified /\ GoTo(next) /\ box' = "gone" /\ gate' = "off" /\ conn' = "none"
    /\ \/ dir' = "none" /\ UNCHANGED faults
       \/ UNCHANGED dir /\ FaultAllowed

\* A command fails: nothing happened, or it did and the report is lost.  The
\* container is preserved, and so is its directory.
Preserves(next) ==
    /\ GoTo(next) /\ UNCHANGED dir /\ box # "none"
    /\ conn' = IF conn \in {"sent", "read"} THEN conn ELSE "closed"
    /\ \/ FaultAllowed /\ \/ UNCHANGED <<box, gate>>
                          \/ Verified /\ box' = "gone" /\ gate' = "off"
                          \/ box = "running" /\ box' = "exited" /\ gate' = "exited"
       \/ ~Verified /\ UNCHANGED <<box, gate, faults>>

CleanupKnown == {"created", "running", "exited", "gone"}

\* prepare's own failure path; a container it never learned of is not looked for.
Undo ==
    /\ At("undo") /\ UNCHANGED <<Work, sess, lease, Watch, run, hist>>
    /\ IF box \in CleanupKnown
       THEN Removes("return") \/ Preserves("return")
       ELSE GoTo("return") /\ dir' = "none" /\ conn' = "none" /\ UNCHANGED <<box, gate, faults>>

ReturnLease ==
    /\ At("return") /\ Finish(0) /\ call' = [Idle EXCEPT !.result = "error"]
    /\ UNCHANGED <<Work, World, Watch, run, hist, faults>>

\* _managed_workload_active_seconds, the observed end first.
ActiveSeconds ==
    LET end == IF call.finished # 0 THEN call.finished
               ELSE IF mon.ended # 0 THEN mon.ended ELSE clock
    IN IF call.started = 0 THEN 0 ELSE Smaller(Timeout, Larger(1, end - call.started))

\* The tool's failure path: the monitor is stopped, the container removed, the
\* use settled.  A cleaned run is not cleaned again.
CleanFailed ==
    /\ At("failing") /\ UNCHANGED <<Work, sess, lease, coll, run, hist>>
    /\ mon' = [mon EXCEPT !.state = "stopped"]
    /\ Removes("settle_failed") \/ Preserves("settle_failed")

\* A preserved container is tried again on the failure path, a removed one not.
SettleFailed ==
    /\ At("settle_failed") /\ Finish(ActiveSeconds)
    /\ call' = [Idle EXCEPT !.result = "error"]
    /\ hist' = [hist EXCEPT !.ran = @ + Smaller(Timeout, hist.now), !.now = 0]
    /\ UNCHANGED <<Work, World, Watch, run, faults>>

\* Fault: every cleanup is reported as a removal.
CleanupAlwaysRemoved(status) == "removed"

\* What cleanup returned goes into the artifact.
CleanupStatus(status) == status

\* The successful path: cleanup, the artifact, settlement, publication.
CleanFinished ==
    /\ At("cleanup") /\ UNCHANGED <<Work, sess, lease, Watch, hist>>
    /\ \/ Removes("settle") /\ run' = [NoRun EXCEPT !.cleanup = CleanupStatus("removed")]
       \/ Preserves("settle") /\ run' = [NoRun EXCEPT !.cleanup = CleanupStatus("preserved")]

\* Settlement may be refused because the lease is over: the failure path follows.
SettleFinished ==
    /\ At("settle") /\ Finish(ActiveSeconds)
    /\ IF Finished
       THEN GoTo("publish") /\ run' = [run EXCEPT !.settled = "yes"] /\ UNCHANGED <<World, faults>>
       ELSE /\ UNCHANGED run
            /\ IF run.cleanup = "removed" THEN GoTo("settle_failed") /\ UNCHANGED <<World, faults>>
               ELSE Removes("settle_failed") \/ Preserves("settle_failed")
    /\ UNCHANGED <<Work, Watch, hist>>

\* After settlement a failure removes nothing more and cannot settle again; the
\* run may be stored already, or not.
RefusePublication ==
    /\ At("publish")
    /\ run' = run \/ run' = [run EXCEPT !.status = "exited"]
    /\ IF run.cleanup = "removed" THEN GoTo("settle_failed") /\ UNCHANGED <<World, faults>>
       ELSE Removes("settle_failed") \/ Preserves("settle_failed")
    /\ UNCHANGED <<Work, sess, lease, Watch, hist>>

RefuseMeasurement == RefusePublication
RefuseLockEvidence == RefusePublication
PublishFails == RefuseMeasurement \/ RefuseLockEvidence

PublishRun ==
    /\ At("publish")
    /\ run' = [run EXCEPT !.status = "exited"]
    /\ hist' = [hist EXCEPT !.ran = @ + Smaller(Timeout, hist.now), !.now = 0]
    /\ call' = [Idle EXCEPT !.result = "ok"]
    /\ UNCHANGED <<Work, sess, lease, World, Watch, faults>>

----------------------------------------------------------------------------
(* The existing-container tool call: baseline at the Broker's callback,     *)
(* collection, second resolution, context, settlement.                     *)

AttachExisting ==
    /\ Step("attach", "observe") /\ UNCHANGED <<World, mon>> /\ coll' = "attached"

\* The target is no longer the one that was resolved: the use is settled all the
\* same.
SettleExisting ==
    /\ At("observe") /\ UNCHANGED <<Work, World, Watch, run, hist, faults>>
    /\ \E actual \in 0..Timeout : Finish(actual)
    /\ \/ Finished /\ call' = [Idle EXCEPT !.result = "ok"]
       \/ call' = [Idle EXCEPT !.result = "error"]

----------------------------------------------------------------------------
(* Faults of the environment.                                              *)

\* The server dies: authorization is lost, the Gate finds the end of the
\* connection, nobody looks for the container again.
ServerDies ==
    /\ call.pc \notin {"idle"} /\ FaultAllowed
    /\ sess' = NoSession /\ lease' = 0 /\ call' = [Idle EXCEPT !.result = "died"]
    /\ conn' = IF conn \in {"sent", "read"} THEN conn ELSE "closed"
    /\ mon' = NoMonitor /\ coll' = "off" /\ run' = NoRun /\ hist' = [NoHistory EXCEPT !.release = hist.release]
    /\ UNCHANGED <<clock, calls, box, gate, dir>>

\* Somebody else removes the container.
OperatorRemoves ==
    /\ box \in {"running", "exited"} /\ ~At("idle") /\ FaultAllowed
    /\ box' = "gone" /\ gate' = "off"
    /\ UNCHANGED <<Work, sess, lease, call, conn, dir, Watch, run, hist>>

ToolCall ==
    \/ CreateRunDirectories \/ PrepareFails \/ CreateContainer \/ StartContainer \/ AcceptGate
    \/ BindTarget \/ PlanCollection \/ Release \/ ReleaseConfirmed \/ BrokerEnds \/ Wait
    \/ WaitFails \/ Convert \/ Undo \/ ReturnLease \/ CleanFailed \/ SettleFailed
    \/ CleanFinished \/ SettleFinished \/ PublishRun \/ PublishFails \/ AttachExisting \/ SettleExisting

GateProcess ==
    \/ GateConnects \/ GateFindsNoSocket \/ GateReads \/ GateTimesOut \/ GateExecs
    \/ GateSetupFails \/ WorkloadEnds

Refusals ==
    \/ RefusePreflight \/ RefuseProject \/ RefusePolicyFile \/ RefuseGateBinary
    \/ RefuseDockerCli \/ RefuseEndpoint \/ RefuseTreatment \/ RefuseDiscovery \/ RefuseSelection

Next ==
    \/ Refusals
    \/ Tick \/ AuthorizeExisting \/ AuthorizeManaged \/ Revoke \/ CollectManaged \/ CollectExisting
    \/ ToolCall \/ GateProcess \/ MonitorSees \/ MonitorFails \/ ServerDies \/ OperatorRemoves

Spec == Init /\ [][Next]_vars

----------------------------------------------------------------------------
(* Properties.                                                             *)

TypeOK ==
    /\ clock \in 1..MaxClock
    /\ sess.state \in {"none", "active", "expired", "revoked", "exhausted"}
    /\ sess.runs \in 0..MaxRuns /\ sess.secs \in 0..MaxSeconds
    /\ box \in {"none", "unknown", "created", "running", "exited", "gone"}
    /\ gate \in {"off", "connecting", "waiting", "setup", "running", "exited"}
    /\ conn \in {"none", "listening", "open", "sent", "read", "closed"}
    /\ dir \in {"none", "present"} /\ faults \in 0..MaxFaults

\* The workload of a managed container executes only after the server sent the
\* release, which it does while the collector is attached; a server that died or
\* gave up before that never lets it run.
RunsOnlyReleased == gate \in {"setup", "running"} => hist.release = "yes"

\* A call that ended leaves no container, no running workload and no directory
\* unless a Docker command failed or the server died.
LeftoverNeedsFault ==
    (At("idle") /\ faults = 0) => box \in {"none", "gone"} /\ gate = "off" /\ dir = "none"

\* The session is charged at least for the time its workloads ran, however the
\* calls ended, and never more than was authorized.
ChargeCoversRun ==
    /\ (At("idle") /\ sess.state # "none") => sess.secs >= hist.ran
    /\ sess.secs <= MaxSeconds

\* A published run is settled, its workload is over, and "removed" is true.
PublishedRunHonest ==
    run.status = "exited" =>
        /\ run.settled = "yes" /\ gate # "running"
        /\ run.cleanup = "removed" => box = "gone"

\* How a managed call settles: the time is charged, the published run is true, and
\* nothing is left in Docker unless something failed.
CallSettled == LeftoverNeedsFault /\ ChargeCoversRun /\ PublishedRunHonest
=============================================================================
