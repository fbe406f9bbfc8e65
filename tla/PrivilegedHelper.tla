--------------------------- MODULE PrivilegedHelper -------------------------
(***************************************************************************)
(* The paranoid=3 Helper (rust/perflens-privileged-helper) and the Broker's *)
(* client of it (privileged_helper/client.py).  The Helper serves one      *)
(* connection at a time: it consumes a plan durably, may probe the PMU,    *)
(* runs perf bound to the target with its events disabled, revalidates the *)
(* target, enables, reports readiness, stops perf and publishes one file.  *)
(* A failed hardware run may be repeated with software events.             *)
(*                                                                         *)
(* `target.inc' tells the process the plan names (1) from the ones that    *)
(* reuse its PID; `target.exe' is what it executes: the package Gate until *)
(* the caller was told that the collection is ready.                       *)
(***************************************************************************)
EXTENDS Naturals, FiniteSets, Functions

CONSTANTS
    Plans,         \* collection plans
    Main,          \* the plan whose source and expiry vary
    Lifetime,      \* MAX_HELPER_PLAN_TTL and REPLAY_RETENTION: 120 s each
    MaxTracked,    \* MAX_TRACKED_PLANS
    MaxArtifacts,  \* MAX_SPOOL_ARTIFACTS
    MaxClock,      \* bound: the clock
    MaxSends,      \* bound: requests sent
    MaxFaults,     \* bound: crashes of the Helper and failing file operations
    MaxReuse       \* bound: processes that reuse the target's PID

ASSUME HelperConstants ==
    /\ Main \in Plans
    /\ Lifetime \in Nat \ {0} /\ MaxTracked \in Nat \ {0} /\ MaxArtifacts \in Nat \ {0}
    /\ MaxClock \in Nat /\ MaxSends \in Nat /\ MaxFaults \in Nat /\ MaxReuse \in Nat

VARIABLES
    clock,
    plan,      \* per plan: requested source and expiry
    client,    \* per plan: the Broker's call
    sends,     \* per plan: requests sent
    target,    \* the process behind the plan's PID
    helper,    \* the Helper: step, plan in service, attempt, what was reported
    perf,      \* the perf child
    marker,    \* per plan: time of the replay marker, 0 when absent
    temp,      \* per plan and kind: the temporary file
    out,       \* per plan: the published file, as the source of its events
    uses,      \* history: how often a plan was consumed
    faults,    \* faults so far
    gap        \* history: a fault left a temporary file no recovery rule accepts

vars == <<clock, plan, client, sends, target, helper, perf, marker, temp, out,
          uses, faults, gap>>

Sources == {"software", "hardware", "auto", "short"}
Kinds == {"formal", "probe"}
NoPlan == "none"
Idle == [pc |-> "listen", p |-> NoPlan, now |-> 0, attempt |-> "none", src |-> "none",
         reason |-> "no", ready |-> "no", code |-> "none"]
NoPerf == [st |-> "none", inc |-> 0]
Serving == helper.pc \notin {"down", "listen", "stuck"}

Init ==
    /\ clock = 1
    /\ plan \in [Plans -> [src : Sources, expires : 2..MaxClock]]
    /\ \A p \in Plans \ {Main} : plan[p] = [src |-> "software", expires |-> MaxClock]
    /\ client = [p \in Plans |-> "idle"] /\ sends = [p \in Plans |-> 0]
    /\ target = [inc |-> 1, exe |-> "gate"]
    /\ helper = Idle /\ perf = NoPerf
    /\ marker = [p \in Plans |-> 0]
    /\ temp = [p \in Plans |-> [k \in Kinds |-> "none"]]
    /\ out = [p \in Plans |-> "none"]
    /\ uses = [p \in Plans |-> 0] /\ faults = 0 /\ gap = "no"

Disk == <<marker, temp, out>>
Outside == <<clock, plan, target>>
History == <<uses, faults, gap>>
Calls == <<client, sends>>

----------------------------------------------------------------------------
(* Time, the target and the Broker's client.                               *)

\* The steps between which the passing of time, a replacement of the target or
\* a timeout of the caller make a difference.
Observable(pcs) == helper.pc \in pcs

Tick ==
    /\ clock < MaxClock /\ Observable({"listen", "prune", "consume"})
    /\ clock' = clock + 1
    /\ UNCHANGED <<plan, target, helper, perf, Disk, Calls, History>>

\* The target exits; its PID is taken by an unrelated process.
TargetReplaced ==
    /\ target.inc <= MaxReuse /\ Observable({"identity", "spawn", "barrier"})
    /\ target' = [inc |-> target.inc + 1, exe |-> "gate"]
    /\ UNCHANGED <<clock, plan, helper, perf, Disk, Calls, History>>

\* The Gate executes the workload once the caller saw the ready frame.
TargetExecs ==
    /\ target = [inc |-> 1, exe |-> "gate"]
    /\ \E p \in Plans : client[p] = "ready" /\ Observable({"collect", "failed"})
    /\ target' = [target EXCEPT !.exe = "work"]
    /\ UNCHANGED <<clock, plan, helper, perf, Disk, Calls, History>>

\* The socket and its directory are the Helper's before and after the connect.
SafeSocketIdentity == helper.pc \notin {"down", "stuck"}

\* HelperClient.collect: one request frame.  A request that follows a timeout
\* waits in the socket's queue while the connection of the first is served: it is
\* sent when that connection ended.
Collect(p) ==
    /\ SafeSocketIdentity /\ helper.p # p
    /\ client[p] \notin {"waiting", "ready", "abandoned"}
    /\ FoldFunction(+, 0, sends) < MaxSends
    /\ client' = [client EXCEPT ![p] = "waiting"]
    /\ sends' = [sends EXCEPT ![p] = @ + 1]
    /\ UNCHANGED <<Outside, helper, perf, Disk, History>>

\* The client's receive times out.  The Helper is not told: the request it has
\* not accepted yet is in the socket's queue and will be served.
ClientTimeout(p) ==
    /\ client[p] \in {"waiting", "ready"}
    /\ helper.p = p => Observable({"report", "reply", "failed"})
    /\ client' = [client EXCEPT ![p] = IF helper.p = p THEN "timeout" ELSE "abandoned"]
    /\ UNCHANGED <<Outside, sends, helper, perf, Disk, History>>

----------------------------------------------------------------------------
(* The Helper: one connection.                                             *)

Ends(p, answer) == [client EXCEPT ![p] = IF @ \in {"waiting", "ready"} THEN answer ELSE @]

Reply(answer) ==
    /\ helper' = Idle
    /\ client' = Ends(helper.p, answer)

\* An operation of the file system that fails, unless the bound is reached.
Fails == faults < MaxFaults /\ faults' = faults + 1 /\ UNCHANGED <<uses, gap>>

Refuse ==
    /\ Reply("error")
    /\ UNCHANGED <<Outside, sends, perf, Disk>>

RefuseNow == Refuse /\ UNCHANGED History

At(pc) == helper.pc = pc
GoTo(pc) == helper' = [helper EXCEPT !.pc = pc]
Quiet == UNCHANGED <<Outside, Calls, perf, Disk, History>>

\* serve_listener takes the time before it reads the frame.
Accept(p) ==
    /\ At("listen") /\ client[p] \in {"waiting", "abandoned"}
    /\ helper' = [Idle EXCEPT !.pc = "read", !.p = p, !.now = clock]
    /\ client' = [client EXCEPT ![p] = IF @ = "abandoned" THEN "timeout" ELSE @]
    /\ UNCHANGED <<Outside, sends, perf, Disk, History>>

\* The expiry is compared with the time of the accept.
Unexpired == /\ plan[helper.p].expires > helper.now
             /\ plan[helper.p].expires - helper.now <= Lifetime

\* A peer that is not the Broker, a frame that does not end or parse, a field
\* out of its range, a caller or target UID outside the policy.
RefusePeer == RefuseNow
RefuseFrame == RefuseNow
RefuseFields == RefuseNow
RefusePolicy == RefuseNow

HandleConnection ==
    /\ At("read")
    /\ \/ Unexpired /\ GoTo("identity") /\ Quiet
       \/ ~Unexpired /\ RefuseNow
       \/ RefusePeer \/ RefuseFrame \/ RefuseFields \/ RefusePolicy

\* Owner and start time of the PID; namespaces and cgroup of a container's
\* process belong to the incarnation; its executable may change once the
\* readiness was reported.
PidCurrent == target.inc = 1
ContainerCurrent == target.inc = 1
ExecutableCurrent == target.exe = "gate" \/ helper.ready = "yes"
Planned == PidCurrent /\ ContainerCurrent /\ ExecutableCurrent

\* validate_plan and assert_pid_identity.
AssertPidIdentity ==
    /\ At("identity")
    /\ IF Planned THEN GoTo("recover") /\ Quiet ELSE RefuseNow

\* Fault: only files that were never prepared for publication are accepted.
RecoverablePrivate == \A p \in Plans, k \in Kinds : temp[p][k] \in {"none", "private"}

\* The temporary files the recovery rules accept: 0600 before publication, the
\* artifact's mode and group afterwards.  One whose mode was changed and whose
\* group was not fits no rule.
Recoverable == \A p \in Plans, k \in Kinds : temp[p][k] # "chmodded"
NoTemp == [p \in Plans |-> [k \in Kinds |-> "none"]]

Recover ==
    /\ At("recover")
    /\ IF Recoverable
       THEN /\ temp' = NoTemp /\ GoTo("prune")
            /\ UNCHANGED <<Outside, Calls, perf, marker, out, History>>
       ELSE RefuseNow

\* Fault: markers are dropped one unit of time too early.
ExpiredTooEarly(m) == m # 0 /\ clock + 1 >= m + Lifetime

Expired(m) == m # 0 /\ clock >= m + Lifetime

Pruned == [p \in Plans |-> IF Expired(marker[p]) THEN 0 ELSE marker[p]]
Tracked(ms) == Cardinality({p \in Plans : ms[p] # 0})

\* The plan's own marker denies the request, however old it is.
Prune ==
    /\ At("prune")
    /\ IF marker[helper.p] = 0 /\ Tracked(Pruned) < MaxTracked
       THEN GoTo("capacity") /\ marker' = Pruned
            /\ UNCHANGED <<Outside, Calls, perf, temp, out, History>>
       ELSE /\ Reply("error")
            /\ marker' = IF marker[helper.p] = 0 THEN Pruned ELSE marker
            /\ UNCHANGED <<Outside, sends, perf, temp, out, History>>

Stored == {p \in Plans : out[p] # "none"}

AuthorizeSpoolCapacity ==
    /\ At("capacity")
    /\ IF Cardinality(Stored) < MaxArtifacts THEN GoTo("consume") /\ Quiet ELSE RefuseNow

\* consume_plan: create_new, then the file and the directory are synced.
ConsumePlan ==
    /\ At("consume")
    /\ marker' = [marker EXCEPT ![helper.p] = clock]
    /\ uses' = [uses EXCEPT ![helper.p] = @ + 1]
    /\ GoTo("select")
    /\ UNCHANGED <<Outside, Calls, perf, temp, out, faults, gap>>

\* select_event_source.
SelectEventSource ==
    /\ At("select")
    /\ helper' = CASE plan[helper.p].src = "software" ->
                          [helper EXCEPT !.pc = "reserve", !.src = "software"]
                   [] plan[helper.p].src = "hardware" ->
                          [helper EXCEPT !.pc = "reserve", !.src = "hardware"]
                   [] plan[helper.p].src = "short" ->
                          [helper EXCEPT !.pc = "reserve", !.src = "software", !.reason = "yes"]
                   [] OTHER -> [helper EXCEPT !.pc = "probe"]
    /\ Quiet

\* probe_hardware_pmu: a perf stat run into a file of its own.
StartProbe ==
    /\ At("probe")
    /\ temp' = [temp EXCEPT ![helper.p]["probe"] = "private"]
    /\ helper' = [helper EXCEPT !.pc = "spawn", !.attempt = "probe", !.src = "hardware"]
    /\ UNCHANGED <<Outside, Calls, perf, marker, out, History>>

\* The output must not exist; reserve_temporary_output.
ReserveOutput ==
    /\ At("reserve")
    /\ IF out[helper.p] = "none"
       THEN /\ temp' = [temp EXCEPT ![helper.p]["formal"] = "private"]
            /\ helper' = [helper EXCEPT !.pc = "spawn", !.attempt = "formal"]
            /\ UNCHANGED <<Outside, Calls, perf, marker, out, History>>
       ELSE RefuseNow

----------------------------------------------------------------------------
(* execute_perf_inner_with_ready.                                          *)

Stop(code) ==
    /\ perf' = NoPerf
    /\ helper' = [helper EXCEPT !.pc = "failed", !.code = code]
    /\ UNCHANGED <<Outside, Calls, Disk, History>>

\* perf opens the events of the process that has the PID now, disabled.
SpawnPerf ==
    /\ At("spawn")
    /\ \/ /\ perf' = [st |-> "bound", inc |-> target.inc] /\ GoTo("barrier")
          /\ UNCHANGED <<Outside, Calls, Disk, History>>
       \/ Stop("other")

\* The acknowledged `disable': perf has bound the target.
Barrier ==
    /\ At("barrier")
    /\ \/ GoTo("revalidate") /\ Quiet
       \/ Stop("other")

\* Fault: the target is not looked at again after perf opened it.
RevalidateNothing == At("revalidate") /\ GoTo("enable") /\ Quiet

Revalidate ==
    /\ At("revalidate")
    /\ IF Planned THEN GoTo("enable") /\ Quiet ELSE Stop("other")

Enable ==
    /\ At("enable")
    /\ \/ /\ perf' = [perf EXCEPT !.st = "enabled"] /\ GoTo("report")
          /\ UNCHANGED <<Outside, Calls, Disk, History>>
       \/ Stop("other")

\* notify_once, and the probe's notifier that reports nothing.
Reports == helper.attempt # "probe" /\ helper.ready = "no"

NotifyReady ==
    /\ At("report")
    /\ IF ~Reports THEN GoTo("collect") /\ Quiet
       ELSE IF client[helper.p] = "waiting"
       THEN /\ helper' = [helper EXCEPT !.pc = "collect", !.ready = "yes"]
            /\ client' = [client EXCEPT ![helper.p] = "ready"]
            /\ UNCHANGED <<Outside, sends, perf, Disk, History>>
       ELSE Stop("other")

\* The duration passed or the target is gone: perf stops within its limits and
\* left a file that passes the checks, or it failed ("external": EXTERNAL_TOOL_FAILED
\* of the external tool), or had to be killed or the file is unusable ("other").
StopPerf ==
    /\ At("collect")
    /\ \/ /\ perf' = NoPerf
          /\ helper' = [helper EXCEPT !.pc = IF helper.attempt = "probe" THEN "probed" ELSE "chmod"]
          /\ UNCHANGED <<Outside, Calls, Disk, History>>
       \/ \E code \in {"external", "other"} : Stop(code)

\* A hardware stat run whose requested events were not all counted failed.
NoUsableCounts == At("collect") /\ helper.src = "hardware" /\ Stop("external")

\* The published file: mode, group, hard link, removal of the temporary name.
Publish(pc, before, after, next) ==
    /\ At(pc) /\ temp[helper.p]["formal"] = before
    /\ temp' = [temp EXCEPT ![helper.p]["formal"] = after] /\ GoTo(next)
    /\ UNCHANGED <<Outside, Calls, perf, marker, History>>

SetPermissions == Publish("chmod", "private", "chmodded", "chown") /\ UNCHANGED out

ChangeGroup == Publish("chown", "chmodded", "group", "link") /\ UNCHANGED out

LinkOutput ==
    /\ Publish("link", "group", "linked", "unlink")
    /\ out' = [out EXCEPT ![helper.p] = helper.src]

RemoveTemporary == Publish("unlink", "linked", "none", "reply") /\ UNCHANGED out

\* A file operation of the publication fails.
PublishFails ==
    /\ helper.pc \in {"chmod", "chown", "link", "unlink"} /\ Fails
    /\ helper' = [helper EXCEPT !.pc = "failed", !.code = "other"]
    /\ UNCHANGED <<Outside, Calls, perf, Disk>>

----------------------------------------------------------------------------
(* The end of an attempt.                                                  *)

\* The counts are usable, or the software events are chosen.
ProbeVerdict == {"hardware", "software"}

\* The probe's outcome; its file is removed whatever it was.
ProbeEnds ==
    /\ helper.attempt = "probe" /\ helper.pc \in {"probed", "failed"}
    /\ temp' = [temp EXCEPT ![helper.p]["probe"] = "none"]
    /\ UNCHANGED <<Outside, sends, perf, marker, out, History>>
    /\ \/ /\ At("probed") /\ UNCHANGED client
          /\ \E src \in ProbeVerdict :
                helper' = [helper EXCEPT !.pc = "reserve", !.attempt = "none", !.src = src,
                                         !.reason = IF src = "software" THEN "yes" ELSE "no"]
       \/ /\ At("failed") /\ helper.code = "external" /\ UNCHANGED client
          /\ helper' = [helper EXCEPT !.pc = "reserve", !.attempt = "none", !.code = "none",
                                      !.src = "software", !.reason = "yes"]
       \/ At("failed") /\ helper.code # "external" /\ Reply("error")

MayFallBack ==
    /\ plan[helper.p].src = "auto" /\ helper.attempt = "formal"
    /\ helper.reason = "no" /\ helper.code = "external"

\* Enough time is left: the temporary file is replaced, software events are used.
FallBack ==
    /\ At("failed") /\ MayFallBack
    /\ temp' = [temp EXCEPT ![helper.p]["formal"] = "private"]
    /\ helper' = [helper EXCEPT !.pc = "spawn", !.attempt = "second", !.code = "none",
                                !.src = "software", !.reason = "yes"]
    /\ UNCHANGED <<Outside, Calls, perf, marker, out, History>>

\* The temporary file is removed, a failure to do so is ignored.
AttemptFails ==
    /\ At("failed") /\ helper.attempt # "probe"
    /\ \/ temp' = [temp EXCEPT ![helper.p]["formal"] = "none"] /\ UNCHANGED History
       \/ UNCHANGED temp /\ faults < MaxFaults /\ faults' = faults + 1 /\ UNCHANGED uses
          /\ gap' = IF temp[helper.p]["formal"] = "chmodded" THEN "yes" ELSE gap
    /\ Reply("error")
    /\ UNCHANGED <<Outside, sends, perf, marker, out>>

\* Fault: the answer names the source the plan asked for.
AnsweredRequested == IF plan[helper.p].src = "software" THEN "software" ELSE "hardware"

Answered == helper.src

\* What the client derives from the plan and the answer's fallback flag.
Expected ==
    IF plan[helper.p].src = "software" \/ helper.reason = "yes" THEN "software" ELSE "hardware"

\* The Broker opens the file itself: one link, and the announced content.
VerifyHelperArtifact == temp[helper.p]["formal"] = "none" /\ out[helper.p] = Answered

\* collection_response, then the client's and the Broker's checks.
CollectionResponse ==
    /\ At("reply")
    /\ Reply(IF Answered = Expected /\ VerifyHelperArtifact
             THEN (IF Answered = "software" THEN "ok_software" ELSE "ok_hardware")
             ELSE "error")
    /\ UNCHANGED <<Outside, sends, perf, Disk, History>>

----------------------------------------------------------------------------
(* Death and restart.  systemd ends the service's processes with it.       *)

Crash ==
    /\ Serving /\ faults < MaxFaults
    /\ faults' = faults + 1 /\ UNCHANGED uses
    /\ gap' = IF temp[helper.p]["formal"] = "chmodded" THEN "yes" ELSE gap
    /\ helper' = [Idle EXCEPT !.pc = "down"] /\ perf' = NoPerf
    /\ client' = [p \in Plans |-> CASE client[p] \in {"waiting", "ready"} -> "error"
                                    [] client[p] = "abandoned" -> "timeout"
                                    [] OTHER -> client[p]]
    /\ UNCHANGED <<Outside, sends, Disk>>

\* prepare_production_environment, bind_private_socket.
PrepareProductionEnvironment ==
    /\ At("down")
    /\ IF Recoverable
       THEN temp' = NoTemp /\ marker' = Pruned /\ helper' = Idle
       ELSE UNCHANGED <<temp, marker>> /\ helper' = [Idle EXCEPT !.pc = "stuck"]
    /\ UNCHANGED <<Outside, Calls, perf, out, History>>

Serve ==
    \/ HandleConnection \/ AssertPidIdentity \/ Recover \/ Prune
    \/ AuthorizeSpoolCapacity \/ ConsumePlan \/ SelectEventSource \/ StartProbe
    \/ ReserveOutput \/ SpawnPerf \/ Barrier \/ Revalidate \/ Enable \/ NotifyReady
    \/ StopPerf \/ NoUsableCounts \/ SetPermissions \/ ChangeGroup \/ LinkOutput \/ RemoveTemporary
    \/ ProbeEnds \/ FallBack \/ AttemptFails \/ CollectionResponse
    \/ PrepareProductionEnvironment

Next ==
    \/ Tick \/ TargetReplaced \/ TargetExecs
    \/ \E p \in Plans : Collect(p) \/ ClientTimeout(p) \/ Accept(p)
    \/ Serve \/ PublishFails \/ Crash

Spec == Init /\ [][Next]_vars

----------------------------------------------------------------------------
(* Properties.                                                             *)

TypeOK ==
    /\ clock \in 1..MaxClock
    /\ plan \in [Plans -> [src : Sources, expires : Nat]]
    /\ client \in [Plans -> {"idle", "waiting", "ready", "timeout", "abandoned", "error",
                             "ok_software", "ok_hardware"}]
    /\ sends \in [Plans -> Nat]
    /\ target \in [inc : 1..(MaxReuse + 1), exe : {"gate", "work"}]
    /\ helper.p \in Plans \cup {NoPlan}
    /\ perf \in [st : {"none", "bound", "enabled"}, inc : Nat]
    /\ marker \in [Plans -> 0..MaxClock]
    /\ temp \in [Plans -> [Kinds -> {"none", "private", "chmodded", "group", "linked"}]]
    /\ out \in [Plans -> {"none", "software", "hardware"}]
    /\ uses \in [Plans -> Nat] /\ faults \in 0..MaxFaults /\ gap \in {"yes", "no"}

\* A plan is consumed once (docs/privileged-helper.md: failure, timeout and
\* restart do not make it reusable), although markers are dropped after exactly
\* the longest lifetime a plan may have and a frame may be read slowly.
PlanConsumedOnce == \A p \in Plans : uses[p] <= 1

\* Events are never enabled on a process that merely has the plan's PID, and the
\* workload executes only while the selected profile, never the probe, is or was
\* attached to it.
EnabledOnPlanned ==
    /\ perf.st = "enabled" => perf.inc = 1
    /\ target.exe = "work" => \E p \in Plans : uses[p] = 1
    /\ helper.attempt = "probe" => helper.ready = "no"

\* What the client is told is what is in the spool; an error without a fault
\* leaves nothing there; a software result the plan did not ask for is one the
\* plan allowed.
HelperEvidenceHonest ==
    \A p \in Plans :
        /\ client[p] = "ok_software" => out[p] = "software" /\ plan[p].src # "hardware"
        /\ client[p] = "ok_hardware" => out[p] = "hardware" /\ plan[p].src \in {"hardware", "auto"}
        /\ (client[p] = "error" /\ faults = 0 /\ sends[p] = 1) => out[p] = "none"

\* The Helper starts again after a crash at any step but one: a temporary file
\* with the artifact's mode and still its own group, between set_permissions and
\* chown, is accepted by no recovery rule.
OnlyGapBlocks ==
    /\ At("stuck") => gap = "yes"
    /\ (At("listen") /\ faults = 0) => temp = NoTemp /\ perf = NoPerf

\* What the Helper measures is what the plan names and what its client is told.
HelperHonest == EnabledOnPlanned /\ HelperEvidenceHonest
=============================================================================
