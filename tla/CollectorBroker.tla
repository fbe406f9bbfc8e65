-------------------------- MODULE CollectorBroker --------------------------
(***************************************************************************)
(* The PerfLens Collector broker in its default `cap_perfmon` privilege    *)
(* mode: one sequential Unix-socket server that authorizes a client's      *)
(* single-use collection plan, persists a consumed-plan marker in the      *)
(* spool, runs perf against one PID incarnation and publishes one artifact *)
(* per plan.  (src/perflens/collector_broker/server.py and                 *)
(* src/perflens/collection/collector.py.)                                  *)
(*                                                                         *)
(* One request is one walk of `pc` through _handle_connection.  Every      *)
(* place at which the wall clock, the target PID, the client or the        *)
(* machine can change under the handler separates two steps.               *)
(***************************************************************************)
EXTENDS Integers, Sequences, FiniteSets, FiniteSetsExt

CONSTANTS
    Plans,              \* plan ids the clients may ever issue
    Pids,               \* host PIDs a plan may name
    MaxTime,            \* bound: the last instant of the wall clock
    MaxStart,           \* bound: how many processes may ever own one PID
    PlanTtls,           \* client-side plan_ttl_seconds values
    PlanSources,        \* event sources the clients ask for
    PlanBytes,          \* max_output_bytes values the clients ask for
    PolicyTtls,         \* max_plan_ttl_seconds values a policy file may carry
    TtlMayShrink,       \* may an administrator deploy a smaller TTL?
    MaxOutput,          \* policy max_output_bytes
    MaxSpoolBytes,      \* policy max_spool_bytes
    MaxSpoolArtifacts,  \* policy max_spool_artifacts
    MaxTracked,         \* _MAX_TRACKED_PLANS
    AllowFallback       \* policy allow_software_fallback

\* The limits CollectorBrokerPolicy validation enforces.
ValidPolicy ==
    /\ PolicyTtls \subseteq Nat \ {0} /\ PolicyTtls # {}
    /\ PlanTtls \subseteq Nat \ {0}
    /\ PlanSources \subseteq {"auto", "auto_narrow", "hardware_required",
                              "software_only"}
    /\ PlanBytes \subseteq Nat \ {0}
    /\ MaxOutput \in Nat \ {0}
    /\ MaxSpoolBytes \in Nat /\ MaxSpoolBytes >= MaxOutput
    /\ MaxSpoolArtifacts \in Nat \ {0}
    /\ MaxTracked \in Nat \ {0}
    /\ AllowFallback \in BOOLEAN
    /\ TtlMayShrink \in BOOLEAN

ASSUME PolicyAssumption == ValidPolicy

ASSUME BoundAssumption ==
    /\ MaxTime \in Nat
    /\ MaxStart \in Nat \ {0}
    /\ Pids # {}
    /\ IsFiniteSet(Plans)

VARIABLES
    clock,         \* wall clock seen by broker and clients
    ttl,           \* max_plan_ttl_seconds of the running policy
    start,         \* start[pid]: start time of the process that owns pid now
    plan,          \* plan[p]: the immutable plan document issued under id p
    markers,       \* markers[p]: mtime of the consumed-plan marker, 0 if absent
    durable,       \* the part of markers that survives a power loss
    temps,         \* plans whose `.perflens-collect-` file is in the spool
    artifacts,     \* artifacts[p]: the published evidence file of p
    pc,            \* where the handler of the current request is
    req,           \* the plan of the current request
    attempt,       \* which perf execution is in progress: probe or formal
    source,        \* event source selected for the formal attempt
    ready,         \* report_ready not asked for, wanted, or already sent
    bound,         \* start time of the process perf bound to, 0 if none
    conn,          \* does the client still hold the connection?
    wire,          \* frames sent on the current connection
    runs           \* history: executions begun after consuming the plan

volatile == <<pc, req, attempt, source, ready, bound>>
spool == <<markers, durable, temps, artifacts>>
vars == <<clock, ttl, start, plan, markers, durable, temps, artifacts, pc, req,
          attempt, source, ready, bound, conn, wire, runs>>

\* requested_event_source with fallback_allowed: "auto" may fall back to
\* software events, "auto_narrow" may not.
Sources == {"auto", "auto_narrow", "hardware_required", "software_only"}

\* `bytes` is max_output_bytes; a plan beyond the policy in any other dimension
\* (UID, mode, duration, frequency, events) is treated like one beyond it here.
PlanRecord == [pid : Pids, start : Nat, expires : Nat, source : Sources,
               bytes : Nat]

NotIssued(r) == r.expires = 0

\* "fallback" is software evidence with fallback_used set.
EventSources == {"hardware", "software", "fallback"}
Evidence == [bytes : Nat, source : EventSources]
NoEvidence == [bytes |-> 0, source |-> "hardware"]
Published == {p \in Plans : artifacts[p] # NoEvidence}

PCs == {"down", "idle", "authorize", "current", "capacity", "consume", "sync",
        "select", "assert", "reserve", "bind", "validate", "enable", "ready",
        "running", "link", "unlink", "chmod", "reply_ok", "reply_error"}

----------------------------------------------------------------------------
(* The checks the handler makes.                                           *)

\* assert_plan_current: not expired, and the PID still has its incarnation.
PlanCurrent(p) ==
    /\ clock < plan[p].expires
    /\ start[plan[p].pid] = plan[p].start

\* _authorize
Authorized(p) ==
    /\ plan[p].bytes <= MaxOutput
    /\ plan[p].expires <= clock + ttl

\* _narrow_fallback_to_collector_policy
EffectiveFallback(p) == plan[p].source = "auto" /\ AllowFallback

SpoolBytes == MapThenSumSet(LAMBDA p : artifacts[p].bytes, Published)

\* Fault: the count quota is off by one.
SpoolCapacityOffByOne(p) ==
    /\ temps = {}
    /\ Cardinality(Published) <= MaxSpoolArtifacts
    /\ Published # {} => SpoolBytes + plan[p].bytes <= MaxSpoolBytes

\* _authorize_spool_capacity.  The byte quota is tested once per artifact, so
\* an empty spool never tests it; any unmanaged entry fails the scan.
SpoolCapacity(p) ==
    /\ temps = {}
    /\ Cardinality(Published) < MaxSpoolArtifacts
    /\ Published # {} => SpoolBytes + plan[p].bytes <= MaxSpoolBytes

\* Fault: markers are reclaimed one instant too early.
ExpiredEarly == {p \in Plans : markers[p] # 0 /\ markers[p] + ttl <= clock + 1}

\* _prune_replay_markers: the markers older than the policy TTL.
Expired == {p \in Plans : markers[p] # 0 /\ markers[p] + ttl <= clock}

ActiveMarkers == {p \in Plans : markers[p] # 0} \ Expired
Prune(f, S) == [p \in Plans |-> IF p \in S THEN 0 ELSE f[p]]

\* validate_new_output_file and os.link both refuse an existing output name.
OutputExists(p) == p \in Published

----------------------------------------------------------------------------
Init ==
    /\ clock = 1
    /\ ttl \in PolicyTtls
    /\ start = [i \in Pids |-> 1]
    /\ plan = [p \in Plans |-> [pid |-> CHOOSE i \in Pids : TRUE, start |-> 0,
                                expires |-> 0, source |-> "auto",
                                bytes |-> 0]]
    /\ markers = [p \in Plans |-> 0]
    /\ durable = markers
    /\ temps = {}
    /\ artifacts = [p \in Plans |-> NoEvidence]
    /\ pc = "idle"
    /\ req \in Plans
    /\ attempt = "none"
    /\ source = "hardware"
    /\ ready = "off"
    /\ bound = 0
    /\ conn = "closed"
    /\ wire = <<>>
    /\ runs = [p \in Plans |-> 0]

----------------------------------------------------------------------------
(* The environment: time, processes, clients and the administrator.        *)

Tick ==
    /\ clock < MaxTime
    /\ clock' = clock + 1
    /\ UNCHANGED <<ttl, start, plan, spool, volatile, conn, wire, runs>>

\* The process that owns the PID exits and the kernel reuses the number.
ReusePid(i) ==
    /\ start[i] < MaxStart
    /\ start' = [start EXCEPT ![i] = @ + 1]
    /\ UNCHANGED <<clock, ttl, plan, spool, volatile, conn, wire, runs>>

\* create_collection_plan: a client binds a new plan id to the process that
\* owns the PID now.
CreatePlan(p, i, t, src, n) ==
    /\ NotIssued(plan[p])
    /\ plan' = [plan EXCEPT ![p] =
                  [pid |-> i, start |-> start[i], expires |-> clock + t,
                   source |-> src, bytes |-> n]]
    /\ UNCHANGED <<clock, ttl, start, spool, volatile, conn, wire, runs>>

\* The client times out or dies and closes its end of the connection.
Disconnect ==
    /\ conn = "open"
    /\ conn' = "closed"
    /\ UNCHANGED <<clock, ttl, start, plan, spool, volatile, wire, runs>>

\* prune_archived_collector_spool: an archived artifact is removed.  Archiving
\* refuses a spool with a temporary file in it, so an artifact is out of its
\* reach until its temporary name is gone.  SpoolArchive has the whole command.
PruneArchived(p) ==
    /\ p \in Published
    /\ ~ (pc \in {"link", "unlink"} /\ req = p)
    /\ artifacts' = [artifacts EXCEPT ![p] = NoEvidence]
    /\ UNCHANGED <<clock, ttl, start, plan, markers, durable, temps, volatile,
                   conn, wire, runs>>

\* A human removes the unmanaged entry that a crash left in the spool.
RemoveUnmanaged(p) ==
    /\ p \in temps
    /\ pc \in {"idle", "down"}
    /\ temps' = temps \ {p}
    /\ UNCHANGED <<clock, ttl, start, plan, markers, durable, artifacts,
                   volatile, conn, wire, runs>>

\* update_collector_policy replaces the policy and restarts the service.
UpdatePolicy(t) ==
    /\ pc \in {"idle", "down"}
    /\ t # ttl
    /\ TtlMayShrink \/ t > ttl
    /\ ttl' = t
    /\ UNCHANGED <<clock, start, plan, spool, volatile, conn, wire, runs>>

----------------------------------------------------------------------------
(* The request handler.                                                    *)

Keep == UNCHANGED <<clock, ttl, start, plan>>
KeepConn == UNCHANGED <<conn, wire>>
KeepMode == UNCHANGED <<req, attempt, source, ready, bound>>

\* serve_once, _handle_connection: accept one connection and read its request.
\* A client may present any issued plan, any number of times.
Accept(p, reportReady) ==
    /\ pc = "idle"
    /\ ~ NotIssued(plan[p])
    /\ pc' = "authorize"
    /\ req' = p
    /\ ready' = reportReady
    /\ attempt' = "none"
    /\ source' = "hardware"
    /\ bound' = 0
    /\ conn' = "open"
    /\ wire' = <<>>
    /\ Keep /\ UNCHANGED <<spool, runs>>

\* A check that either lets the handler continue or ends in an error reply.
Check(here, ok, next) ==
    /\ pc = here
    /\ pc' = IF ok THEN next ELSE "reply_error"
    /\ KeepMode /\ Keep /\ KeepConn /\ UNCHANGED <<spool, runs>>

Authorize == Check("authorize", Authorized(req), "current")

AssertExecutionPlanCurrent == Check("current", PlanCurrent(req), "capacity")

\* `free` is the outcome of the free-space floor on the spool filesystem.
AuthorizeSpoolCapacity ==
    \E free \in BOOLEAN :
        Check("capacity", free /\ SpoolCapacity(req), "consume")

\* _persist_consumed_plan under the spool lock.  A marker that exists already
\* is a replay, met after any part of the expired markers has been unlinked.
PersistConsumedPlan ==
    /\ pc = "consume"
    /\ IF markers[req] # 0
       THEN \E S \in SUBSET (Expired \ {req}) :
              /\ markers' = Prune(markers, S)
              /\ durable' = Prune(durable, S)
              /\ pc' = "reply_error"
       ELSE /\ durable' = Prune(durable, Expired)
            /\ IF Cardinality(ActiveMarkers) >= MaxTracked
               THEN /\ markers' = Prune(markers, Expired)
                    /\ pc' = "reply_error"
               ELSE /\ markers' = [Prune(markers, Expired) EXCEPT ![req] = clock]
                    /\ pc' = "sync"
    /\ KeepMode /\ Keep /\ KeepConn
    /\ UNCHANGED <<temps, artifacts, runs>>

\* Fault: perf starts although nothing has been synced.
SyncMarkerSkipped ==
    /\ pc = "sync"
    /\ pc' = "select"
    /\ runs' = [runs EXCEPT ![req] = @ + 1]
    /\ KeepMode /\ Keep /\ KeepConn /\ UNCHANGED spool

\* fsync of the marker and of the spool directory.  An I/O error is reported
\* and leaves the marker where it is.
SyncMarker ==
    /\ pc = "sync"
    /\ \/ /\ durable' = markers
          /\ pc' = "select"
          /\ runs' = [runs EXCEPT ![req] = @ + 1]
       \/ /\ pc' = "reply_error"
          /\ UNCHANGED <<durable, runs>>
    /\ KeepMode /\ Keep /\ KeepConn
    /\ UNCHANGED <<markers, temps, artifacts>>

\* _collect_with_cap_perfmon: the event source of the first attempt.  A plan
\* that may fall back probes the hardware PMU first, unless it is too short.
SelectSource ==
    /\ pc = "select"
    /\ \/ /\ EffectiveFallback(req)
          /\ attempt' = "probe"
          /\ pc' = "bind"
          /\ UNCHANGED source
       \/ /\ EffectiveFallback(req)
          /\ attempt' = "formal"
          /\ source' = "fallback"
          /\ pc' = "assert"
       \/ /\ ~ EffectiveFallback(req)
          /\ attempt' = "formal"
          /\ source' = IF plan[req].source = "software_only"
                       THEN "software" ELSE "hardware"
          /\ pc' = "assert"
    /\ Keep /\ KeepConn /\ UNCHANGED <<req, spool, ready, bound, runs>>

\* execute_selected_profile rechecks the target before every formal attempt.
AssertCurrentTarget == Check("assert", PlanCurrent(req), "reserve")

\* collect_profile: the output name must be free; reserve the temporary file.
ReserveTemporary ==
    /\ pc = "reserve"
    /\ IF OutputExists(req)
       THEN pc' = "reply_error" /\ UNCHANGED temps
       ELSE pc' = "bind" /\ temps' = temps \cup {req}
    /\ KeepMode /\ Keep /\ KeepConn
    /\ UNCHANGED <<markers, durable, artifacts, runs>>

\* The probe decides the source of the formal attempt.
ProbeDone(usable) ==
    /\ attempt' = "formal"
    /\ source' = IF usable THEN "hardware" ELSE "fallback"
    /\ bound' = 0
    /\ pc' = "assert"

\* Fault: the fallback ignores what the plan and the policy allow.
AttemptFailsAnyPlan(kind) ==
    /\ temps' = temps \ {req}
    /\ bound' = 0
    /\ attempt' = "formal"
    /\ source' = "fallback"
    /\ pc' = IF kind = "tool" /\ source # "fallback" THEN "assert" ELSE "reply_error"
    /\ Keep /\ UNCHANGED <<req, markers, durable, artifacts, ready, runs>>

\* Fault: the fallback is retried without limit.
AttemptFailsForever(kind) ==
    /\ temps' = temps \ {req}
    /\ bound' = 0
    /\ attempt' = "formal"
    /\ source' = "fallback"
    /\ pc' = IF kind = "tool" /\ EffectiveFallback(req) THEN "assert" ELSE "reply_error"
    /\ Keep /\ UNCHANGED <<req, markers, durable, artifacts, ready, runs>>

\* A perf execution failed: perf is terminated and its temporary file removed.
\* Only a "tool" failure (EXTERNAL_TOOL_FAILED or PROFILE_PARSE_FAILED outside
\* the control handshake) may fall back to software events, and only once.
AttemptFails(kind) ==
    /\ IF attempt = "probe"
       THEN /\ UNCHANGED temps
            /\ IF kind = "tool"
               THEN ProbeDone(FALSE)
               ELSE /\ pc' = "reply_error" /\ bound' = 0
                    /\ UNCHANGED <<attempt, source>>
       ELSE /\ temps' = temps \ {req}
            /\ bound' = 0
            /\ UNCHANGED attempt
            /\ \/ /\ kind = "tool"
                  /\ EffectiveFallback(req) /\ source # "fallback"
                  /\ source' = "fallback"
                  /\ pc' = "assert"
               \/ pc' = "reply_error" /\ UNCHANGED source
    /\ Keep /\ UNCHANGED <<req, markers, durable, artifacts, ready, runs>>

\* The same attempt goes on.
Proceed(next) ==
    /\ pc' = next
    /\ Keep /\ UNCHANGED <<req, spool, attempt, source, ready, runs>>

\* perf opens the PID's events disabled and acknowledges the barrier.
BindTarget ==
    /\ pc = "bind"
    /\ KeepConn
    /\ \/ bound' = start[plan[req].pid] /\ Proceed("validate")
       \/ \E kind \in {"control", "tool", "other"} : AttemptFails(kind)

\* Fault: the plan is not revalidated between bind and enable.
ValidateBoundSkipped ==
    /\ pc = "validate"
    /\ KeepConn
    /\ UNCHANGED bound
    /\ Proceed("enable")

\* _PerfControl.after_start: the plan is revalidated after the bind.
ValidateBound ==
    /\ pc = "validate"
    /\ KeepConn
    /\ IF PlanCurrent(req)
       THEN UNCHANGED bound /\ Proceed("enable")
       ELSE AttemptFails("other")

EnableEvents ==
    /\ pc = "enable"
    /\ KeepConn
    /\ \/ UNCHANGED bound /\ Proceed("ready")
       \/ \E kind \in {"control", "other"} : AttemptFails(kind)

\* Fault: the probe is given the readiness callback too.
ReportReadyDuringProbe ==
    /\ pc = "ready"
    /\ pc' = "running"
    /\ IF ready = "wanted" /\ conn = "open"
       THEN wire' = Append(wire, "ready") /\ ready' = "sent"
       ELSE UNCHANGED <<wire, ready>>
    /\ Keep /\ UNCHANGED <<req, spool, attempt, source, bound, conn, runs>>

\* report_ready: the probe has no callback; a dead connection raises OSError.
ReportReady ==
    /\ pc = "ready"
    /\ IF attempt = "formal" /\ ready = "wanted"
       THEN IF conn = "open"
            THEN /\ wire' = Append(wire, "ready")
                 /\ ready' = "sent"
                 /\ pc' = "running"
                 /\ Keep
                 /\ UNCHANGED <<req, spool, attempt, source, bound, conn, runs>>
            ELSE KeepConn /\ AttemptFails("other")
       ELSE KeepConn /\ UNCHANGED bound /\ Proceed("running")

\* perf ends: its output is validated, parsed and verified.
PerfEnds ==
    /\ pc = "running"
    /\ KeepConn
    /\ \/ /\ attempt = "probe"
          /\ \E usable \in BOOLEAN : ProbeDone(usable)
          /\ Keep /\ UNCHANGED <<req, spool, ready, runs>>
       \/ attempt = "formal" /\ UNCHANGED bound /\ Proceed("link")
       \/ \E kind \in {"tool", "other"} : AttemptFails(kind)

\* _publish_without_overwrite, first half: hard-link the final name.
LinkArtifact ==
    /\ pc = "link"
    /\ KeepConn
    /\ IF OutputExists(req)
       THEN AttemptFails("other")
       ELSE \E n \in 1..plan[req].bytes :
              /\ artifacts' = [artifacts EXCEPT ![req] =
                    [bytes |-> n, source |-> source]]
              /\ pc' = "unlink"
              /\ KeepMode /\ Keep
              /\ UNCHANGED <<markers, durable, temps, runs>>

\* Second half: drop the temporary name and verify the published file again.
UnlinkTemporary ==
    /\ pc = "unlink"
    /\ KeepConn
    /\ \/ /\ pc' = "chmod"
          /\ temps' = temps \ {req}
          /\ KeepMode /\ Keep
          /\ UNCHANGED <<markers, durable, artifacts, runs>>
       \/ AttemptFails("tool")

\* os.chmod of the artifact; a failure removes the artifact again.
ChmodArtifact ==
    /\ pc = "chmod"
    /\ \/ pc' = "reply_ok" /\ req \in Published /\ UNCHANGED artifacts
       \/ pc' = "reply_error" /\ artifacts' = [artifacts EXCEPT ![req] = NoEvidence]
    /\ KeepMode /\ Keep /\ KeepConn
    /\ UNCHANGED <<markers, durable, temps, runs>>

\* The final frame; a failed send is suppressed.  The connection is closed.
Reply ==
    /\ pc \in {"reply_ok", "reply_error"}
    /\ pc' = "idle"
    /\ wire' = IF conn = "open"
               THEN Append(wire, IF pc = "reply_ok" THEN "ok" ELSE "error")
               ELSE wire
    /\ conn' = "closed"
    /\ KeepMode /\ Keep /\ UNCHANGED <<spool, runs>>

----------------------------------------------------------------------------
(* Failures of the broker process and of the machine.                      *)

\* The process dies: perf dies with its process group, files stay.
Crash ==
    /\ pc # "down"
    /\ pc' = "down"
    /\ bound' = 0
    /\ conn' = "closed"
    /\ Keep
    /\ UNCHANGED <<req, spool, attempt, source, ready, wire, runs>>

\* The machine loses power: directory changes not yet synced may be lost and
\* no process survives.
PowerLoss ==
    /\ \A i \in Pids : start[i] < MaxStart
    /\ start' = [i \in Pids |-> start[i] + 1]
    /\ \E lost \in SUBSET {p \in Plans : markers[p] # durable[p]} :
          markers' = [p \in Plans |-> IF p \in lost THEN durable[p] ELSE markers[p]]
    /\ durable' = markers'
    /\ pc' = "down"
    /\ bound' = 0
    /\ conn' = "closed"
    /\ UNCHANGED <<clock, ttl, plan, temps, artifacts, req, attempt, source,
                   ready, wire, runs>>

\* Fault: the replay state lives in the process.
RestartForgets ==
    /\ pc = "down"
    /\ pc' = "idle"
    /\ markers' = [p \in Plans |-> 0]
    /\ durable' = markers'
    /\ KeepMode /\ Keep /\ KeepConn /\ UNCHANGED <<temps, artifacts, runs>>

Restart ==
    /\ pc = "down"
    /\ pc' = "idle"
    /\ KeepMode /\ Keep /\ KeepConn /\ UNCHANGED <<spool, runs>>

----------------------------------------------------------------------------
Broker ==
    \/ Authorize \/ AssertExecutionPlanCurrent \/ AuthorizeSpoolCapacity
    \/ PersistConsumedPlan \/ SyncMarker \/ SelectSource
    \/ AssertCurrentTarget \/ ReserveTemporary
    \/ BindTarget \/ ValidateBound \/ EnableEvents \/ ReportReady \/ PerfEnds
    \/ LinkArtifact \/ UnlinkTemporary \/ ChmodArtifact \/ Reply

Environment ==
    \/ Tick
    \/ \E i \in Pids : ReusePid(i)
    \/ \E p \in Plans, i \in Pids, t \in PlanTtls, src \in PlanSources,
         n \in PlanBytes : CreatePlan(p, i, t, src, n)
    \/ Disconnect
    \/ \E p \in Plans : PruneArchived(p) \/ RemoveUnmanaged(p)
    \/ \E t \in PolicyTtls : UpdatePolicy(t)

Failures == Crash \/ PowerLoss \/ Restart

Next ==
    \/ \E p \in Plans, rr \in {"off", "wanted"} : Accept(p, rr)
    \/ Broker
    \/ Environment
    \/ Failures

Spec == Init /\ [][Next]_vars

----------------------------------------------------------------------------
(* Properties.                                                             *)

TypeOK ==
    /\ clock \in Nat \ {0}
    /\ ttl \in PolicyTtls
    /\ start \in [Pids -> Nat]
    /\ plan \in [Plans -> PlanRecord]
    /\ markers \in [Plans -> Nat]
    /\ durable \in [Plans -> Nat]
    /\ temps \in SUBSET Plans
    /\ artifacts \in [Plans -> Evidence]
    /\ pc \in PCs
    /\ req \in Plans
    /\ attempt \in {"none", "probe", "formal"}
    /\ source \in EventSources
    /\ ready \in {"off", "wanted", "sent"}
    /\ bound \in Nat
    /\ conn \in {"open", "closed"}
    /\ wire \in Seq({"ready", "ok", "error"})
    /\ runs \in [Plans -> Nat]

\* docs/architecture.md: single-use semantics do not depend on process memory.
\* However often a plan is presented, and across crashes, power losses,
\* restarts and the reclaiming of old markers, it is executed at most once.
SingleUse == \A p \in Plans : runs[p] <= 1

\* What makes SingleUse hold: the marker of an executed plan cannot be
\* reclaimed, nor lost with the power, while the plan has not expired.
MarkerOutlivesPlan ==
    \A p \in Plans : runs[p] > 0 /\ clock < plan[p].expires => durable[p] # 0

\* perf counts only the process the plan was bound to: whenever its events are
\* enabled, they were opened on the incarnation of the PID in the plan, even
\* if the PID was reused between the broker's checks and the bind.
EnabledOnPlannedTarget ==
    pc \in {"enable", "ready", "running", "link"} =>
        bound = plan[req].start

\* The client sees at most one readiness frame, then exactly one final frame;
\* a readiness frame is never produced by the availability probe.
WireProtocol ==
    /\ wire \in {<<>>, <<"ready">>, <<"ok">>, <<"error">>,
                 <<"ready", "ok">>, <<"ready", "error">>}
    /\ attempt = "probe" => wire \in {<<>>, <<"error">>}
    /\ wire = <<"ok">> => ready = "off"

\* What the broker keeps in the spool is bounded, also across crashes: evidence
\* by the quotas of the policy (although the byte quota is not tested against an
\* empty spool), unmanaged files by one (a file a crash left makes the scan
\* refuse every later plan) and the replay state by its fixed capacity.
SpoolBounded ==
    /\ Cardinality(Published) <= MaxSpoolArtifacts
    /\ SpoolBytes <= MaxSpoolBytes
    /\ Cardinality(temps) <= 1
    /\ Cardinality({p \in Plans : markers[p] # 0}) <= MaxTracked

\* Evidence names its real event source: software events appear only where the
\* plan asks for them or the policy allows falling back, and a fallback is
\* always reported as one.
EvidenceSource ==
    \A p \in Published :
        CASE artifacts[p].source = "software" -> plan[p].source = "software_only"
          [] artifacts[p].source = "fallback" -> EffectiveFallback(p)
          [] artifacts[p].source = "hardware" -> plan[p].source # "software_only"

\* Every accepted request ends: the server becomes idle again (or its process
\* dies), because every step of the handler is bounded by a timeout.
RequestsEnd == (pc = "authorize") ~> (pc \in {"idle", "down"})

----------------------------------------------------------------------------
(* The broker implements the ledger of single-use plans.                   *)

Executing == {"select", "assert", "reserve", "bind", "validate", "enable",
              "ready", "running", "link", "unlink", "chmod"}

LedgerStatus ==
    [p \in Plans |-> IF runs[p] = 0 THEN "unused"
                     ELSE IF p = req /\ pc \in Executing THEN "executing"
                     ELSE "closed"]

Ledger == INSTANCE PlanLedger WITH status <- LedgerStatus, evidence <- Published

\* Every behaviour of the broker, crashes included, is one of the ledger: a
\* closed plan is never executed again and never gains evidence.
ImplementsLedger == Ledger!Spec

\* What the broker tells its client: the frames keep the protocol and the evidence
\* names its real source.
RepliesTruthful == WireProtocol /\ EvidenceSource
=============================================================================
