----------------------- MODULE CollectorBrokerProofs -----------------------
(***************************************************************************)
(* Theorems about CollectorBroker, for any number of plans and PIDs, any   *)
(* clock bound and any policy, and at the end one about its client, the    *)
(* workload launcher (ProjectWorkload).                                    *)
(***************************************************************************)
EXTENDS MCCollection, TLAPS

USE DEF ValidPolicy

----------------------------------------------------------------------------
(* Type correctness.                                                       *)

\* The helper actions that end an attempt keep the types of what they assign.
LEMMA AttemptFailsType ==
    ASSUME TypeOK, NEW kind, AttemptFails(kind)
    PROVE  /\ UNCHANGED <<clock, ttl, start, plan, req, markers,
                          durable, artifacts, ready, runs>>
           /\ temps' \in SUBSET Plans
           /\ pc' \in {"assert", "reply_error"}
           /\ attempt' \in {"none", "probe", "formal"}
           /\ source' \in EventSources
           /\ bound' = 0
BY DEF TypeOK, AttemptFails, ProbeDone, Keep, EventSources

LEMMA NoEvidenceType == NoEvidence \in Evidence
BY DEF NoEvidence, Evidence, EventSources

LEMMA InitType == Init => TypeOK
BY PolicyAssumption, BoundAssumption
   DEF Init, TypeOK, PlanRecord, Sources, Evidence, NoEvidence,
       EventSources, PCs

\* Every step of the specification keeps the variables in their types: the
\* state the broker keeps is always well formed.
LEMMA NextType == TypeOK /\ [Next]_vars => TypeOK'
<1> SUFFICES ASSUME TypeOK, [Next]_vars PROVE TypeOK'
    OBVIOUS
<1> USE DEF TypeOK, spool, volatile, Keep, KeepMode, KeepConn, EventSources
<1>1. CASE UNCHANGED vars
  BY <1>1 DEF vars
<1>2. ASSUME NEW p \in Plans, NEW rr \in {"off", "wanted"}, Accept(p, rr) PROVE TypeOK'
  BY <1>2 DEF Accept, PCs
<1>3. CASE Authorize
  BY <1>3 DEF Authorize, Check, PCs
<1>4. CASE AssertExecutionPlanCurrent
  BY <1>4 DEF AssertExecutionPlanCurrent, Check, PCs
<1>5. CASE AuthorizeSpoolCapacity
  BY <1>5 DEF AuthorizeSpoolCapacity, Check, PCs
<1>6. CASE PersistConsumedPlan
  <2>1. \A f \in [Plans -> Nat] : \A S : Prune(f, S) \in [Plans -> Nat]
    BY DEF Prune
  <2>2. markers' \in [Plans -> Nat] /\ durable' \in [Plans -> Nat]
    <3>1. CASE markers[req] # 0
      <4>1. PICK S : markers' = Prune(markers, S) /\ durable' = Prune(durable, S)
        BY <1>6, <3>1 DEF PersistConsumedPlan
      <4> QED BY <2>1, <4>1
    <3>2. CASE markers[req] = 0 /\ Cardinality(ActiveMarkers) >= MaxTracked
      <4>1. markers' = Prune(markers, Expired) /\ durable' = Prune(durable, Expired)
        BY <1>6, <3>2 DEF PersistConsumedPlan
      <4> QED BY <2>1, <4>1
    <3>3. CASE markers[req] = 0 /\ ~ (Cardinality(ActiveMarkers) >= MaxTracked)
      <4> DEFINE f == Prune(markers, Expired)
      <4>1. f \in [Plans -> Nat] /\ Prune(durable, Expired) \in [Plans -> Nat]
        BY <2>1
      <4>2. markers' = [f EXCEPT ![req] = clock] /\ durable' = Prune(durable, Expired)
        BY <1>6, <3>3 DEF PersistConsumedPlan
      <4> HIDE DEF f
      <4> QED BY <4>1, <4>2
    <3> QED BY <3>1, <3>2, <3>3
  <2> QED BY <1>6, <2>2 DEF PersistConsumedPlan, PCs
<1>7. CASE SyncMarker
  BY <1>7 DEF SyncMarker, PCs
<1>8. CASE SelectSource
  BY <1>8 DEF SelectSource, PCs
<1>9. CASE AssertCurrentTarget
  BY <1>9 DEF AssertCurrentTarget, Check, PCs
<1>10. CASE ReserveTemporary
  BY <1>10 DEF ReserveTemporary, PCs
<1>11. CASE BindTarget
  <2>1. start[plan[req].pid] \in Nat
    BY DEF PlanRecord
  <2>2. CASE bound' = start[plan[req].pid] /\ Proceed("validate")
    BY <1>11, <2>1, <2>2 DEF BindTarget, Proceed, PCs
  <2>3. ASSUME NEW kind, AttemptFails(kind) PROVE TypeOK'
    BY <1>11, <2>3, AttemptFailsType DEF BindTarget, PCs
  <2> QED BY <1>11, <2>2, <2>3 DEF BindTarget
<1>12. CASE ValidateBound
  BY <1>12, AttemptFailsType DEF ValidateBound, Proceed, PCs
<1>13. CASE EnableEvents
  BY <1>13, AttemptFailsType DEF EnableEvents, Proceed, PCs
<1>14. CASE ReportReady
  <2>1. CASE attempt = "formal" /\ ready = "wanted" /\ conn = "open"
    <3>1. wire' = Append(wire, "ready")
      BY <1>14, <2>1 DEF ReportReady
    <3>2. wire' \in Seq({"ready", "ok", "error"})
      BY <3>1
    <3> QED BY <1>14, <2>1, <3>2 DEF ReportReady, PCs
  <2>2. CASE attempt = "formal" /\ ready = "wanted" /\ conn # "open"
    <3>1. AttemptFails("other") /\ UNCHANGED <<conn, wire>>
      BY <1>14, <2>2 DEF ReportReady
    <3> QED BY <3>1, AttemptFailsType DEF PCs
  <2>3. CASE ~ (attempt = "formal" /\ ready = "wanted")
    BY <1>14, <2>3 DEF ReportReady, Proceed, PCs
  <2> QED BY <2>1, <2>2, <2>3
<1>15. CASE PerfEnds
  BY <1>15, AttemptFailsType DEF PerfEnds, Proceed, ProbeDone, PCs
<1>16. CASE LinkArtifact
  <2>1. CASE req \in Published
    <3>1. AttemptFails("other") /\ UNCHANGED <<conn, wire>>
      BY <1>16, <2>1 DEF LinkArtifact, OutputExists
    <3> QED BY <3>1, AttemptFailsType DEF PCs
  <2>2. CASE req \notin Published
    <3>1. PICK n \in 1..plan[req].bytes :
             artifacts' = [artifacts EXCEPT ![req] = [bytes |-> n, source |-> source]]
      BY <1>16, <2>2 DEF LinkArtifact, OutputExists
    <3>2. plan[req].bytes \in Nat
      BY DEF PlanRecord
    <3>3. [bytes |-> n, source |-> source] \in Evidence
      BY <3>2 DEF Evidence
    <3>4. artifacts' \in [Plans -> Evidence]
      BY <3>1, <3>3
    <3> QED BY <1>16, <2>2, <3>4 DEF LinkArtifact, OutputExists, PCs
  <2> QED BY <2>1, <2>2
<1>17. CASE UnlinkTemporary
  BY <1>17, AttemptFailsType DEF UnlinkTemporary, PCs
<1>18. CASE ChmodArtifact
  BY <1>18, NoEvidenceType DEF ChmodArtifact, PCs
<1>19. CASE Reply
  BY <1>19 DEF Reply, PCs
<1>20. CASE Tick
  BY <1>20 DEF Tick
<1>21. ASSUME NEW i \in Pids, ReusePid(i) PROVE TypeOK'
  BY <1>21 DEF ReusePid
<1>22. ASSUME NEW p \in Plans, NEW i \in Pids, NEW t \in PlanTtls,
              NEW src \in PlanSources, NEW n \in PlanBytes,
              CreatePlan(p, i, t, src, n)
       PROVE  TypeOK'
  <2>1. [pid |-> i, start |-> start[i], expires |-> clock + t,
         source |-> src, bytes |-> n] \in PlanRecord
    BY PolicyAssumption DEF PlanRecord, Sources
  <2> QED BY <1>22, <2>1 DEF CreatePlan
<1>23. CASE Disconnect
  BY <1>23 DEF Disconnect
<1>24. ASSUME NEW p \in Plans, PruneArchived(p) \/ RemoveUnmanaged(p)
       PROVE  TypeOK'
  BY <1>24, NoEvidenceType DEF PruneArchived, RemoveUnmanaged
<1>25. ASSUME NEW t \in PolicyTtls, UpdatePolicy(t) PROVE TypeOK'
  BY <1>25 DEF UpdatePolicy
<1>26. CASE Crash
  BY <1>26 DEF Crash, PCs
<1>27. CASE PowerLoss
  BY <1>27 DEF PowerLoss, PCs
<1>28. CASE Restart
  BY <1>28 DEF Restart, PCs
<1> QED
  BY <1>1, <1>2, <1>3, <1>4, <1>5, <1>6, <1>7, <1>8, <1>9, <1>10, <1>11,
     <1>12, <1>13, <1>14, <1>15, <1>16, <1>17, <1>18, <1>19, <1>20, <1>21,
     <1>22, <1>23, <1>24, <1>25, <1>26, <1>27, <1>28
     DEF Next, Broker, Environment, Failures

\* The broker's state, volatile and persistent, always has its declared type.
THEOREM TypeCorrect == Spec => []TypeOK
BY InitType, NextType, PTL DEF Spec

----------------------------------------------------------------------------
(* Single use.  SingleUse is not inductive: it needs to know that the      *)
(* marker of an executed plan is older than nothing the plan's lifetime    *)
(* allows, and what the handler of the current request has already tested. *)

Handling == PCs \ {"idle", "down"}

\* The plan under the handler was issued, so no client can still change it.
RequestIssued == pc \in Handling => plan[req].expires # 0

\* An executed plan has a durable marker until it expires, and pruning under
\* the running policy cannot reach that marker before.
Spent(p) ==
    /\ plan[p].expires # 0
    /\ clock < plan[p].expires =>
          /\ markers[p] # 0
          /\ durable[p] = markers[p]
          /\ plan[p].expires <= markers[p] + ttl

ReplayInv ==
    /\ \A p \in Plans : runs[p] <= 1
    /\ \A p \in Plans : runs[p] > 0 => Spent(p)
    /\ pc \in {"current", "capacity", "consume"} =>
          plan[req].expires <= clock + ttl
    /\ pc \in {"capacity", "consume"} /\ markers[req] = 0 => runs[req] = 0
    /\ pc = "sync" => /\ runs[req] = 0
                      /\ markers[req] # 0
                      /\ plan[req].expires <= markers[req] + ttl

\* What the steps that neither touch the replay state nor enter its protocol
\* have in common.
Quiet ==
    /\ UNCHANGED <<clock, ttl, plan, markers, durable, req, runs>>
    /\ pc' = pc \/ pc' \notin {"current", "capacity", "consume", "sync"}
    /\ pc' \in Handling => pc \in Handling

LEMMA QuietReplay ==
    ASSUME TypeOK, RequestIssued, ReplayInv, Quiet
    PROVE  RequestIssued' /\ ReplayInv'
BY DEF TypeOK, RequestIssued, ReplayInv, Quiet, Spent

\* Which steps are quiet.
LEMMA QuietSteps ==
    ASSUME TypeOK,
           \/ UNCHANGED vars
           \/ SelectSource \/ AssertCurrentTarget \/ ReserveTemporary
           \/ BindTarget \/ ValidateBound \/ EnableEvents \/ ReportReady
           \/ PerfEnds \/ LinkArtifact \/ UnlinkTemporary \/ ChmodArtifact
           \/ Reply \/ Disconnect \/ Crash \/ Restart
           \/ \E i \in Pids : ReusePid(i)
           \/ \E p \in Plans : PruneArchived(p) \/ RemoveUnmanaged(p)
    PROVE  Quiet
<1> USE DEF Quiet, Handling, PCs, Keep, KeepMode, spool, volatile
<1>1. CASE UNCHANGED vars \/ Disconnect \/ Crash \/ Restart \/ Reply
  BY <1>1 DEF vars, Disconnect, Crash, Restart, Reply
<1>2. CASE SelectSource \/ AssertCurrentTarget \/ ReserveTemporary \/ ChmodArtifact
  BY <1>2 DEF SelectSource, AssertCurrentTarget, Check, ReserveTemporary,
              ChmodArtifact
<1>3. ASSUME NEW kind, AttemptFails(kind), pc \in Handling PROVE Quiet
  BY <1>3, AttemptFailsType DEF Quiet
<1>4. CASE BindTarget \/ ValidateBound \/ EnableEvents
  <2>1. pc \in Handling BY <1>4 DEF BindTarget, ValidateBound, EnableEvents
  <2>2. CASE \E k : AttemptFails(k)
    BY <1>3, <2>1, <2>2
  <2>3. CASE Proceed("validate") \/ Proceed("enable") \/ Proceed("ready")
    BY <2>1, <2>3 DEF Proceed
  <2> QED BY <1>4, <2>2, <2>3 DEF BindTarget, ValidateBound, EnableEvents
<1>5. CASE ReportReady
  <2>1. pc \in Handling BY <1>5 DEF ReportReady
  <2>2. CASE AttemptFails("other")
    BY <1>3, <2>1, <2>2
  <2>3. CASE ~ AttemptFails("other")
    BY <1>5, <2>1, <2>3 DEF ReportReady, Proceed
  <2> QED BY <2>2, <2>3
<1>6. CASE PerfEnds
  <2>1. pc \in Handling BY <1>6 DEF PerfEnds
  <2>2. CASE \E k : AttemptFails(k)
    BY <1>3, <2>1, <2>2
  <2>3. CASE ~ \E k : AttemptFails(k)
    BY <1>6, <2>1, <2>3 DEF PerfEnds, Proceed, ProbeDone
  <2> QED BY <2>2, <2>3
<1>7. CASE LinkArtifact \/ UnlinkTemporary
  <2>1. pc \in Handling BY <1>7 DEF LinkArtifact, OutputExists, UnlinkTemporary
  <2>2. CASE \E k : AttemptFails(k)
    BY <1>3, <2>1, <2>2
  <2>3. CASE ~ \E k : AttemptFails(k)
    BY <1>7, <2>1, <2>3 DEF LinkArtifact, OutputExists, UnlinkTemporary
  <2> QED BY <2>2, <2>3
<1>8. ASSUME NEW i \in Pids, ReusePid(i) PROVE Quiet
  BY <1>8 DEF ReusePid
<1>9. ASSUME NEW p \in Plans, PruneArchived(p) \/ RemoveUnmanaged(p) PROVE Quiet
  BY <1>9 DEF PruneArchived, RemoveUnmanaged
<1> QED BY <1>1, <1>2, <1>4, <1>5, <1>6, <1>7, <1>8, <1>9

LEMMA InitReplay == Init => RequestIssued /\ ReplayInv
BY DEF Init, RequestIssued, ReplayInv, Handling, PCs

\* A marker younger than the policy TTL is not pruned.
LEMMA PruneKeeps ==
    ASSUME TypeOK, NEW S \in SUBSET Expired, NEW p \in Plans,
           markers[p] # 0, clock < markers[p] + ttl
    PROVE  Prune(markers, S)[p] = markers[p] /\ Prune(durable, S)[p] = durable[p]
BY PolicyAssumption DEF TypeOK, Expired, Prune

LEMMA NextReplay ==
    ASSUME TtlMayShrink = FALSE, TypeOK, RequestIssued, ReplayInv, [Next]_vars
    PROVE  RequestIssued' /\ ReplayInv'
<1>0. TypeOK' BY NextType
<1>T. ttl \in Nat /\ ttl' \in Nat
  BY <1>0, PolicyAssumption DEF TypeOK
<1> USE DEF Keep, KeepMode, KeepConn, spool, volatile
<1>1. ASSUME NEW p \in Plans, NEW rr, Accept(p, rr)
      PROVE  RequestIssued' /\ ReplayInv'
  BY <1>1 DEF Accept, RequestIssued, ReplayInv, Spent, NotIssued
<1>2. CASE Authorize
  BY <1>2 DEF Authorize, Check, Authorized, RequestIssued, ReplayInv, Spent,
              Handling, PCs
<1>3. CASE AssertExecutionPlanCurrent
  BY <1>3 DEF AssertExecutionPlanCurrent, Check, PlanCurrent, RequestIssued,
              ReplayInv, Spent, Handling, PCs, TypeOK
<1>4. CASE AuthorizeSpoolCapacity
  BY <1>4 DEF AuthorizeSpoolCapacity, Check, RequestIssued, ReplayInv, Spent,
              Handling, PCs
<1>5. CASE PersistConsumedPlan
  <2>0. RequestIssued'
    BY <1>5 DEF PersistConsumedPlan, RequestIssued, Handling, PCs
  <2>1. ASSUME NEW S \in SUBSET Expired, NEW p \in Plans, p # req \/ markers[req] # 0,
               runs[p] > 0,
               markers' = Prune(markers, S) \/ markers' = [Prune(markers, S) EXCEPT ![req] = clock],
               markers' = Prune(markers, S) \/ p # req,
               durable' = Prune(durable, S), UNCHANGED <<clock, ttl, plan>>
        PROVE  Spent(p)'
    <3>1. Spent(p) BY <2>1 DEF ReplayInv
    <3>2. plan[p].expires \in Nat /\ clock \in Nat /\ markers[p] \in Nat
      BY DEF TypeOK, PlanRecord
    <3>3. CASE clock < plan[p].expires
      <4>1. markers[p] # 0 /\ clock < markers[p] + ttl /\ durable[p] = markers[p]
        BY <1>T, <3>1, <3>2, <3>3 DEF Spent
      <4>2. Prune(markers, S)[p] = markers[p] /\ Prune(durable, S)[p] = durable[p]
        BY <2>1, <4>1, PruneKeeps
      <4>3. markers'[p] = markers[p] /\ durable'[p] = durable[p]
        BY <2>1, <4>2 DEF Prune
      <4> QED BY <2>1, <3>1, <4>1, <4>3 DEF Spent
    <3>4. CASE ~ (clock < plan[p].expires)
      BY <2>1, <3>1, <3>4 DEF Spent
    <3> QED BY <3>3, <3>4
  <2>2. CASE markers[req] # 0
    <3>1. PICK S \in SUBSET (Expired \ {req}) :
             markers' = Prune(markers, S) /\ durable' = Prune(durable, S)
      BY <1>5, <2>2 DEF PersistConsumedPlan
    <3>2. \A p \in Plans : runs[p] > 0 => Spent(p)'
      BY <1>5, <2>1, <2>2, <3>1 DEF PersistConsumedPlan
    <3> QED BY <1>5, <2>0, <2>2, <3>2 DEF PersistConsumedPlan, ReplayInv
  <2>3. CASE markers[req] = 0
    <3>1. runs[req] = 0
      BY <1>5, <2>3 DEF PersistConsumedPlan, ReplayInv
    <3>2. /\ durable' = Prune(durable, Expired)
          /\ \/ markers' = Prune(markers, Expired) /\ pc' = "reply_error"
             \/ markers' = [Prune(markers, Expired) EXCEPT ![req] = clock] /\ pc' = "sync"
          /\ UNCHANGED <<clock, ttl, plan, req, runs>>
      BY <1>5, <2>3 DEF PersistConsumedPlan
    <3>3. \A p \in Plans : runs[p] > 0 => Spent(p)'
      <4> SUFFICES ASSUME NEW p \in Plans, runs[p] > 0 PROVE Spent(p)'
        OBVIOUS
      <4>1. p # req BY <3>1
      <4> QED BY <2>1, <3>2, <4>1
    <3>4. pc' = "sync" => markers'[req] = clock
      BY <3>2 DEF Prune, TypeOK
    <3>5. plan[req].expires <= clock + ttl /\ clock # 0
      BY <1>5 DEF PersistConsumedPlan, ReplayInv, TypeOK
    <3> QED BY <2>0, <3>1, <3>2, <3>3, <3>4, <3>5 DEF ReplayInv
  <2> QED BY <2>2, <2>3
<1>6. CASE SyncMarker
  <2>1. RequestIssued'
    BY <1>6 DEF SyncMarker, RequestIssued, Handling, PCs
  <2>2. CASE pc' = "reply_error"
    BY <1>6, <2>1, <2>2 DEF SyncMarker, ReplayInv, Spent
  <2>3. CASE pc' = "select"
    <3>1. /\ durable' = markers /\ markers' = markers
          /\ runs' = [runs EXCEPT ![req] = @ + 1]
          /\ UNCHANGED <<clock, ttl, plan, req>>
      BY <1>6, <2>3 DEF SyncMarker
    <3>2. /\ pc = "sync" /\ runs[req] = 0 /\ markers[req] # 0
          /\ plan[req].expires <= markers[req] + ttl /\ plan[req].expires # 0
      BY <1>6 DEF SyncMarker, ReplayInv, RequestIssued, Handling, PCs
    <3>3. ASSUME NEW p \in Plans PROVE runs'[p] <= 1 /\ (runs'[p] > 0 => Spent(p)')
      <4>1. CASE p = req
        BY <3>1, <3>2, <4>1 DEF Spent, TypeOK
      <4>2. CASE p # req
        BY <3>1, <4>2 DEF Spent, TypeOK, ReplayInv
      <4> QED BY <4>1, <4>2
    <3> QED BY <2>1, <2>3, <3>3 DEF ReplayInv
  <2> QED BY <1>6, <2>2, <2>3 DEF SyncMarker
<1>7. CASE Tick
  <2>1. clock' = clock + 1 /\ clock \in Nat
        /\ UNCHANGED <<ttl, plan, markers, durable, pc, req, runs>>
    BY <1>7 DEF Tick, TypeOK
  <2>2. \A p \in Plans : plan[p].expires \in Nat
    BY DEF TypeOK, PlanRecord
  <2>3. \A p \in Plans : Spent(p) => Spent(p)'
    BY <2>1, <2>2 DEF Spent
  <2>4. plan[req].expires <= clock + ttl => plan[req].expires <= clock + 1 + ttl
    BY <1>T, <2>1, <2>2 DEF TypeOK
  <2> QED BY <2>1, <2>3, <2>4 DEF RequestIssued, ReplayInv
<1>8. ASSUME NEW p \in Plans, NEW i \in Pids, NEW t \in PlanTtls,
             NEW src \in PlanSources, NEW n \in PlanBytes,
             CreatePlan(p, i, t, src, n)
      PROVE  RequestIssued' /\ ReplayInv'
  <2>1. runs[p] = 0 /\ (pc \in Handling => p # req)
    BY <1>8 DEF CreatePlan, NotIssued, ReplayInv, Spent, RequestIssued, TypeOK
  <2>2. \A q \in Plans : q # p => plan'[q] = plan[q]
    BY <1>8 DEF CreatePlan, TypeOK
  <2>3. UNCHANGED <<clock, ttl, markers, durable, pc, req, runs>>
    BY <1>8 DEF CreatePlan
  <2>4. \A q \in Plans : runs[q] > 0 => Spent(q)'
    BY <2>1, <2>2, <2>3 DEF ReplayInv, Spent
  <2>5. pc \in Handling => plan'[req] = plan[req]
    BY <2>1, <2>2 DEF TypeOK
  <2> QED BY <2>3, <2>4, <2>5 DEF RequestIssued, ReplayInv, Handling, PCs
<1>9. ASSUME NEW t \in PolicyTtls, UpdatePolicy(t)
      PROVE  RequestIssued' /\ ReplayInv'
  <2>1. t > ttl /\ ttl' = t /\ t \in Nat
    BY <1>9, PolicyAssumption DEF UpdatePolicy
  <2>2. pc \in {"idle", "down"}
        /\ UNCHANGED <<clock, plan, markers, durable, pc, req, runs>>
    BY <1>9 DEF UpdatePolicy
  <2>3. \A p \in Plans : plan[p].expires \in Nat /\ markers[p] \in Nat
    BY DEF TypeOK, PlanRecord
  <2>4. \A p \in Plans : Spent(p) => Spent(p)'
    BY <1>T, <2>1, <2>2, <2>3 DEF Spent
  <2> QED BY <2>2, <2>4 DEF RequestIssued, ReplayInv
<1>10. CASE PowerLoss
  <2>1. \A p \in Plans : markers'[p] \in {markers[p], durable[p]} /\ durable'[p] = markers'[p]
    BY <1>10 DEF PowerLoss
  <2> QED BY <1>10, <2>1 DEF PowerLoss, RequestIssued, ReplayInv, Spent,
                              Handling, PCs
<1> QED
  BY <1>1, <1>2, <1>3, <1>4, <1>5, <1>6, <1>7, <1>8, <1>9, <1>10, QuietSteps,
     QuietReplay DEF Next, Broker, Environment, Failures

\* However often and whenever a plan is presented, across any number of
\* crashes, power losses and restarts, it is executed at most once, provided
\* no policy update lowers max_plan_ttl_seconds.
THEOREM SingleUseHolds ==
    ASSUME TtlMayShrink = FALSE
    PROVE  Spec => []SingleUse
<1>1. Init => TypeOK /\ RequestIssued /\ ReplayInv
  BY InitType, InitReplay
<1>2. TypeOK /\ RequestIssued /\ ReplayInv /\ [Next]_vars
        => (TypeOK /\ RequestIssued /\ ReplayInv)'
  BY NextType, NextReplay
<1>3. ReplayInv => SingleUse
  BY DEF ReplayInv, SingleUse
<1> QED BY <1>1, <1>2, <1>3, PTL DEF Spec

\* The durable marker of an executed plan outlives the plan.
THEOREM MarkerOutlives ==
    ASSUME TtlMayShrink = FALSE
    PROVE  Spec => []MarkerOutlivesPlan
<1>1. Init => TypeOK /\ RequestIssued /\ ReplayInv
  BY InitType, InitReplay
<1>2. TypeOK /\ RequestIssued /\ ReplayInv /\ [Next]_vars
        => (TypeOK /\ RequestIssued /\ ReplayInv)'
  BY NextType, NextReplay
<1>3. ReplayInv => MarkerOutlivesPlan
  BY DEF ReplayInv, MarkerOutlivesPlan, Spent
<1> QED BY <1>1, <1>2, <1>3, PTL DEF Spec

----------------------------------------------------------------------------
(* The bound target.  PIDs only move on to younger processes, so a plan    *)
(* that is still current after the bind was current at the bind.           *)

TargetInv ==
    /\ \A p \in Plans : plan[p].start <= start[plan[p].pid]
    /\ pc = "validate" => /\ plan[req].start <= bound
                          /\ bound <= start[plan[req].pid]
    /\ pc \in {"enable", "ready", "running", "link"} => bound = plan[req].start

Attached == {"validate", "enable", "ready", "running", "link"}

\* Steps after which perf is not attached, or that leave it as it was.
Aloof ==
    /\ UNCHANGED <<start, plan>>
    /\ pc' \notin Attached \/ UNCHANGED <<pc, req, bound>>

LEMMA AloofTarget ==
    ASSUME TargetInv, Aloof
    PROVE  TargetInv'
BY DEF TargetInv, Aloof, Attached

LEMMA AloofSteps ==
    ASSUME TypeOK,
           \/ UNCHANGED vars
           \/ \E p \in Plans, rr \in {"off", "wanted"} : Accept(p, rr)
           \/ Authorize \/ AssertExecutionPlanCurrent \/ AuthorizeSpoolCapacity
           \/ PersistConsumedPlan \/ SyncMarker \/ SelectSource
           \/ AssertCurrentTarget \/ ReserveTemporary \/ UnlinkTemporary
           \/ ChmodArtifact \/ Reply \/ Tick \/ Disconnect \/ Crash \/ Restart
           \/ \E p \in Plans : PruneArchived(p) \/ RemoveUnmanaged(p)
           \/ \E t \in PolicyTtls : UpdatePolicy(t)
    PROVE  Aloof
<1> USE DEF Aloof, Attached, Keep, KeepMode, volatile
<1>1. CASE UNCHANGED vars \/ Reply \/ Tick \/ Disconnect \/ Crash \/ Restart
  BY <1>1 DEF vars, Reply, Tick, Disconnect, Crash, Restart
<1>2. ASSUME NEW p \in Plans, NEW rr, Accept(p, rr) PROVE Aloof
  BY <1>2 DEF Accept
<1>3. CASE Authorize \/ AssertExecutionPlanCurrent \/ AuthorizeSpoolCapacity
           \/ AssertCurrentTarget
  BY <1>3 DEF Authorize, AssertExecutionPlanCurrent, AuthorizeSpoolCapacity,
              AssertCurrentTarget, Check
<1>4. CASE PersistConsumedPlan \/ SyncMarker
  BY <1>4 DEF PersistConsumedPlan, SyncMarker
<1>5. CASE SelectSource \/ ReserveTemporary \/ ChmodArtifact
  BY <1>5 DEF SelectSource, ReserveTemporary, ChmodArtifact
<1>6. CASE UnlinkTemporary
  BY <1>6, AttemptFailsType DEF UnlinkTemporary
<1>7. ASSUME NEW p \in Plans, PruneArchived(p) \/ RemoveUnmanaged(p) PROVE Aloof
  BY <1>7 DEF PruneArchived, RemoveUnmanaged
<1>8. ASSUME NEW t \in PolicyTtls, UpdatePolicy(t) PROVE Aloof
  BY <1>8 DEF UpdatePolicy
<1> QED BY <1>1, <1>2, <1>3, <1>4, <1>5, <1>6, <1>7, <1>8

LEMMA FailedAttemptAloof ==
    ASSUME TypeOK, NEW kind, AttemptFails(kind)
    PROVE  Aloof
BY AttemptFailsType DEF Aloof, Attached

LEMMA NextTarget ==
    ASSUME TypeOK, RequestIssued, TargetInv, [Next]_vars
    PROVE  TargetInv'
<1>0. /\ \A p \in Plans : plan[p].start \in Nat /\ plan[p].pid \in Pids
      /\ start \in [Pids -> Nat] /\ req \in Plans /\ bound \in Nat
  BY DEF TypeOK, PlanRecord
<1> USE DEF Keep, KeepConn
<1>1. CASE BindTarget
  <2>1. CASE \E k : AttemptFails(k)
    BY <2>1, FailedAttemptAloof, AloofTarget
  <2>2. CASE bound' = start[plan[req].pid] /\ Proceed("validate")
    BY <1>0, <2>2 DEF Proceed, TargetInv
  <2> QED BY <1>1, <2>1, <2>2 DEF BindTarget
<1>2. CASE ValidateBound
  <2>1. CASE \E k : AttemptFails(k)
    BY <2>1, FailedAttemptAloof, AloofTarget
  <2>2. CASE PlanCurrent(req) /\ UNCHANGED bound /\ Proceed("enable")
    <3>1. plan[req].start <= bound /\ bound <= plan[req].start
      BY <1>2, <2>2 DEF ValidateBound, TargetInv, PlanCurrent
    <3>2. bound = plan[req].start
      BY <1>0, <3>1
    <3> QED BY <2>2, <3>2 DEF Proceed, TargetInv
  <2> QED BY <1>2, <2>1, <2>2 DEF ValidateBound
<1>3. CASE EnableEvents
  <2>1. CASE \E k : AttemptFails(k)
    BY <2>1, FailedAttemptAloof, AloofTarget
  <2>2. CASE UNCHANGED bound /\ Proceed("ready")
    BY <1>3, <2>2 DEF EnableEvents, Proceed, TargetInv
  <2> QED BY <1>3, <2>1, <2>2 DEF EnableEvents
<1>4. CASE ReportReady
  <2>1. CASE \E k : AttemptFails(k)
    BY <2>1, FailedAttemptAloof, AloofTarget
  <2>2. CASE ~ \E k : AttemptFails(k)
    BY <1>4, <2>2 DEF ReportReady, Proceed, TargetInv
  <2> QED BY <2>1, <2>2
<1>5. CASE PerfEnds
  <2>1. CASE \E k : AttemptFails(k)
    BY <2>1, FailedAttemptAloof, AloofTarget
  <2>2. CASE ~ \E k : AttemptFails(k)
    BY <1>5, <2>2 DEF PerfEnds, Proceed, ProbeDone, TargetInv
  <2> QED BY <2>1, <2>2
<1>6. CASE LinkArtifact
  <2>1. CASE \E k : AttemptFails(k)
    BY <2>1, FailedAttemptAloof, AloofTarget
  <2>2. CASE ~ \E k : AttemptFails(k)
    BY <1>6, <2>2 DEF LinkArtifact, OutputExists, KeepMode, TargetInv
  <2> QED BY <2>1, <2>2
<1>7. ASSUME NEW i \in Pids, ReusePid(i) PROVE TargetInv'
  <2>1. /\ UNCHANGED <<plan, pc, req, bound>>
        /\ start' = [start EXCEPT ![i] = @ + 1]
    BY <1>7 DEF ReusePid, volatile
  <2>2. \A j \in Pids : start[j] <= start'[j] /\ start'[j] \in Nat
    BY <1>0, <2>1
  <2>3. \A p \in Plans : plan[p].start <= start'[plan[p].pid]
    BY <1>0, <2>2 DEF TargetInv
  <2>4. pc = "validate" => bound <= start'[plan[req].pid]
    BY <1>0, <2>2 DEF TargetInv
  <2> QED BY <2>1, <2>3, <2>4 DEF TargetInv
<1>8. ASSUME NEW p \in Plans, NEW i \in Pids, NEW t \in PlanTtls,
             NEW src \in PlanSources, NEW n \in PlanBytes,
             CreatePlan(p, i, t, src, n)
      PROVE  TargetInv'
  <2>1. pc \in Handling => p # req
    BY <1>8 DEF CreatePlan, NotIssued, RequestIssued
  <2>2. /\ \A q \in Plans : q # p => plan'[q] = plan[q]
        /\ plan'[p].start = start[i] /\ plan'[p].pid = i
        /\ UNCHANGED <<start, pc, req, bound>>
    BY <1>8 DEF CreatePlan, TypeOK, volatile
  <2>3. \A q \in Plans : plan'[q].start <= start[plan'[q].pid]
    BY <1>0, <2>2 DEF TargetInv
  <2> QED BY <1>0, <2>1, <2>2, <2>3 DEF TargetInv, Handling, PCs
<1>9. CASE PowerLoss
  <2>1. /\ UNCHANGED plan /\ pc' = "down"
        /\ \A j \in Pids : start'[j] = start[j] + 1
    BY <1>9 DEF PowerLoss
  <2> QED BY <1>0, <2>1 DEF TargetInv
<1> QED
  BY <1>1, <1>2, <1>3, <1>4, <1>5, <1>6, <1>7, <1>8, <1>9, AloofSteps,
     AloofTarget DEF Next, Broker, Environment, Failures

LEMMA NextIssued ==
    ASSUME TypeOK, RequestIssued, [Next]_vars
    PROVE  RequestIssued'
<1> USE DEF RequestIssued, Handling, PCs, Keep, KeepMode, volatile
<1>1. ASSUME Quiet PROVE RequestIssued'
  BY <1>1 DEF Quiet
<1>2. ASSUME NEW p \in Plans, NEW rr, Accept(p, rr) PROVE RequestIssued'
  BY <1>2 DEF Accept, NotIssued
<1>3. CASE Authorize \/ AssertExecutionPlanCurrent \/ AuthorizeSpoolCapacity
           \/ PersistConsumedPlan \/ SyncMarker
  BY <1>3 DEF Authorize, AssertExecutionPlanCurrent, AuthorizeSpoolCapacity,
              Check, PersistConsumedPlan, SyncMarker
<1>4. CASE Tick \/ PowerLoss \/ \E t \in PolicyTtls : UpdatePolicy(t)
  BY <1>4 DEF Tick, PowerLoss, UpdatePolicy
<1>5. ASSUME NEW p \in Plans, NEW i \in Pids, NEW t \in PlanTtls,
             NEW src \in PlanSources, NEW n \in PlanBytes,
             CreatePlan(p, i, t, src, n)
      PROVE  RequestIssued'
  <2>1. \A q \in Plans : plan[q].expires # 0 => plan'[q] = plan[q]
    BY <1>5 DEF CreatePlan, NotIssued, TypeOK
  <2> QED BY <1>5, <2>1 DEF CreatePlan, TypeOK
<1> QED
  BY <1>1, <1>2, <1>3, <1>4, <1>5, QuietSteps DEF Next, Broker, Environment,
     Failures

\* perf is enabled only on the process the plan was bound to, for every
\* interleaving of PID reuse with the broker's checks.
THEOREM PlannedTargetOnly == Spec => []EnabledOnPlannedTarget
<1>1. Init => TypeOK /\ RequestIssued /\ TargetInv
  BY InitType, InitReplay, BoundAssumption DEF Init, TargetInv
<1>2. TypeOK /\ RequestIssued /\ TargetInv /\ [Next]_vars
        => (TypeOK /\ RequestIssued /\ TargetInv)'
  BY NextType, NextIssued, NextTarget
<1>3. TargetInv => EnabledOnPlannedTarget
  BY DEF TargetInv, EnabledOnPlannedTarget
<1> QED BY <1>1, <1>2, <1>3, PTL DEF Spec

----------------------------------------------------------------------------
(* The broker implements the ledger of single-use plans.                   *)

\* Whatever is executing has been counted.
ExecInv == pc \in Executing => runs[req] > 0

\* A step that neither begins nor ends an execution, nor touches evidence.
LedgerQuiet ==
    /\ UNCHANGED <<runs, artifacts>>
    /\ pc \in Executing <=> pc' \in Executing
    /\ pc \in Executing => req' = req

\* A step that leaves the execution of the current plan.
LedgerClosing ==
    /\ pc \in Executing /\ pc' \notin Executing
    /\ UNCHANGED runs
    /\ \/ UNCHANGED artifacts
       \/ artifacts' = [artifacts EXCEPT ![req] = NoEvidence]

LEMMA LedgerStutters ==
    ASSUME TypeOK, LedgerQuiet, ExecInv
    PROVE  UNCHANGED <<LedgerStatus, Published>> /\ ExecInv'
BY DEF LedgerQuiet, LedgerStatus, Published, ExecInv

LEMMA LedgerCloses ==
    ASSUME TypeOK, ExecInv, LedgerClosing
    PROVE  Ledger!Close(req) /\ ExecInv'
<1> USE DEF LedgerClosing
<1>1. LedgerStatus[req] = "executing"
  BY DEF LedgerStatus, ExecInv, TypeOK
<1>2. LedgerStatus' = [LedgerStatus EXCEPT ![req] = "closed"]
  <2>1. \A q \in Plans : LedgerStatus'[q] = IF q = req THEN "closed" ELSE LedgerStatus[q]
    BY DEF LedgerStatus, ExecInv, TypeOK
  <2>2. LedgerStatus = [q \in Plans |-> LedgerStatus[q]]
    BY DEF LedgerStatus
  <2>3. LedgerStatus' = [q \in Plans |-> LedgerStatus'[q]]
    BY DEF LedgerStatus
  <2> QED BY <2>1, <2>2, <2>3
<1>3. Published' \in {Published, Published \ {req}}
  BY DEF Published, TypeOK
<1>4. ExecInv'
  BY DEF ExecInv
<1> QED BY <1>1, <1>2, <1>3, <1>4 DEF Ledger!Close

LEMMA FailedAttemptLedger ==
    ASSUME TypeOK, pc \in Executing, NEW kind, AttemptFails(kind)
    PROVE  LedgerQuiet \/ LedgerClosing
<1>1. /\ UNCHANGED <<runs, artifacts, req>>
      /\ pc' \in {"assert", "reply_error"}
  BY AttemptFailsType
<1> QED BY <1>1 DEF LedgerQuiet, LedgerClosing, Executing

\* All steps but three are of one of these two kinds.
LEMMA LedgerSteps ==
    ASSUME TypeOK, [Next]_vars, ~ SyncMarker, ~ LinkArtifact,
           ~ \E p \in Plans : PruneArchived(p)
    PROVE  LedgerQuiet \/ LedgerClosing
<1> USE DEF Keep, KeepMode, spool, volatile
<1>1. CASE UNCHANGED vars
  BY <1>1 DEF vars, LedgerQuiet
<1>2. ASSUME NEW p \in Plans, NEW rr, Accept(p, rr) PROVE LedgerQuiet
  BY <1>2 DEF Accept, Executing, LedgerQuiet
<1>3. CASE Authorize \/ AssertExecutionPlanCurrent \/ AuthorizeSpoolCapacity
           \/ PersistConsumedPlan
  BY <1>3 DEF Authorize, AssertExecutionPlanCurrent, AuthorizeSpoolCapacity,
              Check, PersistConsumedPlan, Executing, LedgerQuiet
<1>4. CASE SelectSource \/ AssertCurrentTarget \/ ReserveTemporary
           \/ ChmodArtifact
  BY <1>4 DEF SelectSource, AssertCurrentTarget, Check, ReserveTemporary,
              ChmodArtifact, Executing, LedgerQuiet, LedgerClosing
<1>5. CASE BindTarget \/ ValidateBound \/ EnableEvents \/ ReportReady
           \/ PerfEnds \/ UnlinkTemporary
  <2>1. pc \in Executing
    BY <1>5 DEF BindTarget, ValidateBound, EnableEvents, ReportReady, PerfEnds,
                UnlinkTemporary, Executing
  <2>2. CASE \E k : AttemptFails(k)
    BY <2>1, <2>2, FailedAttemptLedger
  <2>3. CASE ~ \E k : AttemptFails(k)
    <3>1. UNCHANGED <<runs, artifacts, req>> /\ pc' \in Executing
      BY <1>5, <2>3 DEF BindTarget, ValidateBound, EnableEvents, ReportReady,
                PerfEnds, UnlinkTemporary, Proceed, ProbeDone, Executing
    <3> QED BY <2>1, <3>1 DEF LedgerQuiet
  <2> QED BY <2>2, <2>3
<1>6. CASE Reply \/ Tick \/ Disconnect \/ Restart
  BY <1>6 DEF Reply, Tick, Disconnect, Restart, Executing, LedgerQuiet
<1>7. CASE Crash \/ PowerLoss
  BY <1>7 DEF Crash, PowerLoss, Executing, LedgerQuiet, LedgerClosing
<1>8. ASSUME NEW i \in Pids, ReusePid(i) PROVE LedgerQuiet
  BY <1>8 DEF ReusePid, LedgerQuiet
<1>9. ASSUME NEW p, NEW i, NEW t, NEW src, NEW n, CreatePlan(p, i, t, src, n)
      PROVE  LedgerQuiet
  BY <1>9 DEF CreatePlan, LedgerQuiet
<1>10. ASSUME NEW p \in Plans, RemoveUnmanaged(p) PROVE LedgerQuiet
  BY <1>10 DEF RemoveUnmanaged, LedgerQuiet
<1>11. ASSUME NEW t \in PolicyTtls, UpdatePolicy(t) PROVE LedgerQuiet
  BY <1>11 DEF UpdatePolicy, LedgerQuiet
<1> QED
  BY <1>1, <1>2, <1>3, <1>4, <1>5, <1>6, <1>7, <1>8, <1>9, <1>10, <1>11
     DEF Next, Broker, Environment, Failures

LEMMA SyncLedger ==
    ASSUME TypeOK, ReplayInv, ExecInv, SyncMarker
    PROVE  (LedgerQuiet \/ Ledger!Begin(req)) /\ ExecInv'
<1> USE DEF Keep, KeepMode
<1>1. CASE pc' = "reply_error"
  BY <1>1 DEF SyncMarker, LedgerQuiet, Executing, ExecInv
<1>2. CASE pc' = "select"
  <2>1. /\ pc = "sync" /\ runs[req] = 0 /\ req \in Plans
        /\ runs' = [runs EXCEPT ![req] = @ + 1]
        /\ UNCHANGED <<artifacts, req>>
    BY <1>2 DEF SyncMarker, ReplayInv, TypeOK
  <2>2. /\ LedgerStatus[req] = "unused"
        /\ \A q \in Plans : LedgerStatus[q] # "executing"
    BY <2>1 DEF LedgerStatus, Executing
  <2>3. LedgerStatus' = [LedgerStatus EXCEPT ![req] = "executing"]
    <3>1. \A q \in Plans : LedgerStatus'[q] =
             IF q = req THEN "executing" ELSE LedgerStatus[q]
      BY <1>2, <2>1 DEF LedgerStatus, Executing, TypeOK
    <3>2. LedgerStatus = [q \in Plans |-> LedgerStatus[q]]
      BY DEF LedgerStatus
    <3>3. LedgerStatus' = [q \in Plans |-> LedgerStatus'[q]]
      BY DEF LedgerStatus
    <3> QED BY <3>1, <3>2, <3>3
  <2>4. UNCHANGED Published
    BY <2>1 DEF Published
  <2>5. ExecInv'
    BY <2>1 DEF ExecInv, TypeOK
  <2> QED BY <2>2, <2>3, <2>4, <2>5 DEF Ledger!Begin
<1> QED BY <1>1, <1>2 DEF SyncMarker

LEMMA LinkLedger ==
    ASSUME TypeOK, ExecInv, LinkArtifact
    PROVE  \/ LedgerQuiet \/ LedgerClosing
           \/ Ledger!Publish(req) /\ ExecInv'
<1> USE DEF Keep, KeepMode
<1>1. pc \in Executing
  BY DEF LinkArtifact, OutputExists, Executing
<1>2. CASE req \in Published
  <2>1. AttemptFails("other") BY <1>2 DEF LinkArtifact, OutputExists
  <2> QED BY <1>1, <2>1, FailedAttemptLedger
<1>3. CASE req \notin Published
  <2>1. PICK n \in 1..plan[req].bytes :
           /\ artifacts' = [artifacts EXCEPT ![req] =
                              [bytes |-> n, source |-> source]]
           /\ pc' = "unlink" /\ UNCHANGED <<req, runs>>
    BY <1>3 DEF LinkArtifact, OutputExists
  <2>2. [bytes |-> n, source |-> source] # NoEvidence
    <3>1. plan[req].bytes \in Nat
      BY DEF TypeOK, PlanRecord
    <3>2. n # 0
      BY <3>1
    <3> QED BY <3>2 DEF NoEvidence
  <2>3. Published' = Published \cup {req}
    BY <2>1, <2>2 DEF Published, TypeOK
  <2>4. UNCHANGED LedgerStatus /\ ExecInv'
    BY <1>1, <2>1 DEF LedgerStatus, Executing, ExecInv
  <2>5. LedgerStatus[req] = "executing" /\ req \in Plans
    BY <1>1 DEF LedgerStatus, ExecInv, TypeOK
  <2> QED BY <2>3, <2>4, <2>5 DEF Ledger!Publish
<1> QED BY <1>2, <1>3

LEMMA PruneLedger ==
    ASSUME TypeOK, ExecInv, NEW p \in Plans, PruneArchived(p)
    PROVE  Ledger!Remove(p) /\ ExecInv'
<1>1. Published' = Published \ {p}
  BY DEF PruneArchived, Published, TypeOK
<1>2. UNCHANGED LedgerStatus /\ ExecInv'
  BY DEF PruneArchived, LedgerStatus, ExecInv, volatile
<1> QED BY <1>1, <1>2 DEF Ledger!Remove

LEMMA NextLedger ==
    ASSUME TypeOK, ReplayInv, ExecInv, [Next]_vars
    PROVE  ([Ledger!Next]_(Ledger!lvars)) /\ ExecInv'
<1>0. req \in Plans BY DEF TypeOK
<1>1. CASE LedgerQuiet
  BY <1>1, LedgerStutters DEF Ledger!lvars
<1>2. CASE LedgerClosing
  BY <1>0, <1>2, LedgerCloses DEF Ledger!Next
<1>3. CASE SyncMarker
  BY <1>0, <1>1, <1>3, SyncLedger DEF Ledger!Next
<1>4. CASE LinkArtifact
  BY <1>0, <1>1, <1>2, <1>4, LinkLedger DEF Ledger!Next
<1>5. CASE \E p \in Plans : PruneArchived(p)
  BY <1>5, PruneLedger DEF Ledger!Next
<1> QED BY <1>1, <1>2, <1>3, <1>4, <1>5, LedgerSteps

\* As long as no policy update lowers the plan TTL, every behaviour of the
\* broker is a behaviour of the ledger: a plan that was executed once, even if
\* only until a crash, is never executed again and gains no new evidence.
THEOREM BrokerImplementsLedger ==
    ASSUME TtlMayShrink = FALSE
    PROVE  Spec => ImplementsLedger
<1> DEFINE I == TypeOK /\ RequestIssued /\ ReplayInv /\ ExecInv
<1>1. Init => I /\ Ledger!Init
  BY InitType, InitReplay
     DEF Init, ExecInv, Executing, Ledger!Init, LedgerStatus, Published
<1>2. I /\ [Next]_vars => I' /\ [Ledger!Next]_(Ledger!lvars)
  BY NextType, NextReplay, NextLedger
<1> QED BY <1>1, <1>2, PTL DEF Spec, ImplementsLedger, Ledger!Spec

-----------------------------------------------------------------------------
(* What the broker tells its client: the answers follow from the state the  *)
(* broker settled before it sent them.                                     *)

\* Where the handler has not started perf yet.
Early == {"authorize", "current", "capacity", "consume", "sync", "select"}

\* The connection: one readiness frame was sent or none, and the attempt that
\* is to be published has sent it if it was asked for.
WireInv ==
    /\ pc \in Handling =>
          /\ wire = IF ready = "sent" THEN <<"ready">> ELSE <<>>
          /\ ready = "sent" => attempt = "formal"
    /\ pc \in Early => attempt = "none"
    /\ pc \in {"link", "unlink", "chmod", "reply_ok"} =>
          attempt = "formal" /\ ready # "wanted"
    /\ pc = "running" /\ attempt = "formal" => ready # "wanted"
    /\ pc \notin Handling => WireProtocol

\* An event source is one that the plan and the policy allow.
Allowed(p, s) ==
    /\ s = "software" => plan[p].source = "software_only"
    /\ s = "fallback" => EffectiveFallback(p)
    /\ s = "hardware" => plan[p].source # "software_only"

SourceInv ==
    /\ pc \in Handling /\ attempt = "formal" => Allowed(req, source)
    /\ pc \in Handling /\ attempt = "probe" => EffectiveFallback(req)
    /\ \A p \in Published : plan[p].expires # 0 /\ Allowed(p, artifacts[p].source)

LEMMA WireFrames ==
    ASSUME TypeOK, WireInv
    PROVE  WireProtocol
<1>1. CASE pc \in Handling /\ ready = "sent"
  <2>1. wire = <<"ready">> /\ attempt = "formal"
    BY <1>1 DEF WireInv
  <2>2. wire # <<"ok">>
    BY <2>1
  <2> QED BY <2>1, <2>2 DEF WireProtocol
<1>2. CASE pc \in Handling /\ ready # "sent"
  <2>1. wire = <<>> /\ wire # <<"ok">>
    BY <1>2 DEF WireInv
  <2> QED BY <2>1 DEF WireProtocol
<1> QED BY <1>1, <1>2 DEF WireInv

\* Steps that say nothing to the client and choose no source, and the places
\* they may lead to.
Publishing == {"running", "link", "unlink", "chmod", "reply_ok"}

Mute ==
    /\ UNCHANGED <<wire, ready, attempt, source, req, plan, artifacts>>
    /\ \/ pc' = pc
       \/ /\ pc' \notin Publishing
          /\ pc \in Handling <=> pc' \in Handling
          /\ pc' \in Early => pc \in Early

LEMMA MuteReplies ==
    ASSUME TypeOK, WireInv, SourceInv, Mute
    PROVE  WireInv' /\ SourceInv'
<1>1. WireInv'
  BY DEF TypeOK, WireInv, WireProtocol, Mute, Publishing
<1>2. SourceInv'
  BY DEF SourceInv, Mute, Allowed, EffectiveFallback, Published, Handling,
         Publishing
<1> QED BY <1>1, <1>2

LEMMA MuteSteps ==
    ASSUME TypeOK,
           \/ UNCHANGED vars
           \/ Authorize \/ AssertExecutionPlanCurrent \/ AuthorizeSpoolCapacity
           \/ PersistConsumedPlan \/ SyncMarker \/ AssertCurrentTarget
           \/ ReserveTemporary \/ Tick \/ Disconnect \/ Restart
           \/ \E i \in Pids : ReusePid(i)
           \/ \E p \in Plans : RemoveUnmanaged(p)
           \/ \E t \in PolicyTtls : UpdatePolicy(t)
    PROVE  Mute
<1> USE DEF Mute, Publishing, Early, Handling, PCs, Keep, KeepMode, KeepConn, spool,
            volatile
<1>1. CASE UNCHANGED vars \/ Tick \/ Disconnect \/ Restart
  BY <1>1 DEF vars, Tick, Disconnect, Restart
<1>2. CASE Authorize \/ AssertExecutionPlanCurrent \/ AuthorizeSpoolCapacity
           \/ AssertCurrentTarget
  BY <1>2 DEF Authorize, AssertExecutionPlanCurrent, AuthorizeSpoolCapacity,
              AssertCurrentTarget, Check
<1>3. CASE PersistConsumedPlan \/ SyncMarker \/ ReserveTemporary
  BY <1>3 DEF PersistConsumedPlan, SyncMarker, ReserveTemporary
<1>4. ASSUME NEW i \in Pids, ReusePid(i) PROVE Mute
  BY <1>4 DEF ReusePid
<1>5. ASSUME NEW p \in Plans, RemoveUnmanaged(p) PROVE Mute
  BY <1>5 DEF RemoveUnmanaged
<1>6. ASSUME NEW t \in PolicyTtls, UpdatePolicy(t) PROVE Mute
  BY <1>6 DEF UpdatePolicy
<1> QED BY <1>1, <1>2, <1>3, <1>4, <1>5, <1>6

\* A failed attempt chooses the fallback only where it is allowed.
LEMMA FailedAttemptReplies ==
    ASSUME TypeOK, WireInv, SourceInv, pc \in Handling,
           NEW kind, AttemptFails(kind), UNCHANGED wire
    PROVE  WireInv' /\ SourceInv'
<1>1. /\ UNCHANGED <<ready, req, plan, artifacts, wire>>
      /\ pc' \in {"assert", "reply_error"}
      /\ pc' \in Handling
  BY AttemptFailsType DEF Handling, PCs
<1>2. attempt = "formal" => attempt' = "formal"
  BY DEF AttemptFails
<1>3. WireInv'
  BY <1>1, <1>2 DEF WireInv, Early
<1>4. CASE attempt = "probe"
  <2>1. \/ attempt' = "formal" /\ source' = "fallback"
        \/ UNCHANGED <<attempt, source>>
    BY <1>4 DEF AttemptFails, ProbeDone
  <2> QED BY <1>1, <1>3, <1>4, <2>1 DEF SourceInv, Allowed, EffectiveFallback, Published
<1>5. CASE attempt # "probe"
  <2>1. /\ UNCHANGED attempt
        /\ \/ EffectiveFallback(req) /\ source' = "fallback"
           \/ UNCHANGED source
    BY <1>5 DEF AttemptFails
  <2> QED BY <1>1, <1>3, <1>5, <2>1 DEF SourceInv, Allowed, EffectiveFallback, Published
<1> QED BY <1>3, <1>4, <1>5

\* The same attempt goes on.
LEMMA ProceedReplies ==
    ASSUME TypeOK, WireInv, SourceInv, pc \in Handling, UNCHANGED wire,
           NEW next \in {"validate", "enable", "ready", "running", "link"},
           Proceed(next),
           next = "running" /\ attempt = "formal" => ready # "wanted",
           next = "link" => attempt = "formal" /\ ready # "wanted"
    PROVE  WireInv' /\ SourceInv'
<1>1. /\ UNCHANGED <<wire, ready, attempt, source, req, plan, artifacts>>
      /\ pc' = next /\ pc' \in Handling
  BY DEF Proceed, Keep, spool, Handling, PCs
<1>2. WireInv'
  BY <1>1 DEF WireInv, Early
<1>3. SourceInv'
  BY <1>1 DEF SourceInv, Allowed, EffectiveFallback, Published
<1> QED BY <1>2, <1>3

LEMMA NextReplies ==
    ASSUME TypeOK, RequestIssued, WireInv, SourceInv, [Next]_vars
    PROVE  WireInv' /\ SourceInv'
<1> USE DEF Keep, KeepMode, KeepConn, spool, volatile
<1>0. TypeOK' BY NextType
<1>1. ASSUME NEW p \in Plans, NEW rr \in {"off", "wanted"}, Accept(p, rr)
      PROVE  WireInv' /\ SourceInv'
  BY <1>1 DEF Accept, WireInv, Early, SourceInv, Allowed, EffectiveFallback, Published,
              Handling, PCs
<1>2. CASE SelectSource
  <2>1. /\ UNCHANGED <<wire, ready, req, plan, artifacts>>
        /\ pc' \in {"bind", "assert"} /\ pc' \in Handling /\ pc \in Handling
    BY <1>2 DEF SelectSource, Handling, PCs
  <2>2. ready # "sent"
    BY <1>2, <2>1 DEF SelectSource, WireInv, Early
  <2>3. \/ attempt' = "probe" /\ EffectiveFallback(req)
        \/ attempt' = "formal" /\ Allowed(req, source')
    BY <1>2 DEF SelectSource, Allowed, EffectiveFallback
  <2>4. SourceInv'
    BY <2>1, <2>3 DEF SourceInv, Allowed, EffectiveFallback, Published
  <2>5. WireInv'
    BY <2>1, <2>2 DEF WireInv, Early
  <2> QED BY <2>4, <2>5
<1>3. CASE BindTarget \/ ValidateBound \/ EnableEvents
  <2>1. pc \in Handling /\ UNCHANGED wire
    BY <1>3 DEF BindTarget, ValidateBound, EnableEvents, Handling, PCs
  <2>2. CASE \E k : AttemptFails(k)
    BY <2>1, <2>2, FailedAttemptReplies
  <2>3. CASE Proceed("validate") \/ Proceed("enable") \/ Proceed("ready")
    BY <2>1, <2>3, ProceedReplies
  <2> QED BY <1>3, <2>2, <2>3 DEF BindTarget, ValidateBound, EnableEvents
<1>4. CASE ReportReady
  <2>1. pc \in Handling
    BY <1>4 DEF ReportReady, Handling, PCs
  <2>2. CASE attempt = "formal" /\ ready = "wanted" /\ conn = "open"
    <3>1. /\ wire' = Append(wire, "ready") /\ ready' = "sent" /\ pc' = "running"
          /\ UNCHANGED <<req, attempt, source, plan, artifacts>>
      BY <1>4, <2>2 DEF ReportReady
    <3>2. wire = <<>>
      BY <2>1, <2>2 DEF WireInv
    <3>3. wire' = <<"ready">>
      BY <3>1, <3>2
    <3>4. WireInv'
      BY <2>2, <3>1, <3>3 DEF WireInv, Early, Handling, PCs
    <3>5. SourceInv'
      BY <2>1, <3>1 DEF SourceInv, Allowed, EffectiveFallback, Published
    <3> QED BY <3>4, <3>5
  <2>3. CASE attempt = "formal" /\ ready = "wanted" /\ conn # "open"
    BY <1>4, <2>1, <2>3, FailedAttemptReplies DEF ReportReady
  <2>4. CASE ~ (attempt = "formal" /\ ready = "wanted")
    <3>1. Proceed("running") /\ UNCHANGED wire
      BY <1>4, <2>4 DEF ReportReady
    <3> QED BY <2>1, <2>4, <3>1, ProceedReplies
  <2> QED BY <2>2, <2>3, <2>4
<1>5. CASE PerfEnds
  <2>1. pc \in Handling /\ pc = "running" /\ UNCHANGED wire
    BY <1>5 DEF PerfEnds, Handling, PCs
  <2>2. CASE \E k : AttemptFails(k)
    BY <2>1, <2>2, FailedAttemptReplies
  <2>3. CASE attempt = "formal" /\ Proceed("link")
    <3>1. ready # "wanted"
      BY <2>1, <2>3 DEF WireInv
    <3> QED BY <2>1, <2>3, <3>1, ProceedReplies
  <2>4. CASE /\ attempt = "probe"
             /\ \E usable \in BOOLEAN : ProbeDone(usable)
             /\ UNCHANGED <<ready, req, plan, artifacts>>
    <3>1. /\ attempt' = "formal" /\ source' \in {"hardware", "fallback"}
          /\ pc' = "assert" /\ pc' \in Handling
      BY <2>4 DEF ProbeDone, Handling, PCs
    <3>2. EffectiveFallback(req)
      BY <2>1, <2>4 DEF SourceInv
    <3>3. WireInv'
      BY <2>1, <2>4, <3>1 DEF WireInv, Early
    <3>4. SourceInv'
      BY <2>4, <3>1, <3>2 DEF SourceInv, Allowed, EffectiveFallback, Published
    <3> QED BY <3>3, <3>4
  <2> QED BY <1>5, <2>2, <2>3, <2>4 DEF PerfEnds
<1>6. CASE LinkArtifact
  <2>1. pc \in Handling /\ pc = "link" /\ UNCHANGED wire /\ req \in Plans
    BY <1>6 DEF LinkArtifact, OutputExists, Handling, PCs, TypeOK
  <2>2. CASE \E k : AttemptFails(k)
    BY <2>1, <2>2, FailedAttemptReplies
  <2>3. CASE ~ \E k : AttemptFails(k)
    <3>1. PICK n \in Nat : artifacts' = [artifacts EXCEPT ![req] =
                                            [bytes |-> n, source |-> source]]
      BY <1>6, <2>3 DEF LinkArtifact, OutputExists, TypeOK, PlanRecord
    <3>2. /\ pc' = "unlink" /\ UNCHANGED <<req, attempt, source, ready, plan>>
      BY <1>6, <2>3 DEF LinkArtifact, OutputExists
    <3>3. WireInv'
      BY <2>1, <3>2 DEF WireInv, Early, Handling, PCs
    <3>4. Allowed(req, source) /\ plan[req].expires # 0
      BY <2>1 DEF SourceInv, WireInv, RequestIssued
    <3>5. artifacts'[req].source = source
      BY <2>1, <3>1 DEF TypeOK
    <3>6. \A q \in Plans : q # req => artifacts'[q] = artifacts[q]
      BY <3>1 DEF TypeOK
    <3>7. \A q \in Published' : plan[q].expires # 0 /\ Allowed(q, artifacts'[q].source)
      BY <3>4, <3>5, <3>6 DEF SourceInv, Published
    <3>8. SourceInv'
      BY <2>1, <3>2, <3>4, <3>7 DEF SourceInv, Allowed, EffectiveFallback, WireInv
    <3> QED BY <3>3, <3>8
  <2> QED BY <2>2, <2>3
<1>7. CASE UnlinkTemporary
  <2>1. pc \in Handling /\ pc = "unlink" /\ UNCHANGED wire
    BY <1>7 DEF UnlinkTemporary, Handling, PCs
  <2>2. CASE \E k : AttemptFails(k)
    BY <2>1, <2>2, FailedAttemptReplies
  <2>3. CASE pc' = "chmod" /\ UNCHANGED <<req, attempt, source, ready, plan, artifacts>>
    <3>1. pc' \in Handling
      BY <2>3 DEF Handling, PCs
    <3> QED BY <2>1, <2>3, <3>1 DEF WireInv, Early, SourceInv, Allowed, EffectiveFallback,
                                    Published
  <2> QED BY <1>7, <2>2, <2>3 DEF UnlinkTemporary
<1>8. ASSUME NEW p \in Plans, PruneArchived(p) PROVE WireInv' /\ SourceInv'
  <2>1. /\ artifacts' = [artifacts EXCEPT ![p] = NoEvidence]
        /\ UNCHANGED <<pc, req, attempt, source, ready, plan, wire>>
    BY <1>8 DEF PruneArchived
  <2>2. Published' \subseteq Published
        /\ \A q \in Published' : artifacts'[q] = artifacts[q]
    BY <2>1 DEF Published, TypeOK
  <2>3. WireInv'
    BY <2>1 DEF WireInv, WireProtocol
  <2> QED BY <2>1, <2>2, <2>3 DEF SourceInv, Allowed, EffectiveFallback
<1>9. CASE ChmodArtifact
  <2>1. /\ pc = "chmod" /\ pc \in Handling
        /\ pc' \in {"reply_ok", "reply_error"} /\ pc' \in Handling
        /\ UNCHANGED <<req, attempt, source, ready, plan, wire>>
        /\ \/ UNCHANGED artifacts
           \/ artifacts' = [artifacts EXCEPT ![req] = NoEvidence]
    BY <1>9 DEF ChmodArtifact, Handling, PCs
  <2>2. Published' \subseteq Published
        /\ \A q \in Published' : artifacts'[q] = artifacts[q]
    BY <2>1 DEF Published, TypeOK
  <2>3. WireInv'
    BY <2>1 DEF WireInv, Early
  <2> QED BY <2>1, <2>2, <2>3 DEF SourceInv, Allowed, EffectiveFallback
<1>10. CASE Reply
  <2>1. /\ pc' = "idle" /\ pc' \notin Handling /\ pc \in Handling
        /\ UNCHANGED <<req, attempt, source, ready, plan, artifacts>>
    BY <1>10 DEF Reply, Handling, PCs
  <2>2. SourceInv'
    BY <2>1 DEF SourceInv, Allowed, EffectiveFallback, Published
  <2>3. wire \in {<<>>, <<"ready">>}
    BY <2>1 DEF WireInv
  <2>4. \/ wire' = wire
        \/ pc = "reply_ok" /\ wire' = Append(wire, "ok")
        \/ pc = "reply_error" /\ wire' = Append(wire, "error")
    BY <1>10 DEF Reply
  <2>5. /\ wire = <<"ready">> <=> ready = "sent"
        /\ ready = "sent" => attempt = "formal"
        /\ pc = "reply_ok" => attempt = "formal" /\ ready # "wanted"
    BY <2>1 DEF WireInv
  <2>6. WireProtocol'
    <3>1. CASE wire = <<"ready">>
      <4>1. wire' \in {<<"ready">>, <<"ready", "ok">>, <<"ready", "error">>}
        BY <2>4, <3>1
      <4>2. wire' # <<"ok">>
        BY <4>1
      <4> QED BY <2>1, <2>5, <3>1, <4>1, <4>2 DEF WireProtocol
    <3>2. CASE wire = <<>> /\ pc = "reply_ok" /\ wire' = <<"ok">>
      <4>1. ready = "off"
        BY <2>5, <3>2 DEF TypeOK
      <4> QED BY <2>1, <2>5, <3>2, <4>1 DEF WireProtocol
    <3>3. CASE wire' \in {<<>>, <<"error">>}
      <4>1. wire' # <<"ok">>
        BY <3>3
      <4> QED BY <3>3, <4>1 DEF WireProtocol
    <3>4. wire = <<>> => wire' \in {<<>>, <<"error">>} \/ (pc = "reply_ok" /\ wire' = <<"ok">>)
      BY <2>4
    <3> QED BY <2>3, <3>1, <3>2, <3>3, <3>4
  <2>7. WireInv'
    BY <2>1, <2>6 DEF WireInv, Early
  <2> QED BY <2>2, <2>7
<1>11. ASSUME NEW p \in Plans, NEW i \in Pids, NEW t \in PlanTtls,
              NEW src \in PlanSources, NEW n \in PlanBytes,
              CreatePlan(p, i, t, src, n)
       PROVE  WireInv' /\ SourceInv'
  <2>1. /\ \A q \in Plans : plan[q].expires # 0 => plan'[q] = plan[q]
        /\ UNCHANGED <<pc, req, attempt, source, ready, wire, artifacts>>
    BY <1>11 DEF CreatePlan, NotIssued, TypeOK
  <2>2. pc \in Handling => plan'[req] = plan[req]
    BY <2>1 DEF RequestIssued, TypeOK
  <2>3. WireInv'
    BY <2>1 DEF WireInv, WireProtocol
  <2>4. SourceInv'
    BY <2>1, <2>2 DEF SourceInv, Allowed, EffectiveFallback, Published
  <2> QED BY <2>3, <2>4
<1>12. CASE Crash \/ PowerLoss
  <2>1. /\ pc' \notin Handling /\ pc' = "down"
        /\ UNCHANGED <<req, attempt, source, ready, plan, artifacts, wire>>
    BY <1>12 DEF Crash, PowerLoss, Handling, Publishing
  <2>2. WireProtocol
    BY WireFrames
  <2>3. WireInv'
    BY <2>1, <2>2 DEF WireInv, WireProtocol, Publishing, Early
  <2>4. SourceInv'
    BY <2>1 DEF SourceInv, Allowed, EffectiveFallback, Published
  <2> QED BY <2>3, <2>4
<1> QED
  BY <1>1, <1>2, <1>3, <1>4, <1>5, <1>6, <1>7, <1>8, <1>9, <1>10, <1>11, <1>12,
     MuteSteps, MuteReplies DEF Next, Broker, Environment, Failures

\* The client sees at most one readiness frame, never from the probe, and one
\* final frame, and the evidence that the broker keeps names a source that the
\* plan and the policy allow, through every failure and crash.
THEOREM RepliesAreTruthful == Spec => []RepliesTruthful
<1>1. Init => TypeOK /\ RequestIssued /\ WireInv /\ SourceInv
  BY InitType, InitReplay DEF Init, WireInv, Early, WireProtocol, SourceInv, Published, Handling
<1>2. TypeOK /\ RequestIssued /\ WireInv /\ SourceInv /\ [Next]_vars
        => (TypeOK /\ RequestIssued /\ WireInv /\ SourceInv)'
  BY NextType, NextIssued, NextReplies
<1>3. TypeOK /\ WireInv /\ SourceInv => RepliesTruthful
  <2> SUFFICES ASSUME TypeOK, WireInv, SourceInv PROVE RepliesTruthful
    OBVIOUS
  <2>1. \A p \in Published : artifacts[p].source \in EventSources
    BY DEF TypeOK, Published, Evidence
  <2>2. EvidenceSource
    BY <2>1 DEF SourceInv, Allowed, EvidenceSource, EventSources
  <2> QED BY <2>2, WireFrames DEF RepliesTruthful
<1> QED BY <1>1, <1>2, <1>3, PTL DEF Spec

----------------------------------------------------------------------------
(* The launcher of a project workload, the broker's client                 *)
(* (ProjectWorkload).                                                      *)

\* What holds between the executable and perf: the executable runs only on the
\* release byte, the byte is written only after a readiness frame, and a
\* readiness frame is only sent once perf is enabled, which it then stays.
ReleaseInv ==
    /\ w_frames \in Seq({"ready", "result", "error"})
    /\ \A i \in 1..Len(w_frames) : w_frames[i] = "ready" => w_enabled = "yes"
    /\ w_pc = "release" => w_enabled = "yes"
    /\ w_release = "byte" => w_enabled = "yes"
    /\ W!ProfiledFromExec

LEMMA InitRelease == W!Init => ReleaseInv
BY DEF W!Init, ReleaseInv, W!ProfiledFromExec

\* Every step of the launcher, the bootstrap, the kernel and the broker keeps
\* that order.
LEMMA NextRelease == ReleaseInv /\ [W!Next]_(W!vars) => ReleaseInv'
<1> SUFFICES ASSUME ReleaseInv, [W!Next]_(W!vars)
             PROVE  ReleaseInv'
  OBVIOUS
<1> USE DEF ReleaseInv, W!ProfiledFromExec
<1>1. CASE UNCHANGED W!vars
  BY <1>1 DEF W!vars
<1>2. CASE W!BrokerEnables
  BY <1>2 DEF W!BrokerEnables, W!Workload
<1>3. CASE W!BrokerReady \/ W!BrokerReplies
  <2>1. PICK f \in {"ready", "result", "error"} :
           w_frames' = Append(w_frames, f) /\ (f = "ready" => w_enabled = "yes")
    BY <1>3 DEF W!BrokerReady, W!BrokerReplies
  <2>2. /\ w_frames' \in Seq({"ready", "result", "error"})
        /\ \A i \in 1..Len(w_frames') : i \in 1..Len(w_frames) \/ i = Len(w_frames) + 1
        /\ \A i \in 1..Len(w_frames) : w_frames'[i] = w_frames[i]
        /\ w_frames'[Len(w_frames) + 1] = f
    BY <2>1
  <2>3. UNCHANGED <<w_pc, w_release, w_enabled, w_executed>>
    BY <1>3 DEF W!BrokerReady, W!BrokerReplies, W!Workload
  <2> QED BY <2>1, <2>2, <2>3
<1>4. CASE W!FirstFrame
  <2>1. UNCHANGED <<w_release, w_enabled, w_executed>>
    BY <1>4 DEF W!FirstFrame, W!LauncherKeeps, W!Broker
  <2>2. CASE w_frames # <<>> /\ w_frames' = Tail(w_frames)
    <3>1. /\ w_frames' \in Seq({"ready", "result", "error"})
          /\ \A i \in 1..Len(w_frames') : i + 1 \in 1..Len(w_frames) /\ w_frames'[i] = w_frames[i + 1]
      BY <2>2
    <3>2. w_pc' = "release" => w_frames[1] = "ready" /\ 1 \in 1..Len(w_frames)
      BY <1>4, <2>2 DEF W!FirstFrame, W!Raise
    <3> QED BY <2>1, <3>1, <3>2
  <2>3. CASE UNCHANGED w_frames
    BY <1>4, <2>1, <2>3 DEF W!FirstFrame, W!Raise
  <2> QED BY <1>4, <2>2, <2>3 DEF W!FirstFrame
<1>5. CASE W!FinalFrame
  <2>1. /\ w_frames' = <<>> /\ w_pc' # "release"
        /\ UNCHANGED <<w_release, w_enabled, w_executed>>
    BY <1>5 DEF W!FinalFrame, W!Raise, W!LauncherKeeps, W!Broker
  <2> QED BY <2>1
<1>6. CASE \/ W!StartBootstrap \/ W!WaitUntilReady \/ W!Request \/ W!ReleaseWorkload
           \/ W!AwaitExit \/ W!TerminateGroup \/ W!GraceOver \/ W!KillGroup \/ W!Reap
           \/ W!ReapTimeout \/ W!GracePoll \/ W!LauncherDies \/ W!InitReaps
  <2>1. /\ UNCHANGED <<w_frames, w_enabled, w_executed>>
        /\ w_pc' = "release" => w_pc = "release"
        /\ w_release' = "byte" => w_release = "byte" \/ w_pc = "release"
    BY <1>6 DEF W!StartBootstrap, W!WaitUntilReady, W!Request, W!ReleaseWorkload, W!AwaitExit,
       W!TerminateGroup, W!GraceOver, W!KillGroup, W!Reap, W!ReapTimeout, W!GracePoll,
       W!LauncherDies, W!InitReaps, W!Raise, W!LauncherKeeps, W!Workload, W!Broker
  <2> QED BY <2>1
<1>7. CASE \/ W!BootReady \/ W!BootExec \/ W!BootEof \/ W!LeaderExits \/ W!Dies
           \/ W!Forks \/ W!KidsExit \/ W!ReusePid \/ W!BrokerDies \/ W!Finished
  <2>1. /\ UNCHANGED <<w_pc, w_release, w_frames, w_enabled>>
        /\ w_executed' = "yes" => w_executed = "yes" \/ w_release = "byte"
    BY <1>7 DEF W!BootReady, W!BootExec, W!BootEof, W!LeaderExits, W!Dies, W!Forks, W!KidsExit,
       W!ReusePid, W!BrokerDies, W!Finished, W!LeaderKeeps, W!Workload, W!vars
  <2> QED BY <2>1
<1> QED
  BY <1>1, <1>2, <1>3, <1>4, <1>5, <1>6, <1>7 DEF W!Next, W!LauncherStep

\* No instruction of the project executable runs before perf is enabled on it,
\* whatever the timing of the bootstrap, the broker's frames, the timeouts and
\* the deaths of any of them (workloads/project.py, workloads/_bootstrap.py).
THEOREM WorkloadProfiledFromExec == AllSpec => []ProfiledFromExec
<1>1. AllInit => ReleaseInv
  BY InitRelease DEF AllInit
<1>2. ReleaseInv /\ [AllNext]_all => ReleaseInv'
  <2> SUFFICES ASSUME ReleaseInv, [AllNext]_all
               PROVE  ReleaseInv'
    OBVIOUS
  <2>1. [W!Next]_(W!vars)
    BY DEF AllNext, all, w_vars, W!vars
  <2> QED BY <2>1, NextRelease
<1>3. ReleaseInv => ProfiledFromExec
  BY DEF ReleaseInv, ProfiledFromExec, W!ProfiledFromExec
<1> QED BY <1>1, <1>2, <1>3, PTL DEF AllSpec
=============================================================================
