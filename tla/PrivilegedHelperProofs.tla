----------------------- MODULE PrivilegedHelperProofs -----------------------
(***************************************************************************)
(* Proofs about the two Helpers.                                           *)
(*                                                                         *)
(* Privileged Helper: the inductive invariant has a part for each thing    *)
(* that a connection carries through its steps: the plan and its marker,   *)
(* the attempt and its temporary file, perf and the process it is bound to,*)
(* the events, the published file and the client's call.                   *)
(*                                                                         *)
(* Trace Helper: its invariant follows the one worker, the stages of the   *)
(* attachment against the threads of the target, the counts of what was    *)
(* dropped, and what each file in the spool may be.                        *)
(***************************************************************************)
EXTENDS MCHelpers, FiniteSetTheorems, TLAPS

\* The steps of a connection: before the recovery of temporary files, up to the
\* consumption of the plan, and after it.
Front == {"read", "identity", "recover"}
Admission == {"prune", "capacity", "consume"}
Running == {"barrier", "revalidate", "enable", "report", "collect"}
Publishing == {"chmod", "chown", "link", "unlink", "reply"}
Consumed ==
    {"select", "probe", "reserve", "spawn", "probed", "failed"} \cup Running \cup Publishing
Served == Front \cup Admission \cup Consumed
Resting == {"down", "listen", "stuck"}

\* TypeOK in parts, with the fields of the Helper's record.
Attempts == {"none", "probe", "formal", "second"}
Events == {"none", "software", "hardware"}
Flags == {"yes", "no"}
Codes == {"none", "external", "other"}

HelperType ==
    /\ helper \in [pc : Served \cup Resting, p : Plans \cup {NoPlan}, now : Nat,
                   attempt : Attempts, src : Events, reason : Flags, ready : Flags,
                   code : Codes]
    /\ helper.pc \in Served => helper.p \in Plans

ClientType ==
    client \in [Plans -> {"idle", "waiting", "ready", "timeout", "abandoned", "error",
                         "ok_software", "ok_hardware"}]

OutsideType ==
    /\ clock \in 1..MaxClock
    /\ plan \in [Plans -> [src : Sources, expires : Nat]]
    /\ sends \in [Plans -> Nat]
    /\ target \in [inc : 1..(MaxReuse + 1), exe : {"gate", "work"}]
    /\ perf \in [st : {"none", "bound", "enabled"}, inc : Nat]

DiskType ==
    /\ marker \in [Plans -> 0..MaxClock]
    /\ temp \in [Plans -> [Kinds -> {"none", "private", "chmodded", "group", "linked"}]]
    /\ out \in [Plans -> Events]
    /\ uses \in [Plans -> Nat] /\ faults \in 0..MaxFaults /\ gap \in Flags

Types == HelperType /\ ClientType /\ OutsideType /\ DiskType

\* A plan was consumed once at most.  Its marker outlives it; a plan whose marker
\* is gone has expired, also by the time the Helper took before it read the frame.
PlanInv ==
    /\ helper.pc \in Served => helper.now <= clock
    /\ \A p \in Plans :
         /\ uses[p] <= 1
         /\ marker[p] # 0 => plan[p].expires <= marker[p] + Lifetime
         /\ uses[p] = 1 => marker[p] # 0 \/ plan[p].expires <= clock
    /\ (helper.pc \in Served /\ uses[helper.p] = 1 /\ marker[helper.p] = 0) =>
          \/ helper.pc = "read" /\ plan[helper.p].expires <= helper.now
          \/ helper.pc \in Consumed
    /\ helper.pc \in (Front \cup Admission) \ {"read"} => Unexpired
    /\ helper.pc \in {"capacity", "consume"} => marker[helper.p] = 0
    /\ helper.pc \in Consumed => uses[helper.p] = 1

\* The attempt of a step, and its file: no other plan has a temporary file once
\* the recovery ran, and without a fault nothing is left for it.
AttemptInv ==
    /\ helper.pc \in Resting \cup Front \cup Admission \cup {"select", "probe", "reserve"} =>
          helper.attempt = "none"
    /\ helper.pc \in Running \cup {"spawn", "failed"} => helper.attempt # "none"
    /\ helper.pc = "probed" => helper.attempt = "probe"
    /\ helper.pc \in Publishing => helper.attempt \in {"formal", "second"}
    /\ helper.ready = "yes" => helper.attempt \in {"formal", "second"}

Temporary ==
    CASE helper.pc = "chown" -> {"chmodded"}
      [] helper.pc = "link" -> {"group"}
      [] helper.pc = "unlink" -> {"linked"}
      [] helper.pc = "reply" -> {"none"}
      [] helper.pc = "failed" -> {"private", "chmodded", "group", "linked"}
      [] OTHER -> {"private"}

TempInv ==
    /\ helper.pc \in Admission \cup Consumed =>
         /\ \A p \in Plans \ {helper.p}, k \in Kinds : temp[p][k] = "none"
         /\ temp[helper.p]["probe"] = IF helper.attempt = "probe" THEN "private" ELSE "none"
         /\ IF helper.attempt \in {"formal", "second"}
            THEN temp[helper.p]["formal"] \in Temporary
            ELSE temp[helper.p]["formal"] = "none"
    /\ (helper.pc \in Front \cup {"listen"} /\ faults = 0) => temp = NoTemp
    /\ (helper.pc \in Resting \cup Front /\ ~Recoverable) => gap = "yes"
    /\ helper.pc = "stuck" => gap = "yes"
    /\ helper.pc = "down" => faults > 0

\* perf is the one of the running attempt, and it is bound to the plan's process
\* before its events are enabled.
PerfInv ==
    /\ helper.pc \notin Running => perf = NoPerf
    /\ helper.pc \in Running => perf.inc \in 1..target.inc
    /\ helper.pc \in {"enable", "report", "collect"} => perf.inc = 1
    /\ perf.st = "enabled" => helper.pc \in {"report", "collect"}
    /\ target.exe = "work" => \E p \in Plans : uses[p] = 1

\* The events of an attempt are those the plan asked for, or the software events
\* with the flag that says so, and only where the plan leaves the choice.
SourceInv ==
    /\ helper.pc \in Consumed \ {"select", "probe"} =>
        /\ helper.src # "none"
        /\ plan[helper.p].src = "software" => helper.src = "software"
        /\ plan[helper.p].src = "hardware" => helper.src = "hardware" /\ helper.reason = "no"
        /\ plan[helper.p].src = "short" => helper.src = "software" /\ helper.reason = "yes"
        /\ plan[helper.p].src = "auto" => (helper.reason = "yes" <=> helper.src = "software")
        /\ helper.attempt = "probe" => plan[helper.p].src = "auto"
    /\ helper.pc = "probe" => plan[helper.p].src = "auto"
    /\ helper.pc \in Resting \cup Front \cup Admission \cup {"select", "probe"} =>
          helper.reason = "no"

\* The client of the connection in service, and the published file.
OutInv ==
    /\ \A p \in Plans : out[p] # "none" => uses[p] = 1
    /\ helper.pc \in Consumed \ {"unlink", "reply", "failed"} => out[helper.p] = "none"
    /\ helper.pc \in {"unlink", "reply"} => out[helper.p] = helper.src
    /\ (helper.pc = "failed" /\ (faults = 0 \/ helper.code = "external")) => out[helper.p] = "none"

ClientInv ==
    /\ HelperEvidenceHonest
    /\ helper.pc \in Served => client[helper.p] \in {"waiting", "ready", "timeout"}
    /\ \A p \in Plans :
         /\ client[p] = "ready" => helper.pc \in Consumed /\ helper.p = p
         /\ sends[p] = 0 => uses[p] = 0 /\ client[p] = "idle"
         /\ (/\ sends[p] = 1 /\ client[p] \in {"waiting", "abandoned"}
             /\ ~(helper.pc \in Served /\ helper.p = p)) => uses[p] = 0
    /\ (helper.pc \in Front \cup Admission /\ sends[helper.p] = 1) => uses[helper.p] = 0

CollectEffect(p) ==
    /\ helper.pc \notin {"down", "stuck"} /\ helper.p # p
    /\ client[p] \notin {"waiting", "ready", "abandoned"}
    /\ client' = [client EXCEPT ![p] = "waiting"]
    /\ sends' = [sends EXCEPT ![p] = @ + 1]
    /\ UNCHANGED <<Outside, helper, perf, Disk, History>>

LEMMA CollectSends == \A p \in Plans : Collect(p) => CollectEffect(p)
  BY Zenon DEF Collect, CollectEffect, SafeSocketIdentity

\* The steps of Next one by one: what each alternative of an action does.
Advance(from, to) == At(from) /\ GoTo(to) /\ Quiet
Admitted == Advance("read", "identity") /\ Unexpired
Revalidated == Advance("revalidate", "enable") /\ target.inc = 1

Refused ==
    /\ helper.pc \in Front \cup {"capacity", "reserve"}
    /\ helper.pc = "reserve" => out[helper.p] # "none"
    /\ helper' = Idle /\ client' = Ends(helper.p, "error")
    /\ UNCHANGED <<Outside, sends, perf, Disk, History>>

Recovered ==
    /\ At("recover") /\ temp' = NoTemp /\ GoTo("prune")
    /\ UNCHANGED <<Outside, Calls, perf, marker, out, History>>

Tracking ==
    /\ At("prune") /\ marker[helper.p] = 0 /\ GoTo("capacity") /\ marker' = Pruned
    /\ UNCHANGED <<Outside, Calls, perf, temp, out, History>>

Replayed ==
    /\ At("prune") /\ helper' = Idle /\ client' = Ends(helper.p, "error")
    /\ marker' \in {marker, Pruned} /\ (marker[helper.p] # 0 => UNCHANGED marker)
    /\ UNCHANGED <<Outside, sends, perf, temp, out, History>>

Reserved ==
    /\ At("reserve") /\ out[helper.p] = "none"
    /\ temp' = [temp EXCEPT ![helper.p]["formal"] = "private"]
    /\ helper' = [helper EXCEPT !.pc = "spawn", !.attempt = "formal"]
    /\ UNCHANGED <<Outside, Calls, perf, marker, out, History>>

Stopped(code) == helper.pc \in Running \cup {"spawn"} /\ Stop(code)

Bound ==
    /\ At("spawn") /\ perf' = [st |-> "bound", inc |-> target.inc] /\ GoTo("barrier")
    /\ UNCHANGED <<Outside, Calls, Disk, History>>

Enabled ==
    /\ At("enable") /\ perf' = [perf EXCEPT !.st = "enabled"] /\ GoTo("report")
    /\ UNCHANGED <<Outside, Calls, Disk, History>>

Notified ==
    /\ At("report") /\ helper.attempt # "probe" /\ client[helper.p] = "waiting"
    /\ helper' = [helper EXCEPT !.pc = "collect", !.ready = "yes"]
    /\ client' = [client EXCEPT ![helper.p] = "ready"]
    /\ UNCHANGED <<Outside, sends, perf, Disk, History>>

Recorded(to) ==
    /\ At("collect") /\ (helper.attempt = "probe" <=> to = "probed")
    /\ perf' = NoPerf /\ GoTo(to)
    /\ UNCHANGED <<Outside, Calls, Disk, History>>

Probed(src, reason, code) ==
    /\ helper.pc \in {"probed", "failed"} /\ helper.attempt = "probe"
    /\ At("failed") => helper.code = "external"
    /\ src \in {"hardware", "software"} /\ (reason = "yes" <=> src = "software")
    /\ temp' = [temp EXCEPT ![helper.p]["probe"] = "none"]
    /\ helper' = [helper EXCEPT !.pc = "reserve", !.attempt = "none", !.src = src,
                                !.reason = reason, !.code = code]
    /\ UNCHANGED <<Outside, Calls, perf, marker, out, History>>

ProbeRefused ==
    /\ At("failed") /\ helper.attempt = "probe" /\ helper' = Idle
    /\ client' = Ends(helper.p, "error")
    /\ temp' = [temp EXCEPT ![helper.p]["probe"] = "none"]
    /\ UNCHANGED <<Outside, sends, perf, marker, out, History>>

Abandoned ==
    /\ At("failed") /\ helper.attempt # "probe" /\ helper' = Idle
    /\ client' = Ends(helper.p, "error")
    /\ temp' = [temp EXCEPT ![helper.p]["formal"] = "none"]
    /\ UNCHANGED <<Outside, sends, perf, marker, out, History>>

LeftOver ==
    /\ At("failed") /\ helper.attempt # "probe" /\ helper' = Idle
    /\ client' = Ends(helper.p, "error")
    /\ faults < MaxFaults /\ faults' = faults + 1
    /\ gap' = IF temp[helper.p]["formal"] = "chmodded" THEN "yes" ELSE gap
    /\ UNCHANGED <<Outside, sends, perf, temp, marker, out, uses>>

Restarted ==
    /\ At("down") /\ temp' = NoTemp /\ marker' = Pruned /\ helper' = Idle
    /\ UNCHANGED <<Outside, Calls, perf, out, History>>

Stuck ==
    /\ At("down") /\ ~Recoverable /\ helper' = [Idle EXCEPT !.pc = "stuck"]
    /\ UNCHANGED <<Outside, Calls, perf, Disk, History>>

Elementary ==
    \/ Tick \/ TargetReplaced \/ TargetExecs
    \/ \E p \in Plans : CollectEffect(p) \/ ClientTimeout(p) \/ Accept(p)
    \/ Admitted \/ Advance("identity", "recover") \/ Advance("capacity", "consume")
    \/ Advance("barrier", "revalidate") \/ Revalidated \/ Advance("report", "collect")
    \/ Refused \/ Recovered \/ Tracking \/ Replayed \/ ConsumePlan \/ SelectEventSource
    \/ StartProbe \/ Reserved \/ Bound \/ Stopped("other") \/ Stopped("external") \/ Enabled
    \/ Notified \/ Recorded("probed") \/ Recorded("chmod")
    \/ SetPermissions \/ ChangeGroup \/ LinkOutput \/ RemoveTemporary
    \/ \E src \in Events, reason \in Flags, code \in Codes : Probed(src, reason, code)
    \/ ProbeRefused \/ FallBack \/ Abandoned \/ LeftOver \/ CollectionResponse
    \/ Restarted \/ Stuck \/ PublishFails \/ Crash

LEMMA NextElementary ==
  ASSUME HelperType, Next
  PROVE  Elementary
<1> USE DEF Elementary
<1>1. CASE HandleConnection
  BY <1>1 DEF HandleConnection, RefusePeer, RefuseFrame, RefuseFields, RefusePolicy,
     RefuseNow, Refuse, Reply, At, Admitted, Advance, Refused, Front
<1>2. CASE AssertPidIdentity
  BY <1>2 DEF AssertPidIdentity, RefuseNow, Refuse, Reply, At, Advance, Refused, Front
<1>3. CASE Recover
  BY <1>3 DEF Recover, RefuseNow, Refuse, Reply, At, Recovered, Refused, Front
<1>4. CASE Prune
  BY <1>4 DEF Prune, Reply, Tracking, Replayed
<1>5. CASE AuthorizeSpoolCapacity
  BY <1>5 DEF AuthorizeSpoolCapacity, RefuseNow, Refuse, Reply, At, Advance, Refused, Front
<1>6. CASE ReserveOutput
  BY <1>6 DEF ReserveOutput, RefuseNow, Refuse, Reply, At, Reserved, Refused, Front
<1>7. CASE SpawnPerf
  BY <1>7 DEF SpawnPerf, Bound, Stopped, At
<1>8. CASE Barrier
  BY <1>8 DEF Barrier, Advance, Stopped, At, Running
<1>9. CASE Revalidate
  BY <1>9 DEF Revalidate, Planned, PidCurrent, Revalidated, Advance, Stopped, At, Running
<1>10. CASE Enable
  BY <1>10 DEF Enable, Enabled, Stopped, At, Running
<1>11. CASE NotifyReady
  BY <1>11 DEF NotifyReady, Reports, Advance, Notified, Stopped, At, Running
<1>12. CASE StopPerf
  <2>1. CASE helper.attempt = "probe"
    BY <1>12, <2>1 DEF StopPerf, Recorded, GoTo, Stopped, At, Running
  <2>2. CASE helper.attempt # "probe"
    BY <1>12, <2>2 DEF StopPerf, Recorded, GoTo, Stopped, At, Running
  <2> QED BY <2>1, <2>2
<1>13. CASE NoUsableCounts
  BY <1>13 DEF NoUsableCounts, Stopped, At, Running
<1>14. CASE ProbeEnds
  <2>1. CASE At("probed")
    <3>1. PICK src \in ProbeVerdict :
            helper' = [helper EXCEPT !.pc = "reserve", !.attempt = "none", !.src = src,
                                     !.reason = IF src = "software" THEN "yes" ELSE "no"]
      BY <1>14, <2>1 DEF ProbeEnds, At
    <3> DEFINE r == IF src = "software" THEN "yes" ELSE "no"
    <3>2. helper' = [helper EXCEPT !.pc = "reserve", !.attempt = "none", !.src = src,
                                   !.reason = r, !.code = helper.code]
      BY <3>1 DEF HelperType
    <3>3. Probed(src, r, helper.code)
      BY <1>14, <2>1, <3>2 DEF ProbeEnds, Probed, ProbeVerdict, At, Calls
    <3>4. src \in Events /\ r \in Flags /\ helper.code \in Codes
      BY DEF ProbeVerdict, Events, Flags, HelperType
    <3> QED BY <3>3, <3>4
  <2>2. CASE At("failed") /\ helper.code = "external"
    <3>1. Probed("software", "yes", "none")
      BY <1>14, <2>2 DEF ProbeEnds, Probed, At, Calls
    <3> QED BY <3>1 DEF Events, Flags, Codes
  <2>3. CASE At("failed") /\ helper.code # "external"
    BY <1>14, <2>3 DEF ProbeEnds, ProbeRefused, Reply, At
  <2> QED BY <1>14, <2>1, <2>2, <2>3 DEF ProbeEnds, At
<1>15. CASE AttemptFails
  BY <1>15 DEF AttemptFails, Abandoned, LeftOver, Reply, History
<1>16. CASE PrepareProductionEnvironment
  BY <1>16 DEF PrepareProductionEnvironment, Restarted, Stuck, Disk
<1> QED
  BY <1>1, <1>2, <1>3, <1>4, <1>5, <1>6, <1>7, <1>8, <1>9, <1>10, <1>11, <1>12,
     <1>13, <1>14, <1>15, <1>16, CollectSends DEF Next, Serve

\* A plan that is about to be consumed was never consumed.
LEMMA FreshAtConsume ==
  ASSUME HelperType, DiskType, PlanInv, helper.pc = "consume"
  PROVE  helper.p \in Plans /\ uses[helper.p] = 0 /\ marker[helper.p] = 0
<1>1. helper.p \in Plans /\ marker[helper.p] = 0
  BY DEF HelperType, PlanInv, Served, Admission
<1>2. uses[helper.p] # 1
  BY <1>1 DEF PlanInv, Served, Admission, Consumed, Running, Publishing
<1>3. uses[helper.p] \in Nat /\ uses[helper.p] <= 1
  BY <1>1 DEF DiskType, PlanInv
<1> QED BY <1>1, <1>2, <1>3

\* The end of a connection, with an answer that is true of the spool.
LEMMA ConnectionEnds ==
  ASSUME HelperType, ClientType, OutsideType, DiskType, ClientInv,
         NEW answer \in {"error", "ok_software", "ok_hardware"},
         helper.pc \in Served, helper' = Idle, client' = Ends(helper.p, answer),
         UNCHANGED <<plan, sends, out, uses>>, faults' = 0 => faults = 0,
         answer = "ok_software" => out[helper.p] = "software" /\ plan[helper.p].src # "hardware",
         answer = "ok_hardware" =>
            out[helper.p] = "hardware" /\ plan[helper.p].src \in {"hardware", "auto"},
         (answer = "error" /\ faults = 0 /\ sends[helper.p] = 1) => out[helper.p] = "none"
  PROVE  ClientInv'
<1>1. helper.p \in Plans /\ client[helper.p] \in {"waiting", "ready", "timeout"}
  BY DEF HelperType, ClientInv
<1>2. client'[helper.p] \in {answer, "timeout"}
  BY <1>1 DEF Ends, ClientType
<1>3. \A p \in Plans \ {helper.p} : client'[p] = client[p] /\ client[p] # "ready"
  BY <1>1 DEF Ends, ClientType, ClientInv
<1>4. helper'.pc = "listen"
  BY DEF Idle
<1>5. HelperEvidenceHonest'
  BY <1>1, <1>2, <1>3 DEF HelperEvidenceHonest, ClientInv
<1>6. ASSUME NEW p \in Plans
      PROVE  /\ client'[p] # "ready"
             /\ sends[p] = 0 => uses[p] = 0 /\ client'[p] = "idle"
             /\ sends[p] = 1 /\ client'[p] \in {"waiting", "abandoned"} => uses[p] = 0
  BY <1>1, <1>2, <1>3 DEF ClientInv
<1> QED
  BY <1>4, <1>5, <1>6 DEF ClientInv, Served, Front, Admission, Consumed, Running, Publishing

-----------------------------------------------------------------------------
(* Each part is preserved by every step.                                    *)

\* Every step keeps the Helper's record a record of its steps, and a
\* connection has a plan.
LEMMA NextHelperType ==
  ASSUME HelperType, OutsideType, Elementary \/ UNCHANGED vars
  PROVE  HelperType'
<1> USE HelperConstants DEF HelperType, OutsideType, NoPlan, Attempts, Events,
   Flags, Codes, Front, Admission, Running, Publishing, Consumed, Served, Resting
<1>1. CASE Tick \/ TargetReplaced \/ TargetExecs \/ UNCHANGED vars
  BY <1>1 DEF Tick, Observable, Calls, Disk, History, TargetReplaced,
     TargetExecs, vars
<1>2. ASSUME NEW p \in Plans, CollectEffect(p) PROVE HelperType'
  BY <1>2 DEF CollectEffect, Outside, Disk, History
<1>3. ASSUME NEW p \in Plans, ClientTimeout(p) PROVE HelperType'
  BY <1>3 DEF ClientTimeout, Observable, Outside, Disk, History
<1>4. ASSUME NEW p \in Plans, Accept(p) PROVE HelperType'
  <2>1. helper' = [pc |-> "read", p |-> p, now |-> clock, attempt |-> "none", src |-> "none",
                   reason |-> "no", ready |-> "no", code |-> "none"]
    BY <1>4 DEF Accept, Idle
  <2> QED BY <2>1
<1>5. CASE Admitted
  BY <1>5 DEF Admitted, Advance, At, GoTo, Quiet, Outside, Calls, Disk,
     History
<1>6. CASE Advance("identity", "recover") \/ Advance("capacity", "consume") \/
   Advance("barrier", "revalidate") \/ Advance("report", "collect") \/
   Revalidated
  BY <1>6 DEF Advance, At, GoTo, Quiet, Outside, Calls, Disk, History,
     Revalidated
<1>7. CASE Refused \/ ProbeRefused \/ Abandoned \/ LeftOver
  BY <1>7 DEF Refused, Ends, Idle, Outside, Disk, History, ProbeRefused, At,
     Abandoned, LeftOver
<1>8. CASE Recovered
  BY <1>8 DEF Recovered, NoTemp, At, GoTo, Outside, Calls, History
<1>9. CASE Tracking
  BY <1>9 DEF Tracking, Pruned, Expired, At, GoTo, Outside, Calls, History
<1>10. CASE Replayed
  BY <1>10 DEF Replayed, Pruned, Expired, At, Ends, Idle, Outside, History
<1>11. CASE ConsumePlan
  BY <1>11 DEF ConsumePlan, At, GoTo, Outside, Calls
<1>12. CASE SelectEventSource
  <2>1. helper.pc = "select" /\ \E to \in {"reserve", "probe"}, src \in Events, reason \in Flags :
           helper' = [helper EXCEPT !.pc = to, !.src = src, !.reason = reason]
    <3>1. \A to \in {"reserve", "probe"} :
             [helper EXCEPT !.pc = to] = [helper EXCEPT !.pc = to, !.src = helper.src,
                                                        !.reason = helper.reason]
      OBVIOUS
    <3>2. \A src \in Events : [helper EXCEPT !.pc = "reserve", !.src = src] =
             [helper EXCEPT !.pc = "reserve", !.src = src, !.reason = helper.reason]
      OBVIOUS
    <3> QED BY <1>12, <3>1, <3>2 DEF SelectEventSource, At
  <2>2. helper.p \in Plans
    BY <2>1
  <2>3. helper'.p = helper.p
    BY <2>1
  <2>4. PICK to \in {"reserve", "probe"}, src \in Events, reason \in Flags :
           helper' = [helper EXCEPT !.pc = to, !.src = src, !.reason = reason]
    BY <2>1
  <2>5. to \in Served
    OBVIOUS
  <2>6. helper' \in [pc : Served \cup Resting, p : Plans \cup {NoPlan}, now : Nat,
                    attempt : Attempts, src : Events, reason : Flags, ready : Flags,
                    code : Codes]
    <3> HIDE DEF Served, Resting, NoPlan, Events, Flags, Codes, Attempts
    <3> QED BY <2>4, <2>5
  <2> QED BY <2>2, <2>3, <2>6
<1>13. CASE StartProbe
  BY <1>13 DEF StartProbe, At, Outside, Calls, History
<1>14. CASE Reserved
  BY <1>14 DEF Reserved, At, Outside, Calls, History
<1>15. CASE Bound \/ Enabled
  BY <1>15 DEF Bound, At, GoTo, Outside, Calls, Disk, History, Enabled
<1>16. ASSUME NEW code \in {"other", "external"}, Stopped(code) PROVE HelperType'
  <2>1. /\ helper.pc \in Running \cup {"spawn"}
        /\ helper' = [helper EXCEPT !.pc = "failed", !.code = code]
    BY <1>16 DEF Stopped, Stop
  <2>2. helper.p \in Plans
    BY <2>1
  <2>3. helper'.p = helper.p
    BY <2>1
  <2>4. "failed" \in Served /\ code \in Codes
    OBVIOUS
  <2>5. helper' \in [pc : Served \cup Resting, p : Plans \cup {NoPlan}, now : Nat,
                    attempt : Attempts, src : Events, reason : Flags, ready : Flags,
                    code : Codes]
    <3> HIDE DEF Served, Resting, NoPlan, Events, Flags, Codes, Attempts
    <3> QED BY <2>1, <2>4
  <2> QED BY <2>2, <2>3, <2>5
<1>17. CASE Notified
  BY <1>17 DEF Notified, At, Outside, Disk, History
<1>18. CASE Recorded("probed") \/ Recorded("chmod")
  BY <1>18 DEF Recorded, NoPerf, At, GoTo, Outside, Calls, Disk, History
<1>19. CASE SetPermissions \/ ChangeGroup \/ RemoveTemporary
  BY <1>19 DEF SetPermissions, Publish, At, GoTo, Outside, Calls, History,
     ChangeGroup, RemoveTemporary
<1>20. CASE LinkOutput
  BY <1>20 DEF LinkOutput, Publish, At, GoTo, Outside, Calls, History
<1>21. ASSUME NEW src \in Events, NEW reason \in Flags, NEW code \in Codes,
            Probed(src, reason, code)
     PROVE  HelperType'
  BY <1>21 DEF Probed, At, Outside, Calls, History
<1>22. CASE FallBack
  BY <1>22 DEF FallBack, MayFallBack, At, Outside, Calls, History
<1>23. CASE CollectionResponse
  BY <1>23 DEF CollectionResponse, Answered, Expected, VerifyHelperArtifact,
     At, Reply, Ends, Idle, Outside, Disk, History
<1>24. CASE Restarted \/ Stuck
  BY <1>24 DEF Restarted, NoTemp, Pruned, Expired, At, Idle, Outside, Calls,
     History, Stuck, Disk
<1>25. CASE PublishFails
  <2>1. /\ helper.pc \in {"chmod", "chown", "link", "unlink"}
        /\ helper' = [helper EXCEPT !.pc = "failed", !.code = "other"]
    BY <1>25 DEF PublishFails
  <2>2. helper.p \in Plans
    BY <2>1
  <2>3. helper'.p = helper.p
    BY <2>1
  <2>4. "failed" \in Served
    OBVIOUS
  <2>5. helper' \in [pc : Served \cup Resting, p : Plans \cup {NoPlan}, now : Nat,
                    attempt : Attempts, src : Events, reason : Flags, ready : Flags,
                    code : Codes]
    <3> HIDE DEF Served, Resting, NoPlan
    <3> QED BY <2>1, <2>4
  <2> QED BY <2>2, <2>3, <2>5
<1>26. CASE Crash
  BY <1>26 DEF Crash, Serving, Idle, NoPerf, Outside, Disk
<1> HIDE DEF HelperType, OutsideType
<1> QED BY <1>1, <1>2, <1>3, <1>4, <1>5, <1>6, <1>7, <1>8, <1>9, <1>10, <1>11,
   <1>12, <1>13, <1>14, <1>15, <1>16, <1>17, <1>18, <1>19, <1>20, <1>21, <1>22,
   <1>23, <1>24, <1>25, <1>26 DEF Elementary

\* Every step keeps the calls of the Broker's client typed.
LEMMA NextClientType ==
  ASSUME HelperType, ClientType, Elementary \/ UNCHANGED vars
  PROVE  ClientType'
<1> USE HelperConstants DEF HelperType, ClientType, Front, Admission, Running,
   Publishing, Consumed, Served, Resting
<1>1. CASE Tick \/ TargetReplaced \/ TargetExecs \/ UNCHANGED vars
  BY <1>1 DEF Tick, Observable, Calls, Disk, History, TargetReplaced,
     TargetExecs, vars
<1>2. ASSUME NEW p \in Plans, CollectEffect(p) PROVE ClientType'
  BY <1>2 DEF CollectEffect, Outside, Disk, History
<1>3. ASSUME NEW p \in Plans, ClientTimeout(p) PROVE ClientType'
  BY <1>3 DEF ClientTimeout, Observable, Outside, Disk, History
<1>4. ASSUME NEW p \in Plans, Accept(p) PROVE ClientType'
  BY <1>4 DEF Accept, At, Idle, Outside, Disk, History
<1>5. CASE Admitted
  BY <1>5 DEF Admitted, Advance, At, GoTo, Quiet, Outside, Calls, Disk,
     History
<1>6. CASE Advance("identity", "recover") \/ Advance("capacity", "consume") \/
   Advance("barrier", "revalidate") \/ Advance("report", "collect") \/
   Revalidated
  BY <1>6 DEF Advance, At, GoTo, Quiet, Outside, Calls, Disk, History,
     Revalidated
<1>7. CASE Refused \/ ProbeRefused \/ Abandoned \/ LeftOver
  BY <1>7 DEF Refused, Ends, Idle, Outside, Disk, History, ProbeRefused, At,
     Abandoned, LeftOver
<1>8. CASE Recovered
  BY <1>8 DEF Recovered, NoTemp, At, GoTo, Outside, Calls, History
<1>9. CASE Tracking
  BY <1>9 DEF Tracking, Pruned, Expired, At, GoTo, Outside, Calls, History
<1>10. CASE Replayed
  BY <1>10 DEF Replayed, Pruned, Expired, At, Ends, Idle, Outside, History
<1>11. CASE ConsumePlan
  BY <1>11 DEF ConsumePlan, At, GoTo, Outside, Calls
<1>12. CASE SelectEventSource
  BY <1>12 DEF SelectEventSource, At, Quiet, Outside, Calls, Disk, History
<1>13. CASE StartProbe
  BY <1>13 DEF StartProbe, At, Outside, Calls, History
<1>14. CASE Reserved
  BY <1>14 DEF Reserved, At, Outside, Calls, History
<1>15. CASE Bound \/ Enabled
  BY <1>15 DEF Bound, At, GoTo, Outside, Calls, Disk, History, Enabled
<1>16. ASSUME NEW code \in {"other", "external"}, Stopped(code) PROVE ClientType'
  BY <1>16 DEF Stopped, Stop, NoPerf, Outside, Calls, Disk, History
<1>17. CASE Notified
  BY <1>17 DEF Notified, At, Outside, Disk, History
<1>18. CASE Recorded("probed") \/ Recorded("chmod")
  BY <1>18 DEF Recorded, NoPerf, At, GoTo, Outside, Calls, Disk, History
<1>19. CASE SetPermissions \/ ChangeGroup \/ RemoveTemporary
  BY <1>19 DEF SetPermissions, Publish, At, GoTo, Outside, Calls, History,
     ChangeGroup, RemoveTemporary
<1>20. CASE LinkOutput
  BY <1>20 DEF LinkOutput, Publish, At, GoTo, Outside, Calls, History
<1>21. ASSUME NEW src \in Events, NEW reason \in Flags, NEW code \in Codes,
            Probed(src, reason, code)
     PROVE  ClientType'
  BY <1>21 DEF Probed, At, Outside, Calls, History
<1>22. CASE FallBack
  BY <1>22 DEF FallBack, MayFallBack, At, Outside, Calls, History
<1>23. CASE CollectionResponse
  BY <1>23 DEF CollectionResponse, Answered, Expected, VerifyHelperArtifact,
     At, Reply, Ends, Idle, Outside, Disk, History
<1>24. CASE Restarted \/ Stuck
  BY <1>24 DEF Restarted, NoTemp, Pruned, Expired, At, Idle, Outside, Calls,
     History, Stuck, Disk
<1>25. CASE PublishFails
  BY <1>25 DEF PublishFails, Fails, Outside, Calls, Disk
<1>26. CASE Crash
  BY <1>26 DEF Crash, Serving, Idle, NoPerf, Outside, Disk
<1> HIDE DEF HelperType, ClientType
<1> QED BY <1>1, <1>2, <1>3, <1>4, <1>5, <1>6, <1>7, <1>8, <1>9, <1>10, <1>11,
   <1>12, <1>13, <1>14, <1>15, <1>16, <1>17, <1>18, <1>19, <1>20, <1>21, <1>22,
   <1>23, <1>24, <1>25, <1>26 DEF Elementary

\* Every step keeps clock, plans, target and perf typed.
LEMMA NextOutsideType ==
  ASSUME OutsideType, Elementary \/ UNCHANGED vars
  PROVE  OutsideType'
<1> USE HelperConstants DEF OutsideType
<1>1. CASE Tick \/ TargetReplaced \/ TargetExecs \/ UNCHANGED vars
  BY <1>1 DEF Tick, Observable, Calls, Disk, History, TargetReplaced,
     TargetExecs, vars
<1>2. ASSUME NEW p \in Plans, CollectEffect(p) PROVE OutsideType'
  BY <1>2 DEF CollectEffect, Outside, Disk, History
<1>3. ASSUME NEW p \in Plans, ClientTimeout(p) PROVE OutsideType'
  BY <1>3 DEF ClientTimeout, Observable, Outside, Disk, History
<1>4. ASSUME NEW p \in Plans, Accept(p) PROVE OutsideType'
  BY <1>4 DEF Accept, At, Idle, Outside, Disk, History
<1>5. CASE Admitted
  BY <1>5 DEF Admitted, Advance, At, GoTo, Quiet, Outside, Calls, Disk,
     History
<1>6. CASE Advance("identity", "recover") \/ Advance("capacity", "consume") \/
   Advance("barrier", "revalidate") \/ Advance("report", "collect") \/
   Revalidated
  BY <1>6 DEF Advance, At, GoTo, Quiet, Outside, Calls, Disk, History,
     Revalidated
<1>7. CASE Refused \/ ProbeRefused \/ Abandoned \/ LeftOver
  BY <1>7 DEF Refused, Ends, Idle, Outside, Disk, History, ProbeRefused, At,
     Abandoned, LeftOver
<1>8. CASE Recovered
  BY <1>8 DEF Recovered, NoTemp, At, GoTo, Outside, Calls, History
<1>9. CASE Tracking
  BY <1>9 DEF Tracking, Pruned, Expired, At, GoTo, Outside, Calls, History
<1>10. CASE Replayed
  BY <1>10 DEF Replayed, Pruned, Expired, At, Ends, Idle, Outside, History
<1>11. CASE ConsumePlan
  BY <1>11 DEF ConsumePlan, At, GoTo, Outside, Calls
<1>12. CASE SelectEventSource
  BY <1>12 DEF SelectEventSource, At, Quiet, Outside, Calls, Disk, History
<1>13. CASE StartProbe
  BY <1>13 DEF StartProbe, At, Outside, Calls, History
<1>14. CASE Reserved
  BY <1>14 DEF Reserved, At, Outside, Calls, History
<1>15. CASE Bound \/ Enabled
  BY <1>15 DEF Bound, At, GoTo, Outside, Calls, Disk, History, Enabled
<1>16. ASSUME NEW code \in {"other", "external"}, Stopped(code) PROVE OutsideType'
  BY <1>16 DEF Stopped, Stop, NoPerf, Outside, Calls, Disk, History
<1>17. CASE Notified
  BY <1>17 DEF Notified, At, Outside, Disk, History
<1>18. CASE Recorded("probed") \/ Recorded("chmod")
  BY <1>18 DEF Recorded, NoPerf, At, GoTo, Outside, Calls, Disk, History
<1>19. CASE SetPermissions \/ ChangeGroup \/ RemoveTemporary
  BY <1>19 DEF SetPermissions, Publish, At, GoTo, Outside, Calls, History,
     ChangeGroup, RemoveTemporary
<1>20. CASE LinkOutput
  BY <1>20 DEF LinkOutput, Publish, At, GoTo, Outside, Calls, History
<1>21. ASSUME NEW src \in Events, NEW reason \in Flags, NEW code \in Codes,
            Probed(src, reason, code)
     PROVE  OutsideType'
  BY <1>21 DEF Probed, At, Outside, Calls, History
<1>22. CASE FallBack
  BY <1>22 DEF FallBack, MayFallBack, At, Outside, Calls, History
<1>23. CASE CollectionResponse
  BY <1>23 DEF CollectionResponse, Answered, Expected, VerifyHelperArtifact,
     At, Reply, Ends, Idle, Outside, Disk, History
<1>24. CASE Restarted \/ Stuck
  BY <1>24 DEF Restarted, NoTemp, Pruned, Expired, At, Idle, Outside, Calls,
     History, Stuck, Disk
<1>25. CASE PublishFails
  BY <1>25 DEF PublishFails, Fails, Outside, Calls, Disk
<1>26. CASE Crash
  BY <1>26 DEF Crash, Serving, Idle, NoPerf, Outside, Disk
<1> HIDE DEF OutsideType
<1> QED BY <1>1, <1>2, <1>3, <1>4, <1>5, <1>6, <1>7, <1>8, <1>9, <1>10, <1>11,
   <1>12, <1>13, <1>14, <1>15, <1>16, <1>17, <1>18, <1>19, <1>20, <1>21, <1>22,
   <1>23, <1>24, <1>25, <1>26 DEF Elementary

\* Every step keeps the files and the history typed.
LEMMA NextDiskType ==
  ASSUME HelperType, OutsideType, DiskType, Elementary \/ UNCHANGED vars
  PROVE  DiskType'
<1> USE HelperConstants DEF HelperType, OutsideType, DiskType, Events, Flags,
   Kinds, Front, Admission, Running, Publishing, Consumed, Served, Resting
<1>1. CASE Tick \/ TargetReplaced \/ TargetExecs \/ UNCHANGED vars
  BY <1>1 DEF Tick, Observable, Calls, Disk, History, TargetReplaced,
     TargetExecs, vars
<1>2. ASSUME NEW p \in Plans, CollectEffect(p) PROVE DiskType'
  BY <1>2 DEF CollectEffect, Outside, Disk, History
<1>3. ASSUME NEW p \in Plans, ClientTimeout(p) PROVE DiskType'
  BY <1>3 DEF ClientTimeout, Observable, Outside, Disk, History
<1>4. ASSUME NEW p \in Plans, Accept(p) PROVE DiskType'
  BY <1>4 DEF Accept, At, Idle, Outside, Disk, History
<1>5. CASE Admitted
  BY <1>5 DEF Admitted, Advance, At, GoTo, Quiet, Outside, Calls, Disk,
     History
<1>6. CASE Advance("identity", "recover") \/ Advance("capacity", "consume") \/
   Advance("barrier", "revalidate") \/ Advance("report", "collect") \/
   Revalidated
  BY <1>6 DEF Advance, At, GoTo, Quiet, Outside, Calls, Disk, History,
     Revalidated
<1>7. CASE Refused
  BY <1>7 DEF Refused, Ends, Idle, Outside, Disk, History
<1>8. CASE Recovered
  BY <1>8 DEF Recovered, NoTemp, At, GoTo, Outside, Calls, History
<1>9. CASE Tracking
  BY <1>9 DEF Tracking, Pruned, Expired, At, GoTo, Outside, Calls, History
<1>10. CASE Replayed
  <2>1. Pruned \in [Plans -> 0..MaxClock]
    BY DEF Pruned
  <2> QED BY <1>10, <2>1 DEF Replayed, History
<1>11. CASE ConsumePlan
  BY <1>11 DEF ConsumePlan, At, GoTo, Outside, Calls
<1>12. CASE SelectEventSource
  BY <1>12 DEF SelectEventSource, At, Quiet, Outside, Calls, Disk, History
<1>13. CASE StartProbe
  BY <1>13 DEF StartProbe, At, Outside, Calls, History
<1>14. CASE Reserved
  BY <1>14 DEF Reserved, At, Outside, Calls, History
<1>15. CASE Bound \/ Enabled
  BY <1>15 DEF Bound, At, GoTo, Outside, Calls, Disk, History, Enabled
<1>16. ASSUME NEW code \in {"other", "external"}, Stopped(code) PROVE DiskType'
  BY <1>16 DEF Stopped, Stop, NoPerf, Outside, Calls, Disk, History
<1>17. CASE Notified
  BY <1>17 DEF Notified, At, Outside, Disk, History
<1>18. CASE Recorded("probed") \/ Recorded("chmod")
  BY <1>18 DEF Recorded, NoPerf, At, GoTo, Outside, Calls, Disk, History
<1>19. CASE SetPermissions
  BY <1>19 DEF SetPermissions, Publish, At, GoTo, Outside, Calls, History
<1>20. CASE ChangeGroup
  BY <1>20 DEF ChangeGroup, Publish, At, GoTo, Outside, Calls, History
<1>21. CASE LinkOutput
  BY <1>21 DEF LinkOutput, Publish, At, GoTo, Outside, Calls, History
<1>22. CASE RemoveTemporary
  BY <1>22 DEF RemoveTemporary, Publish, At, GoTo, Outside, Calls, History
<1>23. ASSUME NEW src \in Events, NEW reason \in Flags, NEW code \in Codes,
            Probed(src, reason, code)
     PROVE  DiskType'
  BY <1>23 DEF Probed, At, Outside, Calls, History
<1>24. CASE ProbeRefused
  BY <1>24 DEF ProbeRefused, At, Ends, Idle, Outside, History
<1>25. CASE FallBack
  BY <1>25 DEF FallBack, MayFallBack, At, Outside, Calls, History
<1>26. CASE Abandoned
  BY <1>26 DEF Abandoned, At, Ends, Idle, Outside, History
<1>27. CASE LeftOver
  BY <1>27 DEF LeftOver, At, Ends, Idle, Outside
<1>28. CASE CollectionResponse
  BY <1>28 DEF CollectionResponse, Answered, Expected, VerifyHelperArtifact,
     At, Reply, Ends, Idle, Outside, Disk, History
<1>29. CASE Restarted \/ Stuck
  BY <1>29 DEF Restarted, NoTemp, Pruned, Expired, At, Idle, Outside, Calls,
     History, Stuck, Disk
<1>30. CASE PublishFails
  BY <1>30 DEF PublishFails, Fails, Outside, Calls, Disk
<1>31. CASE Crash
  BY <1>31 DEF Crash, Serving, Idle, NoPerf, Outside, Disk
<1> HIDE DEF HelperType, OutsideType, DiskType
<1> QED BY <1>1, <1>2, <1>3, <1>4, <1>5, <1>6, <1>7, <1>8, <1>9, <1>10, <1>11,
   <1>12, <1>13, <1>14, <1>15, <1>16, <1>17, <1>18, <1>19, <1>20, <1>21, <1>22,
   <1>23, <1>24, <1>25, <1>26, <1>27, <1>28, <1>29, <1>30, <1>31 DEF Elementary

\* The steps of a connection follow the attempt it is in.
LEMMA NextAttempt ==
  ASSUME HelperType, AttemptInv, Elementary \/ UNCHANGED vars
  PROVE  AttemptInv'
<1> USE HelperConstants DEF HelperType, AttemptInv, Attempts, Flags, Front,
   Admission, Running, Publishing, Consumed, Served, Resting
<1>1. CASE Tick \/ TargetReplaced \/ TargetExecs \/ UNCHANGED vars
  BY <1>1 DEF Tick, Observable, Calls, Disk, History, TargetReplaced,
     TargetExecs, vars
<1>2. ASSUME NEW p \in Plans, CollectEffect(p) PROVE AttemptInv'
  BY <1>2 DEF CollectEffect, Outside, Disk, History
<1>3. ASSUME NEW p \in Plans, ClientTimeout(p) PROVE AttemptInv'
  BY <1>3 DEF ClientTimeout, Observable, Outside, Disk, History
<1>4. ASSUME NEW p \in Plans, Accept(p) PROVE AttemptInv'
  BY <1>4 DEF Accept, At, Idle, Outside, Disk, History
<1>5. CASE Admitted
  BY <1>5 DEF Admitted, Advance, At, GoTo, Quiet, Outside, Calls, Disk,
     History
<1>6. CASE Advance("identity", "recover") \/ Advance("capacity", "consume") \/
   Advance("barrier", "revalidate") \/ Advance("report", "collect") \/
   Revalidated
  BY <1>6 DEF Advance, At, GoTo, Quiet, Outside, Calls, Disk, History,
     Revalidated
<1>7. CASE Refused \/ ProbeRefused \/ Abandoned \/ LeftOver
  BY <1>7 DEF Refused, Ends, Idle, Outside, Disk, History, ProbeRefused, At,
     Abandoned, LeftOver
<1>8. CASE Recovered
  BY <1>8 DEF Recovered, NoTemp, At, GoTo, Outside, Calls, History
<1>9. CASE Tracking
  BY <1>9 DEF Tracking, Pruned, Expired, At, GoTo, Outside, Calls, History
<1>10. CASE Replayed
  BY <1>10 DEF Replayed, Pruned, Expired, At, Ends, Idle, Outside, History
<1>11. CASE ConsumePlan
  BY <1>11 DEF ConsumePlan, At, GoTo, Outside, Calls
<1>12. CASE SelectEventSource
  BY <1>12 DEF SelectEventSource, At, Quiet, Outside, Calls, Disk, History
<1>13. CASE StartProbe
  BY <1>13 DEF StartProbe, At, Outside, Calls, History
<1>14. CASE Reserved
  BY <1>14 DEF Reserved, At, Outside, Calls, History
<1>15. CASE Bound \/ Enabled
  BY <1>15 DEF Bound, At, GoTo, Outside, Calls, Disk, History, Enabled
<1>16. ASSUME NEW code \in {"other", "external"}, Stopped(code) PROVE AttemptInv'
  BY <1>16 DEF Stopped, Stop, NoPerf, Outside, Calls, Disk, History
<1>17. CASE Notified
  BY <1>17 DEF Notified, At, Outside, Disk, History
<1>18. CASE Recorded("probed") \/ Recorded("chmod")
  BY <1>18 DEF Recorded, NoPerf, At, GoTo, Outside, Calls, Disk, History
<1>19. CASE SetPermissions \/ ChangeGroup \/ RemoveTemporary
  BY <1>19 DEF SetPermissions, Publish, At, GoTo, Outside, Calls, History,
     ChangeGroup, RemoveTemporary
<1>20. CASE LinkOutput
  BY <1>20 DEF LinkOutput, Publish, At, GoTo, Outside, Calls, History
<1>21. ASSUME NEW src \in Events, NEW reason \in Flags, NEW code \in Codes,
            Probed(src, reason, code)
     PROVE  AttemptInv'
  BY <1>21 DEF Probed, At, Outside, Calls, History
<1>22. CASE FallBack
  BY <1>22 DEF FallBack, MayFallBack, At, Outside, Calls, History
<1>23. CASE CollectionResponse
  BY <1>23 DEF CollectionResponse, Answered, Expected, VerifyHelperArtifact,
     At, Reply, Ends, Idle, Outside, Disk, History
<1>24. CASE Restarted \/ Stuck
  BY <1>24 DEF Restarted, NoTemp, Pruned, Expired, At, Idle, Outside, Calls,
     History, Stuck, Disk
<1>25. CASE PublishFails
  BY <1>25 DEF PublishFails, Fails, Outside, Calls, Disk
<1>26. CASE Crash
  BY <1>26 DEF Crash, Serving, Idle, NoPerf, Outside, Disk
<1> HIDE DEF HelperType, AttemptInv
<1> QED BY <1>1, <1>2, <1>3, <1>4, <1>5, <1>6, <1>7, <1>8, <1>9, <1>10, <1>11,
   <1>12, <1>13, <1>14, <1>15, <1>16, <1>17, <1>18, <1>19, <1>20, <1>21, <1>22,
   <1>23, <1>24, <1>25, <1>26 DEF Elementary

\* A marker is dropped only after its plan expired, and the frame of a plan
\* without a marker was read after the plan was expired or before it was
\* consumed.
LEMMA NextPlan ==
  ASSUME HelperType, OutsideType, DiskType, PlanInv, Elementary \/ UNCHANGED
     vars
  PROVE  PlanInv'
<1> USE HelperConstants DEF HelperType, OutsideType, DiskType, PlanInv,
   Unexpired, Front, Admission, Running, Publishing, Consumed, Served, Resting
<1>1. CASE Tick \/ TargetReplaced \/ TargetExecs \/ UNCHANGED vars
  BY <1>1 DEF Tick, Observable, Calls, Disk, History, TargetReplaced,
     TargetExecs, vars
<1>2. ASSUME NEW p \in Plans, CollectEffect(p) PROVE PlanInv'
  BY <1>2 DEF CollectEffect, Outside, Disk, History
<1>3. ASSUME NEW p \in Plans, ClientTimeout(p) PROVE PlanInv'
  BY <1>3 DEF ClientTimeout, Observable, Outside, Disk, History
<1>4. ASSUME NEW p \in Plans, Accept(p) PROVE PlanInv'
  BY <1>4 DEF Accept, At, Idle, Outside, Disk, History
<1>5. CASE Admitted
  BY <1>5 DEF Admitted, Advance, At, GoTo, Quiet, Outside, Calls, Disk,
     History
<1>6. CASE Advance("identity", "recover")
  BY <1>6 DEF Advance, At, GoTo, Quiet, Outside, Calls, Disk, History
<1>7. CASE Advance("capacity", "consume")
  BY <1>7 DEF Advance, At, GoTo, Quiet, Outside, Calls, Disk, History
<1>8. CASE Advance("barrier", "revalidate")
  BY <1>8 DEF Advance, At, GoTo, Quiet, Outside, Calls, Disk, History
<1>9. CASE Revalidated
  BY <1>9 DEF Revalidated, Advance, At, GoTo, Quiet, Outside, Calls, Disk,
     History
<1>10. CASE Advance("report", "collect")
  BY <1>10 DEF Advance, At, GoTo, Quiet, Outside, Calls, Disk, History
<1>11. CASE Refused \/ ProbeRefused \/ Abandoned \/ LeftOver
  BY <1>11 DEF Refused, Ends, Idle, Outside, Disk, History, ProbeRefused, At,
     Abandoned, LeftOver
<1>12. CASE Recovered
  BY <1>12 DEF Recovered, NoTemp, At, GoTo, Outside, Calls, History
<1>13. CASE Tracking
  BY <1>13 DEF Tracking, Pruned, Expired, At, GoTo, Outside, Calls, History
<1>14. CASE Replayed
  BY <1>14 DEF Replayed, Pruned, Expired, At, Ends, Idle, Outside, History
<1>15. CASE ConsumePlan
  <2> HIDE DEF PlanInv, HelperType, DiskType, OutsideType, Front, Admission, Consumed
  <2>1. helper.pc = "consume" /\ helper' = [helper EXCEPT !.pc = "select"]
    BY <1>15 DEF ConsumePlan, At, GoTo
  <2>2. helper.p \in Plans /\ uses[helper.p] = 0
    BY <2>1, FreshAtConsume
  <2>3. /\ marker' = [marker EXCEPT ![helper.p] = clock]
        /\ uses' = [uses EXCEPT ![helper.p] = uses[helper.p] + 1]
        /\ UNCHANGED <<clock, plan>>
    BY <1>15 DEF ConsumePlan, Outside
  <2>4. plan[helper.p].expires \in Nat /\ plan[helper.p].expires <= clock + Lifetime
    BY <2>1, <2>2 DEF PlanInv, HelperType, OutsideType, Admission, Front
  <2>5. ASSUME NEW p \in Plans
        PROVE  /\ uses'[p] <= 1
               /\ marker'[p] # 0 => plan[p].expires <= marker'[p] + Lifetime
               /\ uses'[p] = 1 => marker'[p] # 0 \/ plan[p].expires <= clock
    <3>1. CASE p = helper.p
      BY <2>2, <2>3, <2>4, <3>1 DEF DiskType, OutsideType
    <3>2. CASE p # helper.p
      BY <2>2, <2>3, <3>2 DEF DiskType, PlanInv
    <3> QED BY <3>1, <3>2
  <2>6. /\ helper'.pc = "select" /\ helper'.p = helper.p /\ helper'.now = helper.now
        /\ helper.now <= clock
    BY <2>1 DEF HelperType, PlanInv, Admission
  <2>7. uses'[helper.p] = 1
    BY <2>2, <2>3 DEF DiskType
  <2> QED BY <2>3, <2>5, <2>6, <2>7 DEF PlanInv, Consumed, Front, Admission
<1>16. CASE SelectEventSource
  BY <1>16 DEF SelectEventSource, At, Quiet, Outside, Calls, Disk, History
<1>17. CASE StartProbe
  BY <1>17 DEF StartProbe, At, Outside, Calls, History
<1>18. CASE Reserved
  BY <1>18 DEF Reserved, At, Outside, Calls, History
<1>19. CASE Bound
  BY <1>19 DEF Bound, At, GoTo, Outside, Calls, Disk, History
<1>20. ASSUME NEW code \in {"other", "external"}, Stopped(code) PROVE PlanInv'
  BY <1>20 DEF Stopped, Stop, NoPerf, Outside, Calls, Disk, History
<1>21. CASE Enabled
  BY <1>21 DEF Enabled, At, GoTo, Outside, Calls, Disk, History
<1>22. CASE Notified
  BY <1>22 DEF Notified, At, Outside, Disk, History
<1>23. CASE Recorded("probed")
  BY <1>23 DEF Recorded, NoPerf, At, GoTo, Outside, Calls, Disk, History
<1>24. CASE Recorded("chmod")
  BY <1>24 DEF Recorded, NoPerf, At, GoTo, Outside, Calls, Disk, History
<1>25. CASE SetPermissions
  BY <1>25 DEF SetPermissions, Publish, At, GoTo, Outside, Calls, History
<1>26. CASE ChangeGroup
  BY <1>26 DEF ChangeGroup, Publish, At, GoTo, Outside, Calls, History
<1>27. CASE LinkOutput
  BY <1>27 DEF LinkOutput, Publish, At, GoTo, Outside, Calls, History
<1>28. CASE RemoveTemporary
  BY <1>28 DEF RemoveTemporary, Publish, At, GoTo, Outside, Calls, History
<1>29. ASSUME NEW src \in Events, NEW reason \in Flags, NEW code \in Codes,
            Probed(src, reason, code)
     PROVE  PlanInv'
  BY <1>29 DEF Probed, At, Outside, Calls, History
<1>30. CASE FallBack
  BY <1>30 DEF FallBack, MayFallBack, At, Outside, Calls, History
<1>31. CASE CollectionResponse
  BY <1>31 DEF CollectionResponse, Answered, Expected, VerifyHelperArtifact,
     At, Reply, Ends, Idle, Outside, Disk, History
<1>32. CASE Restarted \/ Stuck
  BY <1>32 DEF Restarted, NoTemp, Pruned, Expired, At, Idle, Outside, Calls,
     History, Stuck, Disk
<1>33. CASE PublishFails
  BY <1>33 DEF PublishFails, Fails, Outside, Calls, Disk
<1>34. CASE Crash
  BY <1>34 DEF Crash, Serving, Idle, NoPerf, Outside, Disk
<1> HIDE DEF HelperType, OutsideType, DiskType, PlanInv
<1> QED BY <1>1, <1>2, <1>3, <1>4, <1>5, <1>6, <1>7, <1>8, <1>9, <1>10, <1>11,
   <1>12, <1>13, <1>14, <1>15, <1>16, <1>17, <1>18, <1>19, <1>20, <1>21, <1>22,
   <1>23, <1>24, <1>25, <1>26, <1>27, <1>28, <1>29, <1>30, <1>31, <1>32, <1>33,
   <1>34 DEF Elementary

\* Only a fault between two steps of the publication leaves a file that
\* recovery refuses.
LEMMA NextTemp ==
  ASSUME HelperType, DiskType, AttemptInv, TempInv, Elementary \/ UNCHANGED
     vars
  PROVE  TempInv'
<1> USE HelperConstants DEF HelperType, DiskType, AttemptInv, TempInv,
   Temporary, Kinds, NoTemp, Recoverable, Flags, Front, Admission, Running,
   Publishing, Consumed, Served, Resting
<1>1. CASE Tick \/ TargetReplaced \/ TargetExecs \/ UNCHANGED vars
  BY <1>1 DEF Tick, Observable, Calls, Disk, History, TargetReplaced,
     TargetExecs, vars
<1>2. ASSUME NEW p \in Plans, CollectEffect(p) PROVE TempInv'
  BY <1>2 DEF CollectEffect, Outside, Disk, History
<1>3. ASSUME NEW p \in Plans, ClientTimeout(p) PROVE TempInv'
  BY <1>3 DEF ClientTimeout, Observable, Outside, Disk, History
<1>4. ASSUME NEW p \in Plans, Accept(p) PROVE TempInv'
  BY <1>4 DEF Accept, At, Idle, Outside, Disk, History
<1>5. CASE Admitted
  BY <1>5 DEF Admitted, Advance, At, GoTo, Quiet, Outside, Calls, Disk,
     History
<1>6. CASE Advance("identity", "recover") \/ Advance("capacity", "consume") \/
   Advance("barrier", "revalidate") \/ Advance("report", "collect") \/
   Revalidated
  BY <1>6 DEF Advance, At, GoTo, Quiet, Outside, Calls, Disk, History,
     Revalidated
<1>7. CASE Refused \/ LeftOver
  BY <1>7 DEF Refused, Ends, Idle, Outside, Disk, History, LeftOver, At
<1>8. CASE Recovered
  BY <1>8 DEF Recovered, NoTemp, At, GoTo, Outside, Calls, History
<1>9. CASE Tracking
  BY <1>9 DEF Tracking, Pruned, Expired, At, GoTo, Outside, Calls, History
<1>10. CASE Replayed
  BY <1>10 DEF Replayed, Pruned, Expired, At, Ends, Idle, Outside, History
<1>11. CASE ConsumePlan
  BY <1>11 DEF ConsumePlan, At, GoTo, Outside, Calls
<1>12. CASE SelectEventSource
  BY <1>12 DEF SelectEventSource, At, Quiet, Outside, Calls, Disk, History
<1>13. CASE StartProbe
  BY <1>13 DEF StartProbe, At, Outside, Calls, History
<1>14. CASE Reserved
  BY <1>14 DEF Reserved, At, Outside, Calls, History
<1>15. CASE Bound \/ Enabled
  BY <1>15 DEF Bound, At, GoTo, Outside, Calls, Disk, History, Enabled
<1>16. ASSUME NEW code \in {"other", "external"}, Stopped(code) PROVE TempInv'
  BY <1>16 DEF Stopped, Stop, NoPerf, Outside, Calls, Disk, History
<1>17. CASE Notified
  BY <1>17 DEF Notified, At, Outside, Disk, History
<1>18. CASE Recorded("probed") \/ Recorded("chmod")
  BY <1>18 DEF Recorded, NoPerf, At, GoTo, Outside, Calls, Disk, History
<1>19. CASE SetPermissions \/ ChangeGroup \/ RemoveTemporary
  BY <1>19 DEF SetPermissions, Publish, At, GoTo, Outside, Calls, History,
     ChangeGroup, RemoveTemporary
<1>20. CASE LinkOutput
  BY <1>20 DEF LinkOutput, Publish, At, GoTo, Outside, Calls, History
<1>21. ASSUME NEW src \in Events, NEW reason \in Flags, NEW code \in Codes,
            Probed(src, reason, code)
     PROVE  TempInv'
  BY <1>21 DEF Probed, At, Outside, Calls, History
<1>22. CASE ProbeRefused
  <2>1. helper.p \in Plans /\ temp' = NoTemp
    <3> HIDE DEF TempInv
    <3>1. helper.p \in Plans /\ helper.attempt = "probe"
      BY <1>22 DEF ProbeRefused, At
    <3>2. /\ \A p \in Plans \ {helper.p}, k \in Kinds : temp[p][k] = "none"
          /\ temp[helper.p]["formal"] = "none"
      BY <1>22, <3>1 DEF TempInv, ProbeRefused, At
    <3>3. temp' = [temp EXCEPT ![helper.p]["probe"] = "none"]
      BY <1>22 DEF ProbeRefused
    <3>4. ASSUME NEW p \in Plans, NEW k \in Kinds PROVE temp'[p][k] = "none"
      BY <3>1, <3>2, <3>3
    <3>5. temp' \in [Plans -> [Kinds -> {"none", "private", "chmodded", "group", "linked"}]]
      BY <3>1, <3>3
    <3> QED BY <3>1, <3>4, <3>5
  <2>2. Recoverable'
    BY <2>1
  <2>3. helper'.pc = "listen"
    BY <1>22 DEF ProbeRefused, Idle
  <2> HIDE DEF Recoverable, NoTemp
  <2> QED BY <2>1, <2>2, <2>3
<1>23. CASE FallBack
  BY <1>23 DEF FallBack, MayFallBack, At, Outside, Calls, History
<1>24. CASE Abandoned
  <2>1. helper.p \in Plans /\ temp' = NoTemp
    <3> HIDE DEF TempInv
    <3>1. helper.p \in Plans /\ helper.attempt \in {"formal", "second"}
      BY <1>24 DEF Abandoned, At, Attempts
    <3>2. /\ \A p \in Plans \ {helper.p}, k \in Kinds : temp[p][k] = "none"
          /\ temp[helper.p]["probe"] = "none"
      BY <1>24, <3>1 DEF TempInv, Abandoned, At
    <3>3. temp' = [temp EXCEPT ![helper.p]["formal"] = "none"]
      BY <1>24 DEF Abandoned
    <3>4. ASSUME NEW p \in Plans, NEW k \in Kinds PROVE temp'[p][k] = "none"
      BY <3>1, <3>2, <3>3
    <3>5. temp' \in [Plans -> [Kinds -> {"none", "private", "chmodded", "group", "linked"}]]
      BY <3>1, <3>3
    <3> QED BY <3>1, <3>4, <3>5
  <2>2. Recoverable'
    BY <2>1
  <2>3. helper'.pc = "listen"
    BY <1>24 DEF Abandoned, Idle
  <2> HIDE DEF Recoverable, NoTemp
  <2> QED BY <2>1, <2>2, <2>3
<1>25. CASE CollectionResponse
  BY <1>25 DEF CollectionResponse, Answered, Expected, VerifyHelperArtifact,
     At, Reply, Ends, Idle, Outside, Disk, History
<1>26. CASE Restarted \/ Stuck
  BY <1>26 DEF Restarted, NoTemp, Pruned, Expired, At, Idle, Outside, Calls,
     History, Stuck, Disk
<1>27. CASE PublishFails
  BY <1>27 DEF PublishFails, Fails, Outside, Calls, Disk
<1>28. CASE Crash
  BY <1>28 DEF Crash, Serving, Idle, NoPerf, Outside, Disk
<1> HIDE DEF HelperType, DiskType, AttemptInv, TempInv
<1> QED BY <1>1, <1>2, <1>3, <1>4, <1>5, <1>6, <1>7, <1>8, <1>9, <1>10, <1>11,
   <1>12, <1>13, <1>14, <1>15, <1>16, <1>17, <1>18, <1>19, <1>20, <1>21, <1>22,
   <1>23, <1>24, <1>25, <1>26, <1>27, <1>28 DEF Elementary

\* The events of every attempt are those the plan allows.
LEMMA NextSource ==
  ASSUME HelperType, OutsideType, AttemptInv, SourceInv, Elementary \/
     UNCHANGED vars
  PROVE  SourceInv'
<1> USE HelperConstants DEF HelperType, OutsideType, AttemptInv, SourceInv,
   Sources, Flags, Events, Front, Admission, Running, Publishing, Consumed,
   Served, Resting
<1>1. CASE Tick \/ TargetReplaced \/ TargetExecs \/ UNCHANGED vars
  BY <1>1 DEF Tick, Observable, Calls, Disk, History, TargetReplaced,
     TargetExecs, vars
<1>2. ASSUME NEW p \in Plans, CollectEffect(p) PROVE SourceInv'
  BY <1>2 DEF CollectEffect, Outside, Disk, History
<1>3. ASSUME NEW p \in Plans, ClientTimeout(p) PROVE SourceInv'
  BY <1>3 DEF ClientTimeout, Observable, Outside, Disk, History
<1>4. ASSUME NEW p \in Plans, Accept(p) PROVE SourceInv'
  BY <1>4 DEF Accept, At, Idle, Outside, Disk, History
<1>5. CASE Admitted
  BY <1>5 DEF Admitted, Advance, At, GoTo, Quiet, Outside, Calls, Disk,
     History
<1>6. CASE Advance("identity", "recover") \/ Advance("capacity", "consume") \/
   Advance("barrier", "revalidate") \/ Advance("report", "collect") \/
   Revalidated
  BY <1>6 DEF Advance, At, GoTo, Quiet, Outside, Calls, Disk, History,
     Revalidated
<1>7. CASE Refused \/ ProbeRefused \/ Abandoned \/ LeftOver
  BY <1>7 DEF Refused, Ends, Idle, Outside, Disk, History, ProbeRefused, At,
     Abandoned, LeftOver
<1>8. CASE Recovered
  BY <1>8 DEF Recovered, NoTemp, At, GoTo, Outside, Calls, History
<1>9. CASE Tracking
  BY <1>9 DEF Tracking, Pruned, Expired, At, GoTo, Outside, Calls, History
<1>10. CASE Replayed
  BY <1>10 DEF Replayed, Pruned, Expired, At, Ends, Idle, Outside, History
<1>11. CASE ConsumePlan
  BY <1>11 DEF ConsumePlan, At, GoTo, Outside, Calls
<1>12. CASE SelectEventSource
  BY <1>12 DEF SelectEventSource, At, Quiet, Outside, Calls, Disk, History
<1>13. CASE StartProbe
  BY <1>13 DEF StartProbe, At, Outside, Calls, History
<1>14. CASE Reserved
  BY <1>14 DEF Reserved, At, Outside, Calls, History
<1>15. CASE Bound \/ Enabled
  BY <1>15 DEF Bound, At, GoTo, Outside, Calls, Disk, History, Enabled
<1>16. ASSUME NEW code \in {"other", "external"}, Stopped(code) PROVE SourceInv'
  BY <1>16 DEF Stopped, Stop, NoPerf, Outside, Calls, Disk, History
<1>17. CASE Notified
  BY <1>17 DEF Notified, At, Outside, Disk, History
<1>18. CASE Recorded("probed") \/ Recorded("chmod")
  BY <1>18 DEF Recorded, NoPerf, At, GoTo, Outside, Calls, Disk, History
<1>19. CASE SetPermissions \/ ChangeGroup \/ RemoveTemporary
  BY <1>19 DEF SetPermissions, Publish, At, GoTo, Outside, Calls, History,
     ChangeGroup, RemoveTemporary
<1>20. CASE LinkOutput
  BY <1>20 DEF LinkOutput, Publish, At, GoTo, Outside, Calls, History
<1>21. ASSUME NEW src \in Events, NEW reason \in Flags, NEW code \in Codes,
            Probed(src, reason, code)
     PROVE  SourceInv'
  BY <1>21 DEF Probed, At, Outside, Calls, History
<1>22. CASE FallBack
  BY <1>22 DEF FallBack, MayFallBack, At, Outside, Calls, History
<1>23. CASE CollectionResponse
  BY <1>23 DEF CollectionResponse, Answered, Expected, VerifyHelperArtifact,
     At, Reply, Ends, Idle, Outside, Disk, History
<1>24. CASE Restarted \/ Stuck
  BY <1>24 DEF Restarted, NoTemp, Pruned, Expired, At, Idle, Outside, Calls,
     History, Stuck, Disk
<1>25. CASE PublishFails
  BY <1>25 DEF PublishFails, Fails, Outside, Calls, Disk
<1>26. CASE Crash
  BY <1>26 DEF Crash, Serving, Idle, NoPerf, Outside, Disk
<1> HIDE DEF HelperType, OutsideType, AttemptInv, SourceInv
<1> QED BY <1>1, <1>2, <1>3, <1>4, <1>5, <1>6, <1>7, <1>8, <1>9, <1>10, <1>11,
   <1>12, <1>13, <1>14, <1>15, <1>16, <1>17, <1>18, <1>19, <1>20, <1>21, <1>22,
   <1>23, <1>24, <1>25, <1>26 DEF Elementary

\* A file is published for a consumed plan only, once, with the events of its
\* attempt.
LEMMA NextOut ==
  ASSUME HelperType, DiskType, PlanInv, AttemptInv, OutInv, Elementary \/
     UNCHANGED vars
  PROVE  OutInv'
<1> USE HelperConstants DEF HelperType, DiskType, OutInv, Front, Admission,
   Running, Publishing, Consumed, Served, Resting
<1>1. CASE Tick \/ TargetReplaced \/ TargetExecs \/ UNCHANGED vars
  BY <1>1 DEF Tick, Observable, Calls, Disk, History, TargetReplaced,
     TargetExecs, vars
<1>2. ASSUME NEW p \in Plans, CollectEffect(p) PROVE OutInv'
  BY <1>2 DEF CollectEffect, Outside, Disk, History
<1>3. ASSUME NEW p \in Plans, ClientTimeout(p) PROVE OutInv'
  BY <1>3 DEF ClientTimeout, Observable, Outside, Disk, History
<1>4. ASSUME NEW p \in Plans, Accept(p) PROVE OutInv'
  BY <1>4 DEF Accept, At, Idle, Outside, Disk, History
<1>5. CASE Admitted
  BY <1>5 DEF Admitted, Advance, At, GoTo, Quiet, Outside, Calls, Disk,
     History
<1>6. CASE Advance("identity", "recover") \/ Advance("capacity", "consume") \/
   Advance("barrier", "revalidate") \/ Advance("report", "collect") \/
   Revalidated
  BY <1>6 DEF Advance, At, GoTo, Quiet, Outside, Calls, Disk, History,
     Revalidated
<1>7. CASE Refused \/ ProbeRefused \/ Abandoned \/ LeftOver
  BY <1>7 DEF Refused, Ends, Idle, Outside, Disk, History, ProbeRefused, At,
     Abandoned, LeftOver
<1>8. CASE Recovered
  BY <1>8 DEF Recovered, NoTemp, At, GoTo, Outside, Calls, History
<1>9. CASE Tracking
  BY <1>9 DEF Tracking, Pruned, Expired, At, GoTo, Outside, Calls, History
<1>10. CASE Replayed
  BY <1>10 DEF Replayed, Pruned, Expired, At, Ends, Idle, Outside, History
<1>11. CASE ConsumePlan
  <2>1. helper.pc = "consume" /\ helper.p \in Plans /\ uses[helper.p] = 0
    BY <1>11, FreshAtConsume DEF ConsumePlan, At
  <2> QED BY <1>11, <2>1 DEF ConsumePlan, At, GoTo, Outside, Calls
<1>12. CASE SelectEventSource
  BY <1>12 DEF SelectEventSource, At, Quiet, Outside, Calls, Disk, History
<1>13. CASE StartProbe
  BY <1>13 DEF StartProbe, At, Outside, Calls, History
<1>14. CASE Reserved
  BY <1>14 DEF Reserved, At, Outside, Calls, History
<1>15. CASE Bound \/ Enabled
  BY <1>15 DEF Bound, At, GoTo, Outside, Calls, Disk, History, Enabled
<1>16. ASSUME NEW code \in {"other", "external"}, Stopped(code) PROVE OutInv'
  BY <1>16 DEF Stopped, Stop, NoPerf, Outside, Calls, Disk, History
<1>17. CASE Notified
  BY <1>17 DEF Notified, At, Outside, Disk, History
<1>18. CASE Recorded("probed") \/ Recorded("chmod")
  BY <1>18 DEF Recorded, NoPerf, At, GoTo, Outside, Calls, Disk, History
<1>19. CASE SetPermissions \/ ChangeGroup \/ RemoveTemporary
  BY <1>19 DEF SetPermissions, Publish, At, GoTo, Outside, Calls, History,
     ChangeGroup, RemoveTemporary
<1>20. CASE LinkOutput
  <2>1. uses[helper.p] = 1
    BY <1>20 DEF LinkOutput, Publish, At, PlanInv
  <2> QED BY <1>20, <2>1 DEF LinkOutput, Publish, At, GoTo, Outside, Calls, History
<1>21. ASSUME NEW src \in Events, NEW reason \in Flags, NEW code \in Codes,
            Probed(src, reason, code)
     PROVE  OutInv'
  BY <1>21 DEF Probed, At, Outside, Calls, History
<1>22. CASE FallBack
  BY <1>22 DEF FallBack, MayFallBack, At, Outside, Calls, History
<1>23. CASE CollectionResponse
  BY <1>23 DEF CollectionResponse, Answered, Expected, VerifyHelperArtifact,
     At, Reply, Ends, Idle, Outside, Disk, History
<1>24. CASE Restarted \/ Stuck
  BY <1>24 DEF Restarted, NoTemp, Pruned, Expired, At, Idle, Outside, Calls,
     History, Stuck, Disk
<1>25. CASE PublishFails
  BY <1>25 DEF PublishFails, Fails, Outside, Calls, Disk
<1>26. CASE Crash
  BY <1>26 DEF Crash, Serving, Idle, NoPerf, Outside, Disk
<1> HIDE DEF HelperType, DiskType, OutInv
<1> QED BY <1>1, <1>2, <1>3, <1>4, <1>5, <1>6, <1>7, <1>8, <1>9, <1>10, <1>11,
   <1>12, <1>13, <1>14, <1>15, <1>16, <1>17, <1>18, <1>19, <1>20, <1>21, <1>22,
   <1>23, <1>24, <1>25, <1>26 DEF Elementary

\* Whatever ends a connection, its client learns what is in the spool.
LEMMA NextClient ==
  ASSUME HelperType, ClientType, OutsideType, DiskType, PlanInv, TempInv,
     SourceInv, AttemptInv, OutInv, ClientInv, Elementary \/ UNCHANGED vars
  PROVE  ClientInv'
<1> USE HelperConstants DEF HelperType, ClientType, OutsideType, DiskType,
   ClientInv, HelperEvidenceHonest, Front, Admission, Running, Publishing,
   Consumed, Served, Resting
<1>1. CASE Tick \/ TargetReplaced \/ TargetExecs \/ UNCHANGED vars
  BY <1>1 DEF Tick, Observable, Calls, Disk, History, TargetReplaced,
     TargetExecs, vars
<1>2. ASSUME NEW p \in Plans, CollectEffect(p) PROVE ClientInv'
  <2>1. sends'[p] = sends[p] + 1 /\ sends[p] \in Nat /\ client'[p] = "waiting"
    BY <1>2 DEF CollectEffect
  <2>2. \A q \in Plans \ {p} : sends'[q] = sends[q] /\ client'[q] = client[q]
    BY <1>2 DEF CollectEffect
  <2>3. UNCHANGED <<helper, plan, uses, out, faults>> /\ helper.p # p
    BY <1>2 DEF CollectEffect, Outside, Disk, History
  <2>4. sends'[p] # 0 /\ (sends'[p] = 1 => uses[p] = 0)
    BY <2>1
  <2> HIDE DEF OutsideType, DiskType, ClientType, HelperType
  <2>5. HelperEvidenceHonest'
    <3> SUFFICES ASSUME NEW q \in Plans
                 PROVE  /\ client'[q] = "ok_software" => out[q] = "software" /\ plan[q].src # "hardware"
                        /\ client'[q] = "ok_hardware" =>
                              out[q] = "hardware" /\ plan[q].src \in {"hardware", "auto"}
                        /\ (client'[q] = "error" /\ faults = 0 /\ sends'[q] = 1) => out[q] = "none"
      BY <2>3
    <3>1. CASE q = p BY <2>1, <3>1
    <3>2. CASE q # p BY <2>2, <3>2
    <3> QED BY <3>1, <3>2
  <2> HIDE DEF HelperEvidenceHonest
  <2>6. helper.pc \in Served => client'[helper.p] = client[helper.p] /\ sends'[helper.p] = sends[helper.p]
    BY <2>2, <2>3 DEF HelperType
  <2>7. ASSUME NEW q \in Plans
        PROVE  /\ client'[q] = "ready" => helper.pc \in Consumed /\ helper.p = q
               /\ sends'[q] = 0 => uses[q] = 0 /\ client'[q] = "idle"
               /\ (sends'[q] = 1 /\ client'[q] \in {"waiting", "abandoned"}
                    /\ ~(helper.pc \in Served /\ helper.p = q)) => uses[q] = 0
    <3>1. CASE q = p BY <2>1, <2>4, <3>1
    <3>2. CASE q # p BY <2>2, <3>2
    <3> QED BY <3>1, <3>2
  <2> QED BY <2>3, <2>5, <2>6, <2>7
<1>3. ASSUME NEW p \in Plans, ClientTimeout(p) PROVE ClientInv'
  BY <1>3 DEF ClientTimeout, Observable, Outside, Disk, History
<1>4. ASSUME NEW p \in Plans, Accept(p) PROVE ClientInv'
  BY <1>4 DEF Accept, At, Idle, Outside, Disk, History
<1>5. CASE Admitted
  BY <1>5 DEF Admitted, Advance, At, GoTo, Quiet, Outside, Calls, Disk,
     History
<1>6. CASE Advance("identity", "recover")
  BY <1>6 DEF Advance, At, GoTo, Quiet, Outside, Calls, Disk, History
<1>7. CASE Advance("capacity", "consume")
  BY <1>7 DEF Advance, At, GoTo, Quiet, Outside, Calls, Disk, History
<1>8. CASE Advance("barrier", "revalidate")
  BY <1>8 DEF Advance, At, GoTo, Quiet, Outside, Calls, Disk, History
<1>9. CASE Revalidated
  BY <1>9 DEF Revalidated, Advance, At, GoTo, Quiet, Outside, Calls, Disk,
     History
<1>10. CASE Advance("report", "collect")
  BY <1>10 DEF Advance, At, GoTo, Quiet, Outside, Calls, Disk, History
<1>11. CASE Refused
  <2> HIDE DEF HelperType, ClientType, OutsideType, DiskType, ClientInv, HelperEvidenceHonest
  <2>1. /\ helper.pc \in Served /\ helper' = Idle /\ client' = Ends(helper.p, "error")
        /\ UNCHANGED <<plan, sends, out, uses>> /\ (faults' = 0 => faults = 0)
    BY <1>11 DEF Refused, Outside, Disk, History
  <2>2. (faults = 0 /\ sends[helper.p] = 1) => out[helper.p] = "none"
    BY <1>11 DEF Refused, At, ClientInv, OutInv, HelperType, DiskType
  <2> QED BY <2>1, <2>2, ConnectionEnds
<1>12. CASE Recovered
  BY <1>12 DEF Recovered, NoTemp, At, GoTo, Outside, Calls, History
<1>13. CASE Tracking
  BY <1>13 DEF Tracking, Pruned, Expired, At, GoTo, Outside, Calls, History
<1>14. CASE Replayed
  <2> HIDE DEF HelperType, ClientType, OutsideType, DiskType, ClientInv, HelperEvidenceHonest
  <2>1. /\ helper.pc \in Served /\ helper' = Idle /\ client' = Ends(helper.p, "error")
        /\ UNCHANGED <<plan, sends, out, uses>> /\ (faults' = 0 => faults = 0)
    BY <1>14 DEF Replayed, Outside, Disk, History, At
  <2>2. (faults = 0 /\ sends[helper.p] = 1) => out[helper.p] = "none"
    BY <1>14 DEF Replayed, At, ClientInv, OutInv, HelperType, DiskType
  <2> QED BY <2>1, <2>2, ConnectionEnds
<1>15. CASE ConsumePlan
  BY <1>15 DEF ConsumePlan, At, GoTo, Outside, Calls
<1>16. CASE SelectEventSource
  BY <1>16 DEF SelectEventSource, At, Quiet, Outside, Calls, Disk, History
<1>17. CASE StartProbe
  BY <1>17 DEF StartProbe, At, Outside, Calls, History
<1>18. CASE Reserved
  BY <1>18 DEF Reserved, At, Outside, Calls, History
<1>19. CASE Bound \/ Enabled
  BY <1>19 DEF Bound, At, GoTo, Outside, Calls, Disk, History, Enabled
<1>20. ASSUME NEW code \in {"other", "external"}, Stopped(code) PROVE ClientInv'
  BY <1>20 DEF Stopped, Stop, NoPerf, Outside, Calls, Disk, History
<1>21. CASE Notified
  BY <1>21 DEF Notified, At, Outside, Disk, History
<1>22. CASE Recorded("probed")
  BY <1>22 DEF Recorded, NoPerf, At, GoTo, Outside, Calls, Disk, History
<1>23. CASE Recorded("chmod")
  BY <1>23 DEF Recorded, NoPerf, At, GoTo, Outside, Calls, Disk, History
<1>24. CASE SetPermissions
  BY <1>24 DEF SetPermissions, Publish, At, GoTo, Outside, Calls, History
<1>25. CASE ChangeGroup
  BY <1>25 DEF ChangeGroup, Publish, At, GoTo, Outside, Calls, History
<1>26. CASE LinkOutput
  BY <1>26 DEF LinkOutput, Publish, At, GoTo, Outside, Calls, History
<1>27. CASE RemoveTemporary
  BY <1>27 DEF RemoveTemporary, Publish, At, GoTo, Outside, Calls, History
<1>28. ASSUME NEW src \in Events, NEW reason \in Flags, NEW code \in Codes,
            Probed(src, reason, code)
     PROVE  ClientInv'
  BY <1>28 DEF Probed, At, Outside, Calls, History
<1>29. CASE ProbeRefused
  <2> HIDE DEF HelperType, ClientType, OutsideType, DiskType, ClientInv, HelperEvidenceHonest
  <2>1. /\ helper.pc \in Served /\ helper' = Idle /\ client' = Ends(helper.p, "error")
        /\ UNCHANGED <<plan, sends, out, uses>> /\ (faults' = 0 => faults = 0)
    BY <1>29 DEF ProbeRefused, Outside, Disk, History, At
  <2>2. (faults = 0 /\ sends[helper.p] = 1) => out[helper.p] = "none"
    BY <1>29 DEF ProbeRefused, At, OutInv
  <2> QED BY <2>1, <2>2, ConnectionEnds
<1>30. CASE FallBack
  BY <1>30 DEF FallBack, MayFallBack, At, Outside, Calls, History
<1>31. CASE Abandoned
  <2> HIDE DEF HelperType, ClientType, OutsideType, DiskType, ClientInv, HelperEvidenceHonest
  <2>1. /\ helper.pc \in Served /\ helper' = Idle /\ client' = Ends(helper.p, "error")
        /\ UNCHANGED <<plan, sends, out, uses>> /\ (faults' = 0 => faults = 0)
    BY <1>31 DEF Abandoned, Outside, Disk, History, At
  <2>2. (faults = 0 /\ sends[helper.p] = 1) => out[helper.p] = "none"
    BY <1>31 DEF Abandoned, At, OutInv
  <2> QED BY <2>1, <2>2, ConnectionEnds
<1>32. CASE LeftOver
  <2> HIDE DEF HelperType, ClientType, OutsideType, DiskType, ClientInv, HelperEvidenceHonest
  <2>1. /\ helper.pc \in Served /\ helper' = Idle /\ client' = Ends(helper.p, "error")
        /\ UNCHANGED <<plan, sends, out, uses>> /\ (faults' = 0 => faults = 0)
    BY <1>32 DEF LeftOver, Outside, Disk, At, DiskType
  <2>2. (faults = 0 /\ sends[helper.p] = 1) => out[helper.p] = "none"
    BY <1>32 DEF LeftOver, At, OutInv
  <2> QED BY <2>1, <2>2, ConnectionEnds
<1>33. CASE CollectionResponse
  <2> HIDE DEF HelperType, ClientType, OutsideType, DiskType, ClientInv, HelperEvidenceHonest
  <2>1. helper.pc = "reply" /\ helper.pc \in Served /\ helper' = Idle
    BY <1>33 DEF CollectionResponse, Reply, At
  <2>2. helper.p \in Plans /\ helper.attempt \in {"formal", "second"}
    BY <2>1 DEF HelperType, AttemptInv
  <2>3. temp[helper.p]["formal"] = "none"
    BY <2>1, <2>2 DEF TempInv, Temporary
  <2>4. out[helper.p] = helper.src /\ helper.src \in {"software", "hardware"}
    BY <2>1 DEF OutInv, SourceInv, HelperType, Events
  <2>5. plan[helper.p].src \in Sources
    BY <2>2 DEF OutsideType
  <2>6. Answered = Expected /\ VerifyHelperArtifact
    BY <2>1, <2>3, <2>4, <2>5 DEF Answered, Expected, VerifyHelperArtifact, SourceInv, Sources
  <2>7. /\ helper.src = "software" => plan[helper.p].src # "hardware"
        /\ helper.src = "hardware" => plan[helper.p].src \in {"hardware", "auto"}
    BY <2>1, <2>5 DEF SourceInv, Sources
  <2>8. UNCHANGED <<plan, sends, out, uses, faults>>
    BY <1>33 DEF CollectionResponse, Outside, Disk, History
  <2>9. CASE helper.src = "software"
    <3>1. client' = Ends(helper.p, "ok_software")
      BY <1>33, <2>6, <2>9 DEF CollectionResponse, Reply, Answered
    <3> QED BY <2>1, <2>4, <2>7, <2>8, <2>9, <3>1, ConnectionEnds
  <2>10. CASE helper.src = "hardware"
    <3>1. client' = Ends(helper.p, "ok_hardware")
      BY <1>33, <2>6, <2>10 DEF CollectionResponse, Reply, Answered
    <3> QED BY <2>1, <2>4, <2>7, <2>8, <2>10, <3>1, ConnectionEnds
  <2> QED BY <2>4, <2>9, <2>10
<1>34. CASE Restarted \/ Stuck
  BY <1>34 DEF Restarted, NoTemp, Pruned, Expired, At, Idle, Outside, Calls,
     History, Stuck, Disk
<1>35. CASE PublishFails
  BY <1>35 DEF PublishFails, Fails, Outside, Calls, Disk
<1>36. CASE Crash
  BY <1>36 DEF Crash, Serving, Idle, NoPerf, Outside, Disk
<1> HIDE DEF HelperType, ClientType, OutsideType, DiskType, ClientInv
<1> QED BY <1>1, <1>2, <1>3, <1>4, <1>5, <1>6, <1>7, <1>8, <1>9, <1>10, <1>11,
   <1>12, <1>13, <1>14, <1>15, <1>16, <1>17, <1>18, <1>19, <1>20, <1>21, <1>22,
   <1>23, <1>24, <1>25, <1>26, <1>27, <1>28, <1>29, <1>30, <1>31, <1>32, <1>33,
   <1>34, <1>35, <1>36 DEF Elementary

\* What perf is bound to cannot change between the revalidation and the end
\* of the run, because the process is the plan's by then.
LEMMA NextPerf ==
  ASSUME HelperType, OutsideType, DiskType, PlanInv, ClientInv, PerfInv,
     Elementary \/ UNCHANGED vars
  PROVE  PerfInv'
<1> USE HelperConstants DEF HelperType, OutsideType, DiskType, PerfInv,
   NoPerf, Front, Admission, Running, Publishing, Consumed, Served, Resting
<1>1. CASE Tick \/ TargetReplaced \/ UNCHANGED vars
  BY <1>1 DEF Tick, Observable, Calls, Disk, History, TargetReplaced, vars
<1>2. CASE TargetExecs
  <2>1. PICK p \in Plans : client[p] = "ready"
    BY <1>2 DEF TargetExecs
  <2>2. uses[p] = 1
    BY <2>1 DEF ClientInv, PlanInv
  <2> QED BY <1>2, <2>2 DEF TargetExecs, Calls, Disk, History
<1>3. ASSUME NEW p \in Plans, CollectEffect(p) PROVE PerfInv'
  BY <1>3 DEF CollectEffect, Outside, Disk, History
<1>4. ASSUME NEW p \in Plans, ClientTimeout(p) PROVE PerfInv'
  BY <1>4 DEF ClientTimeout, Observable, Outside, Disk, History
<1>5. ASSUME NEW p \in Plans, Accept(p) PROVE PerfInv'
  BY <1>5 DEF Accept, At, Idle, Outside, Disk, History
<1>6. CASE Admitted
  BY <1>6 DEF Admitted, Advance, At, GoTo, Quiet, Outside, Calls, Disk,
     History
<1>7. CASE Advance("identity", "recover") \/ Advance("capacity", "consume") \/
   Advance("barrier", "revalidate") \/ Advance("report", "collect") \/
   Revalidated
  BY <1>7 DEF Advance, At, GoTo, Quiet, Outside, Calls, Disk, History,
     Revalidated
<1>8. CASE Refused \/ ProbeRefused \/ Abandoned \/ LeftOver
  BY <1>8 DEF Refused, Ends, Idle, Outside, Disk, History, ProbeRefused, At,
     Abandoned, LeftOver
<1>9. CASE Recovered
  BY <1>9 DEF Recovered, NoTemp, At, GoTo, Outside, Calls, History
<1>10. CASE Tracking
  BY <1>10 DEF Tracking, Pruned, Expired, At, GoTo, Outside, Calls, History
<1>11. CASE Replayed
  BY <1>11 DEF Replayed, Pruned, Expired, At, Ends, Idle, Outside, History
<1>12. CASE ConsumePlan
  <2>1. helper.pc = "consume" /\ helper.p \in Plans /\ uses[helper.p] = 0
    BY <1>12, FreshAtConsume DEF ConsumePlan, At
  <2>2. uses'[helper.p] = 1
    BY <1>12, <2>1 DEF ConsumePlan
  <2> QED BY <1>12, <2>1, <2>2 DEF ConsumePlan, At, GoTo, Outside, Calls
<1>13. CASE SelectEventSource
  BY <1>13 DEF SelectEventSource, At, Quiet, Outside, Calls, Disk, History
<1>14. CASE StartProbe
  BY <1>14 DEF StartProbe, At, Outside, Calls, History
<1>15. CASE Reserved
  BY <1>15 DEF Reserved, At, Outside, Calls, History
<1>16. CASE Bound \/ Enabled
  BY <1>16 DEF Bound, At, GoTo, Outside, Calls, Disk, History, Enabled
<1>17. ASSUME NEW code \in {"other", "external"}, Stopped(code) PROVE PerfInv'
  BY <1>17 DEF Stopped, Stop, NoPerf, Outside, Calls, Disk, History
<1>18. CASE Notified
  BY <1>18 DEF Notified, At, Outside, Disk, History
<1>19. CASE Recorded("probed") \/ Recorded("chmod")
  BY <1>19 DEF Recorded, NoPerf, At, GoTo, Outside, Calls, Disk, History
<1>20. CASE SetPermissions \/ ChangeGroup \/ RemoveTemporary
  BY <1>20 DEF SetPermissions, Publish, At, GoTo, Outside, Calls, History,
     ChangeGroup, RemoveTemporary
<1>21. CASE LinkOutput
  BY <1>21 DEF LinkOutput, Publish, At, GoTo, Outside, Calls, History
<1>22. ASSUME NEW src \in Events, NEW reason \in Flags, NEW code \in Codes,
            Probed(src, reason, code)
     PROVE  PerfInv'
  BY <1>22 DEF Probed, At, Outside, Calls, History
<1>23. CASE FallBack
  BY <1>23 DEF FallBack, MayFallBack, At, Outside, Calls, History
<1>24. CASE CollectionResponse
  BY <1>24 DEF CollectionResponse, Answered, Expected, VerifyHelperArtifact,
     At, Reply, Ends, Idle, Outside, Disk, History
<1>25. CASE Restarted \/ Stuck
  BY <1>25 DEF Restarted, NoTemp, Pruned, Expired, At, Idle, Outside, Calls,
     History, Stuck, Disk
<1>26. CASE PublishFails
  BY <1>26 DEF PublishFails, Fails, Outside, Calls, Disk
<1>27. CASE Crash
  BY <1>27 DEF Crash, Serving, Idle, NoPerf, Outside, Disk
<1> HIDE DEF HelperType, OutsideType, DiskType, PerfInv
<1> QED BY <1>1, <1>2, <1>3, <1>4, <1>5, <1>6, <1>7, <1>8, <1>9, <1>10, <1>11,
   <1>12, <1>13, <1>14, <1>15, <1>16, <1>17, <1>18, <1>19, <1>20, <1>21, <1>22,
   <1>23, <1>24, <1>25, <1>26, <1>27 DEF Elementary


-----------------------------------------------------------------------------
(* The invariant and the theorems.                                          *)

HelperInv ==
    /\ Types /\ PlanInv /\ AttemptInv /\ TempInv
    /\ SourceInv /\ OutInv /\ ClientInv /\ PerfInv

LEMMA InitHelper == Init => HelperInv
<1> SUFFICES ASSUME Init PROVE HelperInv
  OBVIOUS
<1> USE HelperConstants DEF Idle, NoPerf, NoTemp, NoPlan, Served, Front, Admission, Consumed,
     Running, Publishing, Resting
<1>1. helper = Idle /\ helper.pc = "listen" /\ helper.attempt = "none" /\ helper.reason = "no"
      /\ helper.ready = "no"
  BY DEF Init
<1>2. plan[Main].expires \in 2..MaxClock
  BY DEF Init
<1>3. Types
  <2>1. HelperType
    BY <1>1 DEF HelperType, Attempts, Events, Flags, Codes
  <2>2. ClientType
    BY DEF Init, ClientType
  <2>3. OutsideType
    BY <1>2 DEF Init, OutsideType
  <2>4. DiskType
    BY DEF Init, DiskType, Events, Flags, Kinds
  <2> QED BY <2>1, <2>2, <2>3, <2>4 DEF Types
<1>4. PlanInv /\ AttemptInv /\ SourceInv /\ OutInv
  BY <1>1 DEF Init, PlanInv, AttemptInv, SourceInv, OutInv
<1>5. TempInv
  BY <1>1 DEF Init, TempInv, Recoverable
<1>6. ClientInv
  BY <1>1 DEF Init, ClientInv, HelperEvidenceHonest
<1>7. PerfInv
  BY <1>1 DEF Init, PerfInv
<1> QED BY <1>3, <1>4, <1>5, <1>6, <1>7 DEF HelperInv

LEMMA NextHelper == HelperInv /\ [Next]_vars => HelperInv'
<1> SUFFICES ASSUME HelperInv, [Next]_vars PROVE HelperInv'
  OBVIOUS
<1> USE DEF HelperInv, Types
<1>1. Elementary \/ UNCHANGED vars
  BY NextElementary
<1>2. Types'
  BY <1>1, NextHelperType, NextClientType, NextOutsideType, NextDiskType
<1>3. PlanInv' /\ AttemptInv' /\ TempInv'
  BY <1>1, NextPlan, NextAttempt, NextTemp
<1>4. SourceInv' /\ OutInv' /\ ClientInv'
  BY <1>1, NextSource, NextOut, NextClient
<1>5. PerfInv'
  BY <1>1, NextPerf
<1> QED BY <1>2, <1>3, <1>4, <1>5

\* The invariant holds in every reachable state.
THEOREM HelperInvariant == Spec => []HelperInv
BY InitHelper, NextHelper, PTL DEF Spec

\* The state of the Helper, its client and its directories is well typed for any
\* number of plans, clock readings, faults and processes that reuse the PID.
THEOREM TypeCorrect == Spec => []TypeOK
<1>1. HelperInv => TypeOK
  BY DEF HelperInv, Types, HelperType, ClientType, OutsideType, DiskType, TypeOK, Events, Flags
<1> QED BY <1>1, HelperInvariant, PTL

\* Markers live exactly as long as a plan may (policy.rs: 120 s each), a frame is
\* read after the clock was, and a crash may come between any two steps: still no
\* plan is consumed twice.
THEOREM PlansAreConsumedOnce == Spec => []PlanConsumedOnce
<1>1. HelperInv => PlanConsumedOnce
  BY DEF HelperInv, PlanInv, PlanConsumedOnce
<1> QED BY <1>1, HelperInvariant, PTL

\* perf is enabled only on the process the plan names, the workload starts only
\* under a consumed plan, and the client's answer is the content of the spool.
THEOREM HelperIsHonest == Spec => []HelperHonest
<1>1. HelperInv => EnabledOnPlanned
  BY DEF HelperInv, PerfInv, AttemptInv, EnabledOnPlanned, Types, HelperType, Flags
<1>2. HelperInv => HelperEvidenceHonest
  BY DEF HelperInv, ClientInv
<1>3. HelperInv => HelperHonest
  BY <1>1, <1>2 DEF HelperHonest
<1> QED BY <1>3, HelperInvariant, PTL

\* Whatever number of crashes and failing file operations: the Helper refuses to
\* start only after one between set_permissions and chown, and without a fault it
\* waits for a connection with no temporary file and no perf left.
THEOREM OnlyTheGapBlocks == Spec => []OnlyGapBlocks
<1>1. HelperInv => OnlyGapBlocks
  BY DEF HelperInv, TempInv, PerfInv, OnlyGapBlocks, At, Front, Running
<1> QED BY <1>1, HelperInvariant, PTL

----------------------------------------------------------------------------
(* The Trace Helper (TraceHelper).                                         *)

\* The steps of the connection that collects, before anything of a collection
\* exists, while it has a temporary file, and while programs are attached.
Preparing == {"none", "capacity", "consume", "reserve", "fork"}
Attaching == {"scan", "exit", "events", "report"}
Finishing == {"recheck", "write", "unlink", "reply"}
Working == (Preparing \ {"none"}) \cup Attaching \cup {"observe"} \cup Finishing
HasTemporary == {"fork", "observe", "recheck", "write", "unlink"} \cup Attaching

Stage == IF t_worker = T!Nobody THEN "none" ELSE t_conn[t_worker]

YesNo == {"yes", "no"}
EventCounts == [emitted : Nat, ring : Nat, kept : Nat, lost : Nat, cut : YesNo, foreign : YesNo]
TraceFile == [stored : Nat, emitted : Nat, lost : Nat, cut : YesNo, foreign : YesNo,
              early : SUBSET T!Tids]

TraceType ==
    /\ t_owner \in [T!Tids -> {"free", "target", "other"}]
    /\ t_conn \in [Conns -> {"idle", "read", "claim"} \cup Working]
    /\ t_worker \in Conns \cup {T!Nobody} /\ t_temp \in Conns \cup {T!Nobody}
    /\ t_tids \subseteq T!Tids /\ t_early \subseteq T!Tids
    /\ t_scan \in [pos : Nat \ {0}, seen : SUBSET T!Tids]
    /\ t_ev \in EventCounts /\ t_spool \in [Conns -> TraceFile] /\ t_faults \in Nat

\* The connection that has the worker is the only one that collects.
WorkerInv == \A c \in Conns : t_conn[c] \in Working <=> c = t_worker

\* What is attached and counted at each step of the collection.
StageInv ==
    /\ Stage \in Preparing => t_attached = {} /\ t_tids = {} /\ t_scan = T!NoScan
    /\ Stage \in Preparing \cup Attaching => t_ev = T!NoEvents
    /\ Stage \in {"scan", "exit"} => t_attached = {"fork"}
    /\ Stage = "events" => t_attached = {"fork", "exit"}
    /\ Stage \in {"report", "observe"} => t_attached = {"fork", "exit", "events"}
    /\ Stage \in Finishing => t_attached = {} /\ t_tids = {} /\ t_ev.ring = 0
    /\ Stage = "write" => T!TargetCurrent

\* Every thread of the target is in the table, in the snapshot or still to be
\* read: the fork program was attached before the snapshot was begun.
CoverInv ==
    T!TargetCurrent =>
        \A t \in T!Tids :
            t_owner[t] = "target" =>
                /\ Stage = "scan" => t \in t_tids \/ t \in t_scan.seen \/ t >= t_scan.pos
                /\ Stage \in {"exit", "events", "report", "observe"} => t \in t_tids

\* As long as no thread ended unseen and the target's PID is the target's, the
\* table and the snapshot hold threads of the target only.
ForeignInv ==
    (T!TargetCurrent /\ t_early = {}) =>
        /\ \A t \in t_tids : t_owner[t] = "target"
        /\ Stage = "scan" => \A t \in t_scan.seen : t_owner[t] = "target"
        /\ t_ev.foreign = "no"

\* Every event emitted is in the ring, kept, lost, or cut.
CountInv == t_ev.cut = "no" => t_ev.emitted = t_ev.ring + t_ev.kept + t_ev.lost

\* What the published files claim, and the place the collection has reserved.
FileClaims ==
    \A c \in Conns :
        /\ t_spool[c].foreign = "yes" => t_spool[c].early # {}
        /\ (t_spool[c].stored > 0 /\ t_spool[c].lost = 0 /\ t_spool[c].cut = "no")
              => t_spool[c].stored = t_spool[c].emitted

PlaceInv ==
    /\ IsFiniteSet(T!Stored) /\ Cardinality(T!Stored) <= TraceArtifacts
    /\ Stage \in (Working \ {"capacity", "unlink", "reply"}) => Cardinality(T!Stored) < TraceArtifacts

BlockInv == t_temp # T!Nobody => t_faults > 0 \/ Stage \in HasTemporary

TraceInv ==
    TraceType /\ WorkerInv /\ StageInv /\ CoverInv /\ ForeignInv /\ CountInv /\ FileClaims
    /\ PlaceInv /\ BlockInv

\* The instance's cardinality is the one the library's theorems are about.
LEMMA SameCardinality == \A S : T!Cardinality(S) = Cardinality(S)
BY DEF T!Cardinality, Cardinality

LEMMA InitTrace == T!Init => TraceInv
<1> SUFFICES ASSUME T!Init PROVE TraceInv
  OBVIOUS
<1> USE DEF Preparing, Attaching, Finishing, Working, HasTemporary
<1>1. TraceType
  <2>1. T!NoEvents \in EventCounts /\ T!NoScan \in [pos : Nat \ {0}, seen : SUBSET T!Tids]
    BY DEF T!NoEvents, T!NoScan, EventCounts, YesNo
  <2>2. T!NoFile \in TraceFile
    BY DEF T!NoFile, TraceFile, YesNo
  <2> QED BY <2>1, <2>2 DEF T!Init, TraceType
<1>2. T!Stored = {}
  BY DEF T!Init, T!Stored, T!NoFile
<1>3. WorkerInv /\ Stage = "none"
  BY ConnsAssumption DEF T!Init, WorkerInv, Stage
<1>4. StageInv /\ CoverInv /\ ForeignInv /\ CountInv /\ BlockInv
  BY <1>3 DEF T!Init, StageInv, CoverInv, ForeignInv, CountInv, BlockInv, T!NoEvents, T!NoScan
<1>5. FileClaims
  BY DEF T!Init, FileClaims, T!NoFile
<1>6. PlaceInv
  BY <1>2, <1>3, FS_EmptySet, TraceAssumption DEF PlaceInv, T!TraceConstants
<1> QED BY <1>1, <1>3, <1>4, <1>5, <1>6 DEF TraceInv

\* The connection that is at a step of the collection has the worker.
LEMMA WorkerAt ==
    ASSUME WorkerInv, NEW c \in Conns, t_conn[c] \in Working
    PROVE  t_worker = c /\ Stage = t_conn[c]
BY ConnsAssumption DEF WorkerInv, Stage

\* A step of the worker to the next step, with the same worker.
Onward(c, next) == t_conn' = [t_conn EXCEPT ![c] = next] /\ t_worker' = t_worker

LEMMA WorkerGoes ==
    ASSUME TraceType, WorkerInv, NEW c \in Conns, t_conn[c] \in Working,
           NEW next \in Working, Onward(c, next)
    PROVE  /\ t_worker = c /\ Stage = t_conn[c] /\ Stage' = next /\ WorkerInv'
           /\ t_conn' \in [Conns -> {"idle", "read", "claim"} \cup Working]
BY WorkerAt, ConnsAssumption DEF TraceType, WorkerInv, Onward, Stage

\* What the connections do outside the collection.
Aside ==
    /\ UNCHANGED <<t_owner, t_attached, t_tids, t_early, t_scan, t_ev, t_temp, t_spool>>
    /\ t_faults' \in {t_faults, t_faults + 1} /\ Stage' = Stage
    /\ t_worker' = t_worker /\ WorkerInv'
    /\ t_conn' \in [Conns -> {"idle", "read", "claim"} \cup Working]

LEMMA AsideKeeps == ASSUME TraceInv, Aside PROVE TraceInv'
<1>1. TraceType'
  BY DEF TraceInv, TraceType, Aside
<1>2. T!Stored' = T!Stored /\ T!TargetCurrent' = T!TargetCurrent
  BY DEF T!Stored, Aside, T!TargetCurrent
<1>3. StageInv' /\ CoverInv' /\ ForeignInv' /\ CountInv' /\ FileClaims' /\ PlaceInv'
  BY <1>2 DEF Aside, TraceInv, StageInv, CoverInv, ForeignInv, CountInv, FileClaims, PlaceInv
<1>4. BlockInv'
  BY DEF Aside, TraceInv, TraceType, BlockInv
<1> QED BY <1>1, <1>3, <1>4 DEF TraceInv, Aside

\* A step of a connection before or after the collection.
LEMMA OutsideWorks ==
    ASSUME TraceType, WorkerInv, NEW c \in Conns, t_conn[c] \notin Working,
           NEW next \in {"idle", "read", "claim"}, Onward(c, next)
    PROVE  /\ Stage' = Stage /\ WorkerInv'
           /\ t_conn' \in [Conns -> {"idle", "read", "claim"} \cup Working]
<1> USE ConnsAssumption DEF Onward, TraceType, WorkerInv, Preparing, Attaching, Finishing, Working
<1>1. c # t_worker
  OBVIOUS
<1>2. t_conn' \in [Conns -> {"idle", "read", "claim"} \cup Working] /\ WorkerInv'
  BY <1>1
<1>3. Stage' = Stage
  BY <1>1 DEF Stage
<1> QED BY <1>2, <1>3

LEMMA AsideSteps ==
    ASSUME TraceInv, NEW c \in Conns,
           \/ T!Request(c) \/ T!RefusePlan(c) \/ T!RefusePolicyFile(c) \/ T!RefuseSocket(c)
           \/ T!ClientTimeout(c) \/ T!HandleConnection(c) \/ T!Convert(c) \/ T!PublishEvidence(c)
           \/ T!PublishFails(c) \/ (T!ClaimWorker(c) /\ ~T!WorkerFree)
    PROVE  Aside
<1> USE DEF T!Kernel, T!Capture, T!Disk
<1>1. /\ UNCHANGED <<t_owner, t_attached, t_tids, t_early, t_scan, t_ev, t_temp, t_spool, t_worker>>
      /\ t_faults' \in {t_faults, t_faults + 1}
  BY DEF T!Request, T!RefusePlan, T!RefusePolicyFile, T!RefuseSocket, T!Refused, T!ClientTimeout,
     T!HandleConnection, T!Convert, T!PublishEvidence, T!PublishFails, T!ClaimWorker, T!Reject, T!RejectPeer,
     T!RejectFrame, T!RejectTarget, T!RejectPolicy, T!RejectMode
<1>2. \/ UNCHANGED t_conn
      \/ /\ t_conn[c] \in {"idle", "read", "claim"}
         /\ \E next \in {"idle", "read", "claim"} : t_conn' = [t_conn EXCEPT ![c] = next]
  BY DEF T!Request, T!RefusePlan, T!RefusePolicyFile, T!RefuseSocket, T!Refused, T!ClientTimeout,
     T!HandleConnection, T!Convert, T!PublishEvidence, T!PublishFails, T!ClaimWorker, T!Reject, T!RejectPeer,
     T!RejectFrame, T!RejectTarget, T!RejectPolicy, T!RejectMode, T!At, T!GoTo
<1>3. CASE UNCHANGED t_conn
  BY <1>1, <1>3 DEF Aside, Stage, TraceInv, TraceType, WorkerInv
<1>4. CASE /\ t_conn[c] \in {"idle", "read", "claim"}
           /\ \E next \in {"idle", "read", "claim"} : t_conn' = [t_conn EXCEPT ![c] = next]
  <2>1. PICK next \in {"idle", "read", "claim"} : Onward(c, next)
    BY <1>1, <1>4 DEF Onward
  <2>2. t_conn[c] \notin Working
    BY <1>4 DEF Preparing, Attaching, Finishing, Working
  <2> QED BY <1>1, <2>1, <2>2, OutsideWorks DEF Aside, TraceInv
<1> QED BY <1>2, <1>3, <1>4

\* The collection is over: the programs are detached and nothing is left of it
\* but, after a fault, its temporary file.
Over ==
    /\ t_worker' = T!Nobody /\ t_attached' = {} /\ t_tids' = {} /\ t_scan' = T!NoScan /\ t_ev' = T!NoEvents
    /\ t_early' = {} /\ UNCHANGED <<t_owner, t_spool>> /\ t_faults' \in {t_faults, t_faults + 1}
    /\ t_temp' \in {t_temp, T!Nobody}
    /\ Stage \in HasTemporary => t_temp' = T!Nobody \/ t_faults' = t_faults + 1
    /\ WorkerInv' /\ t_conn' \in [Conns -> {"idle", "read", "claim"} \cup Working]

LEMMA OverKeeps == ASSUME TraceInv, Over PROVE TraceInv'
<1>1. TraceType'
  BY DEF TraceInv, TraceType, Over, T!NoEvents, T!NoScan, EventCounts, YesNo
<1>2. Stage' = "none" /\ T!Stored' = T!Stored
  BY DEF Stage, T!Stored, Over
<1>3. StageInv'
  BY <1>2 DEF StageInv, Over, Preparing, Attaching, Finishing
<1>4. CoverInv' /\ ForeignInv' /\ CountInv'
  BY <1>2 DEF CoverInv, ForeignInv, CountInv, Over, T!NoEvents
<1>5. FileClaims'
  BY DEF Over, TraceInv, FileClaims
<1>6. PlaceInv'
  BY <1>2 DEF TraceInv, PlaceInv, Preparing, Attaching, Finishing, Working
<1>7. BlockInv'
  BY DEF TraceInv, TraceType, BlockInv, Over
<1> QED BY <1>1, <1>3, <1>4, <1>5, <1>6, <1>7 DEF TraceInv, Over

LEMMA WorkerLeaves ==
    ASSUME TraceType, WorkerInv, NEW c \in Conns, t_conn[c] \in Working,
           t_conn' = [t_conn EXCEPT ![c] = "idle"], t_worker' = T!Nobody
    PROVE  WorkerInv' /\ t_conn' \in [Conns -> {"idle", "read", "claim"} \cup Working]
BY ConnsAssumption DEF TraceType, WorkerInv, Preparing, Attaching, Finishing, Working

\* The collection is refused before it has a temporary file.
LEMMA RejectWorkerEnds ==
    ASSUME TraceInv, NEW c \in Conns, t_conn[c] \in Working, t_conn[c] \notin HasTemporary,
           T!RejectWorker(c) \/ (T!GoTo(c, "idle") /\ T!Release), UNCHANGED <<t_temp, t_spool, t_faults>>
    PROVE  Over
<1>1. t_conn' = [t_conn EXCEPT ![c] = "idle"] /\ t_worker' = T!Nobody
  BY DEF T!RejectWorker, T!GoTo, T!Release
<1>2. WorkerInv' /\ t_conn' \in [Conns -> {"idle", "read", "claim"} \cup Working]
  BY <1>1, WorkerLeaves DEF TraceInv
<1>3. Stage \notin HasTemporary
  BY WorkerAt DEF TraceInv
<1> QED BY <1>2, <1>3 DEF T!RejectWorker, T!Release, Over, TraceInv, TraceType

\* It fails with its temporary file removed, or by a fault.
LEMMA FailureEnds ==
    ASSUME TraceInv, NEW c \in Conns, t_conn[c] \in Working, T!CaptureFails(c) \/ T!WriteFails(c)
    PROVE  Over
<1>1. /\ t_conn' = [t_conn EXCEPT ![c] = "idle"] /\ t_worker' = T!Nobody /\ T!Release
      /\ UNCHANGED t_spool
      /\ \/ t_temp' = T!Nobody /\ t_faults' = t_faults
         \/ t_temp' = t_temp /\ t_faults' = t_faults + 1
  BY DEF T!CaptureFails, T!WriteFails, T!RejectWorker, T!GoTo, T!Release, T!Disk
<1>2. WorkerInv' /\ t_conn' \in [Conns -> {"idle", "read", "claim"} \cup Working]
  BY <1>1, WorkerLeaves DEF TraceInv
<1> QED BY <1>1, <1>2 DEF T!Release, Over, TraceInv, TraceType

LEMMA CrashEnds == ASSUME TraceInv, T!Crash PROVE Over
<1>1. t_conn' \in [Conns -> {"idle", "read", "claim"} \cup Working] /\ t_worker' = T!Nobody
  BY DEF T!Crash, T!Release
<1>2. WorkerInv'
  BY ConnsAssumption DEF T!Crash, T!Release, WorkerInv, Preparing, Attaching, Finishing, Working
<1> QED BY <1>1, <1>2 DEF T!Crash, T!Release, Over, T!Disk, TraceInv, TraceType


----------------------------------------------------------------------------
(* Threads and events of the target the Trace Helper observes.             *)

LEMMA ObservedStages ==
    ASSUME TraceInv, T!Observed
    PROVE  /\ Stage \in Attaching \cup {"observe"}
           /\ Stage \in {"scan", "exit"} => t_attached = {"fork"}
           /\ Stage = "events" => t_attached = {"fork", "exit"}
           /\ Stage \in {"report", "observe"} => t_attached = {"fork", "exit", "events"}
<1>1. Stage \in {"none"} \cup Working
  BY ConnsAssumption DEF TraceInv, TraceType, WorkerInv, Stage
<1> QED BY <1>1 DEF TraceInv, StageInv, T!Observed, Preparing, Attaching, Finishing, Working

\* Nothing but the threads changes.
ThreadStep ==
    /\ T!Observed /\ UNCHANGED <<t_conn, t_worker, t_attached, t_scan, t_ev, t_temp, t_spool, t_faults>>
    /\ t_owner' \in [T!Tids -> {"free", "target", "other"}]
    /\ t_tids' \subseteq T!Tids /\ t_early' \subseteq T!Tids
    /\ t_early' = {} => t_early = {}
    /\ T!TargetCurrent' => T!TargetCurrent

LEMMA ThreadStepKeeps ==
    ASSUME TraceInv, ThreadStep, CoverInv', ForeignInv'
    PROVE  TraceInv'
<1>1. TraceType' /\ WorkerInv'
  BY DEF TraceInv, TraceType, ThreadStep, WorkerInv
<1>2. Stage' = Stage /\ T!Stored' = T!Stored
  BY DEF Stage, T!Stored, ThreadStep
<1>3. StageInv'
  BY <1>2, ObservedStages DEF TraceInv, ThreadStep, StageInv, Preparing, Attaching, Finishing
<1>4. CountInv' /\ FileClaims' /\ PlaceInv' /\ BlockInv'
  BY <1>2 DEF TraceInv, ThreadStep, CountInv, FileClaims, PlaceInv, BlockInv
<1> QED BY <1>1, <1>3, <1>4 DEF TraceInv

LEMMA ThreadSteps ==
    ASSUME TraceInv, NEW t \in T!Tids, T!ThreadStarts(t) \/ T!OtherStarts(t) \/ T!ThreadEnds(t)
    PROVE  TraceInv'
<1>0. /\ t_owner \in [T!Tids -> {"free", "target", "other"}] /\ t_tids \subseteq T!Tids
      /\ t_early \subseteq T!Tids /\ T!Leader \in T!Tids /\ t_scan.seen \subseteq T!Tids
  BY TraceAssumption DEF TraceInv, TraceType, T!TraceConstants, T!Leader, T!Tids
<1>o. T!Observed /\ UNCHANGED <<t_conn, t_worker, t_attached, t_scan, t_ev, t_temp, t_spool, t_faults>>
  BY DEF T!ThreadStarts, T!OtherStarts, T!ThreadEnds, T!Exits, T!Capture, T!Disk
<1>s. /\ Stage' = Stage /\ Stage \in Attaching \cup {"observe"} /\ "fork" \in t_attached
      /\ Stage \in {"scan", "exit"} => "exit" \notin t_attached
      /\ Stage \notin {"scan", "exit"} => "exit" \in t_attached
  BY <1>o, ObservedStages DEF Stage, Attaching
<1>c. T!TargetCurrent =>
          \A u \in T!Tids :
              t_owner[u] = "target" =>
                  /\ Stage = "scan" => u \in t_tids \/ u \in t_scan.seen \/ u >= t_scan.pos
                  /\ Stage # "scan" => u \in t_tids
  BY <1>s DEF TraceInv, CoverInv, Attaching
<1>f. (T!TargetCurrent /\ t_early = {}) =>
        /\ \A u \in t_tids : t_owner[u] = "target"
        /\ Stage = "scan" => \A u \in t_scan.seen : t_owner[u] = "target"
        /\ t_ev.foreign = "no"
  BY DEF TraceInv, ForeignInv
<1>1. CASE T!ThreadStarts(t)
  <2>1. /\ t_owner' = [t_owner EXCEPT ![t] = "target"] /\ t_early' = t_early /\ t # T!Leader
        /\ t_tids' = t_tids \cup {t}
    BY <1>1, <1>s DEF T!ThreadStarts, T!TracksFork
  <2>2. ThreadStep
    BY <1>0, <1>o, <2>1 DEF ThreadStep, T!TargetCurrent
  <2>3. CoverInv'
    BY <1>0, <1>o, <1>s, <1>c, <2>1 DEF CoverInv, T!TargetCurrent
  <2>4. ForeignInv'
    BY <1>0, <1>o, <1>s, <1>f, <2>1 DEF ForeignInv, T!TargetCurrent
  <2> QED BY <2>2, <2>3, <2>4, ThreadStepKeeps
<1>2. CASE T!OtherStarts(t)
  <2>1. /\ t_owner' = [t_owner EXCEPT ![t] = "other"] /\ t_early' = t_early /\ t_owner[t] = "free"
        /\ \/ t_tids' = t_tids
           \/ t_tids' = t_tids \cup {t} /\ (t = T!Leader \/ t_owner[T!Leader] = "other")
    BY <1>2, <1>s DEF T!OtherStarts, T!TracksFork
  <2>2. ThreadStep
    BY <1>0, <1>o, <2>1 DEF ThreadStep, T!TargetCurrent
  <2>3. CoverInv'
    BY <1>0, <1>o, <1>s, <1>c, <2>1 DEF CoverInv, T!TargetCurrent
  <2>4. ForeignInv'
    BY <1>0, <1>o, <1>s, <1>f, <2>1 DEF ForeignInv, T!TargetCurrent
  <2> QED BY <2>2, <2>3, <2>4, ThreadStepKeeps
<1>3. CASE T!ThreadEnds(t)
  <2> DEFINE gone == IF t = T!Leader THEN {u \in T!Tids : t_owner[u] = t_owner[t]} ELSE {t}
  <2>1. /\ t_owner' = [u \in T!Tids |-> IF u \in gone THEN "free" ELSE t_owner[u]]
        /\ gone \subseteq T!Tids /\ gone # {} /\ (t = T!Leader => T!Leader \in gone)
        /\ "exit" \in t_attached => t_tids' = t_tids \ gone /\ t_early' = t_early
        /\ "exit" \notin t_attached => t_tids' = t_tids /\ t_early' = t_early \cup gone
        /\ t # T!Leader => T!Leader \notin gone
    BY <1>0, <1>3 DEF T!ThreadEnds, T!Exits, T!Forget
  <2> HIDE DEF gone
  <2>2. ThreadStep
    BY <1>0, <1>o, <2>1 DEF ThreadStep, T!TargetCurrent
  <2>3. CoverInv'
    BY <1>0, <1>o, <1>s, <1>c, <2>1 DEF CoverInv, T!TargetCurrent
  <2>4. ForeignInv'
    BY <1>0, <1>o, <1>s, <1>f, <2>1 DEF ForeignInv, T!TargetCurrent
  <2> QED BY <2>2, <2>3, <2>4, ThreadStepKeeps
<1> QED BY <1>1, <1>2, <1>3

\* Nothing but the counters of events changes, while the target is observed.
EventStep ==
    /\ UNCHANGED <<t_owner, t_early, t_conn, t_worker, t_attached, t_tids, t_scan, t_temp, t_spool, t_faults>>
    /\ t_ev' \in EventCounts /\ Stage = "observe"

LEMMA EventStepKeeps ==
    ASSUME TraceInv, EventStep, CountInv', ForeignInv'
    PROVE  TraceInv'
<1>1. TraceType' /\ WorkerInv'
  BY DEF TraceInv, TraceType, EventStep, WorkerInv
<1>2. Stage' = Stage /\ T!Stored' = T!Stored /\ T!TargetCurrent' = T!TargetCurrent
  BY DEF Stage, T!Stored, EventStep, T!TargetCurrent
<1>3. StageInv'
  BY <1>2 DEF TraceInv, EventStep, StageInv, Preparing, Attaching, Finishing
<1>4. CoverInv' /\ FileClaims' /\ PlaceInv' /\ BlockInv'
  BY <1>2 DEF TraceInv, EventStep, CoverInv, FileClaims, PlaceInv, BlockInv
<1> QED BY <1>1, <1>3, <1>4 DEF TraceInv

LEMMA EventSteps ==
    ASSUME TraceInv, NEW t \in T!Tids, T!SchedEvent(t) \/ T!LockEvent(t)
    PROVE  TraceInv'
<1>1. /\ "events" \in t_attached /\ t \in t_tids /\ Stage = "observe"
      /\ UNCHANGED <<t_owner, t_early, t_conn, t_worker, t_attached, t_tids, t_scan, t_temp, t_spool, t_faults>>
  BY DEF T!SchedEvent, T!LockEvent, T!Emit, T!Kernel, T!Disk, Stage
<1>2. t_ev \in EventCounts
  BY DEF TraceInv, TraceType
<1>3. t_ev' = [emitted |-> t_ev.emitted + 1,
             ring |-> IF t_ev.ring < RingSize THEN t_ev.ring + 1 ELSE t_ev.ring,
             kept |-> t_ev.kept,
             lost |-> IF t_ev.ring < RingSize THEN t_ev.lost ELSE t_ev.lost + 1,
             cut |-> t_ev.cut,
             foreign |-> IF t_owner[t] = "other" /\ t_ev.ring < RingSize THEN "yes" ELSE t_ev.foreign]
  BY <1>2 DEF T!SchedEvent, T!LockEvent, T!Emit, EventCounts
<1>4. EventStep
  BY <1>1, <1>2, <1>3 DEF EventStep, EventCounts, YesNo
<1>5. CountInv'
  BY <1>2, <1>3, TraceAssumption DEF TraceInv, CountInv, EventCounts, T!TraceConstants
<1>6. ForeignInv'
  BY <1>1, <1>2, <1>3 DEF TraceInv, ForeignInv, T!TargetCurrent, EventCounts, Stage
<1> QED BY <1>4, <1>5, <1>6, EventStepKeeps

\* What consume_ring_event makes of the counters.
LEMMA RingConsumed ==
    ASSUME t_ev \in EventCounts, CountInv
    PROVE  /\ T!Consume(t_ev.ring) \in EventCounts
           /\ T!Consume(t_ev.ring).foreign = t_ev.foreign /\ T!Consume(t_ev.ring).ring = 0
           /\ T!Consume(t_ev.ring).cut = "no" =>
                T!Consume(t_ev.ring).emitted = T!Consume(t_ev.ring).kept + T!Consume(t_ev.ring).lost
<1> DEFINE kept == IF t_ev.kept + t_ev.ring > MaxEvents THEN MaxEvents ELSE t_ev.kept + t_ev.ring
           cut == IF t_ev.kept + t_ev.ring > MaxEvents THEN "yes" ELSE t_ev.cut
<1>0. T!Consume(t_ev.ring) = [t_ev EXCEPT !.ring = 0, !.kept = kept, !.cut = cut]
  BY DEF T!Consume
<1> HIDE DEF kept, cut
<1>1. T!Consume(t_ev.ring) =
          [emitted |-> t_ev.emitted, ring |-> 0,
           kept |-> kept, lost |-> t_ev.lost, cut |-> cut, foreign |-> t_ev.foreign]
  BY <1>0 DEF EventCounts
<1> QED BY <1>1, TraceAssumption DEF kept, cut, EventCounts, CountInv, YesNo, T!TraceConstants

LEMMA PollKeeps == ASSUME TraceInv, NEW c \in Conns, T!Poll(c) PROVE TraceInv'
<1>1. /\ t_ev' = T!Consume(t_ev.ring) /\ t_conn[c] = "observe"
      /\ UNCHANGED <<t_owner, t_early, t_conn, t_worker, t_attached, t_tids, t_scan, t_temp, t_spool, t_faults>>
  BY DEF T!Poll, T!At, T!Kernel, T!Disk
<1>2. Stage = "observe"
  BY <1>1, WorkerAt DEF TraceInv, Working
<1>3. /\ t_ev' \in EventCounts /\ t_ev'.foreign = t_ev.foreign /\ t_ev'.ring = 0
      /\ t_ev'.cut = "no" => t_ev'.emitted = t_ev'.kept + t_ev'.lost
  BY <1>1, RingConsumed DEF TraceInv, TraceType
<1>4. EventStep /\ CountInv'
  BY <1>1, <1>2, <1>3 DEF EventStep, CountInv, EventCounts
<1>5. ForeignInv'
  BY <1>1, <1>3 DEF TraceInv, ForeignInv, T!TargetCurrent, Stage
<1> QED BY <1>4, <1>5, EventStepKeeps

----------------------------------------------------------------------------
(* The steps of a trace collection.                                        *)

\* A step of the collection that publishes nothing.
WorkStep(c, next) ==
    /\ Onward(c, next) /\ UNCHANGED <<t_owner, t_early, t_spool, t_faults>>
    /\ t_tids' \subseteq T!Tids /\ t_scan' \in [pos : Nat \ {0}, seen : SUBSET T!Tids]
    /\ t_ev' \in EventCounts /\ t_temp' \in Conns \cup {T!Nobody}

LEMMA WorkStepKeeps ==
    ASSUME TraceInv, NEW c \in Conns, t_conn[c] \in Working, NEW next \in Working, WorkStep(c, next),
           StageInv', CoverInv', ForeignInv', CountInv', BlockInv',
           next \in (Working \ {"capacity", "unlink", "reply"}) => Cardinality(T!Stored) < TraceArtifacts
    PROVE  TraceInv'
<1>1. /\ Stage' = next /\ WorkerInv' /\ t_worker' = t_worker
      /\ t_conn' \in [Conns -> {"idle", "read", "claim"} \cup Working]
  BY WorkerGoes DEF TraceInv, WorkStep, Onward
<1>2. TraceType'
  BY <1>1 DEF TraceInv, TraceType, WorkStep
<1>3. T!Stored' = T!Stored
  BY DEF T!Stored, WorkStep
<1>4. FileClaims' /\ PlaceInv'
  BY <1>1, <1>3 DEF TraceInv, FileClaims, PlaceInv, WorkStep
<1> QED BY <1>1, <1>2, <1>4 DEF TraceInv

LEMMA ClaimKeeps == ASSUME TraceInv, NEW c \in Conns, T!ClaimWorker(c), T!WorkerFree PROVE TraceInv'
<1>1. /\ t_worker = T!Nobody /\ t_worker' = c /\ t_conn' = [t_conn EXCEPT ![c] = "capacity"]
      /\ UNCHANGED <<t_owner, t_attached, t_tids, t_early, t_scan, t_ev, t_temp, t_spool, t_faults>>
  BY DEF T!ClaimWorker, T!WorkerFree, T!GoTo, T!Kernel, T!Capture, T!Disk
<1>2. Stage = "none" /\ Stage' = "capacity"
  BY <1>1, ConnsAssumption DEF Stage, TraceInv, TraceType
<1>3. WorkerInv' /\ TraceType'
  BY <1>1, ConnsAssumption DEF TraceInv, TraceType, WorkerInv, Preparing, Working
<1>4. T!Stored' = T!Stored /\ T!TargetCurrent' = T!TargetCurrent
  BY <1>1 DEF T!Stored, T!TargetCurrent
<1>5. StageInv'
  BY <1>1, <1>2 DEF TraceInv, StageInv, Preparing, Attaching, Finishing
<1>6. CoverInv' /\ ForeignInv' /\ CountInv' /\ FileClaims'
  BY <1>1, <1>2, <1>4 DEF TraceInv, CoverInv, ForeignInv, CountInv, FileClaims
<1>7. PlaceInv' /\ BlockInv'
  BY <1>1, <1>2, <1>4 DEF TraceInv, PlaceInv, BlockInv, HasTemporary, Attaching
<1> QED BY <1>3, <1>5, <1>6, <1>7 DEF TraceInv

\* Up to the attachment of the fork program nothing is observed.
LEMMA PreparingKeeps ==
    ASSUME TraceInv, NEW c \in Conns,
           \/ T!ValidateSpoolCapacity(c) \/ T!ConsumePlan(c) \/ T!ReserveOutput(c) \/ T!AttachFork(c)
    PROVE  TraceInv'
<1> USE DEF Preparing, Attaching, Finishing, Working
<1>t. /\ TraceType /\ WorkerInv /\ StageInv /\ ForeignInv /\ CountInv /\ BlockInv /\ PlaceInv
      /\ T!NoScan.pos = 1
  BY DEF TraceInv, T!NoScan
<1>0. t_conn[c] \in {"capacity", "consume", "reserve", "fork"}
  BY DEF T!ValidateSpoolCapacity, T!ConsumePlan, T!ReserveOutput, T!AttachFork, T!Step, T!At
<1>1. CASE T!RejectWorker(c)
  <2>1. t_conn[c] \in {"capacity", "consume"} /\ UNCHANGED <<t_temp, t_spool, t_faults>>
    BY <1>1, ConnsAssumption DEF T!ValidateSpoolCapacity, T!ConsumePlan, T!ReserveOutput, T!AttachFork,
       T!RejectWorker, T!Release, T!GoTo, T!Step, T!At, T!Disk, TraceInv, TraceType
  <2> QED BY <1>1, <2>1, RejectWorkerEnds, OverKeeps DEF HasTemporary
<1>2. CASE ~T!RejectWorker(c)
  <2>1. PICK next \in {"consume", "reserve", "fork", "scan"} :
          /\ Onward(c, next) /\ UNCHANGED <<t_owner, t_tids, t_early, t_scan, t_ev, t_spool, t_faults>>
          /\ t_conn[c] = "capacity" => Cardinality(T!Stored) < TraceArtifacts
          /\ next = "scan" => t_conn[c] = "fork" /\ t_attached' = {"fork"} /\ UNCHANGED t_temp
          /\ next = "fork" => UNCHANGED t_attached /\ t_temp' = c
          /\ next \in {"consume", "reserve"} => UNCHANGED <<t_attached, t_temp>> /\ t_conn[c] # "fork"
    BY <1>2, SameCardinality DEF T!ValidateSpoolCapacity, T!ConsumePlan, T!ReserveOutput, T!AttachFork, T!Step, T!At, T!GoTo,
       T!Kernel, T!Capture, T!Disk, Onward
  <2>2. /\ Stage = t_conn[c] /\ Stage' = next
        /\ t_attached = {} /\ t_tids = {} /\ t_scan = T!NoScan /\ t_ev = T!NoEvents
    BY <1>t, <1>0, <2>1, WorkerGoes DEF StageInv
  <2>3. WorkStep(c, next)
    BY <1>t, <2>1 DEF WorkStep, TraceType
  <2>4. StageInv'
    BY <2>1, <2>2 DEF StageInv
  <2>5. CoverInv'
    BY <1>t, <2>1, <2>2 DEF CoverInv, T!Tids
  <2>6. ForeignInv' /\ CountInv'
    BY <1>t, <2>1, <2>2 DEF ForeignInv, CountInv, T!TargetCurrent, T!NoScan
  <2>7. BlockInv'
    BY <1>t, <1>0, <2>1, <2>2 DEF BlockInv, HasTemporary
  <2>8. Cardinality(T!Stored) < TraceArtifacts
    BY <1>t, <1>0, <2>1, <2>2 DEF PlaceInv
  <2> QED BY <1>0, <2>3, <2>4, <2>5, <2>6, <2>7, <2>8, WorkStepKeeps
<1> QED BY <1>1, <1>2

\* The fork program, the snapshot, the exit program and the events.
LEMMA AttachingKeeps ==
    ASSUME TraceInv, NEW c \in Conns,
           \/ T!ReadTask(c) \/ T!AddTargetTids(c) \/ T!AttachExit(c) \/ T!AttachEvents(c)
           \/ T!AttachFails(c) \/ T!NotifyReady(c)
    PROVE  TraceInv'
<1> USE DEF Preparing, Attaching, Finishing, Working
<1>t. /\ TraceType /\ WorkerInv /\ StageInv /\ CoverInv /\ ForeignInv /\ CountInv /\ BlockInv
      /\ PlaceInv /\ Threads \in Nat /\ t_scan.pos \in Nat \ {0} /\ t_scan.seen \subseteq T!Tids
      /\ t_owner \in [T!Tids -> {"free", "target", "other"}]
  BY TraceAssumption DEF TraceInv, TraceType, T!TraceConstants
<1>0. t_conn[c] \in {"fork", "scan", "exit", "events", "report"}
  BY DEF T!ReadTask, T!AddTargetTids, T!AttachExit, T!AttachEvents, T!AttachFails, T!NotifyReady, T!Step, T!At
<1>s. t_worker = c /\ Stage = t_conn[c] /\ Cardinality(T!Stored) < TraceArtifacts
  BY <1>t, <1>0, WorkerAt DEF PlaceInv
<1>1. CASE T!CaptureFails(c)
  BY <1>0, <1>1, FailureEnds, OverKeeps
<1>2. CASE T!ReadTask(c)
  <2>1. /\ Stage = "scan" /\ t_scan.pos <= Threads /\ t_scan'.pos = t_scan.pos + 1
        /\ t_scan'.seen = IF t_owner[t_scan.pos] = "target" THEN t_scan.seen \cup {t_scan.pos}
                        ELSE t_scan.seen
        /\ t_scan' \in [pos : Nat \ {0}, seen : SUBSET T!Tids]
        /\ UNCHANGED <<t_owner, t_attached, t_tids, t_early, t_conn, t_worker, t_ev, t_temp, t_spool, t_faults>>
    BY <1>2, <1>s, <1>t DEF T!ReadTask, T!At, T!Kernel, T!Disk, T!Tids
  <2>2. Onward(c, "scan") /\ Stage' = "scan"
    BY <1>t, <1>s, <2>1, ConnsAssumption DEF Onward, Stage, TraceType
  <2>3. WorkStep(c, "scan")
    BY <1>t, <2>1, <2>2 DEF WorkStep, TraceType
  <2>4. StageInv' /\ CountInv' /\ BlockInv'
    BY <1>t, <2>1, <2>2 DEF StageInv, CountInv, BlockInv
  <2>5. CoverInv'
    BY <1>t, <2>1, <2>2 DEF CoverInv, T!TargetCurrent, T!Tids
  <2>6. ForeignInv'
    BY <1>t, <2>1, <2>2 DEF ForeignInv, T!TargetCurrent
  <2> QED BY <1>0, <1>s, <2>3, <2>4, <2>5, <2>6, WorkStepKeeps
<1>3. CASE T!AddTargetTids(c) /\ ~T!CaptureFails(c)
  <2>1. /\ Stage = "scan" /\ t_scan.pos > Threads /\ t_tids' = t_tids \cup t_scan.seen /\ Onward(c, "exit")
        /\ UNCHANGED <<t_owner, t_attached, t_early, t_scan, t_ev, t_temp, t_spool, t_faults>>
    BY <1>3, <1>s DEF T!AddTargetTids, T!At, T!GoTo, T!Capture, T!Disk, Onward
  <2>2. Stage' = "exit"
    BY <1>t, <1>0, <2>1, WorkerGoes
  <2>3. WorkStep(c, "exit")
    BY <1>t, <2>1 DEF WorkStep, TraceType
  <2>4. StageInv' /\ CountInv' /\ BlockInv'
    BY <1>t, <2>1, <2>2 DEF StageInv, CountInv, BlockInv, HasTemporary
  <2>5. CoverInv'
    BY <1>t, <2>1, <2>2 DEF CoverInv, T!TargetCurrent, T!Tids
  <2>6. ForeignInv'
    BY <1>t, <2>1, <2>2 DEF ForeignInv, T!TargetCurrent
  <2> QED BY <1>0, <1>s, <2>3, <2>4, <2>5, <2>6, WorkStepKeeps
<1>4. CASE (T!AttachExit(c) \/ T!AttachEvents(c) \/ T!NotifyReady(c)) /\ ~T!CaptureFails(c)
  <2>1. PICK next \in {"events", "report", "observe"} :
          /\ Onward(c, next) /\ UNCHANGED <<t_owner, t_tids, t_early, t_scan, t_ev, t_temp, t_spool, t_faults>>
          /\ next = "events" => Stage = "exit" /\ t_attached' = t_attached \cup {"fork", "exit"}
          /\ next = "report" => Stage = "events" /\ t_attached' = t_attached \cup {"events"}
          /\ next = "observe" => Stage = "report" /\ t_attached' = t_attached
    BY <1>4, <1>s DEF T!AttachExit, T!AttachEvents, T!NotifyReady, T!Step, T!At, T!GoTo, T!Kernel, T!Capture,
       T!Disk, Onward
  <2>2. Stage' = next
    BY <1>t, <1>0, <2>1, WorkerGoes
  <2>3. WorkStep(c, next)
    BY <1>t, <2>1 DEF WorkStep, TraceType
  <2>4. StageInv' /\ CountInv' /\ BlockInv'
    BY <1>t, <2>1, <2>2 DEF StageInv, CountInv, BlockInv, HasTemporary
  <2>5. CoverInv'
    BY <1>t, <2>1, <2>2 DEF CoverInv, T!TargetCurrent
  <2>6. ForeignInv'
    BY <1>t, <2>1, <2>2 DEF ForeignInv, T!TargetCurrent
  <2> QED BY <1>0, <1>s, <2>1, <2>3, <2>4, <2>5, <2>6, WorkStepKeeps
<1> QED BY <1>1, <1>2, <1>3, <1>4 DEF T!AttachFails

\* The end of the window, the last identity check, and what follows the file.
LEMMA FinishingKeeps ==
    ASSUME TraceInv, NEW c \in Conns,
           T!Drain(c) \/ T!CheckCapture(c) \/ T!RemoveTemporary(c) \/ T!Reply(c)
    PROVE  TraceInv'
<1> USE DEF Preparing, Attaching, Finishing, Working
<1>t. TraceType /\ WorkerInv /\ StageInv /\ ForeignInv /\ CountInv /\ BlockInv /\ PlaceInv
  BY DEF TraceInv
<1>0. t_conn[c] \in {"observe", "recheck", "unlink", "reply"}
  BY DEF T!Drain, T!CheckCapture, T!RemoveTemporary, T!Reply, T!Step, T!At
<1>s. t_worker = c /\ Stage = t_conn[c]
  BY <1>t, <1>0, WorkerAt
<1>1. CASE T!CheckCapture(c) /\ T!CaptureFails(c)
  BY <1>0, <1>1, FailureEnds, OverKeeps
<1>2. CASE T!Reply(c)
  <2>1. t_conn[c] \notin HasTemporary /\ T!GoTo(c, "idle") /\ T!Release /\ UNCHANGED <<t_temp, t_spool, t_faults>>
    BY <1>2 DEF T!Reply, T!At, HasTemporary, T!Disk
  <2> QED BY <1>0, <2>1, RejectWorkerEnds, OverKeeps
<1>3. CASE T!Drain(c)
  <2>1. /\ Stage = "observe" /\ Onward(c, "recheck") /\ t_attached' = {} /\ t_tids' = {}
        /\ t_ev' = T!Consume(t_ev.ring) /\ UNCHANGED <<t_owner, t_early, t_scan, t_temp, t_spool, t_faults>>
    BY <1>3, <1>s DEF T!Drain, T!Step, T!At, T!GoTo, T!Disk, Onward
  <2>2. /\ t_ev' \in EventCounts /\ t_ev'.foreign = t_ev.foreign /\ t_ev'.ring = 0
        /\ t_ev'.cut = "no" => t_ev'.emitted = t_ev'.kept + t_ev'.lost
    BY <1>t, <2>1, RingConsumed DEF TraceType
  <2>3. Stage' = "recheck" /\ Cardinality(T!Stored) < TraceArtifacts
    BY <1>t, <1>0, <2>1, WorkerGoes DEF PlaceInv
  <2>4. WorkStep(c, "recheck")
    BY <1>t, <2>1, <2>2 DEF WorkStep, TraceType
  <2>5. StageInv' /\ CountInv' /\ BlockInv'
    BY <1>t, <2>1, <2>2, <2>3 DEF StageInv, CountInv, BlockInv, HasTemporary, EventCounts
  <2>6. CoverInv' /\ ForeignInv'
    BY <1>t, <2>1, <2>2, <2>3 DEF CoverInv, ForeignInv, T!TargetCurrent
  <2> QED BY <1>0, <2>3, <2>4, <2>5, <2>6, WorkStepKeeps
<1>4. CASE T!CheckCapture(c) /\ ~T!CaptureFails(c)
  <2>1. /\ Stage = "recheck" /\ Onward(c, "write") /\ T!TargetCurrent
        /\ UNCHANGED <<t_owner, t_attached, t_tids, t_early, t_scan, t_ev, t_temp, t_spool, t_faults>>
    BY <1>4, <1>s DEF T!CheckCapture, T!At, T!GoTo, T!Kernel, T!Capture, T!Disk, Onward
  <2>2. Stage' = "write" /\ Cardinality(T!Stored) < TraceArtifacts
    BY <1>t, <1>0, <2>1, WorkerGoes DEF PlaceInv
  <2>3. WorkStep(c, "write")
    BY <1>t, <2>1 DEF WorkStep, TraceType
  <2>4. StageInv' /\ CountInv' /\ BlockInv'
    BY <1>t, <2>1, <2>2 DEF StageInv, CountInv, BlockInv, HasTemporary, T!TargetCurrent
  <2>5. CoverInv' /\ ForeignInv'
    BY <1>t, <2>1, <2>2 DEF CoverInv, ForeignInv, T!TargetCurrent
  <2> QED BY <1>0, <2>2, <2>3, <2>4, <2>5, WorkStepKeeps
<1>5. CASE T!RemoveTemporary(c)
  <2>1. /\ Stage = "unlink" /\ Onward(c, "reply") /\ t_temp' = T!Nobody
        /\ UNCHANGED <<t_owner, t_attached, t_tids, t_early, t_scan, t_ev, t_spool, t_faults>>
    BY <1>5, <1>s DEF T!RemoveTemporary, T!Step, T!At, T!GoTo, T!Kernel, T!Capture, Onward
  <2>2. Stage' = "reply"
    BY <1>t, <1>0, <2>1, WorkerGoes
  <2>3. WorkStep(c, "reply")
    BY <1>t, <2>1 DEF WorkStep, TraceType
  <2>4. StageInv' /\ CountInv' /\ BlockInv'
    BY <1>t, <2>1, <2>2 DEF StageInv, CountInv, BlockInv
  <2>5. CoverInv' /\ ForeignInv'
    BY <1>t, <2>1, <2>2 DEF CoverInv, ForeignInv, T!TargetCurrent
  <2> QED BY <1>0, <2>2, <2>3, <2>4, <2>5, WorkStepKeeps
<1> QED BY <1>1, <1>2, <1>3, <1>4, <1>5

\* The file is published: what it says of its events is what was counted, and it
\* takes the place that was free when the collection was admitted.
LEMMA LinkKeeps == ASSUME TraceInv, NEW c \in Conns, T!LinkOutput(c) PROVE TraceInv'
<1> USE DEF Preparing, Attaching, Finishing, Working
<1>t. /\ TraceType /\ WorkerInv /\ StageInv /\ ForeignInv /\ CountInv /\ FileClaims /\ BlockInv
      /\ PlaceInv /\ t_ev \in EventCounts /\ MaxLines \in Nat \ {0} /\ TraceArtifacts \in Nat
  BY TraceAssumption DEF TraceInv, TraceType, T!TraceConstants
<1> DEFINE file == [stored |-> T!Written, emitted |-> t_ev.emitted, lost |-> t_ev.lost,
                    foreign |-> t_ev.foreign, early |-> t_early, cut |-> T!Cut]
<1>1. /\ t_conn[c] = "write" /\ Onward(c, "unlink") /\ t_spool' = [t_spool EXCEPT ![c] = file]
      /\ UNCHANGED <<t_owner, t_attached, t_tids, t_early, t_scan, t_ev, t_temp, t_faults>>
  BY DEF T!LinkOutput, T!Step, T!At, T!GoTo, T!Kernel, T!Capture, Onward
<1>2. /\ t_worker = c /\ Stage = "write" /\ Stage' = "unlink" /\ WorkerInv'
      /\ t_conn' \in [Conns -> {"idle", "read", "claim"} \cup Working]
  BY <1>t, <1>1, WorkerGoes
<1>3. T!TargetCurrent /\ t_ev.ring = 0 /\ Cardinality(T!Stored) < TraceArtifacts
  BY <1>t, <1>2 DEF StageInv, PlaceInv
<1>4. file \in TraceFile
  <2>1. T!Written \in Nat /\ T!Cut \in YesNo
    BY <1>t DEF EventCounts, T!Written, T!Cut, YesNo
  <2>2. t_ev.emitted \in Nat /\ t_ev.lost \in Nat /\ t_ev.foreign \in YesNo /\ t_early \in SUBSET T!Tids
    BY <1>t DEF EventCounts, TraceType
  <2> QED BY <2>1, <2>2 DEF TraceFile
<1>5. /\ file.foreign = "yes" => file.early # {}
      /\ (file.stored > 0 /\ file.lost = 0 /\ file.cut = "no") => file.stored = file.emitted
  BY <1>t, <1>3 DEF ForeignInv, CountInv, EventCounts, YesNo, T!Written, T!Cut
<1> HIDE DEF file
<1>6. TraceType'
  BY <1>t, <1>1, <1>2, <1>4 DEF TraceType, Onward
<1>7. FileClaims'
  BY <1>t, <1>1, <1>5 DEF FileClaims, TraceType
<1>8. StageInv' /\ CountInv' /\ BlockInv' /\ CoverInv' /\ ForeignInv'
  BY <1>t, <1>1, <1>2 DEF StageInv, CountInv, BlockInv, HasTemporary, CoverInv, ForeignInv,
     T!TargetCurrent
<1>9. PlaceInv'
  <2>1. T!Stored' \subseteq T!Stored \cup {c}
    BY <1>t, <1>1 DEF T!Stored, TraceType
  <2>2. /\ IsFiniteSet(T!Stored \cup {c}) /\ Cardinality(T!Stored \cup {c}) <= Cardinality(T!Stored) + 1
        /\ Cardinality(T!Stored) \in Nat
    <3>1. IsFiniteSet(T!Stored)
      BY <1>t DEF PlaceInv
    <3>2. Cardinality(T!Stored) \in Nat
      BY <3>1, FS_CardinalityType
    <3>3. /\ IsFiniteSet(T!Stored \cup {c})
          /\ \/ Cardinality(T!Stored \cup {c}) = Cardinality(T!Stored)
             \/ Cardinality(T!Stored \cup {c}) = Cardinality(T!Stored) + 1
      BY <3>1, FS_AddElement
    <3> QED BY <3>2, <3>3
  <2>3. IsFiniteSet(T!Stored') /\ Cardinality(T!Stored') <= Cardinality(T!Stored \cup {c})
    BY <2>1, <2>2, FS_Subset
  <2>4. Cardinality(T!Stored \cup {c}) \in Nat /\ Cardinality(T!Stored') \in Nat
    BY <2>2, <2>3, FS_CardinalityType
  <2> QED BY <1>t, <1>2, <1>3, <2>2, <2>3, <2>4 DEF PlaceInv
<1> QED BY <1>2, <1>6, <1>7, <1>8, <1>9 DEF TraceInv

LEMMA NextTrace == ASSUME TraceInv, [T!Next]_(T!vars) PROVE TraceInv'
<1>1. ASSUME NEW c \in Conns, T!WriteFails(c)
      PROVE  TraceInv'
  <2>1. t_conn[c] \in Working
    BY <1>1 DEF T!WriteFails, Finishing, Working
  <2> QED BY <1>1, <2>1, FailureEnds, OverKeeps
<1>2. CASE UNCHANGED T!vars
  <2>1. Aside
    BY <1>2 DEF T!vars, Aside, Stage, TraceInv, TraceType, WorkerInv
  <2> QED BY <2>1, AsideKeeps
<1>3. CASE T!Crash
  BY <1>3, CrashEnds, OverKeeps
<1>4. ASSUME NEW c \in Conns, T!Serve(c)
      PROVE  TraceInv'
  BY <1>4, AsideSteps, AsideKeeps, ClaimKeeps, PreparingKeeps, AttachingKeeps, FinishingKeeps,
     LinkKeeps DEF T!Serve
<1>5. ASSUME NEW t \in T!Tids, T!ThreadStarts(t) \/ T!OtherStarts(t) \/ T!ThreadEnds(t)
                              \/ T!SchedEvent(t) \/ T!LockEvent(t)
      PROVE  TraceInv'
  BY <1>5, ThreadSteps, EventSteps
<1>6. ASSUME NEW c \in Conns,
             T!Request(c) \/ T!RefusePlan(c) \/ T!RefusePolicyFile(c) \/ T!RefuseSocket(c)
              \/ T!ClientTimeout(c) \/ T!Poll(c) \/ T!PublishFails(c)
      PROVE  TraceInv'
  BY <1>6, AsideSteps, AsideKeeps, PollKeeps
<1> QED BY <1>1, <1>2, <1>3, <1>4, <1>5, <1>6 DEF T!Next

LEMMA TraceIsHonest == TraceInv => T!ThreadsCovered /\ T!TraceHonest
<1> SUFFICES ASSUME TraceInv PROVE T!ThreadsCovered /\ T!TraceHonest
  OBVIOUS
<1>1. T!ThreadsCovered
  <2>1. ("events" \in t_attached) => T!Observed
    BY DEF T!Observed
  <2> QED BY <2>1, ObservedStages DEF TraceInv, CoverInv, T!ThreadsCovered, Attaching
<1>2. T!TraceAccounted /\ T!ForeignNeedsEarlyExit
  BY SameCardinality DEF TraceInv, FileClaims, PlaceInv, T!TraceAccounted, T!ForeignNeedsEarlyExit
<1>3. T!OnlyFaultsBlock
  BY DEF TraceInv, BlockInv, T!OnlyFaultsBlock, Stage, HasTemporary, Attaching
<1> QED BY <1>1, <1>2, <1>3 DEF T!TraceHonest

\* Once the programs that emit events are attached, every thread of the target is
\* in the kernel's table, however threads start and end while the snapshot is
\* read; a published trace without a mark of loss or of truncation holds every
\* event that was emitted for it, and holds events of another process only when a
\* thread ended before the exit program was attached; and only a fault leaves the
\* temporary file that refuses every later plan (backend.rs, execution.rs).
THEOREM TraceEvidenceHonest == AllSpec => []TraceHonest
<1>1. AllInit => TraceInv
  BY InitTrace DEF AllInit
<1>2. TraceInv /\ [AllNext]_all => TraceInv'
  <2>1. [AllNext]_all => [T!Next]_(T!vars)
    BY DEF AllNext, all, t_vars, T!vars
  <2> QED BY <2>1, NextTrace
<1>3. TraceInv => TraceHonest
  BY TraceIsHonest DEF TraceHonest
<1> QED BY <1>1, <1>2, <1>3, PTL DEF AllSpec
=============================================================================
