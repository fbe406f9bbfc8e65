------------------------- MODULE ManagedDockerProofs ------------------------
(***************************************************************************)
(* Theorems about what PerfLens does and keeps for a project.              *)
(*                                                                         *)
(* ManagedDocker, for any timeout, budgets and expiry, any number of calls *)
(* and any number of failing Docker commands and deaths of the server: the *)
(* inductive invariant says, for every step of the call, where the         *)
(* container can be, what the connection can carry, when the workload can  *)
(* have run and what the session has been charged.                         *)
(*                                                                         *)
(* TraceStream and TraceAnalysis, for inputs of any length: what the       *)
(* readers have counted, and which intervals of a thread are open and      *)
(* closed.                                                                 *)
(*                                                                         *)
(* ArtifactStore, for any artifacts and savers: what a call has verified of*)
(* the files it holds, and what every name of a saved file stands for.     *)
(*                                                                         *)
(* ProjectSetup, for any selections and any number of commands, edits and  *)
(* faults: what a command has planned, changed and backed up, and who      *)
(* claims each entry in the record.                                        *)
(***************************************************************************)
EXTENDS MCProject, Integers, Sequences, TLAPS

----------------------------------------------------------------------------
(* The inductive invariant.                                                *)

\* The steps of the managed call until the release, from the release on, and those
\* of the call for an existing container.
Before == {"dirs", "create", "start", "accept", "bind", "plan", "broker", "undo", "return"}
Released == {"closing", "collect", "wait", "convert", "failing", "cleanup", "settle",
             "settle_failed", "publish"}
Ending == {"settle", "settle_failed", "publish"}
Existing == {"attach", "observe"}
Steps == {"idle"} \cup Before \cup Released \cup Existing

\* Types, a part for each component.
States == {"none", "active", "expired", "revoked", "exhausted"}
SessionType ==
    /\ sess \in [kind : {"none", "existing", "managed"}, state : States, runs : 0..MaxRuns,
                 secs : 0..MaxSeconds, expires : Nat]
    /\ lease \in Nat
CallType ==
    call \in [pc : Steps, started : Nat, finished : Nat,
              result : {"none", "refused", "error", "ok", "died"}]
WorldType ==
    /\ box \in {"none", "unknown", "created", "running", "exited", "gone"}
    /\ gate \in {"off", "connecting", "waiting", "setup", "running", "exited"}
    /\ conn \in {"none", "listening", "open", "sent", "read", "closed"}
    /\ dir \in {"none", "present"}
WatchType ==
    /\ mon \in [state : {"off", "running", "error", "finished", "stopped"}, ended : Nat]
    /\ run \in [status : {"none", "exited"}, cleanup : {"none", "removed", "preserved"},
                settled : {"no", "yes"}]
HistoryType ==
    /\ hist \in [release : {"no", "yes"}, ran : Nat, now : Nat]
    /\ clock \in 1..MaxClock /\ calls \in Nat /\ faults \in 0..MaxFaults
Types == SessionType /\ CallType /\ WorldType /\ WatchType /\ HistoryType

\* The Gate runs in a running container, and only a managed session has one.
WorldInv ==
    /\ box = "running" <=> gate \in {"connecting", "waiting", "setup", "running"}
    /\ box = "exited" <=> gate = "exited"
    /\ call.pc \in Before \cup Released => sess.kind = "managed"
    /\ call.pc \in Existing => sess.kind = "existing"
    /\ sess.kind = "existing" => box \in {"none", "gone"}
    /\ call.pc \in {"dirs", "create"} => box = "none"
    /\ call.pc = "start" => box = "created"
    /\ call.pc \in {"accept", "bind", "plan", "broker"} => box \in {"running", "exited", "gone"}

\* Before the release the connection carries none.
ReleaseInv ==
    /\ gate \in {"setup", "running"} => hist.release = "yes"
    /\ (gate \in {"connecting", "waiting"} /\ conn = "sent") => hist.release = "yes"
    /\ call.pc \in {"create", "start", "accept", "bind", "plan", "broker"} =>
          conn \notin {"sent", "read"}
    /\ call.pc \in Before \cup Existing => hist.release = "no"

\* Where container and directory may be while nothing has failed.
Disposed == box \in {"none", "gone"} /\ dir = "none"
LeftInv ==
    faults = 0 =>
        /\ call.pc \in {"idle", "dirs", "return"} \cup Ending \cup Existing => Disposed
        /\ call.pc = "undo" => box \in {"none", "created", "running", "exited"}
        /\ call.pc \in {"accept", "bind", "plan", "broker"} \cup (Released \ Ending)
              => box \in {"running", "exited"}
        /\ call.pc \in {"settle", "publish"} => run.cleanup = "removed"

\* The run's account of the container.
RunInv ==
    /\ call.pc \in {"convert", "cleanup", "settle", "publish"} => box \in {"exited", "gone"}
    /\ call.pc \in {"settle", "publish"} => (run.cleanup = "removed" => box = "gone")
    /\ call.pc = "publish" => run.settled = "yes"
    /\ run.status = "exited" =>
          /\ call.pc \in {"idle", "settle_failed"} /\ run.settled = "yes"
          /\ box \in {"exited", "gone"} /\ (run.cleanup = "removed" => box = "gone")

\* The seconds a workload ran lie between the release and every end the call knows.
TimeInv ==
    call.pc # "idle" =>
        /\ call.pc \in Before \cup Existing => call.started = 0 /\ call.finished = 0
        /\ hist.release = "yes" => call.started # 0
        /\ call.started = 0 => hist.now = 0 /\ mon.ended = 0 /\ mon.state # "running"
        /\ call.started # 0 => call.started + hist.now <= clock
        /\ mon.ended # 0 => /\ call.started + hist.now <= mon.ended /\ mon.ended <= clock
                            /\ box \in {"exited", "gone"}
        /\ call.finished # 0 => /\ call.started + hist.now <= call.finished
                                /\ box \in {"exited", "gone"}

\* The reservation covers the run until it is settled.
ChargeInv ==
    /\ call.pc = "idle" => sess.secs >= hist.ran
    /\ call.pc \notin {"idle", "publish", "settle_failed"} => sess.secs >= hist.ran + Timeout
    /\ call.pc \in {"publish", "settle_failed"} =>
          \/ sess.secs >= hist.ran + Timeout
          \/ lease = 0 /\ sess.secs >= hist.ran + Smaller(Timeout, hist.now)


DockerInv ==
    /\ Types /\ WorldInv /\ ReleaseInv /\ LeftInv /\ RunInv /\ TimeInv /\ ChargeInv

----------------------------------------------------------------------------
(* The elementary steps.  What several actions do to a container, or to    *)
(* the session's account, is stated once; Next is the disjunction of the   *)
(* steps below.                                                            *)

\* What removing a container does to it, whether or not the commands fail: it is
\* gone, as it was, or stopped; without a failure a known container and its
\* directory are gone.
Handled(next) ==
    /\ GoTo(next) /\ box # "none" /\ dir' \in {dir, "none"}
    /\ conn' \in {conn, "closed", "none"}
    /\ faults' \in {faults, faults + 1} /\ faults' <= MaxFaults
    /\ \/ box' = "gone" /\ gate' = "off"
       \/ box' = box /\ gate' = gate
       \/ box = "running" /\ box' = "exited" /\ gate' = "exited"
    /\ (faults' = 0 /\ Verified) => box' = "gone" /\ dir' = "none"

\* What settling does to the session: the reservation is replaced by the use, or
\* the account stays as it is.
Charged(actual) ==
    /\ sess' \in [kind : {sess.kind}, state : States, runs : {sess.runs},
                  secs : {sess.secs, sess.secs - Timeout + actual}, expires : {sess.expires}]
    /\ lease' \in {0, lease}
    /\ Finished => lease # 0 /\ lease' = 0 /\ sess'.secs = sess.secs - Timeout + actual
    /\ ~Finished => sess'.secs = sess.secs

\* begin_run reserves a run and its seconds, or refuses.
Begins ==
    /\ At("idle") /\ calls' = calls + 1 /\ run' = NoRun /\ mon' = NoMonitor
    /\ hist' \in [release : {"no"}, ran : {hist.ran}, now : {0}]
    /\ (sess.kind = "managed" /\ Disposed) \/ sess.kind = "existing"
    /\ box' = IF box = "gone" THEN "none" ELSE box
    /\ UNCHANGED <<clock, gate, conn, dir, faults>>
Begun ==
    /\ Begins /\ sess.runs < MaxRuns /\ sess.secs + Timeout <= MaxSeconds /\ lease' \in Nat
    /\ sess' \in [kind : {sess.kind}, state : {sess.state}, runs : {sess.runs + 1},
                  secs : {sess.secs + Timeout}, expires : {sess.expires}]
    /\ call' = [Idle EXCEPT !.pc = IF sess.kind = "managed" THEN "dirs" ELSE "attach"]
BeginRefused ==
    /\ Begins /\ lease' \in {0, lease}
    /\ sess' \in [kind : {sess.kind}, state : States, runs : {sess.runs}, secs : {sess.secs},
                  expires : {sess.expires}]
    /\ call' = [Idle EXCEPT !.result = "refused"]

\* Before the release: the container is looked at and used, or prepare gives up.
GivesUp(pc) ==
    /\ At(pc) /\ GiveUp /\ conn' = "closed" /\ UNCHANGED dir
    /\ \/ UNCHANGED <<box, gate, faults>>
       \/ pc = "create" /\ FaultAllowed /\ box' = "unknown" /\ UNCHANGED gate
       \/ pc = "start" /\ FaultAllowed /\ UNCHANGED <<box, gate>>
       \/ pc = "start" /\ FaultAllowed /\ box' = "running" /\ gate' = "connecting"

Created == Prepare("create", "start") /\ box' = "created" /\ UNCHANGED <<gate, conn, dir>>
Started == Prepare("start", "accept") /\ box' = "running" /\ gate' = "connecting"
           /\ UNCHANGED <<conn, dir>>
Accepted == Prepare("accept", "bind") /\ conn' = "open" /\ UNCHANGED <<box, gate, dir>>
Bound == Prepare("bind", "plan") /\ UNCHANGED World
Planned == Step("plan", "broker") /\ UNCHANGED <<World, Watch>>

\* The Gate and its workload.
GateStops == gate \in {"connecting", "waiting", "setup", "running"} /\ GateEnds
GateReleased ==
    /\ gate = "waiting" /\ conn = "sent" /\ gate' = "setup" /\ conn' = "read"
    /\ UNCHANGED <<Gates, box>>

\* The release, or what was found instead of a waiting Gate.
ReleaseStep(pc) ==
    /\ At("broker") /\ mon' = [NoMonitor EXCEPT !.state = "running"]
    /\ call' \in [pc : {pc}, started : {clock}, finished : {call.finished}, result : {call.result}]
    /\ UNCHANGED <<Work, sess, lease, box, gate, dir, run, faults>>
ReleaseSent ==
    /\ ReleaseStep("closing") /\ box = "running" /\ gate = "waiting" /\ conn' = "sent"
    /\ hist' = [hist EXCEPT !.release = "yes"]
ReleaseRefused == ReleaseStep("failing") /\ conn' = "closed" /\ UNCHANGED hist

\* A step of the managed call goes on to the next or to the failure path.
Confirmed == At("closing") /\ GoTo("collect")
             /\ UNCHANGED <<Work, sess, lease, World, Watch, run, hist, faults>>
CollectEnds == At("collect") /\ GoTo("wait")
               /\ UNCHANGED <<Work, sess, lease, World, mon, run, hist, faults>>
Waited ==
    /\ At("wait") /\ UNCHANGED <<Work, sess, lease, World, Watch, run, hist, faults>>
    /\ box = "exited"
    /\ call' \in [pc : {"convert"}, started : {call.started},
                  finished : {IF mon.ended # 0 THEN mon.ended ELSE clock}, result : {call.result}]
Failure(pc) ==
    /\ At(pc) /\ GoTo("failing") /\ faults' \in {faults, faults + 1} /\ faults' <= MaxFaults
    /\ UNCHANGED <<Work, sess, lease, World, mon, run, hist>>
MonitorFinished ==
    /\ At("convert") /\ GoTo("cleanup") /\ mon' = [mon EXCEPT !.state = "finished"]
    /\ UNCHANGED <<Work, sess, lease, World, run, hist, faults>>

\* Removal, settlement and publication.
RunCounted ==
    hist' \in [release : {hist.release}, ran : {hist.ran + Smaller(Timeout, hist.now)}, now : {0}]
UndoContainer ==
    /\ At("undo") /\ Handled("return") /\ UNCHANGED <<Work, sess, lease, Watch, run, hist>>
UndoNothing ==
    /\ At("undo") /\ box \notin CleanupKnown /\ GoTo("return") /\ dir' = "none"
    /\ UNCHANGED <<Work, sess, lease, Watch, run, hist, box, gate, faults>> /\ conn' = "none"
Returned ==
    /\ At("return") /\ Charged(0) /\ call' = [Idle EXCEPT !.result = "error"]
    /\ UNCHANGED <<Work, World, Watch, run, hist, faults>>
CleanedFailed ==
    /\ At("failing") /\ Handled("settle_failed") /\ UNCHANGED <<Work, sess, lease, run, hist>>
    /\ mon' = [mon EXCEPT !.state = "stopped"]
SettledFailed ==
    /\ At("settle_failed") /\ Charged(ActiveSeconds) /\ call' = [Idle EXCEPT !.result = "error"]
    /\ RunCounted /\ UNCHANGED <<Work, World, Watch, run, faults>>
Cleaned ==
    /\ At("cleanup") /\ Handled("settle") /\ UNCHANGED <<Work, sess, lease, Watch, hist>>
    /\ \/ run' = [NoRun EXCEPT !.cleanup = "removed"] /\ box' = "gone"
       \/ run' = [NoRun EXCEPT !.cleanup = "preserved"] /\ ~(faults' = 0 /\ Verified)
Settled ==
    /\ At("settle") /\ Charged(ActiveSeconds) /\ Finished /\ GoTo("publish")
    /\ run' = [run EXCEPT !.settled = "yes"] /\ UNCHANGED <<Work, World, Watch, hist, faults>>
SettleRefused ==
    /\ At("settle") /\ Charged(ActiveSeconds) /\ ~Finished /\ UNCHANGED <<Work, Watch, run, hist>>
    /\ \/ run.cleanup = "removed" /\ GoTo("settle_failed") /\ UNCHANGED <<World, faults>>
       \/ run.cleanup # "removed" /\ Handled("settle_failed")
Unpublished ==
    /\ At("publish") /\ run' \in {run, [run EXCEPT !.status = "exited"]}
    /\ UNCHANGED <<Work, sess, lease, Watch, hist>>
    /\ \/ run.cleanup = "removed" /\ GoTo("settle_failed") /\ UNCHANGED <<World, faults>>
       \/ run.cleanup # "removed" /\ Handled("settle_failed")
Published ==
    /\ At("publish") /\ run' = [run EXCEPT !.status = "exited"] /\ RunCounted
    /\ call' = [Idle EXCEPT !.result = "ok"]
    /\ UNCHANGED <<Work, sess, lease, World, Watch, faults>>
Observed ==
    /\ At("observe") /\ UNCHANGED <<Work, World, Watch, run, hist, faults>>
    /\ \E actual \in 0..Timeout : Charged(actual)
    /\ \E result \in {"ok", "error"} : call' = [Idle EXCEPT !.result = result]

Elementary ==
    \/ Tick \/ Revoke \/ Refused \/ Begun \/ BeginRefused
    \/ \E kind \in {"existing", "managed"} : Authorize(kind)
    \/ CreateRunDirectories \/ Created \/ Started \/ Accepted \/ Bound \/ Planned
    \/ \E pc \in {"dirs", "create", "start", "accept", "bind"} : GivesUp(pc)
    \/ GateConnects \/ GateStops \/ GateReleased \/ GateExecs
    \/ ReleaseSent \/ ReleaseRefused \/ Confirmed \/ CollectEnds \/ Waited \/ MonitorFinished
    \/ \E pc \in {"plan", "broker", "closing", "collect", "wait", "convert"} : Failure(pc)
    \/ MonitorSees \/ MonitorFails
    \/ UndoContainer \/ UndoNothing \/ Returned \/ CleanedFailed \/ SettledFailed \/ Cleaned
    \/ Settled \/ SettleRefused \/ Unpublished \/ Published \/ AttachExisting \/ Observed
    \/ ServerDies \/ OperatorRemoves

----------------------------------------------------------------------------
(* What the elementary steps do, and that they are all steps.              *)

\* Removing a container, or failing to, handles it.
LEMMA RemovalHandles ==
  ASSUME DockerConstants, HistoryType, WorldType, NEW next, Removes(next) \/ Preserves(next)
  PROVE  Handled(next)
<1>1. CASE Removes(next)
  BY <1>1 DEF Removes, Handled, GoTo, FaultAllowed, Verified, HistoryType, WorldType,
     DockerConstants
<1>2. CASE Preserves(next)
  BY <1>2 DEF Preserves, Handled, GoTo, FaultAllowed, Verified, HistoryType, WorldType,
     DockerConstants
<1> QED BY <1>1, <1>2

\* A removal without a failure is one of a known container.
LEMMA RemovedIsGone ==
  ASSUME NEW next, Removes(next)
  PROVE  box' = "gone"
<1> QED BY DEF Removes

\* A preserved container is unknown, or a command has failed.
LEMMA PreservedFailed ==
  ASSUME DockerConstants, HistoryType, NEW next, Preserves(next)
  PROVE  ~(faults' = 0 /\ Verified)
<1> QED BY DEF Preserves, FaultAllowed, HistoryType

\* Settling charges the session.
LEMMA FinishCharges ==
  ASSUME DockerConstants, SessionType, HistoryType, NEW actual \in Nat, Finish(actual)
  PROVE  Charged(actual)
<1> USE DEF DockerConstants, SessionType, HistoryType, States
<1> DEFINE settled == [sess EXCEPT !.secs = @ - Timeout + actual]
<1>1. CASE Usable /\ lease # 0
  <2>1. /\ lease' = 0
        /\ sess' = End(settled, "exhausted") \/ sess' = settled
    BY <1>1 DEF Finish
  <2>2. settled = [kind |-> sess.kind, state |-> sess.state, runs |-> sess.runs,
                   secs |-> sess.secs - Timeout + actual, expires |-> sess.expires]
    OBVIOUS
  <2> HIDE DEF settled
  <2>3. End(settled, "exhausted")
          = [kind |-> sess.kind, state |-> "exhausted", runs |-> sess.runs,
             secs |-> sess.secs - Timeout + actual, expires |-> sess.expires]
    BY <2>2 DEF End
  <2> QED BY <1>1, <2>1, <2>2, <2>3 DEF Charged, Finished
<1>2. CASE ~(Usable /\ lease # 0)
  <2>1. sess' = Expire /\ lease' = DropExpired
    BY <1>2 DEF Finish
  <2>2. /\ Expire \in [kind : {sess.kind}, state : States, runs : {sess.runs},
                       secs : {sess.secs}, expires : {sess.expires}]
        /\ DropExpired \in {0, lease}
    BY DEF Expire, DropExpired
  <2> QED BY <1>2, <2>1, <2>2 DEF Charged, Finished
<1> QED BY <1>1, <1>2

\* The active seconds cover what the workload ran, up to the timeout.
LEMMA ActiveCovers ==
  ASSUME DockerConstants, CallType, WatchType, HistoryType, TimeInv, call.pc # "idle"
  PROVE  /\ ActiveSeconds \in 0..Timeout
         /\ ActiveSeconds >= Smaller(Timeout, hist.now)
<1> USE DEF DockerConstants, CallType, WatchType, HistoryType, TimeInv
<1>1. CASE call.started = 0
  BY <1>1 DEF ActiveSeconds, Smaller
<1>2. CASE call.started # 0
  <2>1. PICK end \in Nat : /\ end >= call.started + hist.now
                           /\ ActiveSeconds = Smaller(Timeout, Larger(1, end - call.started))
    BY <1>2 DEF ActiveSeconds
  <2> QED BY <1>2, <2>1 DEF Smaller, Larger
<1> QED BY <1>1, <1>2

\* The records after an update of two fields.
LEMMA UpdatedRecords ==
  ASSUME CallType, HistoryType, SessionType, NEW p, NEW t
  PROVE  /\ [call EXCEPT !.pc = p, !.started = t]
               \in [pc : {p}, started : {t}, finished : {call.finished}, result : {call.result}]
         /\ [call EXCEPT !.pc = p, !.finished = t]
               \in [pc : {p}, started : {call.started}, finished : {t}, result : {call.result}]
         /\ [hist EXCEPT !.release = p, !.now = t]
               \in [release : {p}, ran : {hist.ran}, now : {t}]
         /\ [hist EXCEPT !.ran = p, !.now = t]
               \in [release : {hist.release}, ran : {p}, now : {t}]
         /\ [sess EXCEPT !.runs = p, !.secs = t]
               \in [kind : {sess.kind}, state : {sess.state}, runs : {p}, secs : {t},
                    expires : {sess.expires}]
<1>1. /\ [call EXCEPT !.pc = p, !.started = t]
            \in [pc : {p}, started : {t}, finished : {call.finished}, result : {call.result}]
      /\ [call EXCEPT !.pc = p, !.finished = t]
            \in [pc : {p}, started : {call.started}, finished : {t}, result : {call.result}]
  BY DEF CallType
<1>2. /\ [hist EXCEPT !.release = p, !.now = t] \in [release : {p}, ran : {hist.ran}, now : {t}]
      /\ [hist EXCEPT !.ran = p, !.now = t] \in [release : {hist.release}, ran : {p}, now : {t}]
  BY DEF HistoryType
<1>3. [sess EXCEPT !.runs = p, !.secs = t]
         \in [kind : {sess.kind}, state : {sess.state}, runs : {p}, secs : {t},
              expires : {sess.expires}]
  BY DEF SessionType
<1> QED BY <1>1, <1>2, <1>3

\* begin_run begins a run or refuses it.
LEMMA RunBegins ==
  ASSUME DockerConstants, SessionType, CallType, WorldType, HistoryType,
         NEW next, BeginRun(next),
         \/ sess.kind = "managed" /\ Disposed /\ next = "dirs"
         \/ sess.kind = "existing" /\ next = "attach"
  PROVE  Begun \/ BeginRefused
<1> USE DEF DockerConstants, SessionType, HistoryType
<1>1. Begins
  BY UpdatedRecords DEF BeginRun, Begins
<1>2. CASE Usable /\ lease = 0 /\ ~Exhausted
  <2>1. /\ sess' = [sess EXCEPT !.runs = sess.runs + 1, !.secs = sess.secs + Timeout]
        /\ lease' = clock + LeaseSeconds /\ call' = [Idle EXCEPT !.pc = next]
    BY <1>2 DEF BeginRun
  <2>2. LeaseSeconds \in Nat
    BY DEF LeaseSeconds, Smaller, Larger
  <2>3. sess.runs < MaxRuns /\ sess.secs + Timeout <= MaxSeconds
    BY <1>2 DEF Exhausted
  <2>4. sess' \in [kind : {sess.kind}, state : {sess.state}, runs : {sess.runs + 1},
                   secs : {sess.secs + Timeout}, expires : {sess.expires}]
    BY <2>1, UpdatedRecords
  <2>5. lease' \in Nat
    BY <2>1, <2>2
  <2>6. call' = [Idle EXCEPT !.pc = IF sess.kind = "managed" THEN "dirs" ELSE "attach"]
    BY <2>1
  <2> QED BY <1>1, <2>3, <2>4, <2>5, <2>6 DEF Begun
<1>3. CASE ~(Usable /\ lease = 0 /\ ~Exhausted)
  <2>1. /\ sess' \in {End(sess, "exhausted"), Expire}
        /\ lease' = DropExpired /\ call' = [Idle EXCEPT !.result = "refused"]
    BY <1>3 DEF BeginRun
  <2>2. /\ End(sess, "exhausted") \in [kind : {sess.kind}, state : States, runs : {sess.runs},
                                       secs : {sess.secs}, expires : {sess.expires}]
        /\ Expire \in [kind : {sess.kind}, state : States, runs : {sess.runs},
                       secs : {sess.secs}, expires : {sess.expires}]
        /\ DropExpired \in {0, lease}
    BY DEF Expire, DropExpired, End, States
  <2> QED BY <1>1, <2>1, <2>2 DEF BeginRefused
<1> QED BY <1>2, <1>3

\* Every step is an elementary one.
LEMMA NextElementary ==
  ASSUME DockerConstants, SessionType, CallType, WorldType, WatchType, HistoryType, TimeInv,
         WorldInv, Next
  PROVE  Elementary
<1> USE DockerConstants, SessionType, CallType, WorldType, WatchType, HistoryType DEF Elementary
<1>1. CASE Refusals
  BY <1>1 DEF Refusals, RefusePreflight, RefuseProject, RefusePolicyFile, RefuseGateBinary,
     RefuseDockerCli, RefuseEndpoint, RefuseTreatment, RefuseDiscovery, RefuseSelection
<1>2. CASE AuthorizeExisting \/ AuthorizeManaged
  BY <1>2 DEF AuthorizeExisting, AuthorizeManaged
<1>3. CASE PrepareFails
  <2>1. PICK pc \in {"dirs", "create", "accept", "bind"} : PrepareRefused(pc)
    BY <1>3, Zenon DEF PrepareFails, RefuseAuthorizedRun, RefuseRuntimeRoot, RefuseMountSource,
       RefuseRuntimeLockSurface, RefuseCreateArguments, RefuseIsolation, RefusePeer,
       RefuseIdentity, RefuseNamespaces, RefuseMembership
  <2>2. GivesUp(pc)
    BY <2>1 DEF PrepareRefused, GivesUp
  <2> QED BY <2>2
<1>4. CASE CreateContainer
  <2>1. Created \/ GivesUp("create")
    BY <1>4 DEF CreateContainer, Created, GivesUp
  <2> QED BY <2>1
<1>5. CASE StartContainer
  <2>1. Started \/ GivesUp("start")
    BY <1>5 DEF StartContainer, Started, GivesUp
  <2> QED BY <2>1
<1>6. CASE AcceptGate
  <2>1. Accepted \/ GivesUp("accept")
    BY <1>6 DEF AcceptGate, Accepted, GivesUp
  <2> QED BY <2>1
<1>7. CASE BindTarget
  <2>1. Bound \/ GivesUp("bind")
    BY <1>7 DEF BindTarget, Bound, GivesUp, World
  <2> QED BY <2>1
<1> DEFINE Failed ==
      \E pc \in {"plan", "broker", "closing", "collect", "wait", "convert"} : Failure(pc)
<1>8. ASSUME NEW pc \in {"plan", "broker", "closing", "collect", "wait", "convert"}, Fails(pc)
      PROVE  Failed
  <2>1. Failure(pc)
    BY <1>8 DEF Fails, Failing, Failure, Watch, HistoryType
  <2> QED BY <2>1
<1> HIDE DEF Failed
<1>9. CASE PlanCollection
  BY <1>8, <1>9 DEF PlanCollection, Planned, RefuseTarget, RefusePlan, RefuseRoot, RefuseCgroup,
     RefuseBaseline, Failed
<1>10. CASE ReleaseConfirmed
  <2>1. Confirmed \/ Failure("closing")
    BY <1>10 DEF ReleaseConfirmed, Confirmed, Failing, Failure, Watch, HistoryType
  <2> QED BY <2>1
<1>11. CASE BrokerEnds
  <2>1. CollectEnds \/ Failure("broker") \/ Failure("collect")
    BY <1>11 DEF BrokerEnds, CollectEnds, At, Failing, Failure, HistoryType
  <2> QED BY <2>1
<1>12. CASE Wait
  <2> DEFINE end == IF mon.ended # 0 THEN mon.ended ELSE clock
  <2>1. [call EXCEPT !.pc = "convert", !.finished = end]
           \in [pc : {"convert"}, started : {call.started}, finished : {end},
                result : {call.result}]
    BY UpdatedRecords
  <2>2. CASE call' = [call EXCEPT !.pc = "convert", !.finished = end] /\ box = "exited"
    <3>1. call' \in [pc : {"convert"}, started : {call.started}, finished : {end},
                     result : {call.result}]
      BY <2>1, <2>2
    <3>2. Waited
      BY <1>12, <2>2, <3>1 DEF Wait, Waited
    <3> QED BY <3>2
  <2>3. CASE Failing
    <3>1. Failure("wait")
      BY <1>12, <2>3 DEF Wait, Failing, Failure, Watch, HistoryType
    <3> QED BY <3>1
  <2> QED BY <1>12, <2>2, <2>3 DEF Wait
<1>13. CASE WaitFails
  <2>1. CASE RefuseProfile \/ RefuseModules
    BY <1>8, <2>1 DEF RefuseProfile, RefuseModules, Failed
  <2>2. CASE WaitCommandFails
    <3>1. Failure("wait")
      BY <2>2 DEF WaitCommandFails, FaultAllowed, Failing, Failure, Watch, HistoryType,
         DockerConstants
    <3> QED BY <3>1
  <2> QED BY <1>13, <2>1, <2>2 DEF WaitFails
<1>14. CASE Convert
  <2>1. CASE FinishMonitor
    <3>1. MonitorFinished \/ Failure("convert")
      BY <2>1 DEF FinishMonitor, MonitorFinished, Failing, Failure, HistoryType
    <3> QED BY <3>1
  <2>2. CASE ~FinishMonitor
    BY <1>8, <1>14, <2>2 DEF Convert, RefuseChangedTreatment, RefuseLockCapture, RefuseBenchmark,
       RefuseCounters, RefuseContext, Failed
  <2> QED BY <2>1, <2>2
<1>15. CASE Undo
  <2>1. UndoContainer \/ UndoNothing
    BY <1>15, RemovalHandles DEF Undo, UndoContainer, UndoNothing
  <2> QED BY <2>1
<1>16. CASE ReturnLease
  <2>1. Returned
    BY <1>16, FinishCharges DEF ReturnLease, Returned
  <2> QED BY <2>1
<1>17. CASE CleanFailed
  <2>1. CleanedFailed
    BY <1>17, RemovalHandles DEF CleanFailed, CleanedFailed
  <2> QED BY <2>1
<1>18. CASE SettleFailed
  <2>1. Charged(ActiveSeconds)
    BY <1>18, FinishCharges, ActiveCovers DEF SettleFailed, At
  <2>2. RunCounted
    BY <1>18, UpdatedRecords DEF SettleFailed, RunCounted
  <2>3. SettledFailed
    BY <1>18, <2>1, <2>2 DEF SettleFailed, SettledFailed
  <2> QED BY <2>3
<1>19. CASE CleanFinished
  <2>1. Cleaned
    BY <1>19, RemovalHandles, RemovedIsGone, PreservedFailed
       DEF CleanFinished, Cleaned, CleanupStatus
  <2> QED BY <2>1
<1>20. CASE SettleFinished
  <2>1. At("settle") /\ Charged(ActiveSeconds) /\ UNCHANGED <<Work, Watch, hist>>
    BY <1>20, FinishCharges, ActiveCovers DEF SettleFinished, At
  <2>2. Settled \/ SettleRefused
    BY <1>20, <2>1, RemovalHandles DEF SettleFinished, Settled, SettleRefused
  <2> QED BY <2>2
<1>21. CASE PublishFails
  <2>1. Unpublished
    BY <1>21, RemovalHandles DEF PublishFails, RefuseMeasurement, RefuseLockEvidence,
       RefusePublication, Unpublished
  <2> QED BY <2>1
<1>22. CASE SettleExisting
  <2>1. PICK actual \in 0..Timeout : Finish(actual)
    BY <1>22 DEF SettleExisting
  <2>2. Charged(actual)
    BY <2>1, FinishCharges
  <2>3. Observed
    BY <1>22, <2>1, <2>2 DEF SettleExisting, Observed
  <2> QED BY <2>3
<1>23. CASE GateProcess
  <2>1. GateConnects \/ GateStops \/ GateReleased \/ GateExecs
    BY <1>23 DEF GateProcess, GateFindsNoSocket, GateReads, ReadsRelease, GateTimesOut,
       GateSetupFails, WorkloadEnds, GateStops, GateReleased
  <2> QED BY <2>1
<1>24. CASE PublishRun
  <2>1. Published
    BY <1>24, UpdatedRecords DEF PublishRun, Published, RunCounted
  <2> QED BY <2>1
<1>25. CASE CollectManaged \/ CollectExisting
  <2>1. Begun \/ BeginRefused
    BY <1>25, RunBegins DEF CollectManaged, CollectExisting, Disposed
  <2> QED BY <2>1
<1>26. CASE Release
  <2>1. CASE Current /\ gate = "waiting"
    <3>1. call' = [call EXCEPT !.pc = "closing", !.started = clock]
      BY <1>26, <2>1 DEF Release, StartedAt
    <3>2. call' \in [pc : {"closing"}, started : {clock}, finished : {call.finished},
                     result : {call.result}]
      BY <3>1, UpdatedRecords
    <3>3. ReleaseSent
      BY <1>26, <2>1, <3>2 DEF Release, ReleaseSent, ReleaseStep, Current
    <3> QED BY <3>3
  <2>2. CASE ~(Current /\ gate = "waiting")
    <3>1. call' = [call EXCEPT !.pc = "failing", !.started = clock]
      BY <1>26, <2>2 DEF Release, StartedAt
    <3>2. call' \in [pc : {"failing"}, started : {clock}, finished : {call.finished},
                     result : {call.result}]
      BY <3>1, UpdatedRecords
    <3>3. ReleaseRefused
      BY <1>26, <2>2, <3>2 DEF Release, ReleaseRefused, ReleaseStep
    <3> QED BY <3>3
  <2> QED BY <2>1, <2>2
<1> QED
  BY <1>1, <1>2, <1>3, <1>4, <1>5, <1>6, <1>7, <1>9, <1>10, <1>11, <1>12, <1>13, <1>14, <1>15,
     <1>16, <1>17, <1>18, <1>19, <1>20, <1>21, <1>22, <1>23, <1>24, <1>25, <1>26 DEF Next, ToolCall

----------------------------------------------------------------------------
(* One lemma for each part of the invariant.                               *)

\* The session keeps its type: no use is returned twice, and none is charged
\* beyond its reservation.
LEMMA NextSessionType ==
  ASSUME DockerConstants, SessionType, CallType, WatchType, HistoryType, TimeInv, ChargeInv,
     Elementary \/ UNCHANGED vars
  PROVE  SessionType'
<1> USE DockerConstants DEF DockerConstants, SessionType, CallType, HistoryType, ChargeInv,
   Idle, NoSession, NoHistory, NoMonitor, NoRun, At, GoTo, States, Before, Released, Ending,
   Existing, Steps
<1>1. CASE Tick
  BY <1>1 DEF Tick, World, Watch
<1>2. CASE Revoke
  BY <1>2 DEF Revoke, Expire, World, Watch
<1>3. CASE Refused \/ Bound \/ Planned \/ Confirmed \/ CollectEnds \/ AttachExisting \/
   UNCHANGED vars
  BY <1>3 DEF Refused, World, Watch, Bound, Prepare, Work, Planned, Step, Confirmed,
     CollectEnds, AttachExisting, vars
<1>4. CASE Begun \/ BeginRefused
  BY <1>4 DEF Begun, Begins, Disposed, BeginRefused
<1>5. ASSUME NEW kind \in {"existing", "managed"}, Authorize(kind) PROVE SessionType'
  BY <1>5 DEF Authorize, World, Watch
<1>6. CASE CreateRunDirectories \/ Created \/ Started \/ Accepted
  BY <1>6 DEF CreateRunDirectories, Prepare, Work, Watch, Created, Started, Accepted
<1>7. ASSUME NEW pc \in {"dirs", "create", "start", "accept", "bind"}, GivesUp(pc)
      PROVE  SessionType'
  BY <1>7 DEF GivesUp, GiveUp, FaultAllowed, Work, Watch
<1>8. CASE GateConnects \/ GateReleased \/ GateExecs
  BY <1>8 DEF GateConnects, Gates, Work, Watch, GateReleased, GateExecs
<1>9. CASE GateStops \/ ServerDies \/ OperatorRemoves
  BY <1>9 DEF GateStops, GateEnds, Gates, Work, Watch, ServerDies, FaultAllowed,
     OperatorRemoves
<1>10. CASE ReleaseSent \/ ReleaseRefused \/ Waited
  BY <1>10 DEF ReleaseSent, ReleaseStep, Work, ReleaseRefused, Waited, World, Watch
<1>11. CASE MonitorSees \/ MonitorFails \/ MonitorFinished
  BY <1>11 DEF MonitorSees, Work, World, MonitorFails, FaultAllowed, MonitorFinished
<1>12. ASSUME NEW pc \in {"plan", "broker", "closing", "collect", "wait", "convert"},
             Failure(pc)
      PROVE  SessionType'
  BY <1>12 DEF Failure, Work, World
<1>13. CASE UndoContainer \/ UndoNothing \/ CleanedFailed \/ Cleaned
  BY <1>13 DEF UndoContainer, Handled, Verified, Work, Watch, UndoNothing, CleanupKnown,
     CleanedFailed, Cleaned
<1>14. CASE Returned \/ Published \/ Observed
  BY <1>14 DEF Returned, Charged, Work, World, Watch, Published, RunCounted, Observed
<1>15. CASE SettledFailed
  <2>1. ActiveSeconds \in 0..Timeout
    BY <1>15, ActiveCovers DEF SettledFailed
  <2> QED BY <1>15, <2>1 DEF SettledFailed, Charged
<1>16. CASE Settled
  <2>1. ActiveSeconds \in 0..Timeout
    BY <1>16, ActiveCovers DEF Settled
  <2> QED BY <1>16, <2>1 DEF Settled, Charged
<1>17. CASE SettleRefused \/ Unpublished
  BY <1>17 DEF SettleRefused, Charged, Handled, Verified, Work, World, Watch, Unpublished
<1> HIDE DEF SessionType, CallType, HistoryType, ChargeInv
<1> QED BY <1>1, <1>2, <1>3, <1>4, <1>5, <1>6, <1>7, <1>8, <1>9, <1>10, <1>11, <1>12, <1>13,
   <1>14, <1>15, <1>16, <1>17 DEF Elementary

\* The call keeps its type.
LEMMA NextCallType ==
  ASSUME DockerConstants, SessionType, CallType, WatchType, HistoryType, Elementary \/
     UNCHANGED vars
  PROVE  CallType'
<1> USE DockerConstants DEF DockerConstants, SessionType, CallType, HistoryType, WatchType,
   Idle, NoSession, NoHistory, NoMonitor, NoRun, At, GoTo, Before, Released, Ending, Existing,
   Steps
<1>1. CASE Tick
  BY <1>1 DEF Tick, World, Watch
<1>2. CASE Revoke
  BY <1>2 DEF Revoke, Expire, World, Watch
<1>3. CASE Refused \/ Bound \/ Planned \/ Confirmed \/ CollectEnds \/ AttachExisting \/
   UNCHANGED vars
  BY <1>3 DEF Refused, World, Watch, Bound, Prepare, Work, Planned, Step, Confirmed,
     CollectEnds, AttachExisting, vars
<1>4. CASE Begun \/ BeginRefused
  BY <1>4 DEF Begun, Begins, Disposed, BeginRefused
<1>5. ASSUME NEW kind \in {"existing", "managed"}, Authorize(kind) PROVE CallType'
  BY <1>5 DEF Authorize, World, Watch
<1>6. CASE CreateRunDirectories \/ Created \/ Started \/ Accepted
  BY <1>6 DEF CreateRunDirectories, Prepare, Work, Watch, Created, Started, Accepted
<1>7. ASSUME NEW pc \in {"dirs", "create", "start", "accept", "bind"}, GivesUp(pc)
      PROVE  CallType'
  BY <1>7 DEF GivesUp, GiveUp, FaultAllowed, Work, Watch
<1>8. CASE GateConnects \/ GateReleased \/ GateExecs
  BY <1>8 DEF GateConnects, Gates, Work, Watch, GateReleased, GateExecs
<1>9. CASE GateStops \/ ServerDies \/ OperatorRemoves
  BY <1>9 DEF GateStops, GateEnds, Gates, Work, Watch, ServerDies, FaultAllowed,
     OperatorRemoves
<1>10. CASE ReleaseSent \/ ReleaseRefused \/ Waited
  BY <1>10 DEF ReleaseSent, ReleaseStep, Work, ReleaseRefused, Waited, World, Watch
<1>11. CASE MonitorSees \/ MonitorFails \/ MonitorFinished
  BY <1>11 DEF MonitorSees, Work, World, MonitorFails, FaultAllowed, MonitorFinished
<1>12. ASSUME NEW pc \in {"plan", "broker", "closing", "collect", "wait", "convert"},
             Failure(pc)
      PROVE  CallType'
  BY <1>12 DEF Failure, Work, World
<1>13. CASE UndoContainer \/ UndoNothing \/ CleanedFailed \/ Cleaned
  BY <1>13 DEF UndoContainer, Handled, Verified, Work, Watch, UndoNothing, CleanupKnown,
     CleanedFailed, Cleaned
<1>14. CASE Returned \/ SettledFailed \/ Published \/ Observed
  BY <1>14 DEF Returned, Charged, Work, World, Watch, SettledFailed, RunCounted, Published,
     Observed
<1>15. CASE Settled \/ SettleRefused \/ Unpublished
  BY <1>15 DEF Settled, Charged, Work, World, Watch, SettleRefused, Handled, Verified,
     Unpublished
<1> HIDE DEF SessionType, CallType, HistoryType, WatchType
<1> QED BY <1>1, <1>2, <1>3, <1>4, <1>5, <1>6, <1>7, <1>8, <1>9, <1>10, <1>11, <1>12, <1>13,
   <1>14, <1>15 DEF Elementary

\* The container, the Gate, the connection and the directory keep their types.
LEMMA NextWorldType ==
  ASSUME DockerConstants, WorldType, Elementary \/ UNCHANGED vars
  PROVE  WorldType'
<1> USE DockerConstants DEF WorldType, Idle, NoSession, NoHistory, NoMonitor, NoRun, At,
   GoTo
<1>1. CASE Tick
  BY <1>1 DEF Tick, World, Watch
<1>2. CASE Revoke
  BY <1>2 DEF Revoke, Expire, World, Watch
<1>3. CASE Refused \/ Bound \/ Planned \/ Confirmed \/ CollectEnds \/ AttachExisting \/
   UNCHANGED vars
  BY <1>3 DEF Refused, World, Watch, Bound, Prepare, Work, Planned, Step, Confirmed,
     CollectEnds, AttachExisting, vars
<1>4. CASE Begun \/ BeginRefused
  BY <1>4 DEF Begun, Begins, Disposed, BeginRefused
<1>5. ASSUME NEW kind \in {"existing", "managed"}, Authorize(kind) PROVE WorldType'
  BY <1>5 DEF Authorize, World, Watch
<1>6. CASE CreateRunDirectories \/ Created \/ Started \/ Accepted
  BY <1>6 DEF CreateRunDirectories, Prepare, Work, Watch, Created, Started, Accepted
<1>7. ASSUME NEW pc \in {"dirs", "create", "start", "accept", "bind"}, GivesUp(pc)
      PROVE  WorldType'
  BY <1>7 DEF GivesUp, GiveUp, FaultAllowed, Work, Watch
<1>8. CASE GateConnects \/ GateReleased \/ GateExecs
  BY <1>8 DEF GateConnects, Gates, Work, Watch, GateReleased, GateExecs
<1>9. CASE GateStops \/ ServerDies \/ OperatorRemoves
  BY <1>9 DEF GateStops, GateEnds, Gates, Work, Watch, ServerDies, FaultAllowed,
     OperatorRemoves
<1>10. CASE ReleaseSent \/ ReleaseRefused \/ Waited
  BY <1>10 DEF ReleaseSent, ReleaseStep, Work, ReleaseRefused, Waited, World, Watch
<1>11. CASE MonitorSees \/ MonitorFails \/ MonitorFinished
  BY <1>11 DEF MonitorSees, Work, World, MonitorFails, FaultAllowed, MonitorFinished
<1>12. ASSUME NEW pc \in {"plan", "broker", "closing", "collect", "wait", "convert"},
             Failure(pc)
      PROVE  WorldType'
  BY <1>12 DEF Failure, Work, World
<1>13. CASE UndoContainer \/ UndoNothing \/ CleanedFailed \/ Cleaned
  BY <1>13 DEF UndoContainer, Handled, Verified, Work, Watch, UndoNothing, CleanupKnown,
     CleanedFailed, Cleaned
<1>14. CASE Returned \/ SettledFailed \/ Published \/ Observed
  BY <1>14 DEF Returned, Charged, Work, World, Watch, SettledFailed, RunCounted, Published,
     Observed
<1>15. CASE Settled \/ SettleRefused \/ Unpublished
  BY <1>15 DEF Settled, Charged, Work, World, Watch, SettleRefused, Handled, Verified,
     Unpublished
<1> HIDE DEF WorldType
<1> QED BY <1>1, <1>2, <1>3, <1>4, <1>5, <1>6, <1>7, <1>8, <1>9, <1>10, <1>11, <1>12, <1>13,
   <1>14, <1>15 DEF Elementary

\* The monitor and the run keep their types.
LEMMA NextWatchType ==
  ASSUME DockerConstants, WatchType, HistoryType, Elementary \/ UNCHANGED vars
  PROVE  WatchType'
<1> USE DockerConstants DEF DockerConstants, WatchType, HistoryType, Idle, NoSession,
   NoHistory, NoMonitor, NoRun, At, GoTo
<1>1. CASE Tick
  BY <1>1 DEF Tick, World, Watch
<1>2. CASE Revoke
  BY <1>2 DEF Revoke, Expire, World, Watch
<1>3. CASE Refused \/ Bound \/ Planned \/ Confirmed \/ CollectEnds \/ AttachExisting \/
   UNCHANGED vars
  BY <1>3 DEF Refused, World, Watch, Bound, Prepare, Work, Planned, Step, Confirmed,
     CollectEnds, AttachExisting, vars
<1>4. CASE Begun \/ BeginRefused
  BY <1>4 DEF Begun, Begins, Disposed, BeginRefused
<1>5. ASSUME NEW kind \in {"existing", "managed"}, Authorize(kind) PROVE WatchType'
  BY <1>5 DEF Authorize, World, Watch
<1>6. CASE CreateRunDirectories \/ Created \/ Started \/ Accepted
  BY <1>6 DEF CreateRunDirectories, Prepare, Work, Watch, Created, Started, Accepted
<1>7. ASSUME NEW pc \in {"dirs", "create", "start", "accept", "bind"}, GivesUp(pc)
      PROVE  WatchType'
  BY <1>7 DEF GivesUp, GiveUp, FaultAllowed, Work, Watch
<1>8. CASE GateConnects \/ GateReleased \/ GateExecs
  BY <1>8 DEF GateConnects, Gates, Work, Watch, GateReleased, GateExecs
<1>9. CASE GateStops \/ ServerDies \/ OperatorRemoves
  BY <1>9 DEF GateStops, GateEnds, Gates, Work, Watch, ServerDies, FaultAllowed,
     OperatorRemoves
<1>10. CASE ReleaseSent \/ ReleaseRefused \/ Waited
  BY <1>10 DEF ReleaseSent, ReleaseStep, Work, ReleaseRefused, Waited, World, Watch
<1>11. CASE MonitorSees \/ MonitorFails \/ MonitorFinished
  BY <1>11 DEF MonitorSees, Work, World, MonitorFails, FaultAllowed, MonitorFinished
<1>12. ASSUME NEW pc \in {"plan", "broker", "closing", "collect", "wait", "convert"},
             Failure(pc)
      PROVE  WatchType'
  BY <1>12 DEF Failure, Work, World
<1>13. CASE UndoContainer \/ UndoNothing \/ CleanedFailed \/ Cleaned
  BY <1>13 DEF UndoContainer, Handled, Verified, Work, Watch, UndoNothing, CleanupKnown,
     CleanedFailed, Cleaned
<1>14. CASE Returned \/ SettledFailed \/ Published \/ Observed
  BY <1>14 DEF Returned, Charged, Work, World, Watch, SettledFailed, RunCounted, Published,
     Observed
<1>15. CASE Settled \/ SettleRefused \/ Unpublished
  BY <1>15 DEF Settled, Charged, Work, World, Watch, SettleRefused, Handled, Verified,
     Unpublished
<1> HIDE DEF WatchType, HistoryType
<1> QED BY <1>1, <1>2, <1>3, <1>4, <1>5, <1>6, <1>7, <1>8, <1>9, <1>10, <1>11, <1>12, <1>13,
   <1>14, <1>15 DEF Elementary

\* The history and the bounds keep their types.
LEMMA NextHistoryType ==
  ASSUME DockerConstants, HistoryType, Elementary \/ UNCHANGED vars
  PROVE  HistoryType'
<1> USE DockerConstants DEF DockerConstants, HistoryType, Smaller, Idle, NoSession,
   NoHistory, NoMonitor, NoRun, At, GoTo
<1>1. CASE Tick
  BY <1>1 DEF Tick, World, Watch
<1>2. CASE Revoke
  BY <1>2 DEF Revoke, Expire, World, Watch
<1>3. CASE Refused \/ Bound \/ Planned \/ Confirmed \/ CollectEnds \/ AttachExisting \/
   UNCHANGED vars
  BY <1>3 DEF Refused, World, Watch, Bound, Prepare, Work, Planned, Step, Confirmed,
     CollectEnds, AttachExisting, vars
<1>4. CASE Begun \/ BeginRefused
  BY <1>4 DEF Begun, Begins, Disposed, BeginRefused
<1>5. ASSUME NEW kind \in {"existing", "managed"}, Authorize(kind) PROVE HistoryType'
  BY <1>5 DEF Authorize, World, Watch
<1>6. CASE CreateRunDirectories \/ Created \/ Started \/ Accepted
  BY <1>6 DEF CreateRunDirectories, Prepare, Work, Watch, Created, Started, Accepted
<1>7. ASSUME NEW pc \in {"dirs", "create", "start", "accept", "bind"}, GivesUp(pc)
      PROVE  HistoryType'
  BY <1>7 DEF GivesUp, GiveUp, FaultAllowed, Work, Watch
<1>8. CASE GateConnects \/ GateReleased \/ GateExecs
  BY <1>8 DEF GateConnects, Gates, Work, Watch, GateReleased, GateExecs
<1>9. CASE GateStops \/ ServerDies \/ OperatorRemoves
  BY <1>9 DEF GateStops, GateEnds, Gates, Work, Watch, ServerDies, FaultAllowed,
     OperatorRemoves
<1>10. CASE ReleaseSent \/ ReleaseRefused \/ Waited
  BY <1>10 DEF ReleaseSent, ReleaseStep, Work, ReleaseRefused, Waited, World, Watch
<1>11. CASE MonitorSees \/ MonitorFails \/ MonitorFinished
  BY <1>11 DEF MonitorSees, Work, World, MonitorFails, FaultAllowed, MonitorFinished
<1>12. ASSUME NEW pc \in {"plan", "broker", "closing", "collect", "wait", "convert"},
             Failure(pc)
      PROVE  HistoryType'
  BY <1>12 DEF Failure, Work, World
<1>13. CASE UndoContainer \/ UndoNothing \/ CleanedFailed \/ Cleaned
  BY <1>13 DEF UndoContainer, Handled, Verified, Work, Watch, UndoNothing, CleanupKnown,
     CleanedFailed, Cleaned
<1>14. CASE Returned \/ SettledFailed \/ Published \/ Observed
  BY <1>14 DEF Returned, Charged, Work, World, Watch, SettledFailed, RunCounted, Published,
     Observed
<1>15. CASE Settled \/ SettleRefused \/ Unpublished
  BY <1>15 DEF Settled, Charged, Work, World, Watch, SettleRefused, Handled, Verified,
     Unpublished
<1> HIDE DEF HistoryType
<1> QED BY <1>1, <1>2, <1>3, <1>4, <1>5, <1>6, <1>7, <1>8, <1>9, <1>10, <1>11, <1>12, <1>13,
   <1>14, <1>15 DEF Elementary

\* The Gate stays with its container, and the container with its session.
LEMMA NextWorld ==
  ASSUME DockerConstants, SessionType, CallType, WorldType, WorldInv, Elementary \/
     UNCHANGED vars
  PROVE  WorldInv'
<1> USE DockerConstants DEF SessionType, CallType, WorldType, WorldInv, Current, Idle,
   NoSession, NoHistory, NoMonitor, NoRun, At, GoTo, Before, Released, Ending, Existing, Steps
<1>1. CASE Tick
  BY <1>1 DEF Tick, World, Watch
<1>2. CASE Revoke
  BY <1>2 DEF Revoke, Expire, World, Watch
<1>3. CASE Refused \/ Bound \/ Planned \/ Confirmed \/ CollectEnds \/ AttachExisting \/
   UNCHANGED vars
  BY <1>3 DEF Refused, World, Watch, Bound, Prepare, Work, Planned, Step, Confirmed,
     CollectEnds, AttachExisting, vars
<1>4. CASE Begun \/ BeginRefused
  BY <1>4 DEF Begun, Begins, Disposed, BeginRefused
<1>5. ASSUME NEW kind \in {"existing", "managed"}, Authorize(kind) PROVE WorldInv'
  BY <1>5 DEF Authorize, World, Watch
<1>6. CASE CreateRunDirectories \/ Created \/ Started \/ Accepted
  BY <1>6 DEF CreateRunDirectories, Prepare, Work, Watch, Created, Started, Accepted
<1>7. ASSUME NEW pc \in {"dirs", "create", "start", "accept", "bind"}, GivesUp(pc)
      PROVE  WorldInv'
  BY <1>7 DEF GivesUp, GiveUp, FaultAllowed, Work, Watch
<1>8. CASE GateConnects \/ GateReleased \/ GateExecs
  BY <1>8 DEF GateConnects, Gates, Work, Watch, GateReleased, GateExecs
<1>9. CASE GateStops \/ ServerDies \/ OperatorRemoves
  BY <1>9 DEF GateStops, GateEnds, Gates, Work, Watch, ServerDies, FaultAllowed,
     OperatorRemoves
<1>10. CASE ReleaseSent \/ ReleaseRefused \/ Waited
  BY <1>10 DEF ReleaseSent, ReleaseStep, Work, ReleaseRefused, Waited, World, Watch
<1>11. CASE MonitorSees \/ MonitorFails \/ MonitorFinished
  BY <1>11 DEF MonitorSees, Work, World, MonitorFails, FaultAllowed, MonitorFinished
<1>12. ASSUME NEW pc \in {"plan", "broker", "closing", "collect", "wait", "convert"},
             Failure(pc)
      PROVE  WorldInv'
  BY <1>12 DEF Failure, Work, World
<1>13. CASE UndoContainer \/ UndoNothing \/ CleanedFailed \/ Cleaned
  BY <1>13 DEF UndoContainer, Handled, Verified, Work, Watch, UndoNothing, CleanupKnown,
     CleanedFailed, Cleaned
<1>14. CASE Returned \/ SettledFailed \/ Published \/ Observed
  BY <1>14 DEF Returned, Charged, Work, World, Watch, SettledFailed, RunCounted, Published,
     Observed
<1>15. CASE Settled \/ SettleRefused \/ Unpublished
  BY <1>15 DEF Settled, Charged, Work, World, Watch, SettleRefused, Handled, Verified,
     Unpublished
<1> HIDE DEF SessionType, CallType, WorldType, WorldInv
<1> QED BY <1>1, <1>2, <1>3, <1>4, <1>5, <1>6, <1>7, <1>8, <1>9, <1>10, <1>11, <1>12, <1>13,
   <1>14, <1>15 DEF Elementary

\* Nothing but the release lets the Gate go on.
LEMMA NextRelease ==
  ASSUME DockerConstants, SessionType, CallType, WorldType, HistoryType, WorldInv,
     ReleaseInv, Elementary \/ UNCHANGED vars
  PROVE  ReleaseInv'
<1> USE DockerConstants DEF SessionType, CallType, WorldType, HistoryType, WorldInv,
   ReleaseInv, Current, Idle, NoSession, NoHistory, NoMonitor, NoRun, At, GoTo, Before,
   Released, Ending, Existing, Steps
<1>1. CASE Tick
  BY <1>1 DEF Tick, World, Watch
<1>2. CASE Revoke
  BY <1>2 DEF Revoke, Expire, World, Watch
<1>3. CASE Refused \/ Bound \/ Planned \/ Confirmed \/ CollectEnds \/ AttachExisting \/
   UNCHANGED vars
  BY <1>3 DEF Refused, World, Watch, Bound, Prepare, Work, Planned, Step, Confirmed,
     CollectEnds, AttachExisting, vars
<1>4. CASE Begun \/ BeginRefused
  BY <1>4 DEF Begun, Begins, Disposed, BeginRefused
<1>5. ASSUME NEW kind \in {"existing", "managed"}, Authorize(kind) PROVE ReleaseInv'
  BY <1>5 DEF Authorize, World, Watch
<1>6. CASE CreateRunDirectories \/ Created \/ Started \/ Accepted
  BY <1>6 DEF CreateRunDirectories, Prepare, Work, Watch, Created, Started, Accepted
<1>7. ASSUME NEW pc \in {"dirs", "create", "start", "accept", "bind"}, GivesUp(pc)
      PROVE  ReleaseInv'
  BY <1>7 DEF GivesUp, GiveUp, FaultAllowed, Work, Watch
<1>8. CASE GateConnects \/ GateReleased \/ GateExecs
  BY <1>8 DEF GateConnects, Gates, Work, Watch, GateReleased, GateExecs
<1>9. CASE GateStops \/ ServerDies \/ OperatorRemoves
  BY <1>9 DEF GateStops, GateEnds, Gates, Work, Watch, ServerDies, FaultAllowed,
     OperatorRemoves
<1>10. CASE ReleaseSent \/ ReleaseRefused \/ Waited
  BY <1>10 DEF ReleaseSent, ReleaseStep, Work, ReleaseRefused, Waited, World, Watch
<1>11. CASE MonitorSees \/ MonitorFails \/ MonitorFinished
  BY <1>11 DEF MonitorSees, Work, World, MonitorFails, FaultAllowed, MonitorFinished
<1>12. ASSUME NEW pc \in {"plan", "broker", "closing", "collect", "wait", "convert"},
             Failure(pc)
      PROVE  ReleaseInv'
  BY <1>12 DEF Failure, Work, World
<1>13. CASE UndoContainer \/ UndoNothing \/ CleanedFailed \/ Cleaned
  BY <1>13 DEF UndoContainer, Handled, Verified, Work, Watch, UndoNothing, CleanupKnown,
     CleanedFailed, Cleaned
<1>14. CASE Returned \/ SettledFailed \/ Published \/ Observed
  BY <1>14 DEF Returned, Charged, Work, World, Watch, SettledFailed, RunCounted, Published,
     Observed
<1>15. CASE Settled \/ SettleRefused \/ Unpublished
  BY <1>15 DEF Settled, Charged, Work, World, Watch, SettleRefused, Handled, Verified,
     Unpublished
<1> HIDE DEF SessionType, CallType, WorldType, HistoryType, WorldInv, ReleaseInv
<1> QED BY <1>1, <1>2, <1>3, <1>4, <1>5, <1>6, <1>7, <1>8, <1>9, <1>10, <1>11, <1>12, <1>13,
   <1>14, <1>15 DEF Elementary

\* Without a failure every path through the call disposes of its container.
LEMMA NextLeft ==
  ASSUME DockerConstants, CallType, WorldType, WatchType, HistoryType, WorldInv, LeftInv,
     Elementary \/ UNCHANGED vars
  PROVE  LeftInv'
<1> USE DockerConstants DEF CallType, WorldType, WatchType, HistoryType, WorldInv, LeftInv,
   Disposed, Current, Idle, NoSession, NoHistory, NoMonitor, NoRun, At, GoTo, Before, Released,
   Ending, Existing, Steps
<1>1. CASE Tick
  BY <1>1 DEF Tick, World, Watch
<1>2. CASE Revoke
  BY <1>2 DEF Revoke, Expire, World, Watch
<1>3. CASE Refused \/ Bound \/ Planned \/ Confirmed \/ CollectEnds \/ AttachExisting \/
   UNCHANGED vars
  BY <1>3 DEF Refused, World, Watch, Bound, Prepare, Work, Planned, Step, Confirmed,
     CollectEnds, AttachExisting, vars
<1>4. CASE Begun \/ BeginRefused
  BY <1>4 DEF Begun, Begins, Disposed, BeginRefused
<1>5. ASSUME NEW kind \in {"existing", "managed"}, Authorize(kind) PROVE LeftInv'
  BY <1>5 DEF Authorize, World, Watch
<1>6. CASE CreateRunDirectories \/ Created \/ Started \/ Accepted
  BY <1>6 DEF CreateRunDirectories, Prepare, Work, Watch, Created, Started, Accepted
<1>7. ASSUME NEW pc \in {"dirs", "create", "start", "accept", "bind"}, GivesUp(pc)
      PROVE  LeftInv'
  BY <1>7 DEF GivesUp, GiveUp, FaultAllowed, Work, Watch
<1>8. CASE GateConnects \/ GateReleased \/ GateExecs
  BY <1>8 DEF GateConnects, Gates, Work, Watch, GateReleased, GateExecs
<1>9. CASE GateStops \/ ServerDies \/ OperatorRemoves
  BY <1>9 DEF GateStops, GateEnds, Gates, Work, Watch, ServerDies, FaultAllowed,
     OperatorRemoves
<1>10. CASE ReleaseSent \/ ReleaseRefused \/ Waited
  BY <1>10 DEF ReleaseSent, ReleaseStep, Work, ReleaseRefused, Waited, World, Watch
<1>11. CASE MonitorSees \/ MonitorFails \/ MonitorFinished
  BY <1>11 DEF MonitorSees, Work, World, MonitorFails, FaultAllowed, MonitorFinished
<1>12. ASSUME NEW pc \in {"plan", "broker", "closing", "collect", "wait", "convert"},
             Failure(pc)
      PROVE  LeftInv'
  BY <1>12 DEF Failure, Work, World
<1>13. CASE UndoContainer \/ UndoNothing \/ CleanedFailed \/ Cleaned
  BY <1>13 DEF UndoContainer, Handled, Verified, Work, Watch, UndoNothing, CleanupKnown,
     CleanedFailed, Cleaned
<1>14. CASE Returned \/ SettledFailed \/ Published \/ Observed
  BY <1>14 DEF Returned, Charged, Work, World, Watch, SettledFailed, RunCounted, Published,
     Observed
<1>15. CASE Settled \/ SettleRefused \/ Unpublished
  BY <1>15 DEF Settled, Charged, Work, World, Watch, SettleRefused, Handled, Verified,
     Unpublished
<1> HIDE DEF CallType, WorldType, WatchType, HistoryType, WorldInv, LeftInv
<1> QED BY <1>1, <1>2, <1>3, <1>4, <1>5, <1>6, <1>7, <1>8, <1>9, <1>10, <1>11, <1>12, <1>13,
   <1>14, <1>15 DEF Elementary

\* The run's account stays true.
LEMMA NextRun ==
  ASSUME DockerConstants, CallType, WorldType, WatchType, WorldInv, RunInv, Elementary \/
     UNCHANGED vars
  PROVE  RunInv'
<1> USE DockerConstants DEF CallType, WorldType, WatchType, WorldInv, RunInv, Current, Idle,
   NoSession, NoHistory, NoMonitor, NoRun, At, GoTo, Before, Released, Ending, Existing, Steps
<1>1. CASE Tick
  BY <1>1 DEF Tick, World, Watch
<1>2. CASE Revoke
  BY <1>2 DEF Revoke, Expire, World, Watch
<1>3. CASE Refused \/ Bound \/ Planned \/ Confirmed \/ CollectEnds \/ AttachExisting \/
   UNCHANGED vars
  BY <1>3 DEF Refused, World, Watch, Bound, Prepare, Work, Planned, Step, Confirmed,
     CollectEnds, AttachExisting, vars
<1>4. CASE Begun \/ BeginRefused
  BY <1>4 DEF Begun, Begins, Disposed, BeginRefused
<1>5. ASSUME NEW kind \in {"existing", "managed"}, Authorize(kind) PROVE RunInv'
  BY <1>5 DEF Authorize, World, Watch
<1>6. CASE CreateRunDirectories \/ Created \/ Started \/ Accepted
  BY <1>6 DEF CreateRunDirectories, Prepare, Work, Watch, Created, Started, Accepted
<1>7. ASSUME NEW pc \in {"dirs", "create", "start", "accept", "bind"}, GivesUp(pc)
      PROVE  RunInv'
  BY <1>7 DEF GivesUp, GiveUp, FaultAllowed, Work, Watch
<1>8. CASE GateConnects \/ GateReleased \/ GateExecs
  BY <1>8 DEF GateConnects, Gates, Work, Watch, GateReleased, GateExecs
<1>9. CASE GateStops \/ ServerDies \/ OperatorRemoves
  BY <1>9 DEF GateStops, GateEnds, Gates, Work, Watch, ServerDies, FaultAllowed,
     OperatorRemoves
<1>10. CASE ReleaseSent \/ ReleaseRefused \/ Waited
  BY <1>10 DEF ReleaseSent, ReleaseStep, Work, ReleaseRefused, Waited, World, Watch
<1>11. CASE MonitorSees \/ MonitorFails \/ MonitorFinished
  BY <1>11 DEF MonitorSees, Work, World, MonitorFails, FaultAllowed, MonitorFinished
<1>12. ASSUME NEW pc \in {"plan", "broker", "closing", "collect", "wait", "convert"},
             Failure(pc)
      PROVE  RunInv'
  BY <1>12 DEF Failure, Work, World
<1>13. CASE UndoContainer \/ UndoNothing \/ CleanedFailed \/ Cleaned
  BY <1>13 DEF UndoContainer, Handled, Verified, Work, Watch, UndoNothing, CleanupKnown,
     CleanedFailed, Cleaned
<1>14. CASE Returned \/ SettledFailed \/ Published \/ Observed
  BY <1>14 DEF Returned, Charged, Work, World, Watch, SettledFailed, RunCounted, Published,
     Observed
<1>15. CASE Settled \/ SettleRefused \/ Unpublished
  BY <1>15 DEF Settled, Charged, Work, World, Watch, SettleRefused, Handled, Verified,
     Unpublished
<1> HIDE DEF CallType, WorldType, WatchType, WorldInv, RunInv
<1> QED BY <1>1, <1>2, <1>3, <1>4, <1>5, <1>6, <1>7, <1>8, <1>9, <1>10, <1>11, <1>12, <1>13,
   <1>14, <1>15 DEF Elementary

\* The time a workload ran stays between the release and the end.
LEMMA NextTime ==
  ASSUME DockerConstants, CallType, WorldType, WatchType, HistoryType, WorldInv, ReleaseInv,
     TimeInv, Elementary \/ UNCHANGED vars
  PROVE  TimeInv'
<1> USE DockerConstants DEF DockerConstants, CallType, WorldType, WatchType, HistoryType,
   WorldInv, ReleaseInv, TimeInv, Current, Idle, NoSession, NoHistory, NoMonitor, NoRun, At,
   GoTo, Before, Released, Ending, Existing, Steps
<1>1. CASE Tick
  BY <1>1 DEF Tick, World, Watch
<1>2. CASE Revoke
  BY <1>2 DEF Revoke, Expire, World, Watch
<1>3. CASE Refused \/ Bound \/ Planned \/ Confirmed \/ CollectEnds \/ AttachExisting \/
   UNCHANGED vars
  BY <1>3 DEF Refused, World, Watch, Bound, Prepare, Work, Planned, Step, Confirmed,
     CollectEnds, AttachExisting, vars
<1>4. CASE Begun \/ BeginRefused
  BY <1>4 DEF Begun, Begins, Disposed, BeginRefused
<1>5. ASSUME NEW kind \in {"existing", "managed"}, Authorize(kind) PROVE TimeInv'
  BY <1>5 DEF Authorize, World, Watch
<1>6. CASE CreateRunDirectories \/ Created \/ Started \/ Accepted
  BY <1>6 DEF CreateRunDirectories, Prepare, Work, Watch, Created, Started, Accepted
<1>7. ASSUME NEW pc \in {"dirs", "create", "start", "accept", "bind"}, GivesUp(pc)
      PROVE  TimeInv'
  BY <1>7 DEF GivesUp, GiveUp, FaultAllowed, Work, Watch
<1>8. CASE GateConnects \/ GateReleased \/ GateExecs
  BY <1>8 DEF GateConnects, Gates, Work, Watch, GateReleased, GateExecs
<1>9. CASE GateStops \/ ServerDies \/ OperatorRemoves
  BY <1>9 DEF GateStops, GateEnds, Gates, Work, Watch, ServerDies, FaultAllowed,
     OperatorRemoves
<1>10. CASE ReleaseSent \/ ReleaseRefused \/ Waited
  BY <1>10 DEF ReleaseSent, ReleaseStep, Work, ReleaseRefused, Waited, World, Watch
<1>11. CASE MonitorSees \/ MonitorFails \/ MonitorFinished
  BY <1>11 DEF MonitorSees, Work, World, MonitorFails, FaultAllowed, MonitorFinished
<1>12. ASSUME NEW pc \in {"plan", "broker", "closing", "collect", "wait", "convert"},
             Failure(pc)
      PROVE  TimeInv'
  BY <1>12 DEF Failure, Work, World
<1>13. CASE UndoContainer \/ UndoNothing \/ CleanedFailed \/ Cleaned
  BY <1>13 DEF UndoContainer, Handled, Verified, Work, Watch, UndoNothing, CleanupKnown,
     CleanedFailed, Cleaned
<1>14. CASE Returned \/ SettledFailed \/ Published \/ Observed
  BY <1>14 DEF Returned, Charged, Work, World, Watch, SettledFailed, RunCounted, Published,
     Observed
<1>15. CASE Settled \/ SettleRefused \/ Unpublished
  BY <1>15 DEF Settled, Charged, Work, World, Watch, SettleRefused, Handled, Verified,
     Unpublished
<1> HIDE DEF CallType, WorldType, WatchType, HistoryType, WorldInv, ReleaseInv, TimeInv
<1> QED BY <1>1, <1>2, <1>3, <1>4, <1>5, <1>6, <1>7, <1>8, <1>9, <1>10, <1>11, <1>12, <1>13,
   <1>14, <1>15 DEF Elementary

\* The account stays above the use.
LEMMA NextCharge ==
  ASSUME DockerConstants, SessionType, CallType, WatchType, HistoryType, TimeInv, ChargeInv,
     Elementary \/ UNCHANGED vars
  PROVE  ChargeInv'
<1> USE DockerConstants DEF DockerConstants, SessionType, CallType, HistoryType, ChargeInv,
   Idle, NoSession, NoHistory, NoMonitor, NoRun, At, GoTo, Before, Released, Ending, Existing,
   Steps
<1>1. CASE Tick
  <2>1. /\ call.pc \notin {"publish", "settle_failed"} /\ hist'.ran = hist.ran
        /\ UNCHANGED <<sess, call>>
    BY <1>1 DEF Tick, Measured
  <2> QED BY <2>1
<1>2. CASE Revoke
  BY <1>2 DEF Revoke, Expire, World, Watch
<1>3. CASE Refused \/ Bound \/ Planned \/ Confirmed \/ CollectEnds \/ AttachExisting \/
   UNCHANGED vars
  BY <1>3 DEF Refused, World, Watch, Bound, Prepare, Work, Planned, Step, Confirmed,
     CollectEnds, AttachExisting, vars
<1>4. CASE Begun \/ BeginRefused
  BY <1>4 DEF Begun, Begins, Disposed, BeginRefused
<1>5. ASSUME NEW kind \in {"existing", "managed"}, Authorize(kind) PROVE ChargeInv'
  BY <1>5 DEF Authorize, World, Watch
<1>6. CASE CreateRunDirectories \/ Created \/ Started \/ Accepted
  BY <1>6 DEF CreateRunDirectories, Prepare, Work, Watch, Created, Started, Accepted
<1>7. ASSUME NEW pc \in {"dirs", "create", "start", "accept", "bind"}, GivesUp(pc)
      PROVE  ChargeInv'
  BY <1>7 DEF GivesUp, GiveUp, FaultAllowed, Work, Watch
<1>8. CASE GateConnects \/ GateReleased \/ GateExecs
  BY <1>8 DEF GateConnects, Gates, Work, Watch, GateReleased, GateExecs
<1>9. CASE GateStops \/ ServerDies \/ OperatorRemoves
  BY <1>9 DEF GateStops, GateEnds, Gates, Work, Watch, ServerDies, FaultAllowed,
     OperatorRemoves
<1>10. CASE ReleaseSent \/ ReleaseRefused \/ Waited
  BY <1>10 DEF ReleaseSent, ReleaseStep, Work, ReleaseRefused, Waited, World, Watch
<1>11. CASE MonitorSees \/ MonitorFails \/ MonitorFinished
  BY <1>11 DEF MonitorSees, Work, World, MonitorFails, FaultAllowed, MonitorFinished
<1>12. ASSUME NEW pc \in {"plan", "broker", "closing", "collect", "wait", "convert"},
             Failure(pc)
      PROVE  ChargeInv'
  BY <1>12 DEF Failure, Work, World
<1>13. CASE UndoContainer \/ UndoNothing \/ CleanedFailed \/ Cleaned
  BY <1>13 DEF UndoContainer, Handled, Verified, Work, Watch, UndoNothing, CleanupKnown,
     CleanedFailed, Cleaned
<1>14. CASE Returned \/ Observed
  BY <1>14 DEF Returned, Charged, Work, World, Watch, Observed
<1>15. CASE SettledFailed
  <2>1. ActiveSeconds \in 0..Timeout /\ ActiveSeconds >= Smaller(Timeout, hist.now)
    BY <1>15, ActiveCovers DEF SettledFailed
  <2>2. Smaller(Timeout, hist.now) \in 0..Timeout
    BY DEF Smaller
  <2> QED BY <1>15, <2>1, <2>2 DEF SettledFailed, Charged, RunCounted
<1>16. CASE Settled
  <2>1. ActiveSeconds \in 0..Timeout /\ ActiveSeconds >= Smaller(Timeout, hist.now)
    BY <1>16, ActiveCovers DEF Settled
  <2>2. Smaller(Timeout, hist.now) \in 0..Timeout
    BY DEF Smaller
  <2> QED BY <1>16, <2>1, <2>2 DEF Settled, Charged
<1>17. CASE SettleRefused \/ Unpublished
  BY <1>17 DEF SettleRefused, Charged, Handled, Verified, Work, World, Watch, Unpublished
<1>18. CASE Published
  <2>1. Smaller(Timeout, hist.now) \in 0..Timeout
    BY DEF Smaller
  <2> QED BY <1>18, <2>1 DEF Published, RunCounted, Work
<1> HIDE DEF SessionType, CallType, HistoryType, ChargeInv
<1> QED BY <1>1, <1>2, <1>3, <1>4, <1>5, <1>6, <1>7, <1>8, <1>9, <1>10, <1>11, <1>12, <1>13,
   <1>14, <1>15, <1>16, <1>17, <1>18 DEF Elementary

----------------------------------------------------------------------------
(* The theorems.                                                           *)

\* The invariant holds when the server starts.
LEMMA InitInvariant ==
  ASSUME DockerConstants, Init
  PROVE  DockerInv
<1> USE DEF Init, DockerConstants, Idle, NoSession, NoHistory, NoMonitor, NoRun
<1>1. SessionType /\ CallType /\ WorldType
  BY DEF SessionType, CallType, WorldType, States, Steps
<1>2. WatchType /\ HistoryType
  BY DEF WatchType, HistoryType
<1>3. WorldInv /\ ReleaseInv /\ LeftInv
  BY DEF WorldInv, ReleaseInv, LeftInv, Disposed, Before, Released, Ending, Existing
<1>4. RunInv /\ TimeInv /\ ChargeInv
  BY DEF RunInv, TimeInv, ChargeInv
<1> QED BY <1>1, <1>2, <1>3, <1>4 DEF DockerInv, Types

\* Every step keeps the invariant.
LEMMA StepInvariant ==
  ASSUME DockerConstants, DockerInv, [Next]_vars
  PROVE  DockerInv'
<1> USE DEF DockerInv, Types
<1>1. Elementary \/ UNCHANGED vars
  BY NextElementary
<1>2. SessionType' /\ CallType' /\ WorldType' /\ WatchType' /\ HistoryType'
  BY <1>1, NextSessionType, NextCallType, NextWorldType, NextWatchType, NextHistoryType
<1>3. WorldInv' /\ ReleaseInv' /\ LeftInv' /\ RunInv'
  BY <1>1, NextWorld, NextRelease, NextLeft, NextRun
<1>4. TimeInv' /\ ChargeInv'
  BY <1>1, NextTime, NextCharge
<1> QED BY <1>2, <1>3, <1>4

\* In every reachable state the step of the call fixes where its container is,
\* what the Gate may read, what the workload has run and what is charged.
THEOREM DockerInvariant ==
  ASSUME DockerConstants
  PROVE  Spec => []DockerInv
<1>1. Init => DockerInv
  BY InitInvariant
<1>2. DockerInv /\ [Next]_vars => DockerInv'
  BY StepInvariant
<1> QED BY <1>1, <1>2, PTL DEF Spec

\* Every variable keeps its type: no session counts more runs or seconds than it
\* was authorized for.
THEOREM TypeCorrect ==
  ASSUME DockerConstants
  PROVE  Spec => []TypeOK
<1>1. DockerInv => TypeOK
  BY DEF DockerInv, Types, SessionType, WorldType, HistoryType, TypeOK, States
<1> QED BY <1>1, DockerInvariant, PTL

\* The workload of a managed container executes only after the server has sent
\* the release, whatever failed or died on the way.
THEOREM WorkloadsAwaitRelease ==
  ASSUME DockerConstants
  PROVE  Spec => []RunsOnlyReleased
<1>1. DockerInv => RunsOnlyReleased
  BY DEF DockerInv, ReleaseInv, RunsOnlyReleased
<1> QED BY <1>1, DockerInvariant, PTL

\* However a managed call ends, its workload's time is charged within the budget,
\* a published run is true, and without a failure nothing is left in Docker.
THEOREM CallsSettle ==
  ASSUME DockerConstants
  PROVE  Spec => []CallSettled
<1>1. DockerInv => LeftoverNeedsFault
  BY DEF DockerInv, Types, WorldType, WorldInv, LeftInv, Disposed, Ending, LeftoverNeedsFault, At
<1>2. DockerInv => ChargeCoversRun
  BY DEF DockerInv, Types, SessionType, ChargeInv, ChargeCoversRun, At
<1>3. DockerInv => PublishedRunHonest
  BY DEF DockerInv, Types, WorldType, WorldInv, RunInv, PublishedRunHonest
<1>4. DockerInv => CallSettled
  BY <1>1, <1>2, <1>3 DEF CallSettled
<1> QED BY <1>4, DockerInvariant, PTL

----------------------------------------------------------------------------
(* The stream readers of a trace (TraceStream).                            *)

\* The records and the events are sequences, and the counters count records.
StreamType ==
    /\ \E lines : v_input \in Seq(lines)
    /\ \E exported : v_events \in Seq(exported)
    /\ v_pending \in [Threads -> SUBSET (1 .. Len(v_input))]
    /\ v_counted \in [V!Classes -> SUBSET (1 .. Len(v_input))]

\* Every record is in the class that counts it, or waits for its wakeup.
StreamInv == StreamType /\ V!RecordsConserved

LEMMA InitStream == V!Init => StreamInv
<1> SUFFICES ASSUME V!Init PROVE StreamInv
  OBVIOUS
<1>1. v_input \in Seq({}) /\ v_events \in Seq({}) /\ Len(v_input) = 0 /\ DOMAIN v_events = {}
  BY DEF V!Init
<1>2. StreamType
  BY <1>1 DEF V!Init, StreamType
<1>3. V!Waiting = {} /\ UNION {v_counted[c] : c \in V!Classes} = {} /\ 1 .. Len(v_input) = {}
  BY <1>1 DEF V!Init, V!Waiting
<1>4. v_counted["emitted"] = {v_events[i].rec : i \in DOMAIN v_events}
  BY <1>1 DEF V!Init, V!Classes
<1> QED BY <1>2, <1>3, <1>4 DEF V!Init, StreamInv, V!RecordsConserved

\* One more element of a sequence.
LEMMA AppendedTo ==
    ASSUME NEW s, NEW s2, NEW e, \E elements : s \in Seq(elements), s2 = Append(s, e)
    PROVE  /\ \E elements : s2 \in Seq(elements)
           /\ Len(s) \in Nat /\ Len(s2) = Len(s) + 1 /\ DOMAIN s = 1 .. Len(s)
           /\ DOMAIN s2 = 1 .. Len(s) + 1
           /\ s2[Len(s) + 1] = e /\ \A i \in 1 .. Len(s) : s2[i] = s[i]
<1>1. PICK elements : s \in Seq(elements)
  OBVIOUS
<1>2. s \in Seq(elements \cup {e}) /\ e \in elements \cup {e}
  BY <1>1
<1>3. s2 \in Seq(elements \cup {e})
  BY <1>2
<1> QED BY <1>2, <1>3

\* The counters after a record: it is counted in one class, it waits, or it is a
\* wakeup, with which those that waited for it are counted.
LineCounted(class) ==
    /\ v_counted' = [v_counted EXCEPT ![class] = v_counted[class] \cup {V!n}]
    /\ UNCHANGED v_pending
    /\ class # "emitted" => UNCHANGED v_events
    /\ class = "emitted" => \E note : v_events' = Append(v_events, [rec |-> V!n, note |-> note])

LineWaits(t) ==
    /\ v_pending' = [v_pending EXCEPT ![t] = v_pending[t] \cup {V!n}]
    /\ UNCHANGED <<v_counted, v_events>>

LineWakes(t, class) ==
    /\ v_counted' = [v_counted EXCEPT !["emitted"] = v_counted["emitted"] \cup {V!n},
                                  ![class] = v_counted[class] \cup v_pending[t]]
    /\ v_pending' = [v_pending EXCEPT ![t] = {}]
    /\ \E note : v_events' = Append(v_events, [rec |-> V!n, note |-> note])

Line ==
    /\ \E r : v_input' = Append(v_input, r)
    /\ \/ \E class \in V!Classes : LineCounted(class)
       \/ \E t \in Threads : LineWaits(t)
       \/ \E t \in Threads, class \in {"merged", "unsupported"} : LineWakes(t, class)

\* Whatever waits is counted as unsupported.
GivenUp ==
    /\ UNCHANGED <<v_input, v_events>>
    /\ v_counted' = [v_counted EXCEPT !["unsupported"] = v_counted["unsupported"] \cup V!Waiting]
    /\ v_pending' = [t \in Threads |-> {}]

LEMMA WaitingIn == \A x : x \in V!Waiting <=> \E t \in Threads : x \in v_pending[t]
BY DEF V!Waiting

LEMMA WaitingInNext == \A x : x \in V!Waiting' <=> \E t \in Threads : x \in v_pending'[t]
BY DEF V!Waiting

LEMMA LinesOfThreads == \A r \in V!PerfLines \cup V!KernelLines : r.tid \in Threads
<1>1. ASSUME NEW kinds, NEW peers, NEW locks, NEW goods, NEW r \in V!Of(kinds, peers, locks, goods)
      PROVE  r.tid \in Threads
  BY DEF V!Of
<1>2. ASSUME NEW kinds, NEW r \in V!Blank(kinds)
      PROVE  r.tid \in Threads
  BY <1>1, <1>2 DEF V!Blank
<1>3. ASSUME NEW kind, NEW r \in V!OnAnyCpu(kind)
      PROVE  r.tid \in Threads
  <2>1. PICK s \in V!Of({kind}, {V!None}, {V!None}, {TRUE}), c \in Cpus : r = [s EXCEPT !.cpu = c]
    BY <1>3 DEF V!OnAnyCpu
  <2>2. s.tid \in Threads /\ r.tid = s.tid
    BY <2>1 DEF V!Of
  <2> QED BY <2>2
<1>4. ASSUME NEW r \in {[s EXCEPT !.good = FALSE] : s \in V!Blank({"futex"})}
      PROVE  r.tid \in Threads
  <2>1. PICK s \in V!Blank({"futex"}) : r = [s EXCEPT !.good = FALSE]
    BY <1>4
  <2>2. s.tid \in Threads /\ r.tid = s.tid
    BY <1>2, <2>1 DEF V!Blank, V!Of
  <2> QED BY <2>2
<1>5. \A r \in V!PerfLines : r.tid \in Threads
  <2> TAKE r \in V!PerfLines
  <2>1. CASE v_mode = "sched"
    BY <2>1, <1>1, <1>2, <1>3 DEF V!PerfLines, V!AnyLines
  <2>2. CASE v_mode # "sched"
    BY <2>2, <1>1, <1>2, <1>3, <1>4 DEF V!PerfLines, V!AnyLines
  <2> QED BY <2>1, <2>2
<1>6. \A r \in V!KernelLines : r.tid \in Threads
  <2> TAKE r \in V!KernelLines
  <2>1. CASE v_mode = "sched"
    BY <2>1, <1>1, <1>2, <1>3 DEF V!KernelLines, V!AnyLines
  <2>2. CASE v_mode # "sched"
    BY <2>2, <1>1, <1>2, <1>3 DEF V!KernelLines, V!AnyLines
  <2> QED BY <2>1, <2>2
<1> QED BY <1>5, <1>6

LEMMA StreamSteps ==
    ASSUME StreamInv, [V!Next]_(V!vars)
    PROVE  Line \/ GivenUp \/ UNCHANGED <<v_input, v_events, v_counted, v_pending>>
<1>1. ASSUME NEW r, NEW class \in V!Classes \ {"emitted"}, NEW noted,
             v_input' = Append(v_input, r), V!Drops(class, noted)
      PROVE  Line
  BY <1>1 DEF Line, LineCounted, V!Drops, V!Count
<1>2. ASSUME NEW r, NEW note, v_input' = Append(v_input, r), V!Emits(note), UNCHANGED v_pending
      PROVE  Line
  <2>1. LineCounted("emitted") /\ "emitted" \in V!Classes
    BY <1>2 DEF LineCounted, V!Emits, V!Count, V!Classes
  <2> QED BY <1>2, <2>1 DEF Line
<1>3. ASSUME NEW r, NEW kind, NEW noted, V!Exports(r, kind, noted)
      PROVE  Line
  BY <1>2, <1>3 DEF V!Exports, V!Admits, V!Reads
<1>4. ASSUME NEW r, NEW waker, r.tid \in Threads, V!Wakeup(r, waker)
      PROVE  Line
  <2>1. PICK class \in {"merged", "unsupported"} : LineWakes(r.tid, class)
    BY <1>4 DEF V!Wakeup, LineWakes
  <2>2. v_input' = Append(v_input, r)
    BY <1>4 DEF V!Wakeup, V!Admits, V!Reads
  <2> QED BY <1>4, <2>1, <2>2 DEF Line
<1>5. ASSUME NEW r, r.tid \in Threads, V!Waking(r)
      PROVE  Line
  <2>1. LineWaits(r.tid) /\ v_input' = Append(v_input, r)
    BY <1>5 DEF V!Waking, LineWaits, V!Admits, V!Reads
  <2> QED BY <1>5, <2>1 DEF Line
<1>6. ASSUME NEW r,
             \/ V!PerfUnreadable(r) \/ V!KernelUnreadable(r) \/ V!PerfOverLimit(r) \/ V!OutOfOrder(r)
             \/ V!Malformed(r) \/ V!PerfAlien(r) \/ V!PerfForeign(r) \/ V!PerfAttempt(r)
      PROVE  Line
  <2>1. /\ v_input' = Append(v_input, r)
        /\ \E class \in V!Classes \ {"emitted"}, noted \in {0, 1} : V!Drops(class, noted)
    BY <1>6 DEF V!PerfUnreadable, V!KernelUnreadable, V!PerfOverLimit, V!OutOfOrder, V!Malformed, V!PerfAlien,
       V!PerfForeign, V!PerfAttempt, V!Admits, V!Reads, V!Classes
  <2> QED BY <1>1, <2>1
<1>7. ASSUME NEW r,
             \/ V!PerfSwitch(r) \/ V!KernelSwitch(r) \/ V!PerfMigrate(r) \/ V!KernelMigrate(r)
             \/ V!KernelBegin(r) \/ V!LegacyLock(r) \/ V!KernelFutex(r)
      PROVE  Line
  BY <1>3, <1>7 DEF V!PerfSwitch, V!KernelSwitch, V!PerfMigrate, V!KernelMigrate, V!KernelBegin, V!LegacyLock,
     V!KernelFutex
<1>8. ASSUME NEW r, V!PerfFutex(r)
      PROVE  Line
  <2>1. CASE V!Exports(r, "futex", 0)
    BY <1>3, <2>1
  <2>2. CASE V!Admits(r) /\ V!Drops("unsupported", 1)
    BY <1>1, <2>2 DEF V!Admits, V!Reads, V!Classes
  <2> QED BY <1>8, <2>1, <2>2 DEF V!PerfFutex
<1>9. ASSUME NEW r, V!PerfEnd(r) \/ V!KernelEnd(r)
      PROVE  Line
  BY <1>2, <1>9 DEF V!PerfEnd, V!KernelEnd, V!Admits, V!Reads
<1>10. ASSUME NEW r, V!PerfBegin(r)
       PROVE  Line
  <2>1. v_input' = Append(v_input, r) /\ UNCHANGED v_pending
    BY <1>10 DEF V!PerfBegin, V!Admits, V!Reads
  <2>2. CASE V!Emits(V!None)
    BY <1>2, <2>1, <2>2
  <2>3. CASE \E class \in {"merged", "unsupported"} : V!Count(class, {V!n}) /\ UNCHANGED v_events
    <3>1. PICK class \in {"merged", "unsupported"} : V!Count(class, {V!n}) /\ UNCHANGED v_events
      BY <2>3
    <3>2. LineCounted(class) /\ class \in V!Classes
      BY <2>1, <3>1 DEF LineCounted, V!Count, V!Classes
    <3> QED BY <2>1, <3>2 DEF Line
  <2> QED BY <1>10, <2>2, <2>3 DEF V!PerfBegin
<1>11. ASSUME NEW r \in V!PerfLines, V!PerfConsume(r)
       PROVE  Line
  <2>1. r.tid \in Threads
    BY LinesOfThreads
  <2> QED BY <1>4, <1>5, <1>6, <1>7, <1>8, <1>9, <1>10, <1>11, <2>1 DEF V!PerfConsume, V!PerfWakeup
<1>12. ASSUME NEW r \in V!KernelLines, V!KernelConsume(r)
       PROVE  Line
  <2>1. r.tid \in Threads
    BY LinesOfThreads
  <2> QED BY <1>4, <1>5, <1>6, <1>7, <1>9, <1>12, <2>1 DEF V!KernelConsume, V!KernelWakeup
<1>13. CASE V!LossMarker
  BY <1>13 DEF V!LossMarker, GivenUp, V!Count
<1>14. CASE V!Build
  BY <1>14 DEF V!Build, GivenUp
<1>15. CASE V!KernelOverLimit \/ UNCHANGED V!vars
  BY <1>15 DEF V!KernelOverLimit, V!vars
<1> QED BY <1>11, <1>12, <1>13, <1>14, <1>15 DEF V!Next

\* RecordsConserved, record by record.
Conserved ==
    /\ \A x : x \in 1 .. Len(v_input) <=>
                 (\E c \in V!Classes : x \in v_counted[c]) \/ (\E t \in Threads : x \in v_pending[t])
    /\ \A c \in V!Classes, t \in Threads : v_counted[c] \cap v_pending[t] = {}
    /\ \A c, d \in V!Classes : c # d => v_counted[c] \cap v_counted[d] = {}
    /\ \A t, u \in Threads : t # u => v_pending[t] \cap v_pending[u] = {}
    /\ \A x : x \in v_counted["emitted"] <=> \E i \in DOMAIN v_events : v_events[i].rec = x

LEMMA ConservedIs == StreamType => (V!RecordsConserved <=> Conserved)
<1> SUFFICES ASSUME StreamType PROVE V!RecordsConserved <=> Conserved
  OBVIOUS
<1>1. (UNION {v_counted[c] : c \in V!Classes}) \cup V!Waiting = 1 .. Len(v_input)
        <=> \A x : x \in 1 .. Len(v_input) <=>
               (\E c \in V!Classes : x \in v_counted[c]) \/ (\E t \in Threads : x \in v_pending[t])
  <2>1. \A x : x \in (UNION {v_counted[c] : c \in V!Classes}) \cup V!Waiting <=>
               (\E c \in V!Classes : x \in v_counted[c]) \/ (\E t \in Threads : x \in v_pending[t])
    BY WaitingIn
  <2> DEFINE covered == (UNION {v_counted[c] : c \in V!Classes}) \cup V!Waiting
  <2>2. covered = 1 .. Len(v_input) <=> \A x : x \in 1 .. Len(v_input) <=> x \in covered
    OBVIOUS
  <2> QED BY <2>1, <2>2
<1>2. (\A c \in V!Classes : v_counted[c] \cap V!Waiting = {})
        <=> \A c \in V!Classes, t \in Threads : v_counted[c] \cap v_pending[t] = {}
  BY WaitingIn
<1>3. v_counted["emitted"] = {v_events[i].rec : i \in DOMAIN v_events}
        <=> \A x : x \in v_counted["emitted"] <=> \E i \in DOMAIN v_events : v_events[i].rec = x
  OBVIOUS
<1> QED BY <1>1, <1>2, <1>3 DEF V!RecordsConserved, Conserved

LEMMA ConservedIsNext == StreamType' => (V!RecordsConserved' <=> Conserved')
BY ConservedIs, PTL

LEMMA LineKeeps == ASSUME StreamType, Conserved, Line PROVE StreamType' /\ Conserved'
<1>0. /\ v_pending \in [Threads -> SUBSET (1 .. Len(v_input))]
      /\ v_counted \in [V!Classes -> SUBSET (1 .. Len(v_input))]
      /\ "emitted" \in V!Classes /\ "merged" \in V!Classes /\ "unsupported" \in V!Classes
  BY DEF StreamType, V!Classes
<1>1. /\ \E lines : v_input' \in Seq(lines)
      /\ Len(v_input) \in Nat /\ Len(v_input') = Len(v_input) + 1 /\ V!n = Len(v_input) + 1
  BY AppendedTo DEF StreamType, Line, V!n
<1>2. /\ V!n \in 1 .. Len(v_input') /\ V!n \notin 1 .. Len(v_input)
      /\ 1 .. Len(v_input') = (1 .. Len(v_input)) \cup {V!n}
  BY <1>1
<1>e. ASSUME NEW note, v_events' = Append(v_events, [rec |-> V!n, note |-> note])
      PROVE  /\ \E exported : v_events' \in Seq(exported)
             /\ \A x : (\E i \in DOMAIN v_events' : v_events'[i].rec = x)
                         <=> x = V!n \/ \E i \in DOMAIN v_events : v_events[i].rec = x
  <2> DEFINE e == [rec |-> V!n, note |-> note]
  <2>1. e.rec = V!n /\ v_events' = Append(v_events, e)
    BY <1>e
  <2> HIDE DEF e
  <2>0. \E exported : v_events \in Seq(exported)
    BY DEF StreamType
  <2>2. /\ \E exported : v_events' \in Seq(exported)
        /\ Len(v_events) \in Nat /\ DOMAIN v_events = 1 .. Len(v_events)
        /\ DOMAIN v_events' = 1 .. Len(v_events) + 1 /\ v_events'[Len(v_events) + 1] = e
        /\ \A i \in 1 .. Len(v_events) : v_events'[i] = v_events[i]
    BY <2>0, <2>1, AppendedTo
  <2> QED BY <2>1, <2>2
<1>f. UNCHANGED v_events => \E exported : v_events' \in Seq(exported)
  BY DEF StreamType
<1>3. ASSUME NEW class \in V!Classes, LineCounted(class)
      PROVE  StreamType' /\ Conserved'
  <2>1. StreamType'
    BY <1>0, <1>1, <1>2, <1>3, <1>e, <1>f DEF StreamType, LineCounted
  <2>2. \A x : x \in v_counted'["emitted"] <=> \E i \in DOMAIN v_events' : v_events'[i].rec = x
    BY <1>0, <1>3, <1>e DEF Conserved, LineCounted
  <2>3. \A x : x \in 1 .. Len(v_input') <=>
                 (\E c \in V!Classes : x \in v_counted'[c]) \/ (\E t \in Threads : x \in v_pending'[t])
    BY <1>0, <1>2, <1>3 DEF Conserved, LineCounted
  <2>4. /\ \A c \in V!Classes, t \in Threads : v_counted'[c] \cap v_pending'[t] = {}
        /\ \A c, d \in V!Classes : c # d => v_counted'[c] \cap v_counted'[d] = {}
        /\ \A t, u \in Threads : t # u => v_pending'[t] \cap v_pending'[u] = {}
    BY <1>0, <1>2, <1>3 DEF Conserved, LineCounted
  <2> QED BY <2>1, <2>2, <2>3, <2>4 DEF Conserved
<1>4. ASSUME NEW t \in Threads, LineWaits(t)
      PROVE  StreamType' /\ Conserved'
  <2>1. StreamType'
    BY <1>0, <1>1, <1>2, <1>4, <1>f DEF StreamType, LineWaits
  <2>2. \A x : x \in 1 .. Len(v_input') <=>
                 (\E c \in V!Classes : x \in v_counted'[c]) \/ (\E u \in Threads : x \in v_pending'[u])
    BY <1>0, <1>2, <1>4 DEF Conserved, LineWaits
  <2>3. /\ \A c \in V!Classes, u \in Threads : v_counted'[c] \cap v_pending'[u] = {}
        /\ \A c, d \in V!Classes : c # d => v_counted'[c] \cap v_counted'[d] = {}
        /\ \A v, u \in Threads : v # u => v_pending'[v] \cap v_pending'[u] = {}
    BY <1>0, <1>2, <1>4 DEF Conserved, LineWaits
  <2> QED BY <1>4, <2>1, <2>2, <2>3 DEF Conserved, LineWaits
<1>5. ASSUME NEW t \in Threads, NEW class \in {"merged", "unsupported"}, LineWakes(t, class)
      PROVE  StreamType' /\ Conserved'
  <2>0. /\ v_counted' \in [V!Classes -> SUBSET (1 .. Len(v_input'))]
        /\ v_counted'["emitted"] = v_counted["emitted"] \cup {V!n}
        /\ v_counted'[class] = v_counted[class] \cup v_pending[t]
        /\ \A c \in V!Classes \ {"emitted", class} : v_counted'[c] = v_counted[c]
        /\ v_pending' \in [Threads -> SUBSET (1 .. Len(v_input'))]
        /\ v_pending'[t] = {} /\ \A u \in Threads \ {t} : v_pending'[u] = v_pending[u]
    BY <1>0, <1>2, <1>5 DEF LineWakes
  <2>1. StreamType'
    BY <1>1, <1>5, <2>0, <1>e DEF StreamType, LineWakes
  <2>2. \A x : x \in v_counted'["emitted"] <=> \E i \in DOMAIN v_events' : v_events'[i].rec = x
    BY <1>5, <2>0, <1>e DEF Conserved, LineWakes
  <2>3. \A x : x \in 1 .. Len(v_input') <=>
                 (\E c \in V!Classes : x \in v_counted'[c]) \/ (\E u \in Threads : x \in v_pending'[u])
    BY <1>0, <1>2, <2>0 DEF Conserved
  <2>4. /\ \A c \in V!Classes, u \in Threads : v_counted'[c] \cap v_pending'[u] = {}
        /\ \A c, d \in V!Classes : c # d => v_counted'[c] \cap v_counted'[d] = {}
        /\ \A v, u \in Threads : v # u => v_pending'[v] \cap v_pending'[u] = {}
    BY <1>0, <1>2, <2>0 DEF Conserved
  <2> QED BY <2>1, <2>2, <2>3, <2>4 DEF Conserved
<1> QED BY <1>3, <1>4, <1>5 DEF Line

LEMMA GivenUpKeeps == ASSUME StreamType, Conserved, GivenUp PROVE StreamType' /\ Conserved'
<1>0. /\ v_pending \in [Threads -> SUBSET (1 .. Len(v_input))]
      /\ v_counted \in [V!Classes -> SUBSET (1 .. Len(v_input))]
      /\ "emitted" \in V!Classes /\ "unsupported" \in V!Classes
      /\ UNCHANGED <<v_input, v_events>>
  BY DEF StreamType, V!Classes, GivenUp
<1>1. /\ \A t \in Threads : v_pending'[t] = {}
      /\ \A c \in V!Classes \ {"unsupported"} : v_counted'[c] = v_counted[c]
      /\ \A x : x \in v_counted'["unsupported"]
                  <=> x \in v_counted["unsupported"] \/ \E t \in Threads : x \in v_pending[t]
  BY <1>0, WaitingIn DEF GivenUp
<1>2. StreamType'
  BY <1>0, WaitingIn DEF StreamType, GivenUp
<1>3. \A x : x \in 1 .. Len(v_input') <=>
               (\E c \in V!Classes : x \in v_counted'[c]) \/ (\E t \in Threads : x \in v_pending'[t])
  BY <1>0, <1>1 DEF Conserved
<1>4. /\ \A c \in V!Classes, t \in Threads : v_counted'[c] \cap v_pending'[t] = {}
      /\ \A c, d \in V!Classes : c # d => v_counted'[c] \cap v_counted'[d] = {}
      /\ \A t, u \in Threads : t # u => v_pending'[t] \cap v_pending'[u] = {}
  BY <1>0, <1>1 DEF Conserved
<1>5. \A x : x \in v_counted'["emitted"] <=> \E i \in DOMAIN v_events' : v_events'[i].rec = x
  BY <1>0, <1>1 DEF Conserved
<1> QED BY <1>2, <1>3, <1>4, <1>5 DEF Conserved

LEMMA NextStream == ASSUME StreamInv, [V!Next]_(V!vars) PROVE StreamInv'
<1>1. StreamType /\ Conserved
  BY ConservedIs DEF StreamInv
<1>2. UNCHANGED <<v_input, v_events, v_counted, v_pending>> => StreamType' /\ Conserved'
  BY <1>1 DEF StreamType, Conserved
<1>3. StreamType' /\ Conserved'
  BY <1>1, <1>2, StreamSteps, LineKeeps, GivenUpKeeps
<1> QED BY <1>3, ConservedIsNext DEF StreamInv

----------------------------------------------------------------------------
(* The scheduler and off-CPU analyzer (TraceAnalysis).                     *)

\* Where the open interval of a thread begins is an event that was read, and a
\* thread does not have two open intervals.
OpenInv ==
    /\ \E read : a_events \in Seq(read)
    /\ a_run \in [Threads -> Nat] /\ a_off \in [Threads -> Nat]
    /\ \A t \in Threads :
           a_run[t] <= Len(a_events) /\ a_off[t] <= Len(a_events) /\ (a_run[t] = 0 \/ a_off[t] = 0)

\* The intervals of a thread end before the open one begins.
ClosedBefore ==
    \A t \in Threads : \A a \in A!Spans(t) :
        /\ a[1] \in Nat /\ a[2] \in Nat /\ a[2] <= Len(a_events)
        /\ a_run[t] # 0 => a[2] <= a_run[t]
        /\ a_off[t] # 0 => a[2] <= a_off[t]

SpanInv == OpenInv /\ ClosedBefore /\ A!TimeCountedOnce

LEMMA InitSpans == A!Init => SpanInv
<1> SUFFICES ASSUME A!Init PROVE SpanInv
  OBVIOUS
<1>1. a_events \in Seq({}) /\ Len(a_events) = 0
  BY DEF A!Init
<1>2. OpenInv
  BY <1>1 DEF A!Init, OpenInv
<1>3. \A t \in Threads : A!Spans(t) = {}
  BY DEF A!Init, A!Spans, A!Of
<1> QED BY <1>2, <1>3 DEF SpanInv, ClosedBefore, A!TimeCountedOnce

\* A step on one thread closes its open interval at the last event, or none.
SpanStep(t) ==
    /\ \E read : a_events' \in Seq(read)
    /\ Len(a_events') \in Nat /\ Len(a_events) \in Nat /\ Len(a_events) <= Len(a_events')
    /\ a_run' \in [Threads -> Nat] /\ a_off' \in [Threads -> Nat]
    /\ \A u \in Threads \ {t} :
           a_run'[u] = a_run[u] /\ a_off'[u] = a_off[u] /\ A!Spans(u)' \subseteq A!Spans(u)
    /\ a_run'[t] \in {0, a_run[t], Len(a_events')} /\ a_off'[t] \in {0, a_off[t], Len(a_events')}
    /\ a_run'[t] = 0 \/ a_off'[t] = 0
    /\ \/ A!Spans(t)' \subseteq A!Spans(t)
       \/ /\ a_run[t] # 0 /\ a_run'[t] = 0 /\ a_off'[t] \in {0, Len(a_events')}
          /\ A!Spans(t)' \subseteq A!Spans(t) \cup {<<a_run[t], Len(a_events')>>}
       \/ /\ a_off[t] # 0 /\ a_off'[t] = 0 /\ a_run'[t] \in {0, Len(a_events')}
          /\ A!Spans(t)' \subseteq A!Spans(t) \cup {<<a_off[t], Len(a_events')>>}

LEMMA StepSpans ==
    ASSUME SpanInv, NEW t \in Threads, SpanStep(t)
    PROVE  SpanInv'
<1>1. OpenInv'
  <2>1. ASSUME NEW u \in Threads
        PROVE  a_run'[u] <= Len(a_events') /\ a_off'[u] <= Len(a_events') /\ (a_run'[u] = 0 \/ a_off'[u] = 0)
    <3>1. CASE u = t
      BY <3>1 DEF SpanInv, SpanStep, OpenInv
    <3>2. CASE u # t
      BY <3>2 DEF SpanInv, SpanStep, OpenInv
    <3> QED BY <3>1, <3>2
  <2>2. \E read : a_events' \in Seq(read)
    BY DEF SpanStep
  <2>3. a_run' \in [Threads -> Nat] /\ a_off' \in [Threads -> Nat]
    BY DEF SpanStep
  <2> QED BY <2>1, <2>2, <2>3 DEF OpenInv
<1>2. ASSUME NEW u \in Threads, u # t
      PROVE  /\ \A a \in A!Spans(u)' : a \in A!Spans(u)
             /\ a_run'[u] = a_run[u] /\ a_off'[u] = a_off[u]
  BY <1>2 DEF SpanStep
<1>3. /\ \A u \in Threads : a_run[u] \in Nat /\ a_off[u] \in Nat /\ a_run'[u] \in Nat /\ a_off'[u] \in Nat
      /\ Len(a_events') \in Nat /\ Len(a_events) \in Nat /\ Len(a_events) <= Len(a_events')
  BY <1>1 DEF SpanStep, SpanInv, OpenInv
<1>4. ASSUME NEW a \in A!Spans(t)', a \notin A!Spans(t)
      PROVE  /\ a = <<a[1], a[2]>> /\ a[2] = Len(a_events') /\ a[1] \in Nat /\ a[1] # 0
             /\ a[1] \in {a_run[t], a_off[t]} /\ a[1] <= Len(a_events)
             /\ a_run'[t] \in {0, Len(a_events')} /\ a_off'[t] \in {0, Len(a_events')}
  BY <1>3, <1>4 DEF SpanStep, SpanInv, OpenInv
<1>5. ClosedBefore'
  <2> SUFFICES ASSUME NEW u \in Threads, NEW a \in A!Spans(u)'
               PROVE  /\ a[1] \in Nat /\ a[2] \in Nat /\ a[2] <= Len(a_events')
                      /\ a_run'[u] # 0 => a[2] <= a_run'[u]
                      /\ a_off'[u] # 0 => a[2] <= a_off'[u]
    BY DEF ClosedBefore
  <2>1. CASE u # t
    BY <1>2, <1>3, <2>1 DEF SpanInv, ClosedBefore
  <2>2. CASE u = t /\ a \in A!Spans(t)
    <3>1. a_run'[t] \in {0, a_run[t], Len(a_events')} /\ a_off'[t] \in {0, a_off[t], Len(a_events')}
      BY DEF SpanStep
    <3> QED BY <1>3, <2>2, <3>1 DEF SpanInv, ClosedBefore
  <2>3. CASE u = t /\ a \notin A!Spans(t)
    BY <1>3, <1>4, <2>3
  <2> QED BY <2>1, <2>2, <2>3
<1>6. A!TimeCountedOnce'
  <2> SUFFICES ASSUME NEW u \in Threads, NEW a \in A!Spans(u)', NEW b \in A!Spans(u)', a # b
               PROVE  a[2] <= b[1] \/ b[2] <= a[1]
    BY DEF A!TimeCountedOnce
  <2>1. CASE u # t
    BY <1>2, <2>1 DEF SpanInv, A!TimeCountedOnce
  <2>2. CASE u = t /\ a \in A!Spans(t) /\ b \in A!Spans(t)
    BY <2>2 DEF SpanInv, A!TimeCountedOnce
  <2>3. CASE u = t /\ a \in A!Spans(t) /\ b \notin A!Spans(t)
    BY <1>3, <1>4, <2>3 DEF SpanInv, ClosedBefore
  <2>4. CASE u = t /\ a \notin A!Spans(t) /\ b \in A!Spans(t)
    BY <1>3, <1>4, <2>4 DEF SpanInv, ClosedBefore
  <2>5. CASE u = t /\ a \notin A!Spans(t) /\ b \notin A!Spans(t)
    <3>1. a[1] = b[1] /\ a[2] = b[2]
      BY <1>3, <1>4, <2>5 DEF SpanInv, OpenInv
    <3> QED BY <1>4, <2>5, <3>1
  <2> QED BY <2>1, <2>2, <2>3, <2>4, <2>5
<1> QED BY <1>1, <1>5, <1>6 DEF SpanInv

LEMMA ReadsOne ==
    ASSUME OpenInv, NEW kind, NEW t, NEW at, A!Reads(kind, t, at)
    PROVE  /\ \E read : a_events' \in Seq(read)
           /\ Len(a_events) \in Nat /\ Len(a_events') \in Nat /\ A!n \in Nat
           /\ Len(a_events') = A!n /\ A!n = Len(a_events) + 1
<1>1. PICK read : a_events \in Seq(read)
  BY DEF OpenInv
<1> DEFINE event == [kind |-> kind, tid |-> t, at |-> at]
<1>2. a_events \in Seq(read \cup {event}) /\ event \in read \cup {event} /\ a_events' = Append(a_events, event)
  BY <1>1 DEF A!Reads
<1> HIDE DEF event
<1>3. a_events' \in Seq(read \cup {event}) /\ Len(a_events') = Len(a_events) + 1 /\ Len(a_events) \in Nat
  BY <1>2
<1> QED BY <1>3 DEF A!n

LEMMA SwitchOutSpans ==
    ASSUME SpanInv, NEW t \in Threads, NEW at, NEW cpu, A!SwitchOut(t, at, cpu)
    PROVE  SpanInv'
<1>1. /\ \E read : a_events' \in Seq(read)
      /\ Len(a_events) \in Nat /\ Len(a_events') \in Nat /\ A!n \in Nat
      /\ Len(a_events') = A!n /\ A!n = Len(a_events) + 1
  BY ReadsOne DEF SpanInv, A!SwitchOut
<1>2. /\ a_run' = [a_run EXCEPT ![t] = 0] /\ a_off' = [a_off EXCEPT ![t] = A!n]
  BY DEF A!SwitchOut, A!Popped
<1>3. /\ a_runtime' = a_runtime \cup {[tid |-> t, in |-> i, out |-> A!n] : i \in {a_run[t]} \ {0}}
      /\ \A x \in a_offcpu' : x \in a_offcpu \/ (x.in = 0)
  BY DEF A!SwitchOut, A!OffCpu
<1>4. \A u \in Threads : \A a \in A!Spans(u)' :
         a \in A!Spans(u) \/ (u = t /\ a_run[t] # 0 /\ a = <<a_run[t], A!n>>)
  BY <1>3 DEF A!Spans, A!Of, A!Complete
<1>5. a_run \in [Threads -> Nat] /\ a_off \in [Threads -> Nat]
  BY DEF SpanInv, OpenInv
<1>6. SpanStep(t)
  BY <1>1, <1>2, <1>4, <1>5 DEF SpanStep
<1> QED BY <1>6, StepSpans

LEMMA SwitchInSpans ==
    ASSUME SpanInv, NEW t \in Threads, NEW at, NEW cpu, A!SwitchIn(t, at, cpu)
    PROVE  SpanInv'
<1>1. /\ \E read : a_events' \in Seq(read)
      /\ Len(a_events) \in Nat /\ Len(a_events') \in Nat /\ A!n \in Nat
      /\ Len(a_events') = A!n /\ A!n = Len(a_events) + 1
  BY ReadsOne DEF SpanInv, A!SwitchIn
<1>2. /\ a_run' = [a_run EXCEPT ![t] = A!n] /\ a_off' = [a_off EXCEPT ![t] = 0]
  BY DEF A!SwitchIn, A!Popped
<1>3. /\ a_runtime' = a_runtime
      /\ a_offcpu' = a_offcpu \cup {A!OffCpu(t, A!n, A!Incompleteness(t))}
  BY DEF A!SwitchIn
<1>4. \A u \in Threads : \A a \in A!Spans(u)' :
         a \in A!Spans(u) \/ (u = t /\ a_off[t] # 0 /\ a = <<a_off[t], A!n>>)
  <2>1. \A x \in a_offcpu' : x \in a_offcpu \/ (x.tid = t /\ x.in = A!n /\ x.out = a_off[t])
    BY <1>3 DEF A!OffCpu
  <2> QED BY <1>3, <2>1 DEF A!Spans, A!Of, A!Complete
<1>5. a_run \in [Threads -> Nat] /\ a_off \in [Threads -> Nat]
  BY DEF SpanInv, OpenInv
<1>6. SpanStep(t)
  BY <1>1, <1>2, <1>4, <1>5 DEF SpanStep
<1> QED BY <1>6, StepSpans

LEMMA DuplicateSpans ==
    ASSUME SpanInv, NEW t \in Threads, NEW at, A!DuplicateSwitchIn(t, at)
    PROVE  SpanInv'
<1>1. /\ \E read : a_events' \in Seq(read)
      /\ Len(a_events) \in Nat /\ Len(a_events') \in Nat
      /\ Len(a_events') = A!n /\ A!n = Len(a_events) + 1
  BY ReadsOne DEF SpanInv, A!DuplicateSwitchIn
<1>2. a_run' = [a_run EXCEPT ![t] = 0] /\ a_off' = a_off
  BY DEF A!DuplicateSwitchIn, A!Popped
<1>3. \A u \in Threads : A!Spans(u)' = A!Spans(u)
  BY DEF A!DuplicateSwitchIn, A!Spans, A!Of, A!Complete
<1>4. a_run \in [Threads -> Nat] /\ a_off \in [Threads -> Nat]
  BY DEF SpanInv, OpenInv
<1>5. SpanStep(t)
  BY <1>1, <1>2, <1>3, <1>4 DEF SpanStep
<1> QED BY <1>5, StepSpans

\* A step that opens and closes no interval.
LEMMA QuietSpans ==
    ASSUME SpanInv, UNCHANGED <<a_run, a_off>>, \A u \in Threads : A!Spans(u)' \subseteq A!Spans(u),
           \E read : a_events' \in Seq(read), Len(a_events) <= Len(a_events'),
           Len(a_events) \in Nat, Len(a_events') \in Nat
    PROVE  SpanInv'
<1>1. OpenInv'
  BY DEF SpanInv, OpenInv
<1>2. ClosedBefore'
  BY DEF SpanInv, ClosedBefore
<1>3. A!TimeCountedOnce'
  BY DEF SpanInv, A!TimeCountedOnce
<1> QED BY <1>1, <1>2, <1>3 DEF SpanInv

LEMMA OtherEventSpans ==
    ASSUME SpanInv, NEW t \in Threads, NEW at, NEW cpu, A!Wakeup(t, at) \/ A!Migrate(t, at, cpu)
    PROVE  SpanInv'
<1>1. /\ \E read : a_events' \in Seq(read)
      /\ Len(a_events) \in Nat /\ Len(a_events') \in Nat
      /\ Len(a_events') = A!n /\ A!n = Len(a_events) + 1
  BY ReadsOne DEF SpanInv, A!Wakeup, A!Migrate
<1>2. UNCHANGED <<a_run, a_off, a_runtime, a_offcpu>>
  BY DEF A!Wakeup, A!Migrate
<1>3. \A u \in Threads : A!Spans(u)' = A!Spans(u)
  BY <1>2 DEF A!Spans, A!Of, A!Complete
<1> QED BY <1>1, <1>2, <1>3, QuietSpans

LEMMA EndSpans ==
    ASSUME SpanInv, A!EndOfTrace \/ A!Publish \/ UNCHANGED A!vars
    PROVE  SpanInv'
<1>1. UNCHANGED <<a_events, a_run, a_off, a_runtime>>
  BY DEF A!EndOfTrace, A!Publish, A!vars, A!state
<1>2. \A x \in a_offcpu' : x \in a_offcpu \/ x.in = 0
  BY DEF A!EndOfTrace, A!Publish, A!vars, A!state, A!OffCpu
<1>3. \A u \in Threads : A!Spans(u)' \subseteq A!Spans(u)
  BY <1>1, <1>2 DEF A!Spans, A!Of, A!Complete
<1>4. (\E read : a_events \in Seq(read)) /\ Len(a_events) \in Nat
  BY DEF SpanInv, OpenInv
<1> QED BY <1>1, <1>3, <1>4, QuietSpans

LEMMA NextSpans == SpanInv /\ [A!Next]_(A!vars) => SpanInv'
<1> SUFFICES ASSUME SpanInv, [A!Next]_(A!vars) PROVE SpanInv'
  OBVIOUS
<1>1. ASSUME NEW t \in Threads, NEW at \in 0 .. AnalysisTime, NEW cpu \in Cpus,
             A!SwitchOut(t, at, cpu) \/ A!SwitchIn(t, at, cpu) \/ A!Migrate(t, at, cpu)
      PROVE  SpanInv'
  BY <1>1, SwitchOutSpans, SwitchInSpans, OtherEventSpans
<1>2. ASSUME NEW t \in Threads, NEW at \in 0 .. AnalysisTime,
             A!Wakeup(t, at) \/ A!DuplicateSwitchIn(t, at)
      PROVE  SpanInv'
  BY <1>2, DuplicateSpans, OtherEventSpans
<1>3. CASE A!EndOfTrace \/ A!Publish \/ UNCHANGED A!vars
  BY <1>3, EndSpans
<1> QED BY <1>1, <1>2, <1>3 DEF A!Next

----------------------------------------------------------------------------
(* The store of artifacts (ArtifactStore).                                 *)

Halves == Nat \X Nat
FileRecord == [ino : Nat, ver : Nat, halves : Halves, links : Int,
               mode : {"private", "shared"}]
SaverSteps == S!Busy \cup {"idle"}
SaverOuts == {"none", "published", "reused", "raised", "died"}
SaverRecord == [gen : {1, 2}, step : SaverSteps, out : SaverOuts]

\* The types, with the files of the plan among the files, and what a call has
\* got so far: one content for each read it has done.
StoreType ==
    /\ s_request \in [call : {"load", "page"}, kind : S!Kinds]
    /\ s_at \in 1 .. Len(S!Plan)
    /\ s_step \in {"open", "first", "rest", "returned", "refused"}
    /\ s_got \in Seq(Halves)
    /\ s_step = "returned" => Len(s_got) = s_at
    /\ s_step # "returned" => Len(s_got) = s_at - 1
    /\ s_begun \in Nat
    /\ s_file \in [DOMAIN s_file -> FileRecord]
    /\ \A i \in 1 .. Len(S!Plan) : S!Plan[i].kind \in DOMAIN s_file
    /\ s_fd \in [opened : FileRecord, inode : FileRecord]
    /\ s_saver \in [Savers -> SaverRecord]
    /\ s_durable \in {"no", "yes"}
    /\ s_edits \in Nat /\ s_faults \in Nat /\ s_deaths \in Nat /\ s_losses \in Nat

\* While a file is open, its inode and its name have the version it was opened
\* in, or a later one; in that version nothing about it has changed.
OpenUnchanged ==
    s_step \in {"first", "rest"} =>
        /\ s_file[S!Plan[s_at].kind].ver >= s_fd.opened.ver
        /\ s_fd.inode.ver >= s_fd.opened.ver
        /\ s_fd.inode.ver = s_fd.opened.ver =>
               /\ s_fd.inode = s_fd.opened
               /\ s_step = "rest" => s_begun = s_fd.opened.halves[1]

\* What the requested file holds is recorded while the call runs.
HeldInv ==
    /\ S!Awaiting => s_file[s_request.kind].halves \in s_held
    /\ s_step \in {"first", "rest"} /\ s_at = 1 => s_fd.opened.halves \in s_held
    /\ Len(s_got) >= 1 => s_got[1] \in s_held

\* The references of the reads that were done.
GotInv ==
    \A i \in 2 .. Len(s_got) :
        <<S!Plan[S!Plan[i].from].kind, S!Plan[i].kind>> \notin S!Loose => s_got[i] = s_got[S!Plan[i].from]

ReadInv == StoreType /\ OpenUnchanged /\ HeldInv /\ GotInv

LEMMA PlanFacts ==
    ASSUME s_request \in [call : {"load", "page"}, kind : S!Kinds]
    PROVE  /\ S!Plan \in Seq([kind : S!Kinds, from : Nat])
           /\ Len(S!Plan) \in Nat /\ Len(S!Plan) >= 1 /\ DOMAIN S!Plan = 1 .. Len(S!Plan)
           /\ S!Plan[1].kind = s_request.kind /\ S!Plan[1].from = 0
           /\ \A i \in 2 .. Len(S!Plan) :
                  /\ S!Plan[i].from \in 1 .. i - 1
                  /\ S!Plan[S!Plan[i].from].kind = S!Plan[i].kind => S!Plan[i].from = 1
<1>1. s_request.call \in {"load", "page"} /\ s_request.kind \in S!Kinds
  OBVIOUS
<1> DEFINE plan == S!Plans[s_request.call][s_request.kind]
<1>2. /\ plan \in Seq([kind : S!Kinds, from : Nat]) /\ Len(plan) >= 1
      /\ plan[1] = [kind |-> s_request.kind, from |-> 0]
      /\ \A i \in 2 .. Len(plan) :
             /\ plan[i].from \in 1 .. i - 1
             /\ plan[plan[i].from].kind = plan[i].kind => plan[i].from = 1
  BY <1>1, PlansAssumption DEF S!PlansOrdered
<1>3. S!Plan = plan
  BY DEF S!Plan
<1> HIDE DEF plan
<1>4. Len(plan) \in Nat /\ DOMAIN plan = 1 .. Len(plan)
  BY <1>2
<1> QED BY <1>2, <1>3, <1>4

LEMMA PlanKept == UNCHANGED s_request => S!Plan' = S!Plan
BY DEF S!Plan

LEMMA RequestedFile ==
    ASSUME StoreType
    PROVE  S!Plan[1].kind = s_request.kind /\ s_request.kind \in DOMAIN s_file
<1>1. Len(S!Plan) \in Nat /\ Len(S!Plan) >= 1 /\ S!Plan[1].kind = s_request.kind
  BY PlanFacts DEF StoreType
<1>2. 1 \in 1 .. Len(S!Plan)
  BY <1>1
<1> QED BY <1>1, <1>2 DEF StoreType

LEMMA FileConstants ==
    /\ S!Absent \in FileRecord
    /\ \A g \in Nat : S!Written(g) \in FileRecord
    /\ S!Closed \in [opened : FileRecord, inode : FileRecord]
    /\ \A g \in Nat : S!Written(g).ver = 0 /\ S!Written(g).halves = <<g, g>>
                      /\ S!Written(g).links = 1 /\ S!Written(g).ino = 1
    /\ S!Absent.ino = 0 /\ S!Absent.links = 0
BY DEF S!Absent, S!Written, S!Closed, FileRecord, Halves

LEMMA InitStore == S!Init => ReadInv
<1> SUFFICES ASSUME S!Init PROVE ReadInv
  OBVIOUS
<1>1. s_request \in [call : {"load", "page"}, kind : S!Kinds]
  BY DEF S!Init
<1> DEFINE names == {S!Plan[i].kind : i \in DOMAIN S!Plan}
<1>2. PICK f \in {S!Written(1), S!Absent} : s_file = [k \in names |-> f]
  BY DEF S!Init
<1>3. f \in FileRecord
  BY <1>2, FileConstants
<1>4. DOMAIN s_file = names /\ \A k \in names : s_file[k] = f
  BY <1>2
<1>5. \A i \in 1 .. Len(S!Plan) : S!Plan[i].kind \in names
  BY <1>1, PlanFacts
<1>6. s_file \in [DOMAIN s_file -> FileRecord] /\ \A i \in 1 .. Len(S!Plan) : S!Plan[i].kind \in DOMAIN s_file
  BY <1>2, <1>3, <1>5
<1>7. s_saver \in [Savers -> SaverRecord]
  BY DEF S!Init, SaverRecord, SaverSteps, SaverOuts
<1>8. s_at = 1 /\ s_step = "open" /\ s_fd = S!Closed /\ s_begun = 0 /\ s_got = <<>> /\ Len(s_got) = 0
  BY DEF S!Init
<1> HIDE DEF names
<1>9. s_at \in 1 .. Len(S!Plan)
  BY <1>1, <1>8, PlanFacts
<1>10. s_got \in Seq(Halves)
  BY <1>8
<1>11. StoreType
  BY <1>1, <1>6, <1>7, <1>8, <1>9, <1>10, FileConstants DEF StoreType, S!Init
<1>12. OpenUnchanged /\ HeldInv /\ GotInv
  BY <1>8 DEF S!Init, OpenUnchanged, HeldInv, GotInv
<1> QED BY <1>11, <1>12 DEF ReadInv

\* A file that is replaced, rewritten, linked, unlinked or touched has a new
\* version, under its name and as an inode.
LEMMA ChangeReads ==
    ASSUME ReadInv, NEW k \in DOMAIN s_file, NEW new \in FileRecord, NEW old \in FileRecord,
           S!Change(k, new, old), UNCHANGED S!callVars,
           s_saver' \in [Savers -> SaverRecord], s_durable' \in {"no", "yes"},
           s_edits' \in Nat, s_faults' \in Nat, s_deaths' \in Nat, s_losses' \in Nat,
           new.ver >= s_file[k].ver, s_file[k].ino # 0 => old.ver > s_file[k].ver
    PROVE  ReadInv'
<1> USE DEF ReadInv
<1>1. UNCHANGED <<s_request, s_at, s_step, s_begun, s_got>> /\ S!Plan' = S!Plan
  BY PlanKept DEF S!callVars
<1>2. s_file' = [s_file EXCEPT ![k] = new] /\ s_file \in [DOMAIN s_file -> FileRecord]
  BY DEF S!Change, StoreType
<1>3. /\ DOMAIN s_file' = DOMAIN s_file /\ s_file' \in [DOMAIN s_file' -> FileRecord]
      /\ s_file'[k] = new /\ \A j \in DOMAIN s_file : j # k => s_file'[j] = s_file[j]
  BY <1>2
<1>4. \/ s_fd' = s_fd
      \/ /\ s_step \in {"first", "rest"} /\ S!Plan[s_at].kind = k /\ s_file[k].ino # 0
         /\ s_fd' = [s_fd EXCEPT !.inode = old]
  BY DEF S!Change
<1>5. s_fd \in [opened : FileRecord, inode : FileRecord]
  BY DEF StoreType
<1>6. s_fd' \in [opened : FileRecord, inode : FileRecord] /\ s_fd'.opened = s_fd.opened
      /\ (s_fd' # s_fd => s_step \in {"first", "rest"} /\ S!Plan[s_at].kind = k /\ s_file[k].ino # 0
                      /\ s_fd'.inode = old)
  BY <1>4, <1>5
<1>7. /\ s_held \subseteq s_held'
      /\ k = s_request.kind => new.halves \in s_held'
  BY DEF S!Change
<1>8. StoreType'
  BY <1>1, <1>3, <1>6 DEF StoreType
<1>9. OpenUnchanged'
  <2> SUFFICES ASSUME s_step \in {"first", "rest"}
               PROVE  /\ s_file'[S!Plan[s_at].kind].ver >= s_fd'.opened.ver
                      /\ s_fd'.inode.ver >= s_fd'.opened.ver
                      /\ s_fd'.inode.ver = s_fd'.opened.ver =>
                             /\ s_fd'.inode = s_fd'.opened
                             /\ s_step = "rest" => s_begun = s_fd'.opened.halves[1]
    BY <1>1 DEF OpenUnchanged
  <2>1. /\ s_file[S!Plan[s_at].kind].ver >= s_fd.opened.ver
        /\ s_fd.inode.ver >= s_fd.opened.ver
        /\ s_fd.inode.ver = s_fd.opened.ver =>
               /\ s_fd.inode = s_fd.opened
               /\ s_step = "rest" => s_begun = s_fd.opened.halves[1]
    BY DEF OpenUnchanged
  <2>2. S!Plan[s_at].kind \in DOMAIN s_file
    BY DEF StoreType
  <2>3. s_fd.opened.ver \in Nat /\ s_fd.inode.ver \in Nat /\ new.ver \in Nat /\ old.ver \in Nat
        /\ \A j \in DOMAIN s_file : s_file[j].ver \in Nat
    BY <1>5, <1>2 DEF FileRecord
  <2>4. s_file'[S!Plan[s_at].kind].ver >= s_fd.opened.ver
    BY <1>3, <2>1, <2>2, <2>3
  <2>5. CASE s_fd' = s_fd
    BY <2>1, <2>4, <2>5
  <2>6. CASE s_fd' # s_fd
    <3>1. s_fd'.inode = old /\ old.ver > s_fd.opened.ver
      BY <1>6, <2>1, <2>3, <2>6
    <3> QED BY <1>6, <2>3, <2>4, <3>1
  <2> QED BY <2>5, <2>6
<1>10. HeldInv'
  <2>1. S!Plan[1].kind = s_request.kind /\ s_request.kind \in DOMAIN s_file
    BY RequestedFile
  <2>2. S!Awaiting => s_file'[s_request.kind].halves \in s_held'
    BY <1>3, <1>7, <2>1 DEF HeldInv
  <2> QED BY <1>1, <1>6, <1>7, <2>2 DEF HeldInv, S!Awaiting
<1>11. GotInv'
  BY <1>1 DEF GotInv
<1> QED BY <1>8, <1>9, <1>10, <1>11

\* Nothing of what the call reads changes.
LEMMA KeptReads ==
    ASSUME ReadInv, UNCHANGED <<S!callVars, s_fd, s_file, s_held>>,
           s_saver' \in [Savers -> SaverRecord], s_durable' \in {"no", "yes"},
           s_edits' \in Nat, s_faults' \in Nat, s_deaths' \in Nat, s_losses' \in Nat
    PROVE  ReadInv'
<1>1. UNCHANGED <<s_request, s_at, s_step, s_begun, s_got, s_fd, s_file, s_held>> /\ S!Plan' = S!Plan
  BY PlanKept DEF S!callVars
<1> QED BY <1>1 DEF ReadInv, StoreType, OpenUnchanged, HeldInv, GotInv, S!Awaiting

LEMMA RefuseReads ==
    ASSUME ReadInv, s_step # "returned", S!Refuse, UNCHANGED <<s_file, s_held, S!saveVars, S!budget>>
    PROVE  ReadInv'
<1> USE DEF ReadInv
<1>1. UNCHANGED <<s_request, s_at, s_begun, s_got, s_file, s_held, s_saver, s_durable, s_edits, s_faults, s_deaths, s_losses>>
      /\ s_step' = "refused" /\ s_fd' = S!Closed /\ S!Plan' = S!Plan
  BY PlanKept DEF S!Refuse, S!saveVars, S!budget
<1>2. StoreType'
  BY <1>1, FileConstants DEF StoreType
<1>3. OpenUnchanged' /\ HeldInv' /\ GotInv'
  BY <1>1 DEF OpenUnchanged, HeldInv, GotInv, S!Awaiting
<1> QED BY <1>2, <1>3

LEMMA OpenFileReads ==
    ASSUME ReadInv, S!OpenFile
    PROVE  ReadInv'
<1> DEFINE f == s_file[S!Plan[s_at].kind]
<1>1. CASE S!Refuse
  BY <1>1, RefuseReads DEF S!OpenFile
<1>2. CASE ~S!Refuse
  <2> USE DEF ReadInv
  <2>1. /\ s_step = "open" /\ s_step' = "first" /\ s_fd' = [opened |-> f, inode |-> f]
        /\ UNCHANGED <<s_request, s_at, s_begun, s_got, s_file, s_held, s_saver, s_durable,
                       s_edits, s_faults, s_deaths, s_losses>> /\ S!Plan' = S!Plan
    BY <1>2, PlanKept DEF S!OpenFile, S!saveVars, S!budget
  <2>2. S!Plan[s_at].kind \in DOMAIN s_file /\ f \in FileRecord
    BY DEF StoreType
  <2>3. s_fd' \in [opened : FileRecord, inode : FileRecord] /\ s_fd'.opened = f /\ s_fd'.inode = f
    BY <2>1, <2>2
  <2>4. f.ver \in Nat
    BY <2>2 DEF FileRecord
  <2> HIDE DEF f
  <2>5. StoreType'
    BY <2>1, <2>3 DEF StoreType
  <2>6. OpenUnchanged'
    <3>1. s_file'[S!Plan'[s_at'].kind] = f
      BY <2>1 DEF f
    <3> QED BY <2>1, <2>3, <2>4, <3>1 DEF OpenUnchanged
  <2>7. HeldInv'
    <3>1. S!Awaiting /\ s_file[s_request.kind].halves \in s_held
      BY <2>1 DEF S!Awaiting, HeldInv
    <3>2. s_at = 1 => f.halves \in s_held
      BY <3>1, RequestedFile DEF f
    <3> QED BY <2>1, <2>3, <3>1, <3>2 DEF HeldInv
  <2>8. GotInv'
    BY <2>1 DEF GotInv
  <2> QED BY <2>5, <2>6, <2>7, <2>8
<1> QED BY <1>1, <1>2

LEMMA ReadFirstReads ==
    ASSUME ReadInv, S!ReadFirst
    PROVE  ReadInv'
<1> USE DEF ReadInv
<1>1. /\ s_step = "first" /\ s_step' = "rest" /\ s_begun' = s_fd.inode.halves[1]
      /\ UNCHANGED <<s_request, s_at, s_got, s_fd, s_file, s_held, s_saver, s_durable,
                     s_edits, s_faults, s_deaths, s_losses>> /\ S!Plan' = S!Plan
  BY PlanKept DEF S!ReadFirst, S!saveVars, S!budget
<1>2. s_fd.inode.halves[1] \in Nat
  BY DEF StoreType, FileRecord, Halves
<1>3. StoreType'
  BY <1>1, <1>2 DEF StoreType
<1>4. OpenUnchanged'
  BY <1>1 DEF OpenUnchanged
<1>5. HeldInv' /\ GotInv'
  BY <1>1 DEF HeldInv, GotInv, S!Awaiting
<1> QED BY <1>3, <1>4, <1>5

\* The content that a read returns is what the file held when it was opened.
LEMMA ReadIsWhole ==
    ASSUME ReadInv, s_step = "rest", S!UnchangedFile(S!Plan[s_at].kind)
    PROVE  <<s_begun, s_fd.inode.halves[2]>> = s_fd.opened.halves /\ s_fd.opened.halves \in Halves
<1>1. s_fd.inode.ver = s_fd.opened.ver
  BY DEF S!UnchangedFile, S!Identity
<1>2. s_fd.inode = s_fd.opened /\ s_begun = s_fd.opened.halves[1]
  BY <1>1 DEF ReadInv, OpenUnchanged
<1>3. s_fd.opened.halves \in Nat \X Nat
  BY DEF ReadInv, StoreType, FileRecord, Halves
<1>4. s_fd.opened.halves = <<s_fd.opened.halves[1], s_fd.opened.halves[2]>>
  BY <1>3
<1> QED BY <1>2, <1>3, <1>4 DEF Halves

LEMMA ReadRestReads ==
    ASSUME ReadInv, S!ReadRest
    PROVE  ReadInv'
<1> USE DEF ReadInv
<1> DEFINE here == S!Plan[s_at]
           halves == <<s_begun, s_fd.inode.halves[2]>>
<1>1. CASE S!Refuse
  BY <1>1, RefuseReads DEF S!ReadRest
<1>2. CASE ~S!Refuse
  <2>1. /\ s_step = "rest" /\ S!UnchangedFile(here.kind)
        /\ \/ S!Bound(here.from, here.kind, halves)
           \/ here.from # 0 /\ <<S!Plan[here.from].kind, here.kind>> \in S!Loose
        /\ s_got' = Append(s_got, halves) /\ s_fd' = S!Closed /\ s_begun' = 0
        /\ \/ s_at = Len(S!Plan) /\ s_step' = "returned" /\ s_at' = s_at
           \/ s_at # Len(S!Plan) /\ s_step' = "open" /\ s_at' = s_at + 1
    BY <1>2 DEF S!ReadRest
  <2>2. /\ UNCHANGED <<s_request, s_file, s_held, s_saver, s_durable, s_edits, s_faults, s_deaths, s_losses>>
        /\ S!Plan' = S!Plan
    BY <1>2, PlanKept DEF S!ReadRest, S!saveVars, S!budget
  <2>3. halves = s_fd.opened.halves /\ halves \in Halves
    BY <2>1, ReadIsWhole
  <2> HIDE DEF halves
  <2>4. /\ s_got \in Seq(Halves) /\ Len(s_got) = s_at - 1 /\ s_at \in 1 .. Len(S!Plan)
        /\ Len(S!Plan) \in Nat
    BY <2>1, PlanFacts DEF StoreType
  <2>5. /\ s_got' \in Seq(Halves) /\ Len(s_got') = s_at /\ s_got'[s_at] = halves
        /\ \A i \in 1 .. s_at - 1 : s_got'[i] = s_got[i]
    BY <2>1, <2>3, <2>4
  <2>6. StoreType'
    <3>1. s_at' \in 1 .. Len(S!Plan) /\ s_step' \in {"open", "returned"}
          /\ (s_step' = "returned" => s_at' = s_at) /\ (s_step' # "returned" => s_at' - 1 = s_at)
      BY <2>1, <2>4
    <3> QED BY <2>1, <2>2, <2>4, <2>5, <3>1, FileConstants DEF StoreType
  <2>7. OpenUnchanged'
    BY <2>1 DEF OpenUnchanged
  <2>8. HeldInv'
    <3>1. s_got'[1] \in s_held
      <4>1. CASE s_at = 1
        BY <2>1, <2>3, <2>5, <4>1 DEF HeldInv
      <4>2. CASE s_at # 1
        BY <2>4, <2>5, <4>2 DEF HeldInv
      <4> QED BY <4>1, <4>2
    <3>2. S!Awaiting /\ s_step' \notin {"first", "rest"}
      BY <2>1 DEF S!Awaiting
    <3> QED BY <2>2, <3>1, <3>2 DEF HeldInv
  <2>9. GotInv'
    <3> SUFFICES ASSUME NEW i \in 2 .. s_at,
                        <<S!Plan[S!Plan[i].from].kind, S!Plan[i].kind>> \notin S!Loose
                 PROVE  s_got'[i] = s_got'[S!Plan[i].from]
      BY <2>2, <2>5 DEF GotInv
    <3>1. /\ S!Plan[i].from \in 1 .. i - 1
          /\ S!Plan[S!Plan[i].from].kind = S!Plan[i].kind => S!Plan[i].from = 1
      <4>1. s_request \in [call : {"load", "page"}, kind : S!Kinds]
        BY DEF StoreType
      <4>2. i \in 2 .. Len(S!Plan)
        BY <2>4
      <4> QED BY <4>1, <4>2, PlanFacts
    <3>2. CASE i # s_at
      <4>1. i \in 2 .. Len(s_got) /\ i \in 1 .. s_at - 1 /\ S!Plan[i].from \in 1 .. s_at - 1
        BY <2>4, <3>1, <3>2
      <4>2. s_got[i] = s_got[S!Plan[i].from]
        BY <4>1 DEF GotInv
      <4> QED BY <2>5, <4>1, <4>2
    <3>3. CASE i = s_at
      <4>1. S!Bound(here.from, here.kind, halves) /\ here.from # 0
        BY <2>1, <3>1, <3>3
      <4>2. halves = s_got[S!Plan[i].from]
        BY <3>1, <3>3, <4>1 DEF S!Bound, S!SamePayload
      <4> QED BY <2>4, <2>5, <3>1, <3>3, <4>2
    <3> QED BY <3>2, <3>3
  <2> QED BY <2>6, <2>7, <2>8, <2>9
<1> QED BY <1>1, <1>2

LEMMA PowerLossReads ==
    ASSUME ReadInv, S!PowerLoss
    PROVE  ReadInv'
<1> USE DEF ReadInv
<1>1. /\ UNCHANGED <<s_request, s_at, s_begun, s_got, s_held, s_edits, s_deaths>> /\ S!Plan' = S!Plan
      /\ s_fd' = S!Closed /\ s_durable' = "yes"
      /\ s_step' = (IF s_step = "returned" THEN s_step ELSE "refused")
      /\ s_faults' = s_faults + 1 /\ s_losses' = s_losses + 1
  BY PlanKept DEF S!PowerLoss
<1>2. S!SavedKind \in DOMAIN s_file
  BY RequestedFile DEF S!PowerLoss, S!Saving
<1>3. PICK new \in FileRecord : s_file' = [s_file EXCEPT ![S!SavedKind] = new]
  <2> DEFINE f == s_file[S!SavedKind]
  <2>1. f \in FileRecord
    BY <1>2 DEF StoreType
  <2>2. \A m \in Nat : [f EXCEPT !.links = m] \in FileRecord
    BY <2>1 DEF FileRecord
  <2>3. f.links \in Int
    BY <2>1 DEF FileRecord
  <2>4. PICK new \in {f, S!Absent} \cup {[f EXCEPT !.links = m] : m \in 1 .. f.links} :
           s_file' = [s_file EXCEPT ![S!SavedKind] = new]
    BY DEF S!PowerLoss
  <2>5. new \in FileRecord
    <3>1. ASSUME NEW m \in 1 .. f.links PROVE [f EXCEPT !.links = m] \in FileRecord
      BY <2>2, <2>3
    <3> QED BY <2>1, <2>4, <3>1, FileConstants
  <2> QED BY <2>4, <2>5
<1>4. s_file \in [DOMAIN s_file -> FileRecord] /\ DOMAIN s_file' = DOMAIN s_file
      /\ s_file' \in [DOMAIN s_file' -> FileRecord]
  BY <1>3 DEF StoreType
<1>5. s_saver' \in [Savers -> SaverRecord]
  <2>1. \A s \in Savers : s_saver[s] \in SaverRecord /\ [s_saver[s] EXCEPT !.step = "idle", !.out = "died"] \in SaverRecord
    BY DEF StoreType, SaverRecord, SaverSteps, SaverOuts
  <2> QED BY <2>1 DEF S!PowerLoss
<1>6. StoreType'
  BY <1>1, <1>4, <1>5, FileConstants DEF StoreType
<1>7. OpenUnchanged' /\ HeldInv' /\ GotInv'
  BY <1>1 DEF OpenUnchanged, HeldInv, GotInv, S!Awaiting
<1> QED BY <1>6, <1>7

\* The record of a saver at another step, and with another outcome.
LEMMA SaverMoves ==
    ASSUME StoreType, NEW s \in Savers
    PROVE  /\ \A to \in SaverSteps : S!Goes(s, to) =>
                  /\ s_saver' \in [Savers -> SaverRecord]
                  /\ s_saver'[s].step = to /\ s_saver'[s].out = s_saver[s].out
                  /\ s_saver'[s].gen = s_saver[s].gen
                  /\ \A u \in Savers \ {s} : s_saver'[u] = s_saver[u]
           /\ \A out \in SaverOuts : S!Ends(s, out) =>
                  /\ s_saver' \in [Savers -> SaverRecord]
                  /\ s_saver'[s].step = "idle" /\ s_saver'[s].out = out
                  /\ s_saver'[s].gen = s_saver[s].gen
                  /\ \A u \in Savers \ {s} : s_saver'[u] = s_saver[u]
<1>1. s_saver \in [Savers -> SaverRecord]
  BY DEF StoreType
<1>2. ASSUME NEW to \in SaverSteps, S!Goes(s, to)
      PROVE  /\ s_saver' \in [Savers -> SaverRecord]
             /\ s_saver'[s].step = to /\ s_saver'[s].out = s_saver[s].out
             /\ s_saver'[s].gen = s_saver[s].gen
             /\ \A u \in Savers \ {s} : s_saver'[u] = s_saver[u]
  <2>1. s_saver' = [s_saver EXCEPT ![s] = [s_saver[s] EXCEPT !.step = to]]
    BY <1>2 DEF S!Goes
  <2> QED BY <1>1, <2>1 DEF SaverRecord
<1>3. ASSUME NEW out \in SaverOuts, S!Ends(s, out)
      PROVE  /\ s_saver' \in [Savers -> SaverRecord]
             /\ s_saver'[s].step = "idle" /\ s_saver'[s].out = out
             /\ s_saver'[s].gen = s_saver[s].gen
             /\ \A u \in Savers \ {s} : s_saver'[u] = s_saver[u]
  <2>1. s_saver' = [s_saver EXCEPT ![s] = [s_saver[s] EXCEPT !.step = "idle", !.out = out]]
    BY <1>1, <1>3 DEF S!Ends, SaverRecord
  <2>2. "idle" \in SaverSteps
    BY DEF SaverSteps
  <2> QED BY <1>1, <2>1, <2>2 DEF SaverRecord
<1> QED BY <1>2, <1>3

LEMMA StoreConstants ==
    /\ "idle" \in SaverSteps /\ "link" \in SaverSteps /\ "unlink" \in SaverSteps
    /\ "sync" \in SaverSteps /\ "final" \in SaverSteps /\ "compare" \in SaverSteps
    /\ "none" \in SaverOuts /\ "published" \in SaverOuts /\ "reused" \in SaverOuts
    /\ "raised" \in SaverOuts /\ "died" \in SaverOuts
    /\ MaxEdits \in Nat /\ StoreFaults \in Nat
BY StoreAssumption DEF SaverSteps, SaverOuts, S!Busy, S!StoreBounds

\* A save that does not touch the file of the artifact.
LEMMA QuietSaves ==
    ASSUME ReadInv, NEW s \in Savers,
           S!SaveBegin(s) \/ S!SyncDirectory(s) \/ S!SaveReturns(s) \/ S!CompareExisting(s) \/ S!Die(s)
    PROVE  ReadInv'
<1>1. StoreType
  BY DEF ReadInv
<1>2. UNCHANGED <<S!callVars, s_fd, s_file, s_held>>
  BY DEF S!SaveBegin, S!SyncDirectory, S!SaveReturns, S!CompareExisting, S!Die
<1>3. (\E to \in SaverSteps : S!Goes(s, to)) \/ (\E out \in SaverOuts : S!Ends(s, out))
  BY StoreConstants DEF S!SaveBegin, S!SyncDirectory, S!SaveReturns, S!CompareExisting, S!Die
<1>4. s_saver' \in [Savers -> SaverRecord]
  BY <1>1, <1>3, SaverMoves
<1>5. s_durable' \in {"no", "yes"}
  BY <1>1 DEF S!SaveBegin, S!SyncDirectory, S!SaveReturns, S!CompareExisting, S!Die, StoreType
<1>6. s_edits' \in Nat /\ s_faults' \in Nat /\ s_deaths' \in Nat /\ s_losses' \in Nat
  BY <1>1 DEF S!SaveBegin, S!SyncDirectory, S!SaveReturns, S!CompareExisting, S!Die, StoreType, S!Fails, S!budget
<1> QED BY <1>2, <1>4, <1>5, <1>6, KeptReads

LEMMA SavedFile ==
    ASSUME StoreType, S!Saving
    PROVE  S!SavedKind \in DOMAIN s_file /\ s_file[S!SavedKind] \in FileRecord
BY RequestedFile DEF S!Saving, StoreType

\* Some fields of a file change, its version among them.
Relinked(f, l, v) == [f EXCEPT !.links = l, !.ver = v]
Rewritten(f, h, v) == [f EXCEPT !.halves = h, !.ver = v]
Shared(f, v) == [f EXCEPT !.mode = "shared", !.ver = v]
Replaced(f, h, v) == [f EXCEPT !.ino = 2, !.ver = v, !.halves = h]

LEMMA RelinkedFile ==
    ASSUME NEW f \in FileRecord, NEW v \in Nat, NEW l \in Int
    PROVE  /\ Relinked(f, l, v) \in FileRecord
           /\ Relinked(f, l, v).ver = v /\ Relinked(f, l, v).links = l
           /\ Relinked(f, l, v).halves = f.halves /\ Relinked(f, l, v).ino = f.ino
BY DEF FileRecord, Relinked

LEMMA EditedFile ==
    ASSUME NEW f \in FileRecord, NEW v \in Nat, NEW h \in Halves
    PROVE  /\ Rewritten(f, h, v) \in FileRecord /\ Rewritten(f, h, v).ver = v
           /\ Shared(f, v) \in FileRecord /\ Shared(f, v).ver = v
           /\ Replaced(f, h, v) \in FileRecord /\ Replaced(f, h, v).ver = v
<1>1. Rewritten(f, h, v) \in FileRecord /\ Rewritten(f, h, v).ver = v
  BY DEF FileRecord, Rewritten
<1>2. Shared(f, v) \in FileRecord /\ Shared(f, v).ver = v
  BY DEF FileRecord, Shared
<1>3. Replaced(f, h, v) \in FileRecord /\ Replaced(f, h, v).ver = v
  BY DEF FileRecord, Replaced
<1> QED BY <1>1, <1>2, <1>3

LEMMA NewVersion ==
    ASSUME NEW f \in FileRecord, NEW v \in Nat, NEW new, new = [f EXCEPT !.ver = v]
    PROVE  new \in FileRecord /\ new.ver = v
BY DEF FileRecord

LEMMA UnlinkedFile ==
    ASSUME NEW f \in FileRecord
    PROVE  /\ S!Unlinked(f) \in FileRecord /\ S!CleanedUp(f) = S!Unlinked(f)
           /\ S!Unlinked(f).halves = f.halves /\ S!Unlinked(f).ino = f.ino
           /\ S!Unlinked(f).ver >= f.ver
           /\ f.ino # 0 => S!Unlinked(f).ver > f.ver /\ S!Unlinked(f).links = f.links - 1
           /\ f.ino = 0 => S!Unlinked(f) = f
<1>1. f.ino \in Nat /\ f.ver \in Nat /\ f.links \in Int
  BY DEF FileRecord
<1>2. CASE f.ino = 0
  BY <1>1, <1>2 DEF S!Unlinked, S!CleanedUp
<1>3. CASE f.ino # 0
  <2> DEFINE v == f.ver + 1
             l == f.links - 1
  <2>1. S!Unlinked(f) = Relinked(f, l, v)
    BY <1>3 DEF S!Unlinked, Relinked
  <2>2. S!Unlinked(f) \in FileRecord /\ S!Unlinked(f).halves = f.halves /\ S!Unlinked(f).ino = f.ino
        /\ S!Unlinked(f).ver = v /\ S!Unlinked(f).links = l
    <3>1. v \in Nat /\ l \in Int
      BY <1>1
    <3> HIDE DEF v, l
    <3> QED BY <2>1, <3>1, RelinkedFile
  <2> QED BY <1>1, <1>3, <2>2 DEF S!CleanedUp
<1> QED BY <1>2, <1>3

LEMMA LinkedFile ==
    ASSUME NEW f \in FileRecord, NEW g \in {1, 2}
    PROVE  LET new == [S!Written(g) EXCEPT !.links = 2, !.ver = f.ver + 1] IN
           /\ new \in FileRecord /\ new.ver > f.ver
           /\ new.halves = <<g, g>> /\ new.links = 2 /\ new.ino = 1
<1> DEFINE v == f.ver + 1
           w == S!Written(g)
           l == 2
           new == Relinked(w, l, v)
<1>1. f.ver \in Nat /\ v \in Nat /\ v > f.ver /\ l \in Int
  BY DEF FileRecord
<1>2. w \in FileRecord /\ w.halves = <<g, g>> /\ w.ino = 1
  BY FileConstants
<1>3. new \in FileRecord /\ new.ver = v /\ new.halves = w.halves /\ new.links = l /\ new.ino = w.ino
  <2>1. \A a \in FileRecord, b \in Nat, c \in Int :
           LET x == Relinked(a, c, b) IN
           x \in FileRecord /\ x.ver = b /\ x.halves = a.halves /\ x.links = c /\ x.ino = a.ino
    BY RelinkedFile
  <2> HIDE DEF v, w, l
  <2> QED BY <1>1, <1>2, <2>1
<1>4. [S!Written(g) EXCEPT !.links = 2, !.ver = f.ver + 1] = new
  BY DEF Relinked
<1> HIDE DEF v, w, new
<1> QED BY <1>1, <1>2, <1>3, <1>4

LEMMA LinkTempReads ==
    ASSUME ReadInv, NEW s \in Savers, S!LinkTemp(s)
    PROVE  ReadInv'
<1> DEFINE f == s_file[S!SavedKind]
           new == [S!Written(s_saver[s].gen) EXCEPT !.links = 2, !.ver = f.ver + 1]
<1>1. StoreType /\ UNCHANGED <<S!callVars, s_root>> /\ S!Saving
  BY DEF ReadInv, S!LinkTemp
<1>2. S!SavedKind \in DOMAIN s_file /\ f \in FileRecord
  BY <1>1, SavedFile
<1>3. s_saver[s].gen \in {1, 2}
  BY <1>1 DEF StoreType, SaverRecord
<1>4. new \in FileRecord /\ new.ver > f.ver
  BY <1>2, <1>3, LinkedFile
<1>5. (\E to \in SaverSteps : S!Goes(s, to)) \/ (\E out \in SaverOuts : S!Ends(s, out))
  BY StoreConstants DEF S!LinkTemp
<1>6. s_saver' \in [Savers -> SaverRecord]
  BY <1>1, <1>5, SaverMoves
<1>7. s_durable' \in {"no", "yes"} /\ s_edits' \in Nat /\ s_faults' \in Nat /\ s_deaths' \in Nat /\ s_losses' \in Nat
  BY <1>1 DEF S!LinkTemp, StoreType, S!Fails, S!budget
<1>8. (S!FreeName(f) /\ S!Change(S!SavedKind, new, f)) \/ UNCHANGED <<s_fd, s_file, s_held>>
  BY DEF S!LinkTemp
<1>9. f.ver \in Nat /\ new.ver \in Nat
  BY <1>2, <1>4 DEF FileRecord
<1> HIDE DEF new
<1>10. CASE S!FreeName(f) /\ S!Change(S!SavedKind, new, f)
  <2>1. f.ino = 0 /\ S!Change(S!SavedKind, new, f)
    BY <1>10 DEF S!FreeName
  <2> QED BY <1>1, <1>2, <1>4, <1>6, <1>7, <1>9, <2>1, ChangeReads
<1>11. CASE UNCHANGED <<s_fd, s_file, s_held>>
  BY <1>1, <1>6, <1>7, <1>11, KeptReads
<1> QED BY <1>8, <1>10, <1>11

LEMMA UnlinkTempReads ==
    ASSUME ReadInv, NEW s \in Savers, S!UnlinkTemp(s)
    PROVE  ReadInv'
<1> DEFINE f == s_file[S!SavedKind]
           new == S!Unlinked(f)
<1>1. StoreType /\ UNCHANGED <<S!callVars, s_root>> /\ S!Saving
  BY DEF ReadInv, S!UnlinkTemp
<1>2. S!SavedKind \in DOMAIN s_file /\ f \in FileRecord
  BY <1>1, SavedFile
<1>3. new \in FileRecord /\ S!CleanedUp(f) = new /\ new.ver >= f.ver /\ (f.ino # 0 => new.ver > f.ver)
  BY <1>2, UnlinkedFile
<1>4. (\E to \in SaverSteps : S!Goes(s, to)) \/ (\E out \in SaverOuts : S!Ends(s, out))
  BY StoreConstants DEF S!UnlinkTemp
<1>5. s_saver' \in [Savers -> SaverRecord]
  BY <1>1, <1>4, SaverMoves
<1>6. s_durable' \in {"no", "yes"} /\ s_edits' \in Nat /\ s_faults' \in Nat /\ s_deaths' \in Nat /\ s_losses' \in Nat
  BY <1>1 DEF S!UnlinkTemp, StoreType, S!Fails, S!budget
<1>7. S!Change(S!SavedKind, new, new) \/ UNCHANGED <<s_fd, s_file, s_held>>
  BY <1>3 DEF S!UnlinkTemp
<1> HIDE DEF new
<1>8. CASE S!Change(S!SavedKind, new, new)
  BY <1>1, <1>2, <1>3, <1>5, <1>6, <1>8, ChangeReads
<1>9. CASE UNCHANGED <<s_fd, s_file, s_held>>
  BY <1>1, <1>5, <1>6, <1>9, KeptReads
<1> QED BY <1>7, <1>8, <1>9

LEMMA EditReads ==
    ASSUME ReadInv, NEW k \in DOMAIN s_file, S!ReplaceFile(k) \/ S!RewriteFile(k) \/ S!TouchFile(k)
    PROVE  ReadInv'
<1> DEFINE f == s_file[k]
           v == f.ver + 1
           l == f.links + 1
<1>1. StoreType /\ UNCHANGED <<S!callVars, s_root, S!saveVars>> /\ S!Edited
  BY DEF ReadInv, S!ReplaceFile, S!RewriteFile, S!TouchFile
<1>2. f \in FileRecord
  BY <1>1 DEF StoreType
<1>8. 0 \in Int /\ f.ver \in Nat /\ f.links \in Int /\ v \in Nat /\ l \in Int /\ v > f.ver
  BY <1>2 DEF FileRecord
<1>3. /\ s_saver' \in [Savers -> SaverRecord] /\ s_durable' \in {"no", "yes"}
      /\ s_edits' \in Nat /\ s_faults' \in Nat /\ s_deaths' \in Nat /\ s_losses' \in Nat
  BY <1>1 DEF StoreType, S!saveVars, S!Edited
<1>4. \A g, h \in {1, 2} : <<g, h>> \in Halves
  BY DEF Halves
<1>5. \E new, old \in FileRecord :
         S!Change(k, new, old) /\ new.ver = v /\ old.ver = v
  <2>1. CASE S!ReplaceFile(k)
    <3>1. PICK halves \in {<<2, 2>>, <<1, 2>>} :
             S!Change(k, Replaced(S!Written(1), halves, v), Relinked(f, 0, v))
      BY <2>1 DEF S!ReplaceFile, Replaced, Relinked
    <3> DEFINE new == Replaced(S!Written(1), halves, v)
               old == Relinked(f, 0, v)
    <3>2. halves \in Halves /\ S!Written(1) \in FileRecord
      BY <1>4, FileConstants
    <3>3. new \in FileRecord /\ new.ver = v
      BY <1>8, <3>2, EditedFile
    <3>4. old \in FileRecord /\ old.ver = v
      BY <1>2, <1>8, RelinkedFile
    <3>5. S!Change(k, new, old)
      BY <3>1
    <3> HIDE DEF new, old
    <3> QED BY <3>3, <3>4, <3>5
  <2>2. CASE S!RewriteFile(k)
    <3>1. PICK halves \in {<<2, 2>>, <<2, 1>>} :
             S!Change(k, Rewritten(f, halves, v), Rewritten(f, halves, v))
      BY <2>2 DEF S!RewriteFile, Rewritten
    <3> DEFINE new == Rewritten(f, halves, v)
    <3>2. halves \in Halves
      BY <1>4
    <3>3. new \in FileRecord /\ new.ver = v
      BY <1>2, <1>8, <3>2, EditedFile
    <3>4. S!Change(k, new, new)
      BY <3>1
    <3> HIDE DEF new
    <3> QED BY <3>3, <3>4
  <2>3. CASE S!TouchFile(k)
    <3> DEFINE linked == Relinked(f, l, v)
               shared == Shared(f, v)
               gone == [S!Absent EXCEPT !.ver = v]
               old == Relinked(f, 0, v)
    <3>1. S!Change(k, linked, linked) \/ S!Change(k, shared, shared) \/ S!Change(k, gone, old)
      BY <2>3 DEF S!TouchFile, Relinked, Shared
    <3>2. linked \in FileRecord /\ linked.ver = v
      BY <1>2, <1>8, RelinkedFile
    <3>3. shared \in FileRecord /\ shared.ver = v
      BY <1>2, <1>4, <1>8, EditedFile
    <3>4. old \in FileRecord /\ old.ver = v
      BY <1>2, <1>8, RelinkedFile
    <3>5. gone \in FileRecord /\ gone.ver = v
      BY <1>8, NewVersion, FileConstants
    <3> HIDE DEF linked, shared, gone, old
    <3> QED BY <3>1, <3>2, <3>3, <3>4, <3>5
  <2> QED BY <2>1, <2>2, <2>3
<1>6. PICK new \in FileRecord, old \in FileRecord :
         S!Change(k, new, old) /\ new.ver = v /\ old.ver = v
  BY <1>5
<1>7. new.ver >= f.ver /\ old.ver > f.ver
  BY <1>8, <1>6
<1> QED BY <1>1, <1>3, <1>6, <1>7, ChangeReads

LEMMA NextReads == ReadInv /\ [S!Next]_(S!vars) => ReadInv'
<1> SUFFICES ASSUME ReadInv, [S!Next]_(S!vars) PROVE ReadInv'
  OBVIOUS
<1>1. CASE S!OpenFile \/ S!ReadFirst \/ S!ReadRest
  BY <1>1, OpenFileReads, ReadFirstReads, ReadRestReads
<1>2. ASSUME NEW s \in Savers,
             \/ S!SaveBegin(s) \/ S!LinkTemp(s) \/ S!UnlinkTemp(s) \/ S!SyncDirectory(s)
             \/ S!SaveReturns(s) \/ S!CompareExisting(s) \/ S!Die(s)
      PROVE  ReadInv'
  BY <1>2, QuietSaves, LinkTempReads, UnlinkTempReads
<1>3. CASE S!PowerLoss
  BY <1>3, PowerLossReads
<1>4. ASSUME NEW k \in DOMAIN s_file, S!ReplaceFile(k) \/ S!RewriteFile(k) \/ S!TouchFile(k)
      PROVE  ReadInv'
  BY <1>4, EditReads
<1>5. CASE S!ExchangeRoot \/ UNCHANGED S!vars
  <2>1. UNCHANGED <<S!callVars, s_fd, s_file, s_held, S!saveVars>>
        /\ s_edits' \in Nat /\ s_faults' \in Nat /\ s_deaths' \in Nat /\ s_losses' \in Nat
    BY <1>5 DEF S!ExchangeRoot, S!vars, ReadInv, StoreType, S!Edited, S!budget
  <2>2. s_saver' \in [Savers -> SaverRecord] /\ s_durable' \in {"no", "yes"}
    BY <2>1 DEF S!saveVars, ReadInv, StoreType
  <2> QED BY <2>1, <2>2, KeptReads
<1> QED BY <1>1, <1>2, <1>3, <1>4, <1>5 DEF S!Next

LEMMA ReadsAreVerified == ReadInv => S!ReadsVerified
<1> SUFFICES ASSUME ReadInv PROVE S!WholeSnapshot /\ S!PageVerified
  BY DEF S!ReadsVerified
<1>1. s_step = "returned" => Len(s_got) >= 1
  <2>1. Len(S!Plan) \in Nat
    BY PlanFacts DEF ReadInv, StoreType
  <2> QED BY <2>1 DEF ReadInv, StoreType
<1>2. S!WholeSnapshot
  BY <1>1 DEF ReadInv, HeldInv, S!WholeSnapshot
<1>3. S!PageVerified
  BY DEF ReadInv, GotInv, S!PageVerified
<1> QED BY <1>2, <1>3

\* What the file holds for a saver: once it is linked the content is that of the
\* saver, and once the directory was synced the name stays.  A saver that found
\* the name taken knows that it is on disk unless an I/O error was ignored.
Clean == s_faults = s_losses + s_deaths

SaverSound(s) ==
    LET f == s_file[S!SavedKind]
        mine == f.ino # 0 /\ f.halves = <<s_saver[s].gen, s_saver[s].gen>>
    IN  /\ s_saver[s].step \in {"unlink", "sync"} => mine
        /\ s_saver[s].step = "final" \/ s_saver[s].out = "published" => mine /\ s_durable = "yes"
        /\ s_saver[s].step = "compare" /\ Clean => f.ino # 0 /\ s_durable = "yes"
        /\ s_saver[s].out = "reused" /\ Clean => mine /\ s_durable = "yes"

SavedInv ==
    /\ s_faults >= s_losses + s_deaths
    /\ S!Saving /\ s_edits = 0 => \A s \in Savers : SaverSound(s)

\* The name has a second link only while one saver is about to remove it.
Blameless == S!Saving /\ s_edits = 0 /\ s_deaths = 0 /\ s_losses = 0 /\ s_faults <= 1

LinkInv ==
    Blameless =>
        /\ s_file[S!SavedKind].links <= 1 \/ \E s \in Savers : s_saver[s].step = "unlink"
        /\ \A s \in Savers : s_saver[s].step = "unlink" =>
               /\ s_file[S!SavedKind].ino # 0 /\ s_file[S!SavedKind].links = 2
               /\ \A u \in Savers : s_saver[u].step = "unlink" => u = s

KeepInv == SavedInv /\ LinkInv

LEMMA InitKept == S!Init => KeepInv
<1> SUFFICES ASSUME S!Init PROVE KeepInv
  OBVIOUS
<1>1. ReadInv /\ StoreType
  BY InitStore DEF ReadInv
<1>2. \A s \in Savers : s_saver[s].step = "idle" /\ s_saver[s].out = "none"
  BY DEF S!Init
<1>3. SavedInv
  BY <1>2 DEF SavedInv, SaverSound, S!Init
<1>4. S!Saving => s_file[S!SavedKind].links <= 1
  <2> SUFFICES ASSUME S!Saving PROVE s_file[S!SavedKind].links <= 1
    OBVIOUS
  <2>1. S!SavedKind \in DOMAIN s_file
    BY <1>1, SavedFile
  <2>2. PICK f \in {S!Written(1), S!Absent} : s_file = [k \in {S!Plan[i].kind : i \in DOMAIN S!Plan} |-> f]
    BY DEF S!Init
  <2>3. s_file[S!SavedKind] = f
    BY <2>1, <2>2
  <2> QED BY <2>2, <2>3, FileConstants
<1>5. LinkInv
  BY <1>2, <1>4 DEF LinkInv, Blameless
<1> QED BY <1>3, <1>5 DEF KeepInv

\* What stays sound for a saver that takes no part in a step.
LEMMA OtherSaver ==
    ASSUME NEW u \in Savers, SaverSound(u), s_saver'[u] = s_saver[u],
           s_file'[S!SavedKind].ino = s_file[S!SavedKind].ino,
           s_file'[S!SavedKind].halves = s_file[S!SavedKind].halves,
           s_durable = "yes" => s_durable' = "yes", Clean' => Clean
    PROVE  SaverSound(u)'
<1> DEFINE mine == s_file[S!SavedKind].ino # 0 /\ s_file[S!SavedKind].halves = <<s_saver[u].gen, s_saver[u].gen>>
<1>1. /\ s_saver[u].step \in {"unlink", "sync"} => mine
      /\ s_saver[u].step = "final" \/ s_saver[u].out = "published" => mine /\ s_durable = "yes"
      /\ s_saver[u].step = "compare" /\ Clean => s_file[S!SavedKind].ino # 0 /\ s_durable = "yes"
      /\ s_saver[u].out = "reused" /\ Clean => mine /\ s_durable = "yes"
  BY DEF SaverSound
<1>2. /\ s_saver'[u].step \in {"unlink", "sync"} => mine
      /\ s_saver'[u].step = "final" \/ s_saver'[u].out = "published" => mine /\ s_durable' = "yes"
      /\ s_saver'[u].step = "compare" /\ Clean' => s_file'[S!SavedKind].ino # 0 /\ s_durable' = "yes"
      /\ s_saver'[u].out = "reused" /\ Clean' => mine /\ s_durable' = "yes"
  BY <1>1
<1>3. mine = (s_file'[S!SavedKind].ino # 0 /\ s_file'[S!SavedKind].halves = <<s_saver'[u].gen, s_saver'[u].gen>>)
  OBVIOUS
<1> HIDE DEF mine
<1> QED BY <1>2, <1>3 DEF SaverSound

\* The step of one saver: it is enough to look at that one.
LEMMA SaverStep ==
    ASSUME StoreType, KeepInv, S!Saving', s_edits' = 0, s_edits = 0, S!Saving, NEW s \in Savers,
           \A u \in Savers \ {s} : s_saver'[u] = s_saver[u],
           s_file'[S!SavedKind].ino = s_file[S!SavedKind].ino,
           s_file'[S!SavedKind].halves = s_file[S!SavedKind].halves,
           s_durable = "yes" => s_durable' = "yes", Clean' => Clean, SaverSound(s)'
    PROVE  \A u \in Savers : SaverSound(u)'
<1> SUFFICES ASSUME NEW u \in Savers PROVE SaverSound(u)'
  OBVIOUS
<1>1. SaverSound(u)
  BY DEF KeepInv, SavedInv
<1>2. CASE u = s
  BY <1>2
<1>3. CASE u # s
  BY <1>1, <1>3, OtherSaver
<1> QED BY <1>2, <1>3

LEMMA QuietSavesKept ==
    ASSUME StoreType, KeepInv, NEW s \in Savers,
           S!SaveBegin(s) \/ S!SyncDirectory(s) \/ S!SaveReturns(s) \/ S!CompareExisting(s) \/ S!Die(s)
    PROVE  KeepInv'
<1>1. /\ UNCHANGED <<s_file, s_request, s_edits, s_losses>>
      /\ s_edits \in Nat /\ s_faults \in Nat /\ s_deaths \in Nat /\ s_losses \in Nat
      /\ \/ UNCHANGED <<s_faults, s_deaths>>
         \/ s_faults' = s_faults + 1 /\ s_deaths' = s_deaths
         \/ s_faults' = s_faults + 1 /\ s_deaths' = s_deaths + 1
  BY DEF S!SaveBegin, S!SyncDirectory, S!SaveReturns, S!CompareExisting, S!Die, StoreType, S!Fails, S!budget, S!callVars
<1>2. s_faults >= s_losses + s_deaths /\ s_faults' >= s_losses' + s_deaths' /\ (Clean' => Clean)
      /\ (Blameless' => Blameless)
  BY <1>1 DEF KeepInv, SavedInv, Clean, Blameless, S!Saving
<1>3. s_durable = "yes" => s_durable' = "yes"
  BY DEF S!SaveBegin, S!SyncDirectory, S!SaveReturns, S!CompareExisting, S!Die
<1>4. /\ \A u \in Savers \ {s} : s_saver'[u] = s_saver[u]
      /\ s_saver'[s].gen = s_saver[s].gen
      /\ \/ /\ s_saver'[s].out = s_saver[s].out
            /\ \/ S!SaveBegin(s) /\ s_saver'[s].step = "link" /\ s_saver[s].out \in {"none", "raised"}
               \/ S!SyncDirectory(s) /\ s_saver'[s].step = "final" /\ s_saver[s].step = "sync" /\ s_durable' = "yes"
         \/ s_saver'[s].step = "idle" /\ s_saver'[s].out \in {"raised", "died"}
         \/ /\ S!SaveReturns(s) /\ s_saver[s].step = "final"
            /\ s_saver'[s].step = "idle" /\ s_saver'[s].out = "published"
         \/ /\ S!CompareExisting(s) /\ s_saver'[s].step = "idle" /\ s_saver'[s].out = "reused"
  <2>1. CASE S!SaveBegin(s)
    BY <2>1, SaverMoves, StoreConstants DEF S!SaveBegin
  <2>2. CASE S!SyncDirectory(s)
    BY <2>2, SaverMoves, StoreConstants DEF S!SyncDirectory
  <2>3. CASE S!SaveReturns(s)
    BY <2>3, SaverMoves, StoreConstants DEF S!SaveReturns
  <2>4. CASE S!CompareExisting(s)
    BY <2>4, SaverMoves, StoreConstants DEF S!CompareExisting
  <2>5. CASE S!Die(s)
    BY <2>5, SaverMoves, StoreConstants DEF S!Die
  <2> QED BY <2>1, <2>2, <2>3, <2>4, <2>5
<1>5. S!Saving' /\ s_edits' = 0 => \A u \in Savers : SaverSound(u)'
  <2> SUFFICES ASSUME S!Saving', s_edits' = 0 PROVE \A u \in Savers : SaverSound(u)'
    OBVIOUS
  <2>1. S!Saving /\ s_edits = 0 /\ SaverSound(s)
    BY <1>1 DEF S!Saving, KeepInv, SavedInv
  <2> DEFINE mine == s_file[S!SavedKind].ino # 0 /\ s_file[S!SavedKind].halves = <<s_saver[s].gen, s_saver[s].gen>>
  <2>2. /\ s_saver[s].step \in {"unlink", "sync"} => mine
        /\ s_saver[s].step = "final" \/ s_saver[s].out = "published" => mine /\ s_durable = "yes"
        /\ s_saver[s].step = "compare" /\ Clean => s_file[S!SavedKind].ino # 0 /\ s_durable = "yes"
        /\ s_saver[s].out = "reused" /\ Clean => mine /\ s_durable = "yes"
    BY <2>1 DEF SaverSound
  <2>3. /\ s_saver'[s].step \in {"unlink", "sync"} => mine
        /\ s_saver'[s].step = "final" \/ s_saver'[s].out = "published" => mine /\ s_durable' = "yes"
        /\ s_saver'[s].step = "compare" /\ Clean' => s_file[S!SavedKind].ino # 0 /\ s_durable' = "yes"
        /\ s_saver'[s].out = "reused" /\ Clean' => mine /\ s_durable' = "yes"
    <3>1. S!CompareExisting(s) /\ s_saver'[s].out = "reused" /\ Clean' => mine /\ s_durable' = "yes"
      <4> SUFFICES ASSUME S!CompareExisting(s), s_saver'[s].out = "reused", Clean'
                   PROVE  mine /\ s_durable' = "yes"
        OBVIOUS
      <4>1. s_saver[s].step = "compare" /\ Clean
        BY <1>2 DEF S!CompareExisting
      <4>2. s_file[S!SavedKind].halves = <<s_saver[s].gen, s_saver[s].gen>>
        <5>1. S!Ends(s, "raised") => s_saver'[s].out = "raised"
          BY SaverMoves, StoreConstants
        <5> QED BY <5>1 DEF S!CompareExisting
      <4> QED BY <1>3, <2>2, <4>1, <4>2
    <3> HIDE DEF mine
    <3> QED BY <1>2, <1>3, <1>4, <2>2, <3>1
  <2>4. mine = (s_file'[S!SavedKind].ino # 0 /\ s_file'[S!SavedKind].halves = <<s_saver'[s].gen, s_saver'[s].gen>>)
    BY <1>1, <1>4
  <2> HIDE DEF mine
  <2>5. SaverSound(s)'
    BY <1>1, <2>3, <2>4 DEF SaverSound
  <2> QED BY <1>1, <1>2, <1>3, <1>4, <2>1, <2>5, SaverStep
<1>6. LinkInv'
  <2>1. \A u \in Savers : s_saver'[u].step = "unlink" => s_saver[u].step = "unlink"
    BY <1>4
  <2>2. ~Blameless' \/ \A u \in Savers : s_saver[u].step = "unlink" => s_saver'[u].step = "unlink"
    <3>1. s_saver[s].step # "unlink" \/ (S!Die(s) /\ s_deaths' = s_deaths + 1)
      BY DEF S!SaveBegin, S!SyncDirectory, S!SaveReturns, S!CompareExisting, S!Die
    <3>2. s_deaths' = s_deaths + 1 => ~Blameless'
      BY <1>1 DEF Blameless
    <3> QED BY <1>4, <3>1, <3>2
  <2> QED BY <1>1, <1>2, <2>1, <2>2 DEF KeepInv, LinkInv
<1> QED BY <1>2, <1>5, <1>6 DEF KeepInv, SavedInv

LEMMA LinkTempKept ==
    ASSUME StoreType, KeepInv, NEW s \in Savers, S!LinkTemp(s)
    PROVE  KeepInv'
<1> DEFINE f == s_file[S!SavedKind]
           new == [S!Written(s_saver[s].gen) EXCEPT !.links = 2, !.ver = f.ver + 1]
<1>1. /\ S!Saving /\ s_saver[s].step = "link" /\ UNCHANGED <<s_request, s_edits, s_losses, s_deaths>>
      /\ s_edits \in Nat /\ s_faults \in Nat /\ s_deaths \in Nat /\ s_losses \in Nat
      /\ s_faults' = s_faults \/ s_faults' = s_faults + 1
  BY DEF S!LinkTemp, StoreType, S!Fails, S!budget, S!callVars
<1>2. s_faults >= s_losses + s_deaths /\ s_faults' >= s_losses' + s_deaths' /\ (Clean' => Clean)
      /\ (Blameless' => Blameless) /\ S!Saving'
  BY <1>1 DEF KeepInv, SavedInv, Clean, Blameless, S!Saving
<1>3. S!SavedKind \in DOMAIN s_file /\ f \in FileRecord /\ s_saver[s].gen \in {1, 2}
  BY <1>1, SavedFile DEF StoreType, SaverRecord
<1>4. new \in FileRecord /\ new.halves = <<s_saver[s].gen, s_saver[s].gen>> /\ new.links = 2 /\ new.ino = 1
  BY <1>3, LinkedFile
<1>5. CASE S!FreeName(f) /\ S!Change(S!SavedKind, new, f) /\ s_durable' = "no" /\ S!Goes(s, "unlink")
  <2>1. f.ino = 0 /\ s_file' = [s_file EXCEPT ![S!SavedKind] = new] /\ s_file \in [DOMAIN s_file -> FileRecord]
    BY <1>5 DEF S!FreeName, S!Change, StoreType
  <2>2. s_file'[S!SavedKind] = new
    BY <1>3, <2>1
  <2>3. /\ s_saver'[s].step = "unlink" /\ s_saver'[s].out = s_saver[s].out /\ s_saver'[s].gen = s_saver[s].gen
        /\ \A u \in Savers \ {s} : s_saver'[u] = s_saver[u]
    BY <1>5, SaverMoves, StoreConstants
  <2> HIDE DEF new, f
  <2>4. S!Saving' /\ s_edits' = 0 => \A u \in Savers : SaverSound(u)'
    <3> SUFFICES ASSUME s_edits = 0, NEW u \in Savers PROVE SaverSound(u)'
      BY <1>1
    <3>1. SaverSound(u)
      BY <1>1 DEF KeepInv, SavedInv
    <3>2. /\ s_saver[u].step \notin {"unlink", "sync", "final"} /\ s_saver[u].out # "published"
          /\ Clean => s_saver[u].step # "compare" /\ s_saver[u].out # "reused"
      BY <2>1, <3>1 DEF SaverSound, f
    <3>3. CASE u = s
      BY <1>2, <1>4, <2>2, <2>3, <3>2, <3>3 DEF SaverSound
    <3>4. CASE u # s
      BY <1>2, <2>3, <3>2, <3>4 DEF SaverSound
    <3> QED BY <3>3, <3>4
  <2>5. LinkInv'
    <3> SUFFICES ASSUME Blameless'
                 PROVE  /\ s_file'[S!SavedKind].links <= 1 \/ \E t \in Savers : s_saver'[t].step = "unlink"
                        /\ \A t \in Savers : s_saver'[t].step = "unlink" =>
                               /\ s_file'[S!SavedKind].ino # 0 /\ s_file'[S!SavedKind].links = 2
                               /\ \A u \in Savers : s_saver'[u].step = "unlink" => u = t
      BY DEF LinkInv
    <3>1. \A u \in Savers : s_saver[u].step # "unlink"
      BY <1>2, <2>1 DEF KeepInv, LinkInv, f
    <3>2. \A u \in Savers : s_saver'[u].step = "unlink" => u = s
      BY <2>3, <3>1
    <3> QED BY <1>4, <2>2, <2>3, <3>2
  <2> QED BY <1>2, <2>4, <2>5 DEF KeepInv, SavedInv
<1>6. CASE ~S!FreeName(f) /\ S!Goes(s, "compare") /\ UNCHANGED s_file
           /\ (s_durable' = "yes" \/ (s_durable' = s_durable /\ s_faults' = s_faults + 1))
  <2>1. /\ s_saver'[s].step = "compare" /\ s_saver'[s].out = s_saver[s].out /\ s_saver'[s].gen = s_saver[s].gen
        /\ \A u \in Savers \ {s} : s_saver'[u] = s_saver[u]
    BY <1>6, SaverMoves, StoreConstants
  <2>2. f.ino # 0 /\ (Clean' => s_durable' = "yes")
    BY <1>1, <1>2, <1>6 DEF S!FreeName, Clean
  <2>3. S!Saving' /\ s_edits' = 0 => \A u \in Savers : SaverSound(u)'
    <3> SUFFICES ASSUME s_edits = 0 PROVE \A u \in Savers : SaverSound(u)'
      BY <1>1
    <3>1. SaverSound(s)
      BY <1>1 DEF KeepInv, SavedInv
    <3>2. SaverSound(s)'
      BY <1>2, <1>6, <2>1, <2>2, <3>1 DEF SaverSound
    <3> QED BY <1>1, <1>2, <1>6, <2>1, <3>2, SaverStep
  <2>4. LinkInv'
    <3>1. \A u \in Savers : s_saver'[u].step = "unlink" <=> s_saver[u].step = "unlink"
      BY <1>1, <2>1
    <3> QED BY <1>2, <1>6, <3>1 DEF KeepInv, LinkInv
  <2> QED BY <1>2, <2>3, <2>4 DEF KeepInv, SavedInv
<1>7. CASE S!Ends(s, "raised") /\ s_durable' = "yes" /\ UNCHANGED s_file
  <2>1. /\ s_saver'[s].step = "idle" /\ s_saver'[s].out = "raised" /\ s_saver'[s].gen = s_saver[s].gen
        /\ \A u \in Savers \ {s} : s_saver'[u] = s_saver[u]
    BY <1>7, SaverMoves, StoreConstants
  <2>2. S!Saving' /\ s_edits' = 0 => \A u \in Savers : SaverSound(u)'
    <3> SUFFICES ASSUME s_edits = 0 PROVE \A u \in Savers : SaverSound(u)'
      BY <1>1
    <3>1. SaverSound(s)'
      BY <2>1 DEF SaverSound
    <3> QED BY <1>1, <1>2, <1>7, <2>1, <3>1, SaverStep
  <2>3. LinkInv'
    <3>1. \A u \in Savers : s_saver'[u].step = "unlink" <=> s_saver[u].step = "unlink"
      BY <1>1, <2>1
    <3> QED BY <1>2, <1>7, <3>1 DEF KeepInv, LinkInv
  <2> QED BY <1>2, <2>2, <2>3 DEF KeepInv, SavedInv
<1> HIDE DEF new
<1> QED BY <1>5, <1>6, <1>7 DEF S!LinkTemp, S!Fails, new

LEMMA UnlinkTempKept ==
    ASSUME StoreType, KeepInv, NEW s \in Savers, S!UnlinkTemp(s)
    PROVE  KeepInv'
<1> DEFINE f == s_file[S!SavedKind]
<1>1. /\ S!Saving /\ s_saver[s].step = "unlink" /\ UNCHANGED <<s_request, s_edits, s_losses, s_deaths>>
      /\ s_edits \in Nat /\ s_faults \in Nat /\ s_deaths \in Nat /\ s_losses \in Nat
      /\ s_faults' \in {s_faults, s_faults + 1, s_faults + 2}
      /\ s_durable = "yes" => s_durable' = "yes"
  BY DEF S!UnlinkTemp, StoreType, S!Fails, S!budget, S!callVars
<1>2. s_faults >= s_losses + s_deaths /\ s_faults' >= s_losses' + s_deaths' /\ (Clean' => Clean)
      /\ (Blameless' => Blameless) /\ S!Saving'
  BY <1>1 DEF KeepInv, SavedInv, Clean, Blameless, S!Saving
<1>3. S!SavedKind \in DOMAIN s_file /\ f \in FileRecord /\ s_file \in [DOMAIN s_file -> FileRecord]
  BY <1>1, SavedFile DEF StoreType
<1>4. /\ S!Unlinked(f).halves = f.halves /\ S!Unlinked(f).ino = f.ino /\ S!CleanedUp(f) = S!Unlinked(f)
      /\ f.ino # 0 => S!Unlinked(f).links = f.links - 1
  BY <1>3, UnlinkedFile
<1>5. \/ s_file'[S!SavedKind] = S!Unlinked(f)
      \/ UNCHANGED s_file /\ s_faults' = s_faults + 2
  <2>1. CASE S!Change(S!SavedKind, S!Unlinked(f), S!Unlinked(f))
    <3>1. s_file' = [s_file EXCEPT ![S!SavedKind] = S!Unlinked(f)]
      BY <2>1 DEF S!Change
    <3> QED BY <1>3, <3>1
  <2> QED BY <1>4, <2>1 DEF S!UnlinkTemp
<1>6. s_file'[S!SavedKind].ino = f.ino /\ s_file'[S!SavedKind].halves = f.halves
  BY <1>4, <1>5
<1>7. /\ (s_saver'[s].step = "sync" /\ s_saver'[s].out = s_saver[s].out)
         \/ (s_saver'[s].step = "idle" /\ s_saver'[s].out = "raised")
      /\ s_saver'[s].gen = s_saver[s].gen
      /\ \A u \in Savers \ {s} : s_saver'[u] = s_saver[u]
  BY SaverMoves, StoreConstants DEF S!UnlinkTemp
<1>8. S!Saving' /\ s_edits' = 0 => \A u \in Savers : SaverSound(u)'
  <2> SUFFICES ASSUME s_edits = 0 PROVE \A u \in Savers : SaverSound(u)'
    BY <1>1
  <2>1. SaverSound(s)
    BY <1>1 DEF KeepInv, SavedInv
  <2> DEFINE mine == f.ino # 0 /\ f.halves = <<s_saver[s].gen, s_saver[s].gen>>
  <2>2. /\ mine
        /\ s_saver[s].step = "final" \/ s_saver[s].out = "published" => mine /\ s_durable = "yes"
        /\ s_saver[s].out = "reused" /\ Clean => mine /\ s_durable = "yes"
    BY <1>1, <2>1 DEF SaverSound
  <2>3. mine = (s_file'[S!SavedKind].ino # 0 /\ s_file'[S!SavedKind].halves = <<s_saver'[s].gen, s_saver'[s].gen>>)
    BY <1>6, <1>7
  <2> HIDE DEF mine
  <2>4. SaverSound(s)'
    BY <1>1, <1>2, <1>7, <2>2, <2>3 DEF SaverSound
  <2> QED BY <1>1, <1>2, <1>6, <1>7, <2>4, SaverStep
<1>9. LinkInv'
  <2> SUFFICES ASSUME Blameless'
               PROVE  /\ s_file'[S!SavedKind].links <= 1
                      /\ \A u \in Savers : s_saver'[u].step # "unlink"
    BY DEF LinkInv
  <2>1. f.ino # 0 /\ f.links = 2 /\ \A u \in Savers : s_saver[u].step = "unlink" => u = s
    BY <1>1, <1>2 DEF KeepInv, LinkInv
  <2>2. s_file'[S!SavedKind] = S!Unlinked(f)
    BY <1>1, <1>5 DEF Blameless
  <2>3. s_file'[S!SavedKind].links = 1
    BY <1>4, <2>1, <2>2
  <2> QED BY <1>7, <2>1, <2>3
<1> QED BY <1>2, <1>8, <1>9 DEF KeepInv, SavedInv

LEMMA PowerLossKept ==
    ASSUME StoreType, KeepInv, S!PowerLoss
    PROVE  KeepInv'
<1>1. /\ S!Saving /\ UNCHANGED <<s_request, s_edits, s_deaths>>
      /\ s_edits \in Nat /\ s_faults \in Nat /\ s_deaths \in Nat /\ s_losses \in Nat
      /\ s_faults' = s_faults + 1 /\ s_losses' = s_losses + 1 /\ s_durable' = "yes"
  BY DEF S!PowerLoss, StoreType
<1>2. s_faults >= s_losses + s_deaths /\ s_faults' >= s_losses' + s_deaths' /\ (Clean' => Clean)
      /\ ~Blameless' /\ S!Saving'
  BY <1>1 DEF KeepInv, SavedInv, Clean, Blameless, S!Saving
<1>3. S!SavedKind \in DOMAIN s_file /\ s_file \in [DOMAIN s_file -> FileRecord]
  BY <1>1, SavedFile DEF StoreType
<1>4. s_durable = "yes" => s_file'[S!SavedKind] = s_file[S!SavedKind]
  BY <1>3 DEF S!PowerLoss
<1>5. \A u \in Savers : s_saver'[u] = s_saver[u] \/ (s_saver'[u].step = "idle" /\ s_saver'[u].out = "died")
  <2>1. \A u \in Savers : s_saver[u] \in SaverRecord
    BY DEF StoreType
  <2>2. \A u \in Savers : LET new == [s_saver[u] EXCEPT !.step = "idle", !.out = "died"] IN
           new.step = "idle" /\ new.out = "died"
    BY <2>1 DEF SaverRecord
  <2> QED BY <2>2 DEF S!PowerLoss
<1>7. S!Saving' /\ s_edits' = 0 => \A u \in Savers : SaverSound(u)'
  <2> SUFFICES ASSUME s_edits = 0, NEW u \in Savers PROVE SaverSound(u)'
    BY <1>1
  <2>1. SaverSound(u)
    BY <1>1 DEF KeepInv, SavedInv
  <2>2. CASE s_saver'[u].step = "idle" /\ s_saver'[u].out = "died"
    BY <2>2 DEF SaverSound
  <2>3. CASE s_saver'[u] = s_saver[u] /\ s_saver[u].step = "idle" /\ s_durable = "yes"
    BY <1>1, <1>2, <1>4, <2>1, <2>3, OtherSaver
  <2>4. CASE s_saver'[u] = s_saver[u] /\ s_saver[u].step = "idle" /\ s_durable # "yes"
    BY <1>2, <2>1, <2>4 DEF SaverSound
  <2>5. s_saver'[u] = s_saver[u] => s_saver[u].step = "idle" \/ (s_saver'[u].step = "idle" /\ s_saver'[u].out = "died")
    <3>1. s_saver[u] \in SaverRecord
      BY DEF StoreType
    <3>2. [s_saver[u] EXCEPT !.step = "idle", !.out = "died"].step = "idle"
      BY <3>1 DEF SaverRecord
    <3> QED BY <3>2 DEF S!PowerLoss
  <2> QED BY <1>5, <2>2, <2>3, <2>4, <2>5
<1> QED BY <1>2, <1>7 DEF KeepInv, SavedInv, LinkInv

LEMMA NextKept == StoreType /\ KeepInv /\ [S!Next]_(S!vars) => KeepInv'
<1> SUFFICES ASSUME StoreType, KeepInv, [S!Next]_(S!vars) PROVE KeepInv'
  OBVIOUS
<1>1. CASE S!OpenFile \/ S!ReadFirst \/ S!ReadRest \/ UNCHANGED S!vars
  <2>1. UNCHANGED <<s_request, s_file, s_saver, s_durable, s_edits, s_faults, s_deaths, s_losses>>
    BY <1>1 DEF S!OpenFile, S!ReadFirst, S!ReadRest, S!Refuse, S!vars, S!callVars, S!saveVars, S!budget
  <2> QED BY <2>1 DEF KeepInv, SavedInv, SaverSound, LinkInv, Blameless, S!Saving, Clean
<1>2. ASSUME NEW s \in Savers,
             \/ S!SaveBegin(s) \/ S!LinkTemp(s) \/ S!UnlinkTemp(s) \/ S!SyncDirectory(s)
             \/ S!SaveReturns(s) \/ S!CompareExisting(s) \/ S!Die(s)
      PROVE  KeepInv'
  BY <1>2, QuietSavesKept, LinkTempKept, UnlinkTempKept
<1>3. CASE S!PowerLoss
  BY <1>3, PowerLossKept
<1>4. ASSUME S!Edited PROVE KeepInv'
  BY <1>4 DEF S!Edited, StoreType, KeepInv, SavedInv, LinkInv, Blameless
<1>5. ASSUME NEW k \in DOMAIN s_file, S!ReplaceFile(k) \/ S!RewriteFile(k) \/ S!TouchFile(k)
      PROVE  KeepInv'
  BY <1>4, <1>5 DEF S!ReplaceFile, S!RewriteFile, S!TouchFile
<1>6. CASE S!ExchangeRoot
  BY <1>4, <1>6 DEF S!ExchangeRoot
<1> QED BY <1>1, <1>2, <1>3, <1>5, <1>6 DEF S!Next

LEMMA SavesAreKept == StoreType /\ KeepInv => S!SavesKept
<1> SUFFICES ASSUME StoreType, KeepInv PROVE S!SaveKept /\ S!OnlyDeathBlocks
  BY DEF S!SavesKept
<1>1. S!SaveKept
  <2> SUFFICES ASSUME S!Saving, s_edits = 0, NEW s \in Savers,
                      s_saver[s].out = "published" \/ (s_saver[s].out = "reused" /\ s_faults = s_losses + s_deaths)
               PROVE  s_file[S!SavedKind].halves = <<s_saver[s].gen, s_saver[s].gen>>
    BY DEF S!SaveKept
  <2>1. SaverSound(s)
    BY DEF KeepInv, SavedInv
  <2> QED BY <2>1 DEF SaverSound, Clean
<1>2. S!OnlyDeathBlocks
  BY DEF KeepInv, LinkInv, Blameless, S!OnlyDeathBlocks
<1> QED BY <1>1, <1>2

\* Every record of a trace is counted once, in the class it was put in or among
\* those that wait for a wakeup, and what is emitted is what the events hold
\* (profiles/trace_stream.py and profiles/kernel_trace_stream.py).
THEOREM StreamConservesRecords == AllSpec => []RecordsConserved
<1>1. AllInit => StreamInv
  BY InitStream DEF AllInit
<1>2. StreamInv /\ [AllNext]_all => StreamInv'
  <2>1. [AllNext]_all => [V!Next]_(V!vars)
    BY DEF AllNext, all, v_vars, V!vars
  <2> QED BY <2>1, NextStream
<1>3. StreamInv => RecordsConserved
  BY DEF StreamInv, RecordsConserved
<1> QED BY <1>1, <1>2, <1>3, PTL DEF AllSpec

\* The time of a thread is counted once: its runtime and off-CPU intervals follow
\* one another, whatever events are missing or doubled (the handlers of
\* _analyze_temporal in domain/trace_analysis.py).
THEOREM AnalysisCountsTimeOnce == AllSpec => []TimeCountedOnce
<1>1. AllInit => SpanInv
  BY InitSpans DEF AllInit
<1>2. SpanInv /\ [AllNext]_all => SpanInv'
  <2>1. [AllNext]_all => [A!Next]_(A!vars)
    BY DEF AllNext, all, a_vars, A!vars, A!state
  <2> QED BY <2>1, NextSpans
<1>3. SpanInv => TimeCountedOnce
  BY DEF SpanInv, TimeCountedOnce
<1> QED BY <1>1, <1>2, <1>3, PTL DEF AllSpec

\* A call of the store returns the whole content the requested file had at one
\* moment of the call and has verified what that content refers to, whatever
\* others do to the directory between the steps of the reads; what save reported
\* stays, and only a death or a power loss leaves an artifact that no one can read
\* again (mcp/storage.py, artifacts/filesystem.py).
THEOREM StoreIsSound == AllSpec => []StoreSound
<1>1. AllInit => ReadInv /\ KeepInv
  BY InitStore, InitKept DEF AllInit
<1>2. ReadInv /\ KeepInv /\ [AllNext]_all => ReadInv' /\ KeepInv'
  <2>1. [AllNext]_all => [S!Next]_(S!vars)
    BY DEF AllNext, all, s_vars, S!vars, S!callVars, S!saveVars, S!budget
  <2>2. ReadInv => StoreType
    BY DEF ReadInv
  <2> QED BY <2>1, <2>2, NextReads, NextKept
<1>3. ReadInv /\ KeepInv => StoreSound
  BY ReadsAreVerified, SavesAreKept DEF ReadInv, StoreSound
<1> QED BY <1>1, <1>2, <1>3, PTL DEF AllSpec

----------------------------------------------------------------------------
(* ProjectSetup.                                                           *)

\* Types.  A file with an entry exists, and a setup directory that does not exist
\* holds nothing; a recorded copy is one of a client that was selected.
Contents == (0 .. MaxVersion) \cup {I!User}
ConfigFile ==
    {x \in [there : {"yes", "no"}, entry : Contents, other : Nat] : x.entry # 0 => x.there = "yes"}
SlotClient(s) == IF s = "vscode" THEN "copilot" ELSE s
SetupRecord ==
    {o \in [state : {"none", "partial", "ok"}, clients : SUBSET I!Clients, conf : 0 .. MaxVersion,
            managed : SUBSET I!Slots, fp : [I!Skills -> 0 .. MaxVersion], policy : Nat] :
        /\ o.state = "none" => o = I!NoSetup
        /\ \A s \in o.managed : SlotClient(s) \in o.clients}
ConfigPlan == [do : {"skip", "keep", "write"}, expected : ConfigFile, content : ConfigFile]

Moved == {"bundle", "skills", "record", "apply", "write", "refresh"}
SettingUp == {"move"} \cup Moved
DetachSteps == {"remove", "erase"}
CommandRecord ==
    [pc : {"idle", "rollback"} \cup SettingUp \cup DetachSteps, sel : SUBSET I!Clients,
     plan : [I!Files -> ConfigPlan],
     skills : [I!Skills -> {"skip", "install", "update", "existing", "remove"}],
     applied : SUBSET I!Files, installed : SUBSET I!Skills, refreshed : SUBSET I!Skills,
     result : {"none", "refused", "attached", "ok", "failed", "detached", "error", "killed"},
     attached : SUBSET I!Clients]
HistoryRecord ==
    [other : [I!Files -> Nat], own : SUBSET (I!Files \cup I!Skills), policy : Nat,
     raced : SUBSET (I!Files \cup I!Skills), detached : SUBSET I!Clients, left : SUBSET I!Files,
     output : SetupRecord, file : [I!Files -> ConfigFile], skill : [I!Skills -> Contents]]

SetupType ==
    /\ i_bundled \in 1 .. MaxVersion /\ i_defaults \subseteq I!Clients
    /\ i_file \in [I!Files -> ConfigFile] /\ i_skill \in [I!Skills -> Contents]
    /\ i_output \in SetupRecord /\ i_backup \in SetupRecord
    /\ i_cmd \in CommandRecord /\ i_hist \in HistoryRecord
    /\ i_faults \in Nat
    /\ i_cmd.pc \in Moved => i_output.state # "none"

\* What a plan holds: the file as it was when the command started, and what it is
\* to become; nothing of the user's own is planned to change.
PlanOf(f) == i_cmd.plan[f]
PlanInv ==
    /\ \A f \in I!Files : PlanOf(f).do # "skip" =>
           /\ PlanOf(f).expected = i_hist.file[f] /\ PlanOf(f).expected.entry # I!User
           /\ PlanOf(f).content = I!With(i_hist.file[f], IF i_cmd.pc \in DetachSteps THEN 0 ELSE i_bundled)
           /\ PlanOf(f).do = "keep" => i_hist.file[f].entry = i_bundled
           /\ i_cmd.pc \in DetachSteps => PlanOf(f).do = "write" /\ i_hist.file[f].entry # 0
    /\ i_cmd.pc = "idle" =>
           /\ \A f \in I!Files : PlanOf(f).do = "skip"
           /\ i_cmd.applied = {} /\ i_cmd.installed = {}
    /\ i_cmd.pc # "idle" => i_cmd.result = "none"
    /\ i_cmd.pc = "refresh" => I!Pending = {}

\* Between the comparison of a file and its replacement the file is as planned,
\* or the edit is one that the property excepts or the replacement notices.
WriteInv ==
    i_cmd.pc \in {"write", "erase"} =>
        /\ I!Pending # {} /\ PlanOf(I!First(I!Pending)).do = "write"
        /\ \/ I!First(I!Pending) \in i_hist.raced \/ i_file[I!First(I!Pending)] = i_hist.file[I!First(I!Pending)]
           \/ I!Appeared(I!First(I!Pending))

UserFiles ==
    \A f \in I!Files \ i_hist.raced :
        i_file[f].other = i_hist.other[f] /\ (f \in i_hist.own => i_file[f].entry = I!User)

\* A Skill that is to be installed was not there, and one that was installed is
\* the user's only if he modified it since.
UserSkills == \A k \in I!Skills \ i_hist.raced : k \in i_hist.own => i_skill[k] = I!User
SkillInv ==
    \A k \in I!Skills :
        /\ i_cmd.skills[k] = "install" =>
               i_hist.skill[k] = 0 /\ (i_cmd.pc \in {"move", "bundle", "skills"} => i_skill[k] = 0)
        /\ k \in i_cmd.installed => i_cmd.skills[k] = "install" /\ (k \in i_hist.own => k \in i_hist.raced)
        /\ i_cmd.skills[k] = "remove" => i_hist.skill[k] # I!User
        /\ i_cmd.pc \in SettingUp \cup {"rollback"} =>
               /\ k \in i_hist.own \/ k \in i_cmd.refreshed \/ k \in i_cmd.installed \/ i_skill[k] = i_hist.skill[k]
               /\ i_skill[k] = 0 => i_hist.skill[k] = 0
        /\ i_cmd.pc \in SettingUp /\ k \in I!SkillsOf(i_cmd.sel) =>
               \/ i_cmd.skills[k] = "install" /\ i_cmd.pc \in {"move", "bundle", "skills"}
               \/ i_skill[k] # 0

\* Where the policy is, and what the backup holds.
SameRecord(o, p) ==
    /\ o.state = p.state /\ o.clients = p.clients /\ o.conf = p.conf /\ o.managed = p.managed
    /\ o.fp = p.fp
UserPolicy == i_hist.policy # 0 => i_hist.policy \in {i_output.policy, i_backup.policy}
BackupInv ==
    /\ i_output.state = "none" => i_backup.state = "none"
    /\ i_cmd.pc = "move" =>
           /\ i_backup.state = "none" /\ i_output.state # "partial" /\ SameRecord(i_output, i_hist.output)
           /\ i_cmd.applied = {}
    /\ i_cmd.pc = "bundle" => i_output.policy = 0
    /\ i_cmd.pc \in Moved \ {"bundle"} => i_backup.policy = 0
    /\ i_cmd.pc \in Moved => SameRecord(i_backup, i_hist.output)
    /\ i_cmd.pc \in SettingUp \cup {"rollback"} => (i_hist.output.state = "none" => i_hist.policy = 0)
    /\ i_cmd.pc = "rollback" =>
           /\ i_output.policy = 0 \/ i_backup.policy = 0
           /\ \/ SameRecord(i_backup, i_hist.output)
              \/ i_faults > 0 /\ i_backup.state = "partial"
              \/ i_faults > 0 /\ i_backup.state = "none" /\ i_cmd.applied = {} /\ i_output.state = "ok"
                 /\ SameRecord(i_output, i_hist.output)

\* What the rollback can restore.
RestoreInv ==
    /\ i_cmd.pc \in SettingUp \cup {"rollback"} =>
           \A f \in I!Files \ (i_hist.own \cup i_hist.raced) :
               \/ i_file[f].other > i_hist.file[f].other
               \/ /\ i_file[f].other = i_hist.file[f].other
                  /\ \/ f \in i_cmd.applied /\ PlanOf(f).do = "write" /\ i_file[f] = PlanOf(f).content
                     \/ i_file[f].entry = i_hist.file[f].entry
    /\ i_cmd.result = "failed" =>
           /\ i_output.state = "partial" \/ SameRecord(i_output, i_hist.output)
           /\ \A f \in I!Files \ (i_hist.own \cup i_hist.raced) :
                  \/ i_file[f].other > i_hist.file[f].other
                  \/ i_file[f].other = i_hist.file[f].other /\ i_file[f].entry = i_hist.file[f].entry
           /\ i_cmd.refreshed = {} => \A k \in I!Skills : k \in i_hist.own \/ i_skill[k] = i_hist.skill[k]

\* The entries of a setup in progress.
Written(f) == f \in i_cmd.applied /\ PlanOf(f).do = "write"
EntryInv ==
    i_cmd.pc \in SettingUp \cup {"rollback"} =>
        \A f \in I!Files :
            i_file[f].entry \in {I!User, IF Written(f) THEN i_bundled ELSE i_hist.file[f].entry}

\* What the record says of the entries.
RecordedBy(o, e, f) ==
    e \in 1 .. MaxVersion =>
        o.state = "ok" /\ e = o.conf /\ I!SlotsOf(f, I!Clients) \cap o.managed # {}
Claimed == I!Files \ ({"codex"} \cup i_hist.left)
Managing(managed) ==
    {s \in I!Slots : I!SlotSelected(s) /\ (PlanOf(I!SlotFile(s)).do = "write" \/ s \in managed)}
RecordInv ==
    i_faults = 0 =>
        /\ i_cmd.pc \in {"idle", "move"} \cup DetachSteps =>
               \A f \in Claimed : RecordedBy(i_output, i_file[f].entry, f)
        /\ i_cmd.pc \in SettingUp \cup {"rollback"} =>
               \A f \in Claimed : RecordedBy(i_hist.output, i_hist.file[f].entry, f)
        /\ i_cmd.pc \in SettingUp => \A f \in Claimed :
               IF PlanOf(f).do = "skip" THEN i_hist.file[f].entry \notin 1 .. MaxVersion
               ELSE IF i_cmd.pc \in {"apply", "write", "refresh"}
                    THEN I!SlotsOf(f, I!Clients) \cap i_output.managed # {}
                    ELSE I!SlotsOf(f, I!Clients) \cap Managing(i_hist.output.managed) # {}
        /\ i_cmd.pc \in {"skills", "record", "apply", "write", "refresh"} => i_output.conf = i_bundled
        /\ i_cmd.pc \in {"apply", "write", "refresh"} => i_output.state = "ok" /\ i_output.clients = i_cmd.sel
        /\ i_cmd.pc \in SettingUp => \A f \in I!Files : PlanOf(f).do = "skip" <=> f \notin I!FilesOf(i_cmd.sel)

\* A client of the shared file that was detached has left the entry to nobody or
\* to the other client.
SharedLeft(o, skills, files) ==
    \/ "claude" \in o.clients /\ skills["claude"] = 0
    \/ "copilot" \in o.clients /\ files["vscode"].entry = 0
    => files["mcp"].entry \notin 1 .. MaxVersion
SharedInv ==
    (i_faults = 0 /\ "mcp" \notin i_hist.left) =>
        /\ i_cmd.pc \in {"idle", "move"} \cup DetachSteps => SharedLeft(i_output, i_skill, i_file)
        /\ i_cmd.pc \in SettingUp \cup {"rollback"} => SharedLeft(i_hist.output, i_hist.skill, i_hist.file)
        /\ i_cmd.pc \in DetachSteps =>
               /\ PlanOf("vscode").do = "write" \/ i_cmd.skills["claude"] = "remove" =>
                      PlanOf("mcp").do = "write" \/ i_file["mcp"].entry \notin 1 .. MaxVersion
               /\ "mcp" \in i_cmd.applied => i_file["mcp"].entry \notin 1 .. MaxVersion


LEMMA VersionFacts ==
    /\ MaxVersion \in Nat /\ 1 <= MaxVersion /\ MaxVersion < I!User /\ I!User \in Nat
    /\ \A v \in 1 .. MaxVersion : v \in 0 .. MaxVersion /\ v \in Contents /\ v # I!User /\ v # 0
    /\ \A v \in 0 .. MaxVersion : v \in Contents /\ v # I!User
    /\ I!User \in Contents /\ I!User \notin 0 .. MaxVersion
BY SetupAssumption DEF I!SetupConstants, Contents, I!User

LEMMA NoSetupType == I!NoSetup \in SetupRecord /\ I!NoSetup.state = "none" /\ I!NoSetup.policy = 0
BY VersionFacts DEF I!NoSetup, SetupRecord, I!Slots, I!Skills

LEMMA NoFileType == I!NoFile \in ConfigFile
BY VersionFacts DEF I!NoFile, ConfigFile

LEMMA WithType ==
    ASSUME NEW x \in ConfigFile, NEW e \in Contents
    PROVE  /\ I!With(x, e) \in ConfigFile
           /\ I!With(x, e).there = "yes" /\ I!With(x, e).entry = e /\ I!With(x, e).other = x.other
BY DEF I!With, ConfigFile

LEMMA NoPlanType == I!NoPlan \in ConfigPlan /\ I!NoPlan.do = "skip"
BY NoFileType DEF I!NoPlan, ConfigPlan

\* A command that has ended.
LEMMA IdleFacts ==
    /\ I!Idle \in CommandRecord /\ I!Idle.pc = "idle" /\ I!Idle.applied = {} /\ I!Idle.installed = {}
    /\ I!Idle.refreshed = {} /\ I!Idle.result = "none"
    /\ \A f \in I!Files : I!Idle.plan[f] = I!NoPlan
    /\ \A k \in I!Skills : I!Idle.skills[k] = "skip"
<1>1. [f \in I!Files |-> I!NoPlan] \in [I!Files -> ConfigPlan]
  BY NoPlanType
<1> QED BY <1>1 DEF I!Idle, CommandRecord

Ended(result) ==
    /\ i_cmd' \in CommandRecord /\ i_cmd'.pc = "idle" /\ i_cmd'.result = result
    /\ i_cmd'.applied = {} /\ i_cmd'.installed = {}
    /\ \A f \in I!Files : i_cmd'.plan[f] = I!NoPlan
    /\ \A k \in I!Skills : i_cmd'.skills[k] = "skip"

Results == {"none", "refused", "attached", "ok", "failed", "detached", "error", "killed"}

LEMMA EndFacts ==
    ASSUME NEW result \in Results, i_cmd' = [I!Idle EXCEPT !.result = result]
    PROVE  Ended(result)
BY IdleFacts DEF Ended, CommandRecord, Results

\* A command that goes on.
Goes(pc) ==
    /\ i_cmd' \in CommandRecord /\ i_cmd'.pc = pc /\ i_cmd'.sel = i_cmd.sel /\ i_cmd'.plan = i_cmd.plan
    /\ i_cmd'.skills = i_cmd.skills /\ i_cmd'.result = i_cmd.result
Carries ==
    i_cmd'.applied = i_cmd.applied /\ i_cmd'.installed = i_cmd.installed /\ i_cmd'.refreshed = i_cmd.refreshed

SetupSteps == {"idle", "rollback"} \cup SettingUp \cup DetachSteps

LEMMA GoToFacts ==
    ASSUME i_cmd \in CommandRecord, NEW pc \in SetupSteps, I!GoTo(pc)
    PROVE  Goes(pc) /\ Carries
BY DEF I!GoTo, CommandRecord, SetupSteps, Goes, Carries

LEMMA AppliesFacts ==
    ASSUME i_cmd \in CommandRecord, NEW f \in I!Files, NEW pc \in SetupSteps,
           i_cmd' = [i_cmd EXCEPT !.pc = pc, !.applied = i_cmd.applied \cup {f}]
    PROVE  /\ Goes(pc) /\ i_cmd'.applied = i_cmd.applied \cup {f}
           /\ i_cmd'.installed = i_cmd.installed /\ i_cmd'.refreshed = i_cmd.refreshed
BY DEF CommandRecord, SetupSteps, Goes

LEMMA InitSetupType == I!Init => SetupType
<1> SUFFICES ASSUME I!Init PROVE SetupType
  OBVIOUS
<1>1. i_file \in [I!Files -> ConfigFile] /\ i_skill \in [I!Skills -> Contents]
  BY NoFileType, VersionFacts DEF I!Init
<1>2. i_hist \in HistoryRecord
  BY <1>1, NoSetupType DEF I!Init, I!NoHistory, HistoryRecord
<1> QED BY <1>1, <1>2, NoSetupType, IdleFacts, VersionFacts DEF I!Init, SetupType, I!Clients, Moved

\* The file that is changed next is one of those pending.
LEMMA FirstPending ==
    ASSUME NEW U \in SUBSET I!Files, U # {}
    PROVE  I!First(U) \in U /\ (I!First(U) = "vscode" => "mcp" \notin U)
<1>1. \A i \in 1..4 : i = 1 \/ i = 2 \/ i = 3 \/ i = 4
  OBVIOUS
<1>2. I!Order[1] = "codex" /\ I!Order[2] = "mcp" /\ I!Order[3] = "opencode" /\ I!Order[4] = "vscode"
  BY DEF I!Order
<1> DEFINE Ok(f) == \A i \in 1..4 : I!Order[i] \in U => \E j \in 1..i : I!Order[j] = f
<1>3. \E f \in U : Ok(f)
  <2>1. CASE "codex" \in U
    BY <2>1, <1>2
  <2>2. CASE "codex" \notin U /\ "mcp" \in U
    <3>1. Ok("mcp")
      <4> SUFFICES ASSUME NEW i \in 1..4, I!Order[i] \in U PROVE \E j \in 1..i : I!Order[j] = "mcp"
        OBVIOUS
      <4>1. i >= 2
        BY <1>1, <1>2, <2>2
      <4> QED BY <4>1, <1>2
    <3> QED BY <3>1, <2>2
  <2>3. CASE "codex" \notin U /\ "mcp" \notin U /\ "opencode" \in U
    <3>1. Ok("opencode")
      <4> SUFFICES ASSUME NEW i \in 1..4, I!Order[i] \in U PROVE \E j \in 1..i : I!Order[j] = "opencode"
        OBVIOUS
      <4>1. i >= 3
        BY <1>1, <1>2, <2>3
      <4> QED BY <4>1, <1>2
    <3> QED BY <3>1, <2>3
  <2>4. CASE "codex" \notin U /\ "mcp" \notin U /\ "opencode" \notin U
    <3>1. "vscode" \in U
      BY <2>4 DEF I!Files
    <3>2. Ok("vscode")
      <4> SUFFICES ASSUME NEW i \in 1..4, I!Order[i] \in U PROVE \E j \in 1..i : I!Order[j] = "vscode"
        OBVIOUS
      <4>1. i >= 4
        BY <1>1, <1>2, <2>4
      <4> QED BY <4>1, <1>2
    <3> QED BY <3>1, <3>2
  <2> QED BY <2>1, <2>2, <2>3, <2>4
<1>4. I!First(U) \in U /\ Ok(I!First(U))
  BY <1>3 DEF I!First
<1>5. ASSUME I!First(U) = "vscode", "mcp" \in U PROVE FALSE
  <2>1. \E j \in 1..2 : I!Order[j] = "vscode"
    BY <1>2, <1>4, <1>5
  <2> QED BY <2>1, <1>1, <1>2
<1> QED BY <1>4, <1>5

----------------------------------------------------------------------------
(* What each action does.                                                  *)

Quiet == UNCHANGED <<i_bundled, i_defaults, i_file, i_skill, i_output, i_backup, i_hist, i_faults>>

LEMMA RefuseFacts ==
    ASSUME SetupType, NEW result \in {"refused", "attached"}, NEW attached \in SUBSET I!Clients,
           I!Refuse(result, attached)
    PROVE  SetupType' /\ Ended(result) /\ Quiet
<1>1. Ended(result)
  BY IdleFacts DEF I!Refuse, Ended, CommandRecord
<1>2. Quiet
  BY DEF I!Refuse, Quiet
<1> QED BY <1>1, <1>2 DEF SetupType, Quiet, Ended, Moved

\* What a command starts with.
Starts(pc, sel) ==
    /\ i_cmd' \in CommandRecord /\ i_cmd'.pc = pc /\ i_cmd'.sel = sel /\ i_cmd'.result = "none"
    /\ i_cmd'.applied = {} /\ i_cmd'.installed = {} /\ i_cmd'.refreshed = {}
Snapped ==
    /\ i_hist' \in HistoryRecord /\ i_hist'.other = i_hist.other /\ i_hist'.own = i_hist.own
    /\ i_hist'.policy = i_hist.policy /\ i_hist'.raced = i_hist.raced
    /\ i_hist'.output = i_output /\ i_hist'.file = i_file /\ i_hist'.skill = i_skill

LEMMA SnapshotFacts ==
    ASSUME SetupType
    PROVE  /\ I!Snapshot \in HistoryRecord /\ I!Snapshot.other = i_hist.other /\ I!Snapshot.own = i_hist.own
           /\ I!Snapshot.policy = i_hist.policy /\ I!Snapshot.raced = i_hist.raced
           /\ I!Snapshot.output = i_output /\ I!Snapshot.file = i_file /\ I!Snapshot.skill = i_skill
           /\ I!Snapshot.left = i_hist.left
BY DEF SetupType, I!Snapshot, HistoryRecord

LEMMA InstallPlanType ==
    ASSUME SetupType, NEW f \in I!Files, NEW sel
    PROVE  /\ I!InstallPlan(f, sel) \in ConfigPlan
           /\ I!InstallPlan(f, sel).do = "skip" <=> f \notin I!FilesOf(sel)
           /\ I!InstallPlan(f, sel).do # "skip" =>
                  /\ I!InstallPlan(f, sel).expected = i_file[f]
                  /\ I!InstallPlan(f, sel).content = I!With(i_file[f], i_bundled)
                  /\ I!InstallPlan(f, sel).do = "keep" => i_file[f].entry = i_bundled
<1>1. i_file[f] \in ConfigFile /\ i_bundled \in Contents
  BY VersionFacts DEF SetupType
<1>2. I!With(i_file[f], i_bundled) \in ConfigFile
  BY <1>1, WithType
<1> QED BY <1>1, <1>2, NoPlanType DEF I!InstallPlan, ConfigPlan

LEMMA StartSetupFacts ==
    ASSUME SetupType, NEW sel \in SUBSET I!Clients, I!StartSetup(sel)
    PROVE  /\ SetupType' /\ Starts("move", sel) /\ Snapped /\ i_hist'.left = i_hist.left
           /\ UNCHANGED <<i_bundled, i_defaults, i_file, i_skill, i_output, i_backup, i_faults>>
           /\ \A f \in I!Files : i_cmd'.plan[f] = I!InstallPlan(f, sel)
           /\ \A k \in I!Skills : i_cmd'.skills[k] = I!SkillPlan(k, sel)
<1> DEFINE plan == [f \in I!Files |-> I!InstallPlan(f, sel)]
           skills == [k \in I!Skills |-> I!SkillPlan(k, sel)]
<1>1. /\ i_cmd' = [I!Idle EXCEPT !.pc = "move", !.sel = sel, !.plan = plan, !.skills = skills]
      /\ i_hist' = I!Snapshot /\ UNCHANGED <<i_bundled, i_defaults, i_file, i_skill, i_output, i_backup, i_faults>>
  BY DEF I!StartSetup
<1>2. plan \in [I!Files -> ConfigPlan]
  BY InstallPlanType
<1>3. skills \in [I!Skills -> {"skip", "install", "update", "existing", "remove"}]
  BY DEF I!SkillPlan
<1>4. (\A f \in I!Files : plan[f] = I!InstallPlan(f, sel)) /\ (\A k \in I!Skills : skills[k] = I!SkillPlan(k, sel))
  OBVIOUS
<1> HIDE DEF plan, skills
<1>5. Starts("move", sel) /\ i_cmd'.plan = plan /\ i_cmd'.skills = skills
  BY <1>1, <1>2, <1>3, IdleFacts DEF Starts, CommandRecord, SettingUp
<1>6. Snapped /\ i_hist'.left = i_hist.left
  BY <1>1, SnapshotFacts DEF Snapped
<1> QED BY <1>1, <1>4, <1>5, <1>6 DEF SetupType, Starts, Snapped, Moved

LEMMA RemovalPlanType ==
    ASSUME SetupType, NEW f \in I!Files, NEW sel
    PROVE  /\ I!RemovalPlan(f, sel) \in ConfigPlan /\ I!RemovalPlan(f, sel).do \in {"skip", "write"}
           /\ I!RemovalPlan(f, sel).do = "write" <=> f \in I!RemovalFiles(sel) /\ i_file[f].entry # 0
           /\ I!RemovalPlan(f, sel).do # "skip" =>
                  /\ I!RemovalPlan(f, sel).expected = i_file[f]
                  /\ I!RemovalPlan(f, sel).content = I!With(i_file[f], 0)
<1>1. i_file[f] \in ConfigFile /\ 0 \in Contents
  BY VersionFacts DEF SetupType
<1>2. I!With(i_file[f], 0) \in ConfigFile
  BY <1>1, WithType
<1> QED BY <1>1, <1>2, NoPlanType DEF I!RemovalPlan, ConfigPlan

LEMMA StartDetachFacts ==
    ASSUME SetupType, NEW sel \in SUBSET I!Clients, I!StartDetach(sel)
    PROVE  /\ SetupType' /\ Starts("remove", sel) /\ Snapped
           /\ i_hist'.left = i_hist.left \cup (IF I!PreserveShared(sel) THEN {"mcp"} ELSE {})
           /\ UNCHANGED <<i_bundled, i_defaults, i_file, i_skill, i_output, i_backup, i_faults>>
           /\ \A f \in I!Files : i_cmd'.plan[f] = I!RemovalPlan(f, sel)
           /\ \A k \in I!Skills : i_cmd'.skills[k] =
                  IF k \in I!RemovalSkills(sel) /\ i_skill[k] # 0 THEN "remove" ELSE "skip"
<1> DEFINE plan == [f \in I!Files |-> I!RemovalPlan(f, sel)]
           skills == [k \in I!Skills |->
                          IF k \in I!RemovalSkills(sel) /\ i_skill[k] # 0 THEN "remove" ELSE "skip"]
           more == IF I!PreserveShared(sel) THEN {"mcp"} ELSE {}
<1>1. /\ i_cmd' = [I!Idle EXCEPT !.pc = "remove", !.sel = sel, !.plan = plan, !.skills = skills]
      /\ i_hist' = [I!Snapshot EXCEPT !.left = I!Snapshot.left \cup more]
      /\ UNCHANGED <<i_bundled, i_defaults, i_file, i_skill, i_output, i_backup, i_faults>>
  BY DEF I!StartDetach
<1>2. plan \in [I!Files -> ConfigPlan]
  BY RemovalPlanType
<1>3. skills \in [I!Skills -> {"skip", "install", "update", "existing", "remove"}]
  OBVIOUS
<1>4. /\ \A f \in I!Files : plan[f] = I!RemovalPlan(f, sel)
      /\ \A k \in I!Skills : skills[k] =
             IF k \in I!RemovalSkills(sel) /\ i_skill[k] # 0 THEN "remove" ELSE "skip"
      /\ more \subseteq I!Files
  BY DEF I!Files
<1>5. Starts("remove", sel) /\ i_cmd'.plan = plan /\ i_cmd'.skills = skills
  <2> HIDE DEF plan, skills
  <2> QED BY <1>1, <1>2, <1>3, IdleFacts DEF Starts, CommandRecord, DetachSteps
<1>6. Snapped /\ i_hist'.left = i_hist.left \cup more
  <2> HIDE DEF more
  <2> QED BY <1>1, <1>4, SnapshotFacts DEF Snapped, HistoryRecord
<1> QED BY <1>1, <1>4, <1>5, <1>6 DEF SetupType, Starts, Snapped, Moved

LEMMA PendingFiles == I!Pending \subseteq I!Files
BY DEF I!Pending

\* A record whose policy alone changes, and one that is complete.
LEMMA PolicyChanged ==
    ASSUME NEW o \in SetupRecord, NEW n \in Nat, o.state = "none" => n = 0
    PROVE  /\ [o EXCEPT !.policy = n] \in SetupRecord /\ [o EXCEPT !.policy = n].policy = n
           /\ SameRecord([o EXCEPT !.policy = n], o)
<1> DEFINE p == [o EXCEPT !.policy = n]
<1>1. /\ p.state = o.state /\ p.clients = o.clients /\ p.conf = o.conf /\ p.managed = o.managed
      /\ p.fp = o.fp /\ p.policy = n
      /\ p \in [state : {"none", "partial", "ok"}, clients : SUBSET I!Clients, conf : 0 .. MaxVersion,
                managed : SUBSET I!Slots, fp : [I!Skills -> 0 .. MaxVersion], policy : Nat]
  BY DEF SetupRecord
<1>2. CASE o.state = "none"
  <2>1. o = I!NoSetup /\ n = 0
    BY <1>2 DEF SetupRecord
  <2>2. p = I!NoSetup
    BY <2>1 DEF I!NoSetup
  <2> QED BY <2>1, <2>2, NoSetupType, <1>1 DEF SameRecord
<1>3. CASE o.state # "none"
  BY <1>1, <1>3 DEF SetupRecord, SameRecord
<1> QED BY <1>2, <1>3

LEMMA MoveOutputFacts ==
    ASSUME SetupType, I!MoveOutput
    PROVE  /\ SetupType' /\ i_cmd.pc = "move" /\ Goes("bundle") /\ Carries
           /\ i_backup' = i_output /\ i_output'.state = "partial" /\ i_output'.policy = 0
           /\ UNCHANGED <<i_bundled, i_defaults, i_hist, i_file, i_skill, i_faults>>
<1>1. I!GoTo("bundle") /\ i_cmd.pc = "move"
  BY DEF I!MoveOutput, I!At
<1>2. Goes("bundle") /\ Carries
  BY <1>1, GoToFacts DEF SetupType, SetupSteps, SettingUp, Moved
<1>3. i_output' = [I!NoSetup EXCEPT !.state = "partial"] /\ i_backup' = i_output
      /\ UNCHANGED <<i_bundled, i_defaults, i_hist, i_file, i_skill, i_faults>>
  BY DEF I!MoveOutput, I!Setup
<1>4. i_output' \in SetupRecord /\ i_output'.state = "partial" /\ i_output'.policy = 0
  BY <1>3, NoSetupType DEF SetupRecord, I!NoSetup
<1> QED BY <1>1, <1>2, <1>3, <1>4 DEF SetupType, Goes

LEMMA WriteBundleFacts ==
    ASSUME SetupType, I!WriteBundle
    PROVE  /\ SetupType' /\ i_cmd.pc = "bundle" /\ Goes("skills") /\ Carries
           /\ SameRecord(i_backup', i_backup) /\ i_backup'.policy = 0
           /\ i_output'.state = i_output.state /\ i_output'.conf = i_bundled
           /\ i_backup.policy # 0 => i_output'.policy = i_backup.policy
           /\ UNCHANGED <<i_bundled, i_defaults, i_hist, i_file, i_skill, i_faults>>
<1>1. I!GoTo("skills") /\ i_cmd.pc = "bundle"
  BY DEF I!WriteBundle, I!At
<1>2. Goes("skills") /\ Carries
  BY <1>1, GoToFacts DEF SetupType, SetupSteps, SettingUp, Moved
<1> DEFINE policy == IF i_backup.policy # 0 THEN i_backup.policy ELSE 1
<1>3. /\ i_output' = [i_output EXCEPT !.conf = i_bundled, !.policy = policy]
      /\ i_backup' = [i_backup EXCEPT !.policy = 0]
      /\ UNCHANGED <<i_bundled, i_defaults, i_hist, i_file, i_skill, i_faults>>
  BY DEF I!WriteBundle, I!Setup
<1>4. policy \in Nat /\ i_bundled \in 0 .. MaxVersion /\ i_output.state # "none"
  BY <1>1, VersionFacts DEF SetupType, SetupRecord, Moved
<1>5. i_backup' \in SetupRecord /\ SameRecord(i_backup', i_backup) /\ i_backup'.policy = 0
  BY <1>3, PolicyChanged DEF SetupType
<1>6. i_output \in SetupRecord
  BY DEF SetupType
<1> HIDE DEF policy
<1>7. /\ i_output' \in SetupRecord /\ i_output'.state = i_output.state /\ i_output'.conf = i_bundled
      /\ i_output'.policy = policy
  BY <1>3, <1>4, <1>6 DEF SetupRecord
<1>8. SetupType'
  BY <1>2, <1>3, <1>4, <1>5, <1>7 DEF SetupType, Goes
<1> QED BY <1>1, <1>2, <1>3, <1>5, <1>7, <1>8 DEF policy

LEMMA InstallSkillsFacts ==
    ASSUME SetupType, I!InstallSkills
    PROVE  /\ SetupType' /\ i_cmd.pc = "skills" /\ Goes("record")
           /\ i_cmd'.applied = i_cmd.applied /\ i_cmd'.refreshed = i_cmd.refreshed
           /\ i_cmd'.installed = {k \in I!Skills : i_cmd.skills[k] = "install"}
           /\ \A k \in I!Skills : i_skill'[k] = IF i_cmd.skills[k] = "install" THEN i_bundled ELSE i_skill[k]
           /\ UNCHANGED <<i_bundled, i_defaults, i_hist, i_file, i_output, i_backup, i_faults>>
<1> DEFINE new == {k \in I!Skills : i_cmd.skills[k] = "install"}
<1>1. /\ i_cmd.pc = "skills" /\ i_cmd' = [i_cmd EXCEPT !.pc = "record", !.installed = new]
      /\ i_skill' = [k \in I!Skills |-> IF k \in new THEN i_bundled ELSE i_skill[k]]
      /\ UNCHANGED <<i_bundled, i_defaults, i_hist, i_file, i_output, i_backup, i_faults>>
  BY DEF I!InstallSkills, I!At, I!Setup
<1>2. i_skill' \in [I!Skills -> Contents]
  BY <1>1, VersionFacts DEF SetupType
<1>3. new \subseteq I!Skills
  OBVIOUS
<1>4. /\ Goes("record") /\ i_cmd'.applied = i_cmd.applied /\ i_cmd'.refreshed = i_cmd.refreshed
      /\ i_cmd'.installed = new
  <2> HIDE DEF new
  <2> QED BY <1>1, <1>3 DEF SetupType, CommandRecord, Goes, SettingUp, Moved
<1>5. i_output.state # "none"
  BY <1>1 DEF SetupType, Moved
<1> QED BY <1>1, <1>2, <1>4, <1>5 DEF SetupType, Goes

LEMMA WriteRecordFacts ==
    ASSUME SetupType, I!WriteRecord
    PROVE  /\ SetupType' /\ i_cmd.pc = "record" /\ Goes("apply") /\ Carries
           /\ i_output'.state = "ok" /\ i_output'.clients = i_cmd.sel /\ i_output'.managed = I!ManagedSlots
           /\ i_output'.conf = i_output.conf /\ i_output'.policy = i_output.policy
           /\ UNCHANGED <<i_bundled, i_defaults, i_hist, i_file, i_skill, i_backup, i_faults>>
<1>1. I!GoTo("apply") /\ i_cmd.pc = "record"
  BY DEF I!WriteRecord, I!At
<1>2. Goes("apply") /\ Carries
  BY <1>1, GoToFacts DEF SetupType, SetupSteps, SettingUp, Moved
<1> DEFINE fp == [k \in I!Skills |-> I!OwnedSkill(k)]
<1>3. /\ i_output' = [i_output EXCEPT !.state = "ok", !.clients = i_cmd.sel, !.managed = I!ManagedSlots,
                                  !.fp = fp]
      /\ UNCHANGED <<i_bundled, i_defaults, i_hist, i_file, i_skill, i_backup, i_faults>>
  BY DEF I!WriteRecord, I!Setup
<1>4. fp \in [I!Skills -> 0 .. MaxVersion]
  BY VersionFacts DEF I!OwnedSkill, SetupType
<1>5. I!ManagedSlots \subseteq I!Slots /\ \A s \in I!ManagedSlots : SlotClient(s) \in i_cmd.sel
  BY DEF I!ManagedSlots, I!SlotSelected, SlotClient
<1>6. i_cmd.sel \subseteq I!Clients /\ i_output \in SetupRecord
  BY DEF SetupType, CommandRecord
<1> HIDE DEF fp
<1>7. /\ i_output' \in SetupRecord /\ i_output'.state = "ok" /\ i_output'.clients = i_cmd.sel
      /\ i_output'.managed = I!ManagedSlots /\ i_output'.conf = i_output.conf
      /\ i_output'.policy = i_output.policy
  BY <1>3, <1>4, <1>5, <1>6 DEF SetupRecord
<1> QED BY <1>1, <1>2, <1>3, <1>7 DEF SetupType, Goes

LEMMA CheckFileFacts ==
    ASSUME SetupType, I!CheckFile
    PROVE  /\ SetupType' /\ i_cmd.pc = "apply" /\ I!Pending # {} /\ Quiet
           /\ \/ Goes("rollback") /\ Carries
              \/ /\ Goes("apply") /\ i_cmd'.applied = i_cmd.applied \cup {I!First(I!Pending)}
                 /\ i_cmd'.installed = i_cmd.installed /\ i_cmd'.refreshed = i_cmd.refreshed
                 /\ PlanOf(I!First(I!Pending)).do = "keep"
              \/ /\ Goes("write") /\ Carries /\ PlanOf(I!First(I!Pending)).do = "write"
                 /\ i_file[I!First(I!Pending)] = PlanOf(I!First(I!Pending)).expected
<1> DEFINE f == I!First(I!Pending)
<1>1. i_cmd.pc = "apply" /\ I!Pending # {} /\ Quiet
  BY DEF I!CheckFile, I!At, I!Setup, Quiet
<1>2. f \in I!Pending /\ f \in I!Files
  BY <1>1, FirstPending, PendingFiles
<1>3. i_cmd \in CommandRecord /\ PlanOf(f) \in ConfigPlan /\ PlanOf(f).do # "skip"
  BY <1>2 DEF SetupType, CommandRecord, PlanOf, I!Pending
<1>4. CASE I!GoTo("rollback")
  <2>1. Goes("rollback") /\ Carries
    BY <1>3, <1>4, GoToFacts DEF SetupSteps
  <2> QED BY <2>1, <1>1 DEF SetupType, Quiet, Goes, Moved
<1>5. CASE i_cmd' = [i_cmd EXCEPT !.applied = i_cmd.applied \cup {f}] /\ PlanOf(f).do = "keep"
  <2>1. /\ Goes("apply") /\ i_cmd'.applied = i_cmd.applied \cup {f}
        /\ i_cmd'.installed = i_cmd.installed /\ i_cmd'.refreshed = i_cmd.refreshed
    <3> HIDE DEF f
    <3> QED BY <1>1, <1>2, <1>3, <1>5 DEF CommandRecord, Goes
  <2> QED BY <2>1, <1>1, <1>5 DEF SetupType, Quiet, Goes, Moved
<1>6. CASE I!GoTo("write") /\ PlanOf(f).do # "keep" /\ i_file[f] = PlanOf(f).expected
  <2>1. Goes("write") /\ Carries
    BY <1>3, <1>6, GoToFacts DEF SetupSteps, SettingUp, Moved
  <2>2. PlanOf(f).do = "write"
    BY <1>3, <1>6 DEF ConfigPlan
  <2> QED BY <2>1, <2>2, <1>1, <1>6 DEF SetupType, Quiet, Goes, Moved
<1> QED BY <1>4, <1>5, <1>6 DEF I!CheckFile, I!Unchanged, PlanOf

\* One file is replaced by what is planned for it.
Replaces(pc) ==
    /\ i_file' = [i_file EXCEPT ![I!First(I!Pending)] = PlanOf(I!First(I!Pending)).content]
    /\ Goes(pc) /\ i_cmd'.applied = i_cmd.applied \cup {I!First(I!Pending)}
    /\ i_cmd'.installed = i_cmd.installed /\ i_cmd'.refreshed = i_cmd.refreshed

LEMMA WriteFileFacts ==
    ASSUME SetupType, WriteInv, I!WriteFile
    PROVE  /\ SetupType' /\ i_cmd.pc = "write"
           /\ UNCHANGED <<i_bundled, i_defaults, i_hist, i_skill, i_output, i_backup, i_faults>>
           /\ \/ Goes("rollback") /\ Carries /\ UNCHANGED i_file
              \/ Replaces("apply") /\ ~I!Appeared(I!First(I!Pending))
<1> DEFINE f == I!First(I!Pending)
<1>1. i_cmd.pc = "write" /\ UNCHANGED <<i_bundled, i_defaults, i_hist, i_skill, i_output, i_backup, i_faults>>
  BY DEF I!WriteFile, I!At, I!Setup
<1>2. f \in I!Pending /\ f \in I!Files
  BY <1>1, FirstPending, PendingFiles DEF WriteInv
<1>3. i_cmd \in CommandRecord /\ PlanOf(f) \in ConfigPlan /\ PlanOf(f).content \in ConfigFile
  BY <1>2 DEF SetupType, CommandRecord, PlanOf, ConfigPlan
<1>4. CASE I!GoTo("rollback") /\ UNCHANGED i_file
  <2>1. Goes("rollback") /\ Carries
    BY <1>3, <1>4, GoToFacts DEF SetupSteps
  <2> QED BY <2>1, <1>1, <1>4 DEF SetupType, Goes, Moved
<1>5. CASE /\ ~I!Appeared(f) /\ i_file' = [i_file EXCEPT ![f] = PlanOf(f).content]
           /\ i_cmd' = [i_cmd EXCEPT !.pc = "apply", !.applied = i_cmd.applied \cup {f}]
  <2>1. Replaces("apply")
    BY <1>2, <1>3, <1>5, AppliesFacts DEF Replaces, SetupSteps, SettingUp, Moved
  <2>2. i_file' \in [I!Files -> ConfigFile]
    <3> HIDE DEF f
    <3> QED BY <1>2, <1>3, <1>5 DEF SetupType
  <2> QED BY <2>1, <2>2, <1>1, <1>5 DEF SetupType, Goes, Moved, Replaces
<1> QED BY <1>4, <1>5 DEF I!WriteFile, PlanOf

LEMMA FilesAppliedFacts ==
    ASSUME SetupType, I!FilesApplied
    PROVE  SetupType' /\ i_cmd.pc = "apply" /\ I!Pending = {} /\ Goes("refresh") /\ Carries /\ Quiet
<1>1. i_cmd.pc = "apply" /\ I!Pending = {} /\ Quiet /\ I!GoTo("refresh")
  BY DEF I!FilesApplied, I!At, I!Setup, Quiet
<1>2. Goes("refresh") /\ Carries
  BY <1>1, GoToFacts DEF SetupType, SetupSteps, SettingUp, Moved
<1> QED BY <1>1, <1>2 DEF SetupType, Quiet, Goes, Moved

LEMMA RefreshSkillFacts ==
    ASSUME SetupType, I!RefreshSkill
    PROVE  /\ SetupType' /\ i_cmd.pc = "refresh"
           /\ UNCHANGED <<i_bundled, i_defaults, i_hist, i_file, i_output, i_backup, i_faults>>
           /\ \/ Goes("rollback") /\ Carries /\ UNCHANGED i_skill
              \/ \E k \in I!Skills :
                    /\ i_skill' = [i_skill EXCEPT ![k] = i_bundled] /\ i_skill[k] # I!User
                    /\ i_cmd'.refreshed = i_cmd.refreshed \cup {k}
                    /\ i_cmd'.applied = i_cmd.applied /\ i_cmd'.installed = i_cmd.installed /\ Goes("refresh")
<1>1. i_cmd.pc = "refresh" /\ UNCHANGED <<i_bundled, i_defaults, i_hist, i_file, i_output, i_backup, i_faults>>
  BY DEF I!RefreshSkill, I!At, I!Setup
<1> DEFINE k == IF "shared" \in I!Stale THEN "shared" ELSE "claude"
<1>2. k \in I!Skills /\ i_cmd \in CommandRecord
  BY DEF I!Skills, SetupType
<1>3. CASE I!GoTo("rollback") /\ UNCHANGED i_skill
  <2>1. Goes("rollback") /\ Carries
    BY <1>2, <1>3, GoToFacts DEF SetupSteps
  <2> QED BY <2>1, <1>1, <1>3 DEF SetupType, Goes, Moved
<1>4. CASE /\ i_skill[k] = IF i_backup.fp[k] # 0 THEN i_backup.fp[k] ELSE i_bundled
           /\ i_skill' = [i_skill EXCEPT ![k] = i_bundled]
           /\ i_cmd' = [i_cmd EXCEPT !.refreshed = i_cmd.refreshed \cup {k}]
  <2> HIDE DEF k
  <2>1. i_skill[k] # I!User
    <3>1. i_backup.fp[k] \in 0 .. MaxVersion
      BY <1>2 DEF SetupType, SetupRecord
    <3> QED BY <3>1, <1>4, VersionFacts DEF SetupType
  <2>2. /\ i_cmd'.refreshed = i_cmd.refreshed \cup {k}
        /\ i_cmd'.applied = i_cmd.applied /\ i_cmd'.installed = i_cmd.installed /\ Goes("refresh")
    BY <1>1, <1>2, <1>4 DEF CommandRecord, Goes
  <2>3. i_skill' \in [I!Skills -> Contents]
    BY <1>2, <1>4, VersionFacts DEF SetupType
  <2>4. SetupType'
    BY <2>2, <2>3, <1>1 DEF SetupType, Goes, Moved
  <2> QED BY <1>1, <1>2, <1>4, <2>1, <2>2, <2>4
<1> QED BY <1>3, <1>4 DEF I!RefreshSkill

LEMMA RemoveBackupFacts ==
    ASSUME SetupType, I!RemoveBackup
    PROVE  /\ SetupType' /\ i_cmd.pc = "refresh" /\ Ended("ok") /\ i_backup' = I!NoSetup
           /\ i_hist'.other = i_hist.other /\ i_hist'.own = i_hist.own /\ i_hist'.policy = i_hist.policy
           /\ i_hist'.raced = i_hist.raced /\ i_hist'.left = i_hist.left
           /\ UNCHANGED <<i_bundled, i_defaults, i_file, i_skill, i_output, i_faults>>
<1>1. /\ i_cmd.pc = "refresh" /\ i_backup' = I!NoSetup /\ i_cmd' = [I!Idle EXCEPT !.result = "ok", !.sel = i_cmd.sel]
      /\ i_hist' = [i_hist EXCEPT !.detached = {}]
      /\ UNCHANGED <<i_bundled, i_defaults, i_file, i_skill, i_output, i_faults>>
  BY DEF I!RemoveBackup, I!At
<1>2. Ended("ok")
  BY <1>1, IdleFacts DEF Ended, CommandRecord, SetupType
<1>3. /\ i_hist'.other = i_hist.other /\ i_hist'.own = i_hist.own /\ i_hist'.policy = i_hist.policy
      /\ i_hist'.raced = i_hist.raced /\ i_hist'.left = i_hist.left /\ i_hist' \in HistoryRecord
  BY <1>1 DEF SetupType, HistoryRecord
<1> QED BY <1>1, <1>2, <1>3, NoSetupType DEF SetupType, Ended, Moved

LEMMA StepRefusedFacts ==
    ASSUME SetupType, NEW pc, I!StepRefused(pc)
    PROVE  SetupType' /\ i_cmd.pc = pc /\ Goes("rollback") /\ Carries /\ Quiet
<1>1. i_cmd.pc = pc /\ Quiet /\ I!GoTo("rollback")
  BY DEF I!StepRefused, I!At, I!Setup, Quiet
<1>2. Goes("rollback") /\ Carries
  BY <1>1, GoToFacts DEF SetupType, SetupSteps
<1> QED BY <1>1, <1>2 DEF SetupType, Quiet, Goes, Moved

LEMMA SetupFailsFacts ==
    ASSUME SetupType, I!SetupFails
    PROVE  /\ SetupType' /\ i_cmd.pc \in SettingUp /\ Goes("rollback") /\ Carries
           /\ i_faults' = i_faults + 1
           /\ UNCHANGED <<i_bundled, i_defaults, i_hist, i_file, i_skill, i_output>>
           /\ \/ UNCHANGED i_backup
              \/ i_cmd.pc = "refresh" /\ i_backup'.state = "partial" /\ i_backup'.policy = i_backup.policy
<1>1. /\ i_cmd.pc \in SettingUp /\ I!GoTo("rollback") /\ i_faults' = i_faults + 1
      /\ UNCHANGED <<i_bundled, i_defaults, i_hist, i_file, i_skill, i_output>>
  BY DEF I!SetupFails, I!FaultAllowed, I!Setup, SettingUp, Moved
<1>2. Goes("rollback") /\ Carries
  BY <1>1, GoToFacts DEF SetupType, SetupSteps
<1>3. \/ UNCHANGED i_backup
      \/ /\ i_cmd.pc = "refresh" /\ i_backup.state # "none"
         /\ i_backup' = [i_backup EXCEPT !.state = "partial"]
  BY DEF I!SetupFails, I!At
<1>4. /\ i_backup' \in SetupRecord
      /\ \/ UNCHANGED i_backup
         \/ i_cmd.pc = "refresh" /\ i_backup'.state = "partial" /\ i_backup'.policy = i_backup.policy
  BY <1>3 DEF SetupType, SetupRecord
<1> QED BY <1>1, <1>2, <1>4 DEF SetupType, Goes, Moved

LEMMA RollbackFacts ==
    ASSUME SetupType, BackupInv, I!Rollback
    PROVE  /\ SetupType' /\ i_cmd.pc = "rollback" /\ Ended("failed") /\ i_cmd'.refreshed = i_cmd.refreshed
           /\ \A f \in I!Files : i_file'[f] = I!RolledBack(f)
           /\ \A k \in I!Skills : i_skill'[k] = IF k \in i_cmd.installed THEN 0 ELSE i_skill[k]
           /\ i_backup' = I!NoSetup
           /\ i_backup.state # "none" =>
                  /\ SameRecord(i_output', i_backup)
                  /\ i_output'.policy = IF i_backup.policy # 0 THEN i_backup.policy ELSE i_output.policy
           /\ i_backup.state = "none" =>
                  i_output' = IF i_output.state = "partial" \/ i_cmd.applied # {} \/ i_hist.output.state = "none"
                            THEN I!NoSetup ELSE i_output
           /\ i_hist'.other = i_hist.other /\ i_hist'.own = i_hist.own /\ i_hist'.policy = i_hist.policy
           /\ i_hist'.raced = i_hist.raced /\ i_hist'.left = i_hist.left \cup I!LeftWritten
           /\ i_hist'.output = i_hist.output /\ i_hist'.file = i_hist.file /\ i_hist'.skill = i_hist.skill
           /\ UNCHANGED <<i_bundled, i_defaults, i_faults>>
<1> DEFINE policy == IF i_backup.policy # 0 THEN i_backup.policy ELSE i_output.policy
<1>1. /\ i_cmd.pc = "rollback" /\ i_backup' = I!NoSetup
      /\ i_file' = [f \in I!Files |-> I!RolledBack(f)]
      /\ i_skill' = [k \in I!Skills |-> IF k \in i_cmd.installed THEN 0 ELSE i_skill[k]]
      /\ i_output' = IF i_backup.state # "none" THEN [i_backup EXCEPT !.policy = policy]
                   ELSE IF i_output.state = "partial" \/ i_cmd.applied # {} \/ i_hist.output.state = "none"
                        THEN I!NoSetup ELSE i_output
      /\ i_cmd' = [I!Idle EXCEPT !.result = "failed", !.refreshed = i_cmd.refreshed]
      /\ i_hist' = [i_hist EXCEPT !.left = i_hist.left \cup I!LeftWritten]
      /\ UNCHANGED <<i_bundled, i_defaults, i_faults>>
  BY DEF I!Rollback, I!At, I!PolicyReturned
<1>2. Ended("failed") /\ i_cmd'.refreshed = i_cmd.refreshed
  BY <1>1, IdleFacts DEF Ended, CommandRecord, SetupType
<1>3. I!LeftWritten \subseteq I!Files
  BY DEF I!LeftWritten, SetupType, CommandRecord
<1>4. /\ i_hist' \in HistoryRecord
      /\ i_hist'.other = i_hist.other /\ i_hist'.own = i_hist.own /\ i_hist'.policy = i_hist.policy
      /\ i_hist'.raced = i_hist.raced /\ i_hist'.left = i_hist.left \cup I!LeftWritten
      /\ i_hist'.output = i_hist.output /\ i_hist'.file = i_hist.file /\ i_hist'.skill = i_hist.skill
  BY <1>1, <1>3 DEF SetupType, HistoryRecord
<1>5. i_file' \in [I!Files -> ConfigFile]
  <2>1. \A f \in I!Files : i_cmd.plan[f] \in ConfigPlan
    BY DEF SetupType, CommandRecord
  <2>2. \A f \in I!Files : I!RolledBack(f) \in ConfigFile
    BY <2>1 DEF SetupType, ConfigPlan, I!RolledBack
  <2> QED BY <1>1, <2>2
<1>6. i_skill' \in [I!Skills -> Contents]
  BY <1>1, VersionFacts DEF SetupType
<1>7. policy \in Nat /\ i_backup \in SetupRecord /\ i_output \in SetupRecord
  BY DEF SetupType, SetupRecord
<1> HIDE DEF policy
<1>8. /\ i_output' \in SetupRecord
      /\ i_backup.state # "none" => SameRecord(i_output', i_backup) /\ i_output'.policy = policy
  BY <1>1, <1>7, PolicyChanged, NoSetupType
<1>9. SetupType'
  BY <1>1, <1>2, <1>4, <1>5, <1>6, <1>8, NoSetupType DEF SetupType, Ended, Moved
<1> QED BY <1>1, <1>2, <1>4, <1>8, <1>9 DEF policy

LEMMA RemoveEntryFacts ==
    ASSUME SetupType, I!RemoveEntry
    PROVE  /\ SetupType' /\ i_cmd.pc = "remove" /\ I!Pending # {} /\ Quiet
           /\ \/ Ended("error")
              \/ /\ Goes("erase") /\ Carries
                 /\ i_file[I!First(I!Pending)] = PlanOf(I!First(I!Pending)).expected
<1>1. i_cmd.pc = "remove" /\ I!Pending # {} /\ Quiet
  BY DEF I!RemoveEntry, I!At, I!Setup, Quiet
<1>2. CASE i_cmd' = [I!Idle EXCEPT !.result = "error"]
  BY <1>1, <1>2, EndFacts DEF Results, SetupType, Ended, Quiet, Moved
<1>3. CASE I!GoTo("erase") /\ i_file[I!First(I!Pending)] = PlanOf(I!First(I!Pending)).expected
  <2>1. Goes("erase") /\ Carries
    BY <1>3, GoToFacts DEF SetupType, SetupSteps, DetachSteps
  <2> QED BY <2>1, <1>1, <1>3 DEF SetupType, Goes, Quiet, Moved
<1> QED BY <1>2, <1>3 DEF I!RemoveEntry, I!Unchanged, PlanOf

LEMMA EraseEntryFacts ==
    ASSUME SetupType, WriteInv, I!EraseEntry
    PROVE  /\ SetupType' /\ i_cmd.pc = "erase" /\ Replaces("remove")
           /\ UNCHANGED <<i_bundled, i_defaults, i_hist, i_skill, i_output, i_backup, i_faults>>
<1> DEFINE f == I!First(I!Pending)
<1>1. /\ i_cmd.pc = "erase" /\ UNCHANGED <<i_bundled, i_defaults, i_hist, i_skill, i_output, i_backup, i_faults>>
      /\ i_file' = [i_file EXCEPT ![f] = PlanOf(f).content]
      /\ i_cmd' = [i_cmd EXCEPT !.pc = "remove", !.applied = i_cmd.applied \cup {f}]
  BY DEF I!EraseEntry, I!At, I!Setup, PlanOf
<1>2. f \in I!Pending /\ f \in I!Files
  BY <1>1, FirstPending, PendingFiles DEF WriteInv
<1>3. i_cmd \in CommandRecord /\ PlanOf(f) \in ConfigPlan /\ PlanOf(f).content \in ConfigFile
  BY <1>2 DEF SetupType, CommandRecord, PlanOf, ConfigPlan
<1>4. Replaces("remove")
  BY <1>1, <1>2, <1>3, AppliesFacts DEF Replaces, SetupSteps, DetachSteps
<1>5. i_file' \in [I!Files -> ConfigFile]
  <2> HIDE DEF f
  <2> QED BY <1>1, <1>2, <1>3 DEF SetupType
<1> QED BY <1>1, <1>4, <1>5 DEF SetupType, Goes, Moved, Replaces

LEMMA RemoveSkillsFacts ==
    ASSUME SetupType, I!RemoveSkills
    PROVE  /\ SetupType' /\ i_cmd.pc = "remove" /\ I!Pending = {}
           /\ Ended("error") \/ Ended("detached")
           /\ \A k \in I!Skills :
                  i_skill'[k] = IF i_cmd.skills[k] = "remove" /\ i_skill[k] = i_hist.skill[k] THEN 0 ELSE i_skill[k]
           /\ i_hist'.other = i_hist.other /\ i_hist'.own = i_hist.own /\ i_hist'.policy = i_hist.policy
           /\ i_hist'.raced = i_hist.raced /\ i_hist'.left = i_hist.left
           /\ UNCHANGED <<i_bundled, i_defaults, i_file, i_output, i_backup, i_faults>>
<1> DEFINE gone == {k \in I!Skills : i_cmd.skills[k] = "remove"}
           unchanged == {k \in gone : i_skill[k] = i_hist.skill[k]}
           more == i_hist.detached \cup i_cmd.sel
<1>1. /\ i_cmd.pc = "remove" /\ I!Pending = {}
      /\ i_skill' = [k \in I!Skills |-> IF k \in unchanged THEN 0 ELSE i_skill[k]]
      /\ i_cmd' = [I!Idle EXCEPT !.result = IF unchanged = gone THEN "detached" ELSE "error"]
      /\ i_hist' = IF unchanged = gone THEN [i_hist EXCEPT !.detached = more] ELSE i_hist
      /\ UNCHANGED <<i_bundled, i_defaults, i_file, i_output, i_backup, i_faults>>
  BY DEF I!RemoveSkills, I!At
<1>2. Ended("error") \/ Ended("detached")
  BY <1>1, EndFacts DEF Results
<1>3. i_skill' \in [I!Skills -> Contents]
  BY <1>1, VersionFacts DEF SetupType
<1>4. more \subseteq I!Clients
  BY DEF SetupType, HistoryRecord, CommandRecord
<1>5. /\ i_hist'.other = i_hist.other /\ i_hist'.own = i_hist.own /\ i_hist'.policy = i_hist.policy
      /\ i_hist'.raced = i_hist.raced /\ i_hist'.left = i_hist.left /\ i_hist' \in HistoryRecord
  <2> HIDE DEF gone, unchanged, more
  <2> QED BY <1>1, <1>4 DEF SetupType, HistoryRecord
<1>6. SetupType'
  BY <1>1, <1>2, <1>3, <1>5 DEF SetupType, Ended, Moved
<1> QED BY <1>1, <1>2, <1>5, <1>6

\* The user's edits.
LEMMA EditFileFacts ==
    ASSUME SetupType, NEW f \in I!Files, I!EditFile(f)
    PROVE  /\ SetupType' /\ UNCHANGED <<i_bundled, i_backup, i_cmd, i_faults, i_skill, i_output>>
           /\ \A g \in I!Files \ {f} : i_file'[g] = i_file[g] /\ i_hist'.other[g] = i_hist.other[g]
           /\ i_file'[f].other = i_file[f].other + 1 /\ i_file'[f].entry = i_file[f].entry
           /\ i_file'[f].there = "yes" /\ i_hist'.other[f] = i_hist.other[f] + 1
           /\ i_hist'.raced = i_hist.raced \cup I!Raced(f)
           /\ i_hist'.own = i_hist.own /\ i_hist'.policy = i_hist.policy /\ i_hist'.left = i_hist.left
           /\ i_hist'.output = i_hist.output /\ i_hist'.file = i_hist.file /\ i_hist'.skill = i_hist.skill
<1>1. /\ UNCHANGED <<i_bundled, i_defaults, i_backup, i_cmd, i_faults, i_skill, i_output>>
      /\ i_file' = [i_file EXCEPT ![f].other = i_file[f].other + 1, ![f].there = "yes"]
      /\ i_hist' = [i_hist EXCEPT !.other[f] = i_hist.other[f] + 1, !.raced = i_hist.raced \cup I!Raced(f)]
  BY DEF I!EditFile, I!Aside
<1> DEFINE x == [i_file[f] EXCEPT !.other = i_file[f].other + 1, !.there = "yes"]
           other == [i_hist.other EXCEPT ![f] = i_hist.other[f] + 1]
           raced == i_hist.raced \cup I!Raced(f)
<1>2. i_file[f] \in ConfigFile /\ i_hist.other \in [I!Files -> Nat] /\ raced \subseteq I!Files \cup I!Skills
  BY DEF SetupType, HistoryRecord, I!Raced
<1>3. /\ x \in ConfigFile /\ x.other = i_file[f].other + 1 /\ x.there = "yes"
      /\ x.entry = i_file[f].entry
  <2>1. ASSUME NEW y \in ConfigFile, NEW n \in Nat
        PROVE  LET z == [y EXCEPT !.other = n, !.there = "yes"]
               IN z \in ConfigFile /\ z.other = n /\ z.there = "yes" /\ z.entry = y.entry
    BY <2>1 DEF ConfigFile
  <2>2. i_file[f].other + 1 \in Nat
    BY <1>2 DEF ConfigFile
  <2> QED BY <1>2, <2>1, <2>2
<1>4. i_file' = [i_file EXCEPT ![f] = x]
  BY <1>1 DEF SetupType
<1>5. i_file' \in [I!Files -> ConfigFile] /\ i_file'[f] = x /\ \A g \in I!Files \ {f} : i_file'[g] = i_file[g]
  <2> HIDE DEF x
  <2> QED BY <1>3, <1>4 DEF SetupType
<1>6. /\ other \in [I!Files -> Nat] /\ other[f] = i_hist.other[f] + 1
      /\ \A g \in I!Files \ {f} : other[g] = i_hist.other[g]
  BY <1>2
<1>7. i_hist' = [i_hist EXCEPT !.other = other, !.raced = raced]
  BY <1>1 DEF SetupType, HistoryRecord
<1> HIDE DEF x, other, raced
<1>8. /\ i_hist' \in HistoryRecord /\ i_hist'.other = other /\ i_hist'.raced = raced
      /\ i_hist'.own = i_hist.own /\ i_hist'.policy = i_hist.policy /\ i_hist'.left = i_hist.left
      /\ i_hist'.output = i_hist.output /\ i_hist'.file = i_hist.file /\ i_hist'.skill = i_hist.skill
  BY <1>2, <1>6, <1>7 DEF SetupType, HistoryRecord
<1>9. SetupType'
  BY <1>1, <1>5, <1>8 DEF SetupType
<1> QED BY <1>1, <1>3, <1>5, <1>6, <1>8, <1>9 DEF raced

LEMMA EditEntryFacts ==
    ASSUME SetupType, NEW f \in I!Files, I!EditEntry(f)
    PROVE  /\ SetupType' /\ UNCHANGED <<i_bundled, i_backup, i_cmd, i_faults, i_skill, i_output>>
           /\ \A g \in I!Files \ {f} : i_file'[g] = i_file[g]
           /\ i_file'[f].other = i_file[f].other /\ i_file'[f].entry = I!User /\ i_file'[f].there = "yes"
           /\ i_hist'.other = i_hist.other /\ i_hist'.own = i_hist.own \cup {f}
           /\ i_hist'.raced = i_hist.raced \cup I!Raced(f)
           /\ i_hist'.policy = i_hist.policy /\ i_hist'.left = i_hist.left
           /\ i_hist'.output = i_hist.output /\ i_hist'.file = i_hist.file /\ i_hist'.skill = i_hist.skill
<1> DEFINE x == I!With(i_file[f], I!User)
           raced == i_hist.raced \cup I!Raced(f)
<1>1. /\ UNCHANGED <<i_bundled, i_defaults, i_backup, i_cmd, i_faults, i_skill, i_output>>
      /\ i_file' = [i_file EXCEPT ![f] = x]
      /\ i_hist' = [i_hist EXCEPT !.own = i_hist.own \cup {f}, !.raced = raced]
  BY DEF I!EditEntry, I!Aside
<1>2. raced \subseteq I!Files \cup I!Skills
  BY DEF SetupType, HistoryRecord, I!Raced
<1>3. x \in ConfigFile /\ x.other = i_file[f].other /\ x.there = "yes" /\ x.entry = I!User
  BY WithType, VersionFacts DEF SetupType
<1> HIDE DEF x, raced
<1>4. i_file' \in [I!Files -> ConfigFile] /\ i_file'[f] = x /\ \A g \in I!Files \ {f} : i_file'[g] = i_file[g]
  BY <1>1, <1>3 DEF SetupType
<1>5. /\ i_hist' \in HistoryRecord /\ i_hist'.other = i_hist.other /\ i_hist'.raced = raced
      /\ i_hist'.own = i_hist.own \cup {f} /\ i_hist'.policy = i_hist.policy /\ i_hist'.left = i_hist.left
      /\ i_hist'.output = i_hist.output /\ i_hist'.file = i_hist.file /\ i_hist'.skill = i_hist.skill
  BY <1>1, <1>2 DEF SetupType, HistoryRecord
<1>6. SetupType'
  BY <1>1, <1>4, <1>5 DEF SetupType
<1> QED BY <1>1, <1>3, <1>4, <1>5, <1>6 DEF raced

LEMMA ModifySkillFacts ==
    ASSUME SetupType, NEW k \in I!Skills, I!ModifySkill(k)
    PROVE  /\ SetupType' /\ UNCHANGED <<i_bundled, i_backup, i_cmd, i_faults, i_file, i_output>>
           /\ \A j \in I!Skills \ {k} : i_skill'[j] = i_skill[j]
           /\ i_skill'[k] = I!User /\ i_skill[k] # 0
           /\ i_hist'.other = i_hist.other /\ i_hist'.own = i_hist.own \cup {k}
           /\ i_hist.raced \subseteq i_hist'.raced /\ (k \in i_cmd.installed => k \in i_hist'.raced)
           /\ i_hist'.raced \subseteq i_hist.raced \cup {k}
           /\ i_hist'.policy = i_hist.policy /\ i_hist'.left = i_hist.left
           /\ i_hist'.output = i_hist.output /\ i_hist'.file = i_hist.file /\ i_hist'.skill = i_hist.skill
<1> DEFINE raced == i_hist.raced \cup (IF k \in i_cmd.installed THEN {k} ELSE {})
<1>1. /\ UNCHANGED <<i_bundled, i_defaults, i_backup, i_cmd, i_faults, i_file, i_output>>
      /\ i_skill[k] # 0 /\ i_skill' = [i_skill EXCEPT ![k] = I!User]
      /\ i_hist' = [i_hist EXCEPT !.own = i_hist.own \cup {k}, !.raced = raced]
  BY DEF I!ModifySkill, I!Aside
<1>2. raced \subseteq I!Files \cup I!Skills
  BY DEF SetupType, HistoryRecord
<1>3. i_skill' \in [I!Skills -> Contents] /\ i_skill'[k] = I!User /\ \A j \in I!Skills \ {k} : i_skill'[j] = i_skill[j]
  BY <1>1, VersionFacts DEF SetupType
<1> HIDE DEF raced
<1>4. /\ i_hist' \in HistoryRecord /\ i_hist'.other = i_hist.other /\ i_hist'.raced = raced
      /\ i_hist'.own = i_hist.own \cup {k} /\ i_hist'.policy = i_hist.policy /\ i_hist'.left = i_hist.left
      /\ i_hist'.output = i_hist.output /\ i_hist'.file = i_hist.file /\ i_hist'.skill = i_hist.skill
  BY <1>1, <1>2 DEF SetupType, HistoryRecord
<1>5. SetupType'
  BY <1>1, <1>3, <1>4 DEF SetupType
<1> QED BY <1>1, <1>3, <1>4, <1>5 DEF raced

LEMMA EditPolicyFacts ==
    ASSUME SetupType, I!EditPolicy
    PROVE  /\ SetupType' /\ UNCHANGED <<i_bundled, i_backup, i_cmd, i_faults, i_file, i_skill>>
           /\ SameRecord(i_output', i_output) /\ i_output'.policy = i_output.policy + 1
           /\ i_output.policy # 0 /\ (i_cmd.pc = "idle" \/ i_hist.output.policy # 0)
           /\ i_hist'.policy = i_output.policy + 1
           /\ i_hist'.other = i_hist.other /\ i_hist'.own = i_hist.own
           /\ i_hist'.raced = i_hist.raced /\ i_hist'.left = i_hist.left
           /\ i_hist'.output = i_hist.output /\ i_hist'.file = i_hist.file /\ i_hist'.skill = i_hist.skill
<1> DEFINE n == i_output.policy + 1
<1>1. /\ UNCHANGED <<i_bundled, i_defaults, i_backup, i_cmd, i_faults, i_file, i_skill>>
      /\ i_output.policy # 0 /\ (i_cmd.pc = "idle" \/ i_hist.output.policy # 0)
      /\ i_output' = [i_output EXCEPT !.policy = n] /\ i_hist' = [i_hist EXCEPT !.policy = n]
  BY DEF I!EditPolicy, I!Aside, I!At
<1>2. i_output \in SetupRecord /\ n \in Nat
  BY DEF SetupType, SetupRecord
<1>3. i_output.state # "none"
  BY <1>1, <1>2, NoSetupType DEF SetupRecord
<1> HIDE DEF n
<1>4. i_output' \in SetupRecord /\ SameRecord(i_output', i_output) /\ i_output'.policy = n
  BY <1>1, <1>2, <1>3, PolicyChanged
<1>5. /\ i_hist' \in HistoryRecord /\ i_hist'.policy = n /\ i_hist'.other = i_hist.other
      /\ i_hist'.own = i_hist.own /\ i_hist'.raced = i_hist.raced /\ i_hist'.left = i_hist.left
      /\ i_hist'.output = i_hist.output /\ i_hist'.file = i_hist.file /\ i_hist'.skill = i_hist.skill
  BY <1>1, <1>2 DEF SetupType, HistoryRecord
<1>6. SetupType'
  BY <1>1, <1>3, <1>4, <1>5 DEF SetupType, SameRecord
<1> QED BY <1>1, <1>4, <1>5, <1>6 DEF n

----------------------------------------------------------------------------
(* The kinds of steps.                                                     *)

\* Nothing of the setup changes, but for the version that is installed.
Rests ==
    /\ UNCHANGED <<i_file, i_skill, i_output, i_backup, i_cmd, i_hist, i_faults>>
    /\ UNCHANGED i_bundled \/ i_cmd.pc = "idle"

\* A command that ends where it is.
Stops ==
    /\ UNCHANGED <<i_bundled, i_file, i_skill, i_output, i_backup, i_hist>>
    /\ \E result \in Results \ {"failed"} : Ended(result)
    /\ \/ i_faults' = i_faults /\ i_cmd.pc \in {"idle"} \cup DetachSteps
       \/ i_faults' = i_faults + 1

BeginsSetup(sel) ==
    /\ i_cmd.pc = "idle" /\ I!StartSetup(sel) /\ ~I!RefuseOutput /\ I!Attached(sel) = {}
    /\ \A k \in I!Skills : ~I!RefusesSkill(k, sel)
    /\ \A f \in I!FilesOf(sel) : ~I!RefusesFile(f, sel)

BeginsRemoval(sel) ==
    i_cmd.pc = "idle" /\ I!StartDetach(sel) /\ i_output.state # "partial" /\ ~I!RefusesRemoval(sel)

\* A setup that gives up.
TurnsBack ==
    /\ i_cmd.pc \in SettingUp /\ Goes("rollback") /\ Carries
    /\ UNCHANGED <<i_bundled, i_hist, i_file, i_skill, i_output>>
    /\ \/ UNCHANGED i_backup /\ i_faults' = i_faults /\ i_cmd.pc # "move"
       \/ /\ i_faults' = i_faults + 1
          /\ \/ UNCHANGED i_backup
             \/ i_cmd.pc = "refresh" /\ i_backup'.state = "partial" /\ i_backup'.policy = i_backup.policy

KeepsFile ==
    /\ i_cmd.pc = "apply" /\ I!Pending # {} /\ Goes("apply")
    /\ PlanOf(I!First(I!Pending)).do = "keep"
    /\ i_cmd'.applied = i_cmd.applied \cup {I!First(I!Pending)}
    /\ i_cmd'.installed = i_cmd.installed /\ i_cmd'.refreshed = i_cmd.refreshed
    /\ UNCHANGED <<i_bundled, i_file, i_skill, i_output, i_backup, i_hist, i_faults>>

\* The comparison that comes before a change.
Compares ==
    /\ \/ i_cmd.pc = "apply" /\ Goes("write") /\ PlanOf(I!First(I!Pending)).do = "write"
       \/ i_cmd.pc = "remove" /\ Goes("erase")
    /\ I!Pending # {} /\ Carries
    /\ i_file[I!First(I!Pending)] = PlanOf(I!First(I!Pending)).expected
    /\ UNCHANGED <<i_bundled, i_file, i_skill, i_output, i_backup, i_hist, i_faults>>

\* The change.
Changes ==
    /\ \/ i_cmd.pc = "write" /\ Replaces("apply") /\ ~I!Appeared(I!First(I!Pending))
       \/ i_cmd.pc = "erase" /\ Replaces("remove")
    /\ UNCHANGED <<i_bundled, i_skill, i_output, i_backup, i_hist, i_faults>>

Refreshes(k) ==
    /\ i_cmd.pc = "refresh" /\ Goes("refresh")
    /\ i_skill' = [i_skill EXCEPT ![k] = i_bundled] /\ i_skill[k] # I!User
    /\ i_cmd'.refreshed = i_cmd.refreshed \cup {k}
    /\ i_cmd'.applied = i_cmd.applied /\ i_cmd'.installed = i_cmd.installed
    /\ UNCHANGED <<i_bundled, i_file, i_output, i_backup, i_hist, i_faults>>

StepCase ==
    \/ Rests \/ Stops
    \/ \E sel \in SUBSET I!Clients : BeginsSetup(sel) \/ BeginsRemoval(sel)
    \/ I!MoveOutput \/ I!WriteBundle \/ I!InstallSkills \/ I!WriteRecord \/ TurnsBack \/ KeepsFile
    \/ Compares \/ Changes \/ I!FilesApplied \/ I!RemoveBackup \/ I!Rollback \/ I!RemoveSkills
    \/ (\E k \in I!Skills : Refreshes(k) \/ I!ModifySkill(k)) \/ I!EditPolicy
    \/ \E f \in I!Files : I!EditFile(f) \/ I!EditEntry(f)

LEMMA RunSetupCases ==
    ASSUME SetupType, NEW sel \in SUBSET I!Clients, I!RunSetup(sel)
    PROVE  SetupType' /\ StepCase
<1>1. i_cmd.pc = "idle"
  BY DEF I!RunSetup, I!At
<1>2. I!Attached(sel) \subseteq I!Clients
  BY DEF I!Attached, I!Disabled, SetupType, SetupRecord
<1>3. CASE \E result \in {"refused", "attached"}, attached \in SUBSET I!Clients : I!Refuse(result, attached)
  BY <1>1, <1>3, RefuseFacts DEF StepCase, Stops, Quiet, Results
<1>4. CASE BeginsSetup(sel)
  BY <1>4, StartSetupFacts DEF BeginsSetup, StepCase
<1>5. BeginsSetup(sel) \/ \E result \in {"refused", "attached"}, attached \in SUBSET I!Clients : I!Refuse(result, attached)
  BY <1>1, <1>2 DEF I!RunSetup, BeginsSetup, I!RefuseProject, I!RefuseExecutable, I!RefuseOptions,
     I!RefuseCollector, I!RefuseRecordedPolicy, I!RefuseRecordedCopy, I!RefuseCodexPath,
     I!RefuseClaudePath, I!RefuseOpencodePath, I!RefuseVscodePath, I!RefuseSkillPath,
     I!RefuseWithoutUpdate
<1> QED BY <1>3, <1>4, <1>5

LEMMA RunDetachCases ==
    ASSUME SetupType, NEW sel \in SUBSET I!Clients, I!RunDetach(sel)
    PROVE  SetupType' /\ StepCase
<1>1. i_cmd.pc = "idle"
  BY DEF I!RunDetach, I!At
<1>2. CASE I!Refuse("refused", {})
  BY <1>1, <1>2, RefuseFacts DEF StepCase, Stops, Quiet, Results
<1>3. CASE BeginsRemoval(sel)
  BY <1>3, StartDetachFacts DEF BeginsRemoval, StepCase
<1> QED BY <1>1, <1>2, <1>3 DEF I!RunDetach, BeginsRemoval

\* Every step is of one of these kinds.
LEMMA StepCases ==
    ASSUME SetupType, WriteInv, BackupInv, [I!Next]_(I!vars)
    PROVE  SetupType' /\ StepCase
<1>1. CASE UNCHANGED I!vars
  BY <1>1 DEF I!vars, SetupType, StepCase, Rests
<1>2. CASE I!InitCommand
  BY <1>2, RunSetupCases, SetupAssumption DEF I!InitCommand, I!SetupConstants
<1>3. CASE I!InitByDefault
  <2>1. I!DefaultSelection \in SUBSET I!Clients
    BY DEF I!DefaultSelection, SetupType, SetupRecord
  <2> QED BY <2>1, <1>3, RunSetupCases DEF I!InitByDefault
<1>4. CASE I!SaveClientDefaults
  <2>1. \A sel \in Selections : sel \subseteq I!Clients
    BY SetupAssumption DEF I!SetupConstants
  <2> QED BY <2>1, <1>4 DEF I!SaveClientDefaults, SetupType, StepCase, Rests
<1>5. CASE I!MoveOutput
  BY <1>5, MoveOutputFacts DEF StepCase
<1>6. CASE I!WriteBundle
  BY <1>6, WriteBundleFacts DEF StepCase
<1>7. CASE I!InstallSkills
  BY <1>7, InstallSkillsFacts DEF StepCase
<1>8. CASE I!WriteRecord
  BY <1>8, WriteRecordFacts DEF StepCase
<1>9. CASE I!CheckFile
  <2>1. TurnsBack \/ KeepsFile \/ Compares
    BY <1>9, CheckFileFacts DEF TurnsBack, KeepsFile, Compares, Quiet, SettingUp, Moved
  <2> QED BY <2>1, <1>9, CheckFileFacts DEF StepCase
<1>10. CASE I!WriteFile
  <2>1. TurnsBack \/ Changes
    BY <1>10, WriteFileFacts DEF TurnsBack, Changes, SettingUp, Moved
  <2> QED BY <2>1, <1>10, WriteFileFacts DEF StepCase
<1>11. CASE I!FilesApplied
  BY <1>11, FilesAppliedFacts DEF StepCase
<1>12. CASE I!RefreshSkill
  <2>1. TurnsBack \/ \E k \in I!Skills : Refreshes(k)
    BY <1>12, RefreshSkillFacts DEF TurnsBack, Refreshes, SettingUp, Moved
  <2> QED BY <2>1, <1>12, RefreshSkillFacts DEF StepCase
<1>13. CASE I!RemoveBackup
  BY <1>13, RemoveBackupFacts DEF StepCase
<1>14. CASE I!SetupFails
  <2>1. TurnsBack
    BY <1>14, SetupFailsFacts DEF TurnsBack
  <2> QED BY <2>1, <1>14, SetupFailsFacts DEF StepCase
<1>15. ASSUME NEW pc \in {"bundle", "skills", "record"}, I!StepRefused(pc)
       PROVE  SetupType' /\ StepCase
  <2>1. TurnsBack
    BY <1>15, StepRefusedFacts DEF TurnsBack, Quiet, SettingUp, Moved
  <2> QED BY <2>1, <1>15, StepRefusedFacts DEF StepCase
<1>16. CASE I!RefuseAssets \/ I!RefuseSkillCopy \/ I!RefuseLargeFile
  BY <1>15, <1>16 DEF I!RefuseAssets, I!RefuseSkillCopy, I!RefuseLargeFile
<1>17. CASE I!Rollback
  BY <1>17, RollbackFacts DEF StepCase
<1>18. CASE I!DetachClient
  BY <1>18, RunDetachCases DEF I!DetachClient
<1>19. CASE I!DetachAll
  <2>1. I!Configured \in SUBSET I!Clients
    BY DEF I!Configured, SetupType, SetupRecord, I!Clients
  <2> QED BY <2>1, <1>19, RunDetachCases DEF I!DetachAll
<1>20. CASE I!RemoveEntry
  <2>1. Stops \/ Compares
    BY <1>20, RemoveEntryFacts DEF Stops, Compares, Quiet, DetachSteps, Results
  <2> QED BY <2>1, <1>20, RemoveEntryFacts DEF StepCase
<1>21. CASE I!EraseEntry
  <2>1. Changes
    BY <1>21, EraseEntryFacts DEF Changes
  <2> QED BY <2>1, <1>21, EraseEntryFacts DEF StepCase
<1>22. CASE I!RemoveSkills
  BY <1>22, RemoveSkillsFacts DEF StepCase
<1>23. CASE I!DetachFails \/ I!Killed
  <2>1. /\ i_faults' = i_faults + 1 /\ UNCHANGED <<i_bundled, i_defaults, i_file, i_skill, i_output, i_backup, i_hist>>
        /\ i_cmd' = [I!Idle EXCEPT !.result = "error"] \/ i_cmd' = [I!Idle EXCEPT !.result = "killed"]
    BY <1>23 DEF I!DetachFails, I!Killed, I!FaultAllowed, I!Setup
  <2>2. Ended("error") \/ Ended("killed")
    BY <2>1, EndFacts DEF Results
  <2> QED BY <2>1, <2>2 DEF StepCase, Stops, Results, SetupType, Ended, Moved
<1>24. CASE I!EditPolicy
  BY <1>24, EditPolicyFacts DEF StepCase
<1>25. CASE I!Upgrade
  <2>1. i_bundled' \in 1 .. MaxVersion
    BY <1>25, VersionFacts DEF I!Upgrade, SetupType
  <2> QED BY <2>1, <1>25 DEF I!Upgrade, I!At, StepCase, Rests, SetupType
<1>26. ASSUME NEW f \in I!Files, I!EditFile(f) \/ I!EditEntry(f) PROVE SetupType' /\ StepCase
  BY <1>26, EditFileFacts, EditEntryFacts DEF StepCase
<1>27. ASSUME NEW k \in I!Skills, I!ModifySkill(k) PROVE SetupType' /\ StepCase
  BY <1>27, ModifySkillFacts DEF StepCase
<1> QED BY <1>1, <1>2, <1>3, <1>4, <1>5, <1>6, <1>7, <1>8, <1>9, <1>10, <1>11, <1>12, <1>13, <1>14,
           <1>16, <1>17, <1>18, <1>19, <1>20, <1>21, <1>22, <1>23, <1>24, <1>25, <1>26, <1>27 DEF I!Next

----------------------------------------------------------------------------
(* What is planned.                                                        *)

LEMMA EndedPlan ==
    ASSUME NEW result, Ended(result)
    PROVE  PlanInv'
BY NoPlanType DEF Ended, PlanInv, PlanOf, DetachSteps

LEMMA CarriedPlan ==
    ASSUME PlanInv, NEW pc, Goes(pc), i_bundled' = i_bundled, i_hist'.file = i_hist.file,
           i_cmd.pc # "idle", pc # "idle", pc \in DetachSteps <=> i_cmd.pc \in DetachSteps,
           pc = "refresh" => I!Pending' = {}
    PROVE  PlanInv'
BY DEF PlanInv, PlanOf, Goes

LEMMA SamePending ==
    ASSUME i_cmd'.plan = i_cmd.plan, i_cmd'.applied = i_cmd.applied
    PROVE  I!Pending' = I!Pending
BY DEF I!Pending

LEMMA MorePending ==
    ASSUME i_cmd'.plan = i_cmd.plan, i_cmd.applied \subseteq i_cmd'.applied
    PROVE  I!Pending' \subseteq I!Pending
BY DEF I!Pending

\* The entry that is PerfLens's own is a version.
LEMMA OwnEntryType ==
    ASSUME SetupType, NEW f \in I!Files, NEW sel
    PROVE  I!OwnEntry(f, sel) \in 0 .. MaxVersion
BY VersionFacts DEF I!OwnEntry, SetupType, SetupRecord

LEMMA PlanStep ==
    ASSUME SetupType, PlanInv, SetupType', StepCase
    PROVE  PlanInv'
<1>1. CASE Rests
  BY <1>1 DEF Rests, PlanInv, PlanOf, I!Pending
<1>2. CASE Stops
  BY <1>2, EndedPlan DEF Stops
<1>3. ASSUME NEW sel \in SUBSET I!Clients, BeginsSetup(sel) PROVE PlanInv'
  <2>1. /\ Starts("move", sel) /\ Snapped /\ i_bundled' = i_bundled
        /\ \A f \in I!Files : i_cmd'.plan[f] = I!InstallPlan(f, sel)
    BY <1>3, StartSetupFacts DEF BeginsSetup
  <2>2. ASSUME NEW f \in I!FilesOf(sel) PROVE i_file[f].entry # I!User
    <3>1. f \in I!Files
      BY DEF I!FilesOf, I!Files
    <3>2. I!OwnEntry(f, sel) # I!User /\ i_bundled # I!User /\ 0 # I!User
      BY <3>1, OwnEntryType, VersionFacts DEF SetupType
    <3>3. ~I!RefusesFile(f, sel)
      BY <1>3 DEF BeginsSetup
    <3> QED BY <3>2, <3>3 DEF I!RefusesFile, I!RefusesCodex, I!RefusesOther
  <2>3. ASSUME NEW f \in I!Files, i_cmd'.plan[f].do # "skip"
        PROVE  /\ i_cmd'.plan[f].expected = i_hist'.file[f] /\ i_cmd'.plan[f].expected.entry # I!User
               /\ i_cmd'.plan[f].content = I!With(i_hist'.file[f], i_bundled')
               /\ i_cmd'.plan[f].do = "keep" => i_hist'.file[f].entry = i_bundled'
    BY <2>1, <2>2, <2>3, InstallPlanType DEF Snapped
  <2> QED BY <2>1, <2>3 DEF PlanInv, PlanOf, Starts, DetachSteps
<1>4. ASSUME NEW sel \in SUBSET I!Clients, BeginsRemoval(sel) PROVE PlanInv'
  <2>1. /\ Starts("remove", sel) /\ Snapped /\ i_bundled' = i_bundled
        /\ \A f \in I!Files : i_cmd'.plan[f] = I!RemovalPlan(f, sel)
    BY <1>4, StartDetachFacts DEF BeginsRemoval
  <2>2. ASSUME NEW f \in I!RemovalFiles(sel), i_file[f].entry # 0 PROVE i_file[f].entry # I!User
    <3>1. f \in I!Files
      BY DEF I!RemovalFiles, I!FilesOf, I!Files
    <3>2. I!OwnedBy(f) # I!User
      BY <3>1, OwnEntryType, VersionFacts DEF I!OwnedBy
    <3> QED BY <1>4, <2>2, <3>2 DEF BeginsRemoval, I!RefusesRemoval
  <2>3. ASSUME NEW f \in I!Files, i_cmd'.plan[f].do # "skip"
        PROVE  /\ i_cmd'.plan[f].expected = i_hist'.file[f] /\ i_cmd'.plan[f].expected.entry # I!User
               /\ i_cmd'.plan[f].content = I!With(i_hist'.file[f], 0)
               /\ i_cmd'.plan[f].do = "write" /\ i_hist'.file[f].entry # 0
    BY <2>1, <2>2, <2>3, RemovalPlanType DEF Snapped
  <2> QED BY <2>1, <2>3 DEF PlanInv, PlanOf, Starts, DetachSteps
<1>5. CASE I!MoveOutput
  BY <1>5, MoveOutputFacts, CarriedPlan DEF DetachSteps
<1>6. CASE I!WriteBundle
  BY <1>6, WriteBundleFacts, CarriedPlan DEF DetachSteps
<1>7. CASE I!InstallSkills
  BY <1>7, InstallSkillsFacts, CarriedPlan DEF DetachSteps
<1>8. CASE I!WriteRecord
  BY <1>8, WriteRecordFacts, CarriedPlan DEF DetachSteps
<1>9. CASE TurnsBack
  BY <1>9, CarriedPlan DEF TurnsBack, DetachSteps, SettingUp, Moved
<1>10. CASE KeepsFile
  BY <1>10, CarriedPlan DEF KeepsFile, DetachSteps
<1>11. CASE Compares
  BY <1>11, CarriedPlan DEF Compares, DetachSteps
<1>12. CASE Changes
  BY <1>12, CarriedPlan DEF Changes, Replaces, DetachSteps
<1>13. CASE I!FilesApplied
  <2>1. I!Pending' = {}
    BY <1>13, FilesAppliedFacts, SamePending DEF Goes, Carries
  <2> QED BY <2>1, <1>13, FilesAppliedFacts, CarriedPlan DEF DetachSteps, Quiet
<1>14. CASE I!RemoveBackup
  BY <1>14, RemoveBackupFacts, EndedPlan
<1>15. CASE I!Rollback
  <2>1. Ended("failed")
    <3>1. i_cmd' = [I!Idle EXCEPT !.result = "failed", !.refreshed = i_cmd.refreshed]
      BY <1>15 DEF I!Rollback
    <3> QED BY <3>1, IdleFacts DEF Ended, CommandRecord, SetupType
  <2> QED BY <2>1, EndedPlan
<1>16. CASE I!RemoveSkills
  BY <1>16, RemoveSkillsFacts, EndedPlan
<1>17. ASSUME NEW k \in I!Skills, Refreshes(k) PROVE PlanInv'
  <2>1. i_cmd.pc = "refresh" /\ Goes("refresh") /\ i_bundled' = i_bundled /\ i_hist' = i_hist
        /\ i_cmd'.applied = i_cmd.applied
    BY <1>17 DEF Refreshes
  <2>2. I!Pending' = {}
    BY <2>1, SamePending DEF PlanInv, Goes
  <2> QED BY <2>1, <2>2, CarriedPlan DEF DetachSteps
<1>18. ASSUME UNCHANGED <<i_bundled, i_cmd>>, i_hist'.file = i_hist.file PROVE PlanInv'
  BY <1>18 DEF PlanInv, PlanOf, I!Pending
<1>19. ASSUME NEW k \in I!Skills, I!ModifySkill(k) PROVE PlanInv'
  BY <1>18, <1>19, ModifySkillFacts
<1>20. CASE I!EditPolicy
  BY <1>18, <1>20, EditPolicyFacts
<1>21. ASSUME NEW f \in I!Files, I!EditFile(f) \/ I!EditEntry(f) PROVE PlanInv'
  BY <1>18, <1>21, EditFileFacts, EditEntryFacts
<1> QED BY <1>1, <1>2, <1>3, <1>4, <1>5, <1>6, <1>7, <1>8, <1>9, <1>10, <1>11, <1>12, <1>13, <1>14,
           <1>15, <1>16, <1>17, <1>19, <1>20, <1>21 DEF StepCase

----------------------------------------------------------------------------
(* What the user wrote into the files.                                     *)

LEMMA WriteStep ==
    ASSUME SetupType, PlanInv, WriteInv, BackupInv, SetupType', StepCase
    PROVE  WriteInv'
<1>0. ASSUME i_cmd'.pc \notin {"write", "erase"} PROVE WriteInv'
  BY <1>0 DEF WriteInv
<1>1. CASE Rests
  BY <1>1 DEF Rests, WriteInv, I!Pending, I!Appeared, PlanOf
<1>2. CASE Stops
  BY <1>0, <1>2 DEF Stops, Ended
<1>3. ASSUME NEW sel \in SUBSET I!Clients, BeginsSetup(sel) \/ BeginsRemoval(sel) PROVE WriteInv'
  BY <1>0, <1>3, StartSetupFacts, StartDetachFacts DEF BeginsSetup, BeginsRemoval, Starts
<1>4. CASE I!MoveOutput \/ I!WriteBundle \/ I!InstallSkills \/ I!WriteRecord
  BY <1>0, <1>4, MoveOutputFacts, WriteBundleFacts, InstallSkillsFacts, WriteRecordFacts DEF Goes
<1>5. CASE TurnsBack \/ KeepsFile
  BY <1>0, <1>5 DEF TurnsBack, KeepsFile, Goes
<1>6. CASE Compares
  <2>1. I!Pending # {} /\ I!Pending' = I!Pending /\ UNCHANGED <<i_file, i_hist>> /\ i_cmd'.plan = i_cmd.plan
    BY <1>6, SamePending DEF Compares, Carries, Goes
  <2>2. I!First(I!Pending) \in I!Files /\ PlanOf(I!First(I!Pending)).do # "skip"
    BY <2>1, FirstPending, PendingFiles DEF I!Pending, PlanOf
  <2>3. PlanOf(I!First(I!Pending)).expected = i_hist.file[I!First(I!Pending)]
    BY <2>2 DEF PlanInv
  <2>4. PlanOf(I!First(I!Pending)).do = "write" /\ i_file[I!First(I!Pending)] = PlanOf(I!First(I!Pending)).expected
    BY <1>6, <2>2 DEF Compares, PlanInv, DetachSteps
  <2> QED BY <2>1, <2>3, <2>4 DEF WriteInv, PlanOf
<1>7. CASE Changes
  BY <1>0, <1>7 DEF Changes, Replaces, Goes
<1>8. CASE I!FilesApplied
  BY <1>0, <1>8, FilesAppliedFacts DEF Goes
<1>9. CASE I!RemoveBackup \/ I!Rollback \/ I!RemoveSkills
  BY <1>0, <1>9, RemoveBackupFacts, RollbackFacts, RemoveSkillsFacts DEF Ended
<1>10. ASSUME NEW k \in I!Skills, Refreshes(k) \/ I!ModifySkill(k) PROVE WriteInv'
  <2>1. CASE Refreshes(k)
    BY <1>0, <2>1 DEF Refreshes, Goes
  <2>2. CASE I!ModifySkill(k)
    <3>1. UNCHANGED <<i_cmd, i_file>> /\ i_hist'.file = i_hist.file /\ i_hist.raced \subseteq i_hist'.raced
      BY <2>2, ModifySkillFacts
    <3> QED BY <3>1 DEF WriteInv, I!Pending, I!Appeared, PlanOf
  <2> QED BY <2>1, <2>2, <1>10
<1>11. CASE I!EditPolicy
  <2>1. UNCHANGED <<i_cmd, i_file>> /\ i_hist'.file = i_hist.file /\ i_hist'.raced = i_hist.raced
    BY <1>11, EditPolicyFacts
  <2> QED BY <2>1 DEF WriteInv, I!Pending, I!Appeared, PlanOf
<1>12. ASSUME NEW f \in I!Files, I!EditFile(f) \/ I!EditEntry(f) PROVE WriteInv'
  <2>1. /\ i_cmd' = i_cmd /\ i_hist'.file = i_hist.file /\ i_hist'.raced = i_hist.raced \cup I!Raced(f)
        /\ i_file'[f].there = "yes" /\ \A g \in I!Files \ {f} : i_file'[g] = i_file[g]
    BY <1>12, EditFileFacts, EditEntryFacts
  <2>2. I!Pending' = I!Pending
    BY <2>1 DEF I!Pending
  <2> SUFFICES ASSUME i_cmd.pc \in {"write", "erase"} PROVE WriteInv'
    BY <1>0, <2>1
  <2>3. I!Pending # {} /\ PlanOf(I!First(I!Pending)).do = "write"
    BY DEF WriteInv
  <2>4. I!First(I!Pending) \in I!Files
    BY <2>3, FirstPending, PendingFiles
  <2>5. CASE I!First(I!Pending) = f
    <3>1. PlanOf(f).expected.there \in {"yes", "no"}
      BY <2>4, <2>5 DEF SetupType, CommandRecord, ConfigPlan, ConfigFile, PlanOf
    <3>2. CASE PlanOf(f).expected.there = "yes"
      <4>1. f \in i_hist'.raced
        BY <3>2, <2>1, <2>5 DEF I!Raced, PlanOf
      <4> QED BY <4>1, <2>1, <2>2, <2>3, <2>5 DEF WriteInv, PlanOf
    <3>3. CASE PlanOf(f).expected.there = "no"
      <4>1. I!Appeared(f)'
        BY <3>3, <2>1 DEF I!Appeared, PlanOf
      <4> QED BY <4>1, <2>1, <2>2, <2>3, <2>5 DEF WriteInv, PlanOf
    <3> QED BY <3>1, <3>2, <3>3
  <2>6. CASE I!First(I!Pending) # f
    <3>1. i_file'[I!First(I!Pending)] = i_file[I!First(I!Pending)]
      BY <2>1, <2>4, <2>6
    <3> QED BY <3>1, <2>1, <2>2, <2>3 DEF WriteInv, PlanOf, I!Appeared
  <2> QED BY <2>5, <2>6
<1> QED BY <1>1, <1>2, <1>3, <1>4, <1>5, <1>6, <1>7, <1>8, <1>9, <1>10, <1>11, <1>12 DEF StepCase

\* A file that is replaced is as it was when the command was planned, unless the
\* edit is one that the property excepts.
LEMMA ChangeFacts ==
    ASSUME SetupType, PlanInv, WriteInv, Changes
    PROVE  LET f == I!First(I!Pending)
           IN /\ f \in I!Pending /\ f \in I!Files /\ PlanOf(f).do = "write"
              /\ i_file'[f] = PlanOf(f).content /\ \A g \in I!Files \ {f} : i_file'[g] = i_file[g]
              /\ i_file'[f].other = i_hist.file[f].other
              /\ i_file'[f].entry = IF i_cmd.pc = "erase" THEN 0 ELSE i_bundled
              /\ f \notin i_hist.raced => i_file[f] = i_hist.file[f] /\ i_file[f].entry # I!User
<1> DEFINE f == I!First(I!Pending)
<1>1. I!Pending # {} /\ PlanOf(f).do = "write" /\ i_file' = [i_file EXCEPT ![f] = PlanOf(f).content]
  BY DEF Changes, WriteInv, Replaces
<1>2. f \in I!Pending /\ f \in I!Files
  BY <1>1, FirstPending, PendingFiles
<1>3. i_file'[f] = PlanOf(f).content /\ \A g \in I!Files \ {f} : i_file'[g] = i_file[g]
  BY <1>1, <1>2 DEF SetupType
<1> DEFINE e == IF i_cmd.pc = "erase" THEN 0 ELSE i_bundled
<1>4. /\ PlanOf(f).expected = i_hist.file[f] /\ PlanOf(f).expected.entry # I!User
      /\ PlanOf(f).content = I!With(i_hist.file[f], e)
      /\ i_cmd.pc = "erase" => i_hist.file[f].entry # 0
  <2>1. i_cmd.pc \in {"write", "erase"}
    BY DEF Changes
  <2> QED BY <2>1, <1>1, <1>2 DEF PlanInv, DetachSteps
<1>5. i_hist.file[f] \in ConfigFile /\ e \in Contents
  BY <1>2, VersionFacts DEF SetupType, HistoryRecord
<1>6. i_file'[f].other = i_hist.file[f].other /\ i_file'[f].entry = e
  BY <1>3, <1>4, <1>5, WithType
<1>7. f \notin i_hist.raced => i_file[f] = i_hist.file[f]
  <2>1. ~I!Appeared(f)
    BY <1>4, <1>5 DEF Changes, I!Appeared, PlanOf, ConfigFile
  <2> QED BY <2>1 DEF WriteInv, Changes
<1> QED BY <1>1, <1>2, <1>3, <1>4, <1>6, <1>7

\* What the rollback does to one file.
LEMMA RolledBackFacts ==
    ASSUME SetupType, PlanInv, i_cmd.pc = "rollback", NEW f \in I!Files
    PROVE  \/ I!RolledBack(f) = i_file[f]
           \/ /\ I!RolledBack(f) = i_hist.file[f] /\ i_file[f].other = i_hist.file[f].other
              /\ i_file[f].entry = i_bundled
<1>1. CASE f \in i_cmd.applied /\ PlanOf(f).do = "write" /\ i_file[f] = PlanOf(f).content
  <2>1. I!RolledBack(f) = PlanOf(f).expected
    BY <1>1 DEF I!RolledBack, PlanOf
  <2>2. PlanOf(f).expected = i_hist.file[f] /\ PlanOf(f).content = I!With(i_hist.file[f], i_bundled)
    BY <1>1 DEF PlanInv, DetachSteps
  <2>3. i_hist.file[f] \in ConfigFile /\ i_bundled \in Contents
    BY VersionFacts DEF SetupType, HistoryRecord
  <2> QED BY <1>1, <2>1, <2>2, <2>3, WithType
<1>2. CASE ~(f \in i_cmd.applied /\ PlanOf(f).do = "write" /\ i_file[f] = PlanOf(f).content)
  BY <1>2 DEF I!RolledBack, PlanOf
<1> QED BY <1>1, <1>2

LEMMA UserFilesStep ==
    ASSUME SetupType, PlanInv, WriteInv, BackupInv, UserFiles, SetupType', StepCase
    PROVE  UserFiles'
<1>0. ASSUME UNCHANGED i_file, i_hist'.other = i_hist.other, i_hist'.own \cap I!Files = i_hist.own \cap I!Files,
             i_hist.raced \subseteq i_hist'.raced
      PROVE  UserFiles'
  BY <1>0 DEF UserFiles
<1>1. CASE Rests \/ Stops \/ TurnsBack \/ KeepsFile \/ Compares
  BY <1>0, <1>1 DEF Rests, Stops, TurnsBack, KeepsFile, Compares
<1>2. ASSUME NEW sel \in SUBSET I!Clients, BeginsSetup(sel) \/ BeginsRemoval(sel) PROVE UserFiles'
  BY <1>0, <1>2, StartSetupFacts, StartDetachFacts DEF BeginsSetup, BeginsRemoval, Snapped
<1>3. CASE I!MoveOutput \/ I!WriteBundle \/ I!InstallSkills \/ I!WriteRecord
  BY <1>0, <1>3, MoveOutputFacts, WriteBundleFacts, InstallSkillsFacts, WriteRecordFacts
<1>4. CASE I!FilesApplied \/ I!RemoveBackup \/ I!RemoveSkills
  BY <1>0, <1>4, FilesAppliedFacts, RemoveBackupFacts, RemoveSkillsFacts DEF Quiet
<1>5. CASE Changes
  <2>1. UNCHANGED i_hist
    BY <1>5 DEF Changes
  <2>2. i_bundled # I!User /\ I!User # 0
    BY VersionFacts DEF SetupType
  <2> QED BY <2>1, <2>2, <1>5, ChangeFacts DEF UserFiles
<1>6. CASE I!Rollback
  <2>1. /\ i_cmd.pc = "rollback" /\ \A f \in I!Files : i_file'[f] = I!RolledBack(f)
        /\ i_hist'.other = i_hist.other /\ i_hist'.own = i_hist.own /\ i_hist'.raced = i_hist.raced
    BY <1>6, RollbackFacts
  <2>2. i_bundled # I!User
    BY VersionFacts DEF SetupType
  <2> QED BY <2>1, <2>2, RolledBackFacts DEF UserFiles
<1>7. ASSUME NEW k \in I!Skills, Refreshes(k) PROVE UserFiles'
  BY <1>0, <1>7 DEF Refreshes
<1>8. ASSUME NEW k \in I!Skills, I!ModifySkill(k) PROVE UserFiles'
  <2>1. k \notin I!Files
    BY DEF I!Skills, I!Files
  <2> QED BY <2>1, <1>0, <1>8, ModifySkillFacts
<1>9. CASE I!EditPolicy
  BY <1>0, <1>9, EditPolicyFacts
<1>10. ASSUME NEW f \in I!Files, I!EditFile(f) PROVE UserFiles'
  BY <1>10, EditFileFacts DEF UserFiles
<1>11. ASSUME NEW f \in I!Files, I!EditEntry(f) PROVE UserFiles'
  BY <1>11, EditEntryFacts DEF UserFiles
<1> QED BY <1>1, <1>2, <1>3, <1>4, <1>5, <1>6, <1>7, <1>8, <1>9, <1>10, <1>11 DEF StepCase

----------------------------------------------------------------------------
(* The Skills, the policy and the backup.                                  *)

LEMMA SkillStep ==
    ASSUME SetupType, PlanInv, BackupInv, SkillInv, UserSkills, SetupType', StepCase
    PROVE  SkillInv' /\ UserSkills'
<1>0. ASSUME UNCHANGED i_skill, i_hist'.own = i_hist.own, i_hist'.raced = i_hist.raced
      PROVE  UserSkills'
  BY <1>0 DEF UserSkills
<1>e. ASSUME NEW result, Ended(result) PROVE SkillInv'
  BY <1>e DEF Ended, SkillInv, SettingUp, Moved
<1>g. ASSUME NEW pc, Goes(pc), UNCHANGED <<i_skill>>, i_hist'.own = i_hist.own, i_hist'.raced = i_hist.raced,
             i_hist'.skill = i_hist.skill, i_cmd'.installed = i_cmd.installed,
             i_cmd'.refreshed = i_cmd.refreshed,
             pc \in {"move", "bundle", "skills"} <=> i_cmd.pc \in {"move", "bundle", "skills"},
             pc \in SettingUp => i_cmd.pc \in SettingUp,
             pc = "rollback" => i_cmd.pc \in SettingUp
      PROVE  SkillInv' /\ UserSkills'
  <2>1. SkillInv'
    BY <1>g DEF SkillInv, Goes
  <2> QED BY <2>1, <1>0, <1>g
<1>1. CASE Rests
  BY <1>1 DEF Rests, SkillInv, UserSkills
<1>2. CASE Stops
  BY <1>0, <1>2, <1>e DEF Stops
<1>3. ASSUME NEW sel \in SUBSET I!Clients, BeginsSetup(sel) PROVE SkillInv' /\ UserSkills'
  <2>1. /\ Starts("move", sel) /\ Snapped /\ UNCHANGED i_skill
        /\ \A k \in I!Skills : i_cmd'.skills[k] = I!SkillPlan(k, sel)
    BY <1>3, StartSetupFacts DEF BeginsSetup
  <2>2. SkillInv'
    BY <2>1 DEF SkillInv, Starts, Snapped, I!SkillPlan, SettingUp
  <2> QED BY <2>1, <2>2, <1>0 DEF Snapped
<1>4. ASSUME NEW sel \in SUBSET I!Clients, BeginsRemoval(sel) PROVE SkillInv' /\ UserSkills'
  <2>1. /\ Starts("remove", sel) /\ Snapped /\ UNCHANGED i_skill
        /\ \A k \in I!Skills : i_cmd'.skills[k] =
               IF k \in I!RemovalSkills(sel) /\ i_skill[k] # 0 THEN "remove" ELSE "skip"
    BY <1>4, StartDetachFacts DEF BeginsRemoval
  <2>2. ASSUME NEW k \in I!Skills, k \in I!RemovalSkills(sel), i_skill[k] # 0 PROVE i_skill[k] # I!User
    <3>1. I!ExpectedSkill(k) # I!User
      BY VersionFacts DEF I!ExpectedSkill, SetupType, SetupRecord
    <3> QED BY <3>1, <2>2, <1>4 DEF BeginsRemoval, I!RefusesRemoval
  <2>3. SkillInv'
    BY <2>1, <2>2 DEF SkillInv, Starts, Snapped, SettingUp, Moved
  <2> QED BY <2>1, <2>3, <1>0 DEF Snapped
<1>5. CASE I!MoveOutput
  BY <1>5, <1>g, MoveOutputFacts DEF SettingUp, Moved, Carries
<1>6. CASE I!WriteBundle
  BY <1>6, <1>g, WriteBundleFacts DEF SettingUp, Moved, Carries
<1>7. CASE I!InstallSkills
  <2>1. /\ i_cmd.pc = "skills" /\ i_cmd'.pc = "record" /\ i_cmd'.skills = i_cmd.skills /\ i_cmd'.sel = i_cmd.sel
        /\ i_cmd'.refreshed = i_cmd.refreshed
        /\ i_cmd'.installed = {k \in I!Skills : i_cmd.skills[k] = "install"}
        /\ \A k \in I!Skills : i_skill'[k] = IF i_cmd.skills[k] = "install" THEN i_bundled ELSE i_skill[k]
        /\ UNCHANGED i_hist
    BY <1>7, InstallSkillsFacts DEF Goes
  <2>2. i_bundled # 0 /\ I!User # 0
    BY VersionFacts DEF SetupType
  <2>3. \A k \in I!Skills : i_cmd.skills[k] = "install" => (k \in i_hist.own => k \in i_hist.raced)
    BY <2>1, <2>2 DEF SkillInv, UserSkills
  <2>4. i_cmd.installed \subseteq {k \in I!Skills : i_cmd.skills[k] = "install"}
    BY DEF SkillInv, SetupType, CommandRecord
  <2>5. SkillInv'
    BY <2>1, <2>2, <2>3, <2>4 DEF SkillInv, SettingUp, Moved
  <2>6. UserSkills'
    BY <2>1, <2>3 DEF UserSkills
  <2> QED BY <2>5, <2>6
<1>8. CASE I!WriteRecord
  BY <1>8, <1>g, WriteRecordFacts DEF SettingUp, Moved, Carries
<1>9. CASE TurnsBack
  <2>1. SkillInv'
    BY <1>9 DEF TurnsBack, Goes, Carries, SkillInv, SettingUp, Moved
  <2> QED BY <2>1, <1>0, <1>9 DEF TurnsBack
<1>10. CASE KeepsFile
  BY <1>10, <1>g DEF KeepsFile, SettingUp, Moved
<1>11. CASE Compares
  BY <1>11, <1>g DEF Compares, SettingUp, Moved, Carries
<1>12. CASE Changes
  BY <1>12, <1>g DEF Changes, Replaces, SettingUp, Moved
<1>13. CASE I!FilesApplied
  BY <1>13, <1>g, FilesAppliedFacts DEF SettingUp, Moved, Carries, Quiet
<1>14. CASE I!RemoveBackup
  BY <1>14, <1>0, <1>e, RemoveBackupFacts
<1>15. CASE I!Rollback
  <2>1. /\ Ended("failed") /\ i_hist'.own = i_hist.own /\ i_hist'.raced = i_hist.raced
        /\ \A k \in I!Skills : i_skill'[k] = IF k \in i_cmd.installed THEN 0 ELSE i_skill[k]
    BY <1>15, RollbackFacts
  <2>2. UserSkills'
    BY <2>1 DEF UserSkills, SkillInv
  <2> QED BY <2>1, <2>2, <1>e
<1>16. CASE I!RemoveSkills
  <2>1. /\ Ended("error") \/ Ended("detached")
        /\ i_hist'.own = i_hist.own /\ i_hist'.raced = i_hist.raced
        /\ \A k \in I!Skills :
               i_skill'[k] = IF i_cmd.skills[k] = "remove" /\ i_skill[k] = i_hist.skill[k] THEN 0 ELSE i_skill[k]
    BY <1>16, RemoveSkillsFacts
  <2>2. UserSkills'
    BY <2>1 DEF UserSkills, SkillInv
  <2> QED BY <2>1, <2>2, <1>e
<1>17. ASSUME NEW k \in I!Skills, Refreshes(k) PROVE SkillInv' /\ UserSkills'
  <2>1. /\ i_cmd.pc = "refresh" /\ i_cmd'.pc = "refresh" /\ i_cmd'.skills = i_cmd.skills /\ i_cmd'.sel = i_cmd.sel
        /\ i_cmd'.refreshed = i_cmd.refreshed \cup {k} /\ i_cmd'.installed = i_cmd.installed
        /\ i_skill'[k] = i_bundled /\ i_skill[k] # I!User /\ \A j \in I!Skills \ {k} : i_skill'[j] = i_skill[j]
        /\ UNCHANGED i_hist
    BY <1>17 DEF Refreshes, Goes, SetupType
  <2>2. i_bundled # 0
    BY VersionFacts DEF SetupType
  <2>3. SkillInv'
    BY <2>1, <2>2 DEF SkillInv, SettingUp, Moved
  <2> QED BY <2>1, <2>3 DEF UserSkills
<1>18. ASSUME NEW k \in I!Skills, I!ModifySkill(k) PROVE SkillInv' /\ UserSkills'
  <2>1. I!User # 0
    BY VersionFacts
  <2>2. SkillInv'
    BY <2>1, <1>18, ModifySkillFacts DEF SkillInv
  <2>3. UserSkills'
    BY <1>18, ModifySkillFacts DEF UserSkills
  <2> QED BY <2>2, <2>3
<1>19. CASE I!EditPolicy
  BY <1>19, EditPolicyFacts DEF SkillInv, UserSkills
<1>20. ASSUME NEW f \in I!Files, I!EditFile(f) \/ I!EditEntry(f) PROVE SkillInv' /\ UserSkills'
  <2>1. /\ UNCHANGED <<i_cmd, i_skill>> /\ i_hist'.skill = i_hist.skill
        /\ i_hist.raced \subseteq i_hist'.raced /\ \A k \in I!Skills : k \in i_hist'.own <=> k \in i_hist.own
    <3>1. f \notin I!Skills
      BY DEF I!Files, I!Skills
    <3> QED BY <3>1, <1>20, EditFileFacts, EditEntryFacts
  <2> QED BY <2>1 DEF SkillInv, UserSkills
<1> QED BY <1>1, <1>2, <1>3, <1>4, <1>5, <1>6, <1>7, <1>8, <1>9, <1>10, <1>11, <1>12, <1>13, <1>14,
           <1>15, <1>16, <1>17, <1>18, <1>19, <1>20 DEF StepCase

\* A setup directory that is not there holds no policy.
LEMMA NoPolicy ==
    ASSUME NEW o \in SetupRecord, o.state = "none"
    PROVE  o.policy = 0
BY NoSetupType DEF SetupRecord

LEMMA BackupStep ==
    ASSUME SetupType, PlanInv, BackupInv, UserPolicy, SetupType', StepCase
    PROVE  BackupInv' /\ UserPolicy'
<1> USE DEF SameRecord
<1>t. /\ i_output \in SetupRecord /\ i_backup \in SetupRecord /\ i_hist.output \in SetupRecord /\ i_faults \in Nat
      /\ i_cmd.pc \in Moved => i_output.state # "none"
  BY DEF SetupType, HistoryRecord
<1>e. ASSUME NEW result, Ended(result), UNCHANGED i_output, i_backup' \in {i_backup, I!NoSetup} PROVE BackupInv'
  BY <1>e, NoSetupType DEF Ended, BackupInv, SettingUp, Moved
<1>0. ASSUME UNCHANGED <<i_output, i_backup>>, i_hist'.policy = i_hist.policy
      PROVE  UserPolicy'
  BY <1>0 DEF UserPolicy
<1>g. ASSUME NEW pc, Goes(pc), UNCHANGED <<i_output, i_backup, i_hist, i_faults>>,
             \/ i_cmd.pc \in DetachSteps /\ pc \in DetachSteps
             \/ i_cmd.pc \in Moved \ {"bundle"} /\ pc \in Moved \ {"bundle"}
      PROVE  BackupInv' /\ UserPolicy'
  <2>1. BackupInv'
    BY <1>g DEF BackupInv, Goes, SettingUp, Moved, DetachSteps
  <2> QED BY <2>1, <1>0, <1>g
<1>1. CASE Rests
  BY <1>1 DEF Rests, BackupInv, UserPolicy
<1>2. CASE Stops
  BY <1>0, <1>2, <1>e DEF Stops
<1>3. ASSUME NEW sel \in SUBSET I!Clients, BeginsSetup(sel) PROVE BackupInv' /\ UserPolicy'
  <2>1. Starts("move", sel) /\ Snapped /\ UNCHANGED <<i_output, i_backup>> /\ ~I!RefuseOutput
    BY <1>3, StartSetupFacts DEF BeginsSetup
  <2>2. i_output.state # "partial" /\ i_backup.state = "none"
    BY <2>1, <1>t DEF I!RefuseOutput, BackupInv, SetupRecord
  <2>3. i_output.state = "none" => i_hist.policy = 0
    BY <2>2, <1>t, NoPolicy DEF UserPolicy
  <2>4. BackupInv'
    BY <2>1, <2>2, <2>3 DEF BackupInv, Starts, Snapped, Moved
  <2> QED BY <2>1, <2>4, <1>0 DEF Snapped
<1>4. ASSUME NEW sel \in SUBSET I!Clients, BeginsRemoval(sel) PROVE BackupInv' /\ UserPolicy'
  <2>1. Starts("remove", sel) /\ Snapped /\ UNCHANGED <<i_output, i_backup>>
    BY <1>4, StartDetachFacts DEF BeginsRemoval
  <2>2. BackupInv'
    BY <2>1 DEF BackupInv, Starts, SettingUp, Moved
  <2> QED BY <2>1, <2>2, <1>0 DEF Snapped
<1>5. CASE I!MoveOutput
  <2>1. /\ i_cmd.pc = "move" /\ i_cmd'.pc = "bundle" /\ i_backup' = i_output /\ i_output'.state = "partial"
        /\ i_output'.policy = 0 /\ UNCHANGED i_hist
    BY <1>5, MoveOutputFacts DEF Goes
  <2>2. i_backup.policy = 0
    BY <2>1, <1>t, NoPolicy DEF BackupInv
  <2>3. BackupInv'
    BY <2>1 DEF BackupInv, SettingUp, Moved
  <2> QED BY <2>1, <2>2, <2>3 DEF UserPolicy
<1>6. CASE I!WriteBundle
  <2>1. /\ i_cmd.pc = "bundle" /\ i_cmd'.pc = "skills" /\ SameRecord(i_backup', i_backup) /\ i_backup'.policy = 0
        /\ i_output'.state = i_output.state /\ (i_backup.policy # 0 => i_output'.policy = i_backup.policy)
        /\ UNCHANGED i_hist
    BY <1>6, WriteBundleFacts DEF Goes
  <2>2. BackupInv'
    BY <2>1 DEF BackupInv, SettingUp, Moved
  <2> QED BY <2>1, <2>2 DEF UserPolicy, BackupInv
<1>7. CASE I!InstallSkills
  BY <1>7, <1>g, InstallSkillsFacts DEF Moved
<1>8. CASE I!WriteRecord
  <2>1. /\ i_cmd.pc = "record" /\ i_cmd'.pc = "apply" /\ UNCHANGED <<i_backup, i_hist>>
        /\ i_output'.policy = i_output.policy /\ i_output'.state = "ok"
    BY <1>8, WriteRecordFacts DEF Goes
  <2>2. BackupInv'
    BY <2>1 DEF BackupInv, SettingUp, Moved
  <2> QED BY <2>1, <2>2 DEF UserPolicy
<1>9. CASE TurnsBack
  <2>1. /\ i_cmd.pc \in SettingUp /\ i_cmd'.pc = "rollback" /\ i_cmd'.applied = i_cmd.applied
        /\ UNCHANGED <<i_hist, i_output>>
        /\ \/ UNCHANGED i_backup /\ i_faults' = i_faults /\ i_cmd.pc # "move"
           \/ /\ i_faults' = i_faults + 1
              /\ \/ UNCHANGED i_backup
                 \/ i_cmd.pc = "refresh" /\ i_backup'.state = "partial" /\ i_backup'.policy = i_backup.policy
    BY <1>9 DEF TurnsBack, Goes, Carries
  <2>2. i_backup'.policy = i_backup.policy
    BY <2>1
  <2>3. i_output.policy = 0 \/ i_backup.policy = 0
    BY <2>1, <1>t, NoPolicy DEF BackupInv, SettingUp, Moved
  <2>4. \/ SameRecord(i_backup', i_hist'.output)
        \/ i_faults' > 0 /\ i_backup'.state = "partial"
        \/ i_faults' > 0 /\ i_backup'.state = "none" /\ i_cmd'.applied = {} /\ i_output'.state = "ok"
           /\ SameRecord(i_output', i_hist'.output)
    <3>1. CASE i_cmd.pc = "move"
      <4>1. CASE i_output.state = "none"
        <5>1. i_backup = I!NoSetup /\ i_hist.output = I!NoSetup /\ i_backup' = i_backup
          BY <2>1, <3>1, <4>1, <1>t DEF BackupInv, SetupRecord
        <5> QED BY <5>1, <2>1
      <4>2. CASE i_output.state # "none"
        BY <2>1, <3>1, <4>2, <1>t DEF BackupInv, SetupRecord
      <4> QED BY <4>1, <4>2
    <3>2. CASE i_cmd.pc \in Moved
      BY <2>1, <3>2, <1>t DEF BackupInv
    <3> QED BY <3>1, <3>2, <2>1 DEF SettingUp
  <2>5. i_output.state = "none" => i_backup'.state = "none"
    BY <2>1, <1>t DEF BackupInv, Moved
  <2>6. i_hist'.output.state = "none" => i_hist'.policy = 0
    BY <2>1 DEF BackupInv
  <2>7. BackupInv'
    BY <2>1, <2>2, <2>3, <2>4, <2>5, <2>6 DEF BackupInv, SettingUp, Moved
  <2> QED BY <2>1, <2>2, <2>7 DEF UserPolicy
<1>10. CASE KeepsFile
  BY <1>10, <1>g DEF KeepsFile, Moved
<1>11. CASE Compares
  BY <1>11, <1>g DEF Compares, Moved, DetachSteps
<1>12. CASE Changes
  BY <1>12, <1>g DEF Changes, Replaces, Moved, DetachSteps
<1>13. CASE I!FilesApplied
  BY <1>13, <1>g, FilesAppliedFacts DEF Moved, Quiet
<1>14. CASE I!RemoveBackup
  <2>1. /\ i_cmd.pc = "refresh" /\ Ended("ok") /\ i_backup' = I!NoSetup /\ UNCHANGED i_output
        /\ i_hist'.policy = i_hist.policy
    BY <1>14, RemoveBackupFacts
  <2>2. BackupInv'
    BY <2>1, <1>e
  <2> QED BY <2>1, <2>2 DEF UserPolicy, BackupInv, Moved
<1>15. CASE I!Rollback
  <2>1. /\ i_cmd.pc = "rollback" /\ Ended("failed") /\ i_backup' = I!NoSetup /\ i_hist'.policy = i_hist.policy
        /\ i_backup.state # "none" =>
               i_output'.policy = IF i_backup.policy # 0 THEN i_backup.policy ELSE i_output.policy
        /\ i_backup.state = "none" =>
               i_output' = IF i_output.state = "partial" \/ i_cmd.applied # {} \/ i_hist.output.state = "none"
                         THEN I!NoSetup ELSE i_output
    BY <1>15, RollbackFacts
  <2>2. BackupInv'
    BY <2>1, NoSetupType DEF BackupInv, Ended, SettingUp, Moved
  <2>3. CASE i_backup.state # "none"
    BY <2>1, <2>2, <2>3 DEF UserPolicy, BackupInv
  <2>4. CASE i_backup.state = "none"
    <3>1. i_backup.policy = 0
      BY <2>4, <1>t, NoPolicy
    <3>2. i_hist.policy # 0 => i_output' = i_output
      BY <2>1, <2>4 DEF BackupInv
    <3> QED BY <2>2, <3>1, <3>2, <2>1 DEF UserPolicy
  <2> QED BY <2>3, <2>4
<1>16. CASE I!RemoveSkills
  BY <1>16, <1>0, <1>e, RemoveSkillsFacts
<1>17. ASSUME NEW k \in I!Skills, Refreshes(k) PROVE BackupInv' /\ UserPolicy'
  BY <1>17, <1>g DEF Refreshes, Moved
<1>18. ASSUME UNCHANGED <<i_cmd, i_output, i_backup, i_faults>>, i_hist'.policy = i_hist.policy, i_hist'.output = i_hist.output
       PROVE  BackupInv' /\ UserPolicy'
  BY <1>18 DEF BackupInv, UserPolicy
<1>19. ASSUME NEW k \in I!Skills, I!ModifySkill(k) PROVE BackupInv' /\ UserPolicy'
  BY <1>18, <1>19, ModifySkillFacts
<1>20. CASE I!EditPolicy
  <2>1. /\ UNCHANGED <<i_cmd, i_backup, i_faults>> /\ SameRecord(i_output', i_output) /\ i_output.policy # 0
        /\ (i_cmd.pc = "idle" \/ i_hist.output.policy # 0) /\ i_hist'.policy = i_output'.policy
        /\ i_hist'.output = i_hist.output
    BY <1>20, EditPolicyFacts
  <2>2. i_cmd.pc # "idle" => i_hist.output.state # "none"
    BY <2>1, <1>t, NoPolicy
  <2>3. BackupInv'
    BY <2>1, <2>2 DEF BackupInv, SettingUp, Moved
  <2> QED BY <2>1, <2>3 DEF UserPolicy
<1>21. ASSUME NEW f \in I!Files, I!EditFile(f) \/ I!EditEntry(f) PROVE BackupInv' /\ UserPolicy'
  BY <1>18, <1>21, EditFileFacts, EditEntryFacts
<1> QED BY <1>1, <1>2, <1>3, <1>4, <1>5, <1>6, <1>7, <1>8, <1>9, <1>10, <1>11, <1>12, <1>13, <1>14,
           <1>15, <1>16, <1>17, <1>19, <1>20, <1>21 DEF StepCase

----------------------------------------------------------------------------
(* What a rollback restores.                                               *)

\* The steps of a setup that leave the files, and what is planned for them, alone.
FilesRest ==
    /\ i_cmd'.pc \in SettingUp \cup {"rollback"} => i_cmd.pc \in SettingUp \cup {"rollback"}
    /\ i_cmd'.pc \in SettingUp \cup {"rollback"} => i_cmd'.plan = i_cmd.plan /\ i_cmd'.applied = i_cmd.applied
    /\ i_cmd'.result # "failed"
    /\ i_file' = i_file /\ i_bundled' = i_bundled /\ i_hist' = i_hist

LEMMA FilesRestCases ==
    ASSUME SetupType, PlanInv, BackupInv,
           \/ Stops \/ I!MoveOutput \/ I!WriteBundle \/ I!InstallSkills \/ I!WriteRecord \/ TurnsBack
           \/ Compares \/ I!FilesApplied \/ \E k \in I!Skills : Refreshes(k)
    PROVE  FilesRest
<1>g. ASSUME NEW pc, Goes(pc), i_cmd'.applied = i_cmd.applied, i_cmd.pc # "idle",
             pc \in SettingUp \cup {"rollback"} => i_cmd.pc \in SettingUp \cup {"rollback"},
             UNCHANGED <<i_file, i_bundled, i_hist>>
      PROVE  FilesRest
  BY <1>g DEF FilesRest, PlanInv, Goes
<1>1. CASE Stops
  BY <1>1 DEF Stops, FilesRest, Ended, SettingUp, Moved
<1>2. CASE I!MoveOutput \/ I!WriteBundle \/ I!InstallSkills \/ I!WriteRecord \/ I!FilesApplied
  BY <1>2, <1>g, MoveOutputFacts, WriteBundleFacts, InstallSkillsFacts, WriteRecordFacts,
     FilesAppliedFacts DEF Carries, SettingUp, Moved, Quiet
<1>3. CASE TurnsBack
  BY <1>3, <1>g DEF TurnsBack, Carries, SettingUp, Moved
<1>4. CASE Compares
  BY <1>4, <1>g DEF Compares, Carries, SettingUp, Moved
<1>5. ASSUME NEW k \in I!Skills, Refreshes(k) PROVE FilesRest
  BY <1>5, <1>g DEF Refreshes, SettingUp, Moved
<1> QED BY <1>1, <1>2, <1>3, <1>4, <1>5

LEMMA RestoreStep ==
    ASSUME SetupType, PlanInv, WriteInv, BackupInv, SkillInv, RestoreInv, SetupType', StepCase
    PROVE  RestoreInv'
<1>t. \A f \in I!Files : i_file[f].other \in Nat /\ i_hist.file[f].other \in Nat
  BY DEF SetupType, HistoryRecord, ConfigFile
<1>0. ASSUME FilesRest PROVE RestoreInv'
  BY <1>0 DEF FilesRest, RestoreInv, PlanOf
<1>1. CASE Rests
  BY <1>1 DEF Rests, RestoreInv, PlanOf
<1>2. CASE \/ Stops \/ I!MoveOutput \/ I!WriteBundle \/ I!InstallSkills \/ I!WriteRecord \/ TurnsBack
           \/ Compares \/ I!FilesApplied \/ \E k \in I!Skills : Refreshes(k)
  BY <1>0, <1>2, FilesRestCases
<1>3. ASSUME NEW sel \in SUBSET I!Clients, BeginsSetup(sel) PROVE RestoreInv'
  <2>1. Starts("move", sel) /\ i_hist'.file = i_file /\ UNCHANGED i_file
    BY <1>3, StartSetupFacts DEF BeginsSetup, Snapped
  <2> QED BY <2>1 DEF RestoreInv, Starts
<1>4. ASSUME NEW sel \in SUBSET I!Clients, BeginsRemoval(sel) PROVE RestoreInv'
  BY <1>4, StartDetachFacts DEF BeginsRemoval, Starts, RestoreInv, SettingUp, Moved
<1>5. CASE KeepsFile
  <2>1. /\ i_cmd.pc = "apply" /\ i_cmd'.pc = "apply" /\ i_cmd'.plan = i_cmd.plan /\ i_cmd'.result = i_cmd.result
        /\ i_cmd.applied \subseteq i_cmd'.applied /\ UNCHANGED <<i_file, i_hist>>
    BY <1>5 DEF KeepsFile, Goes
  <2>2. i_cmd'.result # "failed"
    BY <2>1 DEF PlanInv
  <2> QED BY <2>1, <2>2 DEF RestoreInv, PlanOf, SettingUp, Moved
<1>6. CASE Changes
  <2>1. CASE i_cmd.pc = "erase"
    BY <2>1, <1>6 DEF Changes, Replaces, Goes, RestoreInv, PlanInv, SettingUp, Moved
  <2>2. CASE i_cmd.pc = "write"
    <3>0. PICK f \in I!Files : f = I!First(I!Pending)
      BY <1>6, ChangeFacts
    <3>1. /\ i_cmd'.pc = "apply" /\ i_cmd'.plan = i_cmd.plan /\ i_cmd'.result = i_cmd.result
          /\ i_cmd'.applied = i_cmd.applied \cup {f} /\ UNCHANGED i_hist
      BY <2>2, <1>6, <3>0 DEF Changes, Replaces, Goes
    <3>2. i_cmd'.result # "failed"
      BY <3>1, <2>2 DEF PlanInv
    <3>3. /\ PlanOf(f).do = "write" /\ i_file'[f] = PlanOf(f).content
          /\ i_file'[f].other = i_hist.file[f].other /\ \A g \in I!Files \ {f} : i_file'[g] = i_file[g]
      BY <1>6, <3>0, ChangeFacts
    <3>4. \A g \in I!Files : PlanOf(g)' = PlanOf(g)
      BY <3>1 DEF PlanOf
    <3> QED BY <2>2, <3>1, <3>2, <3>3, <3>4 DEF RestoreInv, SettingUp, Moved, PlanOf
  <2> QED BY <2>1, <2>2, <1>6 DEF Changes
<1>7. CASE I!RemoveBackup
  BY <1>7, RemoveBackupFacts DEF RestoreInv, Ended, SettingUp, Moved
<1>8. CASE I!RemoveSkills
  BY <1>8, RemoveSkillsFacts DEF RestoreInv, Ended, SettingUp, Moved
<1>9. CASE I!Rollback
  <2>1. /\ i_cmd.pc = "rollback" /\ Ended("failed") /\ i_cmd'.refreshed = i_cmd.refreshed
        /\ \A f \in I!Files : i_file'[f] = I!RolledBack(f)
        /\ \A k \in I!Skills : i_skill'[k] = IF k \in i_cmd.installed THEN 0 ELSE i_skill[k]
        /\ i_backup.state # "none" => SameRecord(i_output', i_backup)
        /\ i_backup.state = "none" =>
               i_output' = IF i_output.state = "partial" \/ i_cmd.applied # {} \/ i_hist.output.state = "none"
                         THEN I!NoSetup ELSE i_output
        /\ i_hist'.own = i_hist.own /\ i_hist'.raced = i_hist.raced
        /\ i_hist'.output = i_hist.output /\ i_hist'.file = i_hist.file /\ i_hist'.skill = i_hist.skill
    BY <1>9, RollbackFacts
  <2>2. i_output'.state = "partial" \/ SameRecord(i_output', i_hist.output)
    <3>1. i_hist.output.state = "none" => i_hist.output = I!NoSetup
      BY DEF SetupType, HistoryRecord, SetupRecord
    <3> QED BY <2>1, <3>1 DEF BackupInv, SameRecord
  <2>3. ASSUME NEW f \in I!Files \ (i_hist.own \cup i_hist.raced)
        PROVE  \/ i_file'[f].other > i_hist.file[f].other
               \/ i_file'[f].other = i_hist.file[f].other /\ i_file'[f].entry = i_hist.file[f].entry
    <3>1. CASE f \in i_cmd.applied /\ PlanOf(f).do = "write" /\ i_file[f] = PlanOf(f).content
      <4>1. I!RolledBack(f) = i_hist.file[f]
        BY <3>1 DEF I!RolledBack, PlanOf, PlanInv
      <4> QED BY <4>1, <2>1
    <3>2. CASE ~(f \in i_cmd.applied /\ PlanOf(f).do = "write" /\ i_file[f] = PlanOf(f).content)
      <4>1. I!RolledBack(f) = i_file[f]
        BY <3>2 DEF I!RolledBack, PlanOf
      <4> QED BY <4>1, <3>2, <2>1 DEF RestoreInv
    <3> QED BY <3>1, <3>2
  <2>4. i_cmd.refreshed = {} => \A k \in I!Skills : k \in i_hist.own \/ i_skill'[k] = i_hist.skill[k]
    BY <2>1 DEF SkillInv
  <2> QED BY <2>1, <2>2, <2>3, <2>4 DEF RestoreInv, Ended, SettingUp, Moved
<1>10. ASSUME NEW k \in I!Skills, I!ModifySkill(k) PROVE RestoreInv'
  <2>1. /\ UNCHANGED <<i_cmd, i_file, i_output>> /\ \A j \in I!Skills \ {k} : i_skill'[j] = i_skill[j]
        /\ i_hist'.own = i_hist.own \cup {k} /\ i_hist.raced \subseteq i_hist'.raced
        /\ i_hist'.output = i_hist.output /\ i_hist'.file = i_hist.file /\ i_hist'.skill = i_hist.skill
    BY <1>10, ModifySkillFacts
  <2> QED BY <2>1 DEF RestoreInv, PlanOf
<1>11. CASE I!EditPolicy
  <2>1. /\ UNCHANGED <<i_cmd, i_file, i_skill>> /\ SameRecord(i_output', i_output)
        /\ i_hist'.own = i_hist.own /\ i_hist'.raced = i_hist.raced
        /\ i_hist'.output = i_hist.output /\ i_hist'.file = i_hist.file /\ i_hist'.skill = i_hist.skill
    BY <1>11, EditPolicyFacts
  <2> QED BY <2>1 DEF RestoreInv, PlanOf, SameRecord
<1>12. ASSUME NEW f \in I!Files, I!EditFile(f) PROVE RestoreInv'
  <2>1. /\ UNCHANGED <<i_cmd, i_skill, i_output>> /\ \A g \in I!Files \ {f} : i_file'[g] = i_file[g]
        /\ i_file'[f].other = i_file[f].other + 1
        /\ i_hist'.own = i_hist.own /\ i_hist.raced \subseteq i_hist'.raced
        /\ i_hist'.output = i_hist.output /\ i_hist'.file = i_hist.file /\ i_hist'.skill = i_hist.skill
    BY <1>12, EditFileFacts
  <2> QED BY <1>t, <2>1 DEF RestoreInv, PlanOf
<1>13. ASSUME NEW f \in I!Files, I!EditEntry(f) PROVE RestoreInv'
  <2>1. /\ UNCHANGED <<i_cmd, i_skill, i_output>> /\ \A g \in I!Files \ {f} : i_file'[g] = i_file[g]
        /\ i_hist'.own = i_hist.own \cup {f} /\ i_hist.raced \subseteq i_hist'.raced
        /\ i_hist'.output = i_hist.output /\ i_hist'.file = i_hist.file /\ i_hist'.skill = i_hist.skill
    BY <1>13, EditEntryFacts
  <2> QED BY <2>1 DEF RestoreInv, PlanOf
<1> QED BY <1>1, <1>2, <1>3, <1>4, <1>5, <1>6, <1>7, <1>8, <1>9, <1>10, <1>11, <1>12, <1>13 DEF StepCase

LEMMA EntryStep ==
    ASSUME SetupType, PlanInv, WriteInv, BackupInv, EntryInv, SetupType', StepCase
    PROVE  EntryInv'
<1>n. ASSUME i_cmd'.pc \notin SettingUp \cup {"rollback"} PROVE EntryInv'
  BY <1>n DEF EntryInv
<1>0. ASSUME FilesRest PROVE EntryInv'
  BY <1>0 DEF FilesRest, EntryInv, PlanOf, Written
<1>1. CASE Rests
  BY <1>1 DEF Rests, EntryInv, PlanOf, Written, SettingUp, Moved
<1>2. CASE \/ Stops \/ I!MoveOutput \/ I!WriteBundle \/ I!InstallSkills \/ I!WriteRecord \/ TurnsBack
           \/ Compares \/ I!FilesApplied \/ \E k \in I!Skills : Refreshes(k)
  BY <1>0, <1>2, FilesRestCases
<1>3. ASSUME NEW sel \in SUBSET I!Clients, BeginsSetup(sel) PROVE EntryInv'
  <2>1. Starts("move", sel) /\ i_hist'.file = i_file /\ UNCHANGED i_file
    BY <1>3, StartSetupFacts DEF BeginsSetup, Snapped
  <2> QED BY <2>1 DEF EntryInv, Starts, Written
<1>4. ASSUME NEW sel \in SUBSET I!Clients, BeginsRemoval(sel) PROVE EntryInv'
  BY <1>4, StartDetachFacts DEF BeginsRemoval, Starts, EntryInv, SettingUp, Moved
<1>5. CASE KeepsFile
  <2>1. /\ i_cmd.pc = "apply" /\ i_cmd'.plan = i_cmd.plan /\ PlanOf(I!First(I!Pending)).do = "keep"
        /\ i_cmd'.applied = i_cmd.applied \cup {I!First(I!Pending)} /\ UNCHANGED <<i_file, i_hist, i_bundled>>
    BY <1>5 DEF KeepsFile, Goes
  <2>2. \A f \in I!Files : Written(f)' <=> Written(f)
    BY <2>1 DEF Written, PlanOf
  <2> QED BY <2>1, <2>2 DEF EntryInv, SettingUp, Moved
<1>6. CASE Changes
  <2>1. CASE i_cmd.pc = "erase"
    BY <2>1, <1>6, <1>n DEF Changes, Replaces, Goes, SettingUp, Moved
  <2>2. CASE i_cmd.pc = "write"
    <3>0. PICK f \in I!Files : f = I!First(I!Pending)
      BY <1>6, ChangeFacts
    <3>1. /\ i_cmd'.plan = i_cmd.plan /\ i_cmd'.applied = i_cmd.applied \cup {f} /\ UNCHANGED <<i_hist, i_bundled>>
      BY <2>2, <1>6, <3>0 DEF Changes, Replaces, Goes
    <3>2. /\ PlanOf(f).do = "write" /\ i_file'[f].entry = i_bundled
          /\ \A g \in I!Files \ {f} : i_file'[g] = i_file[g]
      BY <1>6, <2>2, <3>0, ChangeFacts
    <3>3. Written(f)' /\ \A g \in I!Files \ {f} : Written(g)' <=> Written(g)
      BY <3>1, <3>2 DEF Written, PlanOf
    <3> QED BY <2>2, <3>1, <3>2, <3>3 DEF EntryInv, SettingUp, Moved
  <2> QED BY <2>1, <2>2, <1>6 DEF Changes
<1>7. CASE I!RemoveBackup \/ I!RemoveSkills \/ I!Rollback
  BY <1>7, <1>n, RemoveBackupFacts, RemoveSkillsFacts, RollbackFacts DEF Ended, SettingUp, Moved
<1>8. ASSUME NEW k \in I!Skills, I!ModifySkill(k) PROVE EntryInv'
  <2>1. UNCHANGED <<i_cmd, i_file, i_bundled>> /\ i_hist'.file = i_hist.file
    BY <1>8, ModifySkillFacts
  <2> QED BY <2>1 DEF EntryInv, PlanOf, Written
<1>9. CASE I!EditPolicy
  <2>1. UNCHANGED <<i_cmd, i_file, i_bundled>> /\ i_hist'.file = i_hist.file
    BY <1>9, EditPolicyFacts
  <2> QED BY <2>1 DEF EntryInv, PlanOf, Written
<1>10. ASSUME NEW f \in I!Files, I!EditFile(f) \/ I!EditEntry(f) PROVE EntryInv'
  <2>1. /\ UNCHANGED <<i_cmd, i_bundled>> /\ i_hist'.file = i_hist.file
        /\ \A g \in I!Files : i_file'[g].entry \in {I!User, i_file[g].entry}
    BY <1>10, EditFileFacts, EditEntryFacts
  <2> QED BY <2>1 DEF EntryInv, PlanOf, Written
<1> QED BY <1>1, <1>2, <1>3, <1>4, <1>5, <1>6, <1>7, <1>8, <1>9, <1>10 DEF StepCase

----------------------------------------------------------------------------
(* What the record says of the entries.                                    *)

\* The entry of a file after the rollback of a setup, unless the file was left.
LEMMA RollbackEntries ==
    ASSUME SetupType, PlanInv, EntryInv, i_cmd.pc = "rollback", NEW f \in I!Files, f \notin I!LeftWritten
    PROVE  I!RolledBack(f).entry \in {I!User, i_hist.file[f].entry}
<1>1. CASE f \in i_cmd.applied /\ PlanOf(f).do = "write" /\ i_file[f] = PlanOf(f).content
  BY <1>1 DEF I!RolledBack, PlanOf, PlanInv
<1>2. CASE ~(f \in i_cmd.applied /\ PlanOf(f).do = "write" /\ i_file[f] = PlanOf(f).content)
  <2>1. ~Written(f)
    BY <1>2 DEF Written, I!LeftWritten, PlanOf
  <2>2. I!RolledBack(f) = i_file[f]
    BY <1>2 DEF I!RolledBack, PlanOf
  <2> QED BY <2>1, <2>2 DEF EntryInv
<1> QED BY <1>1, <1>2

\* The entry of a selected file once every plan is applied.
LEMMA AppliedEntries ==
    ASSUME SetupType, PlanInv, EntryInv, i_cmd.pc = "refresh", NEW f \in I!Files, PlanOf(f).do # "skip"
    PROVE  i_file[f].entry \in {I!User, i_bundled}
<1>1. f \in i_cmd.applied
  BY DEF PlanInv, I!Pending, PlanOf
<1>2. i_file[f].entry \in {I!User, IF Written(f) THEN i_bundled ELSE i_hist.file[f].entry}
  BY DEF EntryInv, SettingUp, Moved
<1>3. PlanOf(f).do \in {"write", "keep"}
  BY DEF SetupType, CommandRecord, ConfigPlan, PlanOf
<1>4. CASE PlanOf(f).do = "write"
  BY <1>1, <1>2, <1>4 DEF Written
<1>5. CASE PlanOf(f).do = "keep"
  BY <1>2, <1>5 DEF PlanInv, Written
<1> QED BY <1>3, <1>4, <1>5

\* A file of the project that the record claims and the selection leaves out would
\* be named as still attached.
LEMMA LeftOut ==
    ASSUME SetupType, NEW sel \in SUBSET I!Clients, I!Attached(sel) = {},
           NEW f \in {"mcp", "opencode", "vscode"}, f \notin I!FilesOf(sel),
           RecordedBy(i_output, i_file[f].entry, f)
    PROVE  i_file[f].entry \notin 1 .. MaxVersion
<1> SUFFICES ASSUME i_file[f].entry \in 1 .. MaxVersion PROVE FALSE
  OBVIOUS
<1>1. i_file[f].entry # 0 /\ \E s \in I!SlotsOf(f, I!Clients) : s \in i_output.managed
  BY VersionFacts DEF RecordedBy
<1>2. \A s \in i_output.managed : SlotClient(s) \in i_output.clients
  BY DEF SetupType, SetupRecord
<1>3. CASE f = "opencode"
  <2>1. "opencode" \in i_output.clients /\ "opencode" \notin sel
    BY <1>1, <1>2, <1>3 DEF I!SlotsOf, SlotClient, I!FilesOf
  <2> QED BY <1>1, <1>3, <2>1 DEF I!Attached, I!Disabled
<1>4. CASE f = "mcp"
  <2>1. "claude" \notin sel /\ "copilot" \notin sel
    BY <1>4 DEF I!FilesOf
  <2>2. "claude" \in i_output.clients \/ "copilot" \in i_output.clients
    BY <1>1, <1>2, <1>4 DEF I!SlotsOf, SlotClient
  <2> QED BY <1>1, <1>4, <2>1, <2>2 DEF I!Attached, I!Disabled
<1>5. CASE f = "vscode"
  <2>1. "copilot" \in i_output.clients /\ "copilot" \notin sel
    BY <1>1, <1>2, <1>5 DEF I!SlotsOf, SlotClient, I!FilesOf
  <2> QED BY <1>1, <1>5, <2>1 DEF I!Attached, I!Disabled
<1> QED BY <1>3, <1>4, <1>5

\* A file of the selection that already has the entry is claimed by a client that
\* stays selected.
LEMMA StaysClaimed ==
    ASSUME SetupType, NEW sel \in SUBSET I!Clients, I!Attached(sel) = {},
           NEW f \in {"mcp", "opencode", "vscode"}, f \in I!FilesOf(sel),
           RecordedBy(i_output, i_file[f].entry, f), i_file[f].entry \in 1 .. MaxVersion,
           f = "mcp" => SharedLeft(i_output, i_skill, i_file)
    PROVE  \E s \in I!SlotsOf(f, I!Clients) : s \in i_output.managed /\ SlotClient(s) \in sel
<1>1. PICK s \in I!SlotsOf(f, I!Clients) : s \in i_output.managed
  BY DEF RecordedBy
<1>2. SlotClient(s) \in i_output.clients
  BY <1>1 DEF SetupType, SetupRecord
<1>3. CASE f = "opencode" \/ f = "vscode"
  BY <1>1, <1>3 DEF I!SlotsOf, SlotClient, I!FilesOf
<1>4. CASE f = "mcp"
  <2>1. s \in {"claude", "copilot"} /\ SlotClient(s) = s
    BY <1>1, <1>4 DEF I!SlotsOf, SlotClient
  <2> SUFFICES ASSUME s \notin sel PROVE FALSE
    BY <1>1, <2>1
  <2>2. s \in I!Disabled(sel)
    BY <1>2, <2>1 DEF I!Disabled
  <2>3. CASE s = "claude"
    <3>1. i_skill["claude"] = 0
      BY <2>2, <2>3 DEF I!Attached
    <3> QED BY <3>1, <2>1, <2>3, <1>2, <1>4 DEF SharedLeft
  <2>4. CASE s = "copilot"
    <3>1. i_file["vscode"].entry = 0
      BY <2>2, <2>4 DEF I!Attached
    <3> QED BY <3>1, <2>1, <2>4, <1>2, <1>4 DEF SharedLeft
  <2> QED BY <2>1, <2>3, <2>4
<1> QED BY <1>3, <1>4

\* Every file of a selection has the slot of a selected client.
LEMMA SelectedSlot ==
    ASSUME NEW sel \in SUBSET I!Clients, NEW f \in {"mcp", "opencode", "vscode"}, f \in I!FilesOf(sel)
    PROVE  \E s \in I!SlotsOf(f, I!Clients) : SlotClient(s) \in sel
BY DEF I!SlotsOf, SlotClient, I!FilesOf, I!Clients

LEMMA SlotFacts ==
    ASSUME NEW f \in {"mcp", "opencode", "vscode"}, NEW s \in I!SlotsOf(f, I!Clients)
    PROVE  s \in I!Slots /\ I!SlotFile(s) = f /\ (I!SlotSelected(s) <=> SlotClient(s) \in i_cmd.sel)
           /\ (I!SlotSelected(s)' <=> SlotClient(s) \in i_cmd'.sel)
BY DEF I!SlotsOf, I!Slots, I!SlotFile, I!SlotSelected, SlotClient, I!Clients

SetupInv ==
    /\ SetupType /\ PlanInv /\ WriteInv /\ UserFiles /\ UserSkills /\ SkillInv /\ UserPolicy
    /\ BackupInv /\ RestoreInv /\ EntryInv /\ RecordInv /\ SharedInv

LEMMA BeginsRecord ==
    ASSUME SetupInv, SetupType', NEW sel \in SUBSET I!Clients, BeginsSetup(sel)
    PROVE  RecordInv'
<1>1. /\ Starts("move", sel) /\ Snapped /\ i_hist'.left = i_hist.left
      /\ UNCHANGED <<i_bundled, i_defaults, i_file, i_skill, i_output, i_backup, i_faults>>
      /\ \A f \in I!Files : i_cmd'.plan[f] = I!InstallPlan(f, sel)
  BY StartSetupFacts DEF BeginsSetup, SetupInv
<1> SUFFICES ASSUME i_faults = 0 PROVE RecordInv'
  BY <1>1 DEF RecordInv
<1>2. \A f \in Claimed : RecordedBy(i_output, i_file[f].entry, f)
  BY DEF SetupInv, RecordInv, BeginsSetup
<1>3. Claimed' = Claimed /\ Claimed \subseteq {"mcp", "opencode", "vscode"} /\ Claimed \subseteq I!Files
  BY <1>1 DEF Claimed, I!Files
<1>4. \A f \in I!Files : PlanOf(f)' = I!InstallPlan(f, sel)
  BY <1>1 DEF PlanOf
<1>5. SetupType /\ I!Attached(sel) = {}
  BY DEF SetupInv, BeginsSetup
<1>6. ASSUME NEW f \in Claimed, f \notin I!FilesOf(sel)
      PROVE  PlanOf(f)'.do = "skip" /\ i_hist'.file[f].entry \notin 1 .. MaxVersion
  BY <1>1, <1>2, <1>3, <1>4, <1>5, <1>6, LeftOut, InstallPlanType DEF Snapped
<1>7. ASSUME NEW f \in Claimed, f \in I!FilesOf(sel)
      PROVE  PlanOf(f)'.do # "skip" /\ I!SlotsOf(f, I!Clients) \cap Managing(i_hist.output.managed)' # {}
  <2>1. /\ PlanOf(f)'.do # "skip" /\ PlanOf(f)'.do \in {"write", "keep"}
        /\ PlanOf(f)'.do = "keep" => i_file[f].entry = i_bundled
    BY <1>3, <1>4, <1>5, <1>7, InstallPlanType DEF ConfigPlan
  <2>2. i_cmd'.sel = sel /\ i_hist'.output = i_output
    BY <1>1 DEF Starts, Snapped
  <2>3. CASE PlanOf(f)'.do = "write"
    <3>1. PICK s \in I!SlotsOf(f, I!Clients) : SlotClient(s) \in sel
      BY <1>3, <1>7, SelectedSlot
    <3>2. s \in I!Slots /\ I!SlotFile(s) = f /\ I!SlotSelected(s)'
      BY <3>1, <1>3, <2>2, SlotFacts
    <3> QED BY <3>1, <3>2, <2>1, <2>3 DEF Managing
  <2>4. CASE PlanOf(f)'.do = "keep"
    <3>1. i_file[f].entry \in 1 .. MaxVersion
      BY <2>1, <2>4, <1>5 DEF SetupType
    <3>2. f = "mcp" => SharedLeft(i_output, i_skill, i_file)
      BY DEF SetupInv, SharedInv, BeginsSetup, Claimed
    <3>3. PICK s \in I!SlotsOf(f, I!Clients) : s \in i_output.managed /\ SlotClient(s) \in sel
      BY <3>1, <3>2, <1>2, <1>3, <1>5, <1>7, StaysClaimed
    <3>4. s \in I!Slots /\ I!SlotSelected(s)'
      BY <3>3, <1>3, <2>2, SlotFacts
    <3> QED BY <3>3, <3>4, <2>1, <2>2 DEF Managing
  <2> QED BY <2>1, <2>3, <2>4
<1>8. \A f \in I!Files : PlanOf(f)'.do = "skip" <=> f \notin I!FilesOf(i_cmd'.sel)
  BY <1>1, <1>4, <1>5, InstallPlanType DEF Starts
<1>9. i_cmd'.pc = "move" /\ i_hist'.output = i_output /\ i_hist'.file = i_file
  BY <1>1 DEF Starts, Snapped
<1> QED BY <1>1, <1>2, <1>3, <1>6, <1>7, <1>8, <1>9 DEF RecordInv, SettingUp, Moved, DetachSteps

\* The steps that leave the entries, the plans and the record alone.
RecordRests ==
    /\ i_faults' = i_faults => UNCHANGED i_output /\ (UNCHANGED i_bundled \/ i_cmd.pc = "idle")
    /\ i_faults' \in {i_faults, i_faults + 1} /\ i_file' = i_file /\ i_hist' = i_hist
    /\ i_faults' = i_faults =>
         \/ i_cmd' = i_cmd
         \/ i_cmd.pc \in {"idle"} \cup DetachSteps /\ i_cmd'.pc \in {"idle"} \cup DetachSteps
         \/ i_cmd.pc \in SettingUp /\ i_cmd'.pc = "rollback"
         \/ /\ i_cmd.pc \in {"skills", "record", "apply", "write", "refresh"}
            /\ i_cmd'.pc \in {"skills", "record", "apply", "write", "refresh"}
            /\ i_cmd'.pc \in {"apply", "write", "refresh"} <=> i_cmd.pc \in {"apply", "write", "refresh"}
            /\ i_cmd'.plan = i_cmd.plan /\ i_cmd'.sel = i_cmd.sel

LEMMA RecordRestCases ==
    ASSUME SetupType,
           \/ Rests \/ Stops \/ I!InstallSkills \/ TurnsBack \/ KeepsFile \/ Compares
           \/ I!FilesApplied \/ \E k \in I!Skills : Refreshes(k)
    PROVE  RecordRests
<1>1. CASE Rests
  BY <1>1 DEF Rests, RecordRests
<1>2. CASE Stops
  <2>1. i_faults \in Nat
    BY DEF SetupType
  <2> QED BY <1>2, <2>1 DEF Stops, RecordRests, Ended
<1>3. CASE I!InstallSkills \/ I!FilesApplied
  BY <1>3, InstallSkillsFacts, FilesAppliedFacts DEF RecordRests, Goes, Quiet
<1>4. CASE TurnsBack
  BY <1>4 DEF TurnsBack, RecordRests, Goes
<1>5. CASE KeepsFile \/ Compares
  BY <1>5 DEF KeepsFile, Compares, RecordRests, Goes, DetachSteps
<1>6. ASSUME NEW k \in I!Skills, Refreshes(k) PROVE RecordRests
  BY <1>6 DEF Refreshes, RecordRests, Goes
<1> QED BY <1>1, <1>2, <1>3, <1>4, <1>5, <1>6

LEMMA RecordStep ==
    ASSUME SetupInv, SetupType', StepCase
    PROVE  RecordInv'
<1> USE DEF SameRecord
<1>t. /\ SetupType /\ PlanInv /\ WriteInv /\ BackupInv /\ SkillInv /\ EntryInv /\ RecordInv /\ i_faults \in Nat
  BY DEF SetupInv, SetupType
<1>0. ASSUME RecordRests PROVE RecordInv'
  <2> SUFFICES ASSUME i_faults' = 0 PROVE RecordInv'
    BY DEF RecordInv
  <2>1. i_faults = 0 /\ UNCHANGED <<i_output, i_file, i_hist>> /\ (i_bundled' = i_bundled \/ i_cmd.pc = "idle")
    BY <1>0, <1>t DEF RecordRests
  <2>2. CASE i_cmd' = i_cmd
    BY <1>t, <2>1, <2>2 DEF RecordInv, Claimed, Managing, PlanOf, I!SlotSelected, SettingUp, Moved
  <2>3. CASE i_cmd.pc \in {"idle"} \cup DetachSteps /\ i_cmd'.pc \in {"idle"} \cup DetachSteps
    BY <1>t, <2>1, <2>3 DEF RecordInv, Claimed, SettingUp, Moved, DetachSteps
  <2>4. CASE i_cmd.pc \in SettingUp /\ i_cmd'.pc = "rollback"
    BY <1>t, <2>1, <2>4 DEF RecordInv, Claimed, SettingUp, Moved, DetachSteps
  <2>5. CASE /\ i_cmd.pc \in {"skills", "record", "apply", "write", "refresh"}
             /\ i_cmd'.pc \in {"skills", "record", "apply", "write", "refresh"}
             /\ i_cmd'.pc \in {"apply", "write", "refresh"} <=> i_cmd.pc \in {"apply", "write", "refresh"}
             /\ i_cmd'.plan = i_cmd.plan /\ i_cmd'.sel = i_cmd.sel
    <3>1. i_bundled' = i_bundled
      BY <2>1, <2>5
    <3>2. (\A f \in I!Files : PlanOf(f)' = PlanOf(f)) /\ Claimed' = Claimed /\ Claimed \subseteq I!Files
      BY <2>1, <2>5 DEF PlanOf, Claimed
    <3>3. Managing(i_hist.output.managed)' = Managing(i_hist.output.managed)
      BY <2>1, <2>5 DEF Managing, PlanOf, I!SlotSelected
    <3> QED BY <1>t, <2>1, <2>5, <3>1, <3>2, <3>3 DEF RecordInv, SettingUp, Moved, DetachSteps
  <2> QED BY <1>0, <2>1, <2>2, <2>3, <2>4, <2>5 DEF RecordRests
<1>1. CASE \/ Rests \/ Stops \/ I!InstallSkills \/ TurnsBack \/ KeepsFile \/ Compares
           \/ I!FilesApplied \/ \E k \in I!Skills : Refreshes(k)
  BY <1>0, <1>1, <1>t, RecordRestCases
<1>2. ASSUME NEW sel \in SUBSET I!Clients, BeginsSetup(sel) PROVE RecordInv'
  BY <1>2, BeginsRecord
<1>3. ASSUME NEW sel \in SUBSET I!Clients, BeginsRemoval(sel) PROVE RecordInv'
  <2>1. /\ i_cmd.pc = "idle" /\ i_cmd'.pc = "remove" /\ UNCHANGED <<i_file, i_output, i_faults>>
        /\ i_hist.left \subseteq i_hist'.left
    BY <1>3, <1>t, StartDetachFacts DEF BeginsRemoval, Starts
  <2> QED BY <1>t, <2>1 DEF RecordInv, Claimed, SettingUp, Moved, DetachSteps
<1>4. CASE I!MoveOutput \/ I!WriteBundle
  <2>1. /\ i_cmd.pc \in {"move", "bundle"} /\ i_cmd'.pc \in {"bundle", "skills"}
        /\ (i_cmd'.pc = "skills" => i_output'.conf = i_bundled) /\ i_cmd'.plan = i_cmd.plan /\ i_cmd'.sel = i_cmd.sel
        /\ UNCHANGED <<i_bundled, i_hist, i_faults>>
    BY <1>4, <1>t, MoveOutputFacts, WriteBundleFacts DEF Goes
  <2>2. (\A f \in I!Files : PlanOf(f)' = PlanOf(f)) /\ Claimed' = Claimed /\ Claimed \subseteq I!Files
    BY <2>1 DEF PlanOf, Claimed
  <2>3. Managing(i_hist.output.managed)' = Managing(i_hist.output.managed)
    BY <2>1 DEF Managing, PlanOf, I!SlotSelected
  <2> QED BY <1>t, <2>1, <2>2, <2>3 DEF RecordInv, SettingUp, Moved, DetachSteps
<1>5. CASE I!WriteRecord
  <2>1. /\ i_cmd.pc = "record" /\ i_cmd'.pc = "apply" /\ i_output'.state = "ok" /\ i_output'.clients = i_cmd.sel
        /\ i_output'.managed = I!ManagedSlots /\ i_output'.conf = i_output.conf
        /\ i_cmd'.plan = i_cmd.plan /\ i_cmd'.sel = i_cmd.sel /\ UNCHANGED <<i_bundled, i_hist, i_faults>>
    BY <1>5, <1>t, WriteRecordFacts DEF Goes
  <2>2. (\A f \in I!Files : PlanOf(f)' = PlanOf(f)) /\ Claimed' = Claimed /\ Claimed \subseteq I!Files
    BY <2>1 DEF PlanOf, Claimed
  <2>3. i_backup.managed = i_hist.output.managed
    BY <2>1, <1>t DEF BackupInv, Moved
  <2>4. I!ManagedSlots = Managing(i_hist.output.managed)
    BY <2>3 DEF Managing, I!ManagedSlots, PlanOf
  <2> QED BY <1>t, <2>1, <2>2, <2>4 DEF RecordInv, SettingUp, Moved, DetachSteps
<1>6. CASE Changes
  <2>1. CASE i_cmd.pc = "erase"
    <3>1. i_cmd'.pc = "remove" /\ UNCHANGED <<i_output, i_hist, i_faults>>
      BY <2>1, <1>6 DEF Changes, Replaces, Goes
    <3>2. \A f \in I!Files : i_file'[f].entry \in {0, i_file[f].entry}
      BY <2>1, <1>6, <1>t, ChangeFacts
    <3>3. 0 \notin 1 .. MaxVersion /\ Claimed' = Claimed /\ Claimed \subseteq I!Files
      BY <3>1 DEF Claimed
    <3> QED BY <1>t, <2>1, <3>1, <3>2, <3>3 DEF RecordInv, RecordedBy, SettingUp, Moved, DetachSteps
  <2>2. CASE i_cmd.pc = "write"
    <3>1. /\ i_cmd'.pc = "apply" /\ i_cmd'.plan = i_cmd.plan /\ i_cmd'.sel = i_cmd.sel
          /\ UNCHANGED <<i_bundled, i_output, i_hist, i_faults>>
      BY <2>2, <1>6 DEF Changes, Replaces, Goes
    <3>2. (\A f \in I!Files : PlanOf(f)' = PlanOf(f)) /\ Claimed' = Claimed /\ Claimed \subseteq I!Files
      BY <3>1 DEF PlanOf, Claimed
    <3> QED BY <1>t, <2>2, <3>1, <3>2 DEF RecordInv, SettingUp, Moved, DetachSteps
  <2> QED BY <2>1, <2>2, <1>6 DEF Changes
<1>7. CASE I!RemoveBackup
  <2>1. /\ i_cmd.pc = "refresh" /\ i_cmd'.pc = "idle" /\ i_hist'.left = i_hist.left
        /\ UNCHANGED <<i_file, i_output, i_faults>>
    BY <1>7, <1>t, RemoveBackupFacts DEF Ended
  <2> SUFFICES ASSUME i_faults = 0, NEW f \in Claimed, i_file[f].entry \in 1 .. MaxVersion
               PROVE  /\ i_output.state = "ok" /\ i_file[f].entry = i_output.conf
                      /\ I!SlotsOf(f, I!Clients) \cap i_output.managed # {}
    BY <2>1 DEF RecordInv, RecordedBy, Claimed, SettingUp, Moved, DetachSteps
  <2>2. f \in I!Files /\ i_file[f].entry # I!User
    BY VersionFacts DEF Claimed
  <2>3. i_output.state = "ok" /\ i_output.conf = i_bundled
    BY <1>t, <2>1 DEF RecordInv
  <2>4. PlanOf(f).do # "skip"
    <3> SUFFICES ASSUME PlanOf(f).do = "skip" PROVE FALSE
      OBVIOUS
    <3>1. i_hist.file[f].entry \notin 1 .. MaxVersion
      BY <1>t, <2>1 DEF RecordInv, SettingUp, Moved
    <3> QED BY <1>t, <2>1, <2>2, <3>1 DEF EntryInv, Written, SettingUp, Moved
  <2>5. I!SlotsOf(f, I!Clients) \cap i_output.managed # {}
    BY <1>t, <2>1, <2>4 DEF RecordInv, SettingUp, Moved
  <2> QED BY <1>t, <2>1, <2>2, <2>3, <2>4, <2>5, AppliedEntries
<1>8. CASE I!Rollback
  <2>1. /\ i_cmd.pc = "rollback" /\ i_cmd'.pc = "idle" /\ i_hist'.left = i_hist.left \cup I!LeftWritten
        /\ \A f \in I!Files : i_file'[f] = I!RolledBack(f)
        /\ i_backup.state # "none" => SameRecord(i_output', i_backup)
        /\ i_backup.state = "none" =>
               i_output' = IF i_output.state = "partial" \/ i_cmd.applied # {} \/ i_hist.output.state = "none"
                         THEN I!NoSetup ELSE i_output
        /\ UNCHANGED i_faults
    BY <1>8, <1>t, RollbackFacts DEF Ended
  <2> SUFFICES ASSUME i_faults = 0, NEW f \in Claimed', i_file'[f].entry \in 1 .. MaxVersion
               PROVE  RecordedBy(i_output', i_file'[f].entry, f)
    BY <2>1 DEF RecordInv, RecordedBy, SettingUp, Moved, DetachSteps
  <2>2. f \in I!Files /\ f \in Claimed /\ f \notin I!LeftWritten /\ i_file'[f].entry # I!User
    BY <2>1, VersionFacts DEF Claimed
  <2>3. i_file'[f].entry = i_hist.file[f].entry
    BY <1>t, <2>1, <2>2, RollbackEntries
  <2>4. RecordedBy(i_hist.output, i_hist.file[f].entry, f)
    BY <1>t, <2>1, <2>2 DEF RecordInv
  <2>5. SameRecord(i_backup, i_hist.output)
    BY <1>t, <2>1 DEF BackupInv
  <2>6. i_backup.state # "none"
    BY <2>3, <2>4, <2>5 DEF RecordedBy
  <2> QED BY <2>1, <2>3, <2>4, <2>5, <2>6 DEF RecordedBy
<1>9. CASE I!RemoveSkills
  <2>1. i_cmd.pc = "remove" /\ i_cmd'.pc = "idle" /\ UNCHANGED <<i_file, i_output, i_faults>> /\ i_hist'.left = i_hist.left
    BY <1>9, <1>t, RemoveSkillsFacts DEF Ended
  <2> QED BY <1>t, <2>1 DEF RecordInv, Claimed, SettingUp, Moved, DetachSteps
<1>10. ASSUME UNCHANGED <<i_bundled, i_cmd, i_faults>>, SameRecord(i_output', i_output),
              i_hist'.left = i_hist.left, i_hist'.output = i_hist.output, i_hist'.file = i_hist.file,
              \A f \in I!Files : i_file'[f].entry \in {I!User, i_file[f].entry}
       PROVE  RecordInv'
  <2>1. (\A f \in I!Files : PlanOf(f)' = PlanOf(f)) /\ Claimed' = Claimed /\ Claimed \subseteq I!Files
    BY <1>10 DEF PlanOf, Claimed
  <2>2. Managing(i_hist.output.managed)' = Managing(i_hist.output.managed)
    BY <1>10 DEF Managing, PlanOf, I!SlotSelected
  <2>3. I!User \notin 1 .. MaxVersion
    BY VersionFacts
  <2>4. \A f \in Claimed : RecordedBy(i_output, i_file[f].entry, f) => RecordedBy(i_output', i_file'[f].entry, f)
    BY <1>10, <2>1, <2>3 DEF RecordedBy
  <2> QED BY <1>10, <1>t, <2>1, <2>2, <2>4 DEF RecordInv
<1>11. ASSUME NEW k \in I!Skills, I!ModifySkill(k) PROVE RecordInv'
  BY <1>10, <1>11, <1>t, ModifySkillFacts
<1>12. CASE I!EditPolicy
  BY <1>10, <1>12, <1>t, EditPolicyFacts
<1>13. ASSUME NEW f \in I!Files, I!EditFile(f) \/ I!EditEntry(f) PROVE RecordInv'
  BY <1>10, <1>13, <1>t, EditFileFacts, EditEntryFacts
<1> QED BY <1>1, <1>2, <1>3, <1>4, <1>5, <1>6, <1>7, <1>8, <1>9, <1>11, <1>12, <1>13 DEF StepCase

----------------------------------------------------------------------------
(* The file of two clients.                                                *)

LEMMA SharedStep ==
    ASSUME SetupInv, SetupType', StepCase
    PROVE  SharedInv'
<1> USE DEF SameRecord
<1>t. /\ SetupType /\ PlanInv /\ WriteInv /\ BackupInv /\ SkillInv /\ EntryInv /\ RecordInv /\ SharedInv
      /\ i_faults \in Nat /\ {"mcp", "vscode"} \subseteq I!Files /\ "claude" \in I!Skills
      /\ 0 \notin 1 .. MaxVersion /\ I!User \notin 1 .. MaxVersion /\ I!User # 0 /\ i_bundled # 0
  BY VersionFacts DEF SetupInv, SetupType, I!Files, I!Skills
<1>0. ASSUME RecordRests, UNCHANGED i_skill, i_cmd.pc \in DetachSteps => i_cmd'.pc = "idle" \/
                 (i_cmd'.plan = i_cmd.plan /\ i_cmd'.skills = i_cmd.skills /\ i_cmd'.applied = i_cmd.applied)
             \/ UNCHANGED i_cmd,
             i_cmd.pc = "idle" => i_cmd'.pc = "idle"
      PROVE  SharedInv'
  <2> SUFFICES ASSUME i_faults' = 0 PROVE SharedInv'
    BY DEF SharedInv
  <2>1. i_faults = 0 /\ UNCHANGED <<i_output, i_file, i_hist>>
    BY <1>0, <1>t DEF RecordRests
  <2> QED BY <1>0, <1>t, <2>1 DEF RecordRests, SharedInv, PlanOf, SettingUp, Moved, DetachSteps
<1>1. CASE Rests \/ Stops \/ TurnsBack \/ KeepsFile \/ Compares
  BY <1>0, <1>1, <1>t, RecordRestCases
     DEF Rests, Stops, TurnsBack, KeepsFile, Compares, Ended, Goes, Carries, SettingUp, Moved, DetachSteps
<1>2. CASE I!FilesApplied
  BY <1>0, <1>2, <1>t, RecordRestCases, FilesAppliedFacts DEF Goes, Quiet, DetachSteps
<1>3. ASSUME UNCHANGED <<i_hist, i_faults>>, i_cmd.pc \in SettingUp, i_cmd'.pc \in Moved
      PROVE  SharedInv'
  BY <1>3, <1>t DEF SharedInv, SettingUp, Moved, DetachSteps
<1>4. CASE I!MoveOutput \/ I!WriteBundle \/ I!InstallSkills \/ I!WriteRecord
  BY <1>3, <1>4, <1>t, MoveOutputFacts, WriteBundleFacts, InstallSkillsFacts, WriteRecordFacts
     DEF Goes, SettingUp, Moved
<1>5. ASSUME NEW k \in I!Skills, Refreshes(k) PROVE SharedInv'
  BY <1>3, <1>5 DEF Refreshes, Goes, SettingUp, Moved
<1>6. ASSUME NEW sel \in SUBSET I!Clients, BeginsSetup(sel) PROVE SharedInv'
  <2>1. /\ i_cmd.pc = "idle" /\ i_cmd'.pc = "move" /\ i_hist'.left = i_hist.left
        /\ i_hist'.output = i_output /\ i_hist'.file = i_file /\ i_hist'.skill = i_skill
        /\ UNCHANGED <<i_file, i_skill, i_output, i_faults>>
    BY <1>6, <1>t, StartSetupFacts DEF BeginsSetup, Starts, Snapped
  <2> QED BY <1>t, <2>1 DEF SharedInv, SettingUp, Moved, DetachSteps
<1>7. ASSUME NEW sel \in SUBSET I!Clients, BeginsRemoval(sel) PROVE SharedInv'
  <2>1. /\ i_cmd.pc = "idle" /\ i_cmd'.pc = "remove" /\ i_cmd'.applied = {}
        /\ i_hist'.left = i_hist.left \cup (IF I!PreserveShared(sel) THEN {"mcp"} ELSE {})
        /\ UNCHANGED <<i_file, i_skill, i_output, i_faults>>
        /\ \A f \in I!Files : i_cmd'.plan[f] = I!RemovalPlan(f, sel)
        /\ \A k \in I!Skills : i_cmd'.skills[k] =
               IF k \in I!RemovalSkills(sel) /\ i_skill[k] # 0 THEN "remove" ELSE "skip"
    BY <1>7, <1>t, StartDetachFacts DEF BeginsRemoval, Starts
  <2>2. ASSUME "mcp" \notin i_hist'.left,
               i_cmd'.plan["vscode"].do = "write" \/ i_cmd'.skills["claude"] = "remove"
        PROVE  i_cmd'.plan["mcp"].do = "write" \/ i_file["mcp"].entry \notin 1 .. MaxVersion
    <3>1. "vscode" \in I!RemovalFiles(sel) \/ "claude" \in I!RemovalSkills(sel)
      BY <2>1, <2>2, <1>t, RemovalPlanType
    <3>2. "mcp" \in I!FilesOf(sel)
      BY <3>1 DEF I!RemovalFiles, I!RemovalSkills, I!FilesOf, I!SkillsOf
    <3>3. "mcp" \in I!RemovalFiles(sel)
      BY <2>1, <2>2, <3>2 DEF I!RemovalFiles
    <3> QED BY <2>1, <3>3, <1>t, RemovalPlanType
  <2> QED BY <1>t, <2>1, <2>2 DEF SharedInv, PlanOf, SettingUp, Moved, DetachSteps
<1>8. CASE Changes
  <2>1. CASE i_cmd.pc = "write"
    BY <1>3, <1>8, <2>1 DEF Changes, Replaces, Goes, SettingUp, Moved
  <2>2. CASE i_cmd.pc = "erase"
    <3>0. PICK f \in I!Files : f = I!First(I!Pending)
      BY <1>8, <1>t, ChangeFacts
    <3>1. /\ i_cmd'.pc = "remove" /\ i_cmd'.plan = i_cmd.plan /\ i_cmd'.skills = i_cmd.skills
          /\ i_cmd'.applied = i_cmd.applied \cup {f} /\ UNCHANGED <<i_hist, i_skill, i_output, i_faults>>
      BY <1>8, <2>2, <3>0 DEF Changes, Replaces, Goes
    <3>2. /\ PlanOf(f).do = "write" /\ i_file'[f].entry = 0
          /\ \A g \in I!Files \ {f} : i_file'[g] = i_file[g]
      BY <1>8, <2>2, <3>0, <1>t, ChangeFacts
    <3>3. I!Pending # {}
      BY <1>t, <2>2 DEF WriteInv
    <3> SUFFICES ASSUME i_faults = 0, "mcp" \notin i_hist.left PROVE SharedInv'
      BY <3>1 DEF SharedInv
    <3>4. /\ SharedLeft(i_output, i_skill, i_file)
          /\ PlanOf("vscode").do = "write" \/ i_cmd.skills["claude"] = "remove" =>
                 PlanOf("mcp").do = "write" \/ i_file["mcp"].entry \notin 1 .. MaxVersion
          /\ "mcp" \in i_cmd.applied => i_file["mcp"].entry \notin 1 .. MaxVersion
      BY <1>t, <2>2 DEF SharedInv, DetachSteps
    <3>5. f = "vscode" => i_file["mcp"].entry \notin 1 .. MaxVersion
      <4> SUFFICES ASSUME f = "vscode" PROVE i_file["mcp"].entry \notin 1 .. MaxVersion
        OBVIOUS
      <4>1. "mcp" \notin I!Pending
        BY <3>0, <3>3, FirstPending, PendingFiles
      <4>2. PlanOf("mcp").do = "write" => "mcp" \in i_cmd.applied
        BY <4>1, <1>t DEF I!Pending, PlanOf
      <4> QED BY <4>2, <3>2, <3>4
    <3>6. SharedLeft(i_output, i_skill, i_file')
      BY <1>t, <3>2, <3>4, <3>5 DEF SharedLeft
    <3>7. i_file'["mcp"].entry \in {0, i_file["mcp"].entry} /\ (f = "mcp" => i_file'["mcp"].entry = 0)
      BY <1>t, <3>2
    <3> QED BY <1>t, <3>1, <3>4, <3>6, <3>7 DEF SharedInv, PlanOf, SettingUp, Moved, DetachSteps
  <2> QED BY <2>1, <2>2, <1>8 DEF Changes
<1>9. CASE I!RemoveBackup
  <2>1. /\ i_cmd.pc = "refresh" /\ i_cmd'.pc = "idle" /\ UNCHANGED <<i_file, i_skill, i_output, i_faults>>
        /\ i_hist'.left = i_hist.left
    BY <1>9, <1>t, RemoveBackupFacts DEF Ended
  <2> SUFFICES ASSUME i_faults = 0 PROVE SharedLeft(i_output, i_skill, i_file)
    BY <2>1 DEF SharedInv, SettingUp, Moved, DetachSteps
  <2>2. i_output.clients = i_cmd.sel
    BY <1>t, <2>1 DEF RecordInv
  <2>3. "claude" \in i_cmd.sel => i_skill["claude"] # 0
    <3>1. "claude" \in i_cmd.sel => "claude" \in I!SkillsOf(i_cmd.sel)
      BY DEF I!SkillsOf
    <3> QED BY <3>1, <2>1, <1>t DEF SkillInv, SettingUp, Moved
  <2>4. "copilot" \in i_cmd.sel => i_file["vscode"].entry # 0
    <3> SUFFICES ASSUME "copilot" \in i_cmd.sel PROVE i_file["vscode"].entry # 0
      OBVIOUS
    <3>1. "vscode" \in I!FilesOf(i_cmd.sel)
      BY DEF I!FilesOf
    <3>2. PlanOf("vscode").do # "skip"
      BY <3>1, <1>t, <2>1 DEF RecordInv, SettingUp, Moved
    <3>3. i_file["vscode"].entry \in {I!User, i_bundled}
      BY <3>2, <1>t, <2>1, AppliedEntries
    <3> QED BY <3>3, <1>t
  <2> QED BY <2>2, <2>3, <2>4 DEF SharedLeft
<1>10. CASE I!Rollback
  <2>1. /\ i_cmd.pc = "rollback" /\ i_cmd'.pc = "idle" /\ i_hist'.left = i_hist.left \cup I!LeftWritten
        /\ \A f \in I!Files : i_file'[f] = I!RolledBack(f)
        /\ \A k \in I!Skills : i_skill'[k] = IF k \in i_cmd.installed THEN 0 ELSE i_skill[k]
        /\ i_backup.state # "none" => SameRecord(i_output', i_backup)
        /\ i_backup.state = "none" =>
               i_output' = IF i_output.state = "partial" \/ i_cmd.applied # {} \/ i_hist.output.state = "none"
                         THEN I!NoSetup ELSE i_output
        /\ UNCHANGED i_faults
    BY <1>10, <1>t, RollbackFacts DEF Ended
  <2> SUFFICES ASSUME i_faults = 0, "mcp" \notin i_hist.left, "mcp" \notin I!LeftWritten,
                      i_file'["mcp"].entry \in 1 .. MaxVersion,
                      \/ "claude" \in i_output'.clients /\ i_skill'["claude"] = 0
                      \/ "copilot" \in i_output'.clients /\ i_file'["vscode"].entry = 0
               PROVE  FALSE
    BY <2>1 DEF SharedInv, SharedLeft, SettingUp, Moved, DetachSteps
  <2>2. SameRecord(i_backup, i_hist.output)
    BY <1>t, <2>1 DEF BackupInv
  <2>3. i_output'.clients = i_hist.output.clients
    <3>1. i_hist.output.state = "none" => i_hist.output = I!NoSetup
      BY <1>t DEF SetupType, HistoryRecord, SetupRecord
    <3> QED BY <3>1, <2>1, <2>2
  <2>4. i_hist.file["mcp"].entry \in 1 .. MaxVersion
    BY <1>t, <2>1, RollbackEntries
  <2>5. i_skill'["claude"] = 0 => i_hist.skill["claude"] = 0
    BY <1>t, <2>1 DEF SkillInv
  <2>6. i_file'["vscode"].entry = 0 => i_hist.file["vscode"].entry = 0
    <3>1. \/ I!RolledBack("vscode") = i_file["vscode"] \/ I!RolledBack("vscode") = i_hist.file["vscode"]
      BY <1>t, <2>1, RolledBackFacts
    <3>2. i_file["vscode"].entry \in {I!User, i_bundled, i_hist.file["vscode"].entry}
      BY <1>t, <2>1 DEF EntryInv
    <3> QED BY <3>1, <3>2, <2>1, <1>t
  <2>7. SharedLeft(i_hist.output, i_hist.skill, i_hist.file)
    BY <1>t, <2>1 DEF SharedInv
  <2> QED BY <2>3, <2>4, <2>5, <2>6, <2>7 DEF SharedLeft
<1>11. CASE I!RemoveSkills
  <2>1. /\ i_cmd.pc = "remove" /\ I!Pending = {} /\ i_cmd'.pc = "idle" /\ UNCHANGED <<i_file, i_output, i_faults>>
        /\ i_hist'.left = i_hist.left
        /\ i_skill'["claude"] =
             IF i_cmd.skills["claude"] = "remove" /\ i_skill["claude"] = i_hist.skill["claude"]
             THEN 0 ELSE i_skill["claude"]
    BY <1>11, <1>t, RemoveSkillsFacts DEF Ended
  <2> SUFFICES ASSUME i_faults = 0, "mcp" \notin i_hist.left PROVE SharedLeft(i_output, i_skill', i_file)
    BY <2>1 DEF SharedInv, SettingUp, Moved, DetachSteps
  <2>2. /\ SharedLeft(i_output, i_skill, i_file)
        /\ i_cmd.skills["claude"] = "remove" =>
               PlanOf("mcp").do = "write" \/ i_file["mcp"].entry \notin 1 .. MaxVersion
        /\ "mcp" \in i_cmd.applied => i_file["mcp"].entry \notin 1 .. MaxVersion
    BY <1>t, <2>1 DEF SharedInv, DetachSteps
  <2>3. PlanOf("mcp").do = "write" => "mcp" \in i_cmd.applied
    BY <2>1, <1>t DEF I!Pending, PlanOf
  <2> QED BY <2>1, <2>2, <2>3 DEF SharedLeft
<1>12. ASSUME UNCHANGED <<i_cmd, i_faults>>, SameRecord(i_output', i_output),
              i_hist'.left = i_hist.left, i_hist'.output = i_hist.output, i_hist'.file = i_hist.file,
              i_hist'.skill = i_hist.skill, \A f \in I!Files : i_file'[f].entry \in {I!User, i_file[f].entry},
              i_skill'["claude"] \in {I!User, i_skill["claude"]}
       PROVE  SharedInv'
  <2>1. SharedLeft(i_output, i_skill, i_file) => SharedLeft(i_output', i_skill', i_file')
    BY <1>12, <1>t DEF SharedLeft
  <2>2. i_file'["mcp"].entry \in {I!User, i_file["mcp"].entry}
    BY <1>12, <1>t
  <2> QED BY <1>12, <1>t, <2>1, <2>2 DEF SharedInv, PlanOf
<1>13. ASSUME NEW k \in I!Skills, I!ModifySkill(k) PROVE SharedInv'
  BY <1>12, <1>13, <1>t, ModifySkillFacts
<1>14. CASE I!EditPolicy
  BY <1>12, <1>14, <1>t, EditPolicyFacts
<1>15. ASSUME NEW f \in I!Files, I!EditFile(f) \/ I!EditEntry(f) PROVE SharedInv'
  BY <1>12, <1>15, <1>t, EditFileFacts, EditEntryFacts
<1> QED BY <1>1, <1>2, <1>4, <1>5, <1>6, <1>7, <1>8, <1>9, <1>10, <1>11, <1>13, <1>14, <1>15 DEF StepCase

----------------------------------------------------------------------------
(* The invariant.                                                          *)

LEMMA SetupStart == I!Init => SetupInv
<1> SUFFICES ASSUME I!Init PROVE SetupInv
  OBVIOUS
<1>1. SetupType
  BY InitSetupType
<1>2. /\ i_cmd = I!Idle /\ \A f \in I!Files : i_file[f] = I!NoFile
      /\ \A k \in I!Skills : i_skill[k] = 0
      /\ i_output = I!NoSetup /\ i_backup = I!NoSetup
  BY DEF I!Init
<1>3. i_hist.own = {} /\ i_hist.policy = 0 /\ \A f \in I!Files : i_hist.other[f] = 0
  BY DEF I!Init, I!NoHistory
<1>4. I!NoFile.entry = 0 /\ I!NoFile.other = 0 /\ I!NoSetup.state = "none" /\ I!NoSetup.clients = {}
  BY DEF I!NoFile, I!NoSetup
<1>5. PlanInv /\ WriteInv /\ RestoreInv /\ EntryInv /\ BackupInv /\ SkillInv
  BY <1>2, <1>4, IdleFacts, NoPlanType
     DEF PlanInv, WriteInv, RestoreInv, EntryInv, BackupInv, SkillInv, PlanOf, SettingUp, Moved
<1>6. UserFiles /\ UserSkills /\ UserPolicy
  BY <1>2, <1>3, <1>4 DEF UserFiles, UserSkills, UserPolicy
<1>7. RecordInv /\ SharedInv
  <2>1. 0 \notin 1 .. MaxVersion /\ "mcp" \in I!Files
    BY DEF I!Files
  <2> QED BY <1>2, <1>4, <2>1, IdleFacts
          DEF RecordInv, RecordedBy, SharedInv, SharedLeft, Claimed, SettingUp, Moved, DetachSteps
<1> QED BY <1>1, <1>5, <1>6, <1>7 DEF SetupInv

LEMMA SetupStep == SetupInv /\ [I!Next]_(I!vars) => SetupInv'
<1> SUFFICES ASSUME SetupInv, [I!Next]_(I!vars) PROVE SetupInv'
  OBVIOUS
<1>1. SetupType' /\ StepCase
  BY StepCases DEF SetupInv
<1>2. PlanInv' /\ WriteInv' /\ UserFiles'
  BY <1>1, PlanStep, WriteStep, UserFilesStep DEF SetupInv
<1>3. SkillInv' /\ UserSkills' /\ BackupInv' /\ UserPolicy'
  BY <1>1, SkillStep, BackupStep DEF SetupInv
<1>4. RestoreInv' /\ EntryInv'
  BY <1>1, RestoreStep, EntryStep DEF SetupInv
<1>5. RecordInv' /\ SharedInv'
  BY <1>1, RecordStep, SharedStep
<1> QED BY <1>1, <1>2, <1>3, <1>4, <1>5 DEF SetupInv

LEMMA SetupImplies == SetupInv => I!OwnershipKept /\ I!RollbackRestores
<1> SUFFICES ASSUME SetupInv PROVE I!OwnershipKept /\ I!RollbackRestores
  OBVIOUS
<1>1. I!UserContentKept
  BY DEF SetupInv, I!UserContentKept, UserFiles, UserSkills, UserPolicy
<1>2. I!EntriesOwned
  BY DEF SetupInv, I!EntriesOwned, RecordInv, RecordedBy, I!Recorded, Claimed, I!At
<1>3. ASSUME SameRecord(i_output, i_hist.output)
      PROVE  [i_output EXCEPT !.policy = 0] = [i_hist.output EXCEPT !.policy = 0]
  <2>1. i_output \in SetupRecord /\ i_hist.output \in SetupRecord
    BY DEF SetupInv, SetupType, HistoryRecord
  <2>2. ASSUME NEW o \in SetupRecord
        PROVE  [o EXCEPT !.policy = 0] =
                   [state |-> o.state, clients |-> o.clients, conf |-> o.conf,
                    managed |-> o.managed, fp |-> o.fp, policy |-> 0]
    BY DEF SetupRecord
  <2>3. [i_output EXCEPT !.policy = 0] =
            [state |-> i_hist.output.state, clients |-> i_hist.output.clients, conf |-> i_hist.output.conf,
             managed |-> i_hist.output.managed, fp |-> i_hist.output.fp, policy |-> 0]
    BY <1>3, <2>1, <2>2 DEF SameRecord
  <2>4. [i_hist.output EXCEPT !.policy = 0] =
            [state |-> i_hist.output.state, clients |-> i_hist.output.clients, conf |-> i_hist.output.conf,
             managed |-> i_hist.output.managed, fp |-> i_hist.output.fp, policy |-> 0]
    BY <2>1, <2>2
  <2> QED BY <2>3, <2>4
<1>4. I!RollbackRestores
  <2>1. \A f \in I!Files : i_file[f].other \in Nat /\ i_hist.file[f].other \in Nat
    BY DEF SetupInv, SetupType, HistoryRecord, ConfigFile
  <2> QED BY <1>3, <2>1 DEF SetupInv, RestoreInv, I!RollbackRestores
<1> QED BY <1>1, <1>2, <1>4 DEF I!OwnershipKept

\* After any sequence of init, update and detach, of edits by the user, of failing
\* file operations and of deaths of the command: what the user wrote is kept, every
\* entry PerfLens wrote can be told from the user's, and a setup that failed before
\* its first Skill was refreshed has put back what it changed
\* (distribution/onboarding.py, detach.py, skill.py).
THEOREM SetupIsSound == AllSpec => []SetupSound
<1>1. AllInit => SetupInv
  BY SetupStart DEF AllInit
<1>2. SetupInv /\ [AllNext]_all => SetupInv'
  <2>1. [AllNext]_all => [I!Next]_(I!vars)
    BY DEF AllNext, all, i_vars, I!vars
  <2> QED BY <2>1, SetupStep
<1>3. SetupInv => SetupSound
  BY SetupImplies DEF SetupSound
<1> QED BY <1>1, <1>2, <1>3, PTL DEF AllSpec
=============================================================================
