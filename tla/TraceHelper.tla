----------------------------- MODULE TraceHelper ----------------------------
(***************************************************************************)
(* The Trace Helper (rust/perflens-trace-helper), its BPF programs, and the *)
(* Broker's coordinator that turns its private file into public evidence   *)
(* (collector_broker/trace.py).                                            *)
(*                                                                         *)
(* The Helper serves each connection in a thread and lets one of them      *)
(* collect.  The kernel filters by a table of thread IDs: the fork program *)
(* is attached first, then /proc/<pid>/task is read one entry at a time,   *)
(* then the program that removes exiting threads and the ones that emit    *)
(* events are attached.  Meanwhile threads start and end, and their IDs    *)
(* are taken by others.  Thread 1 is the target's leader.                  *)
(***************************************************************************)
EXTENDS Naturals, FiniteSets

CONSTANTS
    Conns,         \* connections of the Broker, each with a plan of its own
    Threads,       \* number of thread IDs
    RingSize,      \* records the kernel's ring holds
    MaxEvents,     \* records the callback keeps
    MaxLines,      \* events that fit into the output
    MaxArtifacts,  \* MAX_SPOOL_ARTIFACTS
    MaxEmit,       \* bound: events emitted
    MaxBirths,     \* bound: threads started
    MaxFaults      \* bound: deaths of the Helper and failing operations

TraceConstants ==
    /\ Threads \in Nat \ {0} /\ RingSize \in Nat \ {0} /\ MaxEvents \in Nat \ {0}
    /\ MaxLines \in Nat \ {0} /\ MaxArtifacts \in Nat \ {0} /\ MaxEmit \in Nat
    /\ MaxBirths \in Nat /\ MaxFaults \in Nat

VARIABLES
    owner,     \* per thread ID: whose thread has it
    births,    \* threads started so far
    conn,      \* per connection: the step of its thread in the Helper
    call,      \* per connection: the coordinator's call
    worker,    \* the connection that collects
    attached,  \* the BPF programs attached
    tids,      \* the kernel's table of target threads
    scan,      \* the /proc scan: next entry, entries read
    ev,        \* events: emitted in the window, in the ring, kept, lost, stored ...
    marker,    \* consumed plans
    temp,      \* the temporary file's plan
    spool,     \* published private files: per plan what they hold
    early,     \* history: IDs whose thread ended while no exit program was attached
    faults

vars == <<owner, births, conn, call, worker, attached, tids, scan, ev, marker, temp,
          spool, early, faults>>

Tids == 1..Threads
Leader == 1
Nobody == "nobody"
NoEvents == [emitted |-> 0, ring |-> 0, kept |-> 0, lost |-> 0, cut |-> "no", foreign |-> "no"]
NoFile == [stored |-> 0, emitted |-> 0, lost |-> 0, cut |-> "no", foreign |-> "no", early |-> {}]
NoScan == [pos |-> 1, seen |-> {}]

Init ==
    /\ owner = [t \in Tids |-> IF t <= 2 THEN "target" ELSE "free"] /\ births = 0
    /\ conn = [c \in Conns |-> "idle"] /\ call = [c \in Conns |-> "idle"]
    /\ worker = Nobody /\ attached = {} /\ tids = {} /\ scan = NoScan /\ ev = NoEvents
    /\ marker = {} /\ temp = Nobody
    /\ spool = [c \in Conns |-> NoFile]
    /\ early = {} /\ faults = 0

Kernel == <<owner, births, attached, tids, early>>
Capture == <<scan, ev>>
Disk == <<marker, temp, spool>>

----------------------------------------------------------------------------
(* Threads and the BPF programs they run into.                             *)

\* The target is observed between the attach of the fork program and the
\* detachment; nothing else depends on its threads.
Observed == attached # {}

\* sched_process_fork inserts every new thread of the target's thread group ID,
\* whichever process has that ID.
TracksFork(t) == "fork" \in attached

ThreadStarts(t) ==
    /\ Observed /\ owner[t] = "free" /\ owner[Leader] = "target" /\ births < MaxBirths
    /\ owner' = [owner EXCEPT ![t] = "target"] /\ births' = births + 1
    /\ tids' = IF TracksFork(t) THEN tids \cup {t} ELSE tids
    /\ UNCHANGED <<conn, call, worker, attached, Capture, Disk, early, faults>>

\* A thread of another process takes the ID; one that takes the leader's ID, or
\* is a thread of the process that did, has the target's thread group ID.
OtherStarts(t) ==
    /\ Observed /\ owner[t] = "free" /\ births < MaxBirths
    /\ owner' = [owner EXCEPT ![t] = "other"] /\ births' = births + 1
    /\ \/ tids' = IF TracksFork(t) /\ (t = Leader \/ owner[Leader] = "other")
                  THEN tids \cup {t} ELSE tids
       \/ t # Leader /\ UNCHANGED tids
    /\ UNCHANGED <<conn, call, worker, attached, Capture, Disk, early, faults>>

\* Fault: exiting threads stay in the table.
ForgetNothing(ts) == tids

\* sched_process_exit removes the thread.
Forget(ts) == IF "exit" \in attached THEN tids \ ts ELSE tids

Exits(ts) ==
    /\ owner' = [t \in Tids |-> IF t \in ts THEN "free" ELSE owner[t]]
    /\ tids' = Forget(ts)
    /\ early' = IF "exit" \in attached THEN early ELSE early \cup ts

\* A thread ends; the leader's end is the end of the process.
ThreadEnds(t) ==
    /\ Observed /\ owner[t] # "free"
    /\ Exits(IF t = Leader THEN {u \in Tids : owner[u] = owner[t]} ELSE {t})
    /\ UNCHANGED <<births, conn, call, worker, attached, Capture, Disk, faults>>

\* perflens_emit.  A full ring counts the event as lost.
Emit(t) ==
    /\ worker # Nobody /\ conn[worker] = "observe" /\ ev.emitted < MaxEmit
    /\ ev' = [ev EXCEPT !.emitted = @ + 1,
                        !.ring = IF @ < RingSize THEN @ + 1 ELSE @,
                        !.lost = IF ev.ring < RingSize THEN @ ELSE @ + 1,
                        !.foreign = IF owner[t] = "other" /\ ev.ring < RingSize
                                    THEN "yes" ELSE @]
    /\ UNCHANGED <<Kernel, conn, call, worker, scan, Disk, faults>>

\* A switch, a wakeup or a migration of a thread in the table.
SchedEvent(t) == "events" \in attached /\ t \in tids /\ owner[t] # "free" /\ Emit(t)

\* A contention or a futex call of a thread in the table whose UID, here always,
\* is the target's.
LockEvent(t) == "events" \in attached /\ t \in tids /\ owner[t] # "free" /\ Emit(t)

----------------------------------------------------------------------------
(* A connection.                                                           *)

At(c, pc) == conn[c] = pc
GoTo(c, pc) == conn' = [conn EXCEPT ![c] = pc]

\* The coordinator refuses a plan its policy or session does not cover, a policy
\* file that is not trusted, and a socket that is not the Helper's.
Refused(c) ==
    /\ call[c] = "idle" /\ At(c, "idle") /\ call' = [call EXCEPT ![c] = "error"]
    /\ UNCHANGED <<Kernel, conn, worker, Capture, Disk, faults>>

RefusePlan(c) == Refused(c)
RefusePolicyFile(c) == Refused(c)
RefuseSocket(c) == Refused(c)

\* TraceCollectionCoordinator.collect: the plan is current, then the request.
Request(c) ==
    /\ call[c] = "idle" /\ At(c, "idle")
    /\ call' = [call EXCEPT ![c] = "waiting"] /\ GoTo(c, "read")
    /\ UNCHANGED <<Kernel, worker, Capture, Disk, faults>>

\* The client gives up after 15 s; the Helper goes on.
ClientTimeout(c) ==
    /\ call[c] \in {"waiting", "ready"} /\ conn[c] \in {"report", "reply"}
    /\ call' = [call EXCEPT ![c] = "timeout"]
    /\ UNCHANGED <<Kernel, conn, worker, Capture, Disk, faults>>

Answer(c, answer) == [call EXCEPT ![c] = IF @ \in {"waiting", "ready"} THEN answer ELSE @]

\* The WorkerGuard, the BPF object and the links are dropped with the thread.
Release == /\ worker' = Nobody /\ attached' = {} /\ tids' = {}
           /\ scan' = NoScan /\ ev' = NoEvents /\ early' = {} /\ UNCHANGED <<owner, births>>

Reject(c) ==
    /\ GoTo(c, "idle") /\ call' = Answer(c, "error")
    /\ UNCHANGED <<Kernel, worker, Capture>>

RejectWorker(c) ==
    /\ GoTo(c, "idle") /\ call' = Answer(c, "error") /\ Release

\* The process the plan names: start time and UID, and for a container its
\* user mapping, cgroup and namespaces.
TargetCurrent == owner[Leader] = "target"

\* A foreign peer, a malformed frame, a field or a policy that differs, or a
\* mode whose programs cannot be attached.
RejectPeer(c) == Reject(c)
RejectFrame(c) == Reject(c)
RejectTarget(c) == Reject(c)
RejectPolicy(c) == Reject(c)
RejectMode(c) == Reject(c)

HandleConnection(c) ==
    /\ At(c, "read") /\ UNCHANGED <<Disk, faults>>
    /\ \/ TargetCurrent /\ GoTo(c, "claim") /\ UNCHANGED <<Kernel, call, worker, Capture>>
       \/ RejectPeer(c) \/ RejectFrame(c) \/ RejectTarget(c) \/ RejectPolicy(c) \/ RejectMode(c)

WorkerFree == worker = Nobody

ClaimWorker(c) ==
    /\ At(c, "claim") /\ UNCHANGED <<Disk, faults>>
    /\ IF WorkerFree
       THEN worker' = c /\ GoTo(c, "capacity") /\ UNCHANGED <<Kernel, call, Capture>>
       ELSE Reject(c)

Step(c, pc, next) == At(c, pc) /\ GoTo(c, next) /\ UNCHANGED <<call, worker>>

Stored == {c \in Conns : spool[c].stored > 0}

\* An unfinished temporary file refuses every plan.
ValidateSpoolCapacity(c) ==
    /\ At(c, "capacity") /\ UNCHANGED <<Disk, faults>>
    /\ IF TargetCurrent /\ temp = Nobody /\ Cardinality(Stored) < MaxArtifacts
       THEN GoTo(c, "consume") /\ UNCHANGED <<Kernel, call, worker, Capture>>
       ELSE RejectWorker(c)

ConsumePlan(c) ==
    /\ At(c, "consume") /\ UNCHANGED faults
    /\ IF c \in marker THEN RejectWorker(c) /\ UNCHANGED Disk
       ELSE /\ marker' = marker \cup {c} /\ UNCHANGED <<temp, spool>>
            /\ GoTo(c, "reserve") /\ UNCHANGED <<Kernel, call, worker, Capture>>

ReserveOutput(c) ==
    /\ Step(c, "reserve", "fork") /\ temp' = c
    /\ UNCHANGED <<Kernel, Capture, marker, spool, faults>>

----------------------------------------------------------------------------
(* backend::capture.                                                       *)

\* Fault: the fork program is attached after the snapshot.
AttachForkLate(c) ==
    /\ Step(c, "fork", "scan") /\ attached' = {"loaded"}
    /\ UNCHANGED <<owner, births, tids, early, Capture, Disk, faults>>

AttachFork(c) ==
    /\ Step(c, "fork", "scan") /\ attached' = {"fork"}
    /\ UNCHANGED <<owner, births, tids, early, Capture, Disk, faults>>

\* enumerate_target_tids, one directory entry at a time.
ReadTask(c) ==
    /\ At(c, "scan") /\ scan.pos <= Threads
    /\ scan' = [pos |-> scan.pos + 1,
                seen |-> IF owner[scan.pos] = "target" THEN scan.seen \cup {scan.pos}
                         ELSE scan.seen]
    /\ UNCHANGED <<Kernel, conn, call, worker, ev, Disk, faults>>

\* Fault: the temporary file stays when the capture fails.
CaptureFailsKeeping(c) ==
    /\ RejectWorker(c) /\ UNCHANGED <<marker, temp, spool, faults>>

\* The capture fails: the temporary file is removed.
CaptureFails(c) ==
    /\ RejectWorker(c) /\ temp' = Nobody /\ UNCHANGED <<marker, spool, faults>>

\* The identity is checked again, then the snapshot is added to the table.
AddTargetTids(c) ==
    /\ At(c, "scan") /\ scan.pos > Threads
    /\ IF TargetCurrent
       THEN /\ tids' = tids \cup scan.seen /\ GoTo(c, "exit")
            /\ UNCHANGED <<owner, births, attached, early, call, worker, Capture, Disk, faults>>
       ELSE CaptureFails(c)

AttachExit(c) ==
    /\ Step(c, "exit", "events") /\ attached' = attached \cup {"fork", "exit"}
    /\ UNCHANGED <<owner, births, tids, early, Capture, Disk, faults>>

\* The scheduler's or the lock programs, then the ring buffer.
AttachEvents(c) ==
    /\ Step(c, "events", "report") /\ attached' = attached \cup {"events"}
    /\ UNCHANGED <<owner, births, tids, early, Capture, Disk, faults>>

\* Any call of libbpf may fail.
AttachFails(c) ==
    /\ conn[c] \in {"fork", "exit", "events"} /\ CaptureFails(c)

\* A request may ask to be told; telling a caller that has gone fails.
NotifyReady(c) ==
    /\ At(c, "report")
    /\ \/ call[c] = "waiting" /\ call' = [call EXCEPT ![c] = "ready"] /\ GoTo(c, "observe")
          /\ UNCHANGED <<Kernel, worker, Capture, Disk, faults>>
       \/ Step(c, "report", "observe") /\ UNCHANGED <<Kernel, Capture, Disk, faults>>
       \/ call[c] # "waiting" /\ CaptureFails(c)

\* consume_ring_event.
Consume(n) ==
    [ev EXCEPT !.ring = 0,
               !.kept = IF @ + n > MaxEvents THEN MaxEvents ELSE @ + n,
               !.cut = IF ev.kept + n > MaxEvents THEN "yes" ELSE @]

Poll(c) ==
    /\ At(c, "observe") /\ ev.ring > 0
    /\ ev' = Consume(ev.ring)
    /\ UNCHANGED <<Kernel, conn, call, worker, scan, Disk, faults>>

\* The deadline passed: the last poll drains the ring, the programs are detached.
Drain(c) ==
    /\ Step(c, "observe", "recheck")
    /\ ev' = Consume(ev.ring) /\ attached' = {} /\ tids' = {}
    /\ UNCHANGED <<owner, births, early, scan, Disk, faults>>

\* The target must still be the planned process, and there must be events.
CheckCapture(c) ==
    /\ At(c, "recheck")
    /\ IF TargetCurrent /\ ev.kept > 0
       THEN GoTo(c, "write") /\ UNCHANGED <<Kernel, call, worker, Capture, Disk, faults>>
       ELSE CaptureFails(c)

----------------------------------------------------------------------------
(* The file, and what the coordinator makes of it.                         *)

\* Fault: lines that do not fit are dropped without a mark.
CutByRing == ev.cut

\* The file says so when the callback dropped records or lines did not fit.
Cut == IF ev.kept > MaxLines THEN "yes" ELSE ev.cut

Written == IF ev.kept > MaxLines THEN MaxLines ELSE ev.kept

\* Lines beyond the output limit are cut; mode, group, link.
LinkOutput(c) ==
    /\ Step(c, "write", "unlink")
    /\ spool' = [spool EXCEPT ![c] = [stored |-> Written, emitted |-> ev.emitted,
                    lost |-> ev.lost, foreign |-> ev.foreign, early |-> early,
                    cut |-> Cut]]
    /\ UNCHANGED <<Kernel, Capture, marker, temp, faults>>

RemoveTemporary(c) ==
    /\ Step(c, "unlink", "reply") /\ temp' = Nobody
    /\ UNCHANGED <<Kernel, Capture, marker, spool, faults>>

\* Writing, syncing, chmod, chown, link and the removal return on an error and
\* leave the temporary file.
WriteFails(c) ==
    /\ conn[c] \in {"write", "unlink"} /\ faults < MaxFaults /\ faults' = faults + 1
    /\ RejectWorker(c) /\ UNCHANGED Disk

Reply(c) ==
    /\ At(c, "reply") /\ GoTo(c, "idle")
    /\ call' = Answer(c, "raw") /\ Release
    /\ UNCHANGED <<Disk, faults>>

\* The raw file is not the announced one, or is not a trace.
RejectRaw(c) == call' = [call EXCEPT ![c] = "error"]

\* The plan is current, the raw file is the announced one, it parses, and the
\* evidence is built; or one of these fails and the raw file stays.
Convert(c) ==
    /\ call[c] = "raw"
    /\ \/ TargetCurrent /\ call' = [call EXCEPT ![c] = "evidence"]
       \/ RejectRaw(c)
    /\ UNCHANGED <<Kernel, conn, worker, Capture, Disk, faults>>

\* The plan is checked once more before the public file is written.
PublishEvidence(c) ==
    /\ call[c] = "evidence"
    /\ call' = [call EXCEPT ![c] = IF TargetCurrent THEN "ok" ELSE "error"]
    /\ UNCHANGED <<Kernel, conn, worker, Capture, Disk, faults>>

PublishFails(c) ==
    /\ call[c] = "evidence" /\ faults < MaxFaults /\ faults' = faults + 1
    /\ call' = [call EXCEPT ![c] = "error"]
    /\ UNCHANGED <<Kernel, conn, worker, Capture, Disk>>

\* The Helper dies; systemd starts it again.
Crash ==
    /\ worker # Nobody /\ faults < MaxFaults /\ faults' = faults + 1
    /\ conn' = [c \in Conns |-> "idle"]
    /\ call' = [c \in Conns |-> IF call[c] \in {"waiting", "ready"} THEN "error" ELSE call[c]]
    /\ Release /\ UNCHANGED Disk

Serve(c) ==
    \/ HandleConnection(c) \/ ClaimWorker(c) \/ ValidateSpoolCapacity(c) \/ ConsumePlan(c)
    \/ ReserveOutput(c) \/ AttachFork(c) \/ ReadTask(c) \/ AddTargetTids(c) \/ AttachExit(c)
    \/ AttachEvents(c) \/ AttachFails(c) \/ NotifyReady(c) \/ Drain(c)
    \/ CheckCapture(c) \/ LinkOutput(c) \/ RemoveTemporary(c) \/ Reply(c)
    \/ Convert(c) \/ PublishEvidence(c)

Next ==
    \/ \E t \in Tids : ThreadStarts(t) \/ OtherStarts(t) \/ ThreadEnds(t)
                        \/ SchedEvent(t) \/ LockEvent(t)
    \/ \E c \in Conns : Request(c) \/ RefusePlan(c) \/ RefusePolicyFile(c) \/ RefuseSocket(c)
                        \/ ClientTimeout(c) \/ Poll(c) \/ Serve(c)
                        \/ WriteFails(c) \/ PublishFails(c)
    \/ Crash

Spec == Init /\ [][Next]_vars

----------------------------------------------------------------------------
(* Properties.                                                             *)

TypeOK ==
    /\ owner \in [Tids -> {"free", "target", "other"}] /\ births \in 0..MaxBirths
    /\ call \in [Conns -> {"idle", "waiting", "ready", "timeout", "raw", "evidence", "ok", "error"}]
    /\ worker \in Conns \cup {Nobody} /\ attached \subseteq {"loaded", "fork", "exit", "events"}
    /\ tids \subseteq Tids /\ scan \in [pos : 1..(Threads + 1), seen : SUBSET Tids]
    /\ marker \subseteq Conns /\ temp \in Conns \cup {Nobody}
    /\ early \subseteq Tids /\ faults \in 0..MaxFaults

\* dynamic_thread_coverage is "complete": once the caller is told that the
\* collection is ready, every thread of the target is in the table, although
\* threads started while the snapshot was read.
ThreadsCovered ==
    ("events" \in attached /\ TargetCurrent) => {t \in Tids : owner[t] = "target"} \subseteq tids

\* Published evidence holds events of another process only when one of the
\* target's thread IDs was given up before the exit program was attached: the
\* reuse of the target's own PID is caught by the last identity check.
ForeignNeedsEarlyExit == \A c \in Conns : spool[c].foreign = "yes" => spool[c].early # {}

\* Evidence that claims neither lost events nor truncation holds every event the
\* programs emitted for it, and the spool stays within its quota.
TraceAccounted ==
    /\ \A c \in Conns :
          (spool[c].stored > 0 /\ spool[c].lost = 0 /\ spool[c].cut = "no")
             => spool[c].stored = spool[c].emitted
    /\ Cardinality(Stored) <= MaxArtifacts

\* A temporary file without a collection is left by a fault, never by a
\* collection that merely failed; until it is removed every plan is refused.
OnlyFaultsBlock == (temp # Nobody /\ worker = Nobody) => faults > 0

\* Published evidence says what it lacks, whose events it holds, and a collection
\* that fails leaves nothing in the way of the next.
TraceHonest == TraceAccounted /\ ForeignNeedsEarlyExit /\ OnlyFaultsBlock
=============================================================================
