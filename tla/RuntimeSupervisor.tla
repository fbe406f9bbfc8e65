-------------------------- MODULE RuntimeSupervisor -------------------------
(***************************************************************************)
(* The runtime supervisor (rust/perflens-runtime-supervisor) and the       *)
(* client that starts it (runtime_locks/supervisor.py): one request, one   *)
(* workload tree, one receipt.                                             *)
(*                                                                         *)
(* The process table is the kernel's: a PID is free again once its process *)
(* was reaped, and may then name an unrelated process; `key' stands for    *)
(* the start ticks that tell the two apart.  A scan of /proc reads one PID *)
(* at a time while processes fork and exit.  Every deadline may pass at    *)
(* any visit of the loop that tests it.                                    *)
(***************************************************************************)
EXTENDS Naturals, FiniteSets

CONSTANTS
    PidMax,        \* PIDs are 1..PidMax; 0 is the supervisor, PidMax + 1 is init
    MaxBirths,     \* bound: processes ever created
    MaxEvidence,   \* authorized evidence size, in units
    MaxFaults      \* bound: failing system calls

ASSUME SupervisorConstants ==
    /\ PidMax \in Nat \ {0} /\ MaxBirths \in Nat \ {0}
    /\ MaxEvidence \in Nat \ {0} /\ MaxFaults \in Nat

VARIABLES
    proc,      \* the process table
    births,    \* processes created so far
    phase,     \* the supervisor's step
    scan,      \* the /proc scan in progress, and what it is for
    empties,   \* consecutive empty scans of the last sweep
    leader,    \* PID of the workload's leader, 0 before the fork
    failed,    \* an error is being returned
    faults,    \* failed system calls so far
    signal,    \* a SIGTERM to the supervisor
    ev,        \* the evidence: kind, emitted by the workload, in the pipe, stored
    receipt,   \* the receipt frame
    client,    \* the client's call
    hit        \* history: a signal reached an unrelated process

vars == <<proc, births, phase, scan, empties, leader, failed, faults, signal, ev,
          receipt, client, hit>>

Pids == 1..PidMax
Supervisor == 0
InitProcess == PidMax + 1
Free == [st |-> "free", parent |-> InitProcess, key |-> 0, own |-> "none"]
Running == {"forked", "armed", "live"}
Sweeping == {"term", "kill", "final", "emergency"}
NewScan == [pos |-> 1, seen |-> {}, use |-> "signal"]

Init ==
    /\ proc = [p \in Pids |-> Free] /\ births = 0
    /\ phase = "frame" /\ scan = NewScan /\ empties = 0 /\ leader = 0
    /\ failed = "no" /\ faults = 0 /\ signal = "none"
    /\ ev \in [kind : {"stream", "file"}, emitted : {0}, pipe : {0}, stored : {0}]
    /\ receipt = "none" /\ client = "waiting" /\ hit = "no"

Machine == <<proc, births, hit>>
Control == <<phase, scan, empties, leader, failed, faults>>
Outside == <<signal, ev, receipt, client>>

----------------------------------------------------------------------------
(* The workload and the kernel.                                            *)

Work(p) == proc[p].own = "work"
Alive(p) == proc[p].st \in Running \cup {"doomed"}
ParentLost == client \in {"failed", "dead"}

Born(p, st, parent, own) ==
    /\ births < MaxBirths /\ proc[p].st = "free"
    /\ proc' = [proc EXCEPT ![p] = [st |-> st, parent |-> parent,
                                    key |-> births + 1, own |-> own]]
    /\ births' = births + 1

Fork(p, child) ==
    /\ proc[p].st = "live" /\ Work(p)
    /\ Born(child, "live", p, "work")
    /\ UNCHANGED <<Control, Outside, hit>>

\* An unrelated process takes a free PID.
Foreign(p) ==
    /\ Born(p, "live", InitProcess, "other")
    /\ UNCHANGED <<Control, Outside, hit>>

\* Fault: PR_SET_CHILD_SUBREAPER is not set, orphans go to init.
NoSubreaper == InitProcess

\* Orphans go to the nearest subreaper: the supervisor while it runs.
Subreaper == IF phase = "ended" THEN InitProcess ELSE Supervisor

\* The table after p ended: a zombie stays until its parent reaps it, a parent
\* in the workload may have reaped it already.
After(p, st) ==
    [q \in Pids |->
        IF q = p THEN (IF st = "free" THEN Free ELSE [proc[p] EXCEPT !.st = st])
        ELSE IF proc[q].parent = p /\ proc[q].st # "free"
             THEN [proc[q] EXCEPT !.parent = Subreaper] ELSE proc[q]]

Exit(p) ==
    /\ Alive(p)
    /\ \E st \in {"zombie", "free"} :
        /\ proc[p].parent = Supervisor => st = "zombie"
        /\ proc[p].parent = InitProcess => st = "free"
        /\ proc' = After(p, st)
    /\ UNCHANGED <<births, hit, Control, Outside>>

\* A running workload process writes evidence.
Emit(p) ==
    /\ proc[p].st = "live" /\ Work(p) /\ ev.emitted <= MaxEvidence
    /\ ev' = [ev EXCEPT !.emitted = @ + 1,
                        !.pipe = IF ev.kind = "stream" THEN @ + 1 ELSE @,
                        !.stored = IF ev.kind = "file" THEN @ + 1 ELSE @]
    /\ UNCHANGED <<Machine, Control, signal, receipt, client>>

\* The child arms PR_SET_PDEATHSIG and then looks at its parent: it gives up if
\* the supervisor is already gone.
ChildArms ==
    /\ leader # 0 /\ proc[leader].st = "forked" /\ Work(leader)
    /\ proc' = [proc EXCEPT ![leader].st =
                   IF proc[leader].parent = Supervisor THEN "armed" ELSE "doomed"]
    /\ UNCHANGED <<births, hit, Control, Outside>>

\* execveat, or child_fail.
ChildExecs ==
    /\ leader # 0 /\ proc[leader].st = "armed" /\ Work(leader)
    /\ \E st \in {"live", "doomed"} : proc' = [proc EXCEPT ![leader].st = st]
    /\ UNCHANGED <<births, hit, Control, Outside>>

----------------------------------------------------------------------------
(* The supervisor.                                                         *)

Return(result) ==
    /\ phase' = "ended" /\ failed' = result

\* read_frame under its own deadline.
ReadFrame ==
    /\ phase = "frame"
    /\ \/ /\ ~ParentLost /\ signal = "none"
          /\ phase' = "request" /\ UNCHANGED failed
       \/ Return("yes")
    /\ UNCHANGED <<Machine, scan, empties, leader, faults, Outside>>

\* validate_request hashes every descriptor the request names.
ValidateRequest ==
    /\ phase = "request"
    /\ \/ phase' = "spawn" /\ UNCHANGED failed
       \/ Return("yes")
    /\ UNCHANGED <<Machine, scan, empties, leader, faults, Outside>>

\* supervise: the privilege checks, the subreaper, then fork.
Spawn(p) ==
    /\ phase = "spawn" /\ ~ParentLost
    /\ Born(p, "forked", Supervisor, "work")
    /\ leader' = p /\ phase' = "setup"
    /\ UNCHANGED <<scan, empties, failed, faults, hit, Outside>>

SpawnRefused ==
    /\ phase = "spawn" /\ Return("yes")
    /\ UNCHANGED <<Machine, scan, empties, leader, faults, Outside>>

\* wait_for_exec: the setup pipe closes at exec.
ExecSeen ==
    /\ phase = "setup" /\ proc[leader].st = "live"
    /\ phase' = "run"
    /\ UNCHANGED <<Machine, scan, empties, leader, failed, faults, Outside>>

StartTeardown ==
    /\ phase' = "term" /\ scan' = NewScan
    /\ UNCHANGED <<empties, leader, failed, faults>>

\* The reasons that end both waiting loops.
WaitEnds ==
    /\ phase \in {"setup", "run"}
    /\ \/ signal = "pending"
       \/ ParentLost
       \/ proc[leader].st \in {"doomed", "zombie"}
    /\ StartTeardown /\ UNCHANGED <<Machine, Outside>>

\* deadline_reached
WaitTimesOut ==
    /\ phase \in {"setup", "run"}
    /\ StartTeardown /\ UNCHANGED <<Machine, Outside>>

\* EvidenceBoundary::check drains the pipe, or cuts the file, at the bound.
Bounded(n) == IF n > MaxEvidence THEN MaxEvidence ELSE n
Checked == [ev EXCEPT !.pipe = 0, !.stored = Bounded(@ + ev.pipe)]
OverBound == ev.stored + ev.pipe > MaxEvidence

\* Fault: every error goes to emergency_cleanup.
AbortRaw ==
    /\ failed' = "yes" /\ empties' = 0
    /\ scan' = NewScan /\ phase' = "rawkill"
    /\ UNCHANGED leader

\* Before the leader is reaped an error leads to emergency_cleanup; afterwards
\* its PID is no longer pinned and only adopted processes may be signalled.
Abort ==
    /\ failed' = "yes" /\ empties' = 0
    /\ scan' = NewScan
    /\ phase' = IF phase \in {"final", "finish"} THEN "final" ELSE "rawkill"
    /\ UNCHANGED leader

CheckEvidence ==
    /\ phase \in {"setup", "run"}
    /\ ev' = Checked
    /\ IF OverBound THEN Abort /\ UNCHANGED faults ELSE UNCHANGED Control
    /\ UNCHANGED <<Machine, signal, receipt, client>>

\* A system call fails while the tree is supervised.
SupervisionFault ==
    /\ phase \in {"setup", "run", "term", "grace", "kill", "reap", "final", "finish"}
    /\ failed = "no" /\ faults < MaxFaults
    /\ faults' = faults + 1 /\ Abort
    /\ UNCHANGED <<Machine, Outside>>

\* process_snapshot reads the next PID.
ScanPid ==
    /\ phase \in Sweeping /\ scan.pos <= PidMax
    /\ LET p == scan.pos IN
       scan' = [scan EXCEPT !.pos = @ + 1,
                            !.seen = IF proc[p].st = "free" THEN @
                                     ELSE @ \cup {[pid |-> p, key |-> proc[p].key,
                                                   parent |-> proc[p].parent]}]
    /\ UNCHANGED <<Machine, phase, empties, leader, failed, faults, Outside>>

\* supervised_processes_from_snapshot: the leader, unless it was reaped, the
\* supervisor's children, and everything below them, which is the least set that
\* contains the roots and the children of its members.
Roots == {x \in scan.seen : x.parent = Supervisor \/ (phase # "final" /\ x.pid = leader)}
ChildrenIn(s) == {x \in scan.seen : \E y \in s : x.parent = y.pid}
Accepted ==
    {x \in scan.seen : \A s \in SUBSET scan.seen :
                          Roots \cup ChildrenIn(s) \subseteq s => x \in s}

\* The residual of a sweep does not count the leader while it is pinned.
Residual == IF phase = "final" THEN Accepted ELSE {x \in Accepted : x.pid # leader}

\* signal_identities compares the start ticks before and after pidfd_open.
Targets == {x.pid : x \in {y \in Accepted : proc[y.pid].key = y.key}}

\* SIGKILL; a SIGTERM may be ignored, and a process that obeys it is one that
\* exits by itself.
Killed(targets) ==
    [p \in Pids |-> IF p \in targets /\ proc[p].st \in Running
                    THEN [proc[p] EXCEPT !.st = "doomed"] ELSE proc[p]]
Struck(targets) ==
    IF \E p \in targets : proc[p].own = "other" /\ Alive(p) THEN "yes" ELSE hit

\* reap_adopted_children spares the leader until it was reaped by itself.
Reaped(table) ==
    [p \in Pids |-> IF /\ table[p].st = "zombie" /\ table[p].parent = Supervisor
                       /\ (p = leader => phase = "final")
                    THEN Free ELSE table[p]]

\* Fault: SIGTERM is sent where SIGKILL is meant.
SignalTreeTermOnly ==
    /\ phase \in Sweeping /\ scan.pos > PidMax /\ scan.use = "signal"
    /\ hit' = Struck(Targets)
    /\ proc' = Reaped(proc)
    /\ IF phase = "term" THEN phase' = "grace" /\ scan' = NewScan
       ELSE scan' = [NewScan EXCEPT !.use = "judge"] /\ UNCHANGED phase
    /\ UNCHANGED <<births, empties, leader, failed, faults, Outside>>

\* signal_supervised_tree / signal_adopted_tree, then reap_adopted_children.
SignalTree ==
    /\ phase \in Sweeping /\ scan.pos > PidMax /\ scan.use = "signal"
    /\ hit' = Struck(Targets)
    /\ proc' = Reaped(IF phase = "term" THEN proc ELSE Killed(Targets))
    /\ IF phase = "term" THEN phase' = "grace" /\ scan' = NewScan
       ELSE scan' = [NewScan EXCEPT !.use = "judge"] /\ UNCHANGED phase
    /\ UNCHANGED <<births, empties, leader, failed, faults, Outside>>

\* teardown_tree: the grace period always runs out in full.
GraceEnds ==
    /\ phase = "grace"
    /\ phase' = "kill" /\ scan' = NewScan /\ proc' = Reaped(proc)
    /\ UNCHANGED <<births, hit, empties, leader, failed, faults, Outside>>

\* enforce_final_evidence_bound after an error: only files are cut.
CutFile == ev' = IF ev.kind = "file" THEN Checked ELSE ev

\* The step after a finished sweep.
SweepDone(clean) ==
    \/ /\ phase \in {"kill", "emergency"}
       /\ phase' = "reap" /\ UNCHANGED <<failed, receipt, ev>>
    \/ /\ phase = "final" /\ failed = "no"
       /\ phase' = "finish" /\ UNCHANGED <<failed, ev>>
       /\ receipt' = IF clean THEN "unwritten_complete" ELSE "unwritten_residual"
    \/ /\ phase = "final" /\ failed = "yes"
       /\ Return("yes") /\ CutFile /\ UNCHANGED receipt

\* The loops of teardown_tree, emergency_cleanup and finalize_adopted_descendants.
JudgeResidual ==
    /\ phase \in Sweeping /\ scan.pos > PidMax /\ scan.use = "judge"
    /\ LET clean == Residual = {}
           scans == IF clean THEN empties + 1 ELSE 0
           enough == clean /\ (phase # "final" \/ scans >= 2)
       IN \/ /\ SweepDone(clean)      \* enough, or the deadline has passed
             /\ empties' = 0 /\ scan' = NewScan
          \/ /\ ~enough               \* another round
             /\ empties' = scans /\ scan' = NewScan
             /\ UNCHANGED <<phase, failed, receipt, ev>>
    /\ UNCHANGED <<Machine, leader, faults, signal, client>>

\* emergency_cleanup kills the leader and its process group by number.
RawKill ==
    /\ phase = "rawkill"
    /\ \E group \in SUBSET {p \in Pids : Work(p)} :
        /\ proc' = Killed(group \cup {leader})
        /\ hit' = Struck(group \cup {leader})
    /\ phase' = "emergency" /\ scan' = NewScan
    /\ UNCHANGED <<births, empties, leader, failed, faults, Outside>>

\* reap_leader and reap_leader_tolerating_absent block until the leader is gone.
ReapLeader ==
    /\ phase = "reap" /\ proc[leader].st = "zombie"
    /\ proc' = [proc EXCEPT ![leader] = Free]
    /\ IF failed = "yes"
       THEN Return("yes") /\ CutFile /\ UNCHANGED <<scan, empties>>
       ELSE phase' = "final" /\ scan' = NewScan /\ empties' = 0 /\ UNCHANGED <<failed, ev>>
    /\ UNCHANGED <<births, hit, leader, faults, signal, receipt, client>>

\* Fault: the evidence is only read while the leader runs.
FinishWithoutDraining ==
    /\ phase = "finish"
    /\ phase' = "receipt"
    /\ UNCHANGED <<Machine, scan, empties, leader, failed, faults, Outside>>

\* evidence.finish and enforce_final_evidence_bound: the stream must be closed.
FinishEvidence ==
    /\ phase = "finish"
    /\ ev' = Checked
    /\ IF OverBound \/ (ev.kind = "stream" /\ \E p \in Pids : Work(p) /\ Alive(p))
       THEN Abort /\ receipt' = "none"
       ELSE phase' = "receipt" /\ UNCHANGED <<scan, empties, leader, failed, receipt>>
    /\ UNCHANGED <<Machine, faults, signal, client>>

\* What the supervisor's end leaves to init; the kernel kills an armed leader.
Orphaned ==
    [p \in Pids |->
        IF proc[p].st = "free" \/ proc[p].parent # Supervisor THEN proc[p]
        ELSE IF proc[p].st = "zombie" THEN Free
        ELSE [proc[p] EXCEPT !.parent = InitProcess,
                             !.st = IF p = leader /\ @ \in {"armed", "live"}
                                    THEN "doomed" ELSE @]]

WriteReceipt ==
    /\ phase = "receipt"
    /\ receipt' = IF receipt = "unwritten_complete" THEN "complete" ELSE "residual"
    /\ Return("no") /\ proc' = Orphaned
    /\ UNCHANGED <<births, hit, scan, empties, leader, faults, signal, ev, client>>

\* An error exit: its processes are orphaned too.
ExitOrphans ==
    /\ phase = "ended" /\ proc # Orphaned
    /\ proc' = Orphaned
    /\ UNCHANGED <<births, hit, Control, Outside>>

\* SIGKILL of the supervisor.
SupervisorCrash ==
    /\ phase # "ended"
    /\ Return("crashed") /\ proc' = Orphaned
    /\ UNCHANGED <<births, hit, scan, empties, leader, faults, signal, ev, receipt, client>>

SupervisorSignalled ==
    /\ signal = "none" /\ phase # "ended" /\ signal' = "pending"
    /\ UNCHANGED <<Machine, Control, ev, receipt, client>>

----------------------------------------------------------------------------
(* RuntimeSupervisorClient.execute.                                        *)

ClientKeeps == UNCHANGED <<Machine, Control, signal, ev, receipt>>

\* Exit status 0 and cleanup_complete, or the call fails.
ClientReads ==
    /\ client = "waiting" /\ phase = "ended"
    /\ client' = IF receipt = "complete" THEN "accepted" ELSE "failed"
    /\ ClientKeeps

\* The receipt's deadline: the finally clause closes the liveness pipe.
ClientTimesOut ==
    /\ client = "waiting" /\ phase # "ended" /\ client' = "failed" /\ ClientKeeps

ClientDies ==
    /\ client = "waiting" /\ client' = "dead" /\ ClientKeeps

Finished ==
    /\ phase = "ended" /\ client # "waiting" /\ UNCHANGED vars

Sweep == ScanPid \/ SignalTree \/ JudgeResidual \/ GraceEnds
Steps ==
    \/ ReadFrame \/ ValidateRequest \/ (\E p \in Pids : Spawn(p)) \/ SpawnRefused \/ ExecSeen
    \/ WaitEnds \/ WaitTimesOut \/ Sweep \/ RawKill \/ ReapLeader
    \/ FinishEvidence \/ WriteReceipt
Dying == \E p \in Pids : proc[p].st = "doomed" /\ Exit(p)

Next ==
    \/ Steps \/ CheckEvidence \/ SupervisionFault \/ ExitOrphans
    \/ SupervisorCrash \/ SupervisorSignalled
    \/ \E p \in Pids :
        \/ Exit(p)
        \/ phase # "ended" /\ (Foreign(p) \/ Emit(p) \/ \E c \in Pids : Fork(p, c))
    \/ ChildArms \/ ChildExecs
    \/ ClientReads \/ ClientTimesOut \/ ClientDies
    \/ Finished

\* The supervisor runs, a killed process dies.  Nothing is assumed of the
\* workload, of the client or of faults.
Fairness == WF_vars(Steps) /\ WF_vars(Dying)

Spec == Init /\ [][Next]_vars /\ Fairness

----------------------------------------------------------------------------
TypeOK ==
    /\ proc \in [Pids -> [st : {"free", "zombie", "doomed"} \cup Running,
                          parent : 0..(PidMax + 1), key : 0..MaxBirths,
                          own : {"none", "work", "other"}]]
    /\ births \in 0..MaxBirths /\ leader \in 0..PidMax
    /\ phase \in {"frame", "request", "spawn", "setup", "run", "grace", "reap", "finish",
                  "receipt", "rawkill", "ended"} \cup Sweeping
    /\ scan.pos \in 1..(PidMax + 1) /\ scan.use \in {"signal", "judge"}
    /\ scan.seen \subseteq [pid : Pids, key : 0..MaxBirths, parent : 0..(PidMax + 1)]
    /\ empties \in 0..2 /\ failed \in {"no", "yes", "crashed"}
    /\ faults \in 0..MaxFaults /\ signal \in {"none", "pending"}
    /\ ev.stored + ev.pipe <= ev.emitted /\ ev.emitted <= MaxEvidence + 1
    /\ receipt \in {"none", "unwritten_complete", "unwritten_residual", "complete",
                    "residual"}
    /\ client \in {"waiting", "accepted", "failed", "dead"} /\ hit \in {"no", "yes"}

\* A receipt that says cleanup_complete is only written when no process of the
\* workload is left, whatever forked or was orphaned while /proc was scanned.
CleanupTruthful ==
    receipt = "complete" => \A p \in Pids : ~(Work(p) /\ Alive(p))

\* No signal of the supervisor reaches a process outside the workload, in
\* particular not one that took the PID of a reaped leader.
OnlyWorkloadSignalled == hit = "no"

\* A complete receipt stands for all evidence the workload wrote, within its
\* bound; a failed supervision leaves no more than the bound behind either.
EvidenceHonest ==
    [][(phase # "ended" /\ phase' = "ended") =>
          /\ receipt' = "complete" => ev'.stored = ev'.emitted
          /\ (receipt' = "complete" \/ failed' = "yes") => ev'.stored <= MaxEvidence]_vars

\* Once the workload was forked the supervisor ends, with SIGKILL if need be:
\* nobody has to tell it to.
SupervisionEnds == (leader # 0) ~> (phase = "ended")
=============================================================================
