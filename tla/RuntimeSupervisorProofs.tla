----------------------- MODULE RuntimeSupervisorProofs ----------------------
(***************************************************************************)
(* Proofs about the runtime supervisor, for any number of PIDs, processes  *)
(* and faults.  The argument: a running process of the workload has an     *)
(* older running parent or is the supervisor's child, so as long as one    *)
(* runs the supervisor has a child to find; only the supervisor reaps its  *)
(* children, so a scan cannot miss all of them; and what a scan has read   *)
(* is older than every process born since, so matching start ticks name    *)
(* the same process.                                                       *)
(***************************************************************************)
EXTENDS RuntimeSupervisor, WellFoundedInduction, TLAPS

-----------------------------------------------------------------------------
(* The parts of the inductive invariant.                                    *)

\* The phases before the fork, and those in which the leader was not reaped: its
\* PID is pinned by the zombie that the supervisor has not collected.
Early == {"frame", "request", "spawn"}
Pinned == {"setup", "run", "term", "grace", "kill", "rawkill", "emergency", "reap"}
Phases == Early \cup Pinned \cup {"final", "finish", "receipt", "ended"}

Entry == [st : {"free", "zombie", "doomed"} \cup Running, parent : 0..(PidMax + 1),
          key : 0..MaxBirths, own : {"none", "work", "other"}]
Seen == [pid : Pids, key : 0..MaxBirths, parent : 0..(PidMax + 1)]

TableType == proc \in [Pids -> Entry] /\ births \in 0..MaxBirths
ControlType ==
    /\ phase \in Phases /\ leader \in 0..PidMax
    /\ scan \in [pos : 1..(PidMax + 1), seen : SUBSET Seen, use : {"signal", "judge"}]
    /\ empties \in 0..1 /\ failed \in {"no", "yes", "crashed"} /\ faults \in 0..MaxFaults
OutsideType ==
    /\ signal \in {"none", "pending"}
    /\ ev \in [kind : {"stream", "file"}, emitted : 0..(MaxEvidence + 1), pipe : Nat, stored : Nat]
    /\ receipt \in {"none", "unwritten_complete", "unwritten_residual", "complete", "residual"}
    /\ client \in {"waiting", "accepted", "failed", "dead"}
    /\ hit \in {"no", "yes"}

\* The process table: unrelated processes belong to init, and the parent of a
\* process of the workload is the supervisor or an older one that still runs.
TableInv ==
    \A p \in Pids :
        /\ proc[p].st = "free" => proc[p].own = "none"
        /\ proc[p].st # "free" => proc[p].own # "none" /\ proc[p].key \in 1..births
        /\ proc[p].own = "other" => proc[p].parent = InitProcess
        /\ (phase # "ended" /\ Work(p) /\ Alive(p)) =>
              \/ proc[p].parent = Supervisor
              \/ /\ proc[p].parent \in Pids /\ Work(proc[p].parent) /\ Alive(proc[p].parent)
                 /\ proc[proc[p].parent].key < proc[p].key

\* The leader is a child of the supervisor until it is reaped.
LeaderInv ==
    phase \in Pinned =>
        leader \in Pids /\ Work(leader) /\ proc[leader].st # "free" /\ proc[leader].parent = Supervisor

\* What the scan has read is older than every process born since, so an entry
\* whose start ticks still match is about the process that has the PID.
ScanInv ==
    \A x \in scan.seen :
        /\ x.key \in 1..births
        /\ (proc[x.pid].key = x.key /\ proc[x.pid].own = "other") => x.parent = InitProcess

\* No process of the workload runs.
NoneAlive == \A p \in Pids : ~(Work(p) /\ Alive(p))
Adopted(p) == proc[p].st # "free" /\ proc[p].parent = Supervisor

\* Before the fork there is no workload, no evidence and no receipt.
StartInv ==
    phase \in Early => receipt = "none" /\ NoneAlive /\ ev.stored = 0 /\ ev.pipe = 0

\* A final scan that is to judge the tree has met a child of the supervisor, has
\* one ahead, or is right to find none: only the supervisor reaps its children.
JudgeInv ==
    (phase = "final" /\ scan.use = "judge") =>
        \/ \E x \in scan.seen : x.parent = Supervisor
        \/ \E p \in Pids : p >= scan.pos /\ Adopted(p)
        \/ NoneAlive

\* The receipt calls the cleanup complete only when it is.
ReceiptInv ==
    /\ receipt \in {"unwritten_complete", "complete"} => NoneAlive
    /\ phase # "ended" => receipt # "complete"

\* Everything the workload wrote is stored or in the pipe, unless supervision failed.
EvidenceInv ==
    /\ ev.kind = "file" => ev.pipe = 0
    /\ ev.kind = "stream" => ev.stored <= MaxEvidence
    /\ ev.stored + ev.pipe <= ev.emitted
    /\ (phase # "ended" /\ failed = "no") => ev.stored + ev.pipe = ev.emitted
    /\ phase \in Early \cup {"setup", "run", "term", "grace", "kill", "finish", "receipt"}
          => failed = "no"
    /\ (phase = "receipt" /\ receipt = "unwritten_complete") =>
          ev.pipe = 0 /\ ev.stored <= MaxEvidence

-----------------------------------------------------------------------------
\* The steps of Next one by one.
ExitAs(p, st) ==
    /\ Alive(p) /\ (proc[p].parent = Supervisor => st = "zombie") /\ proc' = After(p, st)
    /\ UNCHANGED <<births, hit, Control, Outside>>

LeaderMoves(st) ==
    /\ leader \in Pids /\ proc[leader].st \in {"forked", "armed"}
    /\ proc' = [proc EXCEPT ![leader].st = st]
    /\ UNCHANGED <<births, hit, Control, Outside>>

Advance(from, to) ==
    /\ phase = from /\ phase' = to
    /\ UNCHANGED <<Machine, scan, empties, leader, failed, faults, Outside>>

RefusedEarly ==
    /\ phase \in Early /\ phase' = "ended" /\ failed' = "yes"
    /\ UNCHANGED <<Machine, scan, empties, leader, faults, Outside>>

Teardown ==
    /\ phase \in {"setup", "run"} /\ phase' = "term" /\ scan' = NewScan
    /\ UNCHANGED <<Machine, empties, leader, failed, faults, Outside>>

Drained ==
    /\ phase \in {"setup", "run"} /\ ~OverBound /\ ev' = Checked
    /\ UNCHANGED <<Machine, Control, signal, receipt, client>>

AbortOver ==
    /\ phase \in {"setup", "run"} /\ ev' = Checked /\ Abort
    /\ UNCHANGED <<Machine, faults, signal, receipt, client>>

AbortFault ==
    /\ phase \in (Pinned \ {"rawkill", "emergency"}) \cup {"final", "finish"}
    /\ faults < MaxFaults /\ faults' = faults + 1 /\ Abort
    /\ UNCHANGED <<Machine, Outside>>

AbortFinish ==
    /\ phase = "finish" /\ ev' = Checked /\ receipt' = "none" /\ Abort
    /\ UNCHANGED <<Machine, faults, signal, client>>

TermSignalled ==
    /\ phase = "term" /\ hit' = Struck(Targets) /\ proc' = Reaped(proc)
    /\ phase' = "grace" /\ scan' = NewScan
    /\ UNCHANGED <<births, empties, leader, failed, faults, Outside>>

KillSignalled ==
    /\ phase \in {"kill", "final", "emergency"} /\ hit' = Struck(Targets)
    /\ proc' = Reaped(Killed(Targets)) /\ scan' = [NewScan EXCEPT !.use = "judge"]
    /\ UNCHANGED <<births, phase, empties, leader, failed, faults, Outside>>

GroupKilled(group) ==
    /\ phase = "rawkill" /\ proc' = Killed(group \cup {leader})
    /\ hit' = Struck(group \cup {leader})
    /\ phase' = "emergency" /\ scan' = NewScan
    /\ UNCHANGED <<births, empties, leader, failed, faults, Outside>>

AnotherRound ==
    /\ phase \in Sweeping /\ empties' \in 0..1 /\ scan' = NewScan
    /\ UNCHANGED <<Machine, phase, failed, receipt, ev, leader, faults, signal, client>>

TreeKilled ==
    /\ phase \in {"kill", "emergency"} /\ phase' = "reap" /\ empties' = 0 /\ scan' = NewScan
    /\ UNCHANGED <<Machine, failed, receipt, ev, leader, faults, signal, client>>

Judged ==
    /\ phase = "final" /\ scan.pos > PidMax /\ scan.use = "judge" /\ failed = "no"
    /\ phase' = "finish" /\ empties' = 0 /\ scan' = NewScan
    /\ receipt' = IF Residual = {} THEN "unwritten_complete" ELSE "unwritten_residual"
    /\ UNCHANGED <<Machine, failed, ev, leader, faults, signal, client>>

JudgedFailed ==
    /\ phase = "final" /\ failed = "yes" /\ phase' = "ended" /\ CutFile
    /\ empties' = 0 /\ scan' = NewScan
    /\ UNCHANGED <<Machine, failed, receipt, leader, faults, signal, client>>

ReapedFailed ==
    /\ phase = "reap" /\ proc[leader].st = "zombie" /\ proc' = [proc EXCEPT ![leader] = Free]
    /\ failed = "yes" /\ phase' = "ended" /\ CutFile
    /\ UNCHANGED <<births, hit, scan, empties, leader, failed, faults, signal, receipt, client>>

ReapedOn ==
    /\ phase = "reap" /\ proc[leader].st = "zombie" /\ proc' = [proc EXCEPT ![leader] = Free]
    /\ phase' = "final" /\ scan' = NewScan /\ empties' = 0
    /\ UNCHANGED <<births, hit, leader, failed, faults, signal, ev, receipt, client>>

EvidenceFinished ==
    /\ phase = "finish" /\ ev' = Checked /\ ~OverBound /\ phase' = "receipt"
    /\ UNCHANGED <<Machine, scan, empties, leader, failed, faults, signal, receipt, client>>

OthersStep ==
    /\ signal' \in {"none", "pending"} /\ client' \in {"waiting", "accepted", "failed", "dead"}
    /\ UNCHANGED <<Machine, Control, ev, receipt>>

Elementary ==
    \/ \E p, c \in Pids : phase # "ended" /\ Fork(p, c)
    \/ \E p \in Pids : Foreign(p) \/ Spawn(p) \/ (phase # "ended" /\ Emit(p))
    \/ \E p \in Pids, st \in {"zombie", "free"} : ExitAs(p, st)
    \/ \E st \in {"armed", "live", "doomed"} : LeaderMoves(st)
    \/ Advance("frame", "request") \/ Advance("request", "spawn") \/ Advance("setup", "run")
    \/ RefusedEarly \/ Teardown \/ Drained \/ AbortOver \/ AbortFault \/ AbortFinish
    \/ ScanPid \/ TermSignalled \/ KillSignalled \/ GraceEnds
    \/ \E group \in SUBSET {p \in Pids : Work(p)} : GroupKilled(group)
    \/ AnotherRound \/ TreeKilled \/ Judged \/ JudgedFailed \/ ReapedFailed \/ ReapedOn
    \/ EvidenceFinished \/ WriteReceipt \/ ExitOrphans \/ SupervisorCrash \/ OthersStep

\* Every step of the specification is one of them.
LEMMA NextElementary ==
  ASSUME TableType, ControlType, OutsideType, EvidenceInv, Next
  PROVE  Elementary
<1> USE DEF Elementary
<1>1. CASE ReadFrame
  BY <1>1 DEF ReadFrame, Return, Advance, RefusedEarly, Early
<1>2. CASE ValidateRequest
  BY <1>2 DEF ValidateRequest, Return, Advance, RefusedEarly, Early
<1>3. CASE SpawnRefused
  BY <1>3 DEF SpawnRefused, Return, RefusedEarly, Early
<1>4. CASE ExecSeen
  BY <1>4 DEF ExecSeen, Advance
<1>5. CASE WaitEnds \/ WaitTimesOut
  BY <1>5 DEF WaitEnds, WaitTimesOut, StartTeardown, Teardown
<1>6. CASE SignalTree
  <2>1. CASE phase = "term"
    BY <1>6, <2>1 DEF SignalTree, TermSignalled
  <2>2. CASE phase # "term"
    BY <1>6, <2>2 DEF SignalTree, KillSignalled, Sweeping
  <2> QED BY <2>1, <2>2
<1>7. CASE JudgeResidual
  <2> DEFINE clean == Residual = {}
             scans == IF clean THEN empties + 1 ELSE 0
             enough == clean /\ (phase # "final" \/ scans >= 2)
  <2>1. /\ phase \in Sweeping /\ scan.pos > PidMax /\ scan.use = "judge"
        /\ UNCHANGED <<Machine, leader, faults, signal, client>>
        /\ \/ SweepDone(clean) /\ empties' = 0 /\ scan' = NewScan
           \/ ~enough /\ empties' = scans /\ scan' = NewScan /\ UNCHANGED <<phase, failed, receipt, ev>>
    BY <1>7 DEF JudgeResidual
  <2>2. ~enough => scans \in 0..1
    BY DEF ControlType
  <2>3. CASE ~enough /\ empties' = scans /\ scan' = NewScan /\ UNCHANGED <<phase, failed, receipt, ev>>
    BY <2>1, <2>2, <2>3 DEF AnotherRound
  <2> HIDE DEF enough
  <2>4. CASE SweepDone(clean) /\ empties' = 0 /\ scan' = NewScan
    <3>1. CASE phase \in {"kill", "emergency"}
      BY <2>1, <2>4, <3>1 DEF SweepDone, TreeKilled
    <3>2. CASE phase = "final" /\ failed = "no"
      BY <2>1, <2>4, <3>2 DEF SweepDone, Judged
    <3>3. CASE phase = "final" /\ failed = "yes"
      BY <2>1, <2>4, <3>3 DEF SweepDone, JudgedFailed, Return
    <3> QED BY <2>4, <3>1, <3>2, <3>3 DEF SweepDone
  <2> QED BY <2>1, <2>3, <2>4
<1>8. CASE RawKill
  BY <1>8 DEF RawKill, GroupKilled
<1>9. CASE ReapLeader
  BY <1>9 DEF ReapLeader, Return, ReapedFailed, ReapedOn
<1>10. CASE FinishEvidence
  BY <1>10 DEF FinishEvidence, AbortFinish, EvidenceFinished
<1>11. CASE CheckEvidence
  BY <1>11 DEF CheckEvidence, AbortOver, Drained
<1>12. CASE SupervisionFault
  BY <1>12 DEF SupervisionFault, AbortFault, Pinned
<1>13. CASE SupervisorSignalled \/ ClientReads \/ ClientTimesOut \/ ClientDies
  BY <1>13 DEF SupervisorSignalled, ClientReads, ClientTimesOut, ClientDies, ClientKeeps,
     OthersStep, OutsideType
<1>14. CASE ChildArms \/ ChildExecs
  <2>1. leader \in Pids
    BY <1>14 DEF ChildArms, ChildExecs, ControlType, Pids
  <2> QED BY <1>14, <2>1 DEF ChildArms, ChildExecs, LeaderMoves
<1>15. CASE Finished
  BY <1>15 DEF Finished, vars, OthersStep, OutsideType, Machine, Control
<1>16. ASSUME NEW p \in Pids, Exit(p) PROVE Elementary
  BY <1>16 DEF Exit, ExitAs
<1>17. CASE ScanPid \/ GraceEnds \/ WriteReceipt \/ ExitOrphans \/ SupervisorCrash
  BY <1>17
<1> QED
  BY <1>1, <1>2, <1>3, <1>4, <1>5, <1>6, <1>7, <1>8, <1>9, <1>10, <1>11, <1>12,
     <1>13, <1>14, <1>15, <1>16, <1>17 DEF Next, Steps, Sweep


-----------------------------------------------------------------------------
(* What the operators of the model do to the table, the scan and the        *)
(* evidence.                                                                *)

\* A free PID has a well typed entry.
LEMMA FreeEntry == Free \in Entry
BY SupervisorConstants DEF Free, Entry, InitProcess

\* The table after an exit is well typed.
LEMMA AfterType ==
  ASSUME TableType, NEW p \in Pids, NEW st \in {"zombie", "free"}
  PROVE  After(p, st) \in [Pids -> Entry]
<1> SUFFICES ASSUME NEW q \in Pids PROVE After(p, st)[q] \in Entry
  BY DEF After
<1>1. proc[q] \in Entry
  BY DEF TableType
<1>2. Subreaper \in 0..(PidMax + 1)
  BY SupervisorConstants DEF Subreaper, Supervisor, InitProcess
<1>3. [proc[q] EXCEPT !.st = st] \in Entry /\ [proc[q] EXCEPT !.parent = Subreaper] \in Entry
  BY <1>1, <1>2 DEF Entry
<1> QED BY <1>1, <1>3, FreeEntry DEF After

\* The table after SIGKILL is well typed.
LEMMA KilledType ==
  ASSUME TableType, NEW targets
  PROVE  Killed(targets) \in [Pids -> Entry]
<1> SUFFICES ASSUME NEW q \in Pids PROVE Killed(targets)[q] \in Entry
  BY DEF Killed
<1>1. proc[q] \in Entry
  BY DEF TableType
<1>2. [proc[q] EXCEPT !.st = "doomed"] \in Entry
  BY <1>1 DEF Entry
<1> QED BY <1>1, <1>2 DEF Killed

\* The table after zombies were collected is well typed.
LEMMA ReapedType ==
  ASSUME NEW table \in [Pids -> Entry]
  PROVE  Reaped(table) \in [Pids -> Entry]
BY FreeEntry DEF Reaped

\* The table after the supervisor's end is well typed.
LEMMA OrphanedType ==
  ASSUME TableType
  PROVE  Orphaned \in [Pids -> Entry]
<1> SUFFICES ASSUME NEW q \in Pids PROVE Orphaned[q] \in Entry
  BY DEF Orphaned
<1>1. proc[q] \in Entry
  BY DEF TableType
<1> DEFINE new == [proc[q] EXCEPT !.parent = InitProcess,
                                  !.st = IF q = leader /\ proc[q].st \in {"armed", "live"}
                                         THEN "doomed" ELSE proc[q].st]
<1>2. new \in Entry
  <2>1. InitProcess \in 0..(PidMax + 1)
    BY SupervisorConstants DEF InitProcess
  <2> QED BY <1>1, <2>1 DEF Entry
<1>3. Orphaned[q] \in {proc[q], Free, new}
  BY <1>1 DEF Orphaned, Entry
<1> QED BY <1>1, <1>2, <1>3, FreeEntry

\* What the supervisor has stored and drained after a look at the evidence.
LEMMA CheckedFields ==
  ASSUME OutsideType
  PROVE  /\ Checked \in [kind : {"stream", "file"}, emitted : 0..(MaxEvidence + 1), pipe : Nat, stored : Nat]
         /\ Checked.kind = ev.kind /\ Checked.emitted = ev.emitted /\ Checked.pipe = 0
         /\ Checked.stored = Bounded(ev.stored + ev.pipe)
         /\ Checked.stored <= MaxEvidence /\ Checked.stored <= ev.stored + ev.pipe
         /\ ~OverBound => Checked.stored = ev.stored + ev.pipe
<1>1. Bounded(ev.stored + ev.pipe) \in Nat
  BY SupervisorConstants DEF OutsideType, Bounded
<1>2. Checked = [ev EXCEPT !.pipe = 0, !.stored = Bounded(ev.stored + ev.pipe)]
  BY DEF Checked
<1>3. /\ Checked \in [kind : {"stream", "file"}, emitted : 0..(MaxEvidence + 1), pipe : Nat, stored : Nat]
      /\ Checked.kind = ev.kind /\ Checked.emitted = ev.emitted /\ Checked.pipe = 0
      /\ Checked.stored = Bounded(ev.stored + ev.pipe)
  BY <1>1, <1>2 DEF OutsideType
<1>4. /\ Bounded(ev.stored + ev.pipe) <= MaxEvidence
      /\ Bounded(ev.stored + ev.pipe) <= ev.stored + ev.pipe
      /\ ~OverBound => Bounded(ev.stored + ev.pipe) = ev.stored + ev.pipe
  BY SupervisorConstants DEF OutsideType, Bounded, OverBound
<1> QED BY <1>3, <1>4

\* What a write of the workload adds to the evidence.
LEMMA EmitFields ==
  ASSUME OutsideType, NEW p, Emit(p)
  PROVE  /\ ev' \in [kind : {"stream", "file"}, emitted : 0..(MaxEvidence + 1), pipe : Nat, stored : Nat]
         /\ ev'.kind = ev.kind /\ ev'.emitted = ev.emitted + 1
         /\ ev'.pipe = IF ev.kind = "stream" THEN ev.pipe + 1 ELSE ev.pipe
         /\ ev'.stored = IF ev.kind = "file" THEN ev.stored + 1 ELSE ev.stored
<1>1. ev.emitted <= MaxEvidence /\ ev' = [ev EXCEPT !.emitted = ev.emitted + 1,
                        !.pipe = IF ev.kind = "stream" THEN ev.pipe + 1 ELSE ev.pipe,
                        !.stored = IF ev.kind = "file" THEN ev.stored + 1 ELSE ev.stored]
  BY DEF Emit
<1>2. /\ ev.emitted + 1 \in 0..(MaxEvidence + 1) /\ ev.pipe + 1 \in Nat /\ ev.stored + 1 \in Nat
      /\ ev.pipe \in Nat /\ ev.stored \in Nat
  BY <1>1, SupervisorConstants DEF OutsideType
<1> QED BY <1>1, <1>2 DEF OutsideType

\* Every set of numbers has a least one.
LEMMA LeastKey ==
  ASSUME NEW S, S \subseteq Nat, S # {}
  PROVE  \E n \in S : \A m \in S : n <= m
<1> DEFINE less == {ss \in Nat \X Nat : ss[1] < ss[2]}
<1>1. IsWellFoundedOn(less, Nat)
  BY NatLessThanWellFounded, Zenon DEF OpToRel
<1> HIDE DEF less
<1>2. \E n \in S : \A m \in S : <<m, n>> \notin less
  BY <1>1, WFMin
<1>3. ASSUME NEW m \in Nat, NEW n \in Nat, <<m, n>> \notin less
      PROVE  n <= m
  BY <1>3 DEF less
<1> QED BY <1>2, <1>3

\* The tree that is signalled: no entry of an unrelated process is accepted.
LEMMA TargetsAreWork ==
  ASSUME TableType, ControlType, ScanInv, LeaderInv, phase \in Sweeping
  PROVE  \A p \in Targets : proc[p].own # "other"
<1> DEFINE s == {x \in scan.seen : x.parent # InitProcess \/ (phase # "final" /\ x.pid = leader)}
<1>1. Roots \cup ChildrenIn(s) \subseteq s
  BY SupervisorConstants DEF Roots, ChildrenIn, Supervisor, InitProcess, ControlType, Seen, Pids
<1>2. Accepted \subseteq s
  BY <1>1 DEF Accepted
<1> SUFFICES ASSUME NEW x \in Accepted, proc[x.pid].key = x.key, proc[x.pid].own = "other"
             PROVE  FALSE
  BY DEF Targets
<1>3. x \in scan.seen /\ x.parent = InitProcess
  BY DEF Accepted, ScanInv
<1>4. phase # "final" /\ x.pid = leader
  BY <1>2, <1>3
<1> QED BY <1>4 DEF LeaderInv, Pinned, Sweeping, Work

\* Signals to the workload leave no mark.
LEMMA StruckKeeps ==
  ASSUME NEW targets, \A p \in targets : proc[p].own # "other"
  PROVE  Struck(targets) = hit
BY DEF Struck

\* Signals and reaping: a process is left alone, reaped as a zombie, or keeps
\* running or dying.
Gentle(p) ==
    \/ proc'[p] = proc[p]
    \/ proc[p].st = "zombie" /\ proc'[p] = Free
    \/ Alive(p) /\ \E st \in Running \cup {"doomed"} : proc'[p] = [proc[p] EXCEPT !.st = st]

\* A gentle change keeps the identity and whether the process runs.
LEMMA GentleFields ==
  ASSUME TableType, NEW p \in Pids, Gentle(p)
  PROVE  \/ proc'[p] = Free /\ proc[p].st = "zombie"
         \/ /\ proc'[p].own = proc[p].own /\ proc'[p].key = proc[p].key
            /\ proc'[p].parent = proc[p].parent
            /\ Alive(p)' <=> Alive(p)
            /\ proc'[p].st = "free" <=> proc[p].st = "free"
BY DEF TableType, Entry, Gentle, Alive, Running

\* Gentle changes keep the order of the table.
LEMMA GentleTable ==
  ASSUME TableType, TableInv, UNCHANGED births, phase = "ended" => phase' = "ended",
         \A p \in Pids : Gentle(p)
  PROVE  TableInv'
<1> SUFFICES ASSUME NEW p \in Pids
             PROVE  /\ proc'[p].st = "free" => proc'[p].own = "none"
                    /\ proc'[p].st # "free" => proc'[p].own # "none" /\ proc'[p].key \in 1..births
                    /\ proc'[p].own = "other" => proc'[p].parent = InitProcess
                    /\ (phase' # "ended" /\ Work(p)' /\ Alive(p)') =>
                          \/ proc'[p].parent = Supervisor
                          \/ /\ proc'[p].parent \in Pids /\ proc'[proc'[p].parent].own = "work"
                             /\ proc'[proc'[p].parent].st \in Running \cup {"doomed"}
                             /\ proc'[proc'[p].parent].key < proc'[p].key
  BY DEF TableInv, Work, Alive
<1>1. CASE proc'[p] = Free
  BY <1>1 DEF Free, Work, Alive, Running
<1>2. CASE proc'[p] # Free
  <2>1. /\ proc'[p].own = proc[p].own /\ proc'[p].key = proc[p].key
        /\ proc'[p].parent = proc[p].parent /\ (Alive(p)' <=> Alive(p))
        /\ proc'[p].st = "free" <=> proc[p].st = "free"
    BY <1>2, GentleFields
  <2>2. ASSUME phase' # "ended", Work(p)', Alive(p)', proc'[p].parent # Supervisor
        PROVE  /\ proc'[p].parent \in Pids /\ proc'[proc'[p].parent].own = "work"
               /\ proc'[proc'[p].parent].st \in Running \cup {"doomed"}
               /\ proc'[proc'[p].parent].key < proc'[p].key
    <3>1. PICK q \in Pids : q = proc[p].parent /\ Work(q) /\ Alive(q) /\ proc[q].key < proc[p].key
      <4>1. phase # "ended" /\ Work(p) /\ Alive(p) /\ proc[p].parent # Supervisor
        BY <2>1, <2>2 DEF Work
      <4>2. /\ proc[p].parent \in Pids /\ Work(proc[p].parent) /\ Alive(proc[p].parent)
            /\ proc[proc[p].parent].key < proc[p].key
        BY <4>1 DEF TableInv
      <4> QED BY <4>2
    <3>2. /\ proc'[q].own = proc[q].own /\ proc'[q].key = proc[q].key
          /\ proc'[q].st \in Running \cup {"doomed"}
      <4>1. Gentle(q) /\ proc[q].st # "zombie"
        BY <3>1 DEF Alive, Running
      <4> QED BY <3>1, <4>1, GentleFields DEF Alive
    <3> QED BY <2>1, <3>1, <3>2 DEF Work, Alive
  <2> QED BY <2>1, <2>2 DEF TableInv
<1> QED BY <1>1, <1>2

\* What SIGKILL and the collection of zombies do to a process is gentle.
LEMMA KilledGentle ==
  ASSUME TableType, NEW targets, proc' = Killed(targets)
  PROVE  \A p \in Pids : Gentle(p)
BY DEF Killed, Gentle, Alive, Running

\* Collecting zombies is gentle, and spares the leader while it is pinned.
LEMMA ReapedGentle ==
  ASSUME TableType, NEW targets, proc' = Reaped(proc) \/ proc' = Reaped(Killed(targets))
  PROVE  \A p \in Pids : Gentle(p) /\ (p = leader /\ phase # "final" => proc'[p].st # "free" \/ proc[p].st = "free")
<1> SUFFICES ASSUME NEW p \in Pids
             PROVE  Gentle(p) /\ (p = leader /\ phase # "final" => proc'[p].st # "free" \/ proc[p].st = "free")
  OBVIOUS
<1>1. proc[p] \in Entry
  BY DEF TableType
<1> DEFINE k == Killed(targets)[p]
<1>2. k = proc[p] \/ (proc[p].st \in Running /\ k = [proc[p] EXCEPT !.st = "doomed"])
  BY DEF Killed
<1>3. k.st = "zombie" => k = proc[p]
  BY <1>1, <1>2 DEF Entry
<1>4. \/ proc'[p] = proc[p] \/ proc'[p] = k
      \/ proc'[p] = Free /\ proc[p].st = "zombie" /\ (p = leader => phase = "final")
  BY <1>3 DEF Reaped
<1>5. Gentle(p)
  BY <1>1, <1>2, <1>4 DEF Gentle, Alive, Running
<1>6. k.st = "free" => proc[p].st = "free"
  BY <1>1, <1>2 DEF Entry
<1> QED BY <1>4, <1>5, <1>6

\* What TableInv says of one process, p, in a table t.
Sound(t, p, n, ended) ==
    /\ t[p].st = "free" => t[p].own = "none"
    /\ t[p].st # "free" => t[p].own # "none" /\ t[p].key \in 1..n
    /\ t[p].own = "other" => t[p].parent = InitProcess
    /\ (~ended /\ t[p].own = "work" /\ t[p].st \in Running \cup {"doomed"}) =>
          \/ t[p].parent = Supervisor
          \/ /\ t[p].parent \in Pids /\ t[t[p].parent].own = "work"
             /\ t[t[p].parent].st \in Running \cup {"doomed"}
             /\ t[t[p].parent].key < t[p].key

\* TableInv is Sound for every process.
LEMMA SoundTable ==
  /\ TableInv <=> \A p \in Pids : Sound(proc, p, births, phase = "ended")
  /\ TableInv' <=> \A p \in Pids : Sound(proc', p, births', phase' = "ended")
BY DEF TableInv, Sound, Work, Alive

\* The table does not change and the supervisor does not come back.
LEMMA KeptTable ==
  ASSUME TableInv, UNCHANGED <<proc, births>>, phase = "ended" => phase' = "ended"
  PROVE  TableInv'
BY SoundTable DEF Sound

\* A new process is younger than its parent.
LEMMA BornTable ==
  ASSUME TableType, TableInv, UNCHANGED phase \/ phase # "ended",
         NEW p \in Pids, NEW st \in Running, NEW parent, NEW own \in {"work", "other"},
         Born(p, st, parent, own),
         \/ own = "work" /\ parent = Supervisor
         \/ own = "other" /\ parent = InitProcess
         \/ own = "work" /\ parent \in Pids /\ Work(parent) /\ Alive(parent)
  PROVE  TableInv'
<1> DEFINE new == [st |-> st, parent |-> parent, key |-> births + 1, own |-> own]
<1>1. /\ proc[p].st = "free" /\ births' = births + 1 /\ births \in Nat
      /\ proc' = [proc EXCEPT ![p] = new]
  BY SupervisorConstants DEF Born, TableType
<1> SUFFICES ASSUME NEW q \in Pids PROVE Sound(proc', q, births', phase' = "ended")
  BY SoundTable
<1>2. Sound(proc, q, births, phase = "ended")
  BY SoundTable
<1>3. CASE q = p
  <2>1. proc'[q] = new
    BY <1>1, <1>3 DEF TableType
  <2>2. CASE parent \in Pids
    <3>1. parent # p /\ proc'[parent] = proc[parent]
      BY <1>1, <2>2, SupervisorConstants DEF Alive, Running, Pids, Supervisor, InitProcess, TableType
    <3>2. Work(parent) /\ Alive(parent) /\ own = "work"
      BY <2>2, SupervisorConstants DEF Pids, Supervisor, InitProcess
    <3>3. proc[parent].key < births + 1
      <4>1. Sound(proc, parent, births, phase = "ended")
        BY <2>2, SoundTable
      <4> QED BY <1>1, <3>2, <4>1 DEF Sound, Alive, Running
    <3> QED BY <1>1, <2>1, <2>2, <3>1, <3>2, <3>3 DEF Sound, Running, Work, Alive
  <2>3. CASE parent \notin Pids
    BY <1>1, <2>1, <2>3 DEF Sound, Running
  <2> QED BY <2>2, <2>3
<1>4. CASE q # p
  <2>1. proc'[q] = proc[q]
    BY <1>1, <1>4 DEF TableType
  <2>2. ASSUME NEW r \in Pids, proc[r].st \in Running \cup {"doomed"}
        PROVE  proc'[r] = proc[r]
    BY <1>1, <2>2 DEF TableType, Running
  <2> QED BY <1>1, <1>2, <2>1, <2>2 DEF Sound
<1> QED BY <1>3, <1>4

\* Orphans of a process that ends go to the supervisor, and to init after it.
LEMMA AfterTable ==
  ASSUME TableType, TableInv, UNCHANGED <<births, phase>>,
         NEW p \in Pids, NEW st \in {"zombie", "free"}, Alive(p), proc' = After(p, st)
  PROVE  TableInv'
<1> SUFFICES ASSUME NEW q \in Pids PROVE Sound(proc', q, births, phase = "ended")
  BY SoundTable
<1>1. Sound(proc, q, births, phase = "ended") /\ proc[q] \in Entry /\ proc[p] \in Entry
  BY SoundTable DEF TableType
<1>2. CASE q = p
  <2>1. proc'[q] = Free \/ (st = "zombie" /\ proc'[q] = [proc[q] EXCEPT !.st = "zombie"])
    BY <1>2 DEF After
  <2> QED BY <1>1, <1>2, <2>1 DEF Sound, Free, Entry, Running, Alive
<1>3. CASE q # p /\ proc[q].parent = p /\ proc[q].st # "free"
  <2>1. proc'[q] = [proc[q] EXCEPT !.parent = Subreaper]
    BY <1>3 DEF After
  <2>2. proc[q].own # "other"
    BY <1>1, <1>3, SupervisorConstants DEF Sound, Pids, InitProcess
  <2>3. phase # "ended" => Subreaper = Supervisor
    BY DEF Subreaper
  <2> QED BY <1>1, <2>1, <2>2, <2>3, <1>3 DEF Sound, Entry
<1>4. CASE q # p /\ ~(proc[q].parent = p /\ proc[q].st # "free")
  <2>1. proc'[q] = proc[q]
    BY <1>4 DEF After
  <2>2. ASSUME NEW r \in Pids, r # p
        PROVE  proc'[r].own = proc[r].own /\ proc'[r].st = proc[r].st /\ proc'[r].key = proc[r].key
    <3>1. proc'[r] = proc[r] \/ proc'[r] = [proc[r] EXCEPT !.parent = Subreaper]
      BY <2>2 DEF After
    <3>2. proc[r] \in Entry
      BY DEF TableType
    <3> QED BY <3>1, <3>2 DEF Entry
  <2> QED BY <1>1, <1>4, <2>1, <2>2 DEF Sound, Running
<1> QED BY <1>2, <1>3, <1>4

\* What the supervisor's end leaves behind.
LEMMA OrphanedTable ==
  ASSUME TableType, TableInv, UNCHANGED births, phase' = "ended", proc' = Orphaned
  PROVE  TableInv'
<1> SUFFICES ASSUME NEW q \in Pids PROVE Sound(proc', q, births, TRUE)
  BY SoundTable
<1>1. Sound(proc, q, births, phase = "ended") /\ proc[q] \in Entry
  BY SoundTable DEF TableType
<1>2. \/ proc'[q] = proc[q] \/ proc'[q] = Free
      \/ /\ proc'[q].own = proc[q].own /\ proc'[q].key = proc[q].key
         /\ proc'[q].parent = InitProcess /\ proc'[q].st # "free" /\ proc[q].st # "free"
  BY <1>1 DEF Orphaned, Entry
<1> QED BY <1>1, <1>2 DEF Sound, Free

\* A process keeps its identity, is gone, or is new.
SameIdentity(p) ==
    \/ proc'[p].key = proc[p].key /\ proc'[p].own = proc[p].own
    \/ proc'[p] = Free
    \/ proc'[p].key = births + 1

\* Steps that keep identities keep what the scan knows.
LEMMA ScanKept ==
  ASSUME ControlType, ScanInv, births \in Nat, births' \in Nat, births <= births',
         scan'.seen \subseteq scan.seen, \A p \in Pids : SameIdentity(p)
  PROVE  ScanInv'
<1> SUFFICES ASSUME NEW x \in scan'.seen
             PROVE  /\ x.key \in 1..births'
                    /\ (proc'[x.pid].key = x.key /\ proc'[x.pid].own = "other") => x.parent = InitProcess
  BY DEF ScanInv
<1>1. /\ x \in scan.seen /\ x.key \in 1..births /\ x.pid \in Pids
      /\ (proc[x.pid].key = x.key /\ proc[x.pid].own = "other") => x.parent = InitProcess
  BY DEF ScanInv, ControlType, Seen
<1>2. SameIdentity(x.pid)
  BY <1>1
<1> QED BY <1>1, <1>2 DEF SameIdentity, Free

\* Gentle changes keep identities.
LEMMA GentleIdentity ==
  ASSUME TableType, NEW p \in Pids, Gentle(p)
  PROVE  SameIdentity(p)
BY GentleFields DEF SameIdentity

\* A birth keeps the identities of the others.
LEMMA BornIdentity ==
  ASSUME TableType, NEW p, NEW st, NEW parent, NEW own, Born(p, st, parent, own)
  PROVE  \A q \in Pids : SameIdentity(q)
BY DEF Born, SameIdentity, TableType

\* An exit keeps identities.
LEMMA AfterIdentity ==
  ASSUME TableType, NEW p \in Pids, NEW st \in {"zombie", "free"}, proc' = After(p, st)
  PROVE  \A q \in Pids : SameIdentity(q)
<1> SUFFICES ASSUME NEW q \in Pids PROVE SameIdentity(q)
  OBVIOUS
<1>1. proc[q] \in Entry
  BY DEF TableType
<1>2. \/ proc'[q] = Free \/ proc'[q] = proc[q] \/ proc'[q] = [proc[q] EXCEPT !.st = st]
      \/ proc'[q] = [proc[q] EXCEPT !.parent = Subreaper]
  BY DEF After
<1> QED BY <1>1, <1>2 DEF SameIdentity, Entry

\* The supervisor's end leaves processes alone, reaps zombies, or changes a parent.
LEMMA OrphanedFields ==
  ASSUME TableType, NEW q \in Pids, proc' = Orphaned
  PROVE  \/ proc'[q] = proc[q] \/ proc'[q] = Free
         \/ /\ proc'[q].own = proc[q].own /\ proc'[q].key = proc[q].key
            /\ Alive(q)' <=> Alive(q)
<1>1. proc[q] \in Entry
  BY DEF TableType
<1> QED BY <1>1 DEF Orphaned, Entry, Alive, Running

\* A process that was not running does not start to.
LEMMA AfterFields ==
  ASSUME TableType, NEW p \in Pids, NEW st \in {"zombie", "free"}, proc' = After(p, st), NEW q \in Pids
  PROVE  \/ proc'[q] = Free \/ proc'[q].st = "zombie"
         \/ proc'[q].own = proc[q].own /\ proc'[q].st = proc[q].st
<1>1. proc[q] \in Entry
  BY DEF TableType
<1>2. \/ proc'[q] = Free \/ proc'[q] = proc[q]
      \/ st = "zombie" /\ proc'[q] = [proc[q] EXCEPT !.st = st]
      \/ proc'[q] = [proc[q] EXCEPT !.parent = Subreaper]
  BY DEF After
<1> QED BY <1>1, <1>2 DEF Entry

\* Gentle changes start nothing.
LEMMA GentleQuiet ==
  ASSUME TableType, NoneAlive, \A p \in Pids : Gentle(p)
  PROVE  NoneAlive'
<1> SUFFICES ASSUME NEW p \in Pids, Work(p)', Alive(p)' PROVE FALSE
  BY DEF NoneAlive
<1>1. proc'[p] # Free
  BY DEF Work, Free
<1> QED BY <1>1, GentleFields DEF NoneAlive, Work

\* While a process of the workload runs one of them is a child of the supervisor:
\* the one with the least key has no older parent.
LEMMA SomeAdopted ==
  ASSUME NEW t \in [Pids -> Entry], NEW n, \A p \in Pids : Sound(t, p, n, FALSE),
         NEW r \in Pids, t[r].own = "work", t[r].st \in Running \cup {"doomed"}
  PROVE  \E p \in Pids : t[p].st # "free" /\ t[p].parent = Supervisor
<1> DEFINE Left == {p \in Pids : t[p].own = "work" /\ t[p].st \in Running \cup {"doomed"}}
           keys == {t[p].key : p \in Left}
<1>1. keys \subseteq Nat /\ keys # {}
  BY DEF Entry
<1>2. PICK k \in keys : \A m \in keys : k <= m
  BY <1>1, LeastKey
<1>3. PICK p \in Left : t[p].key = k
  BY <1>2
<1>4. CASE t[p].parent = Supervisor
  BY <1>3, <1>4 DEF Running
<1>5. CASE t[p].parent # Supervisor
  <2>1. /\ t[p].parent \in Left
        /\ t[t[p].parent].key < t[p].key
    BY <1>3, <1>5 DEF Sound
  <2>2. t[p].key <= t[t[p].parent].key
    BY <1>2, <1>3, <2>1
  <2> QED BY <1>1, <2>1, <2>2
<1> QED BY <1>4, <1>5

\* The same in the next state.
LEMMA SomeAdoptedNext ==
  ASSUME TableType', TableInv', phase' # "ended", ~NoneAlive'
  PROVE  \E p \in Pids : Adopted(p)'
<1>1. proc' \in [Pids -> Entry]
  BY DEF TableType
<1>2. \A p \in Pids : Sound(proc', p, births', FALSE)
  BY SoundTable DEF Sound
<1>3. PICK r \in Pids : proc'[r].own = "work" /\ proc'[r].st \in Running \cup {"doomed"}
  BY DEF NoneAlive, Work, Alive
<1> QED BY <1>1, <1>2, <1>3, SomeAdopted DEF Adopted

\* Only the fork of the leader starts a workload.
StaysQuiet == NoneAlive => NoneAlive' \/ (phase = "spawn" /\ phase' = "setup")

-----------------------------------------------------------------------------
(* Each part is preserved by every step.                                    *)

\* The process table stays well typed.
LEMMA NextTableType ==
  ASSUME TableType, ControlType, LeaderInv, Elementary \/ UNCHANGED vars
  PROVE  TableType'
<1> USE SupervisorConstants DEF TableType, Alive, Pids, Entry, Running, Free,
   Supervisor, InitProcess
<1>1. ASSUME NEW p \in Pids, NEW c \in Pids, phase # "ended", Fork(p, c)
      PROVE  TableType'
  BY <1>1 DEF Fork, Born, Work, Control, Outside
<1>2. ASSUME NEW p \in Pids, Foreign(p) PROVE TableType'
  BY <1>2 DEF Foreign, Born, Control, Outside
<1>3. ASSUME NEW p \in Pids, Spawn(p) PROVE TableType'
  BY <1>3 DEF Spawn, Born, Outside
<1>4. ASSUME NEW p \in Pids, phase # "ended", Emit(p) PROVE TableType'
  BY <1>4 DEF Emit, Machine, Control
<1>5. ASSUME NEW p \in Pids, NEW st \in {"zombie", "free"}, ExitAs(p, st)
      PROVE  TableType'
  BY <1>5, AfterType DEF ExitAs
<1>6. ASSUME NEW st \in {"armed", "live", "doomed"}, LeaderMoves(st) PROVE TableType'
  BY <1>6 DEF LeaderMoves, Control, Outside
<1>7. CASE Advance("frame", "request") \/ Advance("request", "spawn") \/
   Advance("setup", "run") \/ RefusedEarly \/ Teardown \/ OthersStep \/ UNCHANGED
   vars
  BY <1>7 DEF Advance, Machine, Outside, RefusedEarly, Teardown, NewScan,
     OthersStep, Control, vars
<1>8. CASE Drained \/ AbortOver \/ AbortFault \/ AbortFinish
  BY <1>8 DEF Drained, Checked, Bounded, OverBound, Machine, Control,
     AbortOver, Abort, NewScan, AbortFault, Outside, AbortFinish
<1>9. CASE ScanPid
  BY <1>9 DEF ScanPid, Machine, Outside
<1>10. CASE TermSignalled
  BY <1>10, ReapedType DEF TermSignalled
<1>11. CASE KillSignalled
  <2>1. Killed(Targets) \in [Pids -> Entry]
    BY KilledType
  <2> QED BY <1>11, <2>1, ReapedType DEF KillSignalled
<1>12. CASE GraceEnds
  BY <1>12, ReapedType DEF GraceEnds
<1>13. ASSUME NEW group \in SUBSET {p \in Pids : Work(p)}, GroupKilled(group)
      PROVE  TableType'
  BY <1>13, KilledType DEF GroupKilled
<1>14. CASE AnotherRound \/ TreeKilled \/ Judged \/ JudgedFailed \/
   EvidenceFinished
  BY <1>14 DEF AnotherRound, NewScan, Machine, TreeKilled, Judged,
     JudgedFailed, CutFile, Checked, Bounded, EvidenceFinished, OverBound
<1>15. CASE ReapedFailed
  BY <1>15, FreeEntry DEF ReapedFailed
<1>16. CASE ReapedOn
  BY <1>16, FreeEntry DEF ReapedOn
<1>17. CASE WriteReceipt
  BY <1>17, OrphanedType DEF WriteReceipt
<1>18. CASE ExitOrphans
  BY <1>18, OrphanedType DEF ExitOrphans
<1>19. CASE SupervisorCrash
  BY <1>19, OrphanedType DEF SupervisorCrash
<1> HIDE DEF TableType
<1> QED BY <1>1, <1>2, <1>3, <1>4, <1>5, <1>6, <1>7, <1>8, <1>9, <1>10, <1>11,
   <1>12, <1>13, <1>14, <1>15, <1>16, <1>17, <1>18, <1>19 DEF Elementary

\* The steps of the supervisor stay well typed.
LEMMA NextControlType ==
  ASSUME TableType, ControlType, OutsideType, Elementary \/ UNCHANGED vars
  PROVE  ControlType'
<1> USE SupervisorConstants DEF ControlType, Pids, Phases, Early, Pinned,
   Sweeping
<1>1. ASSUME NEW p \in Pids, NEW c \in Pids, phase # "ended", Fork(p, c)
      PROVE  ControlType'
  BY <1>1 DEF Fork, Born, Work, Control, Outside
<1>2. ASSUME NEW p \in Pids, Foreign(p) PROVE ControlType'
  BY <1>2 DEF Foreign, Born, Control, Outside
<1>3. ASSUME NEW p \in Pids, Spawn(p) PROVE ControlType'
  BY <1>3 DEF Spawn, Born, Outside
<1>4. ASSUME NEW p \in Pids, phase # "ended", Emit(p) PROVE ControlType'
  BY <1>4 DEF Emit, Machine, Control
<1>5. ASSUME NEW p \in Pids, NEW st \in {"zombie", "free"}, ExitAs(p, st)
      PROVE  ControlType'
  BY <1>5 DEF ExitAs, After, Subreaper, Control, Outside
<1>6. ASSUME NEW st \in {"armed", "live", "doomed"}, LeaderMoves(st) PROVE ControlType'
  BY <1>6 DEF LeaderMoves, Control, Outside
<1>7. CASE Advance("frame", "request") \/ Advance("request", "spawn") \/
   Advance("setup", "run") \/ RefusedEarly \/ Teardown \/ OthersStep \/ UNCHANGED
   vars
  BY <1>7 DEF Advance, Machine, Outside, RefusedEarly, Teardown, NewScan,
     OthersStep, Control, vars
<1>8. CASE Drained \/ AbortOver \/ AbortFault \/ AbortFinish
  BY <1>8 DEF Drained, Checked, Bounded, OverBound, Machine, Control,
     AbortOver, Abort, NewScan, AbortFault, Outside, AbortFinish
<1>9. CASE ScanPid
  <2>1. scan.pos \in Pids /\ scan.pos + 1 \in 1..(PidMax + 1)
    BY <1>9 DEF ScanPid
  <2>2. [pid |-> scan.pos, key |-> proc[scan.pos].key, parent |-> proc[scan.pos].parent] \in Seen
    BY <2>1 DEF TableType, Entry, Seen
  <2>3. \E seen \in SUBSET Seen : scan' = [scan EXCEPT !.pos = scan.pos + 1, !.seen = seen]
    <3> DEFINE e == [pid |-> scan.pos, key |-> proc[scan.pos].key, parent |-> proc[scan.pos].parent]
               new == IF proc[scan.pos].st = "free" THEN scan.seen ELSE scan.seen \cup {e}
    <3>1. scan' = [scan EXCEPT !.pos = scan.pos + 1, !.seen = new]
      BY <1>9 DEF ScanPid
    <3>2. new \in SUBSET Seen
      BY <2>2
    <3> QED BY <3>1, <3>2
  <2> QED BY <1>9, <2>1, <2>3 DEF ScanPid
<1>10. CASE TermSignalled
  BY <1>10 DEF TermSignalled, Reaped, NewScan, Outside
<1>11. CASE KillSignalled
  BY <1>11 DEF KillSignalled, Reaped, Killed, NewScan, Outside
<1>12. CASE GraceEnds
  BY <1>12 DEF GraceEnds, Reaped, NewScan, Outside
<1>13. ASSUME NEW group \in SUBSET {p \in Pids : Work(p)}, GroupKilled(group)
      PROVE  ControlType'
  BY <1>13 DEF GroupKilled, Killed, NewScan, Outside
<1>14. CASE AnotherRound \/ TreeKilled \/ Judged \/ JudgedFailed \/
   EvidenceFinished
  BY <1>14 DEF AnotherRound, NewScan, Machine, TreeKilled, Judged,
     JudgedFailed, CutFile, Checked, Bounded, EvidenceFinished, OverBound
<1>15. CASE ReapedFailed
  BY <1>15 DEF ReapedFailed, CutFile, Checked, Bounded
<1>16. CASE ReapedOn
  BY <1>16 DEF ReapedOn, NewScan
<1>17. CASE WriteReceipt \/ ExitOrphans \/ SupervisorCrash
  BY <1>17 DEF WriteReceipt, Return, Orphaned, ExitOrphans, Control, Outside,
     SupervisorCrash
<1> HIDE DEF ControlType
<1> QED BY <1>1, <1>2, <1>3, <1>4, <1>5, <1>6, <1>7, <1>8, <1>9, <1>10, <1>11,
   <1>12, <1>13, <1>14, <1>15, <1>16, <1>17 DEF Elementary

\* Evidence, receipt, client and signals stay well typed.
LEMMA NextOutsideType ==
  ASSUME ControlType, OutsideType, Elementary \/ UNCHANGED vars
  PROVE  OutsideType'
<1> USE SupervisorConstants DEF OutsideType
<1>1. ASSUME NEW p \in Pids, NEW c \in Pids, phase # "ended", Fork(p, c)
      PROVE  OutsideType'
  BY <1>1 DEF Fork, Born, Work, Control, Outside
<1>2. ASSUME NEW p \in Pids, Foreign(p) PROVE OutsideType'
  BY <1>2 DEF Foreign, Born, Control, Outside
<1>3. ASSUME NEW p \in Pids, Spawn(p) PROVE OutsideType'
  BY <1>3 DEF Spawn, Born, Outside
<1>4. ASSUME NEW p \in Pids, phase # "ended", Emit(p) PROVE OutsideType'
  BY <1>4, EmitFields DEF Emit, Machine
<1>5. ASSUME NEW p \in Pids, NEW st \in {"zombie", "free"}, ExitAs(p, st)
      PROVE  OutsideType'
  BY <1>5 DEF ExitAs, After, Subreaper, Control, Outside
<1>6. ASSUME NEW st \in {"armed", "live", "doomed"}, LeaderMoves(st) PROVE OutsideType'
  BY <1>6 DEF LeaderMoves, Control, Outside
<1>7. CASE Advance("frame", "request") \/ Advance("request", "spawn") \/
   Advance("setup", "run") \/ RefusedEarly \/ Teardown \/ OthersStep \/ UNCHANGED
   vars
  BY <1>7 DEF Advance, Machine, Outside, RefusedEarly, Teardown, NewScan,
     OthersStep, Control, vars
<1>8. CASE Drained
  BY <1>8, CheckedFields DEF Drained, Machine
<1>9. CASE AbortOver
  BY <1>9, CheckedFields DEF AbortOver, Machine
<1>10. CASE AbortFault
  BY <1>10 DEF AbortFault, Abort, NewScan, Machine, Outside
<1>11. CASE AbortFinish
  BY <1>11, CheckedFields DEF AbortFinish, Machine
<1>12. CASE ScanPid
  BY <1>12 DEF ScanPid, Machine, Outside
<1>13. CASE TermSignalled
  BY <1>13 DEF TermSignalled, Struck, Outside
<1>14. CASE KillSignalled
  BY <1>14 DEF KillSignalled, Struck, Outside
<1>15. CASE GraceEnds
  BY <1>15 DEF GraceEnds, Reaped, NewScan, Outside
<1>16. ASSUME NEW group \in SUBSET {p \in Pids : Work(p)}, GroupKilled(group)
      PROVE  OutsideType'
  BY <1>16 DEF GroupKilled, Struck, Outside
<1>17. CASE AnotherRound \/ TreeKilled \/ Judged
  BY <1>17 DEF AnotherRound, NewScan, Machine, TreeKilled, Judged
<1>18. CASE JudgedFailed
  BY <1>18, CheckedFields DEF JudgedFailed, CutFile, Machine
<1>19. CASE ReapedFailed
  BY <1>19, CheckedFields DEF ReapedFailed, CutFile
<1>20. CASE ReapedOn
  BY <1>20 DEF ReapedOn, NewScan
<1>21. CASE EvidenceFinished
  BY <1>21, CheckedFields DEF EvidenceFinished, Machine
<1>22. CASE WriteReceipt \/ ExitOrphans \/ SupervisorCrash
  BY <1>22 DEF WriteReceipt, Return, Orphaned, ExitOrphans, Control, Outside,
     SupervisorCrash
<1> HIDE DEF OutsideType
<1> QED BY <1>1, <1>2, <1>3, <1>4, <1>5, <1>6, <1>7, <1>8, <1>9, <1>10, <1>11,
   <1>12, <1>13, <1>14, <1>15, <1>16, <1>17, <1>18, <1>19, <1>20, <1>21, <1>22
   DEF Elementary

\* Every step keeps the order of the process table.
LEMMA NextTable ==
  ASSUME TableType, ControlType, TableInv, LeaderInv, Elementary \/ UNCHANGED
     vars
  PROVE  TableInv'
<1> USE SupervisorConstants DEF Early, Pinned, Sweeping
<1>1. ASSUME NEW p \in Pids, NEW c \in Pids, phase # "ended", Fork(p, c)
      PROVE  TableInv'
  BY <1>1, BornTable DEF Fork, Control, Alive, Running
<1>2. ASSUME NEW p \in Pids, Foreign(p) PROVE TableInv'
  BY <1>2, BornTable DEF Foreign, Control, Running
<1>3. ASSUME NEW p \in Pids, Spawn(p) PROVE TableInv'
  BY <1>3, BornTable DEF Spawn, Running
<1>4. ASSUME NEW p \in Pids, phase # "ended", Emit(p) PROVE TableInv'
  BY <1>4, KeptTable DEF Emit, Machine, Control
<1>5. ASSUME NEW p \in Pids, NEW st \in {"zombie", "free"}, ExitAs(p, st)
      PROVE  TableInv'
  BY <1>5, AfterTable DEF ExitAs, Control
<1>6. ASSUME NEW st \in {"armed", "live", "doomed"}, LeaderMoves(st) PROVE TableInv'
  <2>1. \A p \in Pids : Gentle(p)
    BY <1>6 DEF LeaderMoves, Gentle, Alive, Running, TableType
  <2> QED BY <1>6, <2>1, GentleTable DEF LeaderMoves, Control
<1>7. CASE Advance("frame", "request") \/ Advance("request", "spawn") \/
   Advance("setup", "run") \/ RefusedEarly \/ Teardown \/ OthersStep \/ UNCHANGED
   vars
  BY <1>7, KeptTable DEF Advance, Machine, Outside, RefusedEarly, Teardown,
     OthersStep, Control, vars
<1>8. CASE Drained \/ AbortFault \/ AbortFinish
  BY <1>8, KeptTable DEF Drained, Machine, Control, AbortFault, Outside,
     AbortFinish
<1>9. CASE AbortOver
  BY <1>9, KeptTable DEF AbortOver, Machine
<1>10. CASE ScanPid
  BY <1>10, KeptTable DEF ScanPid, Machine, Outside
<1>11. CASE TermSignalled
  <2>1. \A p \in Pids : Gentle(p)
    BY <1>11, ReapedGentle DEF TermSignalled
  <2> QED BY <1>11, <2>1, GentleTable DEF TermSignalled
<1>12. CASE KillSignalled
  <2>1. \A p \in Pids : Gentle(p)
    BY <1>12, ReapedGentle DEF KillSignalled
  <2> QED BY <1>12, <2>1, GentleTable DEF KillSignalled
<1>13. CASE GraceEnds
  <2>1. \A p \in Pids : Gentle(p)
    BY <1>13, ReapedGentle DEF GraceEnds
  <2> QED BY <1>13, <2>1, GentleTable DEF GraceEnds
<1>14. ASSUME NEW group \in SUBSET {p \in Pids : Work(p)}, GroupKilled(group)
      PROVE  TableInv'
  <2>1. \A p \in Pids : Gentle(p)
    BY <1>14, KilledGentle DEF GroupKilled
  <2> QED BY <1>14, <2>1, GentleTable DEF GroupKilled
<1>15. CASE AnotherRound \/ TreeKilled \/ Judged \/ JudgedFailed \/
   EvidenceFinished
  BY <1>15, KeptTable DEF AnotherRound, Machine, TreeKilled, Judged,
     JudgedFailed, EvidenceFinished
<1>16. CASE ReapedFailed
  <2>1. \A p \in Pids : Gentle(p)
    BY <1>16 DEF ReapedFailed, Gentle, TableType
  <2> QED BY <1>16, <2>1, GentleTable DEF ReapedFailed
<1>17. CASE ReapedOn
  <2>1. \A p \in Pids : Gentle(p)
    BY <1>17 DEF ReapedOn, Gentle, TableType
  <2> QED BY <1>17, <2>1, GentleTable DEF ReapedOn
<1>18. CASE WriteReceipt
  BY <1>18, OrphanedTable DEF WriteReceipt, Return
<1>19. CASE ExitOrphans
  BY <1>19, OrphanedTable DEF ExitOrphans, Control
<1>20. CASE SupervisorCrash
  BY <1>20, OrphanedTable DEF SupervisorCrash, Return
<1> QED BY <1>1, <1>2, <1>3, <1>4, <1>5, <1>6, <1>7, <1>8, <1>9, <1>10, <1>11,
   <1>12, <1>13, <1>14, <1>15, <1>16, <1>17, <1>18, <1>19, <1>20 DEF Elementary

\* The leader stays a child of the supervisor until it is reaped.
LEMMA NextLeader ==
  ASSUME TableType, ControlType, LeaderInv, Elementary \/ UNCHANGED vars
  PROVE  LeaderInv'
<1> USE SupervisorConstants DEF LeaderInv, Work, Phases, Early, Pinned,
   Sweeping
<1>1. ASSUME NEW p \in Pids, NEW c \in Pids, phase # "ended", Fork(p, c)
      PROVE  LeaderInv'
  BY <1>1 DEF Fork, Born, Control, TableType
<1>2. ASSUME NEW p \in Pids, Foreign(p) PROVE LeaderInv'
  BY <1>2 DEF Foreign, Born, Control, TableType
<1>3. ASSUME NEW p \in Pids, Spawn(p) PROVE LeaderInv'
  BY <1>3 DEF Spawn, Born, TableType
<1>4. ASSUME NEW p \in Pids, phase # "ended", Emit(p) PROVE LeaderInv'
  BY <1>4 DEF Emit, Machine, Control, Abort
<1>5. ASSUME NEW p \in Pids, NEW st \in {"zombie", "free"}, ExitAs(p, st)
      PROVE  LeaderInv'
  <2> SUFFICES ASSUME phase \in Pinned PROVE LeaderInv'
    BY <1>5 DEF ExitAs, Control
  <2>1. leader \in Pids /\ proc[leader] \in Entry
    BY DEF TableType
  <2>2. CASE p = leader
    <3>1. proc'[leader] = [proc[leader] EXCEPT !.st = "zombie"]
      BY <1>5, <2>2 DEF ExitAs, After
    <3> QED BY <1>5, <2>1, <3>1 DEF ExitAs, Control, Entry
  <2>3. CASE p # leader
    <3>1. proc'[leader] = proc[leader]
      BY <1>5, <2>1, <2>3, SupervisorConstants DEF ExitAs, After, Supervisor, Pids
    <3> QED BY <1>5, <2>1, <3>1 DEF ExitAs, Control
  <2> QED BY <2>2, <2>3
<1>6. ASSUME NEW st \in {"armed", "live", "doomed"}, LeaderMoves(st) PROVE LeaderInv'
  <2>1. proc[leader] \in Entry
    BY <1>6 DEF LeaderMoves, TableType
  <2>2. proc'[leader] = [proc[leader] EXCEPT !.st = st]
    BY <1>6 DEF LeaderMoves, TableType
  <2> QED BY <1>6, <2>1, <2>2 DEF LeaderMoves, Control, Entry
<1>7. CASE Advance("frame", "request") \/ Advance("request", "spawn") \/
   Advance("setup", "run") \/ RefusedEarly \/ Teardown \/ OthersStep \/ UNCHANGED
   vars
  BY <1>7 DEF Advance, Machine, Outside, Abort, RefusedEarly, Teardown,
     OthersStep, Control, vars
<1>8. CASE Drained \/ AbortOver \/ AbortFault \/ AbortFinish
  BY <1>8 DEF Drained, Machine, Control, Abort, AbortOver, AbortFault,
     Outside, AbortFinish
<1>9. CASE ScanPid
  BY <1>9 DEF ScanPid, Machine, Outside, Abort
<1>10. CASE TermSignalled
  <2>1. Gentle(leader) /\ proc'[leader].st # "free"
    BY <1>10, ReapedGentle DEF TermSignalled
  <2> QED BY <1>10, <2>1, GentleFields DEF TermSignalled, Free
<1>11. CASE KillSignalled
  <2> SUFFICES ASSUME phase # "final" PROVE LeaderInv'
    BY <1>11 DEF KillSignalled
  <2>1. Gentle(leader) /\ proc'[leader].st # "free"
    BY <1>11, ReapedGentle DEF KillSignalled
  <2> QED BY <1>11, <2>1, GentleFields DEF KillSignalled, Free
<1>12. CASE GraceEnds
  <2>1. Gentle(leader) /\ proc'[leader].st # "free"
    BY <1>12, ReapedGentle DEF GraceEnds
  <2> QED BY <1>12, <2>1, GentleFields DEF GraceEnds, Free
<1>13. ASSUME NEW group \in SUBSET {p \in Pids : Work(p)}, GroupKilled(group)
      PROVE  LeaderInv'
  <2>1. Gentle(leader) /\ proc'[leader].st # "free"
    BY <1>13, KilledGentle DEF GroupKilled, Killed, TableType, Entry, Running
  <2>2. leader \in Pids /\ proc'[leader] # Free
    BY <1>13, <2>1 DEF GroupKilled, Free
  <2>3. proc'[leader].own = proc[leader].own /\ proc'[leader].parent = proc[leader].parent
    BY <2>1, <2>2, GentleFields
  <2> QED BY <1>13, <2>1, <2>2, <2>3 DEF GroupKilled
<1>14. CASE AnotherRound \/ TreeKilled \/ Judged \/ JudgedFailed \/
   EvidenceFinished
  BY <1>14 DEF AnotherRound, Machine, Abort, TreeKilled, Judged, JudgedFailed,
     EvidenceFinished
<1>15. CASE ReapedFailed
  BY <1>15 DEF ReapedFailed, Abort
<1>16. CASE ReapedOn
  BY <1>16 DEF ReapedOn, Abort
<1>17. CASE WriteReceipt
  BY <1>17 DEF WriteReceipt, Return
<1>18. CASE ExitOrphans
  BY <1>18 DEF ExitOrphans, Control
<1>19. CASE SupervisorCrash
  BY <1>19 DEF SupervisorCrash, Return
<1> HIDE DEF LeaderInv
<1> QED BY <1>1, <1>2, <1>3, <1>4, <1>5, <1>6, <1>7, <1>8, <1>9, <1>10, <1>11,
   <1>12, <1>13, <1>14, <1>15, <1>16, <1>17, <1>18, <1>19 DEF Elementary

\* What a scan has read stays about older processes.
LEMMA NextScan ==
  ASSUME TableType, ControlType, ScanInv, TableInv, TableType', Elementary \/
     UNCHANGED vars
  PROVE  ScanInv'
<1> USE SupervisorConstants DEF Early, Pinned, Sweeping
<1>1. ASSUME NEW p \in Pids, NEW c \in Pids, phase # "ended", Fork(p, c)
      PROVE  ScanInv'
  <2>1. Born(c, "live", p, "work") /\ scan' = scan
    BY <1>1 DEF Fork, Control
  <2>2. births \in Nat /\ births' \in Nat /\ births' = births + 1
    BY <2>1 DEF Born, TableType
  <2> QED BY <2>1, <2>2, BornIdentity, ScanKept
<1>2. ASSUME NEW p \in Pids, Foreign(p) PROVE ScanInv'
  <2>1. Born(p, "live", InitProcess, "other") /\ scan' = scan
    BY <1>2 DEF Foreign, Control
  <2>2. births \in Nat /\ births' \in Nat /\ births' = births + 1
    BY <2>1 DEF Born, TableType
  <2> QED BY <2>1, <2>2, BornIdentity, ScanKept
<1>3. ASSUME NEW p \in Pids, Spawn(p) PROVE ScanInv'
  <2>1. Born(p, "forked", Supervisor, "work") /\ scan' = scan
    BY <1>3 DEF Spawn, Control
  <2>2. births \in Nat /\ births' \in Nat /\ births' = births + 1
    BY <2>1 DEF Born, TableType
  <2> QED BY <2>1, <2>2, BornIdentity, ScanKept
<1>4. ASSUME NEW p \in Pids, phase # "ended", Emit(p) PROVE ScanInv'
  BY <1>4, ScanKept DEF Emit, Machine, Control, NewScan, Abort, SameIdentity,
     TableType
<1>5. ASSUME NEW p \in Pids, NEW st \in {"zombie", "free"}, ExitAs(p, st)
      PROVE  ScanInv'
  BY <1>5, AfterIdentity, ScanKept DEF ExitAs, Control, TableType
<1>6. ASSUME NEW st \in {"armed", "live", "doomed"}, LeaderMoves(st) PROVE ScanInv'
  <2>1. \A p \in Pids : Gentle(p)
    BY <1>6 DEF LeaderMoves, Gentle, Alive, Running, TableType
  <2> QED BY <1>6, <2>1, GentleIdentity, ScanKept DEF LeaderMoves, Control, TableType
<1>7. CASE Advance("frame", "request") \/ Advance("request", "spawn") \/
   Advance("setup", "run") \/ RefusedEarly \/ Teardown \/ OthersStep \/ UNCHANGED
   vars
  BY <1>7, ScanKept DEF Advance, Machine, Outside, NewScan, Abort,
     SameIdentity, TableType, RefusedEarly, Teardown, OthersStep, Control, vars
<1>8. CASE Drained \/ AbortOver \/ AbortFault \/ AbortFinish
  BY <1>8, ScanKept DEF Drained, Machine, Control, NewScan, Abort,
     SameIdentity, TableType, AbortOver, AbortFault, Outside, AbortFinish
<1>9. CASE ScanPid
  <2>1. scan.pos \in Pids /\ UNCHANGED <<proc, births>>
    BY <1>9 DEF ScanPid, ControlType, Pids, Machine
  <2> DEFINE e == [pid |-> scan.pos, key |-> proc[scan.pos].key, parent |-> proc[scan.pos].parent]
  <2>2. scan'.seen \subseteq scan.seen \cup {e} /\ (proc[scan.pos].st = "free" => scan'.seen = scan.seen)
    BY <1>9 DEF ScanPid, ControlType
  <2>3. proc[scan.pos].st # "free" => /\ e.key \in 1..births
                                      /\ (proc[e.pid].own = "other" => e.parent = InitProcess)
    BY <2>1 DEF TableInv
  <2> SUFFICES ASSUME NEW x \in scan'.seen
               PROVE  /\ x.key \in 1..births
                      /\ (proc[x.pid].key = x.key /\ proc[x.pid].own = "other") => x.parent = InitProcess
    BY <2>1 DEF ScanInv
  <2>4. CASE x \in scan.seen
    BY <2>4 DEF ScanInv
  <2>5. CASE x \notin scan.seen
    BY <2>2, <2>3, <2>5
  <2> QED BY <2>4, <2>5
<1>10. CASE TermSignalled
  BY <1>10, ReapedGentle, GentleIdentity, ScanKept DEF TermSignalled, NewScan, TableType
<1>11. CASE KillSignalled
  BY <1>11, ReapedGentle, GentleIdentity, ScanKept DEF KillSignalled, NewScan, TableType
<1>12. CASE GraceEnds
  BY <1>12, ReapedGentle, GentleIdentity, ScanKept DEF GraceEnds, NewScan, TableType
<1>13. ASSUME NEW group \in SUBSET {p \in Pids : Work(p)}, GroupKilled(group)
      PROVE  ScanInv'
  BY <1>13, KilledGentle, GentleIdentity, ScanKept DEF GroupKilled, NewScan, TableType
<1>14. CASE AnotherRound \/ TreeKilled \/ Judged \/ JudgedFailed \/
   EvidenceFinished
  BY <1>14, ScanKept DEF AnotherRound, Machine, NewScan, Abort, SameIdentity,
     TableType, TreeKilled, Judged, JudgedFailed, EvidenceFinished
<1>15. CASE ReapedFailed
  <2>1. \A p \in Pids : SameIdentity(p)
    BY <1>15 DEF ReapedFailed, SameIdentity, TableType
  <2> QED BY <1>15, <2>1, ScanKept DEF ReapedFailed, TableType
<1>16. CASE ReapedOn
  <2>1. \A p \in Pids : SameIdentity(p)
    BY <1>16 DEF ReapedOn, SameIdentity, TableType
  <2> QED BY <1>16, <2>1, ScanKept DEF ReapedOn, NewScan, TableType
<1>17. CASE WriteReceipt
  <2>1. \A p \in Pids : SameIdentity(p)
    BY <1>17, OrphanedFields DEF WriteReceipt, SameIdentity
  <2> QED BY <1>17, <2>1, ScanKept DEF WriteReceipt, TableType
<1>18. CASE ExitOrphans
  <2>1. \A p \in Pids : SameIdentity(p)
    BY <1>18, OrphanedFields DEF ExitOrphans, SameIdentity
  <2> QED BY <1>18, <2>1, ScanKept DEF ExitOrphans, Control, TableType
<1>19. CASE SupervisorCrash
  <2>1. \A p \in Pids : SameIdentity(p)
    BY <1>19, OrphanedFields DEF SupervisorCrash, SameIdentity
  <2> QED BY <1>19, <2>1, ScanKept DEF SupervisorCrash, TableType
<1> QED BY <1>1, <1>2, <1>3, <1>4, <1>5, <1>6, <1>7, <1>8, <1>9, <1>10, <1>11,
   <1>12, <1>13, <1>14, <1>15, <1>16, <1>17, <1>18, <1>19 DEF Elementary

\* Every step but the fork of the leader leaves a quiet system quiet.
LEMMA NextQuiet ==
  ASSUME TableType, ControlType, Elementary \/ UNCHANGED vars
  PROVE  StaysQuiet
<1> USE SupervisorConstants DEF NoneAlive, StaysQuiet
<1>1. ASSUME NEW p \in Pids, NEW c \in Pids, phase # "ended", Fork(p, c)
      PROVE  StaysQuiet
  BY <1>1 DEF Fork, Work, Alive, Running
<1>2. ASSUME NEW p \in Pids, Foreign(p) PROVE StaysQuiet
  BY <1>2 DEF Foreign, Born, Work, Alive, TableType
<1>3. ASSUME NEW p \in Pids, Spawn(p) PROVE StaysQuiet
  BY <1>3 DEF Spawn
<1>4. ASSUME NEW p \in Pids, phase # "ended", Emit(p) PROVE StaysQuiet
  BY <1>4 DEF Emit, Machine, Control, Work, Alive
<1>5. ASSUME NEW p \in Pids, NEW st \in {"zombie", "free"}, ExitAs(p, st)
      PROVE  StaysQuiet
  BY <1>5, AfterFields DEF ExitAs, Work, Alive, Free, Running
<1>6. ASSUME NEW st \in {"armed", "live", "doomed"}, LeaderMoves(st) PROVE StaysQuiet
  <2>1. \A p \in Pids : Gentle(p)
    BY <1>6 DEF LeaderMoves, Gentle, Alive, Running, TableType
  <2> HIDE DEF NoneAlive
  <2> QED BY <1>6, <2>1, GentleQuiet
<1>7. CASE Advance("frame", "request") \/ Advance("request", "spawn") \/
   Advance("setup", "run") \/ RefusedEarly \/ Teardown \/ OthersStep \/ UNCHANGED
   vars
  BY <1>7 DEF Advance, Machine, Outside, Work, Alive, RefusedEarly, Teardown,
     OthersStep, Control, vars
<1>8. CASE Drained \/ AbortOver \/ AbortFault \/ AbortFinish
  BY <1>8 DEF Drained, Machine, Control, Work, Alive, AbortOver, AbortFault,
     Outside, AbortFinish
<1>9. CASE ScanPid
  BY <1>9 DEF ScanPid, Machine, Outside, Work, Alive
<1>10. CASE TermSignalled
  <2> HIDE DEF NoneAlive
  <2> QED BY <1>10, ReapedGentle, GentleQuiet DEF TermSignalled
<1>11. CASE KillSignalled
  <2> HIDE DEF NoneAlive
  <2> QED BY <1>11, ReapedGentle, GentleQuiet DEF KillSignalled
<1>12. CASE GraceEnds
  <2> HIDE DEF NoneAlive
  <2> QED BY <1>12, ReapedGentle, GentleQuiet DEF GraceEnds
<1>13. ASSUME NEW group \in SUBSET {p \in Pids : Work(p)}, GroupKilled(group)
      PROVE  StaysQuiet
  <2> HIDE DEF NoneAlive
  <2> QED BY <1>13, KilledGentle, GentleQuiet DEF GroupKilled
<1>14. CASE AnotherRound \/ TreeKilled \/ Judged \/ JudgedFailed \/
   EvidenceFinished
  BY <1>14 DEF AnotherRound, Machine, Work, Alive, TreeKilled, Judged,
     JudgedFailed, EvidenceFinished
<1>15. CASE ReapedFailed
  <2>1. \A p \in Pids : Gentle(p)
    BY <1>15 DEF ReapedFailed, Gentle, TableType
  <2> HIDE DEF NoneAlive
  <2> QED BY <1>15, <2>1, GentleQuiet
<1>16. CASE ReapedOn
  <2>1. \A p \in Pids : Gentle(p)
    BY <1>16 DEF ReapedOn, Gentle, TableType
  <2> HIDE DEF NoneAlive
  <2> QED BY <1>16, <2>1, GentleQuiet
<1>17. CASE WriteReceipt
  BY <1>17, OrphanedFields DEF WriteReceipt, Work, Alive, Free
<1>18. CASE ExitOrphans
  BY <1>18, OrphanedFields DEF ExitOrphans, Work, Alive, Free
<1>19. CASE SupervisorCrash
  BY <1>19, OrphanedFields DEF SupervisorCrash, Work, Alive, Free
<1> QED BY <1>1, <1>2, <1>3, <1>4, <1>5, <1>6, <1>7, <1>8, <1>9, <1>10, <1>11,
   <1>12, <1>13, <1>14, <1>15, <1>16, <1>17, <1>18, <1>19 DEF Elementary

\* Before the fork nothing has happened.
LEMMA NextStart ==
  ASSUME ControlType, StartInv, StaysQuiet, Elementary \/ UNCHANGED vars
  PROVE  StartInv'
<1> USE SupervisorConstants DEF StartInv, StaysQuiet, Phases, Early, Pinned,
   Sweeping
<1>1. ASSUME NEW p \in Pids, NEW c \in Pids, phase # "ended", Fork(p, c)
      PROVE  StartInv'
  BY <1>1 DEF Fork, Control, Outside, Abort, Return
<1>2. ASSUME NEW p \in Pids, Foreign(p) PROVE StartInv'
  BY <1>2 DEF Foreign, Control, Outside, Abort, Return
<1>3. ASSUME NEW p \in Pids, Spawn(p) PROVE StartInv'
  BY <1>3 DEF Spawn, Outside, Abort, Return
<1>4. ASSUME NEW p \in Pids, phase # "ended", Emit(p) PROVE StartInv'
  BY <1>4 DEF Emit, Machine, Control, NoneAlive, Alive, Running
<1>5. ASSUME NEW p \in Pids, NEW st \in {"zombie", "free"}, ExitAs(p, st)
      PROVE  StartInv'
  BY <1>5 DEF ExitAs, Control, Outside, Abort, Return
<1>6. ASSUME NEW st \in {"armed", "live", "doomed"}, LeaderMoves(st) PROVE StartInv'
  BY <1>6 DEF LeaderMoves, Control, Outside, Abort, Return
<1>7. CASE Advance("frame", "request") \/ Advance("request", "spawn") \/
   Advance("setup", "run") \/ RefusedEarly \/ Teardown \/ OthersStep \/ UNCHANGED
   vars
  BY <1>7 DEF Advance, Machine, Outside, Abort, Return, RefusedEarly,
     Teardown, OthersStep, Control, vars
<1>8. CASE Drained \/ AbortOver \/ AbortFault \/ AbortFinish
  BY <1>8 DEF Drained, Machine, Control, Abort, Return, AbortOver, AbortFault,
     Outside, AbortFinish
<1>9. CASE ScanPid
  BY <1>9 DEF ScanPid, Machine, Outside, Abort, Return
<1>10. CASE TermSignalled
  BY <1>10 DEF TermSignalled, Outside, Abort, Return
<1>11. CASE KillSignalled
  BY <1>11 DEF KillSignalled, Outside, Abort, Return
<1>12. CASE GraceEnds
  BY <1>12 DEF GraceEnds, Outside, Abort, Return
<1>13. ASSUME NEW group \in SUBSET {p \in Pids : Work(p)}, GroupKilled(group)
      PROVE  StartInv'
  BY <1>13 DEF GroupKilled, Outside, Abort, Return
<1>14. CASE AnotherRound \/ TreeKilled \/ Judged \/ JudgedFailed \/
   EvidenceFinished
  BY <1>14 DEF AnotherRound, Machine, Abort, Return, TreeKilled, Judged,
     JudgedFailed, EvidenceFinished
<1>15. CASE ReapedFailed
  BY <1>15 DEF ReapedFailed, Abort, Return
<1>16. CASE ReapedOn
  BY <1>16 DEF ReapedOn, Abort, Return
<1>17. CASE WriteReceipt \/ ExitOrphans \/ SupervisorCrash
  BY <1>17 DEF WriteReceipt, Abort, Return, ExitOrphans, Control, Outside,
     SupervisorCrash
<1> HIDE DEF StartInv
<1> QED BY <1>1, <1>2, <1>3, <1>4, <1>5, <1>6, <1>7, <1>8, <1>9, <1>10, <1>11,
   <1>12, <1>13, <1>14, <1>15, <1>16, <1>17 DEF Elementary

\* A judging scan cannot miss a running workload.
LEMMA NextJudge ==
  ASSUME TableType, ControlType, TableType', TableInv', JudgeInv, StaysQuiet,
     Elementary \/ UNCHANGED vars
  PROVE  JudgeInv'
<1> USE SupervisorConstants DEF JudgeInv, Adopted, StaysQuiet, Phases, Early,
   Pinned, Sweeping
<1>1. ASSUME NEW p \in Pids, NEW c \in Pids, phase # "ended", Fork(p, c)
      PROVE  JudgeInv'
  BY <1>1 DEF Fork, Born, Control, TableType
<1>2. ASSUME NEW p \in Pids, Foreign(p) PROVE JudgeInv'
  BY <1>2 DEF Foreign, Born, Control, TableType
<1>3. ASSUME NEW p \in Pids, Spawn(p) PROVE JudgeInv'
  BY <1>3 DEF Spawn
<1>4. ASSUME NEW p \in Pids, phase # "ended", Emit(p) PROVE JudgeInv'
  BY <1>4 DEF Emit, Machine, Control, Abort, NewScan
<1>5. ASSUME NEW p \in Pids, NEW st \in {"zombie", "free"}, ExitAs(p, st)
      PROVE  JudgeInv'
  <2>1. ASSUME NEW q \in Pids, Adopted(q) PROVE Adopted(q)'
    <3>1. proc[q] \in Entry
      BY DEF TableType
    <3>2. proc'[q] = proc[q] \/ proc'[q] = [proc[q] EXCEPT !.st = "zombie"]
      BY <1>5, <2>1, SupervisorConstants DEF ExitAs, After, Pids, Supervisor
    <3> QED BY <2>1, <3>1, <3>2 DEF Entry
  <2> HIDE DEF Adopted
  <2> QED BY <1>5, <2>1 DEF ExitAs, Control
<1>6. ASSUME NEW st \in {"armed", "live", "doomed"}, LeaderMoves(st) PROVE JudgeInv'
  <2>1. ASSUME NEW q \in Pids, Adopted(q) PROVE Adopted(q)'
    BY <1>6, <2>1 DEF LeaderMoves, TableType, Entry
  <2> HIDE DEF Adopted
  <2> QED BY <1>6, <2>1 DEF LeaderMoves, Control
<1>7. CASE Advance("frame", "request") \/ Advance("request", "spawn") \/
   Advance("setup", "run") \/ RefusedEarly \/ Teardown \/ OthersStep \/ UNCHANGED
   vars
  BY <1>7 DEF Advance, Machine, Outside, Abort, NewScan, RefusedEarly,
     Teardown, OthersStep, Control, vars
<1>8. CASE Drained \/ AbortOver \/ AbortFault \/ AbortFinish
  BY <1>8 DEF Drained, Machine, Control, Abort, NewScan, AbortOver,
     AbortFault, Outside, AbortFinish
<1>9. CASE ScanPid
  <2> SUFFICES ASSUME phase = "final", scan.use = "judge", ~NoneAlive
               PROVE  \/ \E x \in scan'.seen : x.parent = Supervisor
                      \/ \E p \in Pids : p >= scan'.pos /\ Adopted(p)
    BY <1>9 DEF ScanPid, ControlType, Machine, NoneAlive, Work, Alive
  <2> DEFINE e == [pid |-> scan.pos, key |-> proc[scan.pos].key, parent |-> proc[scan.pos].parent]
  <2>1. /\ scan'.pos = scan.pos + 1 /\ scan.pos \in Nat
        /\ scan'.seen = IF proc[scan.pos].st = "free" THEN scan.seen ELSE scan.seen \cup {e}
    BY <1>9 DEF ScanPid, ControlType
  <2>2. CASE \E x \in scan.seen : x.parent = Supervisor
    BY <2>1, <2>2
  <2>3. ASSUME NEW p \in Pids, p >= scan.pos, Adopted(p)
        PROVE  \/ \E x \in scan'.seen : x.parent = Supervisor
               \/ \E q \in Pids : q >= scan'.pos /\ Adopted(q)
    <3>1. CASE p = scan.pos
      <4>1. e \in scan'.seen /\ e.parent = Supervisor
        BY <2>1, <2>3, <3>1
      <4> QED BY <4>1
    <3>2. CASE p # scan.pos
      <4>1. p >= scan.pos + 1
        BY <2>1, <2>3, <3>2 DEF Pids
      <4> QED BY <2>1, <2>3, <4>1
    <3> QED BY <3>1, <3>2
  <2> QED BY <2>2, <2>3
<1>10. CASE TermSignalled
  BY <1>10 DEF TermSignalled
<1>11. CASE KillSignalled
  <2> SUFFICES ASSUME phase = "final", ~NoneAlive'
               PROVE  \E p \in Pids : p >= scan'.pos /\ Adopted(p)'
    BY <1>11 DEF KillSignalled
  <2> HIDE DEF Adopted
  <2>1. PICK p \in Pids : Adopted(p)'
    BY <1>11, SomeAdoptedNext DEF KillSignalled
  <2>2. scan'.pos = 1
    BY <1>11 DEF KillSignalled, NewScan
  <2> QED BY <2>1, <2>2 DEF Pids
<1>12. CASE GraceEnds
  BY <1>12 DEF GraceEnds
<1>13. ASSUME NEW group \in SUBSET {p \in Pids : Work(p)}, GroupKilled(group)
      PROVE  JudgeInv'
  BY <1>13 DEF GroupKilled
<1>14. CASE AnotherRound \/ TreeKilled \/ Judged \/ JudgedFailed \/
   EvidenceFinished
  BY <1>14 DEF AnotherRound, Machine, Abort, NewScan, TreeKilled, Judged,
     JudgedFailed, EvidenceFinished
<1>15. CASE ReapedFailed
  BY <1>15 DEF ReapedFailed, Abort, NewScan
<1>16. CASE ReapedOn
  BY <1>16 DEF ReapedOn, Abort, NewScan
<1>17. CASE WriteReceipt
  BY <1>17 DEF WriteReceipt, Return
<1>18. CASE ExitOrphans
  BY <1>18 DEF ExitOrphans, Control
<1>19. CASE SupervisorCrash
  BY <1>19 DEF SupervisorCrash, Return
<1> HIDE DEF JudgeInv
<1> QED BY <1>1, <1>2, <1>3, <1>4, <1>5, <1>6, <1>7, <1>8, <1>9, <1>10, <1>11,
   <1>12, <1>13, <1>14, <1>15, <1>16, <1>17, <1>18, <1>19 DEF Elementary

\* The receipt stays true to the process table.
LEMMA NextReceipt ==
  ASSUME ControlType, StartInv, JudgeInv, ReceiptInv, StaysQuiet, Elementary
     \/ UNCHANGED vars
  PROVE  ReceiptInv'
<1> USE SupervisorConstants DEF ReceiptInv, StartInv, StaysQuiet, Phases,
   Early, Pinned, Sweeping
<1>1. ASSUME NEW p \in Pids, NEW c \in Pids, phase # "ended", Fork(p, c)
      PROVE  ReceiptInv'
  BY <1>1 DEF Fork, Control, Outside, Abort, Return
<1>2. ASSUME NEW p \in Pids, Foreign(p) PROVE ReceiptInv'
  BY <1>2 DEF Foreign, Control, Outside, Abort, Return
<1>3. ASSUME NEW p \in Pids, Spawn(p) PROVE ReceiptInv'
  BY <1>3 DEF Spawn, Outside, Abort, Return
<1>4. ASSUME NEW p \in Pids, phase # "ended", Emit(p) PROVE ReceiptInv'
  BY <1>4 DEF Emit, Machine, Control, Abort, Return
<1>5. ASSUME NEW p \in Pids, NEW st \in {"zombie", "free"}, ExitAs(p, st)
      PROVE  ReceiptInv'
  BY <1>5 DEF ExitAs, Control, Outside, Abort, Return
<1>6. ASSUME NEW st \in {"armed", "live", "doomed"}, LeaderMoves(st) PROVE ReceiptInv'
  BY <1>6 DEF LeaderMoves, Control, Outside, Abort, Return
<1>7. CASE Advance("frame", "request") \/ Advance("request", "spawn") \/
   Advance("setup", "run") \/ RefusedEarly \/ Teardown \/ OthersStep \/ UNCHANGED
   vars
  BY <1>7 DEF Advance, Machine, Outside, Abort, Return, RefusedEarly,
     Teardown, OthersStep, Control, vars
<1>8. CASE Drained \/ AbortOver \/ AbortFault \/ AbortFinish
  BY <1>8 DEF Drained, Machine, Control, Abort, Return, AbortOver, AbortFault,
     Outside, AbortFinish
<1>9. CASE ScanPid
  BY <1>9 DEF ScanPid, Machine, Outside, Abort, Return
<1>10. CASE TermSignalled
  BY <1>10 DEF TermSignalled, Outside, Abort, Return
<1>11. CASE KillSignalled
  BY <1>11 DEF KillSignalled, Outside, Abort, Return
<1>12. CASE GraceEnds
  BY <1>12 DEF GraceEnds, Outside, Abort, Return
<1>13. ASSUME NEW group \in SUBSET {p \in Pids : Work(p)}, GroupKilled(group)
      PROVE  ReceiptInv'
  BY <1>13 DEF GroupKilled, Outside, Abort, Return
<1>14. CASE AnotherRound \/ TreeKilled \/ JudgedFailed \/ EvidenceFinished
  BY <1>14 DEF AnotherRound, Machine, Abort, Return, TreeKilled, JudgedFailed,
     EvidenceFinished
<1>15. CASE Judged
  <2> SUFFICES ASSUME Residual = {} PROVE NoneAlive'
    BY <1>15 DEF Judged
  <2>1. Roots \subseteq Accepted
    BY DEF Accepted, Roots
  <2>2. ~\E x \in scan.seen : x.parent = Supervisor
    BY <1>15, <2>1 DEF Judged, Residual, Roots
  <2>3. ~\E p \in Pids : p >= scan.pos
    BY <1>15 DEF Judged, ControlType, Pids
  <2> QED BY <1>15, <2>2, <2>3 DEF Judged, JudgeInv
<1>16. CASE ReapedFailed
  BY <1>16 DEF ReapedFailed, Abort, Return
<1>17. CASE ReapedOn
  BY <1>17 DEF ReapedOn, Abort, Return
<1>18. CASE WriteReceipt \/ ExitOrphans \/ SupervisorCrash
  BY <1>18 DEF WriteReceipt, Abort, Return, ExitOrphans, Control, Outside,
     SupervisorCrash
<1> HIDE DEF ReceiptInv, StartInv
<1> QED BY <1>1, <1>2, <1>3, <1>4, <1>5, <1>6, <1>7, <1>8, <1>9, <1>10, <1>11,
   <1>12, <1>13, <1>14, <1>15, <1>16, <1>17, <1>18 DEF Elementary

\* No signal hits an unrelated process.
LEMMA NextHit ==
  ASSUME TableType, ControlType, ScanInv, LeaderInv, Elementary \/ UNCHANGED
     vars
  PROVE  hit' = hit
<1> USE SupervisorConstants DEF Early, Pinned, Sweeping
<1>1. ASSUME NEW p \in Pids, NEW c \in Pids, phase # "ended", Fork(p, c)
      PROVE  hit' = hit
  BY <1>1 DEF Fork, Control, Outside
<1>2. ASSUME NEW p \in Pids, Foreign(p) PROVE hit' = hit
  BY <1>2 DEF Foreign, Control, Outside
<1>3. ASSUME NEW p \in Pids, Spawn(p) PROVE hit' = hit
  BY <1>3 DEF Spawn, Outside
<1>4. ASSUME NEW p \in Pids, phase # "ended", Emit(p) PROVE hit' = hit
  BY <1>4 DEF Emit, Machine, Control
<1>5. ASSUME NEW p \in Pids, NEW st \in {"zombie", "free"}, ExitAs(p, st)
      PROVE  hit' = hit
  BY <1>5 DEF ExitAs, Control, Outside
<1>6. ASSUME NEW st \in {"armed", "live", "doomed"}, LeaderMoves(st) PROVE hit' = hit
  BY <1>6 DEF LeaderMoves, Control, Outside
<1>7. CASE Advance("frame", "request") \/ Advance("request", "spawn") \/
   Advance("setup", "run") \/ RefusedEarly \/ Teardown \/ OthersStep \/ UNCHANGED
   vars
  BY <1>7 DEF Advance, Machine, Outside, RefusedEarly, Teardown, OthersStep,
     Control, vars
<1>8. CASE Drained \/ AbortOver \/ AbortFault \/ AbortFinish
  BY <1>8 DEF Drained, Machine, Control, AbortOver, AbortFault, Outside,
     AbortFinish
<1>9. CASE ScanPid
  BY <1>9 DEF ScanPid, Machine, Outside
<1>10. CASE TermSignalled
  BY <1>10, TargetsAreWork, StruckKeeps DEF TermSignalled
<1>11. CASE KillSignalled
  BY <1>11, TargetsAreWork, StruckKeeps DEF KillSignalled
<1>12. CASE GraceEnds
  BY <1>12 DEF GraceEnds, Outside
<1>13. ASSUME NEW group \in SUBSET {p \in Pids : Work(p)}, GroupKilled(group)
      PROVE  hit' = hit
  <2>1. \A p \in group \cup {leader} : proc[p].own # "other"
    BY <1>13 DEF GroupKilled, LeaderInv, Work
  <2> QED BY <1>13, <2>1, StruckKeeps DEF GroupKilled
<1>14. CASE AnotherRound \/ TreeKilled \/ Judged \/ JudgedFailed \/
   EvidenceFinished
  BY <1>14 DEF AnotherRound, Machine, TreeKilled, Judged, JudgedFailed,
     EvidenceFinished
<1>15. CASE ReapedFailed
  BY <1>15 DEF ReapedFailed
<1>16. CASE ReapedOn
  BY <1>16 DEF ReapedOn
<1>17. CASE WriteReceipt \/ ExitOrphans \/ SupervisorCrash
  BY <1>17 DEF WriteReceipt, ExitOrphans, Control, Outside, SupervisorCrash
<1> QED BY <1>1, <1>2, <1>3, <1>4, <1>5, <1>6, <1>7, <1>8, <1>9, <1>10, <1>11,
   <1>12, <1>13, <1>14, <1>15, <1>16, <1>17 DEF Elementary

\* The evidence stays accounted for.
LEMMA NextEvidence ==
  ASSUME ControlType, OutsideType, StartInv, ReceiptInv, EvidenceInv,
     Elementary \/ UNCHANGED vars
  PROVE  EvidenceInv'
<1> USE SupervisorConstants DEF EvidenceInv, OutsideType, Phases, Early,
   Pinned, Sweeping
<1>1. ASSUME NEW p \in Pids, NEW c \in Pids, phase # "ended", Fork(p, c)
      PROVE  EvidenceInv'
  BY <1>1 DEF Fork, Control, Outside, Abort, Return
<1>2. ASSUME NEW p \in Pids, Foreign(p) PROVE EvidenceInv'
  BY <1>2 DEF Foreign, Control, Outside, Abort, Return
<1>3. ASSUME NEW p \in Pids, Spawn(p) PROVE EvidenceInv'
  BY <1>3 DEF Spawn, Outside, Abort, Return
<1>4. ASSUME NEW p \in Pids, phase # "ended", Emit(p) PROVE EvidenceInv'
  <2>1. ~(phase = "receipt" /\ receipt = "unwritten_complete") /\ phase \notin Early
    BY <1>4 DEF Emit, ReceiptInv, StartInv, NoneAlive, Alive, Running
  <2> QED BY <1>4, <2>1, EmitFields DEF Emit, Control
<1>5. ASSUME NEW p \in Pids, NEW st \in {"zombie", "free"}, ExitAs(p, st)
      PROVE  EvidenceInv'
  BY <1>5 DEF ExitAs, Control, Outside, Abort, Return
<1>6. ASSUME NEW st \in {"armed", "live", "doomed"}, LeaderMoves(st) PROVE EvidenceInv'
  BY <1>6 DEF LeaderMoves, Control, Outside, Abort, Return
<1>7. CASE Advance("frame", "request") \/ Advance("request", "spawn") \/
   Advance("setup", "run") \/ RefusedEarly \/ Teardown \/ OthersStep \/ UNCHANGED
   vars
  BY <1>7 DEF Advance, Machine, Outside, Abort, Return, RefusedEarly,
     Teardown, OthersStep, Control, vars
<1>8. CASE Drained
  BY <1>8, CheckedFields DEF Drained, Control
<1>9. CASE AbortOver
  BY <1>9, CheckedFields DEF AbortOver, Abort
<1>10. CASE AbortFault
  BY <1>10 DEF AbortFault, Machine, Outside, Abort, Return
<1>11. CASE AbortFinish
  BY <1>11, CheckedFields DEF AbortFinish, Abort
<1>12. CASE ScanPid
  BY <1>12 DEF ScanPid, Machine, Outside, Abort, Return
<1>13. CASE TermSignalled
  BY <1>13 DEF TermSignalled, Outside, Abort, Return
<1>14. CASE KillSignalled
  BY <1>14 DEF KillSignalled, Outside, Abort, Return
<1>15. CASE GraceEnds
  BY <1>15 DEF GraceEnds, Outside, Abort, Return
<1>16. ASSUME NEW group \in SUBSET {p \in Pids : Work(p)}, GroupKilled(group)
      PROVE  EvidenceInv'
  BY <1>16 DEF GroupKilled, Outside, Abort, Return
<1>17. CASE AnotherRound \/ TreeKilled \/ Judged
  BY <1>17 DEF AnotherRound, Machine, Abort, Return, TreeKilled, Judged
<1>18. CASE JudgedFailed
  BY <1>18, CheckedFields DEF JudgedFailed, CutFile
<1>19. CASE ReapedFailed
  BY <1>19, CheckedFields DEF ReapedFailed, CutFile
<1>20. CASE ReapedOn
  BY <1>20 DEF ReapedOn, Abort, Return
<1>21. CASE EvidenceFinished
  BY <1>21, CheckedFields DEF EvidenceFinished
<1>22. CASE WriteReceipt \/ ExitOrphans \/ SupervisorCrash
  BY <1>22 DEF WriteReceipt, Abort, Return, ExitOrphans, Control, Outside,
     SupervisorCrash
<1> HIDE DEF EvidenceInv, OutsideType
<1> QED BY <1>1, <1>2, <1>3, <1>4, <1>5, <1>6, <1>7, <1>8, <1>9, <1>10, <1>11,
   <1>12, <1>13, <1>14, <1>15, <1>16, <1>17, <1>18, <1>19, <1>20, <1>21, <1>22
   DEF Elementary

-----------------------------------------------------------------------------
(* The invariant and the theorems.                                          *)

SupervisorInv ==
    /\ TableType /\ ControlType /\ OutsideType
    /\ TableInv /\ LeaderInv /\ ScanInv
    /\ StartInv /\ JudgeInv /\ ReceiptInv /\ EvidenceInv
    /\ hit = "no"

\* The invariant holds at the start.
LEMMA InitSupervisor == Init => SupervisorInv
<1> SUFFICES ASSUME Init PROVE SupervisorInv
  OBVIOUS
<1> USE SupervisorConstants DEF Init, NewScan
<1>1. TableType
  BY FreeEntry DEF TableType
<1>2. ControlType
  BY DEF ControlType, Phases, Early
<1>3. OutsideType
  BY DEF OutsideType
<1>4. TableInv /\ LeaderInv /\ ScanInv
  BY DEF TableInv, LeaderInv, ScanInv, Pinned, Free, Work
<1>5. StartInv /\ JudgeInv /\ ReceiptInv
  BY DEF StartInv, JudgeInv, ReceiptInv, NoneAlive, Free, Work
<1>6. EvidenceInv
  BY DEF EvidenceInv
<1> QED BY <1>1, <1>2, <1>3, <1>4, <1>5, <1>6 DEF SupervisorInv

\* Every step preserves the invariant.
LEMMA NextSupervisor == SupervisorInv /\ [Next]_vars => SupervisorInv'
<1> SUFFICES ASSUME SupervisorInv, [Next]_vars PROVE SupervisorInv'
  OBVIOUS
<1> USE DEF SupervisorInv
<1>1. Elementary \/ UNCHANGED vars
  BY NextElementary
<1>2. TableType' /\ ControlType' /\ OutsideType'
  BY <1>1, NextTableType, NextControlType, NextOutsideType
<1>3. TableInv' /\ LeaderInv'
  BY <1>1, NextTable, NextLeader
<1>4. ScanInv'
  BY <1>1, <1>2, NextScan
<1>5. StaysQuiet
  BY <1>1, NextQuiet
<1>6. StartInv' /\ ReceiptInv'
  BY <1>1, <1>5, NextStart, NextReceipt
<1>7. JudgeInv'
  BY <1>1, <1>2, <1>3, <1>5, NextJudge
<1>8. EvidenceInv' /\ hit' = "no"
  BY <1>1, NextEvidence, NextHit
<1> QED BY <1>2, <1>3, <1>4, <1>6, <1>7, <1>8

\* The invariant holds in every reachable state.
THEOREM SupervisorInvariant == Spec => []SupervisorInv
BY InitSupervisor, NextSupervisor, PTL DEF Spec

\* The supervisor, the process table and the client are well typed, whatever
\* number of PIDs, births and faults.
THEOREM TypeCorrect == Spec => []TypeOK
<1>1. SupervisorInv => TypeOK
  BY SupervisorConstants DEF SupervisorInv, TableType, ControlType, OutsideType, EvidenceInv,
     TypeOK, Entry, Seen, Phases, Early, Pinned, Sweeping
<1> QED BY <1>1, SupervisorInvariant, PTL

\* finalize_adopted_descendants reads /proc one PID at a time while the workload
\* forks, exits and is orphaned: still, a receipt with cleanup_complete is only
\* written when no process of the workload runs.
THEOREM CleanupIsTruthful == Spec => []CleanupTruthful
<1>1. SupervisorInv => CleanupTruthful
  BY DEF SupervisorInv, ReceiptInv, NoneAlive, CleanupTruthful
<1> QED BY <1>1, SupervisorInvariant, PTL

\* signal_identities and emergency_cleanup never signal a process outside the
\* workload, however PIDs are reused between a scan and the signal.
THEOREM UnrelatedAreSpared == Spec => []OnlyWorkloadSignalled
<1>1. SupervisorInv => OnlyWorkloadSignalled
  BY DEF SupervisorInv, OnlyWorkloadSignalled
<1> QED BY <1>1, SupervisorInvariant, PTL

\* At the supervisor's end a complete receipt stands for all evidence that was
\* written, and neither it nor a failed supervision leaves more than the bound.
THEOREM EvidenceIsHonest == Spec => EvidenceHonest
<1> DEFINE Honest == (phase # "ended" /\ phase' = "ended") =>
          /\ receipt' = "complete" => ev'.stored = ev'.emitted
          /\ (receipt' = "complete" \/ failed' = "yes") => ev'.stored <= MaxEvidence
<1>1. SupervisorInv /\ [Next]_vars => [Honest]_vars
  <2> SUFFICES ASSUME SupervisorInv, [Next]_vars, phase # "ended", phase' = "ended"
               PROVE  Honest
    BY DEF vars
  <2> USE SupervisorConstants
      DEF SupervisorInv, ControlType, OutsideType, StartInv, ReceiptInv, EvidenceInv
  <2>1. Elementary
    BY NextElementary DEF vars
  <2>2. RefusedEarly \/ JudgedFailed \/ ReapedFailed \/ WriteReceipt \/ SupervisorCrash
    BY <2>1 DEF Elementary, Fork, Foreign, Spawn, Emit, ExitAs, LeaderMoves, Advance, Teardown,
       Drained, AbortOver, AbortFault, AbortFinish, Abort, ScanPid, TermSignalled, KillSignalled,
       GraceEnds, GroupKilled, AnotherRound, TreeKilled, Judged, ReapedOn, EvidenceFinished,
       ExitOrphans, OthersStep, Control
  <2>3. CASE RefusedEarly
    BY <2>3 DEF RefusedEarly, Outside
  <2>4. CASE JudgedFailed
    BY <2>4, CheckedFields DEF JudgedFailed, CutFile
  <2>5. CASE ReapedFailed
    BY <2>5, CheckedFields DEF ReapedFailed, CutFile
  <2>6. CASE WriteReceipt
    BY <2>6 DEF WriteReceipt, Return
  <2>7. CASE SupervisorCrash
    BY <2>7 DEF SupervisorCrash, Return
  <2> QED BY <2>2, <2>3, <2>4, <2>5, <2>6, <2>7
<1> QED BY <1>1, SupervisorInvariant, PTL DEF Spec, EvidenceHonest
=============================================================================
