--------------------------- MODULE PrivateEvidence --------------------------
(***************************************************************************)
(* The private evidence of the Runtime Lock adapters: the launchers of     *)
(* runtime_locks/ (native_launcher, cpython_launcher, go_pprof_launcher,   *)
(* java_jfr_launcher), which run one authorized workload and leave its raw *)
(* output in a private root, the capture of a running Go process           *)
(* (go_pprof_loopback), and the collect tools of mcp/server.py, which      *)
(* convert the output, retain it within a quota, or remove it.             *)
(*                                                                         *)
(* A process is one run of the MCP server.  Its roots outlive it; only the *)
(* Java roots are looked at by a later process, under a lease that the     *)
(* kernel gives back when its holder dies.  Every file that holds data     *)
(* counts as one unit of bytes.                                            *)
(***************************************************************************)
EXTENDS Naturals, FiniteSets, Sequences

CONSTANTS
    Procs,       \* server processes: positive numbers
    Runs,        \* tokens of launches
    Quota,       \* max_evidence_bytes (Go: max_artifact_bytes), in units
    MaxFaults    \* bound: failing file operations

VARIABLES
    content,     \* content of the target file in the project
    owner,       \* the process that owns the authorized loopback socket
    disk,        \* files and run directories under the private roots
    roots,       \* private roots, as <<process, adapter>>
    lease,       \* holder of the Java artifact-root lease, 0 if free
    up,          \* up[p]: whether the process runs
    launcher,    \* launcher[p]: adapters with a launcher
    retained,    \* retained[p]: launches the server remembers as retained
    call,        \* call[p]: the tool call in progress
    used,        \* tokens already taken
    faults,      \* failed file operations so far
    executed,    \* history: what was executed or captured for a tool
    published    \* history: launches whose Artifacts were published

vars == <<content, owner, disk, roots, lease, up, launcher, retained, call, used, faults,
          executed, published>>

Adapters == {"native", "cpython", "go", "java", "loopback"}
RootOf(a) == IF a = "loopback" THEN "go" ELSE a
Idle == [step |-> "idle", adapter |-> "native", run |-> 0, made |-> 0,
         snap |-> "none", exit |-> "none"]

\* What launch creates, in order.
Files(a) == CASE a \in {"native", "cpython"} -> <<"stream">>
              [] a = "loopback" -> <<"profile">>
              [] a = "go" -> <<"mutex", "block">>
              [] a = "java" -> <<"dir", "recording", "json">>

Entry(p, a, r, f, n) ==
    [proc |-> p, adapter |-> a, run |-> r, file |-> f, bytes |-> n]

Init ==
    /\ content = "authorized" /\ owner = "authorized" /\ disk = {} /\ roots = {} /\ lease = 0
    /\ up = [p \in Procs |-> "new"]
    /\ launcher = [p \in Procs |-> {}] /\ retained = [p \in Procs |-> {}]
    /\ call = [p \in Procs |-> Idle] /\ used = {} /\ faults = 0
    /\ executed = {} /\ published = {}

----------------------------------------------------------------------------
At(p, step) == up[p] = "up" /\ call[p].step = step
Go(p, step) == call' = [call EXCEPT ![p].step = step]
EndCall(p) == call' = [call EXCEPT ![p] = Idle]
Adapter(p) == call[p].adapter
Run(p) == call[p].run

Of(r) == {e \in disk : e.run = r}
Mine(p, a) == {e \in disk : e.proc = p /\ RootOf(e.adapter) = a}
Bytes(entries) == Cardinality({e \in entries : e.bytes = 1})

\* An operating system error in a file operation.
Fault == faults < MaxFaults /\ faults' = faults + 1
NoFault == UNCHANGED faults

\* The files of a launch are removed, or the removal fails.
Remove(p) ==
    \/ disk' = disk \ Of(Run(p)) /\ NoFault
    \/ Fault /\ UNCHANGED disk

Machine == <<content, owner, roots, lease, up, launcher, used, executed, published>>

----------------------------------------------------------------------------
(* The server gets a launcher.                                             *)

StartProcess(p) ==
    /\ up[p] = "new" /\ up' = [up EXCEPT ![p] = "up"]
    /\ UNCHANGED <<content, owner, disk, roots, lease, launcher, retained, call, used, faults,
                   executed, published>>

Collect(p, a, r) ==
    /\ At(p, "idle") /\ r \notin used
    /\ used' = used \cup {r}
    /\ call' = [call EXCEPT ![p] = [Idle EXCEPT
                   !.step = IF RootOf(a) \in launcher[p] THEN "target" ELSE "launcher",
                   !.adapter = a, !.run = r]]
    /\ UNCHANGED <<content, owner, disk, roots, lease, up, launcher, retained, faults,
                   executed, published>>

\* A private root and the launcher; if the launcher is refused the root is removed.
GetLauncher(p) ==
    /\ At(p, "launcher")
    /\ \/ /\ roots' = roots \cup {<<p, RootOf(Adapter(p))>>}
          /\ launcher' = [launcher EXCEPT ![p] = @ \cup {RootOf(Adapter(p))}]
          /\ Go(p, "target")
       \/ EndCall(p) /\ UNCHANGED <<roots, launcher>>
    /\ UNCHANGED <<content, owner, disk, lease, up, retained, used, faults, executed, published>>

GetNativeLauncher(p) == Adapter(p) = "native" /\ GetLauncher(p)
GetCpythonLauncher(p) == Adapter(p) = "cpython" /\ GetLauncher(p)
GetGoLauncher(p) == RootOf(Adapter(p)) = "go" /\ GetLauncher(p)

\* Fault: the lease is taken without LOCK_EX.
AcquireSharedLease(p) ==
    /\ At(p, "launcher") /\ Adapter(p) = "java"
    /\ lease' = p /\ Go(p, "inventory")
    /\ UNCHANGED <<content, owner, disk, roots, up, launcher, retained, used, faults, executed,
                   published>>

\* acquire_java_jfr_artifact_root_lease
AcquireLease(p) ==
    /\ At(p, "launcher") /\ Adapter(p) = "java"
    /\ IF lease = 0 THEN lease' = p /\ Go(p, "inventory")
       ELSE EndCall(p) /\ UNCHANGED lease
    /\ UNCHANGED <<content, owner, disk, roots, up, launcher, retained, used, faults, executed,
                   published>>

\* _inventory_java_jfr_run: both files, and a recording that is not empty.
RunComplete(r) ==
    /\ {e.file : e \in Of(r)} = {"dir", "recording", "json"}
    /\ \E e \in Of(r) : e.file = "recording" /\ e.bytes = 1

JavaRuns == {e.run : e \in {x \in disk : x.adapter = "java"}}
Retention(runs) == Bytes({e \in disk : e.run \in runs})

\* inventory_java_jfr_retained_evidence over every Java root, then a root of
\* its own; any refusal gives the lease back.
Inventory(p) ==
    /\ At(p, "inventory")
    /\ \/ /\ \A r \in JavaRuns : RunComplete(r)
          /\ Retention(JavaRuns) <= Quota
          /\ retained' = [retained EXCEPT ![p] = @ \cup JavaRuns]
          /\ roots' = roots \cup {<<p, "java">>}
          /\ launcher' = [launcher EXCEPT ![p] = @ \cup {"java"}]
          /\ Go(p, "target") /\ UNCHANGED lease
       \/ /\ lease' = 0 /\ EndCall(p)
          /\ UNCHANGED <<retained, roots, launcher>>
    /\ UNCHANGED <<content, owner, disk, up, used, faults, executed, published>>

----------------------------------------------------------------------------
(* launch.                                                                 *)

\* The project owner may write the target at any time; only calls that are about
\* to read it see the difference.
EditTarget ==
    /\ \E p \in Procs : call[p].step \in {"target", "snapshot"}
    /\ content' = IF content = "authorized" THEN "edited" ELSE "authorized"
    /\ UNCHANGED <<owner, disk, roots, lease, up, launcher, retained, call, used, faults,
                   executed, published>>

\* The loopback target ends; its PID and its port may be taken again, the start
\* time and the socket inode never are.
TargetReplaced ==
    /\ \E p \in Procs : Adapter(p) = "loopback"
    /\ owner = "authorized" /\ owner' = "other"
    /\ UNCHANGED <<content, disk, roots, lease, up, launcher, retained, call, used, faults,
                   executed, published>>

\* The target against the authorized identity, in the tool and again in launch,
\* and the tools and policies the launcher pinned, which may refuse as well.
InspectTarget(p) ==
    /\ At(p, "target")
    /\ \/ content = "authorized" /\ Go(p, "snapshot")
       \/ EndCall(p)
    /\ UNCHANGED <<Machine, disk, retained, faults>>

InspectNativeTarget(p) == Adapter(p) = "native" /\ InspectTarget(p)
InspectCpythonTarget(p) == Adapter(p) = "cpython" /\ InspectTarget(p)
InspectGoTarget(p) == Adapter(p) = "go" /\ InspectTarget(p)
InspectExecutableJar(p) == Adapter(p) = "java" /\ InspectTarget(p)

\* inspect_go_pprof_loopback_target
InspectLoopbackTarget(p) ==
    /\ At(p, "target") /\ Adapter(p) = "loopback"
    /\ IF owner = "authorized" THEN Go(p, "create") ELSE EndCall(p)
    /\ UNCHANGED <<Machine, disk, retained, faults>>

\* Fault: the snapshot is not hashed again.
SnapshotUnverified(p) ==
    /\ At(p, "snapshot")
    /\ call' = [call EXCEPT ![p].step = "create", ![p].snap = content]
    /\ UNCHANGED <<Machine, disk, retained, faults>>

\* The sealed copy is hashed while it is made.
SealedSnapshot(p) ==
    /\ At(p, "snapshot")
    /\ IF content = "authorized"
       THEN call' = [call EXCEPT ![p].step = "create", ![p].snap = content]
       ELSE EndCall(p)
    /\ UNCHANGED <<Machine, disk, retained, faults>>

NativeSnapshot(p) == Adapter(p) = "native" /\ SealedSnapshot(p)
CpythonSnapshot(p) == Adapter(p) = "cpython" /\ SealedSnapshot(p)
GoSnapshot(p) == Adapter(p) = "go" /\ SealedSnapshot(p)
JarSnapshot(p) == Adapter(p) = "java" /\ SealedSnapshot(p)

\* One private file or directory, with O_EXCL.
CreatePrivate(p) ==
    /\ At(p, "create")
    /\ LET k == call[p].made + 1 IN
       /\ disk' = disk \cup {Entry(p, Adapter(p), Run(p), Files(Adapter(p))[k], 0)}
       /\ call' = [call EXCEPT ![p].made = k,
                      ![p].step = IF k = Len(Files(Adapter(p))) THEN "execute" ELSE @]
    /\ UNCHANGED <<Machine, retained, faults>>

\* A creation fails.  Go removes its files only if it made both, Java its
\* directory only if it made a file in it.
CreateFails(p) ==
    /\ At(p, "create") /\ Fault
    /\ IF Adapter(p) = "java" /\ call[p].made >= 2
       THEN disk' = disk \ Of(Run(p)) ELSE UNCHANGED disk
    /\ EndCall(p)
    /\ UNCHANGED <<Machine, retained>>

\* The supervisor runs the sealed copy; files that were opened for it hold data
\* afterwards.  "lost" stands for every receipt or inspection launch refuses.
Execute(p) ==
    /\ At(p, "execute") /\ Adapter(p) # "loopback"
    /\ executed' = executed \cup {call[p].snap}
    /\ \E written \in {0, 1} :
        disk' = {IF e.run = Run(p) /\ e.file \notin {"dir", "json"}
                 THEN [e EXCEPT !.bytes = written] ELSE e : e \in disk}
    /\ \E exit \in {"success", "failure", "timeout", "lost"} :
        call' = [call EXCEPT ![p].exit = exit,
                    ![p].step = IF exit = "lost" THEN "undo"
                                ELSE IF Adapter(p) = "java" THEN "render" ELSE "returned"]
    /\ UNCHANGED <<content, owner, roots, lease, up, launcher, retained, used, faults, published>>

ExecuteNative(p) == Adapter(p) = "native" /\ Execute(p)
ExecuteCpython(p) == Adapter(p) = "cpython" /\ Execute(p)
ExecuteGo(p) == Adapter(p) = "go" /\ Execute(p)
ExecuteJava(p) == Adapter(p) = "java" /\ Execute(p)

\* capture_go_pprof_loopback_profile: whoever answers at the port is heard.
FetchLoopback(p) ==
    /\ At(p, "execute") /\ Adapter(p) = "loopback"
    /\ disk' = {IF e.run = Run(p) THEN [e EXCEPT !.bytes = 1] ELSE e : e \in disk}
    /\ \/ call' = [call EXCEPT ![p].step = "recheck", ![p].snap = owner]
       \/ Go(p, "undo")
    /\ UNCHANGED <<Machine, retained, faults>>

\* _assert_target_current after the response was stored.
RecheckTarget(p) ==
    /\ At(p, "recheck")
    /\ IF owner = "authorized"
       THEN /\ \E exit \in {"success", "timeout"} :
                call' = [call EXCEPT ![p].step = "returned", ![p].exit = exit]
            /\ executed' = executed \cup {call[p].snap}
       ELSE Go(p, "undo") /\ UNCHANGED executed
    /\ UNCHANGED <<content, owner, disk, roots, lease, up, launcher, retained, used, faults,
                   published>>

\* Fault: a failed launch returns without its finally clause.
UndoNothing(p) ==
    /\ At(p, "undo") /\ EndCall(p)
    /\ UNCHANGED <<Machine, disk, retained, faults>>

\* The finally clause of a launch that failed.
UndoLaunch(p) ==
    /\ At(p, "undo") /\ Remove(p) /\ EndCall(p)
    /\ UNCHANGED <<Machine, retained>>

UndoNative(p) == Adapter(p) = "native" /\ UndoLaunch(p)
UndoCpython(p) == Adapter(p) = "cpython" /\ UndoLaunch(p)
UndoGo(p) == RootOf(Adapter(p)) = "go" /\ UndoLaunch(p)
UndoJava(p) == Adapter(p) = "java" /\ UndoLaunch(p)

\* Java: an empty recording is refused; otherwise the JSON is rendered, or the
\* conversion fails and both files are kept.
RenderJson(p) ==
    /\ At(p, "render")
    /\ IF \E e \in Of(Run(p)) : e.file = "recording" /\ e.bytes = 1
       THEN \/ /\ disk' = {IF e.run = Run(p) /\ e.file = "json"
                           THEN [e EXCEPT !.bytes = 1] ELSE e : e \in disk}
               /\ Go(p, "returned")
            \/ \E n \in {0, 1} :
                /\ disk' = {IF e.run = Run(p) /\ e.file = "json"
                            THEN [e EXCEPT !.bytes = n] ELSE e : e \in disk}
                /\ Go(p, "launchfailed")
       ELSE Go(p, "undo") /\ UNCHANGED disk
    /\ UNCHANGED <<Machine, retained, faults>>

----------------------------------------------------------------------------
(* The tools, after launch.                                                *)

\* The retained launches of the call's own account.
Account(p) == {e \in disk : /\ e.run \in retained[p] \ {Run(p)}
                            /\ RootOf(e.adapter) = RootOf(Adapter(p))}
WithinQuota(p) == Bytes(Account(p)) + Bytes(Of(Run(p))) <= Quota
Keep(p) == retained' = [retained EXCEPT ![p] = @ \cup {Run(p)}]

\* JavaJfrLaunchFailure with retained evidence.
JavaLaunchFailed(p) ==
    /\ At(p, "launchfailed")
    /\ IF WithinQuota(p) THEN Keep(p) /\ NoFault /\ UNCHANGED disk
       ELSE \/ disk' = disk \ Of(Run(p)) /\ NoFault /\ UNCHANGED retained
            \/ Fault /\ Keep(p) /\ UNCHANGED disk
    /\ EndCall(p) /\ UNCHANGED Machine

\* Fault: the quota is not looked at.
JavaReturnedAlways(p) ==
    /\ At(p, "returned") /\ Adapter(p) = "java"
    /\ Keep(p) /\ Go(p, IF call[p].exit = "success" THEN "convert" ELSE "drop")
    /\ UNCHANGED <<Machine, disk, faults>>

\* A launched Java run is remembered before anything else is done with it.
JavaReturned(p) ==
    /\ At(p, "returned") /\ Adapter(p) = "java"
    /\ IF WithinQuota(p)
       THEN /\ Keep(p) /\ Go(p, IF call[p].exit = "success" THEN "convert" ELSE "drop")
            /\ UNCHANGED <<disk, faults>>
       ELSE Remove(p) /\ EndCall(p) /\ UNCHANGED retained
    /\ UNCHANGED Machine

\* Native and CPython.
StreamReturned(p) ==
    /\ At(p, "returned") /\ Adapter(p) \in {"native", "cpython"}
    /\ Go(p, IF call[p].exit = "success" THEN "convert" ELSE "drop")
    /\ UNCHANGED <<Machine, disk, retained, faults>>

\* Go renders its profile to a raw file of the same root; a failed rendering
\* leaves none.
RenderRaw(p) ==
    /\ At(p, "returned") /\ RootOf(Adapter(p)) = "go"
    /\ \/ call[p].exit # "success" /\ Go(p, "drop") /\ UNCHANGED disk
       \/ /\ call[p].exit = "success" /\ Go(p, "convert")
          /\ disk' = disk \cup {Entry(p, Adapter(p), Run(p), "raw", 1)}
       \/ call[p].exit = "success" /\ Go(p, "failed") /\ UNCHANGED disk
    /\ UNCHANGED <<Machine, retained, faults>>

\* A workload that failed or ran out of time: its evidence is removed.
Drop(p) ==
    /\ At(p, "drop") /\ Remove(p)
    /\ retained' = [retained EXCEPT ![p] = IF disk' = disk THEN @ ELSE @ \ {Run(p)}]
    /\ EndCall(p) /\ UNCHANGED Machine

\* Conversion, replay, analysis and verification.  A run that took longer than
\* it reserved is found out when the native stream is no longer wanted.
Convert(p) ==
    /\ At(p, "convert")
    /\ \/ Go(p, "discard")
       \/ Go(p, "failed")
       \/ Adapter(p) \in {"native", "java"} /\ Go(p, "drop")
    /\ UNCHANGED <<Machine, disk, retained, faults>>

ConvertNative(p) == Adapter(p) = "native" /\ Convert(p)
ConvertCpython(p) == Adapter(p) = "cpython" /\ Convert(p)
ConvertGo(p) == Adapter(p) = "go" /\ Convert(p)
ConvertLoopback(p) == Adapter(p) = "loopback" /\ Convert(p)
ConvertJava(p) == Adapter(p) = "java" /\ Convert(p)

\* _retain_native_runtime_lock_stream: within the quota of this root, and only
\* if the root holds nothing unexpected; otherwise the stream is removed.
RetainNative(p) ==
    /\ At(p, "failed") /\ Adapter(p) = "native"
    /\ LET others == Mine(p, "native") \ Of(Run(p)) IN
       \/ /\ \A e \in others : e.file = "kept"
          /\ Bytes(others) + Bytes(Of(Run(p))) <= Quota
          /\ disk' = (disk \ Of(Run(p))) \cup {[e EXCEPT !.file = "kept"] : e \in Of(Run(p))}
          /\ NoFault
       \/ /\ (\E e \in others : e.file # "kept")
             \/ Bytes(others) + Bytes(Of(Run(p))) > Quota
          /\ Remove(p)
    /\ EndCall(p) /\ UNCHANGED <<Machine, retained>>

\* CPython keeps every stream; Java has already decided.
Retain(p) ==
    /\ At(p, "failed") /\ Keep(p) /\ EndCall(p)
    /\ UNCHANGED <<Machine, disk, faults>>

RetainCpython(p) == Adapter(p) = "cpython" /\ Retain(p)
RetainJava(p) == Adapter(p) = "java" /\ Retain(p)

\* Profiles of both Go tools count against one bound.
RetainGo(p) ==
    /\ At(p, "failed") /\ RootOf(Adapter(p)) = "go"
    /\ IF WithinQuota(p) THEN Keep(p) /\ UNCHANGED <<disk, faults>>
       ELSE Remove(p) /\ UNCHANGED retained
    /\ EndCall(p) /\ UNCHANGED Machine

\* The evidence is removed before anything is published; when that fails the
\* native stream stays where it is and the others are retained.
Discard(p) ==
    /\ At(p, "discard") /\ Remove(p)
    /\ IF disk' = disk
       THEN (IF Adapter(p) = "native" THEN EndCall(p) ELSE Go(p, "failed")) /\ UNCHANGED retained
       ELSE Go(p, "publish") /\ retained' = [retained EXCEPT ![p] = @ \ {Run(p)}]
    /\ UNCHANGED Machine

DiscardNative(p) == Adapter(p) = "native" /\ Discard(p)
DiscardCpython(p) == Adapter(p) = "cpython" /\ Discard(p)
DiscardGo(p) == RootOf(Adapter(p)) = "go" /\ Discard(p)
DiscardJava(p) == Adapter(p) = "java" /\ Discard(p)

Publish(p) ==
    /\ At(p, "publish")
    /\ published' = published \cup {Run(p)} /\ EndCall(p)
    /\ UNCHANGED <<content, owner, disk, roots, lease, up, launcher, retained, used, faults, executed>>

----------------------------------------------------------------------------
(* The end of a process.                                                   *)

\* server_lifespan: the quarantined native streams, up to the first unexpected
\* name, and the retained Go files are removed, then every root that is empty;
\* with the lease, the empty Java roots of every process.
Shutdown(p) ==
    /\ At(p, "idle")
    /\ LET native == Mine(p, "native")
           kept == {e \in native : e.file = "kept"}
           go == {e \in Mine(p, "go") : e.run \in retained[p]}
       IN \E cleaned \in SUBSET kept :
            /\ kept = native => cleaned = kept
            /\ disk' = disk \ (cleaned \cup go)
    /\ roots' = {x \in roots :
                   \/ \E e \in disk' : <<e.proc, RootOf(e.adapter)>> = x
                   \/ x[1] # p /\ ~(x[2] = "java" /\ lease = p /\ "java" \in launcher[p])}
    /\ lease' = IF lease = p THEN 0 ELSE lease
    /\ up' = [up EXCEPT ![p] = "down"]
    /\ UNCHANGED <<content, owner, launcher, retained, call, used, faults, executed, published>>

\* The kernel releases the lock of a process that died.
Crash(p) ==
    /\ up[p] = "up" /\ up' = [up EXCEPT ![p] = "crashed"]
    /\ lease' = IF lease = p THEN 0 ELSE lease
    /\ EndCall(p)
    /\ UNCHANGED <<content, owner, disk, roots, launcher, retained, used, faults, executed, published>>

Preparing(p) ==
    \/ GetNativeLauncher(p) \/ GetCpythonLauncher(p) \/ GetGoLauncher(p)
    \/ AcquireLease(p) \/ Inventory(p)
    \/ InspectNativeTarget(p) \/ InspectCpythonTarget(p) \/ InspectGoTarget(p)
    \/ InspectExecutableJar(p) \/ InspectLoopbackTarget(p)
    \/ NativeSnapshot(p) \/ CpythonSnapshot(p) \/ GoSnapshot(p) \/ JarSnapshot(p)
    \/ CreatePrivate(p) \/ CreateFails(p)
Launching(p) ==
    \/ ExecuteNative(p) \/ ExecuteCpython(p) \/ ExecuteGo(p) \/ ExecuteJava(p)
    \/ FetchLoopback(p) \/ RecheckTarget(p) \/ RenderJson(p)
    \/ UndoNative(p) \/ UndoCpython(p) \/ UndoGo(p) \/ UndoJava(p)
Settling(p) ==
    \/ JavaLaunchFailed(p) \/ JavaReturned(p) \/ StreamReturned(p) \/ RenderRaw(p) \/ Drop(p)
    \/ ConvertNative(p) \/ ConvertCpython(p) \/ ConvertGo(p) \/ ConvertLoopback(p)
    \/ ConvertJava(p)
    \/ RetainNative(p) \/ RetainCpython(p) \/ RetainGo(p) \/ RetainJava(p)
    \/ DiscardNative(p) \/ DiscardCpython(p) \/ DiscardGo(p) \/ DiscardJava(p)
    \/ Publish(p)

Next ==
    \/ EditTarget \/ TargetReplaced
    \/ \E p \in Procs :
        \/ StartProcess(p) \/ Preparing(p) \/ Launching(p) \/ Settling(p)
        \/ (\E a \in Adapters, r \in Runs : Collect(p, a, r))
        \/ Shutdown(p) \/ Crash(p)
    \/ (\A p \in Procs : up[p] \in {"down", "crashed"}) /\ UNCHANGED vars

Spec == Init /\ [][Next]_vars

----------------------------------------------------------------------------
\* Only the authorized content is ever executed and only the authorized process
\* is ever profiled, though the project file may change and the process may be
\* replaced between any two steps of the call.
ExecutesAuthorized == executed \subseteq {"authorized"}

InCall == {Run(p) : p \in {q \in Procs : up[q] = "up"}}
Remembered == UNION {retained[p] : p \in {q \in Procs : up[q] = "up"}}
Lost(p) == {e.run : e \in {x \in disk : x.proc = p /\ x.file # "kept"}}
           \ (InCall \cup Remembered)

\* While a process runs, every private file under its roots belongs to its call,
\* is quarantined or is remembered; each launch of which that is not true has
\* had a file operation of its own fail.
LeakNeedsFault ==
    Cardinality(UNION {Lost(p) : p \in {q \in Procs : up[q] = "up"}}) <= faults

\* Without failing file operations no adapter but CPython retains more than its
\* quota, and Java stays within it over all the processes that ever ran.
QuotaHeld ==
    \A p \in Procs : (up[p] = "up" /\ faults = 0) =>
        /\ Bytes({e \in Mine(p, "native") : e.file = "kept"}) <= Quota
        /\ Bytes({e \in Mine(p, "go") : e.run \in retained[p]}) <= Quota
        /\ (lease = p /\ "java" \in launcher[p]) =>
              Bytes({e \in disk : e.adapter = "java" /\ e.run # Run(p)}) <= Quota

\* The process that may launch Java workloads remembers every recording that
\* another process, ended or dead, left behind.
JavaRecovered ==
    \A p \in Procs : (up[p] = "up" /\ "java" \in launcher[p]) =>
        \A e \in disk : e.adapter = "java" /\ e.file = "recording" /\ e.proc # p
            => e.run \in retained[p]

\* No private file is forgotten without a fault, neither by the process that made
\* it nor, for Java, by the one that comes after it.
FilesRemembered == JavaRecovered /\ LeakNeedsFault
=============================================================================
