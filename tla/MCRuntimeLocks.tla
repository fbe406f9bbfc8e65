--------------------------- MODULE MCRuntimeLocks ----------------------------
(***************************************************************************)
(* What becomes of a Runtime Lock run: the settlement of the run in the    *)
(* store (RuntimeLockCollection), the private evidence of the launchers and*)
(* the pthread probe with its converter.  Each module models the others as *)
(* far as it meets them, so a behaviour runs one of them.                  *)
(***************************************************************************)
EXTENDS RuntimeLockCollection

CONSTANTS
    Procs, Runs, Quota, MaxFaults, Threads, Limits, Slots, MaxCalls

VARIABLE
    part   \* the component that runs; the others stay in their initial states

VARIABLES
    e_content, e_owner, e_disk, e_roots, e_lease, e_up, e_launcher,
    e_retained, e_call, e_used, e_faults, e_executed, e_published

e_vars == <<
    e_content, e_owner, e_disk, e_roots, e_lease, e_up, e_launcher,
    e_retained, e_call, e_used, e_faults, e_executed, e_published>>

E == INSTANCE PrivateEvidence WITH
    content <- e_content, owner <- e_owner, disk <- e_disk,
    roots <- e_roots, lease <- e_lease, up <- e_up, launcher <- e_launcher,
    retained <- e_retained, call <- e_call, used <- e_used,
    faults <- e_faults, executed <- e_executed, published <- e_published

VARIABLES
    p_config, p_probe, p_stream, p_th, p_held, p_truth, p_failed, p_child,
    p_calls

p_vars == <<
    p_config, p_probe, p_stream, p_th, p_held, p_truth, p_failed, p_child,
    p_calls>>

P == INSTANCE PthreadProbe WITH
    config <- p_config, probe <- p_probe, stream <- p_stream, th <- p_th,
    held <- p_held, truth <- p_truth, failed <- p_failed, child <- p_child,
    calls <- p_calls

ASSUME SettlementAssumption == Parameters

\* No process and no run is called 0, which stands for a lease nobody holds and
\* for a call that has no run.
ASSUME EvidenceAssumption == 0 \notin Procs /\ 0 \notin Runs /\ Quota \in Nat

all == <<part, vars, e_vars, p_vars>>

AllInit ==
    /\ part \in {"settlement", "evidence", "probe"}
    /\ Init
    /\ E!Init
    /\ P!Init
    /\ part # "probe" =>
          ~p_config.exact /\ p_config.kind = "mutex" /\ p_config.slots = 1

AllNext ==
    \/ part = "settlement" /\ Next
       /\ UNCHANGED <<part, e_vars, p_vars>>
    \/ part = "evidence" /\ E!Next
       /\ UNCHANGED <<part, vars, p_vars>>
    \/ part = "probe" /\ P!Next
       /\ UNCHANGED <<part, vars, e_vars>>

AllSpec == AllInit /\ [][AllNext]_all

AllSymmetry == P!Symmetry

-----------------------------------------------------------------------------
\* Only the authorized content is executed and only the authorized process is
\* profiled (runtime_locks/native_launcher.py and its siblings).
ExecutesAuthorized == E!ExecutesAuthorized

\* Without failing file operations no adapter but CPython retains more private
\* evidence than its quota, and Java stays within it over all processes; no
\* private file of a launcher is forgotten without a fault, neither by the
\* process that made it nor, for Java, by the one that comes after it.
FilesAccounted == E!QuotaHeld /\ E!FilesRemembered

\* What the probe footers is what the converter accepts, and no hold of a lock is
\* left out of it (native/pthread_probe/perflens_pthread_probe.c and
\* runtime_locks/native_pthread_converter.py).
ProbeHonest == P!FooteredConverts /\ P!HoldsAccounted

\* A forked child of a probed process writes nothing into its stream, however the
\* copy was taken (perflens_pthread_probe.c).
ChildSilent == P!ChildSilent
=============================================================================
