------------------------ MODULE RuntimeLockCollection -----------------------
(***************************************************************************)
(* One Runtime Lock session from authorization to its end, as the MCP      *)
(* tools drive it: the authority's revisions in memory, the Artifacts the  *)
(* tools publish, and what the Artifact store accepts when it loads them   *)
(* again.  The tools are in src/perflens/mcp/server.py, the store in       *)
(* mcp/storage.py, publication in artifacts/filesystem.py.                 *)
(*                                                                         *)
(* A tool never awaits, so calls are serial; time passes, saves fail and   *)
(* the process or the machine dies between any two steps of a call.        *)
(* A revision is identified by its number, the Artifacts of a run by its   *)
(* operation.                                                              *)
(***************************************************************************)
EXTENDS Integers, FiniteSets

CONSTANTS
    Operations,    \* operation identities clients may ask for
    MaxRuns,       \* budget max_workload_runs
    HardExpiry,    \* budget hard_expiry_seconds
    LeaseTime,  \* reserved seconds with the grace
    Ticks,         \* clock ticks per second
    WallSteps,     \* instants the wall clock may be set to
    MaxTime        \* bound: the last instant of either clock

Parameters ==
    /\ {MaxRuns, HardExpiry, LeaseTime, Ticks} \subseteq Nat \ {0}
    /\ MaxTime \in Nat /\ WallSteps \subseteq Nat
    /\ "none" \notin Operations

VARIABLES
    wall, mono,  \* the clocks
    rev,         \* number of the session's current revision
    session,     \* session[r]: content of revision r
    held,        \* whether the authority holds the session
    expires,     \* its hard expiry on both clocks
    lease,       \* the active lease
    used,        \* consumed operation identities
    run,         \* run[o]: content of the Run Artifact of operation o
    marker,      \* marker[o]: content of its finalization marker
    linked,      \* Artifacts that have a name in the store
    synced,      \* those whose name survives a loss of power
    pc, op,      \* the step the current call is at, and its operation
    returned     \* history: operations whose Run was returned to the client

vars == <<wall, mono, rev, session, held, expires, lease, used, run, marker,
          linked, synced, pc, op, returned>>

\* A call makes at most two revisions.
MaxRev == 2 * MaxRuns + 2
Ended == {"revoked", "expired", "exhausted", "failed"}

\* `settles` is the operation whose settlement made the revision.
Session == [st : {"none", "active"} \cup Ended, runs : Nat, updated : Nat,
            settles : Operations \cup {"none"}]
NoSession == [st |-> "none", runs |-> 0, updated |-> 0, settles |-> "none"]

Instants == [wall : Nat, mono : Nat]
Lease == [st : {"none", "leased"}, rev : Nat, start : Nat, wall : Nat, mono : Nat]
NoLease == [st |-> "none", rev |-> 0, start |-> 0, wall |-> 0, mono |-> 0]

Run == [base : Nat, started : Nat, created : Nat]
NoRun == [base |-> 0, started |-> 0, created |-> 0]

Marker == [outcome : {"none", "completed", "failed"}, final : Nat]
NoMarker == [outcome |-> "none", final |-> 0]

\* Names in the store.
File(kind, o, r) == [kind |-> kind, op |-> o, rev |-> r]
SessionFile(r) == File("session", "none", r)
Evidence == {"evidence", "analysis", "verification"}
Files == [kind : {"session", "run", "marker"} \cup Evidence,
          op : Operations \cup {"none"}, rev : Nat]

\* The steps of a call, in the order of the collect tools; "authorized" and
\* "terminal" are the saves of the authorize and revoke tools.
Steps == {"idle", "authorized", "terminal", "reserved", "launch", "running",
          "evidence", "analysis", "verification", "run", "finish", "settled",
          "marker", "down"}
Saving == {"authorized", "terminal", "reserved", "evidence", "analysis",
           "verification", "run", "settled", "marker"}

Init ==
    /\ wall = 1 /\ mono = 1
    /\ rev = 0
    /\ session = [r \in 0..MaxRev |-> NoSession]
    /\ held = "no"
    /\ expires = [wall |-> 0, mono |-> 0]
    /\ lease = NoLease
    /\ used = {}
    /\ run = [o \in Operations |-> NoRun]
    /\ marker = [o \in Operations |-> NoMarker]
    /\ linked = {} /\ synced = {}
    /\ pc = "idle" /\ op = "none"
    /\ returned = {}

----------------------------------------------------------------------------
(* Loading, as storage.py checks it.                                       *)

\* _validate_runtime_lock_settlement_transition from revision k - 1 to k.
SettlementValid(files, k) ==
    LET o == session[k].settles
    IN  /\ File("marker", o, 0) \in files
        /\ marker[o].final = k
        /\ session[k].runs = session[k - 1].runs
        /\ IF marker[o].outcome = "failed"
           THEN session[k].st \in {"failed", "exhausted"}
           ELSE /\ session[k].st = "active"
                /\ File("run", o, 0) \in files
                /\ run[o].base = k - 1
                /\ session[k].updated >= run[o].created

\* A revision that settles nothing charges one run or changes no account.
ChargeValid(k) ==
    \/ session[k].runs = session[k - 1].runs + 1 /\ session[k].st = "active"
    \/ session[k].runs = session[k - 1].runs

\* _load_runtime_lock_session_chain: every predecessor down to revision 0.
ChainLoads(files, r) ==
    \A k \in 0..r :
        /\ SessionFile(k) \in files
        /\ k = 0 => session[k].st = "active" /\ session[k].runs = 0
        /\ k > 0 =>
             /\ session[k - 1].st = "active"
             /\ session[k - 1].updated <= session[k].updated
             /\ IF session[k].settles = "none" THEN ChargeValid(k)
                ELSE SettlementValid(files, k)

\* Fault: the outcome of the marker is not looked at.
RunLoadsAnyOutcome(files, o) ==
    LET b == run[o].base
    IN  /\ File("run", o, 0) \in files
        /\ ChainLoads(files, b)
        /\ \A kind \in Evidence : File(kind, o, 0) \in files
        /\ File("marker", o, 0) \in files
        /\ ChainLoads(files, marker[o].final)

\* load_runtime_lock_run
RunLoads(files, o) ==
    LET b == run[o].base
    IN  /\ File("run", o, 0) \in files
        /\ ChainLoads(files, b)
        /\ \A kind \in Evidence : File(kind, o, 0) \in files
        /\ File("marker", o, 0) \in files
        /\ ChainLoads(files, marker[o].final)
        /\ session[marker[o].final].settles = o
        /\ marker[o].outcome = "completed"
        /\ session[b].st = "active"
        /\ run[o].started >= session[b].updated
        /\ run[o].created <= expires.wall

----------------------------------------------------------------------------
(* The authority.                                                          *)

Active == held = "held" /\ session[rev].st = "active"

SessionExpired == wall >= expires.wall \/ mono >= expires.mono
LeaseExpired ==
    lease.st = "leased" /\ (wall >= lease.wall \/ mono >= lease.mono)
Lapsed == session[rev].st = "active" /\ (SessionExpired \/ LeaseExpired)

\* _update_session: a revision is never older than its predecessor.
Revision(r, st, runs, o) ==
    [st |-> st, runs |-> runs, settles |-> o,
     updated |-> IF wall > session[r].updated THEN wall ELSE session[r].updated]

\* _end and _release_active_lease.
End(st) ==
    /\ session' = [session EXCEPT ![rev + 1] =
                      Revision(rev, st, session[rev].runs, "none")]
    /\ rev' = rev + 1
    /\ lease' = NoLease

KeepClocks == UNCHANGED <<wall, mono>>
KeepStore == UNCHANGED <<linked, synced>>
KeepAuthority == UNCHANGED <<rev, session, held, lease>>
KeepRuns == UNCHANGED <<expires, used, run, marker, returned>>

Tick ==
    /\ wall < MaxTime /\ mono < MaxTime
    /\ wall' = wall + 1 /\ mono' = mono + 1
    /\ KeepStore /\ KeepAuthority /\ KeepRuns /\ UNCHANGED <<pc, op>>

SetWall(t) ==
    /\ wall' = t
    /\ KeepStore /\ KeepAuthority /\ KeepRuns /\ UNCHANGED <<mono, pc, op>>

\* authorize_runtime_lock_session
Authorize ==
    /\ pc = "idle" /\ held = "no" /\ session[0].st = "none"
    /\ session' = [session EXCEPT ![0] =
          [st |-> "active", runs |-> 0, updated |-> wall, settles |-> "none"]]
    /\ held' = "held"
    /\ expires' = [wall |-> wall + HardExpiry * Ticks, mono |-> mono + HardExpiry * Ticks]
    /\ pc' = "authorized"
    /\ KeepClocks /\ KeepStore
    /\ UNCHANGED <<rev, lease, used, run, marker, op, returned>>

\* revoke_runtime_lock_session, the rejection of a request before its run, and
\* close: the session gets its terminal revision, is forgotten and saved.
Revoke ==
    /\ pc = "idle" /\ held # "no"
    /\ IF session[rev].st # "active" THEN UNCHANGED <<rev, session, lease>>
       ELSE End(IF SessionExpired THEN "expired" ELSE "revoked")
    /\ held' = "no"
    /\ pc' = "terminal"
    /\ KeepClocks /\ KeepStore /\ KeepRuns /\ UNCHANGED op

\* _prune_sessions and _prune of another call: an expired session is dropped
\* and its terminal revision never saved.
PruneExpired ==
    /\ pc = "idle" /\ held # "no"
    /\ IF Lapsed THEN End("expired")
       ELSE session[rev].st \in Ended /\ UNCHANGED <<rev, session, lease>>
    /\ held' = "no"
    /\ KeepClocks /\ KeepStore /\ KeepRuns /\ UNCHANGED <<pc, op>>

----------------------------------------------------------------------------
(* A collect call.                                                         *)

\* Whole seconds of the lease, at most those left of the session.
Seconds ==
    LET left == (expires.wall - wall) \div Ticks
    IN  IF LeaseTime < left THEN LeaseTime ELSE left

\* The checks of begin_run that this module needs.
Collectable(o) ==
    /\ pc = "idle" /\ Active /\ ~ SessionExpired
    /\ o \notin used
    /\ session[rev].runs < MaxRuns

\* snapshot, the checks of the call and begin_run.
BeginRun(o) ==
    /\ Collectable(o) /\ Seconds > 0
    /\ session' = [session EXCEPT ![rev + 1] =
                      Revision(rev, "active", session[rev].runs + 1, "none")]
    /\ rev' = rev + 1
    /\ lease' = [st |-> "leased", rev |-> rev + 1, start |-> wall,
                 wall |-> wall + Seconds * Ticks, mono |-> mono + Seconds * Ticks]
    /\ used' = used \cup {o}
    /\ pc' = "reserved" /\ op' = o
    /\ KeepClocks /\ KeepStore /\ UNCHANGED <<held, expires, run, marker, returned>>

\* begin_run finds no whole second left: the charged revision and the expired
\* one follow each other, and the rejected call saves only the second.
BeginTooLate(o) ==
    /\ Collectable(o) /\ Seconds <= 0
    /\ LET charged == Revision(rev, "active", session[rev].runs + 1, "none")
       IN  session' = [[session EXCEPT ![rev + 1] = charged] EXCEPT ![rev + 2] =
                          [charged EXCEPT !.st = "expired"]]
    /\ rev' = rev + 2
    /\ used' = used \cup {o}
    /\ held' = "no"
    /\ pc' = "terminal"
    /\ KeepClocks /\ KeepStore /\ UNCHANGED <<lease, expires, run, marker, op, returned>>

\* The launcher starts the workload.
Launch ==
    /\ pc = "launch"
    /\ run' = [run EXCEPT ![op] = [base |-> lease.rev, started |-> wall, created |-> 0]]
    /\ pc' = "running"
    /\ KeepClocks /\ KeepStore /\ KeepAuthority
    /\ UNCHANGED <<expires, used, marker, op, returned>>

\* The workload ends, its evidence converts, replays and verifies.
WorkloadEnds ==
    /\ pc = "running"
    /\ run' = [run EXCEPT ![op].created = wall]
    /\ pc' = "evidence"
    /\ KeepClocks /\ KeepStore /\ KeepAuthority
    /\ UNCHANGED <<expires, used, marker, op, returned>>

\* _run_matches_lease, as far as it concerns time.
RunMatchesLease ==
    /\ lease.start <= run[op].started
    /\ run[op].started <= run[op].created
    /\ run[op].created <= lease.wall

\* The settlement of fail_run and finish_run; the latter is never dated before
\* its Run.
Settle(outcome, st) ==
    /\ session' = [session EXCEPT ![rev + 1] =
          [Revision(rev, st, session[rev].runs, op) EXCEPT !.updated =
              IF outcome = "failed" \/ @ >= run[op].created THEN @ ELSE run[op].created]]
    /\ rev' = rev + 1
    /\ marker' = [marker EXCEPT ![op] = [outcome |-> outcome, final |-> rev + 1]]
    /\ lease' = NoLease
    /\ pc' = "settled"

\* finish_run
FinishRun ==
    /\ pc = "finish" /\ Active /\ ~ Lapsed
    /\ RunMatchesLease
    /\ Settle("completed", "active")
    /\ KeepClocks /\ KeepStore /\ UNCHANGED <<held, expires, used, run, op, returned>>

\* finish_run refuses the Run: it differs from its lease, exceeds it, or the
\* lease has expired.  The fail_run that follows meets an ended session.
FinishRefused ==
    /\ pc = "finish"
    /\ End(IF Lapsed THEN "expired" ELSE "failed")
    /\ pc' = "idle"
    /\ KeepClocks /\ KeepStore /\ KeepRuns /\ UNCHANGED <<held, op>>

\* What the handler of a failed call does while the run is unfinished.
FailRun ==
    \/ /\ ~ Lapsed
       /\ Settle("failed", "failed")
       /\ UNCHANGED <<expires, used, run, returned>>
    \/ /\ Lapsed
       /\ End("expired")
       /\ pc' = "idle"
       /\ KeepRuns

\* The workload cannot be started, runs too long or fails, or its evidence is
\* refused.
WorkloadFails ==
    /\ pc \in {"launch", "running"}
    /\ FailRun
    /\ KeepClocks /\ KeepStore /\ UNCHANGED <<held, op>>

----------------------------------------------------------------------------
(* Publication.                                                            *)

\* The Artifact a saving step publishes.
Target ==
    CASE pc \in {"authorized", "terminal", "reserved", "settled"} -> SessionFile(rev)
      [] OTHER -> File(pc, op, 0)

\* The step after a successful save.
NextStep ==
    CASE pc = "reserved" -> "launch"
      [] pc = "evidence" -> "analysis"
      [] pc = "analysis" -> "verification"
      [] pc = "verification" -> "run"
      [] pc = "run" -> "finish"
      [] pc = "settled" -> "marker"
      [] OTHER -> "idle"

\* Fault: the directory is not synced after the link.
SaveUnsynced ==
    /\ pc \in Saving
    /\ linked' = linked \cup {Target}
    /\ pc' = NextStep
    /\ returned' = IF pc = "marker" /\ marker[op].outcome = "completed"
                   THEN returned \cup {op} ELSE returned
    /\ KeepClocks /\ KeepAuthority /\ UNCHANGED <<synced, expires, used, run, marker, op>>

\* save: link, then sync the directory, which makes every earlier name durable
\* too.  After the marker the collect tool returns its Run.
Save ==
    /\ pc \in Saving
    /\ linked' = linked \cup {Target}
    /\ synced' = linked'
    /\ pc' = NextStep
    /\ returned' = IF pc = "marker" /\ marker[op].outcome = "completed"
                   THEN returned \cup {op} ELSE returned
    /\ KeepClocks /\ KeepAuthority /\ UNCHANGED <<expires, used, run, marker, op>>

\* Fault: the session stays usable after an unpublished settlement.
SaveFailedKeepsSession ==
    CASE pc \in {"reserved", "evidence", "analysis", "verification", "run"} ->
            FailRun /\ UNCHANGED held
      [] pc = "authorized" ->
            held' = "unknown" /\ pc' = "idle" /\ UNCHANGED <<rev, session, lease>> /\ KeepRuns
      [] OTHER ->
            UNCHANGED held /\ pc' = "idle" /\ UNCHANGED <<rev, session, lease>> /\ KeepRuns

\* What a call does after a failed save: before the settlement it fails the
\* run; a settlement that is not published destroys the authorization; the
\* client never learns the identity of a session that was not saved.
SaveFailed ==
    CASE pc \in {"reserved", "evidence", "analysis", "verification", "run"} ->
            FailRun /\ UNCHANGED held
      [] pc = "authorized" ->
            held' = "unknown" /\ pc' = "idle" /\ UNCHANGED <<rev, session, lease>> /\ KeepRuns
      [] OTHER ->
            held' = "no" /\ pc' = "idle" /\ UNCHANGED <<rev, session, lease>> /\ KeepRuns

\* save raises; the name may have been linked before the error.
SaveRaises ==
    /\ pc \in Saving
    /\ linked' \in {linked, linked \cup {Target}}
    /\ SaveFailed
    /\ KeepClocks /\ UNCHANGED <<synced, op>>

\* The server process dies; what was linked stays.
Crash ==
    /\ pc # "down"
    /\ linked' \in {linked} \cup (IF pc \in Saving THEN {linked \cup {Target}} ELSE {})
    /\ pc' = "down" /\ held' = "no"
    /\ KeepClocks /\ KeepRuns /\ UNCHANGED <<rev, session, lease, synced, op>>

\* The machine loses power: of the names that were not synced any may be gone.
PowerLoss ==
    /\ \E lost \in SUBSET (linked \ synced) : linked' = linked \ lost
    /\ synced' = linked'
    /\ pc' = "down" /\ held' = "no"
    /\ KeepClocks /\ KeepRuns /\ UNCHANGED <<rev, session, lease, op>>

----------------------------------------------------------------------------
Next ==
    \/ Tick
    \/ \E t \in WallSteps : SetWall(t)
    \/ Authorize \/ Revoke \/ PruneExpired
    \/ \E o \in Operations : BeginRun(o) \/ BeginTooLate(o)
    \/ Launch \/ WorkloadEnds \/ WorkloadFails
    \/ FinishRun \/ FinishRefused
    \/ Save \/ SaveRaises
    \/ Crash \/ PowerLoss

Spec == Init /\ [][Next]_vars

----------------------------------------------------------------------------
(* Properties.                                                             *)

TypeOK ==
    /\ wall \in Nat /\ mono \in Nat
    /\ rev \in 0..MaxRev
    /\ session \in [0..MaxRev -> Session]
    /\ held \in {"no", "held", "unknown"}
    /\ expires \in Instants
    /\ lease \in Lease
    /\ used \in SUBSET Operations
    /\ run \in [Operations -> Run]
    /\ marker \in [Operations -> Marker]
    /\ synced \in SUBSET linked /\ linked \in SUBSET Files
    /\ pc \in Steps /\ op \in Operations \cup {"none"}
    /\ returned \in SUBSET Operations

\* A Run that a collect tool returned can be loaded ever after: through later
\* revisions of its session, failed saves, a crash and a loss of power.
ReturnedRunLoads == \A o \in returned : RunLoads(linked, o)

\* The comment of _persist_runtime_lock_settlement: no workload is launched
\* unless the whole chain of revisions that authorizes it is durable and loads.
LaunchOnDurableChain == pc = "running" => ChainLoads(synced, rev)

\* A run that was settled as failed never loads as a Run, even if its Run
\* Artifact had been published before the failure.
FailedNeverLoads ==
    \A o \in Operations : marker[o].outcome = "failed" => ~ RunLoads(linked, o)

\* The store's part of a settlement: what authorizes a workload is durable before
\* it starts, and its Run loads exactly if it did not fail, whenever a save, the
\* process or the power failed.
SettlementSound == ReturnedRunLoads /\ LaunchOnDurableChain /\ FailedNeverLoads
=============================================================================
