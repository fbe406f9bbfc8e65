-------------------------- MODULE DockerOptimization ------------------------
(***************************************************************************)
(* Docker optimization sessions: the authority with its budgets and leases *)
(* (src/perflens/docker/optimization_session.py), the runtime that owns    *)
(* private directories, temporary images and a clean-up timer              *)
(* (docker/optimization_runtime.py), and the MCP tools that build, collect *)
(* and settle in a session (mcp/server.py).                                *)
(*                                                                         *)
(* Two threads: the event loop, which runs one tool call at a time, and    *)
(* the clean-up timer.  A region under the runtime's lock is one step; the *)
(* build, the collection and every save are steps outside of it.  Time and *)
(* evidence bytes of a workload are checked alike: one amount stands for   *)
(* both.  Docker removes the images it is told to remove.                  *)
(***************************************************************************)
EXTENDS Integers, FiniteSets

CONSTANTS
    Previews,           \* preview and session identifiers
    Manifests,          \* contents of the workspace, of its mutable part and of the rest
    MaxPending,         \* _MAX_PENDING_PREVIEWS
    MaxActive,          \* _MAX_ACTIVE_SESSIONS
    PreviewSeconds,     \* _PREVIEW_EXPIRY_SECONDS
    HardExpiry,         \* budget.hard_expiry_seconds
    Grace,              \* _LEASE_GRACE_SECONDS
    MaxRounds,          \* budget.max_candidate_rounds
    MaxBuilds,          \* budget.max_builds
    MaxRetries,         \* budget.max_recoverable_retries
    BuildSeconds,       \* budget.max_build_seconds
    TotalBuildSeconds,  \* budget.max_total_build_seconds
    MaxImages,          \* budget.max_temporary_image_bytes, in images
    MaxRuns,            \* budget.max_workload_runs
    ActiveAmount,       \* budget.max_workload_active_seconds
    LockRuns,           \* runtime_lock_scope.budget.max_workload_runs
    LockAmount,         \* runtime_lock_scope.budget.max_active_seconds
    MaxTime             \* bound on the clock

\* The budget relations of DockerOptimizationBudget.
BudgetRelations ==
    /\ \A n \in {MaxPending, MaxActive, PreviewSeconds, HardExpiry, MaxRounds, MaxRuns,
                 BuildSeconds, ActiveAmount, MaxImages, LockRuns, LockAmount} : n \in Nat \ {0}
    /\ Grace \in Nat /\ MaxTime \in Nat /\ MaxRetries \in {0, 1}
    /\ MaxBuilds \in Nat /\ MaxBuilds >= MaxRounds + 1
    /\ TotalBuildSeconds \in Nat /\ TotalBuildSeconds >= BuildSeconds
    /\ HardExpiry >= TotalBuildSeconds /\ HardExpiry >= ActiveAmount
ASSUME BudgetAssumption == BudgetRelations

VARIABLES
    now,        \* the clock
    tree,       \* the workspace: the mutable manifest and the immutable one
    auth,       \* the authority's session of a preview
    own,        \* what the runtime keeps for a preview: entry, session, directory, builds
    images,     \* Docker: the rounds whose temporary image exists
    store,      \* published session revisions and Runtime Lock runs
    call,       \* the tool call of the event loop
    timer,      \* the clean-up timer
    closed,     \* the runtime is closed
    spent,      \* history: what ended builds and workloads took, at most their reservations
    failed      \* history: a collection of the session has failed

vars == <<now, tree, auth, own, images, store, call, timer, closed, spent, failed>>

Rounds == 0 .. MaxRounds      \* round 0 is the baseline; a Build is named by its round
NoBuild == -1
NoLease == [kind |-> "none", round |-> 0, reserved |-> 0, expires |-> 0]
NoRevision == [state |-> "none", lock |-> "active", lockRuns |-> 0]
Idle == [pc |-> "idle", p |-> "none", round |-> 0, began |-> 0, amount |-> 0,
         lock |-> "no", manifest |-> "none", revision |-> NoRevision]

\* A session as the authority first knows it.
NewSession(t) ==
    [state |-> "active", expires |-> t + HardExpiry, lease |-> NoLease,
     attempts |-> [r \in Rounds |-> 0],
     builds |-> 0, rounds |-> 0, retries |-> 0, seconds |-> 0, images |-> 0,
     baseline |-> NoBuild, candidate |-> NoBuild,
     runs |-> 0, amount |-> 0, done |-> [n \in 1 .. MaxRuns |-> "none"],
     lock |-> "active", lockRuns |-> 0, lockAmount |-> 0]

NoSession == [NewSession(0) EXCEPT !.state = "none"]
NothingOwned == [entry |-> "none", expires |-> 0, session |-> "none", dir |-> "none",
                 builds |-> {}, made |-> [r \in Rounds |-> "none"],
                 latest |-> "none", rest |-> "none",
                 blocked |-> "no", released |-> "no"]

Init ==
    /\ now = 0
    /\ tree \in [mutable : Manifests, rest : Manifests]
    /\ auth = [p \in Previews |-> NoSession]
    /\ own = [p \in Previews |-> NothingOwned]
    /\ images = [p \in Previews |-> {}]
    /\ store = [p \in Previews |-> [revisions |-> {}, runs |-> {}]]
    /\ call = Idle
    /\ timer = "none" /\ closed = "no"
    /\ spent = [p \in Previews |-> [build |-> 0, work |-> 0]]
    /\ failed = [p \in Previews |-> "no"]

----------------------------------------------------------------------------
(* The authority.                                                          *)

\* Fault: the lease of an ended session is kept.
EndKeepsLease(a, s) == [a EXCEPT !.state = s]

\* _end and _expire: the reservation of a lost lease stays charged.
End(a, s) == [a EXCEPT !.state = s, !.lease = NoLease]

Lapsed(a) == a.lease # NoLease /\ now >= a.lease.expires

\* _require: expiry is noticed, and written down, when the session is looked at.
Seen(a) == IF a.state = "active" /\ (now >= a.expires \/ Lapsed(a))
           THEN End(a, "expired") ELSE a

\* _require raises for a lapsed lease whatever the caller allows.
Raises(a) == a.state = "active" /\ now < a.expires /\ Lapsed(a)

Usable(a) == Seen(a).state = "active"

\* _new_lease: never beyond the session.
Lease(a, kind, round, amount) ==
    [kind |-> kind, round |-> round, reserved |-> amount,
     expires |-> now + (IF amount + Grace < a.expires - now THEN amount + Grace
                        ELSE a.expires - now)]

\* Less than a second is left: the charge is made and the session expires.
NoTimeLeft(a) == a.expires - now = 1

Revision(a) == [state |-> a.state, lock |-> a.lock, lockRuns |-> a.lockRuns]

----------------------------------------------------------------------------
(* The runtime's clean-up.                                                 *)

\* _release_runtime_session_locked: the images of the builds it knows, the
\* directory and the entry, once.
Released(o) == IF o.released = "yes" THEN o
               ELSE [o EXCEPT !.released = "yes", !.dir = "removed", !.entry = "gone"]
KeptImages(p) == IF own[p].released = "yes" THEN images[p] ELSE images[p] \ own[p].builds

\* Fault: the timer is set for previews only.
SchedulePreviews(a, o) == IF \E p \in Previews : o[p].entry = "open" THEN "armed" ELSE "none"

\* _schedule_cleanup_locked, over the states after the step.
Schedule(a, o) ==
    IF \E p \in Previews : o[p].entry = "open"
                           \/ (o[p].session = "known" /\ a[p].state = "active")
    THEN "armed" ELSE "none"

Discarded(o) == o.entry = "open" /\ now >= o.expires

Known == {p \in Previews : own[p].session = "known"}

\* _prune_pending_locked followed by _prune_sessions_locked.
PrunedAuth == [p \in Previews |-> IF p \in Known THEN Seen(auth[p]) ELSE auth[p]]
PrunedOwn ==
    [p \in Previews |->
        IF Discarded(own[p]) THEN [own[p] EXCEPT !.entry = "gone", !.dir = "removed"]
        ELSE IF p \in Known /\ ~Usable(auth[p])
        THEN [Released(own[p]) EXCEPT !.session = "dropped"]
        ELSE own[p]]
PrunedImages == [p \in Previews |-> IF p \in Known /\ ~Usable(auth[p]) THEN KeptImages(p)
                                    ELSE images[p]]

\* The prune raises at a session whose lease has lapsed: sessions in front of
\* it have been looked at, nothing is released.
PruneRaises(p) ==
    /\ p \in Known /\ Raises(auth[p])
    /\ \E V \in SUBSET (Known \ {p}) :
          auth' = [q \in Previews |-> IF q \in V \cup {p} THEN Seen(auth[q]) ELSE auth[q]]
    /\ own' = [q \in Previews |-> IF Discarded(own[q])
                                  THEN [own[q] EXCEPT !.entry = "gone", !.dir = "removed"]
                                  ELSE own[q]]
    /\ UNCHANGED images

NobodyRaises == \A p \in Known : ~Raises(auth[p])

----------------------------------------------------------------------------
(* Preview, authorization, revocation, closing and the timer.              *)

Ready == call.pc = "idle" /\ closed = "no"
Bookkeeping == UNCHANGED <<store, call, closed, spent, failed>>

Tick ==
    /\ now < MaxTime
    /\ now' = now + 1
    /\ UNCHANGED <<tree, auth, own, images, store, call, timer, closed, spent, failed>>

\* Somebody edits the workspace.  It is read when a call begins, so an edit
\* during a call is one after it.
Edit ==
    /\ Ready
    /\ tree' \in [mutable : Manifests, rest : Manifests]
    /\ tree' # tree
    /\ UNCHANGED <<now, auth, own, images, store, call, timer, closed, spent, failed>>

Preview(p) ==
    /\ Ready /\ own[p].entry = "none" /\ NobodyRaises
    /\ now + PreviewSeconds + HardExpiry <= MaxTime
    /\ Cardinality({q \in Previews : PrunedOwn[q].entry = "open"}) < MaxPending
    /\ own' = [PrunedOwn EXCEPT ![p] =
                  [NothingOwned EXCEPT !.entry = "open", !.expires = now + PreviewSeconds,
                                       !.dir = "present", !.latest = tree.mutable,
                                       !.rest = tree.rest]]
    /\ auth' = PrunedAuth /\ images' = PrunedImages
    /\ timer' = Schedule(auth', own')
    /\ UNCHANGED <<now, tree>> /\ Bookkeeping

Authorize(p) ==
    /\ Ready /\ NobodyRaises
    /\ own[p].entry = "open" /\ ~Discarded(own[p])
    /\ Cardinality({q \in Known : Usable(auth[q])}) < MaxActive
    /\ auth' = [PrunedAuth EXCEPT ![p] = NewSession(now)]
    /\ own' = [PrunedOwn EXCEPT ![p].entry = "consumed", ![p].session = "known"]
    /\ images' = PrunedImages
    /\ timer' = Schedule(auth', own')
    /\ UNCHANGED <<now, tree>> /\ Bookkeeping

\* inspect_capability, and a preview or an authorization that is refused
\* after the prune.
Inspect ==
    /\ Ready /\ NobodyRaises
    /\ auth' = PrunedAuth /\ own' = PrunedOwn /\ images' = PrunedImages
    /\ timer' = Schedule(auth', own')
    /\ UNCHANGED <<now, tree>> /\ Bookkeeping

\* The session is ended with state s and its resources are released.
EndAndRelease(p, s) ==
    /\ auth' = [auth EXCEPT ![p] = IF Usable(@) THEN End(@, s) ELSE Seen(@)]
    /\ own' = [own EXCEPT ![p] = Released(@)]
    /\ images' = [images EXCEPT ![p] = KeptImages(p)]
    /\ timer' = Schedule(auth', own')

\* revoke accepts a session that has ended; finalize_candidate ends one with
\* a baseline and a candidate whose workspace matches the selected build.
Revoke(p) ==
    /\ Ready /\ own[p].session = "known"
    /\ EndAndRelease(p, "revoked")
    /\ UNCHANGED <<now, tree>> /\ Bookkeeping

FinalizeCandidate(p, r) ==
    /\ Ready /\ own[p].session = "known" /\ Usable(auth[p])
    /\ {auth[p].baseline, auth[p].candidate} \subseteq own[p].builds
    /\ r \in {auth[p].baseline, auth[p].candidate}
    /\ tree.rest # own[p].rest \/ tree.mutable = own[p].made[r]
    /\ EndAndRelease(p, "revoked")
    /\ UNCHANGED <<now, tree>> /\ Bookkeeping

\* Any call that finds its session ended releases it and is refused.
FindEnded(p) ==
    /\ Ready /\ own[p].session = "known" /\ ~Usable(auth[p])
    /\ EndAndRelease(p, "revoked")
    /\ UNCHANGED <<now, tree>> /\ Bookkeeping

Close ==
    /\ Ready
    /\ closed' = "yes" /\ timer' = "none"
    /\ auth' = [p \in Previews |-> IF p \notin Known THEN auth[p]
                                   ELSE IF Usable(auth[p]) THEN End(auth[p], "revoked")
                                   ELSE Seen(auth[p])]
    /\ own' = [p \in Previews |->
                 IF p \in Known THEN [Released(own[p]) EXCEPT !.session = "dropped"]
                 ELSE IF own[p].entry = "open"
                 THEN [own[p] EXCEPT !.entry = "gone", !.dir = "removed"] ELSE own[p]]
    /\ images' = [p \in Previews |-> IF p \in Known THEN KeptImages(p) ELSE images[p]]
    /\ UNCHANGED <<now, tree, store, call, spent, failed>>

\* The timer's thread; it is never set again when the prune raises.
RunScheduledCleanup ==
    /\ timer = "armed" /\ closed = "no"
    /\ \/ /\ NobodyRaises
          /\ auth' = PrunedAuth /\ own' = PrunedOwn /\ images' = PrunedImages
          /\ timer' = Schedule(auth', own')
       \/ \E p \in Previews : PruneRaises(p) /\ timer' = "none"
    /\ UNCHANGED <<now, tree>> /\ Bookkeeping

----------------------------------------------------------------------------
(* build.                                                                  *)

\* What begin_build requires before it looks at the budget.
InSequence(a, r) ==
    IF r = 0 THEN a.baseline = NoBuild
    ELSE a.baseline # NoBuild /\ r = a.rounds + 1

Buildable(p, r) ==
    /\ Ready /\ own[p].session = "known" /\ Usable(auth[p])
    /\ own[p].blocked = "no"
    /\ InSequence(auth[p], r) /\ auth[p].attempts[r] <= MaxRetries
    /\ r > 0 => tree.rest = own[p].rest /\ tree.mutable # own[p].latest

BuildBudgetLeft(a) ==
    a.builds < MaxBuilds /\ a.seconds + BuildSeconds <= TotalBuildSeconds

\* The immutable context changed: a candidate build or a workload finds out
\* and the session is revoked.
ContextChanged(p) ==
    /\ Ready /\ own[p].session = "known" /\ Usable(auth[p])
    /\ own[p].blocked = "no" /\ tree.rest # own[p].rest
    /\ EndAndRelease(p, "revoked")
    /\ UNCHANGED <<now, tree>> /\ Bookkeeping

\* The budget is exhausted: the session ends, its resources stay for later.
BuildExhausted(p, r) ==
    /\ Buildable(p, r) /\ ~BuildBudgetLeft(auth[p])
    /\ auth' = [auth EXCEPT ![p] = End(@, "exhausted")]
    /\ UNCHANGED <<now, tree, own, images, timer>> /\ Bookkeeping

\* A second operation needs a retry: the contract of the session refuses the
\* new count after the attempt was recorded.
RetryRefused(p, r) ==
    /\ Buildable(p, r) /\ BuildBudgetLeft(auth[p])
    /\ auth[p].attempts[r] > 0 /\ auth[p].retries = MaxRetries
    /\ auth' = [auth EXCEPT ![p].attempts[r] = @ + 1]
    /\ UNCHANGED <<now, tree, own, images, timer>> /\ Bookkeeping

ChargedBuild(a, r) ==
    [a EXCEPT !.attempts[r] = @ + 1, !.builds = @ + 1, !.seconds = @ + BuildSeconds,
              !.retries = IF a.attempts[r] > 0 THEN @ + 1 ELSE @]

BeginBuild(p, r) ==
    /\ Buildable(p, r) /\ BuildBudgetLeft(auth[p])
    /\ auth[p].attempts[r] > 0 => auth[p].retries < MaxRetries
    /\ \/ /\ auth' = [auth EXCEPT ![p] = [ChargedBuild(@, r) EXCEPT
                                            !.lease = Lease(auth[p], "build", r, BuildSeconds)]]
          /\ call' = [Idle EXCEPT !.pc = "building", !.p = p, !.round = r, !.began = now,
                                  !.manifest = IF r = 0 THEN own[p].latest ELSE tree.mutable]
       \/ /\ NoTimeLeft(auth[p])
          /\ auth' = [auth EXCEPT ![p] = End(ChargedBuild(@, r), "expired")]
          /\ UNCHANGED call
    /\ UNCHANGED <<now, tree, own, images, store, timer, closed, spent, failed>>

\* TypedDockerBuildAdapter.build, outside of every lock: it leaves no image
\* when it fails, and fails on a tag that exists.
AdapterBuild ==
    /\ call.pc = "building"
    /\ \/ /\ call.round \notin images[call.p]
          /\ images' = [images EXCEPT ![call.p] = @ \cup {call.round}]
          /\ call' = [call EXCEPT !.pc = "built"]
       \/ /\ \E outcome \in {"toolFailed", "otherFailed"} : call' = [call EXCEPT !.pc = outcome]
          /\ UNCHANGED images
    /\ UNCHANGED <<now, tree, auth, own, store, timer, closed, spent, failed>>

Elapsed == now - call.began
Taken == IF Elapsed < BuildSeconds THEN Elapsed ELSE BuildSeconds

FinishedBuild(a) ==
    [a EXCEPT !.lease = NoLease, !.images = @ + 1,
              !.seconds = @ - a.lease.reserved + Elapsed,
              !.baseline = IF call.round = 0 THEN 0 ELSE @,
              !.rounds = IF call.round = 0 THEN @ ELSE call.round,
              !.candidate = IF call.round = 0 THEN @ ELSE call.round]

\* finish_build, under the authority's lock alone.
FinishBuild ==
    /\ call.pc = "built"
    /\ LET p == call.p  a == auth[p] IN
       \/ /\ Usable(a) /\ Elapsed <= BuildSeconds /\ a.images < MaxImages
          /\ auth' = [auth EXCEPT ![p] = FinishedBuild(@)]
          /\ call' = [call EXCEPT !.pc = "register", !.revision = Revision(auth'[p])]
          /\ spent' = [spent EXCEPT ![p].build = @ + Taken]
       \/ /\ Usable(a) /\ (Elapsed > BuildSeconds \/ a.images >= MaxImages)
          /\ auth' = [auth EXCEPT ![p] = End(@, "exhausted")]
          /\ call' = [call EXCEPT !.pc = "finishFailed"] /\ UNCHANGED spent
       \/ /\ ~Usable(a)
          /\ auth' = [auth EXCEPT ![p] = Seen(@)]
          /\ call' = [call EXCEPT !.pc = "finishFailed"] /\ UNCHANGED spent
    /\ UNCHANGED <<now, tree, own, images, store, timer, closed, failed>>

\* The build is entered in the session and the revision is saved, or not.
Registered(o) == [o EXCEPT !.builds = @ \cup {call.round}, !.latest = call.manifest,
                           !.made[call.round] = call.manifest]
RegisterBuild ==
    /\ call.pc = "register"
    /\ own' = [own EXCEPT ![call.p] = Registered(@)]
    /\ \/ UNCHANGED store
       \/ store' = [store EXCEPT ![call.p].revisions = @ \cup {call.revision}]
    /\ call' = Idle
    /\ UNCHANGED <<now, tree, auth, images, timer, closed, spent, failed>>

\* Fault: a failed build gets its whole reservation back.
SettledForFree(a) == [a EXCEPT !.lease = NoLease, !.seconds = @ - a.lease.reserved]

Settled(a) == [a EXCEPT !.lease = NoLease, !.seconds = @ - a.lease.reserved + Taken]

\* The exception handler of build: fail_build, the image of a build that was
\* not accepted, and the release of a session that has ended.
FailBuild ==
    /\ call.pc \in {"toolFailed", "otherFailed", "finishFailed"}
    /\ LET p == call.p  a == auth[p]
           b == IF ~Usable(a) THEN Seen(a)
                ELSE IF call.pc = "otherFailed" \/ a.attempts[call.round] > MaxRetries
                THEN End(Settled(a), "failed") ELSE Settled(a)
           left == IF call.pc = "finishFailed" THEN images[p] \ {call.round} ELSE images[p]
       IN /\ auth' = [auth EXCEPT ![p] = b]
          /\ IF b.state = "active"
             THEN images' = [images EXCEPT ![p] = left] /\ UNCHANGED <<own, timer>>
             ELSE /\ own' = [own EXCEPT ![p] = Released(@)]
                  /\ images' = [images EXCEPT ![p] = left \cap KeptImages(p)]
                  /\ timer' = Schedule(auth', own')
          /\ spent' = [spent EXCEPT ![p].build = @ + Taken]
    /\ call' = Idle
    /\ UNCHANGED <<now, tree, store, closed, failed>>

----------------------------------------------------------------------------
(* collect_docker_optimization_workload.                                   *)

\* The prologue of a runtime call inside the tool call: it passes, or it
\* raises after it has noticed the end of the session.
Passes(p) == own[p].session = "known" /\ Usable(auth[p])
Refused(p) ==
    IF own[p].session # "known" THEN UNCHANGED <<auth, own, images, timer>>
    ELSE /\ auth' = [auth EXCEPT ![p] = Seen(@)]
         /\ IF Raises(auth[p]) THEN UNCHANGED <<own, images, timer>>
            ELSE /\ own' = [own EXCEPT ![p] = Released(@)]
                 /\ images' = [images EXCEPT ![p] = KeptImages(p)]
                 /\ timer' = Schedule(auth', own')

Collectable(p, r) ==
    /\ Ready /\ own[p].session = "known" /\ Usable(auth[p]) /\ own[p].blocked = "no"
    /\ r \in own[p].builds /\ r \in {auth[p].baseline, auth[p].candidate}
    /\ tree.rest = own[p].rest /\ tree.mutable = own[p].made[r]

WorkloadBudgetLeft(a, n) == a.runs < MaxRuns /\ a.amount + n <= ActiveAmount

WorkloadExhausted(p, r, n) ==
    /\ Collectable(p, r) /\ ~WorkloadBudgetLeft(auth[p], n)
    /\ auth' = [auth EXCEPT ![p] = End(@, "exhausted")]
    /\ UNCHANGED <<now, tree, own, images, timer>> /\ Bookkeeping

ChargedWorkload(a, n) == [a EXCEPT !.runs = @ + 1, !.amount = @ + n]

\* With Runtime Lock evidence only while the session still allows it.
BeginWorkload(p, r, n, lock) ==
    /\ Collectable(p, r) /\ WorkloadBudgetLeft(auth[p], n)
    /\ lock = "yes" => auth[p].lock \notin {"exhausted", "unavailable"}
    /\ \/ /\ auth' = [auth EXCEPT ![p] = [ChargedWorkload(@, n) EXCEPT
                                            !.lease = Lease(auth[p], "workload", r, n)]]
          /\ call' = [Idle EXCEPT !.pc = "collecting", !.p = p, !.amount = n, !.lock = lock]
       \/ /\ NoTimeLeft(auth[p])
          /\ auth' = [auth EXCEPT ![p] = End(ChargedWorkload(@, n), "expired")]
          /\ UNCHANGED call
    /\ UNCHANGED <<now, tree, own, images, store, timer, closed, spent, failed>>

\* The managed workload runs and is profiled; it may take more than reserved.
Collect ==
    /\ call.pc = "collecting"
    /\ \E n \in 0 .. call.amount + 1, outcome \in {"collected", "collectFailed"} :
          /\ call' = [call EXCEPT !.pc = outcome, !.amount = n]
          /\ failed' = IF outcome = "collected" THEN failed
                       ELSE [failed EXCEPT ![call.p] = "yes"]
    /\ UNCHANGED <<now, tree, auth, own, images, store, timer, closed, spent>>

Overrun(a) == call.amount > a.lease.reserved
SettledWorkload(a) ==
    [a EXCEPT !.lease = NoLease, !.amount = @ - a.lease.reserved + call.amount,
              !.done[a.runs] = "fresh"]
WorkTaken(p) == [spent EXCEPT ![p].work = @ + call.amount]

FinishWorkload ==
    /\ call.pc = "collected"
    /\ LET p == call.p  a == auth[p] IN
       \/ /\ Passes(p) /\ ~Overrun(a)
          /\ auth' = [auth EXCEPT ![p] = SettledWorkload(@)]
          /\ spent' = WorkTaken(p)
          /\ call' = [call EXCEPT !.pc = IF call.lock = "yes" THEN "saveEvidence" ELSE "saveSession",
                                  !.revision = Revision(auth'[p])]
          /\ UNCHANGED <<own, images, timer, failed>>
       \/ /\ Passes(p) /\ Overrun(a)
          /\ auth' = [auth EXCEPT ![p] = End(@, "exhausted")]
          /\ call' = [call EXCEPT !.pc = "collectFailed"]
          /\ failed' = [failed EXCEPT ![p] = "yes"]
          /\ UNCHANGED <<own, images, timer, spent>>
       \/ /\ ~Passes(p) /\ Refused(p)
          /\ call' = [call EXCEPT !.pc = "collectFailed"]
          /\ failed' = [failed EXCEPT ![p] = "yes"]
          /\ UNCHANGED spent
    /\ UNCHANGED <<now, tree, store, closed>>

Poisoned(a) == [a EXCEPT !.lock = "unavailable", !.done[a.runs] = "poisoned"]

\* fail_workload; what it raises is suppressed, a snapshot is taken instead.
FailWorkload ==
    /\ call.pc = "collectFailed"
    /\ LET p == call.p  a == auth[p] IN
       \/ /\ Passes(p) /\ ~Overrun(a)
          /\ auth' = [auth EXCEPT ![p] = IF call.lock = "yes" THEN Poisoned(SettledWorkload(@))
                                         ELSE SettledWorkload(@)]
          /\ own' = [own EXCEPT ![p].blocked = "yes"]
          /\ spent' = WorkTaken(p)
          /\ UNCHANGED <<images, timer>>
       \/ /\ Passes(p) /\ Overrun(a)
          /\ auth' = [auth EXCEPT ![p] = End(@, "exhausted")]
          /\ own' = [own EXCEPT ![p] = Released(@)]
          /\ images' = [images EXCEPT ![p] = KeptImages(p)]
          /\ timer' = Schedule(auth', own')
          /\ UNCHANGED spent
       \/ ~Passes(p) /\ Refused(p) /\ UNCHANGED spent
    /\ call' = [call EXCEPT !.pc = "saveFailed", !.revision = Revision(auth'[call.p])]
    /\ UNCHANGED <<now, tree, store, closed, failed>>

----------------------------------------------------------------------------
(* _finalize_docker_runtime_lock_run: evidence, charge, Run, parent, seal. *)

LockKeeps == UNCHANGED <<now, tree, closed, spent>>
LockFails == /\ call' = [call EXCEPT !.pc = "lockFailed"]
             /\ failed' = [failed EXCEPT ![call.p] = "yes"]

SaveEvidence ==
    /\ call.pc = "saveEvidence"
    /\ \/ call' = [call EXCEPT !.pc = "charge"] /\ UNCHANGED failed
       \/ LockFails
    /\ LockKeeps /\ UNCHANGED <<auth, own, images, store, timer>>

\* _merge_runtime_lock_status for an active or a partial result.
Merged(current, result) == IF "partial" \in {current, result} THEN "partial" ELSE "active"

LockBudgetLeft(a, n) == a.lockRuns < LockRuns /\ a.lockAmount + n <= LockAmount

ChargedLock(a, n, result) ==
    [a EXCEPT !.lockRuns = @ + 1, !.lockAmount = @ + n, !.lock = Merged(@, result),
              !.done[a.runs] = "charged"]

\* charge_runtime_lock_use: once for a completed workload, within its amount.
ChargeRuntimeLockUse ==
    /\ call.pc = "charge"
    /\ LET p == call.p  a == auth[p] IN
       \/ /\ ~Passes(p) /\ Refused(p) /\ LockFails
       \/ \E n \in 0 .. call.amount, result \in {"active", "partial"} :
             /\ Passes(p) /\ a.done[a.runs] = "fresh"
             /\ IF LockBudgetLeft(a, n)
                THEN /\ auth' = [auth EXCEPT ![p] = ChargedLock(@, n, result)]
                     /\ call' = [call EXCEPT !.pc = "saveRun", !.revision = Revision(auth'[p])]
                     /\ UNCHANGED failed
                ELSE auth' = [auth EXCEPT ![p].lock = "exhausted"] /\ LockFails
             /\ UNCHANGED <<own, images, timer>>
    /\ LockKeeps /\ UNCHANGED store

\* Fault: the parent revision is published first.
SaveRunLast ==
    /\ call.pc = "saveRun"
    /\ store' = [store EXCEPT ![call.p].revisions = @ \cup {call.revision}]
    /\ call' = [call EXCEPT !.pc = "saveParent"]
    /\ LockKeeps /\ UNCHANGED <<auth, own, images, timer, failed>>

\* The Run is published before the parent revision that counts it.
SaveRun ==
    /\ call.pc = "saveRun"
    /\ \/ /\ store' = [store EXCEPT ![call.p].runs = @ \cup {auth[call.p].runs}]
          /\ call' = [call EXCEPT !.pc = "saveParent"] /\ UNCHANGED failed
       \/ LockFails /\ UNCHANGED store
    /\ LockKeeps /\ UNCHANGED <<auth, own, images, timer>>

SaveParent ==
    /\ call.pc = "saveParent"
    /\ \/ /\ store' = [store EXCEPT ![call.p].revisions = @ \cup {call.revision}]
          /\ call' = [call EXCEPT !.pc = "publish"] /\ UNCHANGED failed
       \/ LockFails /\ UNCHANGED store
    /\ LockKeeps /\ UNCHANGED <<auth, own, images, timer>>

MarkRuntimeLockPublished ==
    /\ call.pc = "publish"
    /\ \/ /\ Passes(call.p)
          /\ auth' = [auth EXCEPT ![call.p].done[auth[call.p].runs] = "published"]
          /\ call' = Idle
          /\ UNCHANGED <<own, images, timer, failed>>
       \/ ~Passes(call.p) /\ Refused(call.p) /\ LockFails
    /\ LockKeeps /\ UNCHANGED store

\* fail_completed_runtime_lock_use, suppressed as above.
FailRuntimeLock ==
    /\ call.pc = "lockFailed"
    /\ LET p == call.p IN
       \/ /\ Passes(p)
          /\ auth' = [auth EXCEPT ![p] = Poisoned(@)]
          /\ own' = [own EXCEPT ![p].blocked = "yes"]
          /\ UNCHANGED <<images, timer>>
       \/ ~Passes(p) /\ Refused(p)
    /\ call' = [call EXCEPT !.pc = "saveFailed", !.revision = Revision(auth'[call.p])]
    /\ LockKeeps /\ UNCHANGED <<store, failed>>

\* The last revision is saved, or not; the timer may have dropped the session,
\* then there is none to save.
SaveSession ==
    /\ call.pc \in {"saveSession", "saveFailed"}
    /\ \/ UNCHANGED store
       \/ store' = [store EXCEPT ![call.p].revisions = @ \cup {call.revision}]
    /\ call' = Idle
    /\ LockKeeps /\ UNCHANGED <<auth, own, images, timer, failed>>

----------------------------------------------------------------------------
\* A call that has begun goes on: builds and collections are bounded by the
\* timeouts of the tools they run.
CallStep ==
    \/ AdapterBuild \/ FinishBuild \/ RegisterBuild \/ FailBuild
    \/ Collect \/ FinishWorkload \/ FailWorkload \/ SaveEvidence
    \/ ChargeRuntimeLockUse \/ SaveRun \/ SaveParent
    \/ MarkRuntimeLockPublished \/ FailRuntimeLock \/ SaveSession

NewCall ==
    \/ \E p \in Previews :
          \/ Preview(p) \/ Authorize(p) \/ Revoke(p) \/ FindEnded(p) \/ ContextChanged(p)
          \/ \E r \in Rounds :
                \/ BeginBuild(p, r) \/ BuildExhausted(p, r) \/ RetryRefused(p, r)
                \/ FinalizeCandidate(p, r)
                \/ \E n \in 1 .. ActiveAmount :
                      \/ WorkloadExhausted(p, r, n)
                      \/ \E lock \in {"yes", "no"} : BeginWorkload(p, r, n, lock)
    \/ Inspect \/ Close

Next == Tick \/ Edit \/ NewCall \/ CallStep \/ RunScheduledCleanup

\* Time passes, a call that has begun goes on, a timer that is set goes off.
\* Nothing is assumed of the client.
Fairness == WF_vars(Tick) /\ WF_vars(CallStep) /\ WF_vars(RunScheduledCleanup)

Spec == Init /\ [][Next]_vars /\ Fairness

----------------------------------------------------------------------------
(* Properties.                                                             *)

TypeOK ==
    /\ now \in 0 .. MaxTime
    /\ \A p \in Previews :
          LET a == auth[p] IN
          /\ a.state \in {"none", "active", "revoked", "expired", "exhausted", "failed"}
          /\ a.builds \in 0 .. MaxBuilds /\ a.rounds \in Rounds /\ a.retries \in 0 .. MaxRetries
          /\ a.seconds \in 0 .. TotalBuildSeconds /\ a.images \in 0 .. MaxImages
          /\ a.runs \in 0 .. MaxRuns /\ a.amount \in 0 .. ActiveAmount
          /\ a.lockRuns \in 0 .. LockRuns /\ a.lockAmount \in 0 .. LockAmount
          /\ a.lockRuns <= a.runs /\ a.lockAmount <= a.amount
          /\ own[p].builds \subseteq Rounds /\ images[p] \subseteq Rounds

\* What builds and workloads really took, up to their reservations, is always
\* covered by what the session has been charged, whichever of the success,
\* failure, expiry and overrun paths settled them.
ChargedForUse ==
    \A p \in Previews : spent[p].build <= auth[p].seconds /\ spent[p].work <= auth[p].amount

\* Between tool calls no lease is left behind, whatever the call ran into, so
\* that no session waits for a lease nobody holds.
NoLeaseLeftBehind == call.pc = "idle" => \A p \in Previews : auth[p].lease = NoLease

\* No revision of an active session with usable Runtime Lock results counts a
\* Run that was not published (the order of saves in
\* _finalize_docker_runtime_lock_run).
CountedRunsPublished ==
    \A p \in Previews : \A v \in store[p].revisions :
       v.state = "active" /\ v.lock \in {"active", "partial"}
          => v.lockRuns <= Cardinality(store[p].runs)

\* The private directory of a preview is removed in the end, without help of
\* the client: by the timer, or by the call that is running.
Reclaimed == \A p \in Previews : own[p].dir = "present" ~> own[p].dir = "removed"

\* A session whose resources were released leaves no temporary image once its
\* call has ended.
ImagesReclaimed ==
    call.pc = "idle" => \A p \in Previews : own[p].released = "yes" => images[p] = {}

\* The account of a session is true between and during its calls: use is charged,
\* counted runs are published, and no lease outlives its call.
RunsAccounted == ChargedForUse /\ CountedRunsPublished /\ NoLeaseLeftBehind
=============================================================================
