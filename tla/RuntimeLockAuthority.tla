------------------------ MODULE RuntimeLockAuthority ------------------------
(***************************************************************************)
(* The process-local authority over Runtime Lock sessions                  *)
(* (src/perflens/runtime_locks/session.py): RuntimeLockSessionRuntime, the *)
(* connection-bound front, and RuntimeLockSessionAuthority behind it.      *)
(* A confirmed Preview becomes one Session, a Session leases single-use    *)
(* operations from fixed budgets, and one Adapter runs at most one         *)
(* operation in the process.                                               *)
(*                                                                         *)
(* Both classes hold an RLock for a whole call, so one call is one step.   *)
(* A call that raises without changing anything is a stuttering step.      *)
(* A session's identity is its Preview's: a Preview is authorized once.    *)
(***************************************************************************)
EXTENDS Integers, FiniteSets

CONSTANTS
    Previews,        \* identities of the Previews
    Adapters,        \* Runtime Lock Adapters
    Operations,      \* operation identities callers may present
    Reservations,    \* active seconds callers may reserve for an operation
    MaxRuns,         \* budget max_workload_runs
    MaxActive,       \* budget max_active_seconds
    HardExpiry,      \* budget hard_expiry_seconds
    PreviewExpiry,   \* expires_in_seconds of a Preview
    LeaseGrace,      \* _LEASE_GRACE_SECONDS
    Ticks,           \* clock ticks per second
    MaxSessions,     \* _MAX_SESSIONS
    MaxPending,      \* _MAX_PENDING_PREVIEWS
    MaxConsumed,     \* _MAX_CONSUMED_PREVIEWS
    WallSteps,       \* instants the wall clock may be set to
    MaxTime          \* bound: the last instant of either clock

\* Bounds of RuntimeLockSessionBudget and of the authority's capacities; a
\* reservation is at least one second (begin_run refuses others).
Bounds ==
    /\ Reservations \subseteq Nat \ {0}
    /\ {MaxRuns, MaxActive, HardExpiry, PreviewExpiry, Ticks, MaxSessions,
        MaxPending, MaxConsumed} \subseteq Nat \ {0}
    /\ LeaseGrace \in Nat
    /\ MaxTime \in Nat /\ WallSteps \subseteq Nat

ASSUME BoundsAssumption == Bounds

VARIABLES
    wall,        \* the wall clock: it may be set to any instant
    mono,        \* the monotonic clock
    created,     \* created[p]: wall time in the identity of Preview p
    pending,     \* pending[p]: the runtime's entry for Preview p
    consumed,    \* tombstones of the authorized Previews
    sess,        \* sess[p]: the authority's session of Preview p
    lease,       \* lease[p]: its active lease
    used,        \* used[p]: operation identities it has consumed
    owner,       \* owner[a]: the lease registered in _active_adapters
    bound,       \* sessions bound to the connection (runtime._sessions)
    open,        \* runtime._closed
    granted      \* history: how often Preview p was turned into a session

vars == <<wall, mono, created, pending, consumed, sess, lease, used, owner,
          bound, open, granted>>

\* Public states of a session; "none" is a session the authority does not hold.
Ended == {"revoked", "expired", "exhausted", "failed"}

Pending == [st : {"none", "pending", "consumed"}, wall : Nat, mono : Nat]
NoPending == [st |-> "none", wall |-> 0, mono |-> 0]

\* `runs` counts workload runs; `active` is active_seconds_used.
Session == [st : {"none", "active"} \cup Ended, rev : Nat, runs : Nat,
            active : Nat, wall : Nat, mono : Nat]
NoSession == [st |-> "none", rev |-> 0, runs |-> 0, active |-> 0,
              wall |-> 0, mono |-> 0]

\* `run` is the run number, 0 if there is no lease; `rev` the session revision.
Lease == [run : Nat, adapter : Adapters \cup {"none"}, seconds : Nat, rev : Nat,
          wall : Nat, mono : Nat]
NoLease == [run |-> 0, adapter |-> "none", seconds |-> 0, rev |-> 0,
            wall |-> 0, mono |-> 0]

\* A lease identifier: the run of a session; run 0 means the Adapter is free.
Owner == [sess : Previews \cup {"none"}, run : Nat]
Free == [sess |-> "none", run |-> 0]

Init ==
    /\ wall = 1 /\ mono = 1
    /\ created = [p \in Previews |-> 0]
    /\ pending = [p \in Previews |-> NoPending]
    /\ consumed = {}
    /\ sess = [p \in Previews |-> NoSession]
    /\ lease = [p \in Previews |-> NoLease]
    /\ used = [p \in Previews |-> {}]
    /\ owner = [a \in Adapters |-> Free]
    /\ bound = {}
    /\ open = "open"
    /\ granted = [p \in Previews |-> 0]

----------------------------------------------------------------------------
(* Expiry and the end of a session.                                        *)

Active == {p \in Previews : sess[p].st = "active"}
Held == {p \in Previews : sess[p].st # "none"}

\* _session_expired: either clock may end the session.
SessionExpired(p) == wall >= sess[p].wall \/ mono >= sess[p].mono

\* _lease_expired
LeaseExpired(p) ==
    lease[p].run # 0 /\ (wall >= lease[p].wall \/ mono >= lease[p].mono)

\* The active sessions _require ends when it looks at them.
Lapsed == {p \in Active : SessionExpired(p) \/ LeaseExpired(p)}

\* _update_session: every change of a session is its next revision.
Revised(s) == [s EXCEPT !.rev = @ + 1]

\* _end on every session of S.
EndedSessions(S, st) ==
    [p \in Previews |-> IF p \in S THEN [Revised(sess[p]) EXCEPT !.st = st]
                        ELSE sess[p]]

\* Fault: the Adapter is unregistered and the session keeps its lease.
ReleaseKeepsLease(S) ==
    /\ owner' = [a \in Adapters |->
                   IF \E p \in S : owner[a].sess = p THEN Free ELSE owner[a]]
    /\ UNCHANGED lease

\* _release_active_lease on every session of S: the Adapter is freed only if
\* it is registered for that very lease.
Release(S) ==
    /\ lease' = [p \in Previews |-> IF p \in S THEN NoLease ELSE lease[p]]
    /\ owner' = [a \in Adapters |->
                   IF \E p \in S : /\ lease[p].run # 0 /\ lease[p].adapter = a
                                   /\ owner[a] = [sess |-> p, run |-> lease[p].run]
                   THEN Free ELSE owner[a]]

\* _end
End(S, st) ==
    /\ sess' = EndedSessions(S, st)
    /\ Release(S)

KeepClocks == UNCHANGED <<wall, mono>>
KeepPreviews == UNCHANGED <<created, pending, consumed, granted>>
KeepRuntime == UNCHANGED <<bound, open>>

----------------------------------------------------------------------------
(* The environment: both clocks.                                           *)

Tick ==
    /\ wall < MaxTime /\ mono < MaxTime
    /\ wall' = wall + 1 /\ mono' = mono + 1
    /\ UNCHANGED <<created, pending, consumed, sess, lease, used, owner, bound,
                   open, granted>>

\* The wall clock is set, possibly back.
SetWall(t) ==
    /\ wall' = t
    /\ UNCHANGED <<mono, created, pending, consumed, sess, lease, used, owner,
                   bound, open, granted>>

----------------------------------------------------------------------------
(* Previews and authorization.                                             *)

\* _prune_pending drops consumed and expired entries.
LivePending ==
    [p \in Previews |-> IF \/ pending[p].st = "consumed"
                           \/ wall >= pending[p].wall
                           \/ mono >= pending[p].mono
                        THEN NoPending ELSE pending[p]]

\* What _prune_sessions keeps: a snapshot of every bound session ends the
\* lapsed ones, and only active ones stay bound.
Kept == bound \cap (Active \ Lapsed)

\* preview, with the pruning it starts with.  A Preview's identity contains its
\* creation time: it recurs only when the wall clock shows that instant again.
Preview(p) ==
    /\ open = "open"
    /\ created[p] \in {0, wall}
    /\ End(Lapsed \cap bound, "expired")
    /\ bound' = Kept
    /\ IF Cardinality({q \in Previews : LivePending[q].st = "pending"}) < MaxPending
       THEN /\ pending' = [LivePending EXCEPT ![p] =
                 [st |-> "pending", wall |-> wall + PreviewExpiry * Ticks,
                  mono |-> mono + PreviewExpiry * Ticks]]
            /\ created' = [created EXCEPT ![p] = wall]
       ELSE pending' = LivePending /\ UNCHANGED created
    /\ KeepClocks /\ UNCHANGED <<consumed, used, open, granted>>

\* The runtime's own checks before it asks the authority.
Presentable(p) ==
    LivePending[p].st = "pending" /\ Cardinality(Kept) < MaxSessions

\* authorize refused by the runtime: only its pruning happens.
AuthorizeUnpresentable(p) ==
    /\ open = "open"
    /\ ~ Presentable(p)
    /\ End(Lapsed \cap bound, "expired")
    /\ bound' = Kept
    /\ pending' = LivePending
    /\ KeepClocks /\ UNCHANGED <<created, consumed, used, open, granted>>

\* The sessions ended before the authority decides: by the runtime's pruning
\* and by its own _prune.
Overdue == (Lapsed \cap bound) \cup {p \in Active : SessionExpired(p)}

\* _prune evicts an inactive session when the authority is full (the code
\* takes the oldest one).
Evictions ==
    LET inactive == Held \ (Active \ Overdue)
    IN  IF Cardinality(Held) >= MaxSessions /\ inactive # {}
        THEN {{p} : p \in inactive} ELSE {{}}

\* The sessions after _prune.
PrunedSessions(out) ==
    [p \in Previews |-> IF p \in out THEN NoSession
                        ELSE EndedSessions(Overdue, "expired")[p]]

\* Fault: a tombstone is forgotten once its Preview has expired.
GrantableForgetful(p, out) ==
    /\ Cardinality(Held \ out) < MaxSessions
    /\ wall >= created[p]

\* The authority's checks; tombstones are never evicted.
Grantable(p, out) ==
    /\ p \notin consumed
    /\ Cardinality(consumed) < MaxConsumed
    /\ Cardinality(Held \ out) < MaxSessions
    /\ wall >= created[p]

\* authorize refused by the authority: the pruning of both has happened.
AuthorizeRefused(p) ==
    /\ open = "open"
    /\ Presentable(p)
    /\ \E out \in Evictions :
          /\ ~ Grantable(p, out)
          /\ sess' = PrunedSessions(out)
          /\ Release(Overdue \cup out)
    /\ bound' = Kept
    /\ pending' = LivePending
    /\ KeepClocks /\ UNCHANGED <<created, consumed, used, open, granted>>

\* authorize: the Preview is consumed and its session starts at revision 0.
Authorize(p) ==
    /\ open = "open"
    /\ Presentable(p)
    /\ \E out \in Evictions :
          /\ Grantable(p, out)
          /\ sess' = [PrunedSessions(out) EXCEPT ![p] =
                [st |-> "active", rev |-> 0, runs |-> 0, active |-> 0,
                 wall |-> wall + HardExpiry * Ticks,
                 mono |-> mono + HardExpiry * Ticks]]
          /\ Release(Overdue \cup out)
    /\ consumed' = consumed \cup {p}
    /\ granted' = [granted EXCEPT ![p] = @ + 1]
    /\ used' = [used EXCEPT ![p] = {}]
    /\ bound' = Kept \cup {p}
    /\ pending' = [LivePending EXCEPT ![p].st = "consumed"]
    /\ KeepClocks /\ UNCHANGED <<created, open>>

----------------------------------------------------------------------------
(* Operations of a session.                                                *)

\* What every call through the runtime needs before _require.
Reachable(p) == open = "open" /\ p \in bound

\* _require ends a lapsed session and the call raises.
Lapse(p) ==
    /\ Reachable(p)
    /\ p \in Lapsed
    /\ End({p}, "expired")
    /\ KeepClocks /\ KeepPreviews /\ KeepRuntime /\ UNCHANGED used

\* The calls _require lets through.
Usable(p) == Reachable(p) /\ p \in Active \ Lapsed

\* begin_run's checks that raise and change nothing.
Leasable(p, a, op) ==
    /\ Usable(p)
    /\ lease[p].run = 0
    /\ owner[a].run = 0
    /\ op \notin used[p]

\* Fault: the budget is compared before the reservation is added.
FitsBudgetBefore(p, r) ==
    sess[p].runs < MaxRuns /\ sess[p].active <= MaxActive

\* The workload and active-time budgets (evidence bytes alike).
FitsBudget(p, r) ==
    sess[p].runs < MaxRuns /\ sess[p].active + r <= MaxActive

\* begin_run that finds a budget exhausted ends the session.
BeginExhausted(p, a, op, r) ==
    /\ Leasable(p, a, op)
    /\ ~ FitsBudget(p, r)
    /\ End({p}, "exhausted")
    /\ KeepClocks /\ KeepPreviews /\ KeepRuntime /\ UNCHANGED used

\* Whole seconds left until the hard expiry, capped by the reservation.
LeaseSeconds(p, r) ==
    LET left == (sess[p].wall - wall) \div Ticks
    IN  IF r + LeaseGrace < left THEN r + LeaseGrace ELSE left

\* The charge of begin_run: the reservation is booked before anything runs.
Charged(p, r) ==
    [[Revised(sess[p]) EXCEPT !.runs = @ + 1] EXCEPT !.active = @ + r]

\* begin_run in the last second: the charge stays, the session expires.
BeginTooLate(p, a, op, r) ==
    /\ Leasable(p, a, op)
    /\ FitsBudget(p, r)
    /\ LeaseSeconds(p, r) <= 0
    /\ sess' = [sess EXCEPT ![p] =
          [Revised(Charged(p, r)) EXCEPT !.st = "expired"]]
    /\ Release({p})
    /\ used' = [used EXCEPT ![p] = @ \cup {op}]
    /\ KeepClocks /\ KeepPreviews /\ KeepRuntime

\* begin_run
BeginRun(p, a, op, r) ==
    /\ Leasable(p, a, op)
    /\ FitsBudget(p, r)
    /\ LeaseSeconds(p, r) > 0
    /\ sess' = [sess EXCEPT ![p] = Charged(p, r)]
    /\ lease' = [lease EXCEPT ![p] =
          [run |-> sess[p].runs + 1, adapter |-> a, seconds |-> r,
           rev |-> sess[p].rev + 1,
           wall |-> wall + LeaseSeconds(p, r) * Ticks,
           mono |-> mono + LeaseSeconds(p, r) * Ticks]]
    /\ owner' = [owner EXCEPT ![a] = [sess |-> p, run |-> sess[p].runs + 1]]
    /\ used' = [used EXCEPT ![p] = @ \cup {op}]
    /\ KeepClocks /\ KeepPreviews /\ KeepRuntime

\* _require_lease: the caller presents the lease of run n.
Presents(p, n) ==
    /\ Usable(p)
    /\ n # 0 /\ lease[p].run = n
    /\ lease[p].rev = sess[p].rev

\* finish_run with a Run that differs from the lease or exceeds it.
FinishRejected(p, n, st) ==
    /\ Presents(p, n)
    /\ End({p}, st)
    /\ KeepClocks /\ KeepPreviews /\ KeepRuntime /\ UNCHANGED used

\* The reservation is replaced by what the run really used.
Settled(p, d) ==
    [Revised(sess[p]) EXCEPT !.active = @ - lease[p].seconds + d]

\* finish_run of a run that took d seconds.
FinishRun(p, n, d) ==
    /\ Presents(p, n)
    /\ d \in 0..lease[p].seconds
    /\ sess' = [sess EXCEPT ![p] = Settled(p, d)]
    /\ Release({p})
    /\ KeepClocks /\ KeepPreviews /\ KeepRuntime /\ UNCHANGED used

\* fail_run: usage beyond the reservation is accounted up to it.
FailRun(p, n, d, st) ==
    /\ Presents(p, n)
    /\ d \in 0..lease[p].seconds
    /\ st = "exhausted" => d = lease[p].seconds
    /\ sess' = [sess EXCEPT ![p] = [Settled(p, d) EXCEPT !.st = st]]
    /\ Release({p})
    /\ KeepClocks /\ KeepPreviews /\ KeepRuntime /\ UNCHANGED used

\* _require with allow_inactive raises for an expired lease of a live session.
Raises(p) == p \in Active /\ ~ SessionExpired(p) /\ LeaseExpired(p)

\* revoke followed by discard, and abandon_unpublished: the authority forgets
\* the session.
Forget(p) ==
    /\ Reachable(p)
    /\ ~ Raises(p)
    /\ sess' = [sess EXCEPT ![p] = NoSession]
    /\ Release({p})
    /\ bound' = bound \ {p}
    /\ KeepClocks /\ KeepPreviews /\ UNCHANGED <<used, open>>

\* close: every bound session is revoked and discarded in turn.  The first one
\* whose revoke raises ends the loop: `done` were revoked before it.
Close ==
    /\ open = "open"
    /\ open' = "closed"
    /\ LET failing == {p \in bound : Raises(p)}
       IN  \/ /\ failing = {}
              /\ sess' = [p \in Previews |-> IF p \in bound THEN NoSession ELSE sess[p]]
              /\ Release(bound)
              /\ bound' = {}
              /\ pending' = [p \in Previews |-> NoPending]
           \/ \E p \in failing, done \in SUBSET (bound \ failing) :
                 /\ sess' = [q \in Previews |-> IF q \in done THEN NoSession
                                                ELSE EndedSessions({p}, "expired")[q]]
                 /\ Release(done \cup {p})
                 /\ UNCHANGED <<bound, pending>>
    /\ KeepClocks /\ UNCHANGED <<created, consumed, used, granted>>

----------------------------------------------------------------------------
Next ==
    \/ Tick
    \/ \E t \in WallSteps : SetWall(t)
    \/ \E p \in Previews :
          \/ Preview(p) \/ Authorize(p) \/ AuthorizeRefused(p)
          \/ AuthorizeUnpresentable(p)
          \/ Lapse(p) \/ Forget(p)
          \/ \E a \in Adapters, op \in Operations, r \in Reservations :
                BeginRun(p, a, op, r) \/ BeginTooLate(p, a, op, r)
                  \/ BeginExhausted(p, a, op, r)
          \/ \E n \in 1..MaxRuns :
                \/ \E st \in {"failed", "exhausted"} :
                      \/ FinishRejected(p, n, st)
                      \/ \E d \in 0..MaxActive : FailRun(p, n, d, st)
                \/ \E d \in 0..MaxActive : FinishRun(p, n, d)
    \/ Close

Spec == Init /\ [][Next]_vars

----------------------------------------------------------------------------
(* Properties.                                                             *)

TypeOK ==
    /\ wall \in Nat /\ mono \in Nat
    /\ created \in [Previews -> Nat]
    /\ pending \in [Previews -> Pending]
    /\ consumed \in SUBSET Previews
    /\ sess \in [Previews -> Session]
    /\ lease \in [Previews -> Lease]
    /\ used \in [Previews -> SUBSET Operations]
    /\ owner \in [Adapters -> Owner]
    /\ bound \in SUBSET Previews
    /\ open \in {"open", "closed"}
    /\ granted \in [Previews -> Nat]

\* The Adapter table and the sessions' leases agree in both directions:
\* _active_adapters names exactly the live leases.  Hence an Adapter runs at
\* most one operation in the process (max_adapter_concurrency is 1) and is
\* never blocked by a lease that no session holds any more.
AdapterTable ==
    /\ \A a \in Adapters : owner[a].run # 0 =>
          /\ owner[a].sess \in Previews
          /\ lease[owner[a].sess].run = owner[a].run
          /\ lease[owner[a].sess].adapter = a
    /\ \A p \in Previews : lease[p].run # 0 =>
          /\ lease[p].adapter \in Adapters
          /\ owner[lease[p].adapter] = [sess |-> p, run |-> lease[p].run]

\* No sequence of reservations, refunds, failures and expiries exceeds the
\* budgets the user confirmed, and an open reservation is always still booked,
\* so that settling it never drives the account below zero.
WithinBudget ==
    \A p \in Previews :
        /\ sess[p].runs <= MaxRuns
        /\ sess[p].active <= MaxActive
        /\ lease[p].seconds <= sess[p].active

\* A lease exists only in an active session, at the revision that charged it:
\* no other revision can slip in between begin_run and its settlement.
LeaseOfCurrentRevision ==
    \A p \in Previews : lease[p].run # 0 =>
        /\ sess[p].st = "active"
        /\ lease[p].run = sess[p].runs
        /\ lease[p].rev = sess[p].rev

\* The comment in _prune: a Preview is turned into at most one session, also
\* when the wall clock is set back and the same Preview is created again.
PreviewSingleUse == \A p \in Previews : granted[p] <= 1

\* A session that has ended never comes back and its account is closed.
EndedForGood ==
    [][\A p \in Previews : sess[p].st \in Ended =>
          sess'[p] \in {sess[p], NoSession}]_vars
=============================================================================
