--------------------- MODULE RuntimeLockAuthorityProofs ---------------------
(***************************************************************************)
(* Theorems about RuntimeLockAuthority, for any number of Previews,        *)
(* Adapters and operations, any budgets and capacities, and wall clocks    *)
(* that are set arbitrarily.                                               *)
(***************************************************************************)
EXTENDS RuntimeLockAuthority, TLAPS

----------------------------------------------------------------------------
(* The inductive invariant.                                                *)

\* An absent lease reserves nothing.
NoLeaseIsEmpty == \A p \in Previews : lease[p].run = 0 => lease[p] = NoLease

\* Sessions exist only for consumed Previews, and consuming is counted once.
Tombstones ==
    \A p \in Previews :
        /\ sess[p].st # "none" => p \in consumed
        /\ granted[p] <= 1
        /\ granted[p] # 0 => p \in consumed

\* What one session's account and lease satisfy.
LeaseInv ==
    /\ WithinBudget
    /\ LeaseOfCurrentRevision
    /\ NoLeaseIsEmpty

IInv == TypeOK /\ AdapterTable /\ LeaseInv /\ Tombstones

----------------------------------------------------------------------------
(* Lemmas about the parts the actions share.                               *)

LEMMA NatProduct == \A m, n \in Nat : m * n \in Nat
OBVIOUS

LEMMA Constants ==
    /\ MaxRuns \in Nat /\ MaxActive \in Nat /\ Ticks \in Nat /\ Ticks > 0
    /\ PreviewExpiry * Ticks \in Nat /\ HardExpiry * Ticks \in Nat
BY BoundsAssumption, NatProduct DEF Bounds

LEMMA EmptyRecords ==
    /\ NoPending \in Pending /\ NoSession \in Session
    /\ NoLease \in Lease /\ Free \in Owner
    /\ NoLease.run = 0 /\ NoLease.seconds = 0 /\ Free.run = 0
    /\ NoSession.runs = 0 /\ NoSession.active = 0 /\ NoSession.st = "none"
BY DEF NoPending, Pending, NoSession, Session, NoLease, Lease, Free, Owner, Ended

\* Releasing leases keeps the Adapter table in step with them.
LEMMA ReleaseKeepsTable ==
    ASSUME IInv, NEW S, Release(S)
    PROVE  /\ lease' \in [Previews -> Lease]
           /\ owner' \in [Adapters -> Owner]
           /\ AdapterTable'
           /\ \A p \in Previews :
                 lease'[p] = IF p \in S THEN NoLease ELSE lease[p]
<1>1. \A p \in Previews : lease'[p] = IF p \in S THEN NoLease ELSE lease[p]
  BY DEF Release
<1>2. lease' \in [Previews -> Lease]
  BY EmptyRecords DEF Release, IInv, TypeOK
<1>3. owner' \in [Adapters -> Owner]
  BY EmptyRecords DEF Release, IInv, TypeOK
<1>4. \A a \in Adapters : owner'[a] \in {owner[a], Free}
  BY DEF Release
<1>5. ASSUME NEW a \in Adapters, owner'[a].run # 0
      PROVE  /\ owner'[a].sess \in Previews
             /\ lease'[owner'[a].sess].run = owner'[a].run
             /\ lease'[owner'[a].sess].adapter = a
  <2>1. owner'[a] = owner[a] /\ owner[a].run # 0
    BY <1>4, <1>5, EmptyRecords
  <2> DEFINE q == owner[a].sess
  <2>2. q \in Previews /\ lease[q].run = owner[a].run /\ lease[q].adapter = a
    BY <2>1 DEF IInv, AdapterTable
  <2>3. owner[a] \in Owner
    BY DEF IInv, TypeOK
  <2>4. owner[a] = [sess |-> q, run |-> lease[q].run]
    BY <2>2, <2>3 DEF Owner
  <2>5. q \notin S
    <3>1. SUFFICES ASSUME q \in S PROVE FALSE
      OBVIOUS
    <3>2. \E p \in S : /\ lease[p].run # 0 /\ lease[p].adapter = a
                       /\ owner[a] = [sess |-> p, run |-> lease[p].run]
      BY <3>1, <2>1, <2>2, <2>4
    <3>3. owner'[a] = Free
      BY <3>2 DEF Release
    <3> QED BY <3>3, <1>5, EmptyRecords
  <2> QED BY <1>1, <2>1, <2>2, <2>5
<1>6. ASSUME NEW p \in Previews, lease'[p].run # 0
      PROVE  /\ lease'[p].adapter \in Adapters
             /\ owner'[lease'[p].adapter] = [sess |-> p, run |-> lease'[p].run]
  <2>1. p \notin S /\ lease'[p] = lease[p]
    BY <1>1, <1>6, EmptyRecords
  <2> DEFINE a == lease[p].adapter
  <2>2. a \in Adapters /\ owner[a] = [sess |-> p, run |-> lease[p].run]
    BY <2>1, <1>6 DEF IInv, AdapterTable
  <2>3. owner'[a] = owner[a]
    <3>1. owner[a].sess = p
      BY <2>2
    <3>2. ASSUME NEW q \in S, owner[a] = [sess |-> q, run |-> lease[q].run]
          PROVE  FALSE
      <4>1. owner[a].sess = q
        BY <3>2
      <4> QED BY <4>1, <3>1, <2>1
    <3> QED BY <3>2, <2>2 DEF Release
  <2> QED BY <2>1, <2>2, <2>3
<1> QED BY <1>1, <1>2, <1>3, <1>5, <1>6 DEF AdapterTable

\* A step that changes a session only while taking its lease away keeps the
\* accounts and leases in order.
LEMMA SettlingKeepsLeases ==
    ASSUME IInv, sess' \in [Previews -> Session],
           \A p \in Previews :
              /\ sess'[p].runs <= MaxRuns /\ sess'[p].active <= MaxActive
              /\ \/ lease'[p] = NoLease
                 \/ lease'[p] = lease[p] /\ sess'[p] = sess[p]
    PROVE  LeaseInv'
<1>1. ASSUME NEW p \in Previews PROVE sess'[p].active \in Nat
  BY DEF Session
<1>2. WithinBudget'
  BY <1>1, EmptyRecords DEF WithinBudget, IInv, LeaseInv
<1>3. LeaseOfCurrentRevision'
  BY EmptyRecords DEF LeaseOfCurrentRevision, IInv, LeaseInv
<1>4. NoLeaseIsEmpty'
  BY EmptyRecords DEF NoLeaseIsEmpty, IInv, LeaseInv
<1> QED BY <1>2, <1>3, <1>4 DEF LeaseInv

LEMMA RevisedType ==
    ASSUME NEW s \in Session
    PROVE  /\ Revised(s) \in Session /\ Revised(s).rev = s.rev + 1
           /\ Revised(s).runs = s.runs /\ Revised(s).active = s.active
           /\ Revised(s).st = s.st
BY DEF Revised, Session

LEMMA EndedSessionsType ==
    ASSUME IInv, NEW S, NEW st \in Ended
    PROVE  /\ EndedSessions(S, st) \in [Previews -> Session]
           /\ \A p \in Previews :
                /\ EndedSessions(S, st)[p].runs = sess[p].runs
                /\ EndedSessions(S, st)[p].active = sess[p].active
                /\ p \notin S => EndedSessions(S, st)[p] = sess[p]
                /\ p \in S => EndedSessions(S, st)[p].st = st
<1>1. \A p \in Previews : sess[p] \in Session
  BY DEF IInv, TypeOK
<1>2. ASSUME NEW p \in Previews
      PROVE  LET e == [Revised(sess[p]) EXCEPT !.st = st]
             IN  e \in Session /\ e.runs = sess[p].runs
                 /\ e.active = sess[p].active /\ e.st = st
  <2>1. /\ Revised(sess[p]) \in Session
        /\ Revised(sess[p]).runs = sess[p].runs
        /\ Revised(sess[p]).active = sess[p].active
    BY <1>1, RevisedType
  <2>2. st \in {"none", "active"} \cup Ended
    OBVIOUS
  <2> QED BY <2>1, <2>2 DEF Session
<1> QED BY <1>1, <1>2 DEF EndedSessions

\* _end keeps everything but the tombstones in order, which it does not touch.
LEMMA EndKeeps ==
    ASSUME IInv, NEW S \in SUBSET Active, NEW st \in Ended, End(S, st)
    PROVE  /\ sess' \in [Previews -> Session]
           /\ lease' \in [Previews -> Lease] /\ owner' \in [Adapters -> Owner]
           /\ AdapterTable' /\ LeaseInv'
           /\ \A p \in Previews : sess'[p].st # "none" => sess[p].st # "none"
           /\ \A p \in Previews : sess[p].st \in Ended => sess'[p] = sess[p]
<1>1. sess' = EndedSessions(S, st) /\ Release(S)
  BY DEF End
<1>2. /\ sess' \in [Previews -> Session]
      /\ \A p \in Previews : /\ sess'[p].runs = sess[p].runs
                             /\ sess'[p].active = sess[p].active
                             /\ p \notin S => sess'[p] = sess[p]
                             /\ p \in S => sess'[p].st = st
  BY <1>1, EndedSessionsType
<1>3. \A p \in Previews : lease'[p] = IF p \in S THEN NoLease ELSE lease[p]
  BY <1>1, ReleaseKeepsTable
<1>4. LeaseInv'
  BY <1>2, <1>3, SettlingKeepsLeases DEF IInv, LeaseInv, WithinBudget
<1>5. \A p \in Previews : sess'[p].st # "none" => sess[p].st # "none"
  BY <1>2 DEF Active
<1>6. \A p \in Previews : sess[p].st \in Ended => sess'[p] = sess[p]
  BY <1>2 DEF Active, Ended
<1> QED BY <1>1, <1>2, <1>4, <1>5, <1>6, ReleaseKeepsTable

----------------------------------------------------------------------------
(* Each action preserves the invariant.                                    *)

LEMMA InitInv == Init => IInv
<1> SUFFICES ASSUME Init PROVE IInv
  OBVIOUS
<1>1. TypeOK
  BY EmptyRecords DEF Init, TypeOK
<1>2. AdapterTable
  BY EmptyRecords DEF Init, AdapterTable
<1>3. LeaseInv
  BY EmptyRecords, Constants
     DEF Init, LeaseInv, WithinBudget, LeaseOfCurrentRevision, NoLeaseIsEmpty
<1>4. Tombstones
  BY EmptyRecords DEF Init, Tombstones
<1> QED BY <1>1, <1>2, <1>3, <1>4 DEF IInv

\* Steps that touch neither sessions nor leases.
LEMMA QuietStep ==
    ASSUME IInv, UNCHANGED <<sess, lease, owner, consumed, granted>>
    PROVE  AdapterTable' /\ LeaseInv' /\ Tombstones'
<1>1. AdapterTable'
  BY DEF IInv, AdapterTable
<1>2. LeaseInv'
  BY DEF IInv, LeaseInv, WithinBudget, LeaseOfCurrentRevision, NoLeaseIsEmpty
<1>3. Tombstones'
  BY DEF IInv, Tombstones
<1> QED BY <1>1, <1>2, <1>3

LEMMA LivePendingType == ASSUME TypeOK PROVE LivePending \in [Previews -> Pending]
BY EmptyRecords DEF TypeOK, LivePending

LEMMA LapsedActive == Lapsed \cap bound \in SUBSET Active /\ Active \in SUBSET Previews
BY DEF Lapsed, Active

\* Ending active sessions, whatever else the step does outside the authority.
LEMMA EndStep ==
    ASSUME IInv, NEW S \in SUBSET Active, NEW st \in Ended, End(S, st),
           UNCHANGED <<consumed, used, granted>>,
           wall' \in Nat, mono' \in Nat, created' \in [Previews -> Nat],
           pending' \in [Previews -> Pending], bound' \in SUBSET Previews,
           open' \in {"open", "closed"}
    PROVE  IInv'
<1>1. TypeOK'
  BY EndKeeps DEF IInv, TypeOK
<1>2. Tombstones'
  BY EndKeeps DEF IInv, Tombstones
<1> QED BY <1>1, <1>2, EndKeeps DEF IInv

LEMMA PreviewStep == ASSUME IInv, NEW p \in Previews, Preview(p) PROVE IInv'
<1>1. LivePending \in [Previews -> Pending]
  BY LivePendingType DEF IInv
<1>2. [st |-> "pending", wall |-> wall + PreviewExpiry * Ticks,
       mono |-> mono + PreviewExpiry * Ticks] \in Pending
  BY Constants DEF IInv, TypeOK, Pending
<1>3. pending' \in [Previews -> Pending]
  BY <1>1, <1>2 DEF Preview
<1>4. created' \in [Previews -> Nat]
  BY DEF Preview, IInv, TypeOK
<1>5. bound' \in SUBSET Previews
  BY DEF Preview, Kept, IInv, TypeOK
<1>6. /\ End(Lapsed \cap bound, "expired") /\ "expired" \in Ended
      /\ UNCHANGED <<wall, mono, consumed, used, open, granted>>
  BY DEF Preview, KeepClocks, Ended
<1>7. wall' \in Nat /\ mono' \in Nat /\ open' \in {"open", "closed"}
  BY <1>6 DEF IInv, TypeOK
<1> QED BY <1>3, <1>4, <1>5, <1>6, <1>7, EndStep, LapsedActive

LEMMA UnpresentableStep ==
    ASSUME IInv, NEW p \in Previews, AuthorizeUnpresentable(p) PROVE IInv'
<1>1. pending' \in [Previews -> Pending]
  BY LivePendingType DEF IInv, AuthorizeUnpresentable
<1>2. bound' \in SUBSET Previews
  BY DEF AuthorizeUnpresentable, Kept, IInv, TypeOK
<1>3. /\ End(Lapsed \cap bound, "expired") /\ "expired" \in Ended
      /\ UNCHANGED <<wall, mono, created, consumed, used, open, granted>>
  BY DEF AuthorizeUnpresentable, KeepClocks, Ended
<1>4. /\ wall' \in Nat /\ mono' \in Nat /\ open' \in {"open", "closed"}
      /\ created' \in [Previews -> Nat]
  BY <1>3 DEF IInv, TypeOK
<1> QED BY <1>1, <1>2, <1>3, <1>4, EndStep, LapsedActive

\* What _prune leaves: sessions are ended or evicted, never changed otherwise.
LEMMA PrunedType ==
    ASSUME IInv, NEW out \in Evictions
    PROVE  /\ PrunedSessions(out) \in [Previews -> Session]
           /\ \A p \in Previews :
                /\ PrunedSessions(out)[p].runs <= MaxRuns
                /\ PrunedSessions(out)[p].active <= MaxActive
                /\ p \notin Overdue \cup out => PrunedSessions(out)[p] = sess[p]
                /\ PrunedSessions(out)[p].st # "none" => sess[p].st # "none"
                /\ sess[p].st \in Ended => PrunedSessions(out)[p] \in {sess[p], NoSession}
<1> DEFINE e == EndedSessions(Overdue, "expired")
<1>1. "expired" \in Ended
  BY DEF Ended
<1>2. /\ e \in [Previews -> Session]
      /\ \A p \in Previews :
           /\ e[p].runs = sess[p].runs /\ e[p].active = sess[p].active
           /\ p \notin Overdue => e[p] = sess[p]
           /\ p \in Overdue => e[p].st = "expired"
  BY <1>1, EndedSessionsType
<1>3. \A p \in Overdue : sess[p].st = "active"
  BY DEF Overdue, Lapsed, Active
<1> HIDE DEF e
<1>4. \A p \in Previews : PrunedSessions(out)[p] = IF p \in out THEN NoSession ELSE e[p]
  BY DEF PrunedSessions, e
<1>5. PrunedSessions(out) \in [Previews -> Session]
  BY <1>2, EmptyRecords DEF PrunedSessions, e
<1>6. \A p \in Previews : sess[p].runs <= MaxRuns /\ sess[p].active <= MaxActive
  BY DEF IInv, LeaseInv, WithinBudget
<1>7. \A p \in Previews : sess[p].st \in Ended => p \notin Overdue
  BY <1>3 DEF Ended
<1>8. ASSUME NEW p \in Previews
      PROVE  PrunedSessions(out)[p].runs <= MaxRuns /\ PrunedSessions(out)[p].active <= MaxActive
  BY <1>2, <1>4, <1>6, EmptyRecords, Constants
<1>9. ASSUME NEW p \in Previews, PrunedSessions(out)[p].st # "none"
      PROVE  sess[p].st # "none"
  BY <1>2, <1>3, <1>4, <1>9, EmptyRecords
<1> QED BY <1>2, <1>4, <1>5, <1>7, <1>8, <1>9

LEMMA RefusedStep ==
    ASSUME IInv, NEW p \in Previews, AuthorizeRefused(p) PROVE IInv'
<1>1. PICK out \in Evictions : sess' = PrunedSessions(out) /\ Release(Overdue \cup out)
  BY DEF AuthorizeRefused
<1>2. UNCHANGED <<wall, mono, created, consumed, used, open, granted>>
  BY DEF AuthorizeRefused, KeepClocks
<1>3. bound' \in SUBSET Previews /\ pending' \in [Previews -> Pending]
  BY LivePendingType DEF AuthorizeRefused, Kept, IInv, TypeOK
<1>4. LeaseInv'
  BY <1>1, PrunedType, ReleaseKeepsTable, SettlingKeepsLeases
<1>5. TypeOK'
  BY <1>1, <1>2, <1>3, PrunedType, ReleaseKeepsTable DEF TypeOK, IInv
<1>6. Tombstones'
  BY <1>1, <1>2, PrunedType DEF Tombstones, IInv
<1> QED BY <1>1, <1>4, <1>5, <1>6, ReleaseKeepsTable DEF IInv

LEMMA AuthorizeStep == ASSUME IInv, NEW p \in Previews, Authorize(p) PROVE IInv'
<1> DEFINE new == [st |-> "active", rev |-> 0, runs |-> 0, active |-> 0,
                   wall |-> wall + HardExpiry * Ticks,
                   mono |-> mono + HardExpiry * Ticks]
<1>1. PICK out \in Evictions :
        /\ p \notin consumed
        /\ sess' = [PrunedSessions(out) EXCEPT ![p] = new]
        /\ Release(Overdue \cup out)
  BY DEF Authorize, Grantable
<1>2. new \in Session /\ new.runs = 0 /\ new.active = 0 /\ new.st = "active"
  BY Constants DEF IInv, TypeOK, Session
<1> HIDE DEF new
<1>3. /\ UNCHANGED <<wall, mono, created, open>>
      /\ consumed' = consumed \cup {p} /\ granted' = [granted EXCEPT ![p] = @ + 1]
      /\ used' = [used EXCEPT ![p] = {}] /\ bound' = Kept \cup {p}
      /\ pending' = [LivePending EXCEPT ![p].st = "consumed"]
  BY DEF Authorize, KeepClocks
<1>4. sess' \in [Previews -> Session]
  BY <1>1, <1>2, PrunedType
<1>5. sess'[p] = new /\ \A q \in Previews \ {p} : sess'[q] = PrunedSessions(out)[q]
  BY <1>1, PrunedType
<1>6. pending' \in [Previews -> Pending]
  <2>1. LivePending[p] \in Pending
    BY LivePendingType DEF IInv
  <2>2. [LivePending[p] EXCEPT !.st = "consumed"] \in Pending
    BY <2>1 DEF Pending
  <2> QED BY <1>3, <2>2, LivePendingType DEF IInv
<1>7. lease[p] = NoLease
  BY <1>1 DEF IInv, LeaseInv, LeaseOfCurrentRevision, NoLeaseIsEmpty, Tombstones
<1>8. LeaseInv'
  <2>1. \A q \in Previews : lease'[q] = IF q \in Overdue \cup out THEN NoLease ELSE lease[q]
    BY <1>1, ReleaseKeepsTable
  <2>2. ASSUME NEW q \in Previews
        PROVE  /\ sess'[q].runs <= MaxRuns /\ sess'[q].active <= MaxActive
               /\ \/ lease'[q] = NoLease
                  \/ lease'[q] = lease[q] /\ sess'[q] = sess[q]
    <3>1. CASE q = p
      BY <3>1, <2>1, <1>2, <1>5, <1>7, Constants
    <3>2. CASE q # p
      BY <3>2, <2>1, <1>5, PrunedType
    <3> QED BY <3>1, <3>2
  <2> QED BY <1>4, <2>2, SettlingKeepsLeases
<1>9. TypeOK'
  <2>1. granted' \in [Previews -> Nat] /\ used' \in [Previews -> SUBSET Operations]
    BY <1>3 DEF IInv, TypeOK
  <2>2. bound' \in SUBSET Previews /\ consumed' \in SUBSET Previews
    BY <1>3 DEF IInv, TypeOK, Kept
  <2> QED BY <1>1, <1>3, <1>4, <1>6, <2>1, <2>2, ReleaseKeepsTable DEF TypeOK, IInv
<1>10. Tombstones'
  <2>1. granted[p] = 0
    BY <1>1 DEF IInv, Tombstones, TypeOK
  <2>2. granted' \in [Previews -> Nat] /\ granted'[p] = 1
        /\ \A q \in Previews \ {p} : granted'[q] = granted[q]
    BY <1>3, <2>1 DEF IInv, TypeOK
  <2>3. ASSUME NEW q \in Previews
        PROVE  /\ sess'[q].st # "none" => q \in consumed'
               /\ granted'[q] <= 1 /\ (granted'[q] # 0 => q \in consumed')
    <3>1. CASE q = p
      BY <3>1, <1>3, <2>2
    <3>2. CASE q # p
      BY <3>2, <1>3, <1>5, <2>2, PrunedType DEF IInv, Tombstones
    <3> QED BY <3>1, <3>2
  <2> QED BY <2>3 DEF Tombstones
<1> QED BY <1>1, <1>8, <1>9, <1>10, ReleaseKeepsTable DEF IInv

\* The calls that end one active session and change nothing else.
LEMMA EndOneStep ==
    ASSUME IInv, NEW p \in Active, NEW st \in Ended, End({p}, st),
           KeepClocks, KeepPreviews, KeepRuntime, UNCHANGED used
    PROVE  IInv'
<1>1. {p} \in SUBSET Active
  OBVIOUS
<1>2. UNCHANGED <<wall, mono, created, pending, consumed, granted, bound, open, used>>
  BY DEF KeepClocks, KeepPreviews, KeepRuntime
<1>3. /\ wall' \in Nat /\ mono' \in Nat /\ created' \in [Previews -> Nat]
      /\ pending' \in [Previews -> Pending] /\ bound' \in SUBSET Previews
      /\ open' \in {"open", "closed"}
  BY <1>2 DEF IInv, TypeOK
<1> QED BY <1>1, <1>2, <1>3, EndStep

\* Replacing one session while its lease is taken away.
LEMMA SettleOneStep ==
    ASSUME IInv, NEW p \in Previews, NEW s \in Session, NEW o \in SUBSET Operations,
           s.runs <= MaxRuns, s.active <= MaxActive,
           s.st # "none" => sess[p].st # "none",
           sess' = [sess EXCEPT ![p] = s], Release({p}),
           used' = [used EXCEPT ![p] = o], bound' \in SUBSET Previews,
           UNCHANGED <<wall, mono, open, created, pending, consumed, granted>>
    PROVE  IInv'
<1>1. sess \in [Previews -> Session] /\ sess' \in [Previews -> Session]
  BY DEF IInv, TypeOK
<1>2. sess'[p] = s /\ \A q \in Previews \ {p} : sess'[q] = sess[q]
  BY <1>1
<1>3. \A q \in Previews : lease'[q] = IF q \in {p} THEN NoLease ELSE lease[q]
  BY ReleaseKeepsTable
<1>4. \A q \in Previews : sess[q].runs <= MaxRuns /\ sess[q].active <= MaxActive
  BY DEF IInv, LeaseInv, WithinBudget
<1>5. LeaseInv'
  BY <1>1, <1>2, <1>3, <1>4, SettlingKeepsLeases
<1>6. TypeOK'
  BY <1>1, ReleaseKeepsTable DEF IInv, TypeOK
<1>7. Tombstones'
  BY <1>2 DEF IInv, Tombstones
<1> QED BY <1>5, <1>6, <1>7, ReleaseKeepsTable DEF IInv

LEMMA UsableActive == ASSUME NEW p, Usable(p) PROVE p \in Active
BY DEF Usable

\* The account after the charge of begin_run.
LEMMA ChargedType ==
    ASSUME IInv, NEW p \in Previews, NEW r \in Reservations, FitsBudget(p, r)
    PROVE  /\ r \in Nat
           /\ Charged(p, r) \in Session
           /\ Charged(p, r).rev = sess[p].rev + 1
           /\ Charged(p, r).runs = sess[p].runs + 1
           /\ Charged(p, r).active = sess[p].active + r
           /\ Charged(p, r).st = sess[p].st
           /\ Charged(p, r).runs <= MaxRuns /\ Charged(p, r).active <= MaxActive
<1>1. r \in Nat /\ MaxRuns \in Nat /\ MaxActive \in Nat
  BY BoundsAssumption DEF Bounds
<1>2. sess[p] \in Session
  BY DEF IInv, TypeOK
<1> DEFINE s1 == Revised(sess[p])
           s2 == [s1 EXCEPT !.runs = @ + 1]
           s3 == [s2 EXCEPT !.active = @ + r]
<1>3. s1 \in Session /\ s1.rev = sess[p].rev + 1 /\ s1.runs = sess[p].runs
      /\ s1.active = sess[p].active /\ s1.st = sess[p].st
  BY <1>2, RevisedType
<1> HIDE DEF s1
<1>4. s2 \in Session /\ s2.rev = s1.rev /\ s2.runs = s1.runs + 1
      /\ s2.active = s1.active /\ s2.st = s1.st
  BY <1>3 DEF Session
<1> HIDE DEF s2
<1>5. s3 \in Session /\ s3.rev = s2.rev /\ s3.runs = s2.runs
      /\ s3.active = s2.active + r /\ s3.st = s2.st
  BY <1>1, <1>4 DEF Session
<1>6. Charged(p, r) = s3
  BY DEF Charged, s1, s2
<1> HIDE DEF s3
<1>7. sess[p].runs \in Nat /\ sess[p].active \in Nat
  BY <1>2 DEF Session
<1>8. sess[p].runs + 1 <= MaxRuns /\ sess[p].active + r <= MaxActive
  BY <1>1, <1>7 DEF FitsBudget
<1> QED BY <1>1, <1>3, <1>4, <1>5, <1>6, <1>8

LEMMA TooLateStep ==
    ASSUME IInv, NEW p \in Previews, NEW a \in Adapters, NEW op \in Operations,
           NEW r \in Reservations, BeginTooLate(p, a, op, r)
    PROVE  IInv'
<1> DEFINE c == Charged(p, r)
           s == [Revised(c) EXCEPT !.st = "expired"]
<1>1. FitsBudget(p, r) /\ Usable(p)
  BY DEF BeginTooLate, Leasable
<1>2. c \in Session /\ c.runs <= MaxRuns /\ c.active <= MaxActive
  BY <1>1, ChargedType
<1>3. /\ sess' = [sess EXCEPT ![p] = s] /\ Release({p})
      /\ used' = [used EXCEPT ![p] = used[p] \cup {op}]
      /\ UNCHANGED <<wall, mono, open, bound, created, pending, consumed, granted>>
  BY DEF BeginTooLate, KeepClocks, KeepPreviews, KeepRuntime
<1> HIDE DEF c
<1>4. Revised(c) \in Session /\ Revised(c).runs = c.runs /\ Revised(c).active = c.active
  BY <1>2, RevisedType
<1>5. s \in Session /\ s.runs = c.runs /\ s.active = c.active
  BY <1>4 DEF Session, Ended
<1>6. sess[p].st # "none"
  BY <1>1, UsableActive DEF Active
<1>7. used[p] \cup {op} \in SUBSET Operations /\ bound' \in SUBSET Previews
  BY <1>3 DEF IInv, TypeOK
<1> HIDE DEF s
<1> QED BY <1>2, <1>3, <1>5, <1>6, <1>7, SettleOneStep

LEMMA BeginRunStep ==
    ASSUME IInv, NEW p \in Previews, NEW a \in Adapters, NEW op \in Operations,
           NEW r \in Reservations, BeginRun(p, a, op, r)
    PROVE  IInv'
<1> DEFINE k == LeaseSeconds(p, r)
           n == sess[p].runs + 1
           l == [run |-> n, adapter |-> a, seconds |-> r, rev |-> sess[p].rev + 1,
                 wall |-> wall + k * Ticks, mono |-> mono + k * Ticks]
           o == [sess |-> p, run |-> n]
           c == Charged(p, r)
<1>1. /\ FitsBudget(p, r) /\ Usable(p) /\ lease[p].run = 0 /\ owner[a].run = 0
      /\ sess' = [sess EXCEPT ![p] = c] /\ lease' = [lease EXCEPT ![p] = l]
      /\ owner' = [owner EXCEPT ![a] = o] /\ k > 0
      /\ used' = [used EXCEPT ![p] = used[p] \cup {op}]
      /\ UNCHANGED <<wall, mono, open, bound, created, pending, consumed, granted>>
  BY DEF BeginRun, Leasable, KeepClocks, KeepPreviews, KeepRuntime
<1>2. /\ r \in Nat /\ c \in Session /\ c.rev = sess[p].rev + 1 /\ c.runs = n
      /\ c.active = sess[p].active + r /\ c.st = sess[p].st
      /\ c.runs <= MaxRuns /\ c.active <= MaxActive
  BY <1>1, ChargedType
<1>3. sess[p] \in Session /\ sess[p].runs \in Nat /\ sess[p].rev \in Nat
      /\ sess[p].active \in Nat /\ sess[p].st = "active" /\ sess[p].wall \in Nat
  BY <1>1, UsableActive DEF IInv, TypeOK, Session, Active
<1>4. wall + k * Ticks \in Nat /\ mono + k * Ticks \in Nat
  <2>1. wall \in Nat /\ mono \in Nat /\ Ticks \in Nat /\ Ticks > 0 /\ LeaseGrace \in Nat
    BY Constants, BoundsAssumption DEF IInv, TypeOK, Bounds
  <2>2. k \in Int
    BY <1>2, <1>3, <2>1 DEF LeaseSeconds
  <2>3. k \in Nat
    BY <1>1, <2>2
  <2> HIDE DEF k
  <2>4. k * Ticks \in Nat
    BY <2>1, <2>3, NatProduct
  <2> QED BY <2>1, <2>4
<1> HIDE DEF k, c
<1>5. /\ l \in Lease /\ l.run = n /\ l.adapter = a /\ l.seconds = r
      /\ l.rev = sess[p].rev + 1
  BY <1>2, <1>3, <1>4 DEF Lease
<1>6. o \in Owner /\ o.run = n /\ o.sess = p /\ n \in Nat /\ n # 0
  BY <1>3 DEF Owner
<1> HIDE DEF l
<1>7. TypeOK'
  BY <1>1, <1>2, <1>5, <1>6 DEF IInv, TypeOK
<1>8. /\ sess'[p] = c /\ lease'[p] = l /\ owner'[a] = o
      /\ \A q \in Previews \ {p} : sess'[q] = sess[q] /\ lease'[q] = lease[q]
      /\ \A b \in Adapters \ {a} : owner'[b] = owner[b]
  BY <1>1 DEF IInv, TypeOK
<1>9. AdapterTable'
  <2>1. ASSUME NEW b \in Adapters, owner'[b].run # 0
        PROVE  /\ owner'[b].sess \in Previews
               /\ lease'[owner'[b].sess].run = owner'[b].run
               /\ lease'[owner'[b].sess].adapter = b
    <3>1. CASE b = a
      BY <3>1, <1>5, <1>6, <1>8
    <3>2. CASE b # a
      <4>1. owner'[b] = owner[b] /\ owner[b].run # 0
        BY <3>2, <1>8, <2>1
      <4>2. /\ owner[b].sess \in Previews
            /\ lease[owner[b].sess].run = owner[b].run
            /\ lease[owner[b].sess].adapter = b
        BY <4>1 DEF IInv, AdapterTable
      <4>3. owner[b].sess # p
        BY <4>1, <4>2, <1>1
      <4> QED BY <4>1, <4>2, <4>3, <1>8
    <3> QED BY <3>1, <3>2
  <2>2. ASSUME NEW q \in Previews, lease'[q].run # 0
        PROVE  /\ lease'[q].adapter \in Adapters
               /\ owner'[lease'[q].adapter] = [sess |-> q, run |-> lease'[q].run]
    <3>1. CASE q = p
      BY <3>1, <1>5, <1>6, <1>8
    <3>2. CASE q # p
      <4>1. lease'[q] = lease[q] /\ lease[q].run # 0
        BY <3>2, <1>8, <2>2
      <4>2. /\ lease[q].adapter \in Adapters
            /\ owner[lease[q].adapter] = [sess |-> q, run |-> lease[q].run]
        BY <4>1 DEF IInv, AdapterTable
      <4>3. owner[lease[q].adapter].run # 0
        BY <4>1, <4>2
      <4>4. lease[q].adapter # a
        BY <4>3, <1>1
      <4> QED BY <4>1, <4>2, <4>4, <1>8
    <3> QED BY <3>1, <3>2
  <2> QED BY <2>1, <2>2 DEF AdapterTable
<1>10. LeaseInv'
  <2>1. r <= sess[p].active + r
    BY <1>2, <1>3
  <2>2. WithinBudget'
    BY <1>2, <1>5, <1>8, <2>1 DEF IInv, LeaseInv, WithinBudget
  <2>3. LeaseOfCurrentRevision'
    BY <1>2, <1>3, <1>5, <1>8 DEF IInv, LeaseInv, LeaseOfCurrentRevision
  <2>4. NoLeaseIsEmpty'
    BY <1>5, <1>6, <1>8 DEF IInv, LeaseInv, NoLeaseIsEmpty
  <2> QED BY <2>2, <2>3, <2>4 DEF LeaseInv
<1>11. Tombstones'
  BY <1>1, <1>2, <1>8 DEF IInv, Tombstones
<1> QED BY <1>7, <1>9, <1>10, <1>11 DEF IInv

\* The account after a settlement: the reservation is still booked, so the
\* subtraction stays in the naturals.
LEMMA SettledType ==
    ASSUME IInv, NEW p \in Previews, NEW d \in 0..lease[p].seconds
    PROVE  /\ Settled(p, d) \in Session
           /\ Settled(p, d).runs = sess[p].runs
           /\ Settled(p, d).st = sess[p].st
           /\ Settled(p, d).runs <= MaxRuns /\ Settled(p, d).active <= MaxActive
<1>1. sess[p] \in Session /\ lease[p] \in Lease
  BY DEF IInv, TypeOK
<1>2. sess[p].active \in Nat /\ lease[p].seconds \in Nat /\ d \in Nat
  BY <1>1 DEF Session, Lease
<1>3. lease[p].seconds <= sess[p].active /\ sess[p].active <= MaxActive
      /\ sess[p].runs <= MaxRuns
  BY DEF IInv, LeaseInv, WithinBudget
<1>4. sess[p].active - lease[p].seconds + d \in Nat
      /\ sess[p].active - lease[p].seconds + d <= MaxActive
  BY <1>2, <1>3, Constants
<1> DEFINE s1 == Revised(sess[p])
<1>5. s1 \in Session /\ s1.runs = sess[p].runs /\ s1.active = sess[p].active
      /\ s1.st = sess[p].st
  BY <1>1, RevisedType
<1>6. Settled(p, d) = [s1 EXCEPT !.active = s1.active - lease[p].seconds + d]
  BY DEF Settled
<1> HIDE DEF s1
<1> QED BY <1>3, <1>4, <1>5, <1>6 DEF Session

LEMMA FinishRunStep ==
    ASSUME IInv, NEW p \in Previews, NEW n, NEW d, FinishRun(p, n, d)
    PROVE  IInv'
<1>1. d \in 0..lease[p].seconds /\ sess' = [sess EXCEPT ![p] = Settled(p, d)]
      /\ Release({p})
      /\ UNCHANGED <<wall, mono, open, bound, created, pending, consumed, granted, used>>
  BY DEF FinishRun, KeepClocks, KeepPreviews, KeepRuntime
<1>2. used' = [used EXCEPT ![p] = used[p]] /\ used[p] \in SUBSET Operations
      /\ bound' \in SUBSET Previews
  BY <1>1 DEF IInv, TypeOK
<1> QED BY <1>1, <1>2, SettledType, SettleOneStep

LEMMA FailRunStep ==
    ASSUME IInv, NEW p \in Previews, NEW n, NEW d,
           NEW st \in {"failed", "exhausted"}, FailRun(p, n, d, st)
    PROVE  IInv'
<1> DEFINE f == [Settled(p, d) EXCEPT !.st = st]
<1>1. d \in 0..lease[p].seconds /\ sess' = [sess EXCEPT ![p] = f]
      /\ Release({p}) /\ Usable(p)
      /\ UNCHANGED <<wall, mono, open, bound, created, pending, consumed, granted, used>>
  BY DEF FailRun, KeepClocks, KeepPreviews, KeepRuntime, Presents
<1>2. used' = [used EXCEPT ![p] = used[p]] /\ used[p] \in SUBSET Operations
      /\ bound' \in SUBSET Previews
  BY <1>1 DEF IInv, TypeOK
<1>3. /\ Settled(p, d) \in Session
      /\ Settled(p, d).runs <= MaxRuns /\ Settled(p, d).active <= MaxActive
  BY <1>1, SettledType
<1>4. f \in Session /\ f.runs <= MaxRuns /\ f.active <= MaxActive
  BY <1>3 DEF Session, Ended
<1>5. sess[p].st # "none"
  BY <1>1, UsableActive DEF Active
<1> HIDE DEF f
<1> QED BY <1>1, <1>2, <1>4, <1>5, SettleOneStep

LEMMA ForgetStep == ASSUME IInv, NEW p \in Previews, Forget(p) PROVE IInv'
<1>1. sess' = [sess EXCEPT ![p] = NoSession] /\ Release({p})
      /\ UNCHANGED <<wall, mono, open, created, pending, consumed, granted, used>>
      /\ bound' \in SUBSET Previews
  BY DEF Forget, KeepClocks, KeepPreviews, IInv, TypeOK
<1>2. used' = [used EXCEPT ![p] = used[p]] /\ used[p] \in SUBSET Operations
  BY <1>1 DEF IInv, TypeOK
<1>3. /\ NoSession \in Session /\ NoSession.runs <= MaxRuns
      /\ NoSession.active <= MaxActive
      /\ NoSession.st # "none" => sess[p].st # "none"
  BY EmptyRecords, Constants
<1> QED BY <1>1, <1>2, <1>3, SettleOneStep

\* Ending or forgetting several sessions at once, as close does.
LEMMA SettleManyStep ==
    ASSUME IInv, NEW S, Release(S), sess' \in [Previews -> Session],
           \A p \in Previews :
              /\ sess'[p].runs <= MaxRuns /\ sess'[p].active <= MaxActive
              /\ sess'[p].st # "none" => sess[p].st # "none"
              /\ p \notin S => sess'[p] = sess[p],
           UNCHANGED <<wall, mono, created, consumed, used, granted>>,
           open' \in {"open", "closed"},
           bound' \in SUBSET Previews, pending' \in [Previews -> Pending]
    PROVE  IInv'
<1>1. LeaseInv'
  BY ReleaseKeepsTable, SettlingKeepsLeases
<1>2. TypeOK'
  BY ReleaseKeepsTable DEF IInv, TypeOK
<1>3. Tombstones'
  BY DEF IInv, Tombstones
<1> QED BY <1>1, <1>2, <1>3, ReleaseKeepsTable DEF IInv

LEMMA CloseStep == ASSUME IInv, Close PROVE IInv'
<1>1. /\ UNCHANGED <<wall, mono, created, consumed, used, granted>>
      /\ open' \in {"open", "closed"}
  BY DEF Close, KeepClocks
<1>2. \A p \in Previews : sess[p] \in Session /\ sess[p].runs <= MaxRuns
                           /\ sess[p].active <= MaxActive
  BY DEF IInv, TypeOK, LeaseInv, WithinBudget
<1>3. CASE /\ sess' = [p \in Previews |-> IF p \in bound THEN NoSession ELSE sess[p]]
           /\ Release(bound)
           /\ bound' = {}
           /\ pending' = [p \in Previews |-> NoPending]
  <2>1. sess' \in [Previews -> Session] /\ pending' \in [Previews -> Pending]
    BY <1>2, <1>3, EmptyRecords
  <2>2. ASSUME NEW p \in Previews
        PROVE  /\ sess'[p].runs <= MaxRuns /\ sess'[p].active <= MaxActive
               /\ sess'[p].st # "none" => sess[p].st # "none"
               /\ p \notin bound => sess'[p] = sess[p]
    BY <1>2, <1>3, EmptyRecords, Constants
  <2> QED BY <1>1, <1>3, <2>1, <2>2, SettleManyStep
<1>4. ASSUME NEW p \in Previews, Raises(p), NEW done \in SUBSET bound,
             sess' = [q \in Previews |-> IF q \in done THEN NoSession
                                         ELSE EndedSessions({p}, "expired")[q]],
             Release(done \cup {p}), UNCHANGED <<bound, pending>>
      PROVE  IInv'
  <2> DEFINE e == EndedSessions({p}, "expired")
  <2>1. /\ e \in [Previews -> Session]
        /\ \A q \in Previews : /\ e[q].runs = sess[q].runs /\ e[q].active = sess[q].active
                               /\ q \notin {p} => e[q] = sess[q]
    BY EndedSessionsType DEF Ended
  <2> HIDE DEF e
  <2>2. sess' = [q \in Previews |-> IF q \in done THEN NoSession ELSE e[q]]
    BY <1>4 DEF e
  <2>3. sess' \in [Previews -> Session]
    BY <2>1, <2>2, EmptyRecords
  <2>4. sess[p].st # "none"
    BY <1>4 DEF Raises, Active
  <2>5. ASSUME NEW q \in Previews
        PROVE  /\ sess'[q].runs <= MaxRuns /\ sess'[q].active <= MaxActive
               /\ sess'[q].st # "none" => sess[q].st # "none"
               /\ q \notin done \cup {p} => sess'[q] = sess[q]
    BY <1>2, <2>1, <2>2, <2>4, EmptyRecords, Constants
  <2>6. bound' \in SUBSET Previews /\ pending' \in [Previews -> Pending]
    BY <1>4 DEF IInv, TypeOK
  <2> QED BY <1>1, <1>4, <2>3, <2>5, <2>6, SettleManyStep
<1>5. CASE ~ (/\ sess' = [p \in Previews |-> IF p \in bound THEN NoSession ELSE sess[p]]
              /\ Release(bound)
              /\ bound' = {}
              /\ pending' = [p \in Previews |-> NoPending])
  <2>1. PICK p \in {q \in bound : Raises(q)},
              done \in SUBSET (bound \ {q \in bound : Raises(q)}) :
          /\ sess' = [q \in Previews |-> IF q \in done THEN NoSession
                                         ELSE EndedSessions({p}, "expired")[q]]
          /\ Release(done \cup {p})
          /\ UNCHANGED <<bound, pending>>
    BY <1>5 DEF Close
  <2>2. p \in Previews /\ Raises(p) /\ done \in SUBSET bound
    BY <2>1 DEF IInv, TypeOK
  <2> QED BY <1>4, <2>1, <2>2
<1> QED BY <1>3, <1>5

LEMMA NextInv == IInv /\ [Next]_vars => IInv'
<1> SUFFICES ASSUME IInv, [Next]_vars PROVE IInv'
  OBVIOUS
<1>1. CASE UNCHANGED vars
  <2>1. TypeOK'
    BY <1>1 DEF IInv, TypeOK, vars
  <2> QED BY <1>1, <2>1, QuietStep DEF IInv, vars
<1>2. CASE Tick
  <2>1. TypeOK'
    BY <1>2 DEF IInv, TypeOK, Tick
  <2> QED BY <1>2, <2>1, QuietStep DEF IInv, Tick
<1>3. ASSUME NEW t \in WallSteps, SetWall(t) PROVE IInv'
  <2>1. TypeOK'
    BY <1>3, BoundsAssumption DEF IInv, TypeOK, SetWall, Bounds
  <2> QED BY <1>3, <2>1, QuietStep DEF IInv, SetWall
<1>4. ASSUME NEW p \in Previews, Lapse(p) PROVE IInv'
  <2>1. p \in Active /\ "expired" \in Ended
    BY <1>4 DEF Lapse, Lapsed, Ended
  <2> QED BY <1>4, <2>1, EndOneStep DEF Lapse
<1>5. ASSUME NEW p \in Previews, NEW a \in Adapters, NEW op \in Operations,
             NEW r \in Reservations, BeginExhausted(p, a, op, r)
      PROVE  IInv'
  <2>1. p \in Active /\ "exhausted" \in Ended
    BY <1>5, UsableActive DEF BeginExhausted, Leasable, Ended
  <2> QED BY <1>5, <2>1, EndOneStep DEF BeginExhausted
<1>6. ASSUME NEW p \in Previews, NEW n, NEW st \in {"failed", "exhausted"},
             FinishRejected(p, n, st)
      PROVE  IInv'
  <2>1. p \in Active /\ st \in Ended
    BY <1>6, UsableActive DEF FinishRejected, Presents, Ended
  <2> QED BY <1>6, <2>1, EndOneStep DEF FinishRejected
<1> QED
  BY <1>1, <1>2, <1>3, <1>4, <1>5, <1>6, PreviewStep, AuthorizeStep, RefusedStep,
     UnpresentableStep, TooLateStep, BeginRunStep, FinishRunStep, FailRunStep,
     ForgetStep, CloseStep
     DEF Next

----------------------------------------------------------------------------
(* What a step does to a session that has ended.                           *)

\* The actions of a usable session change that session alone.
LEMMA UsableStepKeepsEnded ==
    ASSUME IInv, NEW p \in Previews, Usable(p), NEW s,
           sess' = [sess EXCEPT ![p] = s],
           NEW q \in Previews, sess[q].st \in Ended
    PROVE  sess'[q] = sess[q]
<1>1. p # q
  BY UsableActive DEF Active, Ended
<1> QED BY <1>1 DEF IInv, TypeOK

\* _end changes only active sessions.
LEMMA EndStepKeepsEnded ==
    ASSUME IInv, NEW S \in SUBSET Active, NEW st \in Ended, End(S, st),
           NEW q \in Previews, sess[q].st \in Ended
    PROVE  sess'[q] = sess[q]
BY EndKeeps

LEMMA AuthorizeKeepsEnded ==
    ASSUME IInv, NEW p \in Previews, Authorize(p),
           NEW q \in Previews, sess[q].st \in Ended
    PROVE  sess'[q] \in {sess[q], NoSession}
<1>1. PICK out \in Evictions :
        p \notin consumed /\ \E s : sess' = [PrunedSessions(out) EXCEPT ![p] = s]
  BY DEF Authorize, Grantable
<1>2. p # q
  BY <1>1 DEF IInv, Tombstones, Ended
<1>3. PrunedSessions(out) \in [Previews -> Session]
      /\ PrunedSessions(out)[q] \in {sess[q], NoSession}
  BY <1>1, PrunedType
<1> QED BY <1>1, <1>2, <1>3

LEMMA RefusedKeepsEnded ==
    ASSUME IInv, NEW p \in Previews, AuthorizeRefused(p),
           NEW q \in Previews, sess[q].st \in Ended
    PROVE  sess'[q] \in {sess[q], NoSession}
BY PrunedType DEF AuthorizeRefused

LEMMA CloseKeepsEnded ==
    ASSUME IInv, Close, NEW q \in Previews, sess[q].st \in Ended
    PROVE  sess'[q] \in {sess[q], NoSession}
<1>1. CASE sess' = [p \in Previews |-> IF p \in bound THEN NoSession ELSE sess[p]]
  BY <1>1
<1>2. CASE \E p \in Previews, done \in SUBSET bound :
             /\ p \in Active
             /\ sess' = [r \in Previews |-> IF r \in done THEN NoSession
                                            ELSE EndedSessions({p}, "expired")[r]]
  <2>1. PICK p \in Previews, done \in SUBSET bound :
             /\ p \in Active
             /\ sess' = [r \in Previews |-> IF r \in done THEN NoSession
                                            ELSE EndedSessions({p}, "expired")[r]]
    BY <1>2
  <2>2. p # q
    BY <2>1 DEF Active, Ended
  <2>3. EndedSessions({p}, "expired")[q] = sess[q]
    BY <2>2, EndedSessionsType DEF Ended
  <2> QED BY <2>1, <2>3
<1>3. bound \in SUBSET Previews
  BY DEF IInv, TypeOK
<1> QED BY <1>1, <1>2, <1>3 DEF Close, Raises

LEMMA NextKeepsEnded ==
    ASSUME IInv, Next, NEW q \in Previews, sess[q].st \in Ended
    PROVE  sess'[q] \in {sess[q], NoSession}
<1>1. CASE Tick \/ \E t \in WallSteps : SetWall(t)
  BY <1>1 DEF Tick, SetWall
<1>2. CASE Close
  BY <1>2, CloseKeepsEnded
<1>3. ASSUME NEW p \in Previews, Preview(p) \/ AuthorizeUnpresentable(p)
      PROVE  sess'[q] = sess[q]
  <2>1. End(Lapsed \cap bound, "expired") /\ "expired" \in Ended
    BY <1>3 DEF Preview, AuthorizeUnpresentable, Ended
  <2> QED BY <2>1, LapsedActive, EndStepKeepsEnded
<1>4. ASSUME NEW p \in Previews, NEW st \in Ended, p \in Active, End({p}, st)
      PROVE  sess'[q] = sess[q]
  BY <1>4, EndStepKeepsEnded
<1>5. ASSUME NEW p \in Previews, Forget(p)
      PROVE  sess'[q] \in {sess[q], NoSession}
  BY <1>5 DEF Forget, IInv, TypeOK
<1>6. ASSUME NEW p \in Previews, Lapse(p)
      PROVE  sess'[q] = sess[q]
  BY <1>4, <1>6 DEF Lapse, Lapsed, Ended
<1>7. ASSUME NEW p \in Previews, NEW a, NEW op, NEW r,
             BeginRun(p, a, op, r) \/ BeginTooLate(p, a, op, r)
      PROVE  sess'[q] = sess[q]
  BY <1>7, UsableStepKeepsEnded DEF BeginRun, BeginTooLate, Leasable
<1>8. ASSUME NEW p \in Previews, NEW a, NEW op, NEW r, BeginExhausted(p, a, op, r)
      PROVE  sess'[q] = sess[q]
  <2>1. p \in Active /\ End({p}, "exhausted") /\ "exhausted" \in Ended
    BY <1>8, UsableActive DEF BeginExhausted, Leasable, Ended
  <2> QED BY <1>4, <2>1
<1>9. ASSUME NEW p \in Previews, NEW n, NEW st \in {"failed", "exhausted"},
             FinishRejected(p, n, st)
      PROVE  sess'[q] = sess[q]
  <2>1. p \in Active /\ End({p}, st) /\ st \in Ended
    BY <1>9, UsableActive DEF FinishRejected, Presents, Ended
  <2> QED BY <1>4, <2>1
<1>10. ASSUME NEW p \in Previews, NEW n, NEW d, NEW st,
              FinishRun(p, n, d) \/ FailRun(p, n, d, st)
       PROVE  sess'[q] = sess[q]
  BY <1>10, UsableStepKeepsEnded DEF FinishRun, FailRun, Presents
<1> QED
  BY <1>1, <1>2, <1>3, <1>5, <1>6, <1>7, <1>8, <1>9, <1>10,
     AuthorizeKeepsEnded, RefusedKeepsEnded
     DEF Next

----------------------------------------------------------------------------
(* Theorems.                                                               *)

LEMMA Invariant == Spec => []IInv
BY InitInv, NextInv, PTL DEF Spec

\* The state of the authority and of its connection-bound front is well typed.
THEOREM TypeCorrect == Spec => []TypeOK
BY Invariant, PTL DEF IInv

\* _active_adapters and the live leases always agree: one operation per
\* Adapter, and no Adapter stays taken by a lease nobody holds.
THEOREM AdapterTableHolds == Spec => []AdapterTable
BY Invariant, PTL DEF IInv

\* The confirmed budgets are never exceeded, whatever is reserved, refunded,
\* failed or expired.
THEOREM BudgetHolds == Spec => []WithinBudget
BY Invariant, PTL DEF IInv, LeaseInv

\* A lease is always settled against the revision that charged it.
THEOREM LeaseRevisionHolds == Spec => []LeaseOfCurrentRevision
BY Invariant, PTL DEF IInv, LeaseInv

\* A Preview is authorized at most once even when the wall clock is set back.
THEOREM SingleUseHolds == Spec => []PreviewSingleUse
<1>1. IInv => PreviewSingleUse
  BY DEF IInv, Tombstones, PreviewSingleUse
<1> QED BY <1>1, Invariant, PTL

\* A session that was revoked, expired, exhausted or failed never runs again
\* and its account never changes, whatever is called afterwards.
THEOREM EndedForGoodHolds == Spec => EndedForGood
<1>1. IInv /\ [Next]_vars =>
        [\A p \in Previews : sess[p].st \in Ended =>
            sess'[p] \in {sess[p], NoSession}]_vars
  BY NextKeepsEnded
<1> QED BY <1>1, Invariant, PTL DEF Spec, EndedForGood
=============================================================================
