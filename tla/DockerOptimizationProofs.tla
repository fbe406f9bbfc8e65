---------------------- MODULE DockerOptimizationProofs ----------------------
(***************************************************************************)
(* Proofs about Docker optimization sessions, for every number of previews *)
(* and every budget the contract admits: the budgets hold, what builds and *)
(* workloads took is charged, the Runs a session counts are saved, and no  *)
(* lease outlives its call.                                                *)
(*                                                                         *)
(* The actions are first brought down to a few elementary steps on the     *)
(* account of a session; each part of the invariant is then shown to be    *)
(* kept by the elementary steps.                                           *)
(***************************************************************************)
EXTENDS DockerOptimization, FiniteSetTheorems, TLAPS

----------------------------------------------------------------------------
(* The invariant.                                                          *)

\* The states a session ends in, and those its Runtime Lock results are usable in.
EndStates == {"revoked", "expired", "exhausted", "failed"}
Usables == {"active", "partial"}

\* The types of the records.
LeaseType == [kind : {"none", "build", "workload"}, round : Rounds, reserved : Nat, expires : Int]
Session ==
    [state : {"none", "active"} \cup EndStates, expires : Nat, lease : LeaseType,
     attempts : [Rounds -> Nat],
     builds : 0 .. MaxBuilds, rounds : Rounds, retries : 0 .. MaxRetries,
     seconds : 0 .. TotalBuildSeconds, images : 0 .. MaxImages,
     baseline : Rounds \cup {NoBuild}, candidate : Rounds \cup {NoBuild},
     runs : 0 .. MaxRuns, amount : 0 .. ActiveAmount,
     done : [1 .. MaxRuns -> {"none", "fresh", "charged", "published", "poisoned"}],
     lock : Usables \cup {"exhausted", "unavailable"},
     lockRuns : 0 .. LockRuns, lockAmount : 0 .. LockAmount]
Some == Manifests \cup {"none"}
Owned ==
    [entry : {"none", "open", "consumed", "gone"}, expires : Nat,
     session : {"none", "known", "dropped"}, dir : {"none", "present", "removed"},
     builds : SUBSET Rounds, made : [Rounds -> Some], latest : Some, rest : Some,
     blocked : {"no", "yes"}, released : {"no", "yes"}]
Revised == [state : {"none", "active"} \cup EndStates,
            lock : Usables \cup {"exhausted", "unavailable"}, lockRuns : Nat]

\* The steps of a call while a build or a workload may hold its lease, while the
\* run of a workload is not yet saved, and before a revision is saved.
Building == {"building", "built", "toolFailed", "otherFailed"}
Working == {"collecting", "collected", "collectFailed"}
Uncharged == {"saveEvidence", "charge"}
Saving == {"register", "saveParent", "saveSession", "saveFailed"}
Steps == {"idle", "finishFailed", "saveRun", "publish", "lockFailed"}
            \cup Building \cup Working \cup Uncharged \cup Saving

Calls == [pc : Steps, p : Previews \cup {"none"}, round : Rounds, began : Nat, amount : Nat,
          lock : {"yes", "no"}, manifest : Some, revision : Revised]

Types ==
    /\ now \in 0 .. MaxTime
    /\ tree \in [mutable : Manifests, rest : Manifests]
    /\ auth \in [Previews -> Session]
    /\ own \in [Previews -> Owned]
    /\ images \in [Previews -> SUBSET Rounds]
    /\ store \in [Previews -> [revisions : SUBSET Revised, runs : SUBSET (1 .. MaxRuns)]]
    /\ call \in Calls
    /\ spent \in [Previews -> [build : Nat, work : Nat]]

\* A call is about a session that was authorized.
CallInv ==
    /\ call.pc # "idle" => call.p \in Previews /\ auth[call.p].state # "none"
    /\ call.began <= now
    /\ call.pc \in Uncharged => call.lock = "yes"

\* What the runtime knows of a session and what the authority does.
OwnInv ==
    \A p \in Previews :
        /\ own[p].entry \in {"none", "open"} => own[p].session = "none"
        /\ own[p].session = "none" <=> auth[p].state = "none"
        /\ own[p].session = "dropped" => auth[p].state \in EndStates
        /\ auth[p].state = "none" => /\ spent[p].build = 0 /\ spent[p].work = 0
                                     /\ store[p].revisions = {} /\ store[p].runs = {}

\* A lease belongs to the call in progress; while the session is active the call
\* has it.
LeaseInv ==
    /\ \A p \in Previews :
          auth[p].lease # NoLease =>
              /\ auth[p].state = "active" /\ call.p = p
              /\ call.pc \in Building \cup Working
    /\ (call.pc \in Building /\ auth[call.p].state = "active") =>
          auth[call.p].lease.reserved = BuildSeconds
    /\ call.pc = "finishFailed" => auth[call.p].state # "active"

\* Use is booked, and the reservation of an unsettled build or workload besides.
ChargeInv ==
    /\ \A p \in Previews :
          /\ spent[p].build <= auth[p].seconds /\ spent[p].work <= auth[p].amount
          /\ auth[p].lockAmount <= auth[p].amount /\ auth[p].lockRuns <= auth[p].runs
    /\ call.pc \in Building \cup {"finishFailed"} =>
          spent[call.p].build + BuildSeconds <= auth[call.p].seconds
    /\ (call.pc \in Working /\ auth[call.p].state = "active") =>
          /\ spent[call.p].work + auth[call.p].lease.reserved <= auth[call.p].amount
          /\ auth[call.p].lockAmount + auth[call.p].lease.reserved <= auth[call.p].amount
    /\ call.pc \in Working \cup Uncharged => auth[call.p].lockRuns + 1 <= auth[call.p].runs
    /\ call.pc \in Uncharged =>
          auth[call.p].lockAmount + call.amount <= auth[call.p].amount

\* Runs are numbered by the workloads of their session, and saved once.
RunInv ==
    /\ \A p \in Previews : store[p].runs \subseteq 1 .. auth[p].runs
    /\ call.pc \in Working \cup Uncharged \cup {"saveRun"} =>
          auth[call.p].runs \notin store[call.p].runs /\ auth[call.p].runs >= 1

\* The Runs a session may count: those in the store, and the one a call is about to
\* save.
Countable(p) == Cardinality(store[p].runs)
                   + (IF call.p = p /\ call.pc = "saveRun" THEN 1 ELSE 0)
Counted(v, n) == (v.state = "active" /\ v.lock \in Usables) => v.lockRuns <= n

LockInv ==
    /\ (call.pc \in Working \cup Uncharged /\ call.lock = "yes") => auth[call.p].lock \in Usables
    /\ \A p \in Previews :
          (call.pc = "lockFailed" /\ call.p = p) \/ Counted(auth[p], Countable(p))
    /\ \A p \in Previews : \A v \in store[p].revisions : Counted(v, Cardinality(store[p].runs))
    /\ call.pc \in Saving \cup {"saveRun"} => Counted(call.revision, Countable(call.p))

AccountInv == Types /\ CallInv /\ OwnInv /\ LeaseInv /\ ChargeInv /\ RunInv /\ LockInv

----------------------------------------------------------------------------
(* The elementary steps: what the actions do to the account of a session,  *)
(* to what the runtime knows of it and to the call.                        *)

\* b has the account of a; b is like a but for its attempts and results; b is the
\* end of a.
SameWork(a, b) == b.amount = a.amount /\ b.runs = a.runs
SameLock(a, b) == b.lock = a.lock /\ b.lockRuns = a.lockRuns /\ b.lockAmount = a.lockAmount
Booked(a, b) == b.seconds = a.seconds /\ SameWork(a, b) /\ SameLock(a, b)
Alike(a, b) == b.state = a.state /\ b.lease = a.lease /\ Booked(a, b)
Ends(a, b) ==
    /\ a.state = "active" /\ b.state \in EndStates /\ b.lease = NoLease
    /\ Booked(a, b)

Continues(a, b) == Alike(a, b) \/ Ends(a, b)

\* The runtime goes on with what it owns, discards the entry, or drops a session
\* that ended; o becomes n while the session becomes b.
Kept(o, n, b) ==
    /\ \/ n.session = o.session
       \/ o.session = "known" /\ n.session = "dropped" /\ b.state \in EndStates
    /\ \/ n.entry \in {o.entry, "gone"}
       \/ o.entry = "none" /\ n.entry = "open" /\ n.session = "none"

Stays(p) == Continues(auth[p], auth'[p])
Keeps(p) == Kept(own[p], own'[p], auth'[p])

Others(p) == \A q \in Previews \ {p} : auth'[q] = auth[q]
SameOwn == \A p \in Previews : own'[p].session = own[p].session /\ own'[p].entry = own[p].entry
KeepsOwn == \A p \in Previews : Keeps(p)
SameBooks == UNCHANGED <<now, store, spent>>

\* The call goes on with step pc.
Goes(pc) ==
    /\ call'.pc = pc /\ call'.p = call.p /\ call'.began = call.began
    /\ call'.lock = call.lock /\ call'.round = call.round

\* Nothing is booked: time, edits, previews, revocations and the timer.
Quiet ==
    /\ now <= now' /\ UNCHANGED <<store, call, spent>>
    /\ \A p \in Previews : Stays(p) /\ Keeps(p)

Authorized(p) ==
    /\ call.pc = "idle" /\ own[p].entry = "open"
    /\ own'[p].session = "known" /\ own'[p].entry = "consumed"
    /\ auth'[p].state = "active" /\ auth'[p].lease = NoLease
    /\ auth'[p].seconds = 0 /\ auth'[p].amount = 0 /\ auth'[p].runs = 0
    /\ auth'[p].lock = "active" /\ auth'[p].lockRuns = 0 /\ auth'[p].lockAmount = 0
    /\ \A q \in Previews \ {p} : Stays(q) /\ Keeps(q)
    /\ SameBooks /\ UNCHANGED call

\* An operation is charged and leased, or charged when no second is left.
BuildBegun(p) ==
    /\ call.pc = "idle" /\ auth[p].state = "active" /\ auth'[p].state = "active"
    /\ auth'[p].seconds = auth[p].seconds + BuildSeconds
    /\ SameWork(auth[p], auth'[p]) /\ SameLock(auth[p], auth'[p])
    /\ auth'[p].lease.reserved = BuildSeconds
    /\ call'.pc = "building" /\ call'.p = p /\ call'.began = now
    /\ Others(p) /\ SameOwn /\ SameBooks

WorkloadBegun(p, n) ==
    /\ call.pc = "idle" /\ auth[p].state = "active" /\ auth'[p].state = "active"
    /\ auth'[p].amount = auth[p].amount + n /\ auth'[p].runs = auth[p].runs + 1
    /\ auth'[p].seconds = auth[p].seconds /\ SameLock(auth[p], auth'[p])
    /\ auth'[p].lease.reserved = n
    /\ call'.pc = "collecting" /\ call'.p = p /\ call'.began = 0 /\ call'.amount = n
    /\ call'.lock = "yes" => auth[p].lock \in Usables
    /\ Others(p) /\ SameOwn /\ SameBooks

BegunTooLate(p) ==
    /\ call.pc = "idle" /\ auth[p].state = "active" /\ auth'[p].state \in EndStates
    /\ auth[p].seconds <= auth'[p].seconds /\ auth[p].amount <= auth'[p].amount
    /\ auth[p].runs <= auth'[p].runs
    /\ SameLock(auth[p], auth'[p]) /\ auth'[p].lease = NoLease
    /\ Others(p) /\ SameOwn /\ SameBooks /\ UNCHANGED call

\* The call goes on and nothing is booked.
Moves == \/ call.pc = "building" /\ Goes("built")
         \/ call.pc = "building" /\ (Goes("toolFailed") \/ Goes("otherFailed"))
         \/ call.pc = "built" /\ Goes("finishFailed") /\ auth'[call.p].state # "active"
         \/ call.pc = "collecting" /\ (Goes("collected") \/ Goes("collectFailed"))
         \/ call.pc = "collected" /\ Goes("collectFailed")
         \/ call.pc = "saveEvidence" /\ Goes("charge") /\ call'.amount = call.amount
         \/ call.pc \in Uncharged \cup {"saveRun", "saveParent", "publish"} /\ Goes("lockFailed")
         \/ /\ call.pc \in {"collectFailed", "lockFailed"} /\ Goes("saveFailed")
            /\ auth'[call.p].state # "active" /\ call'.revision.state # "active"
Moved == Moves /\ SameBooks /\ \A p \in Previews : Stays(p) /\ Keeps(p)

BuildFinished ==
    /\ call.pc = "built" /\ Goes("register")
    /\ LET p == call.p  e == now - call.began IN
       /\ auth[p].state = "active" /\ auth'[p].state = "active" /\ auth'[p].lease = NoLease
       /\ e <= BuildSeconds /\ auth'[p].seconds = auth[p].seconds - BuildSeconds + e
       /\ SameWork(auth[p], auth'[p]) /\ SameLock(auth[p], auth'[p])
       /\ call'.revision = Revision(auth'[p])
       /\ spent'[p].build = spent[p].build + e /\ spent'[p].work = spent[p].work
       /\ \A q \in Previews \ {p} : spent'[q] = spent[q]
    /\ Others(call.p) /\ SameOwn /\ UNCHANGED <<now, store>>

\* fail_build settles with what was taken, or meets a session that has ended.
BuildFailed ==
    /\ call.pc \in Building \cup {"finishFailed"} /\ call' = Idle
    /\ LET p == call.p IN
       \E t \in 0 .. BuildSeconds :
          /\ auth'[p].state \in {auth[p].state} \cup EndStates /\ auth'[p].lease = NoLease
          /\ auth[p].seconds - BuildSeconds + t <= auth'[p].seconds
          /\ SameWork(auth[p], auth'[p]) /\ SameLock(auth[p], auth'[p])
          /\ spent'[p].build = spent[p].build + t /\ spent'[p].work = spent[p].work
          /\ \A q \in Previews \ {p} : spent'[q] = spent[q]
    /\ Others(call.p) /\ KeepsOwn /\ UNCHANGED <<now, store>>

\* finish_workload, or fail_workload, settles.
WorkloadSettled ==
    /\ LET p == call.p  reserved == auth[p].lease.reserved IN
       /\ auth[p].state = "active" /\ auth'[p].state = "active" /\ auth'[p].lease = NoLease
       /\ call.amount <= reserved /\ auth'[p].amount = auth[p].amount - reserved + call.amount
       /\ auth'[p].runs = auth[p].runs /\ auth'[p].seconds = auth[p].seconds
       /\ auth'[p].lockRuns = auth[p].lockRuns /\ auth'[p].lockAmount = auth[p].lockAmount
       /\ \/ /\ call.pc = "collected" /\ auth'[p].lock = auth[p].lock
             /\ Goes(IF call.lock = "yes" THEN "saveEvidence" ELSE "saveSession")
          \/ /\ call.pc = "collectFailed" /\ Goes("saveFailed")
             /\ auth'[p].lock = IF call.lock = "yes" THEN "unavailable" ELSE auth[p].lock
       /\ call'.amount = call.amount /\ call'.revision = Revision(auth'[p])
       /\ spent'[p].build = spent[p].build /\ spent'[p].work = spent[p].work + call.amount
       /\ \A q \in Previews \ {p} : spent'[q] = spent[q]
    /\ Others(call.p) /\ SameOwn /\ UNCHANGED <<now, store>>

\* A Runtime Lock run is charged, or spoiled.
LockCharged ==
    /\ call.pc = "charge" /\ Goes("saveRun")
    /\ LET p == call.p IN
       /\ auth[p].state = "active" /\ auth'[p].state = "active" /\ auth'[p].lease = auth[p].lease
       /\ auth'[p].seconds = auth[p].seconds /\ SameWork(auth[p], auth'[p])
       /\ auth'[p].lock \in Usables /\ auth'[p].lockRuns = auth[p].lockRuns + 1
       /\ auth'[p].lockAmount - auth[p].lockAmount <= call.amount
       /\ call'.revision = Revision(auth'[p])
    /\ Others(call.p) /\ SameOwn /\ SameBooks

LockSpoiled ==
    /\ LET p == call.p IN
       /\ auth[p].state = "active" /\ auth'[p].state = "active" /\ auth'[p].lease = auth[p].lease
       /\ auth'[p].seconds = auth[p].seconds /\ SameWork(auth[p], auth'[p])
       /\ auth'[p].lock \notin Usables /\ auth'[p].lockRuns = auth[p].lockRuns
       /\ auth'[p].lockAmount = auth[p].lockAmount
       /\ \/ call.pc = "charge" /\ Goes("lockFailed")
          \/ /\ call.pc = "lockFailed" /\ Goes("saveFailed")
             /\ call'.revision = Revision(auth'[p])
    /\ Others(call.p) /\ SameOwn /\ SameBooks

\* Saves.
RunSaved ==
    /\ call.pc = "saveRun" /\ Goes("saveParent") /\ call'.revision = call.revision
    /\ store'[call.p].runs = store[call.p].runs \cup {auth[call.p].runs}
    /\ store'[call.p].revisions = store[call.p].revisions
    /\ \A q \in Previews \ {call.p} : store'[q] = store[q]
    /\ SameOwn /\ UNCHANGED <<now, auth, spent>>

RevisionSaved ==
    /\ call.pc \in Saving
    /\ call' = Idle \/ (call.pc = "saveParent" /\ Goes("publish"))
    /\ \A q \in Previews :
          /\ store'[q].runs = store[q].runs
          /\ store'[q].revisions \subseteq
                store[q].revisions \cup (IF q = call.p THEN {call.revision} ELSE {})
    /\ SameOwn /\ UNCHANGED <<now, auth, spent>>

Published ==
    /\ call.pc = "publish" /\ call' = Idle
    /\ \A p \in Previews : Alike(auth[p], auth'[p])
    /\ SameOwn /\ SameBooks

Elementary ==
    \/ Quiet \/ Moved \/ BuildFinished \/ BuildFailed \/ WorkloadSettled
    \/ \E p \in Previews : Authorized(p) \/ BuildBegun(p) \/ BegunTooLate(p)
    \/ \E p \in Previews, n \in Nat : WorkloadBegun(p, n)
    \/ LockCharged \/ LockSpoiled \/ RunSaved \/ RevisionSaved \/ Published

----------------------------------------------------------------------------
(* Lemmas about the operators.                                             *)

\* The limits of the budget.
LEMMA Limits ==
  /\ PreviewSeconds \in Nat /\ HardExpiry \in Nat \ {0} /\ Grace \in Nat /\ MaxTime \in Nat
  /\ MaxRounds \in Nat /\ MaxBuilds \in Nat /\ MaxRetries \in Nat
  /\ BuildSeconds \in Nat \ {0} /\ TotalBuildSeconds \in Nat /\ MaxImages \in Nat \ {0}
  /\ MaxRuns \in Nat \ {0} /\ ActiveAmount \in Nat \ {0} /\ LockRuns \in Nat /\ LockAmount \in Nat
<1> DEFINE limits == {MaxPending, MaxActive, PreviewSeconds, HardExpiry, MaxRounds, MaxRuns,
                      BuildSeconds, ActiveAmount, MaxImages, LockRuns, LockAmount}
<1>1. \A n \in limits : n \in Nat \ {0}
  BY BudgetAssumption DEF BudgetRelations
<1>2. {PreviewSeconds, HardExpiry, MaxRounds, MaxRuns, BuildSeconds, ActiveAmount, MaxImages,
       LockRuns, LockAmount} \subseteq Nat \ {0}
  BY ONLY <1>1
<1>3. /\ Grace \in Nat /\ MaxTime \in Nat /\ MaxRetries \in {0, 1} /\ MaxBuilds \in Nat
      /\ TotalBuildSeconds \in Nat
  BY BudgetAssumption DEF BudgetRelations
<1> QED BY <1>2, <1>3

\* The numbers of a session, of the history and of a call.
LEMMA SessionFields ==
  ASSUME NEW a \in Session
  PROVE  /\ a.seconds \in Nat /\ a.amount \in Nat /\ a.runs \in Nat
         /\ a.lockRuns \in Nat /\ a.lockAmount \in Nat /\ a.lease.reserved \in Nat
         /\ a.state \in {"none", "active"} \cup EndStates
<1>1. a.lease \in LeaseType
  BY DEF Session
<1>2. /\ a.seconds \in 0 .. TotalBuildSeconds /\ a.amount \in 0 .. ActiveAmount
      /\ a.runs \in 0 .. MaxRuns /\ a.lockRuns \in 0 .. LockRuns
      /\ a.lockAmount \in 0 .. LockAmount /\ a.state \in {"none", "active"} \cup EndStates
  BY DEF Session
<1>3. a.lease.reserved \in Nat
  BY <1>1 DEF LeaseType
<1> QED BY <1>2, <1>3, Limits

\* The same of the sessions and the history of a state.
LEMMA SessionTypes ==
  ASSUME Types, NEW p \in Previews
  PROVE  /\ auth[p].seconds \in Nat /\ auth[p].amount \in Nat /\ auth[p].runs \in Nat
         /\ auth[p].lockRuns \in Nat /\ auth[p].lockAmount \in Nat
         /\ auth[p].lease.reserved \in Nat
         /\ spent[p].build \in Nat /\ spent[p].work \in Nat
         /\ auth[p].state \in {"none", "active"} \cup EndStates
<1>1. auth[p] \in Session /\ spent[p] \in [build : Nat, work : Nat]
  BY DEF Types
<1> QED BY <1>1, SessionFields

\* The fields of the call.
LEMMA CallTypes ==
  ASSUME Types
  PROVE  /\ call.pc \in Steps /\ call.began \in Nat /\ call.amount \in Nat /\ now \in Nat
         /\ call.revision \in Revised /\ call.revision.lockRuns \in Nat
         /\ call.p \in Previews \cup {"none"}
<1> QED BY Limits DEF Types, Calls, Revised

\* The initial call, and what no lease reserves.
LEMMA IdleFields ==
  /\ Idle.pc = "idle" /\ Idle.began = 0 /\ Idle.p = "none" /\ Idle.amount = 0
  /\ NoLease.reserved = 0
<1> QED BY DEF Idle, NoLease

\* The saved Runs of a session are finitely many.
LEMMA RunsFinite ==
  ASSUME Types, NEW p \in Previews
  PROVE  IsFiniteSet(store[p].runs) /\ Cardinality(store[p].runs) \in Nat
<1>1. store[p].runs \subseteq 1 .. MaxRuns
  BY DEF Types
<1>2. IsFiniteSet(1 .. MaxRuns)
  BY FS_Interval, Limits
<1>3. IsFiniteSet(store[p].runs)
  BY <1>1, <1>2, FS_Subset
<1> QED BY <1>3, FS_CardinalityType

\* _end gives up the lease and keeps the account.
LEMMA EndEnds ==
  ASSUME NEW a \in Session, a.state = "active", NEW s \in EndStates
  PROVE  End(a, s) \in Session /\ Ends(a, End(a, s))
<1>1. NoLease \in LeaseType
  BY Limits DEF NoLease, LeaseType, Rounds
<1>2. End(a, s) \in Session
  BY <1>1 DEF End, Session
<1>3. End(a, s).state = s /\ End(a, s).lease = NoLease /\ Booked(a, End(a, s))
  BY DEF End, Session, Booked, SameWork, SameLock
<1> QED BY <1>2, <1>3 DEF Ends

\* _require changes a session only to end it.
LEMMA SeenContinues ==
  ASSUME NEW a \in Session
  PROVE  /\ Seen(a) \in Session /\ Continues(a, Seen(a))
         /\ Usable(a) => a.state = "active" /\ Seen(a) = a
         /\ ~Usable(a) => Seen(a).state # "active"
<1>1. Alike(a, a)
  BY DEF Alike, Booked, SameWork, SameLock
<1>2. CASE a.state = "active" /\ (now >= a.expires \/ Lapsed(a))
  <2>1. Seen(a) = End(a, "expired")
    BY <1>2 DEF Seen
  <2>2. Seen(a) \in Session /\ Ends(a, Seen(a))
    BY <1>2, <2>1, EndEnds DEF EndStates
  <2>3. Seen(a).state # "active"
    BY <2>2 DEF Ends, EndStates
  <2> QED BY <2>2, <2>3 DEF Continues, Usable
<1>3. CASE ~(a.state = "active" /\ (now >= a.expires \/ Lapsed(a)))
  <2>1. Seen(a) = a
    BY <1>3 DEF Seen
  <2> QED BY <1>1, <2>1 DEF Continues, Usable
<1> QED BY <1>2, <1>3

\* What ends a session for its caller.
LEMMA EndedContinues ==
  ASSUME NEW a \in Session, NEW s \in EndStates
  PROVE  LET b == IF Usable(a) THEN End(a, s) ELSE Seen(a)
         IN  b \in Session /\ Continues(a, b) /\ b.state # "active"
<1>1. CASE Usable(a)
  <2>1. End(a, s) \in Session /\ Ends(a, End(a, s))
    BY <1>1, SeenContinues, EndEnds
  <2> QED BY <1>1, <2>1 DEF Continues, Ends, EndStates
<1>2. CASE ~Usable(a)
  BY <1>2, SeenContinues
<1> QED BY <1>1, <1>2

\* A release keeps what the runtime knows of the session.
LEMMA ReleasedKept ==
  ASSUME NEW o \in Owned
  PROVE  /\ Released(o) \in Owned /\ Released(o).session = o.session
         /\ Released(o).entry \in {o.entry, "gone"}
<1> QED BY DEF Released, Owned

\* A session the runtime releases keeps what the runtime knows of it, or is dropped.
LEMMA DroppedKept ==
  ASSUME NEW o \in Owned, NEW b, b.state \in EndStates, o.session = "known"
  PROVE  LET n == [Released(o) EXCEPT !.session = "dropped"]
         IN  n \in Owned /\ Kept(o, n, b)
<1> DEFINE r == Released(o)
           n == [r EXCEPT !.session = "dropped"]
<1>1. r \in Owned /\ r.entry \in {o.entry, "gone"}
  BY ReleasedKept
<1> HIDE DEF r
<1>2. n \in Owned /\ n.session = "dropped" /\ n.entry = r.entry
  BY <1>1 DEF Owned
<1> HIDE DEF n
<1>3. Kept(o, n, b)
  BY <1>1, <1>2 DEF Kept
<1> QED BY <1>2, <1>3 DEF n, r

\* A preview that is discarded.
LEMMA DiscardedKept ==
  ASSUME NEW o \in Owned, NEW b
  PROVE  LET n == [o EXCEPT !.entry = "gone", !.dir = "removed"]
         IN  n \in Owned /\ Kept(o, n, b)
<1> QED BY DEF Owned, Kept

\* A known session that is not active has ended.
LEMMA KnownEnded ==
  ASSUME Types, OwnInv, NEW p \in Previews, own[p].session # "none", NEW b \in Session,
         Continues(auth[p], b), b.state # "active"
  PROVE  b.state \in EndStates
<1>1. auth[p].state # "none"
  BY DEF OwnInv
<1>2. b.state \in {"none", "active"} \cup EndStates
  BY SessionFields
<1> QED BY <1>1, <1>2 DEF Continues, Alike, Ends

\* The prunes end sessions and discard entries.
LEMMA PruneQuiet ==
  ASSUME Types, OwnInv, NEW q \in Previews
  PROVE  /\ PrunedAuth[q] \in Session /\ Continues(auth[q], PrunedAuth[q])
         /\ PrunedOwn[q] \in Owned /\ Kept(own[q], PrunedOwn[q], PrunedAuth[q])
         /\ PrunedImages[q] \in SUBSET Rounds
<1>1. auth[q] \in Session /\ own[q] \in Owned /\ images[q] \in SUBSET Rounds
  BY DEF Types
<1>2. PrunedAuth[q] = IF q \in Known THEN Seen(auth[q]) ELSE auth[q]
  BY DEF PrunedAuth
<1>3. PrunedAuth[q] \in Session /\ Continues(auth[q], PrunedAuth[q])
  BY <1>1, <1>2, SeenContinues DEF Continues, Alike, Booked, SameWork, SameLock
<1>4. PrunedOwn[q] =
        IF Discarded(own[q]) THEN [own[q] EXCEPT !.entry = "gone", !.dir = "removed"]
        ELSE IF q \in Known /\ ~Usable(auth[q])
        THEN [Released(own[q]) EXCEPT !.session = "dropped"]
        ELSE own[q]
  BY DEF PrunedOwn
<1>5. PrunedOwn[q] \in Owned /\ Kept(own[q], PrunedOwn[q], PrunedAuth[q])
  <2>1. CASE Discarded(own[q])
    BY <1>1, <1>4, <2>1, DiscardedKept
  <2>2. CASE ~Discarded(own[q]) /\ q \in Known /\ ~Usable(auth[q])
    <3>1. own[q].session = "known" /\ PrunedAuth[q].state # "active"
      BY <1>1, <1>2, <2>2, SeenContinues DEF Known
    <3>2. PrunedAuth[q].state \in EndStates
      BY <1>3, <3>1, KnownEnded
    <3> QED BY <1>1, <1>4, <2>2, <3>1, <3>2, DroppedKept
  <2>3. CASE ~Discarded(own[q]) /\ ~(q \in Known /\ ~Usable(auth[q]))
    BY <1>1, <1>4, <2>3 DEF Kept
  <2> QED BY <2>1, <2>2, <2>3
<1>6. PrunedImages[q] \in SUBSET Rounds
  BY <1>1 DEF PrunedImages, KeptImages
<1> QED BY <1>3, <1>5, <1>6

\* The prunes keep the types.
LEMMA PruneTypes ==
  ASSUME Types, OwnInv
  PROVE  /\ PrunedAuth \in [Previews -> Session] /\ PrunedOwn \in [Previews -> Owned]
         /\ PrunedImages \in [Previews -> SUBSET Rounds]
<1>1. /\ PrunedAuth = [q \in Previews |-> PrunedAuth[q]]
      /\ PrunedOwn = [q \in Previews |-> PrunedOwn[q]]
      /\ PrunedImages = [q \in Previews |-> PrunedImages[q]]
  BY DEF PrunedAuth, PrunedOwn, PrunedImages
<1> QED BY <1>1, PruneQuiet

\* A call that ends a session releases what the runtime owns of it.
LEMMA ReleaseQuiet ==
  ASSUME Types, NEW p \in Previews, NEW b \in Session,
         Continues(auth[p], b), auth' = [auth EXCEPT ![p] = b],
         own' = [own EXCEPT ![p] = Released(@)] \/ own' = own,
         NEW kept \in SUBSET Rounds, images' = [images EXCEPT ![p] = kept] \/ images' = images
  PROVE  /\ auth' \in [Previews -> Session] /\ own' \in [Previews -> Owned]
         /\ images' \in [Previews -> SUBSET Rounds] /\ auth'[p] = b
         /\ \A q \in Previews : Stays(q) /\ Keeps(q)
<1>1. /\ auth' \in [Previews -> Session] /\ images' \in [Previews -> SUBSET Rounds]
      /\ auth'[p] = b /\ \A q \in Previews \ {p} : auth'[q] = auth[q]
  BY DEF Types
<1>2. /\ own' \in [Previews -> Owned]
      /\ \A q \in Previews : own'[q].session = own[q].session
                             /\ own'[q].entry \in {own[q].entry, "gone"}
  <2>1. own \in [Previews -> Owned]
    BY DEF Types
  <2>2. CASE own' = own
    BY <2>1, <2>2
  <2>3. CASE own' = [own EXCEPT ![p] = Released(@)]
    <3>1. /\ Released(own[p]) \in Owned /\ Released(own[p]).session = own[p].session
          /\ Released(own[p]).entry \in {own[p].entry, "gone"}
      BY <2>1, ReleasedKept
    <3>2. own'[p] = Released(own[p]) /\ \A q \in Previews \ {p} : own'[q] = own[q]
      BY <2>1, <2>3
    <3>3. own' \in [Previews -> Owned]
      BY <2>1, <2>3, <3>1
    <3> QED BY <3>1, <3>2, <3>3
  <2> QED BY <2>2, <2>3
<1>3. \A q \in Previews : Stays(q)
  BY <1>1 DEF Stays, Continues, Alike, Booked, SameWork, SameLock
<1>4. \A q \in Previews : Keeps(q)
  BY <1>2 DEF Keeps, Kept
<1> QED BY <1>1, <1>2, <1>3, <1>4

----------------------------------------------------------------------------
(* What the operations do to a session.                                    *)

\* A new session has an empty account.
LEMMA NewSessionFields ==
  ASSUME NEW t \in Nat
  PROVE  LET a == NewSession(t) IN
         /\ a \in Session /\ a.state = "active" /\ a.lease = NoLease
         /\ a.seconds = 0 /\ a.amount = 0 /\ a.runs = 0
         /\ a.lock = "active" /\ a.lockRuns = 0 /\ a.lockAmount = 0
<1>1. NoLease \in LeaseType
  BY Limits DEF NoLease, LeaseType, Rounds
<1>2. t + HardExpiry \in Nat /\ 0 \in Rounds
  BY Limits DEF Rounds
<1>3. [r \in Rounds |-> 0] \in [Rounds -> Nat]
  OBVIOUS
<1>4. [n \in 1 .. MaxRuns |-> "none"] \in
         [1 .. MaxRuns -> {"none", "fresh", "charged", "published", "poisoned"}]
  OBVIOUS
<1>5. NewSession(t) \in Session
  BY <1>1, <1>2, <1>3, <1>4, Limits DEF NewSession, Session, Usables, EndStates
<1>6. /\ NewSession(t).state = "active" /\ NewSession(t).lease = NoLease
      /\ NewSession(t).seconds = 0 /\ NewSession(t).amount = 0 /\ NewSession(t).runs = 0
      /\ NewSession(t).lock = "active" /\ NewSession(t).lockRuns = 0
      /\ NewSession(t).lockAmount = 0
  BY DEF NewSession
<1> QED BY <1>5, <1>6

\* A lease reserves what it was asked for.
LEMMA LeaseFields ==
  ASSUME now \in Nat, NEW a \in Session, NEW kind \in {"build", "workload"}, NEW r \in Rounds,
         NEW n \in Nat
  PROVE  Lease(a, kind, r, n) \in LeaseType /\ Lease(a, kind, r, n).reserved = n
<1>1. a.expires \in Nat
  BY DEF Session
<1> QED BY <1>1, Limits DEF Lease, LeaseType

\* A build is charged its reservation, within the budget.
LEMMA ChargedBuildFields ==
  ASSUME NEW a \in Session, NEW r \in Rounds, BuildBudgetLeft(a),
         a.attempts[r] > 0 => a.retries < MaxRetries
  PROVE  LET c == ChargedBuild(a, r) IN
         /\ c \in Session /\ c.seconds = a.seconds + BuildSeconds
         /\ c.state = a.state /\ SameWork(a, c) /\ SameLock(a, c)
<1> DEFINE c == ChargedBuild(a, r)
<1>1. /\ a.attempts \in [Rounds -> Nat] /\ a.builds \in 0 .. MaxBuilds
      /\ a.seconds \in 0 .. TotalBuildSeconds /\ a.retries \in 0 .. MaxRetries
  BY DEF Session
<1>2. [a.attempts EXCEPT ![r] = @ + 1] \in [Rounds -> Nat]
  BY <1>1
<1>3. /\ a.builds + 1 \in 0 .. MaxBuilds /\ a.seconds + BuildSeconds \in 0 .. TotalBuildSeconds
      /\ (IF a.attempts[r] > 0 THEN a.retries + 1 ELSE a.retries) \in 0 .. MaxRetries
  BY <1>1, Limits DEF BuildBudgetLeft
<1>4. c \in Session
  <2> DEFINE at == [a.attempts EXCEPT ![r] = @ + 1]
             re == IF a.attempts[r] > 0 THEN a.retries + 1 ELSE a.retries
  <2>1. c = [a EXCEPT !.attempts = at, !.builds = a.builds + 1,
                      !.seconds = a.seconds + BuildSeconds, !.retries = re]
    BY DEF ChargedBuild, Session
  <2> HIDE DEF at, re
  <2>2. at \in [Rounds -> Nat] /\ re \in 0 .. MaxRetries
    BY <1>2, <1>3 DEF at, re
  <2> HIDE DEF c
  <2> QED BY <1>3, <2>1, <2>2 DEF Session
<1>5. /\ c.seconds = a.seconds + BuildSeconds /\ c.state = a.state
      /\ SameWork(a, c) /\ SameLock(a, c)
  BY DEF ChargedBuild, Session, SameWork, SameLock
<1> QED BY <1>4, <1>5

\* A lease is not booked.
LEMMA LeasedFields ==
  ASSUME NEW a \in Session, NEW l \in LeaseType
  PROVE  LET b == [a EXCEPT !.lease = l] IN
         /\ b \in Session /\ b.lease = l /\ b.state = a.state /\ Booked(a, b)
<1> QED BY DEF Session, Booked, SameWork, SameLock

\* A build that is settled with what it took in the place of its reservation.
LEMMA SettledFields ==
  ASSUME NEW a \in Session, a.seconds - a.lease.reserved + Taken \in 0 .. TotalBuildSeconds
  PROVE  LET b == Settled(a) IN
         /\ b \in Session /\ b.lease = NoLease /\ b.state = a.state
         /\ b.seconds = a.seconds - a.lease.reserved + Taken
         /\ SameWork(a, b) /\ SameLock(a, b)
<1>1. NoLease \in LeaseType
  BY Limits DEF NoLease, LeaseType, Rounds
<1> QED BY <1>1 DEF Settled, Session, SameWork, SameLock

\* A finished build is charged what it took.
LEMMA FinishedFields ==
  ASSUME NEW a \in Session, a.images < MaxImages, call.round \in Rounds,
         a.seconds - a.lease.reserved + Elapsed \in 0 .. TotalBuildSeconds
  PROVE  LET b == FinishedBuild(a) IN
         /\ b \in Session /\ b.lease = NoLease /\ b.state = a.state
         /\ b.seconds = a.seconds - a.lease.reserved + Elapsed
         /\ SameWork(a, b) /\ SameLock(a, b)
<1>1. NoLease \in LeaseType /\ 0 \in Rounds
  BY Limits DEF NoLease, LeaseType, Rounds
<1>2. a.images + 1 \in 0 .. MaxImages
  <2>1. a.images \in 0 .. MaxImages
    BY DEF Session
  <2> QED BY <2>1, Limits
<1>3. FinishedBuild(a) \in Session
  <2> DEFINE none == NoLease
             made == a.images + 1
             time == a.seconds - a.lease.reserved + Elapsed
             base == IF call.round = 0 THEN 0 ELSE a.baseline
             last == IF call.round = 0 THEN a.rounds ELSE call.round
             cand == IF call.round = 0 THEN a.candidate ELSE call.round
             b == [a EXCEPT !.lease = none, !.images = made, !.seconds = time,
                            !.baseline = base, !.rounds = last, !.candidate = cand]
  <2>1. FinishedBuild(a) = b
    BY DEF FinishedBuild
  <2>2. /\ none \in LeaseType /\ made \in 0 .. MaxImages /\ time \in 0 .. TotalBuildSeconds
        /\ base \in Rounds \cup {NoBuild} /\ last \in Rounds /\ cand \in Rounds \cup {NoBuild}
    BY <1>1, <1>2 DEF Session
  <2> HIDE DEF none, made, time, base, last, cand
  <2>3. b \in Session
    BY <2>2 DEF Session
  <2> QED BY <2>1, <2>3
<1>4. LET b == FinishedBuild(a) IN
      /\ b.lease = NoLease /\ b.state = a.state
      /\ b.seconds = a.seconds - a.lease.reserved + Elapsed
      /\ SameWork(a, b) /\ SameLock(a, b)
  BY DEF FinishedBuild, Session, SameWork, SameLock
<1> QED BY <1>3, <1>4

\* A workload is charged its reservation, within the budget.
LEMMA ChargedWorkloadFields ==
  ASSUME NEW a \in Session, NEW n \in Nat, WorkloadBudgetLeft(a, n)
  PROVE  LET c == ChargedWorkload(a, n) IN
         /\ c \in Session /\ c.amount = a.amount + n /\ c.runs = a.runs + 1
         /\ c.state = a.state /\ c.seconds = a.seconds /\ SameLock(a, c)
<1>1. a.runs + 1 \in 0 .. MaxRuns /\ a.amount + n \in 0 .. ActiveAmount
  <2>1. a.runs \in 0 .. MaxRuns /\ a.amount \in 0 .. ActiveAmount
    BY DEF Session
  <2> QED BY <2>1, Limits DEF WorkloadBudgetLeft
<1> QED BY <1>1 DEF ChargedWorkload, Session, SameLock

\* A settled workload is charged what it took.
LEMMA SettledWorkloadFields ==
  ASSUME NEW a \in Session, call.amount \in Nat, ~Overrun(a), a.lease.reserved <= a.amount
  PROVE  LET b == SettledWorkload(a) IN
         /\ b \in Session /\ b.lease = NoLease /\ b.state = a.state
         /\ b.amount = a.amount - a.lease.reserved + call.amount
         /\ b.runs = a.runs /\ b.seconds = a.seconds /\ SameLock(a, b)
<1>1. NoLease \in LeaseType
  BY Limits DEF NoLease, LeaseType, Rounds
<1>2. a.amount - a.lease.reserved + call.amount \in 0 .. ActiveAmount
  <2>1. a.amount \in 0 .. ActiveAmount /\ a.lease.reserved \in Nat
    BY SessionFields DEF Session
  <2> QED BY <2>1, Limits DEF Overrun
<1>3. [a.done EXCEPT ![a.runs] = "fresh"] \in
         [1 .. MaxRuns -> {"none", "fresh", "charged", "published", "poisoned"}]
  BY DEF Session
<1> QED BY <1>1, <1>2, <1>3 DEF SettledWorkload, Session, SameLock

\* A failure makes the Runtime Lock results unusable.
LEMMA PoisonedFields ==
  ASSUME NEW a \in Session
  PROVE  LET b == Poisoned(a) IN
         /\ b \in Session /\ b.lock = "unavailable" /\ b.state = a.state /\ b.lease = a.lease
         /\ b.seconds = a.seconds /\ SameWork(a, b)
         /\ b.lockRuns = a.lockRuns /\ b.lockAmount = a.lockAmount
<1>1. [a.done EXCEPT ![a.runs] = "poisoned"] \in
         [1 .. MaxRuns -> {"none", "fresh", "charged", "published", "poisoned"}]
  BY DEF Session
<1> QED BY <1>1 DEF Poisoned, Session, SameWork

\* Runtime Lock use is charged within its budget.
LEMMA LockChargedFields ==
  ASSUME NEW a \in Session, NEW n \in Nat, LockBudgetLeft(a, n), NEW result
  PROVE  LET b == ChargedLock(a, n, result) IN
         /\ b \in Session /\ b.lock \in Usables /\ b.state = a.state /\ b.lease = a.lease
         /\ b.seconds = a.seconds /\ SameWork(a, b)
         /\ b.lockRuns = a.lockRuns + 1 /\ b.lockAmount = a.lockAmount + n
<1>1. [a.done EXCEPT ![a.runs] = "charged"] \in
         [1 .. MaxRuns -> {"none", "fresh", "charged", "published", "poisoned"}]
  BY DEF Session
<1>2. a.lockRuns + 1 \in 0 .. LockRuns /\ a.lockAmount + n \in 0 .. LockAmount
  <2>1. a.lockRuns \in 0 .. LockRuns /\ a.lockAmount \in 0 .. LockAmount
    BY DEF Session
  <2> QED BY <2>1, Limits DEF LockBudgetLeft
<1>3. Merged(a.lock, result) \in Usables
  BY DEF Merged, Usables
<1> QED BY <1>1, <1>2, <1>3 DEF ChargedLock, Session, SameWork

----------------------------------------------------------------------------
(* Every step is an elementary one.                                        *)

\* A call that has begun has a session.
LEMMA AliveFields ==
  ASSUME Types, CallInv, call.pc # "idle"
  PROVE  /\ call.p \in Previews /\ auth[call.p] \in Session /\ own[call.p] \in Owned
         /\ call.amount \in Nat /\ call.began \in Nat /\ now \in Nat /\ call.round \in Rounds
<1> QED BY CallTypes DEF Types, CallInv, Calls

\* Time and edits.
LEMMA ClockEffect ==
  ASSUME Types, Tick \/ Edit
  PROVE  Types' /\ Quiet
<1>1. now' \in 0 .. MaxTime /\ now <= now'
  <2>1. now \in 0 .. MaxTime
    BY DEF Types
  <2> QED BY <2>1, Limits DEF Tick, Edit
<1>2. UNCHANGED <<auth, own, images, store, call, spent>>
  BY DEF Tick, Edit
<1>3. tree' \in [mutable : Manifests, rest : Manifests]
  BY DEF Tick, Edit, Types
<1>4. Types'
  BY <1>1, <1>2, <1>3 DEF Types
<1>5. \A p \in Previews : Stays(p) /\ Keeps(p)
  BY <1>2 DEF Stays, Continues, Alike, Booked, SameWork, SameLock, Keeps, Kept
<1> QED BY <1>1, <1>2, <1>4, <1>5 DEF Quiet

\* A prune that is all of a step.
LEMMA PruneEffect ==
  ASSUME Types, OwnInv, auth' = PrunedAuth, own' = PrunedOwn, images' = PrunedImages,
         UNCHANGED <<now, tree, store, call, spent>>
  PROVE  Types' /\ Quiet
<1>1. Types'
  BY PruneTypes DEF Types
<1>2. \A p \in Previews : Stays(p) /\ Keeps(p)
  BY PruneQuiet DEF Stays, Keeps
<1>3. now <= now'
  BY CallTypes
<1> QED BY <1>1, <1>2, <1>3 DEF Quiet

\* A preview.
LEMMA PreviewEffect ==
  ASSUME Types, OwnInv, NEW p \in Previews, Preview(p)
  PROVE  Types' /\ Quiet
<1> DEFINE n == [NothingOwned EXCEPT !.entry = "open", !.expires = now + PreviewSeconds,
                                     !.dir = "present", !.latest = tree.mutable,
                                     !.rest = tree.rest]
<1>1. /\ own' = [PrunedOwn EXCEPT ![p] = n] /\ auth' = PrunedAuth /\ images' = PrunedImages
      /\ UNCHANGED <<now, tree, store, call, spent>> /\ own[p].entry = "none"
  BY DEF Preview, Bookkeeping
<1>2. n \in Owned /\ n.session = "none" /\ n.entry = "open"
  <2>1. now + PreviewSeconds \in Nat /\ tree.mutable \in Some /\ tree.rest \in Some
    BY CallTypes, Limits DEF Types, Some
  <2>2. [r \in Rounds |-> "none"] \in [Rounds -> Some]
    BY DEF Some
  <2> QED BY <2>1, <2>2 DEF NothingOwned, Owned, Some
<1> HIDE DEF n
<1>3. own[p].session = "none"
  BY <1>1 DEF OwnInv
<1>4. /\ own' \in [Previews -> Owned] /\ own'[p] = n
      /\ \A q \in Previews \ {p} : own'[q] = PrunedOwn[q]
  BY <1>1, <1>2, PruneTypes
<1>5. Types'
  BY <1>1, <1>4, PruneTypes DEF Types
<1>6. \A q \in Previews : Stays(q)
  BY <1>1, PruneQuiet DEF Stays
<1>7. \A q \in Previews \ {p} : Keeps(q)
  BY <1>1, <1>4, PruneQuiet DEF Keeps
<1>8. Keeps(p)
  BY <1>1, <1>2, <1>3, <1>4 DEF Keeps, Kept
<1>9. now <= now'
  BY <1>1, CallTypes
<1> QED BY <1>1, <1>5, <1>6, <1>7, <1>8, <1>9 DEF Quiet

\* An authorization.
LEMMA AuthorizeEffect ==
  ASSUME Types, OwnInv, NEW p \in Previews, Authorize(p)
  PROVE  Types' /\ Authorized(p)
<1> DEFINE a == NewSession(now)
<1>1. /\ auth' = [PrunedAuth EXCEPT ![p] = a] /\ images' = PrunedImages
      /\ own' = [PrunedOwn EXCEPT ![p].entry = "consumed", ![p].session = "known"]
      /\ UNCHANGED <<now, tree, store, call, spent>>
      /\ own[p].entry = "open" /\ call.pc = "idle"
  BY DEF Authorize, Bookkeeping, Ready
<1>2. /\ a \in Session /\ a.state = "active" /\ a.lease = NoLease
      /\ a.seconds = 0 /\ a.amount = 0 /\ a.runs = 0
      /\ a.lock = "active" /\ a.lockRuns = 0 /\ a.lockAmount = 0
  BY CallTypes, NewSessionFields
<1> HIDE DEF a
<1>3. /\ auth' \in [Previews -> Session] /\ auth'[p] = a
      /\ \A q \in Previews \ {p} : auth'[q] = PrunedAuth[q]
  BY <1>1, <1>2, PruneTypes
<1>4. /\ own' \in [Previews -> Owned]
      /\ own'[p].entry = "consumed" /\ own'[p].session = "known"
      /\ \A q \in Previews \ {p} : own'[q] = PrunedOwn[q]
  <2>1. PrunedOwn \in [Previews -> Owned] /\ PrunedOwn[p] \in Owned
    BY PruneTypes
  <2>2. [[PrunedOwn[p] EXCEPT !.entry = "consumed"] EXCEPT !.session = "known"] \in Owned
    BY <2>1 DEF Owned
  <2> QED BY <1>1, <2>1, <2>2 DEF Owned
<1>5. Types'
  BY <1>1, <1>3, <1>4, PruneTypes DEF Types
<1>6. \A q \in Previews \ {p} : Stays(q) /\ Keeps(q)
  BY <1>3, <1>4, PruneQuiet DEF Stays, Keeps
<1> QED BY <1>1, <1>2, <1>3, <1>4, <1>5, <1>6 DEF Authorized, SameBooks

\* A call that ends the session, and releases what the runtime owns or leaves it.
LEMMA EndEffect ==
  ASSUME Types, NEW p \in Previews, NEW s \in EndStates,
         EndAndRelease(p, s)
           \/ (/\ Usable(auth[p]) /\ auth' = [auth EXCEPT ![p] = End(@, s)]
               /\ UNCHANGED <<own, images>>),
         UNCHANGED <<now, tree, store, call, spent>>
  PROVE  Types' /\ Quiet
<1> DEFINE b == IF Usable(auth[p]) THEN End(auth[p], s) ELSE Seen(auth[p])
<1>1. auth[p] \in Session
  BY DEF Types
<1>2. b \in Session /\ Continues(auth[p], b)
  BY <1>1, EndedContinues
<1>3. /\ auth' = [auth EXCEPT ![p] = b]
      /\ own' = [own EXCEPT ![p] = Released(@)] \/ own' = own
      /\ images' = [images EXCEPT ![p] = KeptImages(p)] \/ images' = images
  BY DEF EndAndRelease
<1> HIDE DEF b
<1>4. KeptImages(p) \in SUBSET Rounds
  BY DEF KeptImages, Types
<1>5. /\ auth' \in [Previews -> Session] /\ own' \in [Previews -> Owned]
      /\ images' \in [Previews -> SUBSET Rounds]
      /\ \A q \in Previews : Stays(q) /\ Keeps(q)
  BY <1>2, <1>3, <1>4, ReleaseQuiet
<1>6. Types' /\ now <= now'
  BY <1>5, CallTypes DEF Types
<1> QED BY <1>5, <1>6 DEF Quiet

\* An attempt is recorded and refused.
LEMMA RetryEffect ==
  ASSUME Types, NEW p \in Previews, NEW r \in Rounds, RetryRefused(p, r)
  PROVE  Types' /\ Quiet
<1> DEFINE b == [auth[p] EXCEPT !.attempts[r] = @ + 1]
<1>1. /\ auth' = [auth EXCEPT ![p].attempts[r] = @ + 1]
      /\ UNCHANGED <<now, tree, own, images, store, call, spent>>
  BY DEF RetryRefused, Bookkeeping
<1>2. auth[p] \in Session /\ auth \in [Previews -> Session]
  BY DEF Types
<1>3. [auth[p].attempts EXCEPT ![r] = @ + 1] \in [Rounds -> Nat]
  BY <1>2 DEF Session
<1>4. b \in Session /\ Alike(auth[p], b)
  BY <1>2, <1>3 DEF Session, Alike, Booked, SameWork, SameLock
<1>5. auth' = [auth EXCEPT ![p] = b]
  BY <1>1, <1>2
<1> HIDE DEF b
<1>6. /\ auth' \in [Previews -> Session] /\ auth'[p] = b
      /\ \A q \in Previews \ {p} : auth'[q] = auth[q]
  BY <1>2, <1>4, <1>5
<1>7. Types' /\ now <= now'
  BY <1>1, <1>6, CallTypes DEF Types
<1>8. \A q \in Previews : Stays(q) /\ Keeps(q)
  BY <1>1, <1>4, <1>6 DEF Stays, Continues, Alike, Booked, SameWork, SameLock, Keeps, Kept
<1> QED BY <1>1, <1>7, <1>8 DEF Quiet

\* Closing ends every known session and drops it.
LEMMA CloseEffect ==
  ASSUME Types, OwnInv, Close
  PROVE  Types' /\ Quiet
<1>1. UNCHANGED <<now, tree, store, call, spent>>
  BY DEF Close
<1>2. ASSUME NEW q \in Previews
      PROVE  /\ auth'[q] \in Session /\ Continues(auth[q], auth'[q])
             /\ own'[q] \in Owned /\ Kept(own[q], own'[q], auth'[q])
             /\ images'[q] \in SUBSET Rounds
  <2>1. auth[q] \in Session /\ own[q] \in Owned /\ images[q] \in SUBSET Rounds
    BY DEF Types
  <2>2. images'[q] \in SUBSET Rounds
    BY <2>1 DEF Close, KeptImages
  <2>3. CASE q \in Known
    <3> DEFINE b == IF Usable(auth[q]) THEN End(auth[q], "revoked") ELSE Seen(auth[q])
    <3>1. auth'[q] = b /\ own'[q] = [Released(own[q]) EXCEPT !.session = "dropped"]
      BY <2>3 DEF Close
    <3>2. b \in Session /\ Continues(auth[q], b) /\ b.state # "active"
      BY <2>1, EndedContinues DEF EndStates
    <3> HIDE DEF b
    <3>3. own[q].session = "known" /\ b.state \in EndStates
      BY <2>3, <3>2, KnownEnded DEF Known
    <3>4. own'[q] \in Owned /\ Kept(own[q], own'[q], b)
      BY <2>1, <3>1, <3>3, DroppedKept
    <3> QED BY <2>2, <3>1, <3>2, <3>4
  <2>4. CASE q \notin Known
    <3>1. auth'[q] = auth[q]
      BY <2>4 DEF Close
    <3>2. own'[q] = IF own[q].entry = "open"
                    THEN [own[q] EXCEPT !.entry = "gone", !.dir = "removed"] ELSE own[q]
      BY <2>4 DEF Close
    <3>3. own'[q] \in Owned /\ Kept(own[q], own'[q], auth'[q])
      <4>1. CASE own[q].entry = "open"
        BY <2>1, <3>2, <4>1, DiscardedKept
      <4>2. CASE own[q].entry # "open"
        BY <2>1, <3>2, <4>2 DEF Kept
      <4> QED BY <4>1, <4>2
    <3> QED BY <2>1, <2>2, <3>1, <3>3 DEF Continues, Alike, Booked, SameWork, SameLock
  <2> QED BY <2>3, <2>4
<1>3. /\ auth' = [q \in Previews |-> auth'[q]] /\ own' = [q \in Previews |-> own'[q]]
      /\ images' = [q \in Previews |-> images'[q]]
  BY DEF Close
<1>4. /\ auth' \in [Previews -> Session] /\ own' \in [Previews -> Owned]
      /\ images' \in [Previews -> SUBSET Rounds]
  BY <1>2, <1>3
<1>5. Types' /\ now <= now'
  BY <1>1, <1>4, CallTypes DEF Types
<1> QED BY <1>1, <1>2, <1>5 DEF Quiet, Stays, Keeps

\* A prune that raises.
LEMMA RaiseEffect ==
  ASSUME Types, NEW p \in Previews, PruneRaises(p), UNCHANGED <<now, tree, store, call, spent>>
  PROVE  Types' /\ Quiet
<1>1. PICK V \in SUBSET (Known \ {p}) :
         auth' = [q \in Previews |-> IF q \in V \cup {p} THEN Seen(auth[q]) ELSE auth[q]]
  BY DEF PruneRaises
<1>2. /\ own' = [q \in Previews |-> IF Discarded(own[q])
                                    THEN [own[q] EXCEPT !.entry = "gone", !.dir = "removed"]
                                    ELSE own[q]]
      /\ images' = images
  BY DEF PruneRaises
<1>3. ASSUME NEW q \in Previews
      PROVE  /\ auth'[q] \in Session /\ Continues(auth[q], auth'[q])
             /\ own'[q] \in Owned /\ Kept(own[q], own'[q], auth'[q])
  <2>1. auth[q] \in Session /\ own[q] \in Owned
    BY DEF Types
  <2>2. auth'[q] \in Session /\ Continues(auth[q], auth'[q])
    <3>1. CASE q \in V \cup {p}
      BY <1>1, <2>1, <3>1, SeenContinues
    <3>2. CASE q \notin V \cup {p}
      BY <1>1, <2>1, <3>2 DEF Continues, Alike, Booked, SameWork, SameLock
    <3> QED BY <3>1, <3>2
  <2>3. own'[q] \in Owned /\ Kept(own[q], own'[q], auth'[q])
    <3>1. CASE Discarded(own[q])
      BY <1>2, <2>1, <3>1, DiscardedKept
    <3>2. CASE ~Discarded(own[q])
      BY <1>2, <2>1, <3>2 DEF Kept
    <3> QED BY <3>1, <3>2
  <2> QED BY <2>2, <2>3
<1>4. auth' = [q \in Previews |-> auth'[q]] /\ own' = [q \in Previews |-> own'[q]]
  BY <1>1, <1>2
<1>5. auth' \in [Previews -> Session] /\ own' \in [Previews -> Owned]
  BY <1>3, <1>4
<1>6. Types'
  BY <1>2, <1>5 DEF Types
<1>7. now <= now'
  BY CallTypes
<1> QED BY <1>3, <1>6, <1>7 DEF Quiet, Stays, Keeps

\* A revision is typed and tells the state of its session.
LEMMA RevisionTyped ==
  ASSUME NEW a \in Session
  PROVE  /\ Revision(a) \in Revised /\ Revision(a).state = a.state
<1>1. /\ a.state \in {"none", "active"} \cup EndStates
      /\ a.lock \in Usables \cup {"exhausted", "unavailable"} /\ a.lockRuns \in Nat
  BY SessionFields DEF Session
<1> QED BY <1>1 DEF Revision, Revised

\* The call goes on as it is.
LEMMA CallGoes ==
  ASSUME Types, NEW pc \in Steps, call' = [call EXCEPT !.pc = pc]
  PROVE  call' \in Calls /\ Goes(pc) /\ call'.amount = call.amount
         /\ call'.revision = call.revision
<1>1. call \in Calls
  BY DEF Types
<1> QED BY <1>1 DEF Calls, Goes

\* The call goes on with a revision.
LEMMA CallGoesRevised ==
  ASSUME Types, NEW pc \in Steps, NEW v \in Revised,
         call' = [call EXCEPT !.pc = pc, !.revision = v]
  PROVE  call' \in Calls /\ Goes(pc) /\ call'.amount = call.amount /\ call'.revision = v
<1>1. call \in Calls
  BY DEF Types
<1> QED BY <1>1 DEF Calls, Goes

\* No call.
LEMMA IdleTyped == Idle \in Calls
<1>1. NoRevision \in Revised
  BY DEF NoRevision, Revised, Usables
<1>2. 0 \in Rounds
  BY Limits DEF Rounds
<1> QED BY <1>1, <1>2 DEF Idle, Calls, Steps, Some

\* One session changes.
LEMMA OneChanges ==
  ASSUME Types, NEW p \in Previews, NEW b \in Session, auth' = [auth EXCEPT ![p] = b]
  PROVE  auth' \in [Previews -> Session] /\ auth'[p] = b /\ Others(p)
<1> QED BY DEF Types, Others

\* A runtime call that is refused has noticed the end of its session.
LEMMA RefusedEffect ==
  ASSUME Types, OwnInv, NEW p \in Previews, ~Passes(p), Refused(p)
  PROVE  /\ auth' \in [Previews -> Session] /\ own' \in [Previews -> Owned]
         /\ images' \in [Previews -> SUBSET Rounds]
         /\ \A q \in Previews : Stays(q) /\ Keeps(q)
         /\ auth'[p].state # "active"
<1>1. /\ auth \in [Previews -> Session] /\ own \in [Previews -> Owned]
      /\ images \in [Previews -> SUBSET Rounds] /\ auth[p] \in Session /\ own[p] \in Owned
  BY DEF Types
<1>2. CASE own[p].session # "known"
  <2>1. auth' = auth /\ own' = own /\ images' = images
    BY <1>2 DEF Refused
  <2>2. auth[p].state # "active"
    <3>1. own[p].session \in {"none", "dropped"}
      BY <1>1, <1>2 DEF Owned
    <3> QED BY <3>1 DEF OwnInv, EndStates
  <2>3. \A q \in Previews : Stays(q) /\ Keeps(q)
    BY <2>1 DEF Stays, Continues, Alike, Booked, SameWork, SameLock, Keeps, Kept
  <2> QED BY <1>1, <2>1, <2>2, <2>3
<1>3. CASE own[p].session = "known"
  <2> DEFINE b == Seen(auth[p])
  <2>1. ~Usable(auth[p])
    BY <1>3 DEF Passes
  <2>2. b \in Session /\ Continues(auth[p], b) /\ b.state # "active"
    BY <1>1, <2>1, SeenContinues
  <2>3. /\ auth' = [auth EXCEPT ![p] = b]
        /\ own' = [own EXCEPT ![p] = Released(@)] \/ own' = own
        /\ images' = [images EXCEPT ![p] = KeptImages(p)] \/ images' = images
    BY <1>3 DEF Refused
  <2> HIDE DEF b
  <2>4. KeptImages(p) \in SUBSET Rounds
    BY <1>1 DEF KeptImages
  <2> QED BY <2>2, <2>3, <2>4, ReleaseQuiet
<1> QED BY <1>2, <1>3

\* begin_build charges and leases, or charges and expires.
LEMMA BeginBuildEffect ==
  ASSUME Types, NEW p \in Previews, NEW r \in Rounds, BeginBuild(p, r)
  PROVE  Types' /\ (BuildBegun(p) \/ BegunTooLate(p))
<1> DEFINE a == auth[p]
           c == ChargedBuild(a, r)
           l == Lease(a, "build", r, BuildSeconds)
           b == [c EXCEPT !.lease = l]
           e == End(c, "expired")
<1>1. a \in Session /\ own[p] \in Owned /\ now \in Nat /\ tree.mutable \in Manifests
  BY CallTypes DEF Types
<1>2. /\ call.pc = "idle" /\ a.state = "active" /\ BuildBudgetLeft(a)
      /\ a.attempts[r] > 0 => a.retries < MaxRetries
      /\ UNCHANGED <<now, tree, own, images, store, spent>>
  BY <1>1, SeenContinues DEF BeginBuild, Buildable, Ready
<1>3. /\ c \in Session /\ c.seconds = a.seconds + BuildSeconds
      /\ c.state = a.state /\ SameWork(a, c) /\ SameLock(a, c)
  BY <1>1, <1>2, ChargedBuildFields
<1>4. l \in LeaseType /\ l.reserved = BuildSeconds
  BY <1>1, Limits, LeaseFields
<1>5. \/ /\ auth' = [auth EXCEPT ![p] = b]
         /\ call' = [Idle EXCEPT !.pc = "building", !.p = p, !.round = r, !.began = now,
                                 !.manifest = IF r = 0 THEN own[p].latest ELSE tree.mutable]
      \/ auth' = [auth EXCEPT ![p] = e] /\ call' = call
  BY DEF BeginBuild
<1> HIDE DEF l, c
<1>6. b \in Session /\ b.lease = l /\ b.state = c.state /\ Booked(c, b)
  BY <1>3, <1>4, LeasedFields
<1>7. e \in Session /\ Ends(c, e)
  BY <1>2, <1>3, EndEnds DEF EndStates
<1> HIDE DEF b, e
<1>8. SameOwn /\ SameBooks
  BY <1>2 DEF SameOwn, SameBooks
<1>9. CASE auth' = [auth EXCEPT ![p] = b] /\ call' # call
  <2>1. auth' \in [Previews -> Session] /\ auth'[p] = b /\ Others(p)
    BY <1>6, <1>9, OneChanges
  <2>2. call' = [Idle EXCEPT !.pc = "building", !.p = p, !.round = r, !.began = now,
                             !.manifest = IF r = 0 THEN own[p].latest ELSE tree.mutable]
    BY <1>5, <1>9
  <2>3. (IF r = 0 THEN own[p].latest ELSE tree.mutable) \in Some
    BY <1>1 DEF Owned, Some
  <2>4. call' \in Calls /\ call'.pc = "building" /\ call'.p = p /\ call'.began = now
    BY <1>1, <2>2, <2>3, IdleTyped DEF Calls, Steps, Building
  <2>5. Types'
    BY <1>2, <2>1, <2>4 DEF Types
  <2>6. BuildBegun(p)
    BY <1>2, <1>3, <1>4, <1>6, <1>8, <2>1, <2>4
       DEF BuildBegun, Booked, SameWork, SameLock
  <2> QED BY <2>5, <2>6
<1>10. CASE auth' = [auth EXCEPT ![p] = e] /\ call' = call
  <2>1. auth' \in [Previews -> Session] /\ auth'[p] = e /\ Others(p)
    BY <1>7, <1>10, OneChanges
  <2>2. Types'
    BY <1>2, <1>10, <2>1 DEF Types
  <2>3. a.seconds \in Nat /\ a.amount \in Nat /\ a.runs \in Nat
    BY <1>1, SessionFields
  <2>4. a.seconds <= e.seconds /\ a.amount <= e.amount /\ a.runs <= e.runs
    BY <1>3, <1>7, <2>3, Limits DEF Ends, Booked, SameWork
  <2>5. BegunTooLate(p)
    BY <1>2, <1>3, <1>7, <1>8, <1>10, <2>1, <2>4
       DEF BegunTooLate, Ends, Booked, SameWork, SameLock
  <2> QED BY <2>2, <2>5
<1> QED
  <2>1. [Idle EXCEPT !.pc = "building", !.p = p, !.round = r, !.began = now,
                     !.manifest = IF r = 0 THEN own[p].latest ELSE tree.mutable].pc # "idle"
    BY DEF Idle
  <2> QED BY <1>2, <1>5, <1>9, <1>10, <2>1

\* begin_workload charges and leases, or charges and expires.
LEMMA BeginWorkloadEffect ==
  ASSUME Types, NEW p \in Previews, NEW r \in Rounds, NEW n \in 1 .. ActiveAmount,
         NEW lock \in {"yes", "no"}, BeginWorkload(p, r, n, lock)
  PROVE  Types' /\ (WorkloadBegun(p, n) \/ BegunTooLate(p))
<1> DEFINE a == auth[p]
           c == ChargedWorkload(a, n)
           l == Lease(a, "workload", r, n)
           b == [c EXCEPT !.lease = l]
           e == End(c, "expired")
<1>1. a \in Session /\ now \in Nat /\ n \in Nat
  BY CallTypes, Limits DEF Types
<1>2. /\ call.pc = "idle" /\ a.state = "active" /\ WorkloadBudgetLeft(a, n)
      /\ lock = "yes" => a.lock \notin {"exhausted", "unavailable"}
      /\ UNCHANGED <<now, tree, own, images, store, spent>>
  BY <1>1, SeenContinues DEF BeginWorkload, Collectable, Ready
<1>3. /\ c \in Session /\ c.amount = a.amount + n /\ c.runs = a.runs + 1
      /\ c.state = a.state /\ c.seconds = a.seconds /\ SameLock(a, c)
  BY <1>1, <1>2, ChargedWorkloadFields
<1>4. l \in LeaseType /\ l.reserved = n
  BY <1>1, LeaseFields
<1>5. \/ /\ auth' = [auth EXCEPT ![p] = b]
         /\ call' = [Idle EXCEPT !.pc = "collecting", !.p = p, !.amount = n, !.lock = lock]
      \/ auth' = [auth EXCEPT ![p] = e] /\ call' = call
  BY DEF BeginWorkload
<1> HIDE DEF l, c
<1>6. b \in Session /\ b.lease = l /\ b.state = c.state /\ Booked(c, b)
  BY <1>3, <1>4, LeasedFields
<1>7. e \in Session /\ Ends(c, e)
  BY <1>2, <1>3, EndEnds DEF EndStates
<1> HIDE DEF b, e
<1>8. SameOwn /\ SameBooks
  BY <1>2 DEF SameOwn, SameBooks
<1>9. ASSUME auth' = [auth EXCEPT ![p] = b],
             call' = [Idle EXCEPT !.pc = "collecting", !.p = p, !.amount = n, !.lock = lock]
      PROVE  Types' /\ WorkloadBegun(p, n)
  <2>1. auth' \in [Previews -> Session] /\ auth'[p] = b /\ Others(p)
    BY <1>6, <1>9, OneChanges
  <2>2. /\ call' \in Calls /\ call'.pc = "collecting" /\ call'.p = p /\ call'.amount = n
        /\ call'.lock = lock
    BY <1>1, <1>9, IdleTyped DEF Calls, Steps, Working
  <2>3. call'.began = 0
    BY <1>9, IdleFields DEF Idle
  <2>4. Types'
    BY <1>2, <2>1, <2>2 DEF Types
  <2>5. lock = "yes" => a.lock \in Usables
    BY <1>1, <1>2 DEF Session
  <2>6. WorkloadBegun(p, n)
    BY <1>2, <1>3, <1>4, <1>6, <1>8, <2>1, <2>2, <2>3, <2>5
       DEF WorkloadBegun, Booked, SameWork, SameLock
  <2> QED BY <2>4, <2>6
<1>10. ASSUME auth' = [auth EXCEPT ![p] = e], call' = call
       PROVE  Types' /\ BegunTooLate(p)
  <2>1. auth' \in [Previews -> Session] /\ auth'[p] = e /\ Others(p)
    BY <1>7, <1>10, OneChanges
  <2>2. Types'
    BY <1>2, <1>10, <2>1 DEF Types
  <2>3. a.seconds \in Nat /\ a.amount \in Nat /\ a.runs \in Nat
    BY <1>1, SessionFields
  <2>4. a.seconds <= e.seconds /\ a.amount <= e.amount /\ a.runs <= e.runs
    BY <1>1, <1>3, <1>7, <2>3 DEF Ends, Booked, SameWork
  <2>5. BegunTooLate(p)
    BY <1>2, <1>3, <1>7, <1>8, <1>10, <2>1, <2>4
       DEF BegunTooLate, Ends, Booked, SameWork, SameLock
  <2> QED BY <2>2, <2>5
<1> QED BY <1>5, <1>9, <1>10

\* The adapter builds, or fails.
LEMMA AdapterBuildEffect ==
  ASSUME Types, CallInv, AdapterBuild
  PROVE  Types' /\ Moved
<1>1. call.pc = "building" /\ UNCHANGED <<now, tree, auth, own, store, spent>>
  BY DEF AdapterBuild
<1>2. call.p \in Previews /\ call.round \in Rounds
  BY <1>1, AliveFields
<1>3. images' \in [Previews -> SUBSET Rounds]
  <2>1. images \in [Previews -> SUBSET Rounds]
    BY DEF Types
  <2>2. images' = [images EXCEPT ![call.p] = @ \cup {call.round}] \/ images' = images
    BY DEF AdapterBuild
  <2> QED BY <1>2, <2>1, <2>2
<1>4. PICK pc \in {"built", "toolFailed", "otherFailed"} : call' = [call EXCEPT !.pc = pc]
  BY DEF AdapterBuild
<1>5. call' \in Calls /\ Goes(pc)
  BY <1>4, CallGoes DEF Steps, Building
<1>6. Types'
  BY <1>1, <1>3, <1>5 DEF Types
<1>7. \A q \in Previews : Stays(q) /\ Keeps(q)
  BY <1>1 DEF Stays, Continues, Alike, Booked, SameWork, SameLock, Keeps, Kept
<1>8. Moves
  BY <1>1, <1>5 DEF Moves
<1> QED BY <1>1, <1>6, <1>7, <1>8 DEF Moved, SameBooks

\* The seconds a settled build is charged.
LEMMA TakenFields ==
  ASSUME Types, CallInv
  PROVE  /\ Elapsed \in Nat /\ Taken \in 0 .. BuildSeconds
         /\ Elapsed <= BuildSeconds => Taken = Elapsed
<1>1. now \in Nat /\ call.began \in Nat /\ call.began <= now
  BY CallTypes DEF CallInv
<1>2. Elapsed \in Nat
  BY <1>1 DEF Elapsed
<1> QED BY <1>2, Limits DEF Taken

\* The history of one session changes.
LEMMA BuildSpent ==
  ASSUME Types, NEW p \in Previews, NEW n \in Nat, spent' = [spent EXCEPT ![p].build = @ + n]
  PROVE  /\ spent' \in [Previews -> [build : Nat, work : Nat]]
         /\ spent'[p].build = spent[p].build + n /\ spent'[p].work = spent[p].work
         /\ \A q \in Previews \ {p} : spent'[q] = spent[q]
<1>1. spent \in [Previews -> [build : Nat, work : Nat]] /\ spent[p].build + n \in Nat
  BY SessionTypes DEF Types
<1> QED BY <1>1

\* The same for a workload.
LEMMA WorkSpent ==
  ASSUME Types, NEW p \in Previews, spent' = WorkTaken(p)
  PROVE  /\ spent' \in [Previews -> [build : Nat, work : Nat]]
         /\ spent'[p].work = spent[p].work + call.amount /\ spent'[p].build = spent[p].build
         /\ \A q \in Previews \ {p} : spent'[q] = spent[q]
<1>1. spent \in [Previews -> [build : Nat, work : Nat]] /\ spent[p].work + call.amount \in Nat
  BY SessionTypes, CallTypes DEF Types
<1> QED BY <1>1 DEF WorkTaken

\* What a call leaves alone.
LEMMA SameOwnKept ==
  ASSUME own' = own
  PROVE  SameOwn /\ KeepsOwn
<1> QED BY DEF SameOwn, KeepsOwn, Keeps, Kept

\* finish_build settles, or ends the session.
LEMMA FinishBuildEffect ==
  ASSUME Types, CallInv, LeaseInv, ChargeInv, FinishBuild
  PROVE  Types' /\ (BuildFinished \/ Moved)
<1> DEFINE p == call.p
           a == auth[p]
           t == a.seconds - a.lease.reserved + Elapsed
           b == FinishedBuild(a)
           e == IF Usable(a) THEN End(a, "exhausted") ELSE Seen(a)
<1>1. /\ call.pc = "built" /\ UNCHANGED <<now, tree, own, images, store>>
  BY DEF FinishBuild
<1>2. p \in Previews /\ a \in Session /\ call.round \in Rounds
  BY <1>1, AliveFields
<1>3. \/ /\ Usable(a) /\ Elapsed <= BuildSeconds /\ a.images < MaxImages
         /\ auth' = [auth EXCEPT ![p] = b]
         /\ call' = [call EXCEPT !.pc = "register", !.revision = Revision(auth'[p])]
         /\ spent' = [spent EXCEPT ![p].build = @ + Taken]
      \/ /\ auth' = [auth EXCEPT ![p] = e]
         /\ call' = [call EXCEPT !.pc = "finishFailed"] /\ spent' = spent
  <2>1. CASE ~Usable(a)
    BY <2>1 DEF FinishBuild
  <2>2. CASE Usable(a)
    BY <2>2 DEF FinishBuild
  <2> QED BY <2>1, <2>2
<1>4. ASSUME Usable(a), Elapsed <= BuildSeconds, a.images < MaxImages,
             auth' = [auth EXCEPT ![p] = b],
             call' = [call EXCEPT !.pc = "register", !.revision = Revision(auth'[p])],
             spent' = [spent EXCEPT ![p].build = @ + Taken]
      PROVE  Types' /\ BuildFinished
  <2>1. a.state = "active"
    BY <1>2, <1>4, SeenContinues
  <2>2. a.lease.reserved = BuildSeconds /\ BuildSeconds <= a.seconds
    <3>1. a.lease.reserved = BuildSeconds
      BY <1>1, <2>1 DEF LeaseInv, Building
    <3>2. spent[p].build + BuildSeconds <= a.seconds
      BY <1>1 DEF ChargeInv, Building
    <3> QED BY <1>2, <3>1, <3>2, SessionTypes, Limits
  <2>3. Elapsed \in Nat /\ Taken = Elapsed
    BY <1>4, TakenFields
  <2>4. a.seconds \in 0 .. TotalBuildSeconds
    BY <1>2 DEF Session
  <2>5. t \in 0 .. TotalBuildSeconds /\ t = a.seconds - BuildSeconds + (now - call.began)
    BY <1>4, <2>2, <2>3, <2>4, Limits DEF Elapsed
  <2>6. /\ b \in Session /\ b.lease = NoLease /\ b.state = a.state /\ b.seconds = t
        /\ SameWork(a, b) /\ SameLock(a, b)
    BY <1>2, <1>4, <2>5, FinishedFields
  <2> HIDE DEF b, t
  <2>7. auth' \in [Previews -> Session] /\ auth'[p] = b /\ Others(p)
    BY <1>2, <1>4, <2>6, OneChanges
  <2>8. call' \in Calls /\ Goes("register") /\ call'.revision = Revision(b)
    BY <1>4, <2>6, <2>7, RevisionTyped, CallGoesRevised DEF Steps, Saving
  <2>9. /\ spent' \in [Previews -> [build : Nat, work : Nat]]
        /\ spent'[p].build = spent[p].build + (now - call.began)
        /\ spent'[p].work = spent[p].work
        /\ \A q \in Previews \ {p} : spent'[q] = spent[q]
    BY <1>2, <1>4, <2>3, BuildSpent DEF Elapsed
  <2>10. Types'
    BY <1>1, <2>7, <2>8, <2>9 DEF Types
  <2>11. now - call.began <= BuildSeconds
    BY <1>4 DEF Elapsed
  <2>12. BuildFinished
    BY <1>1, <2>1, <2>5, <2>6, <2>7, <2>8, <2>9, <2>11, SameOwnKept DEF BuildFinished
  <2> QED BY <2>10, <2>12
<1>5. ASSUME auth' = [auth EXCEPT ![p] = e],
             call' = [call EXCEPT !.pc = "finishFailed"], spent' = spent
      PROVE  Types' /\ Moved
  <2>1. e \in Session /\ Continues(a, e) /\ e.state # "active"
    BY <1>2, EndedContinues DEF EndStates
  <2> HIDE DEF e
  <2>2. auth' \in [Previews -> Session] /\ auth'[p] = e /\ Others(p)
    BY <1>2, <1>5, <2>1, OneChanges
  <2>3. call' \in Calls /\ Goes("finishFailed")
    BY <1>5, CallGoes DEF Steps
  <2>4. Types'
    BY <1>1, <1>5, <2>2, <2>3 DEF Types
  <2>5. \A q \in Previews : Stays(q) /\ Keeps(q)
    BY <1>1, <2>1, <2>2, SameOwnKept
       DEF Others, KeepsOwn, Stays, Continues, Alike, Booked, SameWork, SameLock
  <2>6. Moves
    BY <1>1, <2>1, <2>2, <2>3 DEF Moves
  <2> QED BY <1>1, <1>5, <2>4, <2>5, <2>6 DEF Moved, SameBooks
<1> QED BY <1>3, <1>4, <1>5

\* fail_build settles with what was taken.
LEMMA FailBuildEffect ==
  ASSUME Types, CallInv, LeaseInv, ChargeInv, FailBuild
  PROVE  Types' /\ BuildFailed
<1> DEFINE p == call.p
           a == auth[p]
           s == Settled(a)
           b == IF ~Usable(a) THEN Seen(a)
                ELSE IF call.pc = "otherFailed" \/ a.attempts[call.round] > MaxRetries
                THEN End(s, "failed") ELSE s
           left == IF call.pc = "finishFailed" THEN images[p] \ {call.round} ELSE images[p]
<1>1. /\ call.pc \in {"toolFailed", "otherFailed", "finishFailed"}
      /\ call' = Idle /\ UNCHANGED <<now, tree, store>>
      /\ auth' = [auth EXCEPT ![p] = b]
      /\ spent' = [spent EXCEPT ![p].build = @ + Taken]
  BY DEF FailBuild
<1>2. /\ own' = own \/ own' = [own EXCEPT ![p] = Released(@)]
      /\ \/ images' = [images EXCEPT ![p] = left]
         \/ images' = [images EXCEPT ![p] = left \cap KeptImages(p)]
  BY DEF FailBuild
<1>3. p \in Previews /\ a \in Session /\ call.round \in Rounds /\ own[p] \in Owned
  BY <1>1, AliveFields
<1>4. Taken \in 0 .. BuildSeconds
  BY TakenFields
<1>5. a.seconds \in 0 .. TotalBuildSeconds /\ BuildSeconds <= a.seconds
  <2>1. spent[p].build + BuildSeconds <= a.seconds
    BY <1>1 DEF ChargeInv, Building
  <2>2. a.seconds \in 0 .. TotalBuildSeconds
    BY <1>3 DEF Session
  <2> QED BY <1>3, <2>1, <2>2, SessionTypes, Limits
<1>6. /\ b \in Session /\ b.state \in {a.state} \cup EndStates /\ b.lease = NoLease
      /\ a.seconds - BuildSeconds + Taken <= b.seconds /\ SameWork(a, b) /\ SameLock(a, b)
  <2>1. CASE ~Usable(a)
    <3>1. b = Seen(a)
      BY <2>1
    <3> HIDE DEF b
    <3>2. b \in Session /\ Continues(a, b) /\ b.state # "active"
      BY <1>3, <2>1, <3>1, SeenContinues
    <3>3. Booked(a, b) /\ b.state \in {a.state} \cup EndStates
      BY <3>2 DEF Continues, Alike, Ends
    <3>4. b.lease = NoLease
      <4>1. a.state # "active" => a.lease = NoLease
        BY <1>3 DEF LeaseInv
      <4> QED BY <3>2, <4>1 DEF Continues, Alike, Ends
    <3>5. a.seconds - BuildSeconds + Taken <= b.seconds
      BY <1>4, <1>5, <3>3, Limits DEF Booked
    <3> QED BY <3>2, <3>3, <3>4, <3>5 DEF Booked
  <2>2. CASE Usable(a)
    <3> DEFINE t == a.seconds - BuildSeconds + Taken
    <3>1. a.state = "active"
      BY <1>3, <2>2, SeenContinues
    <3>2. a.lease.reserved = BuildSeconds
      BY <1>1, <3>1 DEF LeaseInv, Building
    <3>3. t = a.seconds - a.lease.reserved + Taken
      BY <3>2
    <3>4. t \in 0 .. TotalBuildSeconds
      BY <1>4, <1>5, Limits
    <3> HIDE DEF t
    <3>5. /\ s \in Session /\ s.lease = NoLease /\ s.state = a.state /\ s.seconds = t
          /\ SameWork(a, s) /\ SameLock(a, s)
      BY <1>3, <3>3, <3>4, SettledFields
    <3>6. b = End(s, "failed") \/ b = s
      BY <2>2
    <3> HIDE DEF s, b
    <3>7. End(s, "failed") \in Session /\ Ends(s, End(s, "failed"))
      BY <3>1, <3>5, EndEnds DEF EndStates
    <3>8. t <= t
      BY <3>4
    <3>9. /\ b \in Session /\ b.state \in {a.state} \cup EndStates /\ b.lease = NoLease
          /\ b.seconds = t /\ SameWork(a, b) /\ SameLock(a, b)
      BY <3>5, <3>6, <3>7 DEF Ends, Booked, SameWork, SameLock
    <3> QED BY <3>8, <3>9 DEF t
  <2> QED BY <2>1, <2>2
<1> HIDE DEF b
<1>7. auth' \in [Previews -> Session] /\ auth'[p] = b /\ Others(p)
  BY <1>1, <1>3, <1>6, OneChanges
<1>8. images' \in [Previews -> SUBSET Rounds]
  <2>1. images \in [Previews -> SUBSET Rounds]
    BY DEF Types
  <2>2. left \in SUBSET Rounds
    BY <1>3, <2>1
  <2> QED BY <1>2, <1>3, <2>1, <2>2
<1>9. own' \in [Previews -> Owned] /\ KeepsOwn
  <2>1. own \in [Previews -> Owned]
    BY DEF Types
  <2>2. CASE own' = own
    BY <2>1, <2>2, SameOwnKept
  <2>3. CASE own' = [own EXCEPT ![p] = Released(@)]
    <3>1. /\ Released(own[p]) \in Owned /\ Released(own[p]).session = own[p].session
          /\ Released(own[p]).entry \in {own[p].entry, "gone"}
      BY <1>3, ReleasedKept
    <3>2. own'[p] = Released(own[p]) /\ \A q \in Previews \ {p} : own'[q] = own[q]
      BY <1>3, <2>1, <2>3
    <3>3. own' \in [Previews -> Owned]
      BY <2>1, <2>3, <3>1
    <3> QED BY <3>1, <3>2, <3>3 DEF KeepsOwn, Keeps, Kept
  <2> QED BY <1>2, <2>2, <2>3
<1>10. /\ spent' \in [Previews -> [build : Nat, work : Nat]]
       /\ spent'[p].build = spent[p].build + Taken /\ spent'[p].work = spent[p].work
       /\ \A q \in Previews \ {p} : spent'[q] = spent[q]
  <2>1. Taken \in Nat
    BY <1>4, Limits
  <2> QED BY <1>1, <1>3, <2>1, BuildSpent
<1>11. Types'
  BY <1>1, <1>7, <1>8, <1>9, <1>10, IdleTyped DEF Types
<1>12. BuildFailed
  BY <1>1, <1>4, <1>6, <1>7, <1>9, <1>10 DEF BuildFailed, Building
<1> QED BY <1>11, <1>12

\* A revision is saved, or not; a Run is.
LEMMA RevisionStored ==
  ASSUME Types, NEW p \in Previews, NEW v \in Revised,
         store' = store \/ store' = [store EXCEPT ![p].revisions = @ \cup {v}]
  PROVE  /\ store' \in [Previews -> [revisions : SUBSET Revised, runs : SUBSET (1 .. MaxRuns)]]
         /\ \A q \in Previews :
               /\ store'[q].runs = store[q].runs
               /\ store'[q].revisions \subseteq
                     store[q].revisions \cup (IF q = p THEN {v} ELSE {})
<1>1. store \in [Previews -> [revisions : SUBSET Revised, runs : SUBSET (1 .. MaxRuns)]]
  BY DEF Types
<1>2. CASE store' = store
  BY <1>1, <1>2
<1>3. CASE store' = [store EXCEPT ![p].revisions = @ \cup {v}]
  BY <1>1, <1>3
<1> QED BY <1>2, <1>3

\* The build is entered.
LEMMA RegisterBuildEffect ==
  ASSUME Types, CallInv, RegisterBuild
  PROVE  Types' /\ RevisionSaved
<1> DEFINE p == call.p
           o == Registered(own[p])
<1>1. /\ call.pc = "register" /\ call' = Idle
      /\ UNCHANGED <<now, tree, auth, images, spent>>
      /\ own' = [own EXCEPT ![p] = o]
      /\ store' = store \/ store' = [store EXCEPT ![p].revisions = @ \cup {call.revision}]
  BY DEF RegisterBuild
<1>2. /\ p \in Previews /\ own[p] \in Owned /\ call.round \in Rounds
      /\ call.revision \in Revised /\ call.manifest \in Some
  BY <1>1, AliveFields, CallTypes DEF Types, Calls
<1>3. o \in Owned /\ o.session = own[p].session /\ o.entry = own[p].entry
  <2>1. [own[p].made EXCEPT ![call.round] = call.manifest] \in [Rounds -> Some]
    BY <1>2 DEF Owned
  <2> QED BY <1>2, <2>1 DEF Owned, Registered
<1> HIDE DEF o
<1>4. own' \in [Previews -> Owned] /\ SameOwn
  BY <1>1, <1>2, <1>3 DEF Types, SameOwn
<1>5. /\ store' \in [Previews -> [revisions : SUBSET Revised, runs : SUBSET (1 .. MaxRuns)]]
      /\ \A q \in Previews :
            /\ store'[q].runs = store[q].runs
            /\ store'[q].revisions \subseteq
                  store[q].revisions \cup (IF q = p THEN {call.revision} ELSE {})
  BY <1>1, <1>2, RevisionStored
<1>6. Types'
  BY <1>1, <1>4, <1>5, IdleTyped DEF Types
<1> QED BY <1>1, <1>4, <1>5, <1>6 DEF RevisionSaved, Saving

\* The last revision is saved.
LEMMA SaveSessionEffect ==
  ASSUME Types, CallInv, SaveSession
  PROVE  Types' /\ RevisionSaved
<1>1. /\ call.pc \in {"saveSession", "saveFailed"} /\ call' = Idle
      /\ UNCHANGED <<now, tree, auth, own, images, spent>>
      /\ store' = store \/ store' = [store EXCEPT ![call.p].revisions = @ \cup {call.revision}]
  BY DEF SaveSession, LockKeeps
<1>2. call.p \in Previews /\ call.revision \in Revised
  BY <1>1, AliveFields, CallTypes
<1>3. /\ store' \in [Previews -> [revisions : SUBSET Revised, runs : SUBSET (1 .. MaxRuns)]]
      /\ \A q \in Previews :
            /\ store'[q].runs = store[q].runs
            /\ store'[q].revisions \subseteq
                  store[q].revisions \cup (IF q = call.p THEN {call.revision} ELSE {})
  BY <1>1, <1>2, RevisionStored
<1>4. Types'
  BY <1>1, <1>3, IdleTyped DEF Types
<1> QED BY <1>1, <1>3, <1>4, SameOwnKept DEF RevisionSaved, Saving

\* The workload runs.
LEMMA CollectEffect ==
  ASSUME Types, CallInv, Collect
  PROVE  Types' /\ Moved
<1>1. call.pc = "collecting" /\ UNCHANGED <<now, tree, auth, own, images, store, spent>>
  BY DEF Collect
<1>2. PICK n \in 0 .. call.amount + 1, pc \in {"collected", "collectFailed"} :
         call' = [call EXCEPT !.pc = pc, !.amount = n]
  BY DEF Collect
<1>3. n \in Nat /\ call \in Calls
  BY CallTypes DEF Types
<1>4. call' \in Calls /\ Goes(pc)
  BY <1>2, <1>3 DEF Calls, Goes, Steps, Working
<1>5. Types'
  BY <1>1, <1>4 DEF Types
<1>6. \A q \in Previews : Stays(q) /\ Keeps(q)
  BY <1>1, SameOwnKept DEF KeepsOwn, Stays, Continues, Alike, Booked, SameWork, SameLock
<1>7. Moves
  BY <1>1, <1>4 DEF Moves
<1> QED BY <1>1, <1>5, <1>6, <1>7 DEF Moved, SameBooks

\* A session that is settled by a workload, and the reservation it settles.
LEMMA WorkloadLease ==
  ASSUME Types, CallInv, ChargeInv, call.pc \in Working, auth[call.p].state = "active"
  PROVE  auth[call.p].lease.reserved <= auth[call.p].amount
<1>1. call.p \in Previews
  BY AliveFields DEF Working
<1>2. spent[call.p].work + auth[call.p].lease.reserved <= auth[call.p].amount
  BY DEF ChargeInv
<1> QED BY <1>1, <1>2, SessionTypes

\* A workload that overran ends its session.
LEMMA OverrunEffect ==
  ASSUME Types, NEW p \in Previews, Passes(p), auth' = [auth EXCEPT ![p] = End(@, "exhausted")],
         own' = [own EXCEPT ![p] = Released(@)] \/ own' = own,
         images' = [images EXCEPT ![p] = KeptImages(p)] \/ images' = images
  PROVE  /\ auth' \in [Previews -> Session] /\ own' \in [Previews -> Owned]
         /\ images' \in [Previews -> SUBSET Rounds]
         /\ \A q \in Previews : Stays(q) /\ Keeps(q)
         /\ auth'[p].state # "active"
<1> DEFINE b == End(auth[p], "exhausted")
<1>1. auth[p] \in Session /\ auth[p].state = "active"
  BY SeenContinues DEF Types, Passes
<1>2. b \in Session /\ Ends(auth[p], b)
  BY <1>1, EndEnds DEF EndStates
<1>3. auth' = [auth EXCEPT ![p] = b]
  OBVIOUS
<1> HIDE DEF b
<1>4. Continues(auth[p], b) /\ b.state # "active"
  BY <1>2 DEF Continues, Ends, EndStates
<1>5. KeptImages(p) \in SUBSET Rounds
  BY DEF KeptImages, Types
<1> QED BY <1>2, <1>3, <1>4, <1>5, ReleaseQuiet

\* finish_workload settles, or ends the session.
LEMMA FinishWorkloadEffect ==
  ASSUME Types, CallInv, OwnInv, ChargeInv, FinishWorkload
  PROVE  Types' /\ (WorkloadSettled \/ Moved)
<1> DEFINE p == call.p
           a == auth[p]
           b == SettledWorkload(a)
           pc == IF call.lock = "yes" THEN "saveEvidence" ELSE "saveSession"
<1>1. call.pc = "collected" /\ UNCHANGED <<now, tree, store>>
  BY DEF FinishWorkload
<1>2. p \in Previews /\ a \in Session /\ call.amount \in Nat
  BY <1>1, AliveFields
<1>3. \/ /\ Passes(p) /\ ~Overrun(a) /\ auth' = [auth EXCEPT ![p] = b]
         /\ spent' = WorkTaken(p) /\ own' = own /\ images' = images
         /\ call' = [call EXCEPT !.pc = pc, !.revision = Revision(auth'[p])]
      \/ /\ Passes(p) /\ auth' = [auth EXCEPT ![p] = End(@, "exhausted")]
         /\ call' = [call EXCEPT !.pc = "collectFailed"] /\ UNCHANGED <<own, images, spent>>
      \/ /\ ~Passes(p) /\ Refused(p)
         /\ call' = [call EXCEPT !.pc = "collectFailed"] /\ spent' = spent
  BY DEF FinishWorkload
<1>4. ASSUME Passes(p), ~Overrun(a), auth' = [auth EXCEPT ![p] = b],
             spent' = WorkTaken(p), own' = own, images' = images,
             call' = [call EXCEPT !.pc = pc, !.revision = Revision(auth'[p])]
      PROVE  Types' /\ WorkloadSettled
  <2>1. a.state = "active"
    BY <1>2, <1>4, SeenContinues DEF Passes
  <2>2. a.lease.reserved <= a.amount
    BY <1>1, <2>1, WorkloadLease DEF Working
  <2>3. /\ b \in Session /\ b.lease = NoLease /\ b.state = a.state
        /\ b.amount = a.amount - a.lease.reserved + call.amount
        /\ b.runs = a.runs /\ b.seconds = a.seconds /\ SameLock(a, b)
    BY <1>2, <1>4, <2>2, SettledWorkloadFields
  <2> HIDE DEF b
  <2>4. auth' \in [Previews -> Session] /\ auth'[p] = b /\ Others(p)
    BY <1>2, <1>4, <2>3, OneChanges
  <2>5. /\ call' \in Calls /\ Goes(pc) /\ call'.amount = call.amount
        /\ call'.revision = Revision(b)
    <3>1. Revision(b) \in Revised /\ pc \in Steps
      BY <2>3, RevisionTyped DEF Steps, Uncharged, Saving
    <3>2. call' = [call EXCEPT !.pc = pc, !.revision = Revision(b)]
      BY <1>4, <2>4
    <3> HIDE DEF pc
    <3> QED BY <3>1, <3>2, CallGoesRevised
  <2>6. /\ spent' \in [Previews -> [build : Nat, work : Nat]]
        /\ spent'[p].work = spent[p].work + call.amount /\ spent'[p].build = spent[p].build
        /\ \A q \in Previews \ {p} : spent'[q] = spent[q]
    BY <1>2, <1>4, WorkSpent
  <2>7. call.amount <= a.lease.reserved
    BY <1>2, <1>4, SessionFields DEF Overrun
  <2>8. Types'
    BY <1>1, <1>4, <2>4, <2>5, <2>6 DEF Types
  <2>9. WorkloadSettled
    BY <1>1, <1>4, <2>1, <2>3, <2>4, <2>5, <2>6, <2>7, SameOwnKept
       DEF WorkloadSettled, SameLock
  <2> QED BY <2>8, <2>9
<1>5. ASSUME auth' \in [Previews -> Session], own' \in [Previews -> Owned],
             images' \in [Previews -> SUBSET Rounds],
             \A q \in Previews : Stays(q) /\ Keeps(q),
             call' = [call EXCEPT !.pc = "collectFailed"], spent' = spent
      PROVE  Types' /\ Moved
  <2>1. call' \in Calls /\ Goes("collectFailed")
    BY <1>5, CallGoes DEF Steps, Working
  <2>2. Types'
    BY <1>1, <1>5, <2>1 DEF Types
  <2>3. Moves
    BY <1>1, <2>1 DEF Moves
  <2> QED BY <1>1, <1>5, <2>2, <2>3 DEF Moved, SameBooks
<1>6. CASE /\ Passes(p) /\ auth' = [auth EXCEPT ![p] = End(@, "exhausted")]
           /\ call' = [call EXCEPT !.pc = "collectFailed"] /\ UNCHANGED <<own, images, spent>>
  BY <1>2, <1>5, <1>6, OverrunEffect
<1>7. CASE /\ ~Passes(p) /\ Refused(p)
           /\ call' = [call EXCEPT !.pc = "collectFailed"] /\ spent' = spent
  BY <1>2, <1>5, <1>7, RefusedEffect
<1> QED BY <1>3, <1>4, <1>6, <1>7

\* A session that is blocked for further work.
LEMMA BlockedKept ==
  ASSUME Types, NEW p \in Previews, own' = [own EXCEPT ![p].blocked = "yes"]
  PROVE  own' \in [Previews -> Owned] /\ SameOwn
<1>1. own \in [Previews -> Owned] /\ own[p] \in Owned
  BY DEF Types
<1>2. [own[p] EXCEPT !.blocked = "yes"] \in Owned
  BY <1>1 DEF Owned
<1> QED BY <1>1, <1>2 DEF SameOwn, Owned

\* fail_workload, when it is refused or the workload overran, and
\* fail_completed_runtime_lock_use, when it is refused.
LEMMA SnapshotEffect ==
  ASSUME Types, CallInv, call.pc \in {"collectFailed", "lockFailed"},
         auth' \in [Previews -> Session], own' \in [Previews -> Owned],
         images' \in [Previews -> SUBSET Rounds],
         \A q \in Previews : Stays(q) /\ Keeps(q), auth'[call.p].state # "active",
         call' = [call EXCEPT !.pc = "saveFailed", !.revision = Revision(auth'[call.p])],
         UNCHANGED <<now, tree, store, spent>>
  PROVE  Types' /\ Moved
<1>1. call.p \in Previews
  BY AliveFields
<1>2. Revision(auth'[call.p]) \in Revised /\ Revision(auth'[call.p]).state # "active"
  BY <1>1, RevisionTyped
<1>3. /\ call' \in Calls /\ Goes("saveFailed") /\ call'.revision = Revision(auth'[call.p])
  BY <1>2, CallGoesRevised DEF Steps, Saving
<1>4. Types'
  BY <1>3 DEF Types
<1>5. Moves
  BY <1>2, <1>3 DEF Moves
<1> QED BY <1>4, <1>5 DEF Moved, SameBooks

\* fail_workload settles, or meets the end of the session.
LEMMA FailWorkloadEffect ==
  ASSUME Types, CallInv, OwnInv, ChargeInv, FailWorkload
  PROVE  Types' /\ (WorkloadSettled \/ Moved)
<1> DEFINE p == call.p
           a == auth[p]
           s == SettledWorkload(a)
           b == IF call.lock = "yes" THEN Poisoned(s) ELSE s
<1>1. /\ call.pc = "collectFailed" /\ UNCHANGED <<now, tree, store>>
      /\ call' = [call EXCEPT !.pc = "saveFailed", !.revision = Revision(auth'[p])]
  BY DEF FailWorkload
<1>2. p \in Previews /\ a \in Session /\ call.amount \in Nat
  BY <1>1, AliveFields
<1>3. \/ /\ Passes(p) /\ ~Overrun(a) /\ auth' = [auth EXCEPT ![p] = b]
         /\ own' = [own EXCEPT ![p].blocked = "yes"]
         /\ spent' = WorkTaken(p) /\ images' = images
      \/ /\ Passes(p) /\ auth' = [auth EXCEPT ![p] = End(@, "exhausted")]
         /\ own' = [own EXCEPT ![p] = Released(@)]
         /\ images' = [images EXCEPT ![p] = KeptImages(p)] /\ spent' = spent
      \/ ~Passes(p) /\ Refused(p) /\ spent' = spent
  BY DEF FailWorkload
<1>4. ASSUME Passes(p), ~Overrun(a), auth' = [auth EXCEPT ![p] = b],
             own' = [own EXCEPT ![p].blocked = "yes"], spent' = WorkTaken(p), images' = images
      PROVE  Types' /\ WorkloadSettled
  <2>1. a.state = "active"
    BY <1>2, <1>4, SeenContinues DEF Passes
  <2>2. a.lease.reserved <= a.amount
    BY <1>1, <2>1, WorkloadLease DEF Working
  <2>3. /\ s \in Session /\ s.lease = NoLease /\ s.state = a.state
        /\ s.amount = a.amount - a.lease.reserved + call.amount
        /\ s.runs = a.runs /\ s.seconds = a.seconds /\ SameLock(a, s)
    BY <1>2, <1>4, <2>2, SettledWorkloadFields
  <2> HIDE DEF s
  <2>4. /\ b \in Session /\ b.lease = NoLease /\ b.state = a.state
        /\ b.amount = a.amount - a.lease.reserved + call.amount
        /\ b.runs = a.runs /\ b.seconds = a.seconds
        /\ b.lockRuns = a.lockRuns /\ b.lockAmount = a.lockAmount
        /\ b.lock = IF call.lock = "yes" THEN "unavailable" ELSE a.lock
    BY <2>3, PoisonedFields DEF SameLock, SameWork
  <2> HIDE DEF b
  <2>5. auth' \in [Previews -> Session] /\ auth'[p] = b /\ Others(p)
    BY <1>2, <1>4, <2>4, OneChanges
  <2>6. /\ call' \in Calls /\ Goes("saveFailed") /\ call'.amount = call.amount
        /\ call'.revision = Revision(b)
    <3>1. /\ Revision(b) \in Revised
          /\ call' = [call EXCEPT !.pc = "saveFailed", !.revision = Revision(b)]
      BY <1>1, <2>4, <2>5, RevisionTyped
    <3> QED BY <3>1, CallGoesRevised DEF Steps, Saving
  <2>7. /\ spent' \in [Previews -> [build : Nat, work : Nat]]
        /\ spent'[p].work = spent[p].work + call.amount /\ spent'[p].build = spent[p].build
        /\ \A q \in Previews \ {p} : spent'[q] = spent[q]
    BY <1>2, <1>4, WorkSpent
  <2>8. call.amount <= a.lease.reserved
    BY <1>2, <1>4, SessionFields DEF Overrun
  <2>9. own' \in [Previews -> Owned] /\ SameOwn
    BY <1>2, <1>4, BlockedKept
  <2>10. Types'
    BY <1>1, <1>4, <2>5, <2>6, <2>7, <2>9 DEF Types
  <2>11. WorkloadSettled
    BY <1>1, <2>1, <2>4, <2>5, <2>6, <2>7, <2>8, <2>9 DEF WorkloadSettled
  <2> QED BY <2>10, <2>11
<1>5. CASE /\ Passes(p) /\ auth' = [auth EXCEPT ![p] = End(@, "exhausted")]
           /\ own' = [own EXCEPT ![p] = Released(@)]
           /\ images' = [images EXCEPT ![p] = KeptImages(p)] /\ spent' = spent
  BY <1>1, <1>2, <1>5, OverrunEffect, SnapshotEffect
<1>6. CASE ~Passes(p) /\ Refused(p) /\ spent' = spent
  BY <1>1, <1>2, <1>6, RefusedEffect, SnapshotEffect
<1> QED BY <1>3, <1>4, <1>5, <1>6

\* Nothing but the call moves.
LEMMA StepEffect ==
  ASSUME Types, NEW pc \in Steps, call' = [call EXCEPT !.pc = pc],
         auth' \in [Previews -> Session], own' \in [Previews -> Owned],
         images' \in [Previews -> SUBSET Rounds],
         \A q \in Previews : Stays(q) /\ Keeps(q), UNCHANGED <<now, tree, store, spent>>,
         \/ call.pc = "saveEvidence" /\ pc = "charge"
         \/ call.pc \in Uncharged \cup {"saveRun", "saveParent", "publish"} /\ pc = "lockFailed"
  PROVE  Types' /\ Moved
<1>1. call' \in Calls /\ Goes(pc) /\ call'.amount = call.amount
  BY CallGoes
<1>2. Types'
  BY <1>1 DEF Types
<1>3. Moves
  BY <1>1 DEF Moves
<1> QED BY <1>2, <1>3 DEF Moved, SameBooks

\* A step of the call alone.
LEMMA NothingChanges ==
  ASSUME Types, auth' = auth, own' = own, images' = images
  PROVE  /\ auth' \in [Previews -> Session] /\ own' \in [Previews -> Owned]
         /\ images' \in [Previews -> SUBSET Rounds]
         /\ \A q \in Previews : Stays(q) /\ Keeps(q)
<1> QED BY SameOwnKept
        DEF Types, KeepsOwn, Stays, Continues, Alike, Booked, SameWork, SameLock

\* The evidence is saved, or not.
LEMMA SaveEvidenceEffect ==
  ASSUME Types, SaveEvidence
  PROVE  Types' /\ Moved
<1>1. /\ call.pc = "saveEvidence" /\ UNCHANGED <<now, tree, auth, own, images, store, spent>>
      /\ call' = [call EXCEPT !.pc = "charge"] \/ call' = [call EXCEPT !.pc = "lockFailed"]
  BY DEF SaveEvidence, LockKeeps, LockFails
<1> QED BY <1>1, NothingChanges, StepEffect DEF Steps, Uncharged

\* charge_runtime_lock_use charges, exhausts the scope or is refused.
LEMMA ChargeLockEffect ==
  ASSUME Types, CallInv, OwnInv, ChargeRuntimeLockUse
  PROVE  Types' /\ (LockCharged \/ LockSpoiled \/ Moved)
<1> DEFINE p == call.p
           a == auth[p]
           e == [a EXCEPT !.lock = "exhausted"]
<1>1. call.pc = "charge" /\ UNCHANGED <<now, tree, store, spent>>
  BY DEF ChargeRuntimeLockUse, LockKeeps
<1>2. p \in Previews /\ a \in Session /\ call.amount \in Nat
  BY <1>1, AliveFields
<1>3. \/ ~Passes(p) /\ Refused(p) /\ call' = [call EXCEPT !.pc = "lockFailed"]
      \/ \E n \in 0 .. call.amount, result \in {"active", "partial"} :
            /\ Passes(p) /\ LockBudgetLeft(a, n) /\ UNCHANGED <<own, images>>
            /\ auth' = [auth EXCEPT ![p] = ChargedLock(@, n, result)]
            /\ call' = [call EXCEPT !.pc = "saveRun", !.revision = Revision(auth'[p])]
      \/ /\ Passes(p) /\ auth' = [auth EXCEPT ![p].lock = "exhausted"]
         /\ call' = [call EXCEPT !.pc = "lockFailed"] /\ UNCHANGED <<own, images>>
  BY DEF ChargeRuntimeLockUse, LockFails
<1>4. CASE ~Passes(p) /\ Refused(p) /\ call' = [call EXCEPT !.pc = "lockFailed"]
  BY <1>1, <1>2, <1>4, RefusedEffect, StepEffect DEF Steps, Uncharged
<1>5. ASSUME NEW n \in 0 .. call.amount, NEW result \in {"active", "partial"},
             Passes(p), LockBudgetLeft(a, n), own' = own, images' = images,
             auth' = [auth EXCEPT ![p] = ChargedLock(@, n, result)],
             call' = [call EXCEPT !.pc = "saveRun", !.revision = Revision(auth'[p])]
      PROVE  Types' /\ LockCharged
  <2> DEFINE b == ChargedLock(a, n, result)
  <2>1. a.state = "active" /\ n \in Nat /\ n <= call.amount
    BY <1>2, <1>5, SeenContinues DEF Passes
  <2>2. /\ b \in Session /\ b.lock \in Usables /\ b.state = a.state /\ b.lease = a.lease
        /\ b.seconds = a.seconds /\ SameWork(a, b)
        /\ b.lockRuns = a.lockRuns + 1 /\ b.lockAmount = a.lockAmount + n
    BY <1>2, <1>5, <2>1, LockChargedFields
  <2>3. auth' = [auth EXCEPT ![p] = b]
    BY <1>5
  <2> HIDE DEF b
  <2>4. auth' \in [Previews -> Session] /\ auth'[p] = b /\ Others(p)
    BY <1>2, <2>2, <2>3, OneChanges
  <2>5. call' \in Calls /\ Goes("saveRun") /\ call'.revision = Revision(b)
    <3>1. /\ Revision(b) \in Revised
          /\ call' = [call EXCEPT !.pc = "saveRun", !.revision = Revision(b)]
      BY <1>5, <2>2, <2>4, RevisionTyped
    <3> QED BY <3>1, CallGoesRevised DEF Steps
  <2>6. Types'
    BY <1>1, <1>5, <2>4, <2>5 DEF Types
  <2>7. b.lockAmount - a.lockAmount <= call.amount
    BY <1>2, <2>1, <2>2, SessionFields
  <2>8. LockCharged
    BY <1>1, <1>5, <2>1, <2>2, <2>4, <2>5, <2>7, SameOwnKept DEF LockCharged, SameBooks
  <2> QED BY <2>6, <2>8
<1>6. ASSUME Passes(p), auth' = [auth EXCEPT ![p].lock = "exhausted"],
             call' = [call EXCEPT !.pc = "lockFailed"], own' = own, images' = images
      PROVE  Types' /\ LockSpoiled
  <2>1. a.state = "active"
    BY <1>2, <1>6, SeenContinues DEF Passes
  <2>2. /\ e \in Session /\ e.lock \notin Usables /\ e.state = a.state /\ e.lease = a.lease
        /\ e.seconds = a.seconds /\ SameWork(a, e)
        /\ e.lockRuns = a.lockRuns /\ e.lockAmount = a.lockAmount
    BY <1>2 DEF Session, SameWork, Usables
  <2>3. auth' = [auth EXCEPT ![p] = e]
    BY <1>2, <1>6
  <2> HIDE DEF e
  <2>4. auth' \in [Previews -> Session] /\ auth'[p] = e /\ Others(p)
    BY <1>2, <2>2, <2>3, OneChanges
  <2>5. call' \in Calls /\ Goes("lockFailed")
    BY <1>6, CallGoes DEF Steps
  <2>6. Types'
    BY <1>1, <1>6, <2>4, <2>5 DEF Types
  <2>7. LockSpoiled
    BY <1>1, <1>6, <2>1, <2>2, <2>4, <2>5, SameOwnKept DEF LockSpoiled, SameBooks
  <2> QED BY <2>6, <2>7
<1> QED BY <1>3, <1>4, <1>5, <1>6

\* The Run is saved, or not.
LEMMA SaveRunEffect ==
  ASSUME Types, CallInv, RunInv, SaveRun
  PROVE  Types' /\ (RunSaved \/ Moved)
<1> DEFINE p == call.p
<1>1. /\ call.pc = "saveRun" /\ UNCHANGED <<now, tree, auth, own, images, spent>>
  BY DEF SaveRun, LockKeeps
<1>2. p \in Previews /\ auth[p] \in Session
  BY <1>1, AliveFields
<1>3. \/ /\ store' = [store EXCEPT ![p].runs = @ \cup {auth[p].runs}]
         /\ call' = [call EXCEPT !.pc = "saveParent"]
      \/ store' = store /\ call' = [call EXCEPT !.pc = "lockFailed"]
  BY DEF SaveRun, LockFails
<1>4. CASE store' = store /\ call' = [call EXCEPT !.pc = "lockFailed"]
  BY <1>1, <1>4, NothingChanges, StepEffect DEF Steps
<1>5. ASSUME store' = [store EXCEPT ![p].runs = @ \cup {auth[p].runs}],
             call' = [call EXCEPT !.pc = "saveParent"]
      PROVE  Types' /\ RunSaved
  <2>1. auth[p].runs \in 1 .. MaxRuns
    <3>1. auth[p].runs \in 0 .. MaxRuns
      BY <1>2 DEF Session
    <3>2. auth[p].runs >= 1
      BY <1>1 DEF RunInv
    <3> QED BY <3>1, <3>2, Limits
  <2>2. store \in [Previews -> [revisions : SUBSET Revised, runs : SUBSET (1 .. MaxRuns)]]
    BY DEF Types
  <2>3. /\ store' \in [Previews -> [revisions : SUBSET Revised, runs : SUBSET (1 .. MaxRuns)]]
        /\ store'[p].runs = store[p].runs \cup {auth[p].runs}
        /\ store'[p].revisions = store[p].revisions
        /\ \A q \in Previews \ {p} : store'[q] = store[q]
    BY <1>2, <1>5, <2>1, <2>2
  <2>4. call' \in Calls /\ Goes("saveParent") /\ call'.revision = call.revision
    BY <1>5, CallGoes DEF Steps, Saving
  <2>5. Types'
    BY <1>1, <2>3, <2>4 DEF Types
  <2>6. RunSaved
    BY <1>1, <2>3, <2>4, SameOwnKept DEF RunSaved
  <2> QED BY <2>5, <2>6
<1> QED BY <1>3, <1>4, <1>5

\* The parent revision is saved, or not.
LEMMA SaveParentEffect ==
  ASSUME Types, CallInv, SaveParent
  PROVE  Types' /\ (RevisionSaved \/ Moved)
<1> DEFINE p == call.p
<1>1. call.pc = "saveParent" /\ UNCHANGED <<now, tree, auth, own, images, spent>>
  BY DEF SaveParent, LockKeeps
<1>2. p \in Previews /\ call.revision \in Revised
  BY <1>1, AliveFields, CallTypes
<1>3. \/ /\ store' = [store EXCEPT ![p].revisions = @ \cup {call.revision}]
         /\ call' = [call EXCEPT !.pc = "publish"]
      \/ store' = store /\ call' = [call EXCEPT !.pc = "lockFailed"]
  BY DEF SaveParent, LockFails
<1>4. CASE store' = store /\ call' = [call EXCEPT !.pc = "lockFailed"]
  BY <1>1, <1>4, NothingChanges, StepEffect DEF Steps
<1>5. ASSUME store' = [store EXCEPT ![p].revisions = @ \cup {call.revision}],
             call' = [call EXCEPT !.pc = "publish"]
      PROVE  Types' /\ RevisionSaved
  <2>1. /\ store' \in [Previews -> [revisions : SUBSET Revised, runs : SUBSET (1 .. MaxRuns)]]
        /\ \A q \in Previews :
              /\ store'[q].runs = store[q].runs
              /\ store'[q].revisions \subseteq
                    store[q].revisions \cup (IF q = p THEN {call.revision} ELSE {})
    <3> DEFINE v == call.revision
    <3>1. v \in Revised /\ store' = [store EXCEPT ![p].revisions = @ \cup {v}]
      BY <1>2, <1>5
    <3> HIDE DEF v
    <3>2. p \in Previews
      BY <1>2
    <3> HIDE DEF p
    <3> QED BY <3>1, <3>2, RevisionStored DEF v
  <2>2. call' \in Calls /\ Goes("publish")
    BY <1>5, CallGoes DEF Steps
  <2>3. Types'
    BY <1>1, <2>1, <2>2 DEF Types
  <2>4. RevisionSaved
    BY <1>1, <2>1, <2>2, SameOwnKept DEF RevisionSaved, Saving
  <2> QED BY <2>3, <2>4
<1> QED BY <1>3, <1>4, <1>5

\* mark_runtime_lock_published.
LEMMA PublishEffect ==
  ASSUME Types, CallInv, OwnInv, MarkRuntimeLockPublished
  PROVE  Types' /\ (Published \/ Moved)
<1> DEFINE p == call.p
           a == auth[p]
           b == [a EXCEPT !.done[a.runs] = "published"]
<1>1. call.pc = "publish" /\ UNCHANGED <<now, tree, store, spent>>
  BY DEF MarkRuntimeLockPublished, LockKeeps
<1>2. p \in Previews /\ a \in Session
  BY <1>1, AliveFields
<1>3. \/ /\ auth' = [auth EXCEPT ![p].done[auth[p].runs] = "published"]
         /\ call' = Idle /\ UNCHANGED <<own, images>>
      \/ ~Passes(p) /\ Refused(p) /\ call' = [call EXCEPT !.pc = "lockFailed"]
  BY DEF MarkRuntimeLockPublished, LockFails
<1>4. CASE ~Passes(p) /\ Refused(p) /\ call' = [call EXCEPT !.pc = "lockFailed"]
  BY <1>1, <1>2, <1>4, RefusedEffect, StepEffect DEF Steps
<1>5. ASSUME auth' = [auth EXCEPT ![p].done[auth[p].runs] = "published"],
             call' = Idle, own' = own, images' = images
      PROVE  Types' /\ Published
  <2>1. [a.done EXCEPT ![a.runs] = "published"] \in
           [1 .. MaxRuns -> {"none", "fresh", "charged", "published", "poisoned"}]
    BY <1>2 DEF Session
  <2>2. b \in Session /\ Alike(a, b)
    BY <1>2, <2>1 DEF Session, Alike, Booked, SameWork, SameLock
  <2>3. auth' = [auth EXCEPT ![p] = b]
    BY <1>2, <1>5
  <2> HIDE DEF b
  <2>4. auth' \in [Previews -> Session] /\ auth'[p] = b /\ Others(p)
    BY <1>2, <2>2, <2>3, OneChanges
  <2>5. Types'
    BY <1>1, <1>5, <2>4, IdleTyped DEF Types
  <2>6. \A q \in Previews : Alike(auth[q], auth'[q])
    BY <2>2, <2>4 DEF Others, Alike, Booked, SameWork, SameLock
  <2> QED BY <1>1, <1>5, <2>5, <2>6, SameOwnKept DEF Published, SameBooks
<1> QED BY <1>3, <1>4, <1>5

\* fail_completed_runtime_lock_use.
LEMMA FailLockEffect ==
  ASSUME Types, CallInv, OwnInv, FailRuntimeLock
  PROVE  Types' /\ (LockSpoiled \/ Moved)
<1> DEFINE p == call.p
           a == auth[p]
           b == Poisoned(a)
<1>1. /\ call.pc = "lockFailed" /\ UNCHANGED <<now, tree, store, spent>>
      /\ call' = [call EXCEPT !.pc = "saveFailed", !.revision = Revision(auth'[p])]
  BY DEF FailRuntimeLock, LockKeeps
<1>2. p \in Previews /\ a \in Session
  BY <1>1, AliveFields
<1>3. \/ /\ Passes(p) /\ auth' = [auth EXCEPT ![p] = b]
         /\ own' = [own EXCEPT ![p].blocked = "yes"] /\ images' = images
      \/ ~Passes(p) /\ Refused(p)
  BY DEF FailRuntimeLock
<1>4. CASE ~Passes(p) /\ Refused(p)
  BY <1>1, <1>2, <1>4, RefusedEffect, SnapshotEffect
<1>5. ASSUME Passes(p), auth' = [auth EXCEPT ![p] = b],
             own' = [own EXCEPT ![p].blocked = "yes"], images' = images
      PROVE  Types' /\ LockSpoiled
  <2>1. a.state = "active"
    BY <1>2, <1>5, SeenContinues DEF Passes
  <2>2. /\ b \in Session /\ b.lock \notin Usables /\ b.state = a.state /\ b.lease = a.lease
        /\ b.seconds = a.seconds /\ SameWork(a, b)
        /\ b.lockRuns = a.lockRuns /\ b.lockAmount = a.lockAmount
    BY <1>2, PoisonedFields DEF Usables
  <2> HIDE DEF b
  <2>3. auth' \in [Previews -> Session] /\ auth'[p] = b /\ Others(p)
    BY <1>2, <1>5, <2>2, OneChanges
  <2>4. call' \in Calls /\ Goes("saveFailed") /\ call'.revision = Revision(b)
    <3>1. /\ Revision(b) \in Revised
          /\ call' = [call EXCEPT !.pc = "saveFailed", !.revision = Revision(b)]
      BY <1>1, <2>2, <2>3, RevisionTyped
    <3> QED BY <3>1, CallGoesRevised DEF Steps, Saving
  <2>5. own' \in [Previews -> Owned] /\ SameOwn
    BY <1>2, <1>5, BlockedKept
  <2>6. Types'
    BY <1>1, <1>5, <2>3, <2>4, <2>5 DEF Types
  <2>7. LockSpoiled
    BY <1>1, <2>1, <2>2, <2>3, <2>4, <2>5 DEF LockSpoiled, SameBooks
  <2> QED BY <2>6, <2>7
<1> QED BY <1>3, <1>4, <1>5

\* A call that goes on.
LEMMA CallElementary ==
  ASSUME AccountInv, CallStep
  PROVE  Types' /\ Elementary
<1> USE DEF AccountInv, Elementary
<1>1. CASE AdapterBuild
  BY <1>1, AdapterBuildEffect
<1>2. CASE FinishBuild
  BY <1>2, FinishBuildEffect
<1>3. CASE RegisterBuild
  BY <1>3, RegisterBuildEffect
<1>4. CASE FailBuild
  BY <1>4, FailBuildEffect
<1>5. CASE Collect
  BY <1>5, CollectEffect
<1>6. CASE FinishWorkload
  BY <1>6, FinishWorkloadEffect
<1>7. CASE FailWorkload
  BY <1>7, FailWorkloadEffect
<1>8. CASE SaveEvidence
  BY <1>8, SaveEvidenceEffect
<1>9. CASE ChargeRuntimeLockUse
  BY <1>9, ChargeLockEffect
<1>10. CASE SaveRun
  BY <1>10, SaveRunEffect
<1>11. CASE SaveParent
  BY <1>11, SaveParentEffect
<1>12. CASE MarkRuntimeLockPublished
  BY <1>12, PublishEffect
<1>13. CASE FailRuntimeLock
  BY <1>13, FailLockEffect
<1>14. CASE SaveSession
  BY <1>14, SaveSessionEffect
<1> HIDE DEF AccountInv, Elementary
<1> QED BY <1>1, <1>2, <1>3, <1>4, <1>5, <1>6, <1>7, <1>8, <1>9, <1>10, <1>11, <1>12, <1>13,
           <1>14 DEF CallStep

\* A call that begins.
LEMMA NewElementary ==
  ASSUME AccountInv, NewCall
  PROVE  Types' /\ Elementary
<1> USE DEF AccountInv, Elementary
<1>1. ASSUME NEW p \in Previews, Preview(p) PROVE Types' /\ Elementary
  BY <1>1, PreviewEffect
<1>2. ASSUME NEW p \in Previews, Authorize(p) PROVE Types' /\ Elementary
  BY <1>2, AuthorizeEffect
<1>3. ASSUME NEW p \in Previews, Revoke(p) \/ FindEnded(p) \/ ContextChanged(p)
      PROVE  Types' /\ Elementary
  <2>1. EndAndRelease(p, "revoked") /\ UNCHANGED <<now, tree, store, call, spent>>
    BY <1>3 DEF Revoke, FindEnded, ContextChanged, Bookkeeping
  <2> QED BY <2>1, EndEffect DEF EndStates
<1>4. ASSUME NEW p \in Previews, NEW r \in Rounds, BeginBuild(p, r) PROVE Types' /\ Elementary
  BY <1>4, BeginBuildEffect
<1>5. ASSUME NEW p \in Previews, NEW r \in Rounds, BuildExhausted(p, r)
      PROVE  Types' /\ Elementary
  <2>1. /\ Usable(auth[p]) /\ auth' = [auth EXCEPT ![p] = End(@, "exhausted")]
        /\ UNCHANGED <<own, images>> /\ UNCHANGED <<now, tree, store, call, spent>>
    BY <1>5 DEF BuildExhausted, Buildable, Bookkeeping
  <2> QED BY <2>1, EndEffect DEF EndStates
<1>6. ASSUME NEW p \in Previews, NEW r \in Rounds, RetryRefused(p, r) PROVE Types' /\ Elementary
  BY <1>6, RetryEffect
<1>7. ASSUME NEW p \in Previews, NEW r \in Rounds, FinalizeCandidate(p, r)
      PROVE  Types' /\ Elementary
  <2>1. EndAndRelease(p, "revoked") /\ UNCHANGED <<now, tree, store, call, spent>>
    BY <1>7 DEF FinalizeCandidate, Bookkeeping
  <2> QED BY <2>1, EndEffect DEF EndStates
<1>8. ASSUME NEW p \in Previews, NEW r \in Rounds, NEW n \in 1 .. ActiveAmount,
             WorkloadExhausted(p, r, n)
      PROVE  Types' /\ Elementary
  <2>1. /\ Usable(auth[p]) /\ auth' = [auth EXCEPT ![p] = End(@, "exhausted")]
        /\ UNCHANGED <<own, images>> /\ UNCHANGED <<now, tree, store, call, spent>>
    BY <1>8 DEF WorkloadExhausted, Collectable, Bookkeeping
  <2> QED BY <2>1, EndEffect DEF EndStates
<1>9. ASSUME NEW p \in Previews, NEW r \in Rounds, NEW n \in 1 .. ActiveAmount,
             NEW lock \in {"yes", "no"}, BeginWorkload(p, r, n, lock)
      PROVE  Types' /\ Elementary
  <2>1. Types' /\ (WorkloadBegun(p, n) \/ BegunTooLate(p))
    BY <1>9, BeginWorkloadEffect
  <2>2. n \in Nat
    BY Limits
  <2> QED BY <2>1, <2>2
<1>10. CASE Inspect
  BY <1>10, PruneEffect DEF Inspect, Bookkeeping
<1>11. CASE Close
  BY <1>11, CloseEffect
<1> HIDE DEF AccountInv, Elementary
<1> QED BY <1>1, <1>2, <1>3, <1>4, <1>5, <1>6, <1>7, <1>8, <1>9, <1>10, <1>11 DEF NewCall

\* Every step is an elementary one.
LEMMA NextElementary ==
  ASSUME AccountInv, [Next]_vars
  PROVE  Types' /\ (Elementary \/ UNCHANGED vars)
<1>1. CASE Tick \/ Edit
  BY <1>1, ClockEffect DEF AccountInv, Elementary
<1>2. CASE NewCall
  BY <1>2, NewElementary
<1>3. CASE CallStep
  BY <1>3, CallElementary
<1>4. CASE RunScheduledCleanup
  <2>1. UNCHANGED <<now, tree, store, call, spent>>
    BY <1>4 DEF RunScheduledCleanup, Bookkeeping
  <2>2. CASE auth' = PrunedAuth /\ own' = PrunedOwn /\ images' = PrunedImages
    BY <2>1, <2>2, PruneEffect DEF AccountInv, Elementary
  <2>3. ASSUME NEW p \in Previews, PruneRaises(p) PROVE Types' /\ Elementary
    BY <2>1, <2>3, RaiseEffect DEF AccountInv, Elementary
  <2> QED BY <1>4, <2>2, <2>3 DEF RunScheduledCleanup
<1>5. CASE UNCHANGED vars
  BY <1>5 DEF AccountInv, Types, vars
<1> QED BY <1>1, <1>2, <1>3, <1>4, <1>5 DEF Next

----------------------------------------------------------------------------
(* What the elementary steps keep.                                        *)

\* A call is about a session that was authorized.
LEMMA NextCall ==
  ASSUME Types, Types', CallInv, Elementary \/ UNCHANGED vars
  PROVE  CallInv'
<1> USE SessionTypes, CallTypes, IdleFields DEF CallInv, EndStates, Building, Working,
   Uncharged, Saving, Steps
<1>1. CASE Quiet
  <2>1. now \in Nat /\ now' \in Nat
    BY Limits DEF Types
  <2> QED BY <1>1, <2>1 DEF Quiet, Stays, Continues, Alike, Ends
<1>2. CASE Moved
  BY <1>2 DEF Moved, Moves, Goes, SameBooks, Stays, Continues, Keeps, Kept, Alike, Ends,
     Booked, SameWork, SameLock
<1>3. ASSUME NEW p \in Previews, Authorized(p) PROVE CallInv'
  BY <1>3 DEF Authorized, SameBooks, Stays, Continues, Keeps, Kept, Alike, Ends, Booked,
     SameWork, SameLock
<1>4. ASSUME NEW p \in Previews, BuildBegun(p) PROVE CallInv'
  BY <1>4 DEF BuildBegun, Others, SameOwn, SameBooks, SameWork, SameLock
<1>5. ASSUME NEW p \in Previews, NEW n \in Nat, WorkloadBegun(p, n) PROVE CallInv'
  BY <1>5 DEF WorkloadBegun, Others, SameOwn, SameBooks, SameLock
<1>6. ASSUME NEW p \in Previews, BegunTooLate(p) PROVE CallInv'
  BY <1>6 DEF BegunTooLate, Others, SameOwn, SameBooks, SameLock
<1>7. CASE BuildFinished
  BY <1>7 DEF BuildFinished, Goes, Others, SameOwn, SameWork, SameLock
<1>8. CASE BuildFailed
  BY <1>8 DEF BuildFailed, Others, KeepsOwn, Keeps, Kept, SameWork, SameLock
<1>9. CASE WorkloadSettled
  BY <1>9 DEF WorkloadSettled, Goes, Others, SameOwn
<1>10. CASE LockCharged
  BY <1>10 DEF LockCharged, Goes, Others, SameOwn, SameBooks, SameWork
<1>11. CASE LockSpoiled
  BY <1>11 DEF LockSpoiled, Goes, Others, SameOwn, SameBooks, SameWork
<1>12. CASE RunSaved
  BY <1>12 DEF RunSaved, Goes, SameOwn
<1>13. CASE RevisionSaved
  BY <1>13 DEF RevisionSaved, Goes, SameOwn
<1>14. CASE Published
  BY <1>14 DEF Published, SameOwn, SameBooks, Alike, Booked, SameWork, SameLock
<1>15. CASE UNCHANGED vars
  BY <1>15 DEF vars
<1> HIDE DEF CallInv
<1> QED BY <1>1, <1>2, <1>3, <1>4, <1>5, <1>6, <1>7, <1>8, <1>9, <1>10, <1>11, <1>12, <1>13,
   <1>14, <1>15 DEF Elementary

\* The runtime knows the sessions that were authorized and drops those that
\* ended.
LEMMA NextOwn ==
  ASSUME Types, Types', CallInv, OwnInv, Elementary \/ UNCHANGED vars
  PROVE  OwnInv'
<1> USE SessionTypes, IdleFields DEF CallInv, OwnInv, EndStates, Building, Working,
   Uncharged, Saving, Steps
<1>1. CASE Quiet
  BY <1>1 DEF Quiet, Stays, Continues, Keeps, Kept, Alike, Ends, Booked, SameWork, SameLock
<1>2. CASE Moved
  BY <1>2 DEF Moved, Moves, Goes, SameBooks, Stays, Continues, Keeps, Kept, Alike, Ends,
     Booked, SameWork, SameLock
<1>3. ASSUME NEW p \in Previews, Authorized(p) PROVE OwnInv'
  BY <1>3 DEF Authorized, SameBooks, Stays, Continues, Keeps, Kept, Alike, Ends, Booked,
     SameWork, SameLock
<1>4. ASSUME NEW p \in Previews, BuildBegun(p) PROVE OwnInv'
  BY <1>4 DEF BuildBegun, Others, SameOwn, SameBooks, SameWork, SameLock
<1>5. ASSUME NEW p \in Previews, NEW n \in Nat, WorkloadBegun(p, n) PROVE OwnInv'
  BY <1>5 DEF WorkloadBegun, Others, SameOwn, SameBooks, SameLock
<1>6. ASSUME NEW p \in Previews, BegunTooLate(p) PROVE OwnInv'
  BY <1>6 DEF BegunTooLate, Others, SameOwn, SameBooks, SameLock
<1>7. CASE BuildFinished
  BY <1>7 DEF BuildFinished, Goes, Others, SameOwn, SameWork, SameLock
<1>8. CASE BuildFailed
  BY <1>8 DEF BuildFailed, Others, KeepsOwn, Keeps, Kept, SameWork, SameLock
<1>9. CASE WorkloadSettled
  BY <1>9 DEF WorkloadSettled, Goes, Others, SameOwn
<1>10. CASE LockCharged
  BY <1>10 DEF LockCharged, Goes, Others, SameOwn, SameBooks, SameWork
<1>11. CASE LockSpoiled
  BY <1>11 DEF LockSpoiled, Goes, Others, SameOwn, SameBooks, SameWork
<1>12. CASE RunSaved
  BY <1>12 DEF RunSaved, Goes, SameOwn
<1>13. CASE RevisionSaved
  BY <1>13 DEF RevisionSaved, Goes, SameOwn
<1>14. CASE Published
  BY <1>14 DEF Published, SameOwn, SameBooks, Alike, Booked, SameWork, SameLock
<1>15. CASE UNCHANGED vars
  BY <1>15 DEF vars
<1> HIDE DEF CallInv, OwnInv
<1> QED BY <1>1, <1>2, <1>3, <1>4, <1>5, <1>6, <1>7, <1>8, <1>9, <1>10, <1>11, <1>12, <1>13,
   <1>14, <1>15 DEF Elementary

\* A lease belongs to the call in progress.
LEMMA NextLease ==
  ASSUME Types, CallInv, OwnInv, LeaseInv, Elementary \/ UNCHANGED vars
  PROVE  LeaseInv'
<1> USE IdleFields DEF CallInv, OwnInv, LeaseInv, EndStates, Building, Working, Uncharged,
   Saving, Steps
<1>1. CASE Quiet
  BY <1>1 DEF Quiet, Stays, Continues, Keeps, Kept, Alike, Ends, Booked, SameWork, SameLock
<1>2. CASE Moved
  BY <1>2 DEF Moved, Moves, Goes, SameBooks, Stays, Continues, Keeps, Kept, Alike, Ends,
     Booked, SameWork, SameLock
<1>3. ASSUME NEW p \in Previews, Authorized(p) PROVE LeaseInv'
  BY <1>3 DEF Authorized, SameBooks, Stays, Continues, Keeps, Kept, Alike, Ends, Booked,
     SameWork, SameLock
<1>4. ASSUME NEW p \in Previews, BuildBegun(p) PROVE LeaseInv'
  BY <1>4 DEF BuildBegun, Others, SameOwn, SameBooks, SameWork, SameLock
<1>5. ASSUME NEW p \in Previews, NEW n \in Nat, WorkloadBegun(p, n) PROVE LeaseInv'
  BY <1>5 DEF WorkloadBegun, Others, SameOwn, SameBooks, SameLock
<1>6. ASSUME NEW p \in Previews, BegunTooLate(p) PROVE LeaseInv'
  BY <1>6 DEF BegunTooLate, Others, SameOwn, SameBooks, SameLock
<1>7. CASE BuildFinished
  BY <1>7 DEF BuildFinished, Goes, Others, SameOwn, SameWork, SameLock
<1>8. CASE BuildFailed
  BY <1>8 DEF BuildFailed, Others, KeepsOwn, Keeps, Kept, SameWork, SameLock
<1>9. CASE WorkloadSettled
  BY <1>9 DEF WorkloadSettled, Goes, Others, SameOwn
<1>10. CASE LockCharged
  BY <1>10 DEF LockCharged, Goes, Others, SameOwn, SameBooks, SameWork
<1>11. CASE LockSpoiled
  BY <1>11 DEF LockSpoiled, Goes, Others, SameOwn, SameBooks, SameWork
<1>12. CASE RunSaved
  BY <1>12 DEF RunSaved, Goes, SameOwn
<1>13. CASE RevisionSaved
  BY <1>13 DEF RevisionSaved, Goes, SameOwn
<1>14. CASE Published
  BY <1>14 DEF Published, SameOwn, SameBooks, Alike, Booked, SameWork, SameLock
<1>15. CASE UNCHANGED vars
  BY <1>15 DEF vars
<1> HIDE DEF CallInv, OwnInv, LeaseInv
<1> QED BY <1>1, <1>2, <1>3, <1>4, <1>5, <1>6, <1>7, <1>8, <1>9, <1>10, <1>11, <1>12, <1>13,
   <1>14, <1>15 DEF Elementary

\* What is used stays booked.
LEMMA NextCharge ==
  ASSUME Types, Types', CallInv, OwnInv, LeaseInv, ChargeInv, Elementary \/ UNCHANGED vars
  PROVE  ChargeInv'
<1> USE SessionTypes, CallTypes, IdleFields, Limits DEF CallInv, OwnInv, LeaseInv,
   ChargeInv, EndStates, Building, Working, Uncharged, Saving, Steps
<1>1. CASE Quiet
  BY <1>1 DEF Quiet, Stays, Continues, Keeps, Kept, Alike, Ends, Booked, SameWork, SameLock
<1>2. CASE Moved
  BY <1>2 DEF Moved, Moves, Goes, SameBooks, Stays, Continues, Keeps, Kept, Alike, Ends,
     Booked, SameWork, SameLock
<1>3. ASSUME NEW p \in Previews, Authorized(p) PROVE ChargeInv'
  BY <1>3 DEF Authorized, SameBooks, Stays, Continues, Keeps, Kept, Alike, Ends, Booked,
     SameWork, SameLock
<1>4. ASSUME NEW p \in Previews, BuildBegun(p) PROVE ChargeInv'
  BY <1>4 DEF BuildBegun, Others, SameOwn, SameBooks, SameWork, SameLock
<1>5. ASSUME NEW p \in Previews, NEW n \in Nat, WorkloadBegun(p, n) PROVE ChargeInv'
  BY <1>5 DEF WorkloadBegun, Others, SameOwn, SameBooks, SameLock
<1>6. ASSUME NEW p \in Previews, BegunTooLate(p) PROVE ChargeInv'
  <2>1. auth'[p] \in Session
    BY DEF Types
  <2>2. /\ auth'[p].runs \in Nat /\ auth'[p].seconds \in Nat /\ auth'[p].amount \in Nat
    BY <2>1, SessionFields
  <2>3. /\ spent'[p].build <= auth'[p].seconds /\ spent'[p].work <= auth'[p].amount
        /\ auth'[p].lockAmount <= auth'[p].amount /\ auth'[p].lockRuns <= auth'[p].runs
    BY <1>6, <2>2 DEF BegunTooLate, SameLock, SameBooks
  <2>4. \A q \in Previews \ {p} : auth'[q] = auth[q] /\ spent'[q] = spent[q]
    BY <1>6 DEF BegunTooLate, Others, SameBooks
  <2>5. call'.pc = "idle"
    BY <1>6 DEF BegunTooLate
  <2> QED BY <2>3, <2>4, <2>5
<1>7. CASE BuildFinished
  BY <1>7 DEF BuildFinished, Goes, Others, SameOwn, SameWork, SameLock
<1>8. CASE BuildFailed
  <2> DEFINE p == call.p
  <2>1. PICK t \in 0 .. BuildSeconds :
           /\ auth[p].seconds - BuildSeconds + t <= auth'[p].seconds
           /\ spent'[p].build = spent[p].build + t
    BY <1>8 DEF BuildFailed
  <2>2. /\ p \in Previews /\ SameWork(auth[p], auth'[p]) /\ SameLock(auth[p], auth'[p])
        /\ spent'[p].work = spent[p].work /\ call'.pc = "idle"
        /\ \A q \in Previews \ {p} : auth'[q] = auth[q] /\ spent'[q] = spent[q]
        /\ spent[p].build + BuildSeconds <= auth[p].seconds
    BY <1>8 DEF BuildFailed, Others
  <2>3. auth'[p] \in Session
    BY <2>2 DEF Types
  <2>4. auth'[p].seconds \in Nat
    BY <2>3, SessionFields
  <2>5. spent'[p].build <= auth'[p].seconds
    BY <2>1, <2>2, <2>4
  <2> QED BY <2>2, <2>5 DEF SameWork, SameLock
<1>9. CASE WorkloadSettled
  BY <1>9 DEF WorkloadSettled, Goes, Others, SameOwn
<1>10. CASE LockCharged
  <2> DEFINE p == call.p
  <2>1. /\ p \in Previews /\ auth'[p].lockAmount - auth[p].lockAmount <= call.amount
        /\ auth[p].lockAmount + call.amount <= auth[p].amount
        /\ auth'[p].amount = auth[p].amount /\ auth'[p].seconds = auth[p].seconds
        /\ auth'[p].lockRuns = auth[p].lockRuns + 1 /\ auth'[p].runs = auth[p].runs
        /\ auth[p].lockRuns + 1 <= auth[p].runs /\ spent' = spent /\ call'.pc = "saveRun"
        /\ \A q \in Previews \ {p} : auth'[q] = auth[q]
    BY <1>10 DEF LockCharged, Goes, Others, SameBooks, SameWork
  <2>2. auth'[p] \in Session
    BY <2>1 DEF Types
  <2>3. auth'[p].lockAmount \in Nat
    BY <2>2, SessionFields
  <2>4. auth'[p].lockAmount <= auth'[p].amount
    BY <2>1, <2>3
  <2> QED BY <2>1, <2>4
<1>11. CASE LockSpoiled
  BY <1>11 DEF LockSpoiled, Goes, Others, SameOwn, SameBooks, SameWork
<1>12. CASE RunSaved
  BY <1>12 DEF RunSaved, Goes, SameOwn
<1>13. CASE RevisionSaved
  BY <1>13 DEF RevisionSaved, Goes, SameOwn
<1>14. CASE Published
  BY <1>14 DEF Published, SameOwn, SameBooks, Alike, Booked, SameWork, SameLock
<1>15. CASE UNCHANGED vars
  BY <1>15 DEF vars
<1> HIDE DEF CallInv, OwnInv, LeaseInv, ChargeInv
<1> QED BY <1>1, <1>2, <1>3, <1>4, <1>5, <1>6, <1>7, <1>8, <1>9, <1>10, <1>11, <1>12, <1>13,
   <1>14, <1>15 DEF Elementary

\* A Run is saved once.
LEMMA NextRun ==
  ASSUME Types, Types', CallInv, OwnInv, RunInv, Elementary \/ UNCHANGED vars
  PROVE  RunInv'
<1> USE SessionTypes, CallTypes, IdleFields, Limits DEF CallInv, OwnInv, RunInv, Building,
   Working, Uncharged, Saving, Steps
<1>1. CASE Quiet
  BY <1>1 DEF Quiet, Stays, Continues, Keeps, Kept, Alike, Ends, Booked, SameWork, SameLock
<1>2. CASE Moved
  BY <1>2 DEF Moved, Moves, Goes, SameBooks, Stays, Continues, Keeps, Kept, Alike, Ends,
     Booked, SameWork, SameLock
<1>3. ASSUME NEW p \in Previews, Authorized(p) PROVE RunInv'
  BY <1>3 DEF Authorized, SameBooks, Stays, Continues, Keeps, Kept, Alike, Ends, Booked,
     SameWork, SameLock
<1>4. ASSUME NEW p \in Previews, BuildBegun(p) PROVE RunInv'
  BY <1>4 DEF BuildBegun, Others, SameOwn, SameBooks, SameWork, SameLock
<1>5. ASSUME NEW p \in Previews, NEW n \in Nat, WorkloadBegun(p, n) PROVE RunInv'
  BY <1>5 DEF WorkloadBegun, Others, SameOwn, SameBooks, SameLock
<1>6. ASSUME NEW p \in Previews, BegunTooLate(p) PROVE RunInv'
  <2>1. auth'[p] \in Session
    BY DEF Types
  <2>2. auth'[p].runs \in Nat
    BY <2>1, SessionFields
  <2> QED BY <1>6, <2>2 DEF BegunTooLate, Others, SameBooks
<1>7. CASE BuildFinished
  BY <1>7 DEF BuildFinished, Goes, Others, SameOwn, SameWork, SameLock
<1>8. CASE BuildFailed
  BY <1>8 DEF BuildFailed, Others, KeepsOwn, Keeps, Kept, SameWork, SameLock
<1>9. CASE WorkloadSettled
  BY <1>9 DEF WorkloadSettled, Goes, Others, SameOwn
<1>10. CASE LockCharged
  BY <1>10 DEF LockCharged, Goes, Others, SameOwn, SameBooks, SameWork
<1>11. CASE LockSpoiled
  BY <1>11 DEF LockSpoiled, Goes, Others, SameOwn, SameBooks, SameWork
<1>12. CASE RunSaved
  BY <1>12 DEF RunSaved, Goes, SameOwn
<1>13. CASE RevisionSaved
  BY <1>13 DEF RevisionSaved, Goes, SameOwn
<1>14. CASE Published
  BY <1>14 DEF Published, SameOwn, SameBooks, Alike, Booked, SameWork, SameLock
<1>15. CASE UNCHANGED vars
  BY <1>15 DEF vars
<1> HIDE DEF CallInv, OwnInv, RunInv
<1> QED BY <1>1, <1>2, <1>3, <1>4, <1>5, <1>6, <1>7, <1>8, <1>9, <1>10, <1>11, <1>12, <1>13,
   <1>14, <1>15 DEF Elementary

\* What a session counts is saved before its revision is.
LEMMA NextLock ==
  ASSUME Types, Types', CallInv, OwnInv, RunInv, LockInv, Elementary \/ UNCHANGED vars
  PROVE  LockInv'
<1> USE SessionTypes, CallTypes, IdleFields, Limits DEF CallInv, OwnInv, LockInv, Counted,
   Countable, Revision, EndStates, Usables, Building, Working, Uncharged, Saving, Steps
<1>1. CASE Quiet
  BY <1>1 DEF Quiet, Stays, Continues, Keeps, Kept, Alike, Ends, Booked, SameWork, SameLock
<1>2. CASE Moved
  BY <1>2 DEF Moved, Moves, Goes, SameBooks, Stays, Continues, Keeps, Kept, Alike, Ends,
     Booked, SameWork, SameLock
<1>3. ASSUME NEW p \in Previews, Authorized(p) PROVE LockInv'
  <2>1. /\ call'.pc = "idle" /\ store' = store /\ call' = call /\ auth'[p].lockRuns = 0
        /\ \A q \in Previews \ {p} : Stays(q)
    BY <1>3 DEF Authorized, SameBooks
  <2>2. \A q \in Previews : Countable(q) \in Nat
    BY RunsFinite
  <2>3. \A q \in Previews \ {p} : Counted(auth'[q], Countable(q))
    BY <2>1, <1>3 DEF Authorized, Stays, Continues, Alike, Ends, Booked, SameLock
  <2>4. Counted(auth'[p], Countable(p))
    BY <2>1, <2>2
  <2>5. \A q \in Previews : Countable(q)' = Countable(q)
    BY <2>1
  <2> QED BY <2>1, <2>3, <2>4, <2>5
<1>4. ASSUME NEW p \in Previews, BuildBegun(p) PROVE LockInv'
  BY <1>4 DEF BuildBegun, Others, SameOwn, SameBooks, SameWork, SameLock
<1>5. ASSUME NEW p \in Previews, NEW n \in Nat, WorkloadBegun(p, n) PROVE LockInv'
  BY <1>5 DEF WorkloadBegun, Others, SameOwn, SameBooks, SameLock
<1>6. ASSUME NEW p \in Previews, BegunTooLate(p) PROVE LockInv'
  BY <1>6 DEF BegunTooLate, Others, SameOwn, SameBooks, SameLock
<1>7. CASE BuildFinished
  BY <1>7 DEF BuildFinished, Goes, Others, SameOwn, SameWork, SameLock
<1>8. CASE BuildFailed
  BY <1>8 DEF BuildFailed, Others, KeepsOwn, Keeps, Kept, SameWork, SameLock
<1>9. CASE WorkloadSettled
  BY <1>9 DEF WorkloadSettled, Goes, Others, SameOwn
<1>10. CASE LockCharged
  <2> DEFINE p == call.p
  <2>1. /\ p \in Previews /\ call.pc = "charge" /\ call'.pc = "saveRun" /\ call'.p = p
        /\ store' = store /\ auth[p].state = "active" /\ auth[p].lock \in Usables
        /\ auth'[p].lockRuns = auth[p].lockRuns + 1 /\ call'.revision = Revision(auth'[p])
        /\ \A q \in Previews \ {p} : auth'[q] = auth[q]
    BY <1>10 DEF LockCharged, Goes, Others, SameBooks
  <2>2. /\ Countable(p) \in Nat /\ Countable(p)' = Countable(p) + 1
        /\ \A q \in Previews \ {p} : Countable(q)' = Countable(q)
    BY <2>1, RunsFinite
  <2>3. auth[p].lockRuns <= Countable(p)
    BY <2>1
  <2>4. auth'[p].lockRuns <= Countable(p)'
    BY <2>1, <2>2, <2>3
  <2>5. call'.revision.lockRuns <= Countable(p)'
    BY <2>1, <2>4
  <2> HIDE DEF Countable
  <2> QED BY <2>1, <2>2, <2>4, <2>5
<1>11. CASE LockSpoiled
  BY <1>11 DEF LockSpoiled, Goes, Others, SameOwn, SameBooks, SameWork
<1>12. CASE RunSaved
  <2> DEFINE p == call.p
  <2>1. /\ p \in Previews /\ call.pc = "saveRun" /\ call'.pc = "saveParent" /\ call'.p = p
        /\ store'[p].runs = store[p].runs \cup {auth[p].runs} /\ auth' = auth
        /\ store'[p].revisions = store[p].revisions /\ call'.revision = call.revision
        /\ auth[p].runs \notin store[p].runs
        /\ \A q \in Previews \ {p} : store'[q] = store[q]
    BY <1>12 DEF RunSaved, Goes, RunInv
  <2>2. /\ Cardinality(store[p].runs) \in Nat
        /\ Cardinality(store'[p].runs) = Cardinality(store[p].runs) + 1
    <3>1. IsFiniteSet(store[p].runs) /\ Cardinality(store[p].runs) \in Nat
      BY <2>1, RunsFinite
    <3>2. Cardinality(store[p].runs \cup {auth[p].runs}) = Cardinality(store[p].runs) + 1
      BY <2>1, <3>1, FS_AddElement, Zenon
    <3> QED BY <2>1, <3>1, <3>2
  <2>3. Countable(p)' = Countable(p)
    BY <2>1, <2>2
  <2>4. \A q \in Previews \ {p} : Countable(q)' = Countable(q)
    BY <2>1
  <2>5. \A q \in Previews : \A v \in store[q].revisions :
           Counted(v, Cardinality(store[q].runs))
    OBVIOUS
  <2>6. ASSUME NEW v \in store[p].revisions PROVE Counted(v, Cardinality(store'[p].runs))
    <3>1. v.lockRuns \in Nat
      BY <2>1 DEF Types, Revised
    <3> QED BY <2>2, <2>5, <2>1, <3>1
  <2> HIDE DEF Countable, Counted
  <2>7. \A q \in Previews : \A v \in store'[q].revisions :
           Counted(v, Cardinality(store'[q].runs))
    BY ONLY <2>1, <2>5, <2>6
  <2> QED BY <2>1, <2>3, <2>4, <2>7
<1>13. CASE RevisionSaved
  <2> DEFINE p == call.p
  <2>1. /\ p \in Previews /\ call.pc \in Saving /\ auth' = auth
        /\ call'.pc \in {"idle", "publish"}
        /\ \A q \in Previews :
              /\ store'[q].runs = store[q].runs
              /\ store'[q].revisions \subseteq
                    store[q].revisions \cup (IF q = p THEN {call.revision} ELSE {})
    BY <1>13 DEF RevisionSaved, Goes
  <2>2. \A q \in Previews : Countable(q) = Cardinality(store[q].runs)
    BY <2>1, RunsFinite
  <2>3. \A q \in Previews : Countable(q)' = Cardinality(store[q].runs)
    BY <2>1, RunsFinite
  <2>4. Counted(call.revision, Cardinality(store[p].runs))
    BY <2>1, <2>2
  <2> HIDE DEF Countable, Counted
  <2>5. \A q \in Previews : \A v \in store'[q].revisions :
           Counted(v, Cardinality(store'[q].runs))
    BY <2>1, <2>4
  <2>6. \A q \in Previews : Counted(auth'[q], Countable(q)')
    BY <2>1, <2>2, <2>3
  <2> QED BY <2>1, <2>5, <2>6
<1>14. CASE Published
  BY <1>14 DEF Published, SameOwn, SameBooks, Alike, Booked, SameWork, SameLock
<1>15. CASE UNCHANGED vars
  BY <1>15 DEF vars
<1> HIDE DEF CallInv, OwnInv, LockInv
<1> QED BY <1>1, <1>2, <1>3, <1>4, <1>5, <1>6, <1>7, <1>8, <1>9, <1>10, <1>11, <1>12, <1>13,
   <1>14, <1>15 DEF Elementary

----------------------------------------------------------------------------
(* The theorems.                                                           *)

\* Initially nothing is booked.
LEMMA InitInvariant ==
  ASSUME Init
  PROVE  AccountInv
<1>1. /\ NoSession \in Session /\ NoSession.state = "none" /\ NoSession.lease = NoLease
      /\ NoSession.seconds = 0 /\ NoSession.amount = 0 /\ NoSession.runs = 0
      /\ NoSession.lockRuns = 0 /\ NoSession.lockAmount = 0
  <2> DEFINE a == NewSession(0)
  <2>1. /\ a \in Session /\ a.lease = NoLease /\ a.seconds = 0 /\ a.amount = 0 /\ a.runs = 0
        /\ a.lockRuns = 0 /\ a.lockAmount = 0
    BY NewSessionFields
  <2>2. NoSession = [a EXCEPT !.state = "none"]
    BY DEF NoSession
  <2> HIDE DEF a
  <2> QED BY <2>1, <2>2 DEF Session
<1>2. NothingOwned \in Owned /\ NothingOwned.entry = "none" /\ NothingOwned.session = "none"
  <2>1. [r \in Rounds |-> "none"] \in [Rounds -> Some]
    BY DEF Some
  <2> QED BY <2>1 DEF NothingOwned, Owned, Some
<1>3. /\ \A p \in Previews : auth[p] = NoSession /\ own[p] = NothingOwned
      /\ \A p \in Previews : store[p].revisions = {} /\ store[p].runs = {}
      /\ \A p \in Previews : spent[p].build = 0 /\ spent[p].work = 0
      /\ call = Idle
  BY DEF Init
<1>4. call.pc = "idle" /\ call.began = 0 /\ now = 0
  BY <1>3, IdleFields DEF Init
<1>5. Types
  <2>1. 0 \in 0 .. MaxTime
    BY Limits
  <2> QED BY <1>1, <1>2, <2>1, IdleTyped DEF Init, Types
<1>6. CallInv
  BY <1>4 DEF CallInv, Uncharged
<1>7. OwnInv
  BY <1>1, <1>2, <1>3 DEF OwnInv
<1>8. LeaseInv
  BY <1>1, <1>3, <1>4 DEF LeaseInv, Building
<1>9. ChargeInv
  BY <1>1, <1>3, <1>4 DEF ChargeInv, Building, Working, Uncharged
<1>10. RunInv
  BY <1>3, <1>4 DEF RunInv, Working, Uncharged
<1>11. LockInv
  <2>1. \A p \in Previews : Counted(auth[p], Countable(p))
    BY <1>1, <1>3 DEF Counted
  <2> QED BY <1>3, <1>4, <2>1 DEF LockInv, Working, Uncharged, Saving
<1> QED BY <1>5, <1>6, <1>7, <1>8, <1>9, <1>10, <1>11 DEF AccountInv

\* Every step keeps the invariant.
LEMMA StepInvariant ==
  ASSUME AccountInv, [Next]_vars
  PROVE  AccountInv'
<1>1. Types' /\ (Elementary \/ UNCHANGED vars)
  BY NextElementary
<1>2. CallInv' /\ OwnInv' /\ LeaseInv'
  BY <1>1, NextCall, NextOwn, NextLease DEF AccountInv
<1>3. ChargeInv' /\ RunInv' /\ LockInv'
  BY <1>1, NextCharge, NextRun, NextLock DEF AccountInv
<1> QED BY <1>1, <1>2, <1>3 DEF AccountInv

\* The invariant holds in every reachable state, whatever the client calls, the timer
\* interrupts, and the builds, workloads and saves run into.
THEOREM AccountInvariant == Spec => []AccountInv
<1>1. Init => AccountInv
  BY InitInvariant
<1>2. AccountInv /\ [Next]_vars => AccountInv'
  BY StepInvariant
<1> QED BY <1>1, <1>2, PTL DEF Spec

\* The budgets of the session hold: no begin_build, begin_workload or
\* charge_runtime_lock_use carries a counter over its limit, and no settlement brings
\* one below zero.
THEOREM TypeCorrect == Spec => []TypeOK
<1>1. AccountInv => TypeOK
  <2> SUFFICES ASSUME AccountInv PROVE TypeOK
    OBVIOUS
  <2>1. now \in 0 .. MaxTime
    BY DEF AccountInv, Types
  <2>2. ASSUME NEW p \in Previews
        PROVE  /\ auth[p] \in Session /\ own[p].builds \subseteq Rounds
               /\ images[p] \subseteq Rounds
               /\ auth[p].lockRuns <= auth[p].runs /\ auth[p].lockAmount <= auth[p].amount
    BY DEF AccountInv, Types, Owned, ChargeInv
  <2> QED BY <2>1, <2>2 DEF TypeOK, Session, EndStates
<1> QED BY <1>1, AccountInvariant, PTL

\* The account of a session is true: what its builds and workloads took is charged,
\* whichever path settled them; the Runs an active revision counts are in the store;
\* and between tool calls no session has a lease.
THEOREM AccountsAreTrue == Spec => []RunsAccounted
<1>1. AccountInv => RunsAccounted
  <2> SUFFICES ASSUME AccountInv PROVE RunsAccounted
    OBVIOUS
  <2>1. ChargedForUse
    BY DEF AccountInv, ChargeInv, ChargedForUse
  <2>2. CountedRunsPublished
    BY DEF AccountInv, LockInv, Counted, Usables, CountedRunsPublished
  <2>3. NoLeaseLeftBehind
    BY DEF AccountInv, LeaseInv, Building, Working, NoLeaseLeftBehind
  <2> QED BY <2>1, <2>2, <2>3 DEF RunsAccounted
<1> QED BY <1>1, AccountInvariant, PTL
=============================================================================
