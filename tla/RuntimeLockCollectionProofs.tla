------------------- MODULE RuntimeLockCollectionProofs --------------------
(***************************************************************************)
(* Proofs about what becomes of a Runtime Lock run.                        *)
(*                                                                         *)
(* RuntimeLockCollection: a settlement of a run is durable and loads ever  *)
(* after, for every number of operations and runs, every expiry and lease. *)
(* The inductive invariant says which revisions, markers and Artifacts are *)
(* durable at each step of a collect call (FilesInv, ReturnedInv), and that*)
(* each revision is one the store accepts after its predecessor (ChainInv).*)
(* What the store accepted it accepts ever after because no step changes a *)
(* settled operation (Keeps).  TimeInv, which only a Run's start needs,    *)
(* holds while the wall clock is not set back.                             *)
(*                                                                         *)
(* PrivateEvidence: what a launcher executes and which private files exist,*)
(* for every number of server processes, runs and restarts.                *)
(*                                                                         *)
(* PthreadProbe: what a child of a probed process may write.               *)
(***************************************************************************)
EXTENDS MCRuntimeLocks, Sequences, FiniteSetTheorems, TLAPS

----------------------------------------------------------------------------
(* The inductive invariant.                                                *)

\* The steps of a collect call while its run is unfinished, those that save what
\* comes of it, and those that have a created Run.
InFlight == {"reserved", "launch", "running", "evidence", "analysis", "verification", "run",
             "finish"}
Settling == {"settled", "marker"}
HasRun == {"evidence", "analysis", "verification", "run", "finish"}

\* No session has more revisions than it has room for: two for every run and one
\* that ends it.
RevInv ==
    /\ session[rev].runs <= MaxRuns /\ rev <= 2 * session[rev].runs + 1
    /\ (session[rev].st = "active" /\ pc \notin InFlight \cup {"down"}) =>
          rev <= 2 * session[rev].runs
    /\ pc \in InFlight => rev + 1 <= 2 * session[rev].runs

\* Before its authorization nothing is known of the session.
FreshInv ==
    session[0].st = "none" =>
        rev = 0 /\ pc \in {"idle", "down"} /\ held = "no" /\ used = {}

\* A run in flight holds the lease of the current revision, is charged, and is
\* not yet settled; a save has the revision its step is about.
CallInv ==
    /\ pc \in InFlight =>
          /\ session[rev].st = "active" /\ rev > 0
          /\ lease.rev = rev /\ lease.wall <= expires.wall
          /\ op \in used /\ marker[op].outcome = "none"
    /\ pc \in HasRun \cup {"running"} => run[op].base = rev
    /\ pc \in Settling =>
          /\ rev > 0 /\ op \in used
          /\ session[rev].settles = op
    /\ pc = "reserved" => session[rev].settles = "none"
    /\ pc = "authorized" => rev = 0
    /\ pc = "terminal" => session[rev].st # "active"

\* Only operations that were begun are settled, by the revision their marker names;
\* only completed ones are returned.
UsedInv ==
    /\ \A o \in Operations :
          marker[o].outcome # "none" =>
              /\ o \in used /\ marker[o].final \in 1..rev
              /\ session[marker[o].final].settles = o
    /\ \A o \in returned : marker[o].outcome = "completed"

\* What the store demands of revision k, its Artifacts apart: s are the revisions,
\* m the markers, u the Runs and e the session's expiry.
Content(s, m, u, e, k) ==
    /\ k = 0 => s[k].st = "active" /\ s[k].runs = 0
    /\ k > 0 =>
         /\ s[k - 1].st = "active"
         /\ s[k - 1].updated <= s[k].updated
         /\ s[k].settles = "none" =>
              \/ s[k].runs = s[k - 1].runs + 1 /\ s[k].st = "active"
              \/ s[k].runs = s[k - 1].runs
         /\ s[k].settles # "none" =>
              /\ m[s[k].settles].outcome # "none" /\ m[s[k].settles].final = k
              /\ s[k].runs = s[k - 1].runs
              /\ m[s[k].settles].outcome = "failed" => s[k].st \in {"failed", "exhausted"}
              /\ m[s[k].settles].outcome = "completed" =>
                    /\ s[k].st = "active" /\ u[s[k].settles].base = k - 1
                    /\ s[k].updated >= u[s[k].settles].created
                    /\ u[s[k].settles].created <= e

ChainInv ==
    session[0].st # "none" => \A k \in 0..rev : Content(session, marker, run, expires.wall, k)

\* ... and which Artifacts it demands.
Present(s, m, files, k) ==
    /\ SessionFile(k) \in files
    /\ (k > 0 /\ s[k].settles # "none") =>
          /\ File("marker", s[k].settles, 0) \in files
          /\ m[s[k].settles].outcome # "failed" => File("run", s[k].settles, 0) \in files
Durable(s, m, files, r) == \A k \in 0..r : Present(s, m, files, k)

\* The Artifacts a run has published before a step.
Published(step) ==
    CASE step = "analysis" -> {"evidence"}
      [] step = "verification" -> {"evidence", "analysis"}
      [] step = "run" -> Evidence
      [] step \in {"finish", "settled", "marker"} -> Evidence \cup {"run"}
      [] OTHER -> {}

\* What is durable at each step.
FilesInv ==
    /\ (pc = "idle" /\ Active) => Durable(session, marker, synced, rev)
    /\ pc \in InFlight \ {"reserved"} => Durable(session, marker, synced, rev)
    /\ pc = "reserved" => Durable(session, marker, synced, rev - 1)
    /\ pc \in HasRun => \A kind \in Published(pc) : File(kind, op, 0) \in synced
    /\ (pc \in Settling /\ marker[op].outcome = "completed") =>
          /\ Durable(session, marker, synced, rev - 1)
          /\ \A kind \in Published(pc) : File(kind, op, 0) \in synced
          /\ pc = "marker" => SessionFile(rev) \in synced

\* A returned Run and its chain are durable.
ReturnedInv ==
    \A o \in returned :
        /\ Durable(session, marker, synced, marker[o].final)
        /\ \A kind \in Evidence : File(kind, o, 0) \in synced

SettlementInv ==
    /\ TypeOK /\ RevInv /\ FreshInv /\ CallInv /\ UsedInv /\ ChainInv /\ FilesInv /\ ReturnedInv

\* While the wall clock is not set back no revision is dated after it, and a Run
\* starts no earlier than the revision that reserved it.
TimeInv ==
    /\ \A k \in 0..rev : session[k].updated <= wall
    /\ pc \in InFlight => session[rev].updated <= lease.start
    /\ pc \in HasRun => run[op].created <= wall
    /\ \A o \in Operations :
          marker[o].outcome = "completed" => session[run[o].base].updated <= run[o].started

----------------------------------------------------------------------------
(* The elementary steps: what the actions do, with a revision that is      *)
(* appended described by its content.                                      *)

\* A revision follows the current one; its date is one of `dates`.
Appended(st, runs, o, dates) ==
    /\ rev' = rev + 1 /\ rev' \in 0..MaxRev /\ session' \in [0..MaxRev -> Session]
    /\ \A k \in 0..rev : session'[k] = session[k]
    /\ session'[rev'].st = st /\ session'[rev'].runs = runs /\ session'[rev'].settles = o
    /\ session'[rev'].updated \in dates /\ session[rev].updated <= session'[rev'].updated

\* A failing save may have linked its name.
MayLink == linked' = linked \/ (pc \in Saving /\ linked' = linked \cup {Target})

KeepCall == UNCHANGED <<expires, used, run, marker, returned, op>>

ClockStep == wall' \in Nat /\ mono' \in Nat /\ KeepStore /\ KeepAuthority /\ KeepRuns
             /\ UNCHANGED <<pc, op>>

\* The session ends: it is revoked, found expired, or its run is refused.
Terminated(st) ==
    /\ pc \in {"idle"} \cup InFlight /\ session[rev].st = "active"
    /\ Appended(st, session[rev].runs, "none", {wall, session[rev].updated})
    /\ lease' = NoLease /\ pc' \in {"idle", "terminal"} /\ held' \in {held, "no"}
    /\ MayLink /\ UNCHANGED synced
    /\ KeepClocks /\ KeepCall

\* An ended session is forgotten.
Forgotten ==
    /\ pc = "idle" /\ held # "no" /\ session[rev].st # "active" /\ held' = "no"
    /\ pc' \in {"idle", "terminal"}
    /\ KeepClocks /\ KeepStore /\ KeepCall /\ UNCHANGED <<rev, session, lease>>

Begun(o) ==
    /\ pc = "idle" /\ Active /\ o \notin used /\ session[rev].runs < MaxRuns
    /\ Appended("active", session[rev].runs + 1, "none", {wall, session[rev].updated})
    /\ lease' \in Lease /\ lease'.rev = rev + 1 /\ lease'.start = wall
    /\ lease'.wall <= expires.wall
    /\ used' = used \cup {o} /\ pc' = "reserved" /\ op' = o
    /\ KeepClocks /\ KeepStore /\ UNCHANGED <<held, expires, run, marker, returned>>

\* Two revisions follow each other: one that charges a run, and an expired one.
BegunTooLate(o) ==
    /\ pc = "idle" /\ Active /\ o \notin used /\ session[rev].runs < MaxRuns
    /\ rev' = rev + 2 /\ rev' \in 0..MaxRev /\ session' \in [0..MaxRev -> Session]
    /\ \A k \in 0..rev : session'[k] = session[k]
    /\ \A k \in {rev + 1, rev + 2} :
          /\ session'[k].runs = session[rev].runs + 1 /\ session'[k].settles = "none"
          /\ session'[k].updated \in {wall, session[rev].updated}
    /\ session'[rev + 1].st = "active" /\ session'[rev + 2].st = "expired"
    /\ session[rev].updated <= session'[rev + 1].updated
    /\ session'[rev + 1].updated = session'[rev + 2].updated
    /\ used' = used \cup {o} /\ held' = "no" /\ pc' = "terminal"
    /\ KeepClocks /\ KeepStore /\ UNCHANGED <<lease, expires, run, marker, op, returned>>

\* The run of the call changes: it starts, or its workload ends.
RunChanges ==
    /\ run' \in [Operations -> Run] /\ \A o \in Operations \ {op} : run'[o] = run[o]
    /\ KeepClocks /\ KeepStore /\ KeepAuthority /\ UNCHANGED <<expires, used, marker, op, returned>>
Launched ==
    /\ pc = "launch" /\ pc' = "running" /\ RunChanges /\ run'[op].base = lease.rev
WorkloadOver ==
    /\ pc = "running" /\ pc' = "evidence" /\ RunChanges
    /\ run'[op].base = run[op].base /\ run'[op].created = wall

\* The marker of the call's operation names the revision that settles it.
Marked(outcome) ==
    /\ marker' \in [Operations -> Marker] /\ \A o \in Operations \ {op} : marker'[o] = marker[o]
    /\ marker'[op].outcome = outcome /\ marker'[op].final = rev + 1
    /\ lease' = NoLease /\ pc' = "settled" /\ KeepClocks
    /\ UNCHANGED <<held, expires, used, run, op, returned, synced>>
Completed ==
    /\ pc = "finish" /\ Marked("completed") /\ UNCHANGED linked
    /\ Appended("active", session[rev].runs, op, {wall, session[rev].updated, run[op].created})
    /\ run[op].created <= session'[rev'].updated
    /\ lease.start <= run[op].started /\ run[op].created <= lease.wall
RunFailed ==
    /\ pc \in InFlight /\ Marked("failed") /\ MayLink
    /\ Appended("failed", session[rev].runs, op, {wall, session[rev].updated})

\* Saves: of a revision, of a run's Artifact, of the marker.
SaveStep(file, next) ==
    /\ linked' = linked \cup {file} /\ synced' = linked' /\ pc' = next
    /\ KeepClocks /\ KeepAuthority /\ UNCHANGED <<expires, used, run, marker, op>>
RevisionSaved(step) ==
    /\ pc = step /\ UNCHANGED returned
    /\ SaveStep(SessionFile(rev), IF step = "reserved" THEN "launch"
                                  ELSE IF step = "settled" THEN "marker" ELSE "idle")
ArtifactSaved(step) ==
    /\ pc = step /\ UNCHANGED returned
    /\ SaveStep(File(step, op, 0), CASE step = "evidence" -> "analysis"
                                     [] step = "analysis" -> "verification"
                                     [] step = "verification" -> "run"
                                     [] step = "run" -> "finish")
MarkerSaved ==
    /\ pc = "marker" /\ SaveStep(File("marker", op, 0), "idle")
    /\ returned' = IF marker[op].outcome = "completed" THEN returned \cup {op} ELSE returned

\* A save that fails outside of a run in flight, and the end of the process.
Abandoned ==
    /\ pc \in {"authorized", "terminal"} \cup Settling /\ pc' = "idle"
    /\ held' \in {"unknown", "no"}
    /\ MayLink /\ UNCHANGED synced
    /\ KeepClocks /\ KeepCall /\ UNCHANGED <<rev, session, lease>>
Dies ==
    /\ pc' = "down" /\ held' = "no" /\ synced \subseteq synced' /\ synced' \subseteq linked'
    /\ linked' \subseteq linked \/ MayLink
    /\ KeepClocks /\ KeepCall /\ UNCHANGED <<rev, session, lease>>

Elementary ==
    \/ ClockStep \/ Authorize \/ Forgotten \/ Launched \/ WorkloadOver \/ Completed \/ RunFailed
    \/ \E st \in Ended : Terminated(st)
    \/ \E o \in Operations : Begun(o) \/ BegunTooLate(o)
    \/ \E step \in {"authorized", "terminal", "reserved", "settled"} : RevisionSaved(step)
    \/ \E step \in {"evidence", "analysis", "verification", "run"} : ArtifactSaved(step)
    \/ MarkerSaved \/ Abandoned \/ Dies

----------------------------------------------------------------------------
(* Lemmas about the operators.                                             *)

\* The parameters are positive.
LEMMA ParameterTypes ==
  ASSUME Parameters
  PROVE  /\ MaxRuns \in Nat \ {0} /\ HardExpiry \in Nat \ {0} /\ LeaseTime \in Nat \ {0}
         /\ Ticks \in Nat \ {0} /\ WallSteps \subseteq Nat /\ "none" \notin Operations
         /\ MaxRev \in Nat /\ MaxRev = 2 * MaxRuns + 2
<1> QED BY DEF Parameters, MaxRev

\* A revision made by _update_session.
LEMMA RevisionContent ==
  ASSUME TypeOK, NEW st \in {"none", "active"} \cup Ended, NEW n \in Nat,
         NEW o \in Operations \cup {"none"}
  PROVE  /\ Revision(rev, st, n, o) \in Session
         /\ Revision(rev, st, n, o).st = st /\ Revision(rev, st, n, o).runs = n
         /\ Revision(rev, st, n, o).settles = o
         /\ Revision(rev, st, n, o).updated \in {wall, session[rev].updated}
         /\ session[rev].updated <= Revision(rev, st, n, o).updated
<1>1. session[rev].updated \in Nat /\ wall \in Nat
  BY DEF TypeOK, Session
<1> QED BY <1>1 DEF Revision, Session

\* Writing the next revision appends it.
LEMMA WriteAppends ==
  ASSUME TypeOK, rev + 1 \in 0..MaxRev, NEW s \in Session, NEW dates,
         session' = [session EXCEPT ![rev + 1] = s], rev' = rev + 1,
         s.updated \in dates, session[rev].updated <= s.updated
  PROVE  Appended(s.st, s.runs, s.settles, dates)
<1>1. session' \in [0..MaxRev -> Session]
  BY DEF TypeOK
<1>2. session'[rev + 1] = s
  BY DEF TypeOK
<1>3. \A k \in 0..rev : session'[k] = session[k]
  BY DEF TypeOK
<1> QED BY <1>1, <1>2, <1>3 DEF Appended

\* _end appends a terminal revision.
LEMMA EndAppends ==
  ASSUME Parameters, TypeOK, rev + 1 \in 0..MaxRev, NEW st \in Ended, End(st)
  PROVE  /\ Appended(st, session[rev].runs, "none", {wall, session[rev].updated})
         /\ lease' = NoLease
<1>1. session[rev].runs \in Nat
  BY DEF TypeOK, Session
<1> DEFINE s == Revision(rev, st, session[rev].runs, "none")
<1>2. /\ s \in Session /\ s.st = st /\ s.runs = session[rev].runs /\ s.settles = "none"
      /\ s.updated \in {wall, session[rev].updated} /\ session[rev].updated <= s.updated
  BY <1>1, RevisionContent
<1>3. session' = [session EXCEPT ![rev + 1] = s] /\ rev' = rev + 1
  BY DEF End
<1> HIDE DEF s
<1>4. Appended(s.st, s.runs, s.settles, {wall, session[rev].updated})
  BY <1>2, <1>3, WriteAppends
<1> QED BY <1>2, <1>4 DEF End

\* A settlement appends the revision that settles the operation, and marks it.
LEMMA SettleAppends ==
  ASSUME Parameters, TypeOK, rev + 1 \in 0..MaxRev, op \in Operations,
         NEW outcome \in {"completed", "failed"}, NEW st \in {"active", "failed"},
         Settle(outcome, st)
  PROVE  /\ marker' \in [Operations -> Marker]
         /\ \A o \in Operations \ {op} : marker'[o] = marker[o]
         /\ marker'[op].outcome = outcome /\ marker'[op].final = rev + 1
         /\ lease' = NoLease /\ pc' = "settled"
         /\ outcome = "failed" =>
               Appended(st, session[rev].runs, op, {wall, session[rev].updated})
         /\ outcome = "completed" =>
               /\ Appended(st, session[rev].runs, op,
                           {wall, session[rev].updated, run[op].created})
               /\ run[op].created <= session'[rev'].updated
<1>1. session[rev].runs \in Nat /\ run[op].created \in Nat
  BY DEF TypeOK, Session, Run
<1> DEFINE old == Revision(rev, st, session[rev].runs, op)
           date == IF outcome = "failed" \/ old.updated >= run[op].created THEN old.updated
                   ELSE run[op].created
           new == [old EXCEPT !.updated = date]
<1>2. /\ old \in Session /\ old.st = st /\ old.runs = session[rev].runs /\ old.settles = op
      /\ old.updated \in {wall, session[rev].updated} /\ session[rev].updated <= old.updated
  BY <1>1, RevisionContent DEF Ended
<1>3. session' = [session EXCEPT ![rev + 1] = new] /\ rev' = rev + 1
  BY DEF Settle
<1> HIDE DEF old
<1>4. old.updated \in Nat /\ session[rev].updated \in Nat
  BY <1>2 DEF Session, TypeOK
<1>5. /\ date \in Nat /\ session[rev].updated <= date
      /\ outcome = "failed" => date \in {wall, session[rev].updated}
      /\ outcome = "completed" =>
            date \in {wall, session[rev].updated, run[op].created} /\ run[op].created <= date
  BY <1>1, <1>2, <1>4
<1> HIDE DEF date
<1>6. /\ new \in Session /\ new.st = st /\ new.runs = session[rev].runs /\ new.settles = op
      /\ new.updated = date
  BY <1>2, <1>5 DEF Session
<1> HIDE DEF new
<1>7. session'[rev'] = new
  BY <1>3 DEF TypeOK
<1>8. \A dates : date \in dates => Appended(st, session[rev].runs, op, dates)
  BY <1>3, <1>5, <1>6, WriteAppends
<1>9. /\ marker' \in [Operations -> Marker]
      /\ \A o \in Operations \ {op} : marker'[o] = marker[o]
      /\ marker'[op].outcome = outcome /\ marker'[op].final = rev + 1
  <2>1. [outcome |-> outcome, final |-> rev + 1] \in Marker
    BY DEF Marker, TypeOK
  <2> QED BY <2>1 DEF Settle, TypeOK
<1> QED BY <1>5, <1>6, <1>7, <1>8, <1>9 DEF Settle

\* The whole seconds of a lease end no later than the session.
LEMMA LeaseWithinSession ==
  ASSUME Parameters, TypeOK, Seconds > 0
  PROVE  /\ Seconds \in Nat /\ Seconds * Ticks \in Nat
         /\ wall + Seconds * Ticks <= expires.wall
<1> DEFINE left == (expires.wall - wall) \div Ticks
<1>1. wall \in Nat /\ expires.wall \in Nat
  BY DEF TypeOK, Instants
<1>2. left \in Int /\ left * Ticks <= expires.wall - wall
  BY <1>1, ParameterTypes
<1>3. Seconds = IF LeaseTime < left THEN LeaseTime ELSE left
  BY DEF Seconds
<1> HIDE DEF left
<1>4. Seconds \in Nat /\ Seconds <= left
  BY <1>2, <1>3, ParameterTypes
<1>5. \A a \in Nat, b \in Int, t \in Nat : a <= b => a * t <= b * t
  OBVIOUS
<1>6. Seconds * Ticks <= left * Ticks
  BY <1>2, <1>4, <1>5, ParameterTypes
<1>7. Seconds * Ticks \in Nat
  BY <1>4, ParameterTypes
<1>8. left * Ticks \in Int
  BY <1>2, ParameterTypes
<1> QED BY <1>1, <1>2, <1>4, <1>6, <1>7, <1>8

\* There is room for the next revision.
LEMMA RoomForRevision ==
  ASSUME Parameters, TypeOK, RevInv,
         pc \in InFlight \/ (pc = "idle" /\ session[rev].st = "active")
  PROVE  /\ rev + 1 \in 0..MaxRev
         /\ session[rev].runs < MaxRuns => rev + 2 \in 0..MaxRev
<1>1. session[rev].runs \in Nat /\ rev \in Nat
  BY DEF TypeOK, Session
<1> QED BY <1>1, ParameterTypes DEF RevInv, InFlight

\* A call in flight has an operation.
LEMMA FlightOperation ==
  ASSUME TypeOK, CallInv, pc \in InFlight \cup Settling
  PROVE  op \in Operations
<1> QED BY DEF TypeOK, CallInv, InFlight, Settling

\* The handler of a failed call settles the run as failed or ends the session.
LEMMA FailRunEffect ==
  ASSUME Parameters, TypeOK, RevInv, CallInv, pc \in InFlight, FailRun, KeepClocks,
         UNCHANGED <<synced, held, op>>, MayLink
  PROVE  RunFailed \/ Terminated("expired")
<1>1. op \in Operations /\ rev + 1 \in 0..MaxRev
  BY FlightOperation, RoomForRevision
<1>2. CASE Settle("failed", "failed") /\ UNCHANGED <<expires, used, run, returned>>
  BY <1>1, <1>2, SettleAppends DEF RunFailed, Marked
<1>3. CASE Lapsed /\ End("expired") /\ pc' = "idle" /\ KeepRuns
  <2>1. /\ Appended("expired", session[rev].runs, "none", {wall, session[rev].updated})
        /\ lease' = NoLease
    BY <1>1, <1>3, EndAppends DEF Ended
  <2> QED BY <1>3, <2>1 DEF Terminated, Lapsed, KeepRuns, KeepCall
<1> QED BY <1>2, <1>3 DEF FailRun

\* begin_run appends one revision or two.
LEMMA BeginAppends ==
  ASSUME Parameters, TypeOK, RevInv, NEW o \in Operations
  PROVE  /\ BeginRun(o) => Begun(o)
         /\ BeginTooLate(o) => BegunTooLate(o)
<1>1. session[rev].runs \in Nat /\ session[rev].runs + 1 \in Nat /\ rev \in Nat
  BY DEF TypeOK, Session
<1> DEFINE s == Revision(rev, "active", session[rev].runs + 1, "none")
<1>2. /\ s \in Session /\ s.st = "active" /\ s.runs = session[rev].runs + 1 /\ s.settles = "none"
      /\ s.updated \in {wall, session[rev].updated} /\ session[rev].updated <= s.updated
  BY <1>1, RevisionContent
<1>3. ASSUME Collectable(o)
      PROVE  rev + 1 \in 0..MaxRev /\ rev + 2 \in 0..MaxRev
  BY <1>3, RoomForRevision DEF Collectable, Active
<1>4. ASSUME BeginRun(o) PROVE Begun(o)
  <2>1. session' = [session EXCEPT ![rev + 1] = s] /\ rev' = rev + 1
    BY <1>4 DEF BeginRun
  <2> HIDE DEF s
  <2>2. Appended(s.st, s.runs, s.settles, {wall, session[rev].updated})
    BY <1>2, <1>3, <1>4, <2>1, WriteAppends DEF BeginRun
  <2>3. Appended("active", session[rev].runs + 1, "none", {wall, session[rev].updated})
    BY <1>2, <2>2
  <2>4. /\ lease' \in Lease /\ lease'.rev = rev + 1 /\ lease'.start = wall
        /\ lease'.wall <= expires.wall
    <3>1. /\ wall \in Nat /\ mono \in Nat /\ Seconds * Ticks \in Nat
          /\ wall + Seconds * Ticks <= expires.wall
      BY <1>4, LeaseWithinSession DEF BeginRun, TypeOK
    <3>2. lease' = [st |-> "leased", rev |-> rev + 1, start |-> wall,
                    wall |-> wall + Seconds * Ticks, mono |-> mono + Seconds * Ticks]
      BY <1>4 DEF BeginRun
    <3> QED BY <1>1, <3>1, <3>2 DEF Lease
  <2> QED BY <1>4, <2>3, <2>4 DEF BeginRun, Begun, Collectable
<1>5. ASSUME BeginTooLate(o) PROVE BegunTooLate(o)
  <2> DEFINE t == [s EXCEPT !.st = "expired"]
  <2>1. /\ session' = [[session EXCEPT ![rev + 1] = s] EXCEPT ![rev + 2] = t]
        /\ rev' = rev + 2
    BY <1>5 DEF BeginTooLate
  <2> HIDE DEF s
  <2>2. /\ t \in Session /\ t.st = "expired" /\ t.runs = s.runs /\ t.settles = s.settles
        /\ t.updated = s.updated
    BY <1>2 DEF Session, Ended
  <2> HIDE DEF t
  <2>3. rev + 1 \in 0..MaxRev /\ rev + 2 \in 0..MaxRev
    BY <1>3, <1>5 DEF BeginTooLate
  <2>4. /\ session' \in [0..MaxRev -> Session]
        /\ session'[rev + 1] = s /\ session'[rev + 2] = t
        /\ \A k \in 0..rev : session'[k] = session[k]
    <3> DEFINE mid == [session EXCEPT ![rev + 1] = s]
    <3>1. /\ mid \in [0..MaxRev -> Session] /\ mid[rev + 1] = s
          /\ \A k \in 0..rev : mid[k] = session[k]
      BY <1>1, <1>2, <2>3 DEF TypeOK
    <3>2. session' = [mid EXCEPT ![rev + 2] = t]
      BY <2>1
    <3> HIDE DEF mid
    <3> QED BY <1>1, <2>2, <2>3, <3>1, <3>2
  <2> QED BY <1>2, <1>5, <2>1, <2>2, <2>3, <2>4 DEF BeginTooLate, BegunTooLate, Collectable
<1> QED BY <1>4, <1>5

\* A save publishes a revision, an Artifact of the run, or its marker.
LEMMA SaveEffect ==
  ASSUME Save
  PROVE  \/ \E step \in {"authorized", "terminal", "reserved", "settled"} : RevisionSaved(step)
         \/ \E step \in {"evidence", "analysis", "verification", "run"} : ArtifactSaved(step)
         \/ MarkerSaved
<1>1. CASE pc \in {"authorized", "terminal", "reserved", "settled"}
  <2>1. RevisionSaved(pc)
    BY <1>1 DEF Save, RevisionSaved, SaveStep, Target, NextStep
  <2> QED BY <1>1, <2>1
<1>2. CASE pc \in {"evidence", "analysis", "verification", "run"}
  <2>1. ArtifactSaved(pc)
    BY <1>2 DEF Save, ArtifactSaved, SaveStep, Target, NextStep
  <2> QED BY <1>2, <2>1
<1>3. CASE pc = "marker"
  BY <1>3 DEF Save, MarkerSaved, SaveStep, Target, NextStep
<1> QED BY <1>1, <1>2, <1>3 DEF Save, Saving

\* Every step is an elementary one.
LEMMA NextElementary ==
  ASSUME Parameters, TypeOK, RevInv, FreshInv, CallInv, Next
  PROVE  Elementary
<1> USE Parameters, TypeOK, RevInv, CallInv
<1>1. ASSUME NEW st \in Ended, Terminated(st) PROVE Elementary
  BY <1>1 DEF Elementary
<1>2. CASE Tick \/ \E t \in WallSteps : SetWall(t)
  <2>1. ClockStep
    <3>1. /\ (wall' = wall + 1 /\ mono' = mono + 1) \/ (wall' \in WallSteps /\ mono' = mono)
          /\ KeepStore /\ KeepAuthority /\ KeepRuns /\ UNCHANGED <<pc, op>>
      BY <1>2 DEF Tick, SetWall
    <3>2. wall' \in Nat /\ mono' \in Nat
      BY <3>1, ParameterTypes DEF TypeOK
    <3> QED BY <3>1, <3>2 DEF ClockStep
  <2> QED BY <2>1 DEF Elementary
<1>3. CASE Authorize
  BY <1>3 DEF Elementary
<1>4. CASE Revoke
  <2>1. CASE session[rev].st = "active"
    <3>1. PICK st \in {"expired", "revoked"} : End(st)
      BY <1>4, <2>1 DEF Revoke
    <3>2. /\ Appended(st, session[rev].runs, "none", {wall, session[rev].updated})
          /\ lease' = NoLease
      BY <1>4, <2>1, <3>1, RoomForRevision, EndAppends DEF Revoke, Ended
    <3>3. Terminated(st)
      BY <1>4, <2>1, <3>2 DEF Revoke, Terminated, MayLink, KeepRuns, KeepStore, KeepCall
    <3> QED BY <1>1, <3>3 DEF Ended
  <2>2. CASE session[rev].st # "active"
    <3>1. Forgotten
      BY <1>4, <2>2 DEF Revoke, Forgotten, KeepRuns, KeepCall
    <3> QED BY <3>1 DEF Elementary
  <2> QED BY <2>1, <2>2
<1>5. CASE PruneExpired
  <2>1. CASE Lapsed
    <3>1. /\ Appended("expired", session[rev].runs, "none", {wall, session[rev].updated})
          /\ lease' = NoLease
      BY <1>5, <2>1, RoomForRevision, EndAppends DEF PruneExpired, Lapsed, Ended
    <3>2. Terminated("expired")
      BY <1>5, <2>1, <3>1 DEF PruneExpired, Lapsed, Terminated, MayLink, KeepRuns,
         KeepStore, KeepCall
    <3> QED BY <1>1, <3>2 DEF Ended
  <2>2. CASE ~ Lapsed
    <3>1. Forgotten
      BY <1>5, <2>2 DEF PruneExpired, Forgotten, KeepRuns, KeepCall, Ended
    <3> QED BY <3>1 DEF Elementary
  <2> QED BY <2>1, <2>2
<1>6. CASE \E o \in Operations : BeginRun(o) \/ BeginTooLate(o)
  BY <1>6, BeginAppends DEF Elementary
<1>7. CASE Launch
  <2>1. op \in Operations
    BY <1>7, FlightOperation DEF Launch, InFlight
  <2>2. [base |-> lease.rev, started |-> wall, created |-> 0] \in Run
    BY DEF TypeOK, Lease, Run
  <2>3. Launched
    BY <1>7, <2>1, <2>2 DEF Launch, Launched, RunChanges, TypeOK
  <2> QED BY <2>3 DEF Elementary
<1>8. CASE WorkloadEnds
  <2>1. op \in Operations
    BY <1>8, FlightOperation DEF WorkloadEnds, InFlight
  <2> DEFINE u == [run[op] EXCEPT !.created = wall]
  <2>2. run[op] \in Run /\ wall \in Nat
    BY <2>1 DEF TypeOK
  <2>3. u \in Run /\ u.base = run[op].base /\ u.created = wall
    BY <2>2 DEF Run
  <2>4. run' = [run EXCEPT ![op] = u]
    BY <1>8 DEF WorkloadEnds
  <2> HIDE DEF u
  <2>5. WorkloadOver
    BY <1>8, <2>1, <2>3, <2>4 DEF WorkloadEnds, WorkloadOver, RunChanges, TypeOK
  <2> QED BY <2>5 DEF Elementary
<1>9. CASE WorkloadFails
  <2>1. RunFailed \/ Terminated("expired")
    BY <1>9, FailRunEffect DEF WorkloadFails, MayLink, InFlight, KeepStore
  <2> QED BY <1>1, <2>1 DEF Elementary, Ended
<1>10. CASE FinishRun
  <2>1. op \in Operations /\ rev + 1 \in 0..MaxRev
    BY <1>10, FlightOperation, RoomForRevision DEF FinishRun, InFlight
  <2>2. Completed
    BY <1>10, <2>1, SettleAppends DEF FinishRun, RunMatchesLease, Completed, Marked, KeepStore
  <2> QED BY <2>2 DEF Elementary
<1>11. CASE FinishRefused
  <2>1. PICK st \in {"expired", "failed"} : End(st)
    BY <1>11 DEF FinishRefused
  <2>2. /\ Appended(st, session[rev].runs, "none", {wall, session[rev].updated})
        /\ lease' = NoLease
    BY <1>11, <2>1, RoomForRevision, EndAppends DEF FinishRefused, InFlight, Ended
  <2>3. Terminated(st)
    BY <1>11, <2>2 DEF FinishRefused, Terminated, MayLink, CallInv, InFlight, KeepRuns, KeepStore,
       KeepCall
  <2> QED BY <1>1, <2>3 DEF Ended
<1>12. CASE Save
  BY <1>12, SaveEffect DEF Elementary
<1>13. CASE SaveRaises
  <2>1. CASE pc \in {"reserved", "evidence", "analysis", "verification", "run"}
    <3>1. FailRun /\ UNCHANGED held
      BY <1>13, <2>1 DEF SaveRaises, SaveFailed
    <3>2. RunFailed \/ Terminated("expired")
      BY <1>13, <2>1, <3>1, FailRunEffect DEF SaveRaises, MayLink, InFlight
    <3> QED BY <1>1, <3>2 DEF Elementary, Ended
  <2>2. CASE pc \in {"authorized", "terminal", "settled", "marker"}
    <3>1. /\ held' \in {"unknown", "no"} /\ pc' = "idle"
          /\ UNCHANGED <<rev, session, lease>> /\ KeepRuns
      BY <1>13, <2>2 DEF SaveRaises, SaveFailed
    <3>2. Abandoned
      BY <1>13, <2>2, <3>1 DEF SaveRaises, Abandoned, MayLink, Settling, KeepRuns, KeepCall
    <3> QED BY <3>2 DEF Elementary
  <2> QED BY <1>13, <2>1, <2>2 DEF SaveRaises, Saving
<1>14. CASE Crash
  <2>1. Dies
    BY <1>14 DEF Crash, Dies, MayLink, KeepRuns, KeepCall, TypeOK
  <2> QED BY <2>1 DEF Elementary
<1>15. CASE PowerLoss
  <2>1. Dies
    BY <1>15 DEF PowerLoss, Dies, KeepRuns, KeepCall, TypeOK
  <2> QED BY <2>1 DEF Elementary
<1> QED
  BY <1>2, <1>3, <1>4, <1>5, <1>6, <1>7, <1>8, <1>9, <1>10, <1>11, <1>12, <1>13, <1>14, <1>15
  DEF Next

\* No lease is a lease.
LEMMA NoLeaseType == NoLease \in Lease
BY DEF NoLease, Lease

\* What a save publishes has a name in the store.
LEMMA TargetIsFile ==
  ASSUME TypeOK, CallInv
  PROVE  /\ pc \in Saving => Target \in Files
         /\ SessionFile(rev) \in Files
         /\ \A kind \in {"run", "marker"} \cup Evidence :
               pc \in InFlight \cup Settling => File(kind, op, 0) \in Files
<1>1. rev \in Nat
  BY DEF TypeOK
<1>2. SessionFile(rev) \in Files
  BY <1>1 DEF SessionFile, File, Files
<1>3. ASSUME pc \in InFlight \cup Settling
      PROVE  \A kind \in {"run", "marker"} \cup Evidence : File(kind, op, 0) \in Files
  BY <1>3, FlightOperation DEF File, Files, Evidence
<1>4. ASSUME pc \in Saving PROVE Target \in Files
  <2>1. CASE pc \in {"authorized", "terminal", "reserved", "settled"}
    BY <1>2, <2>1 DEF Target
  <2>2. CASE pc \in {"evidence", "analysis", "verification", "run", "marker"}
    <3>1. Target = File(pc, op, 0)
      BY <2>2 DEF Target
    <3> QED BY <1>3, <2>2, <3>1 DEF InFlight, Settling, Evidence
  <2> QED BY <1>4, <2>1, <2>2 DEF Saving
<1> QED BY <1>2, <1>3, <1>4

\* What was durable stays so when revisions, settlements and names are added.
LEMMA DurableKept ==
  ASSUME NEW s, NEW m, NEW f, NEW t, NEW n, NEW g, NEW r \in Nat,
         f \subseteq g, Durable(s, m, f, r),
         \A k \in 0..r : t[k] = s[k],
         \A k \in 0..r : (k > 0 /\ s[k].settles # "none") => n[s[k].settles] = m[s[k].settles]
  PROVE  Durable(t, n, g, r)
<1> QED BY DEF Durable, Present

\* ... and with the next revision the chain is longer.
LEMMA DurableExtended ==
  ASSUME NEW s, NEW m, NEW f, NEW r \in Nat, r > 0, Durable(s, m, f, r - 1), Present(s, m, f, r)
  PROVE  Durable(s, m, f, r)
<1> QED BY DEF Durable

\* A chain of valid revisions whose Artifacts are there loads.
LEMMA ChainsLoad ==
  ASSUME Parameters, TypeOK, UsedInv, ChainInv, session[0].st # "none", NEW files,
         NEW r \in 0..rev, Durable(session, marker, files, r)
  PROVE  ChainLoads(files, r)
<1> SUFFICES ASSUME NEW k \in 0..r
             PROVE  /\ SessionFile(k) \in files
                    /\ k = 0 => session[k].st = "active" /\ session[k].runs = 0
                    /\ k > 0 =>
                         /\ session[k - 1].st = "active"
                         /\ session[k - 1].updated <= session[k].updated
                         /\ IF session[k].settles = "none" THEN ChargeValid(k)
                            ELSE SettlementValid(files, k)
  BY DEF ChainLoads
<1>1. Content(session, marker, run, expires.wall, k) /\ Present(session, marker, files, k)
  BY DEF ChainInv, Durable, TypeOK
<1>2. k > 0 /\ session[k].settles # "none" => SettlementValid(files, k)
  <2> SUFFICES ASSUME k > 0, session[k].settles # "none" PROVE SettlementValid(files, k)
    OBVIOUS
  <2> DEFINE o == session[k].settles
  <2>1. o \in Operations
    <3>1. session[k] \in Session
      BY ParameterTypes DEF TypeOK
    <3> QED BY <3>1 DEF Session
  <2>2. marker[o].outcome \in {"none", "completed", "failed"}
    BY <2>1 DEF TypeOK, Marker
  <2> QED BY <1>1, <2>1, <2>2 DEF Content, Present, SettlementValid
<1> QED BY <1>1, <1>2 DEF Content, Present, ChargeValid

\* What the store accepted it accepts ever after: settled operations keep their
\* marker and their Run.
Keeps ==
    /\ \A k \in 0..rev : session'[k] = session[k]
    /\ \A o \in Operations :
          marker[o].outcome # "none" => marker'[o] = marker[o] /\ run'[o] = run[o]
    /\ expires' = expires

LEMMA ChainKept ==
  ASSUME Parameters, TypeOK, ChainInv, session[0].st # "none", Keeps
  PROVE  \A k \in 0..rev : Content(session', marker', run', expires'.wall, k)
<1> SUFFICES ASSUME NEW k \in 0..rev
             PROVE  Content(session', marker', run', expires'.wall, k)
  OBVIOUS
<1>1. Content(session, marker, run, expires.wall, k)
  BY DEF ChainInv
<1>2. rev \in Nat /\ session[k] \in Session /\ (k > 0 => k - 1 \in 0..rev)
  BY ParameterTypes DEF TypeOK
<1>3. session'[k] = session[k] /\ (k > 0 => session'[k - 1] = session[k - 1])
  BY <1>2 DEF Keeps
<1>4. ASSUME k > 0, session[k].settles # "none"
      PROVE  /\ marker'[session[k].settles] = marker[session[k].settles]
             /\ run'[session[k].settles] = run[session[k].settles]
  <2>1. session[k].settles \in Operations
    BY <1>2, <1>4 DEF Session
  <2> QED BY <1>1, <1>4, <2>1 DEF Content, Keeps
<1>5. expires' = expires
  BY DEF Keeps
<1> QED BY <1>1, <1>3, <1>4, <1>5 DEF Content

\* Every step but the authorization keeps what was accepted.
LEMMA StepKeeps ==
  ASSUME Parameters, TypeOK, CallInv, UsedInv, Elementary \/ UNCHANGED vars
  PROVE  Authorize \/ Keeps
<1>1. CASE ClockStep \/ Forgotten \/ UNCHANGED vars
  BY <1>1 DEF Keeps, ClockStep, Forgotten, KeepAuthority, KeepRuns, KeepCall, vars
<1>2. ASSUME NEW st, Terminated(st) PROVE Keeps
  BY <1>2 DEF Keeps, Terminated, Appended, KeepCall
<1>3. ASSUME NEW o, Begun(o) \/ BegunTooLate(o) PROVE Keeps
  BY <1>3 DEF Keeps, Begun, BegunTooLate, Appended
<1>4. CASE Launched \/ WorkloadOver
  <2>1. marker[op].outcome = "none" /\ UNCHANGED <<session, marker, expires>>
    BY <1>4 DEF Launched, WorkloadOver, RunChanges, KeepAuthority, CallInv, InFlight
  <2>2. \A o \in Operations \ {op} : run'[o] = run[o]
    BY <1>4 DEF Launched, WorkloadOver, RunChanges
  <2> QED BY <2>1, <2>2 DEF Keeps
<1>5. CASE Completed \/ RunFailed
  <2>1. marker[op].outcome = "none" /\ UNCHANGED <<run, expires>>
    BY <1>5 DEF Completed, RunFailed, Marked, CallInv, InFlight
  <2>2. /\ \A o \in Operations \ {op} : marker'[o] = marker[o]
        /\ \A k \in 0..rev : session'[k] = session[k]
    BY <1>5 DEF Completed, RunFailed, Marked, Appended
  <2> QED BY <2>1, <2>2 DEF Keeps
<1>6. ASSUME NEW step, RevisionSaved(step) \/ ArtifactSaved(step) PROVE Keeps
  BY <1>6 DEF Keeps, RevisionSaved, ArtifactSaved, SaveStep, KeepAuthority
<1>7. CASE MarkerSaved \/ Abandoned \/ Dies
  BY <1>7 DEF Keeps, MarkerSaved, SaveStep, KeepAuthority, Abandoned, Dies, KeepCall
<1> QED BY <1>1, <1>2, <1>3, <1>4, <1>5, <1>6, <1>7 DEF Elementary

----------------------------------------------------------------------------
(* The invariant is kept.                                                  *)

\* Every variable keeps its type.
LEMMA NextType ==
  ASSUME Parameters, TypeOK, CallInv, Elementary \/ UNCHANGED vars
  PROVE  TypeOK'
<1> USE ParameterTypes DEF TypeOK, Steps, InFlight, Settling
<1>1. CASE ClockStep \/ Forgotten \/ UNCHANGED vars
  BY <1>1, TargetIsFile, FlightOperation, NoLeaseType DEF ClockStep, KeepStore,
     KeepAuthority, KeepRuns, Forgotten, KeepClocks, KeepCall, vars
<1>2. CASE Authorize
  <2> DEFINE span == HardExpiry * Ticks
  <2>1. span \in Nat /\ wall \in Nat /\ mono \in Nat
    OBVIOUS
  <2>2. [st |-> "active", runs |-> 0, updated |-> wall, settles |-> "none"] \in Session
    BY DEF Session
  <2>3. session' \in [0..MaxRev -> Session]
    BY <1>2, <2>2 DEF Authorize
  <2>4. expires' \in Instants
    <3>1. expires' = [wall |-> wall + span, mono |-> mono + span]
      BY <1>2 DEF Authorize
    <3> HIDE DEF span, TypeOK, CallInv
    <3>2. wall + span \in Nat /\ mono + span \in Nat
      BY <2>1
    <3> QED BY <3>1, <3>2 DEF Instants
  <2> QED BY <1>2, <2>3, <2>4 DEF Authorize, KeepClocks, KeepStore
<1>3. ASSUME NEW st \in Ended, Terminated(st) PROVE TypeOK'
  BY <1>3, TargetIsFile, FlightOperation, NoLeaseType DEF Terminated, MayLink, Appended,
     KeepClocks, KeepCall
<1>4. ASSUME NEW o \in Operations, Begun(o) PROVE TypeOK'
  BY <1>4, TargetIsFile, FlightOperation, NoLeaseType DEF Begun, Appended, KeepClocks,
     KeepStore
<1>5. ASSUME NEW o \in Operations, BegunTooLate(o) PROVE TypeOK'
  BY <1>5, TargetIsFile, FlightOperation, NoLeaseType DEF BegunTooLate, KeepClocks,
     KeepStore
<1>6. CASE Launched \/ WorkloadOver
  BY <1>6, TargetIsFile, FlightOperation, NoLeaseType DEF Launched, RunChanges, KeepClocks,
     KeepStore, KeepAuthority, WorkloadOver
<1>7. CASE Completed
  BY <1>7, TargetIsFile, FlightOperation, NoLeaseType DEF Completed, Marked, Appended,
     KeepClocks
<1>8. CASE RunFailed
  BY <1>8, TargetIsFile, FlightOperation, NoLeaseType DEF RunFailed, MayLink, Marked,
     Appended, KeepClocks
<1>9. ASSUME NEW step \in {"authorized", "terminal", "reserved", "settled"},
             RevisionSaved(step)
      PROVE  TypeOK'
  BY <1>9, TargetIsFile, FlightOperation, NoLeaseType DEF RevisionSaved, SaveStep,
     KeepClocks, KeepAuthority
<1>10. ASSUME NEW step \in {"evidence", "analysis", "verification", "run"},
             ArtifactSaved(step)
      PROVE  TypeOK'
  <2>1. pc = step /\ pc \in InFlight
    BY <1>10 DEF ArtifactSaved
  <2>2. File(step, op, 0) \in Files
    BY <2>1, TargetIsFile DEF Evidence
  <2>3. pc' \in Steps
    BY <1>10 DEF ArtifactSaved, SaveStep
  <2> QED BY <1>10, <2>2, <2>3 DEF ArtifactSaved, SaveStep, KeepClocks, KeepAuthority
<1>11. CASE MarkerSaved
  BY <1>11, TargetIsFile, FlightOperation, NoLeaseType DEF MarkerSaved, SaveStep,
     KeepClocks, KeepAuthority
<1>12. CASE Abandoned
  BY <1>12, TargetIsFile, FlightOperation, NoLeaseType DEF Abandoned, MayLink, KeepClocks,
     KeepCall
<1>13. CASE Dies
  BY <1>13, TargetIsFile, FlightOperation, NoLeaseType DEF Dies, MayLink, KeepClocks,
     KeepCall
<1> HIDE DEF TypeOK
<1> QED BY <1>1, <1>2, <1>3, <1>4, <1>5, <1>6, <1>7, <1>8, <1>9, <1>10, <1>11, <1>12, <1>13
   DEF Elementary

\* The revisions stay within their room.
LEMMA NextRevisions ==
  ASSUME Parameters, TypeOK, FreshInv, RevInv, Elementary \/ UNCHANGED vars
  PROVE  RevInv'
<1> USE ParameterTypes DEF TypeOK, FreshInv, RevInv, Session, Active, Ended, InFlight,
   Settling, HasRun
<1>1. CASE ClockStep \/ Forgotten \/ UNCHANGED vars
  BY <1>1 DEF ClockStep, KeepStore, KeepAuthority, KeepRuns, Forgotten, KeepClocks,
     KeepCall, vars
<1>2. CASE Authorize
  BY <1>2 DEF Authorize, KeepClocks, KeepStore
<1>3. ASSUME NEW st \in Ended, Terminated(st) PROVE RevInv'
  <2>1. PICK n \in Nat : n = session[rev].runs
    OBVIOUS
  <2>2. /\ rev \in Nat /\ n <= MaxRuns /\ rev <= 2 * n
        /\ rev' = rev + 1 /\ session'[rev'].runs = n /\ session'[rev'].st # "active"
        /\ pc' \in {"idle", "terminal"}
    BY <1>3, <2>1 DEF Terminated, Appended
  <2> HIDE DEF TypeOK, FreshInv
  <2> QED BY <2>1, <2>2
<1>4. ASSUME NEW o \in Operations, Begun(o) PROVE RevInv'
  <2>1. PICK n \in Nat : n = session[rev].runs
    OBVIOUS
  <2>2. /\ rev \in Nat /\ rev <= 2 * n /\ n < MaxRuns
        /\ rev' = rev + 1 /\ session'[rev'].runs = n + 1 /\ pc' = "reserved"
    BY <1>4, <2>1 DEF Begun, Appended
  <2> HIDE DEF TypeOK, FreshInv, RevInv
  <2>3. n + 1 <= MaxRuns /\ rev + 2 <= 2 * (n + 1)
    BY <2>2
  <2> USE DEF RevInv
  <2> QED BY <2>1, <2>2, <2>3
<1>5. ASSUME NEW o \in Operations, BegunTooLate(o) PROVE RevInv'
  <2>1. PICK n \in Nat : n = session[rev].runs
    OBVIOUS
  <2>2. /\ rev \in Nat /\ rev <= 2 * n /\ n < MaxRuns
        /\ rev' = rev + 2 /\ session'[rev'].runs = n + 1
        /\ session'[rev'].st = "expired" /\ pc' = "terminal"
    BY <1>5, <2>1 DEF BegunTooLate
  <2> HIDE DEF TypeOK, FreshInv, RevInv
  <2>3. n + 1 <= MaxRuns /\ rev + 2 <= 2 * (n + 1) + 1
    BY <2>2
  <2> USE DEF RevInv
  <2> QED BY <2>1, <2>2, <2>3
<1>6. CASE Launched \/ WorkloadOver
  BY <1>6 DEF Launched, RunChanges, KeepClocks, KeepStore, KeepAuthority, WorkloadOver
<1>7. CASE Completed
  <2>1. PICK n \in Nat : n = session[rev].runs
    OBVIOUS
  <2>2. /\ rev \in Nat /\ n <= MaxRuns /\ rev + 1 <= 2 * n
        /\ rev' = rev + 1 /\ session'[rev'].runs = n /\ pc' = "settled"
    BY <1>7, <2>1 DEF Completed, Marked, Appended
  <2> HIDE DEF TypeOK, FreshInv
  <2> QED BY <2>1, <2>2
<1>8. CASE RunFailed
  <2>1. PICK n \in Nat : n = session[rev].runs
    OBVIOUS
  <2>2. /\ rev \in Nat /\ n <= MaxRuns /\ rev + 1 <= 2 * n
        /\ rev' = rev + 1 /\ session'[rev'].runs = n /\ pc' = "settled"
    BY <1>8, <2>1 DEF RunFailed, Marked, Appended
  <2> HIDE DEF TypeOK, FreshInv
  <2> QED BY <2>1, <2>2
<1>9. ASSUME NEW step \in {"authorized", "terminal", "reserved", "settled"},
             RevisionSaved(step)
      PROVE  RevInv'
  BY <1>9 DEF RevisionSaved, SaveStep, KeepClocks, KeepAuthority
<1>10. ASSUME NEW step \in {"evidence", "analysis", "verification", "run"},
             ArtifactSaved(step)
      PROVE  RevInv'
  BY <1>10 DEF ArtifactSaved, SaveStep, KeepClocks, KeepAuthority
<1>11. CASE MarkerSaved
  BY <1>11 DEF MarkerSaved, SaveStep, KeepClocks, KeepAuthority
<1>12. CASE Abandoned
  BY <1>12 DEF Abandoned, MayLink, KeepClocks, KeepCall
<1>13. CASE Dies
  BY <1>13 DEF Dies, MayLink, KeepClocks, KeepCall
<1> HIDE DEF TypeOK, FreshInv, RevInv
<1> QED BY <1>1, <1>2, <1>3, <1>4, <1>5, <1>6, <1>7, <1>8, <1>9, <1>10, <1>11, <1>12, <1>13
   DEF Elementary

\* Nothing is known of a session before its authorization.
LEMMA NextFresh ==
  ASSUME Parameters, TypeOK, FreshInv, CallInv, Elementary \/ UNCHANGED vars
  PROVE  FreshInv'
<1> USE ParameterTypes DEF TypeOK, FreshInv, CallInv, Active, Session, InFlight, Settling,
   HasRun
<1>1. CASE ClockStep \/ Forgotten \/ UNCHANGED vars
  BY <1>1 DEF ClockStep, KeepStore, KeepAuthority, KeepRuns, Forgotten, KeepClocks,
     KeepCall, vars
<1>2. CASE Authorize
  BY <1>2 DEF Authorize, KeepClocks, KeepStore
<1>3. ASSUME NEW st \in Ended, Terminated(st) PROVE FreshInv'
  BY <1>3 DEF Terminated, MayLink, Appended, KeepClocks, KeepCall
<1>4. ASSUME NEW o \in Operations, Begun(o) PROVE FreshInv'
  BY <1>4 DEF Begun, Appended, KeepClocks, KeepStore
<1>5. ASSUME NEW o \in Operations, BegunTooLate(o) PROVE FreshInv'
  BY <1>5 DEF BegunTooLate, KeepClocks, KeepStore
<1>6. CASE Launched \/ WorkloadOver
  BY <1>6 DEF Launched, RunChanges, KeepClocks, KeepStore, KeepAuthority, WorkloadOver
<1>7. CASE Completed
  BY <1>7 DEF Completed, Marked, Appended, KeepClocks
<1>8. CASE RunFailed
  BY <1>8 DEF RunFailed, MayLink, Marked, Appended, KeepClocks
<1>9. ASSUME NEW step \in {"authorized", "terminal", "reserved", "settled"},
             RevisionSaved(step)
      PROVE  FreshInv'
  BY <1>9 DEF RevisionSaved, SaveStep, KeepClocks, KeepAuthority
<1>10. ASSUME NEW step \in {"evidence", "analysis", "verification", "run"},
             ArtifactSaved(step)
      PROVE  FreshInv'
  BY <1>10 DEF ArtifactSaved, SaveStep, KeepClocks, KeepAuthority
<1>11. CASE MarkerSaved
  BY <1>11 DEF MarkerSaved, SaveStep, KeepClocks, KeepAuthority
<1>12. CASE Abandoned
  BY <1>12 DEF Abandoned, MayLink, KeepClocks, KeepCall
<1>13. CASE Dies
  BY <1>13 DEF Dies, MayLink, KeepClocks, KeepCall
<1> HIDE DEF TypeOK, FreshInv, CallInv
<1> QED BY <1>1, <1>2, <1>3, <1>4, <1>5, <1>6, <1>7, <1>8, <1>9, <1>10, <1>11, <1>12, <1>13
   DEF Elementary

\* A run in flight keeps its lease and its revision until it is settled.
LEMMA NextCall ==
  ASSUME Parameters, TypeOK, FreshInv, CallInv, UsedInv, Elementary \/ UNCHANGED vars
  PROVE  CallInv'
<1> USE ParameterTypes DEF TypeOK, FreshInv, CallInv, UsedInv, Lease, Active, Ended,
   InFlight, Settling, HasRun
<1>1. CASE ClockStep \/ Forgotten \/ UNCHANGED vars
  BY <1>1 DEF ClockStep, KeepStore, KeepAuthority, KeepRuns, Forgotten, KeepClocks,
     KeepCall, vars
<1>2. CASE Authorize
  BY <1>2 DEF Authorize, KeepClocks, KeepStore
<1>3. ASSUME NEW st \in Ended, Terminated(st) PROVE CallInv'
  BY <1>3 DEF Terminated, MayLink, Appended, KeepClocks, KeepCall
<1>4. ASSUME NEW o \in Operations, Begun(o) PROVE CallInv'
  <2>1. /\ rev' = rev + 1 /\ session'[rev'].st = "active" /\ session'[rev'].settles = "none"
        /\ lease'.rev = rev' /\ lease'.wall <= expires'.wall /\ op' = o /\ o \in used'
        /\ pc' = "reserved" /\ marker' = marker /\ rev \in Nat /\ o \notin used
    BY <1>4 DEF Begun, Appended
  <2>2. marker[o].outcome = "none"
    BY <2>1
  <2> HIDE DEF TypeOK, FreshInv, UsedInv
  <2> QED BY <2>1, <2>2
<1>5. ASSUME NEW o \in Operations, BegunTooLate(o) PROVE CallInv'
  BY <1>5 DEF BegunTooLate, KeepClocks, KeepStore
<1>6. CASE Launched
  <2>1. /\ pc = "launch" /\ pc' = "running" /\ run'[op].base = lease.rev
        /\ UNCHANGED <<rev, session, lease, expires, used, marker, op>>
    BY <1>6 DEF Launched, RunChanges, KeepAuthority
  <2> HIDE DEF TypeOK, FreshInv, UsedInv
  <2> QED BY <2>1
<1>7. CASE WorkloadOver
  <2>1. /\ pc = "running" /\ pc' = "evidence" /\ run'[op].base = run[op].base
        /\ UNCHANGED <<rev, session, lease, expires, used, marker, op>>
    BY <1>7 DEF WorkloadOver, RunChanges, KeepAuthority
  <2> HIDE DEF TypeOK, FreshInv, UsedInv
  <2> QED BY <2>1
<1>8. CASE Completed
  BY <1>8 DEF Completed, Marked, Appended, KeepClocks
<1>9. CASE RunFailed
  BY <1>9 DEF RunFailed, MayLink, Marked, Appended, KeepClocks
<1>10. ASSUME NEW step \in {"authorized", "terminal", "reserved", "settled"},
             RevisionSaved(step)
      PROVE  CallInv'
  BY <1>10 DEF RevisionSaved, SaveStep, KeepClocks, KeepAuthority
<1>11. ASSUME NEW step \in {"evidence", "analysis", "verification", "run"},
             ArtifactSaved(step)
      PROVE  CallInv'
  BY <1>11 DEF ArtifactSaved, SaveStep, KeepClocks, KeepAuthority
<1>12. CASE MarkerSaved
  BY <1>12 DEF MarkerSaved, SaveStep, KeepClocks, KeepAuthority
<1>13. CASE Abandoned
  BY <1>13 DEF Abandoned, MayLink, KeepClocks, KeepCall
<1>14. CASE Dies
  BY <1>14 DEF Dies, MayLink, KeepClocks, KeepCall
<1> HIDE DEF TypeOK, FreshInv, CallInv, UsedInv
<1> QED BY <1>1, <1>2, <1>3, <1>4, <1>5, <1>6, <1>7, <1>8, <1>9, <1>10, <1>11, <1>12, <1>13,
   <1>14 DEF Elementary

\* An operation is settled once.
LEMMA NextUsed ==
  ASSUME Parameters, TypeOK, FreshInv, CallInv, UsedInv, Elementary \/ UNCHANGED vars
  PROVE  UsedInv'
<1> USE ParameterTypes DEF TypeOK, FreshInv, CallInv, UsedInv, InFlight, Settling, HasRun
<1>1. CASE ClockStep \/ Forgotten \/ UNCHANGED vars
  BY <1>1 DEF ClockStep, KeepStore, KeepAuthority, KeepRuns, Forgotten, KeepClocks,
     KeepCall, vars
<1>2. CASE Authorize
  BY <1>2 DEF Authorize, KeepClocks, KeepStore
<1>3. ASSUME NEW st \in Ended, Terminated(st) PROVE UsedInv'
  BY <1>3 DEF Terminated, MayLink, Appended, KeepClocks, KeepCall
<1>4. ASSUME NEW o \in Operations, Begun(o) PROVE UsedInv'
  BY <1>4 DEF Begun, Appended, KeepClocks, KeepStore
<1>5. ASSUME NEW o \in Operations, BegunTooLate(o) PROVE UsedInv'
  BY <1>5 DEF BegunTooLate, KeepClocks, KeepStore
<1>6. CASE Launched
  <2>1. UNCHANGED <<rev, session, used, marker, returned>>
    BY <1>6 DEF Launched, RunChanges, KeepAuthority
  <2> HIDE DEF TypeOK, FreshInv, CallInv
  <2> QED BY <2>1
<1>7. CASE WorkloadOver
  <2>1. UNCHANGED <<rev, session, used, marker, returned>>
    BY <1>7 DEF WorkloadOver, RunChanges, KeepAuthority
  <2> HIDE DEF TypeOK, FreshInv, CallInv
  <2> QED BY <2>1
<1>8. CASE Completed
  <2>1. \A o \in Operations : o # op => marker'[o] = marker[o]
    BY <1>8 DEF Completed, Marked
  <2>2. /\ op \in used /\ op \in Operations /\ marker[op].outcome = "none"
        /\ marker'[op].outcome = "completed" /\ marker'[op].final = rev + 1
        /\ UNCHANGED <<used, returned>>
    BY <1>8 DEF Completed, Marked
  <2>3. /\ rev' = rev + 1 /\ rev \in Nat /\ session'[rev'].settles = op
        /\ \A k \in 0..rev : session'[k] = session[k]
    BY <1>8 DEF Completed, Appended
  <2>4. ASSUME NEW o \in Operations, marker'[o].outcome # "none"
        PROVE  /\ o \in used' /\ marker'[o].final \in 1..rev'
               /\ session'[marker'[o].final].settles = o
    <3>1. CASE o = op
      BY <2>2, <2>3, <3>1
    <3>2. CASE o # op
      BY <2>1, <2>2, <2>3, <2>4, <3>2
    <3> QED BY <3>1, <3>2
  <2> QED BY <2>1, <2>2, <2>4
<1>9. CASE RunFailed
  <2>1. \A o \in Operations : o # op => marker'[o] = marker[o]
    BY <1>9 DEF RunFailed, Marked
  <2>2. /\ op \in used /\ op \in Operations /\ marker[op].outcome = "none"
        /\ marker'[op].outcome = "failed" /\ marker'[op].final = rev + 1
        /\ UNCHANGED <<used, returned>>
    BY <1>9 DEF RunFailed, Marked
  <2>3. /\ rev' = rev + 1 /\ rev \in Nat /\ session'[rev'].settles = op
        /\ \A k \in 0..rev : session'[k] = session[k]
    BY <1>9 DEF RunFailed, Appended
  <2>4. ASSUME NEW o \in Operations, marker'[o].outcome # "none"
        PROVE  /\ o \in used' /\ marker'[o].final \in 1..rev'
               /\ session'[marker'[o].final].settles = o
    <3>1. CASE o = op
      BY <2>2, <2>3, <3>1
    <3>2. CASE o # op
      BY <2>1, <2>2, <2>3, <2>4, <3>2
    <3> QED BY <3>1, <3>2
  <2> QED BY <2>1, <2>2, <2>4
<1>10. ASSUME NEW step \in {"authorized", "terminal", "reserved", "settled"},
             RevisionSaved(step)
      PROVE  UsedInv'
  BY <1>10 DEF RevisionSaved, SaveStep, KeepClocks, KeepAuthority
<1>11. ASSUME NEW step \in {"evidence", "analysis", "verification", "run"},
             ArtifactSaved(step)
      PROVE  UsedInv'
  BY <1>11 DEF ArtifactSaved, SaveStep, KeepClocks, KeepAuthority
<1>12. CASE MarkerSaved
  BY <1>12 DEF MarkerSaved, SaveStep, KeepClocks, KeepAuthority
<1>13. CASE Abandoned
  BY <1>13 DEF Abandoned, MayLink, KeepClocks, KeepCall
<1>14. CASE Dies
  BY <1>14 DEF Dies, MayLink, KeepClocks, KeepCall
<1> HIDE DEF TypeOK, FreshInv, CallInv, UsedInv
<1> QED BY <1>1, <1>2, <1>3, <1>4, <1>5, <1>6, <1>7, <1>8, <1>9, <1>10, <1>11, <1>12, <1>13,
   <1>14 DEF Elementary

\* Every appended revision is one the store accepts after its predecessor.
LEMMA NextChain ==
  ASSUME Parameters, TypeOK, FreshInv, CallInv, UsedInv, ChainInv,
         Elementary \/ UNCHANGED vars
  PROVE  ChainInv'
<1> USE ParameterTypes
<1> DEFINE Accepted(k) == Content(session', marker', run', expires'.wall, k)
<1>1. CASE Authorize
  <2>1. rev = 0 /\ rev' = 0 /\ session'[0].st = "active" /\ session'[0].runs = 0
    BY <1>1 DEF Authorize, FreshInv, TypeOK
  <2>2. Accepted(0)
    BY <2>1 DEF Content
  <2> HIDE DEF Accepted
  <2>3. \A k \in 0..rev' : Accepted(k)
    BY <2>1, <2>2
  <2> QED BY <2>3 DEF ChainInv, Accepted
<1>2. CASE Keeps /\ session[0].st = "none"
  BY <1>2 DEF Keeps, ChainInv, TypeOK
<1>3. CASE Keeps /\ session[0].st # "none"
  <2>1. \A k \in 0..rev : Accepted(k)
    BY <1>3, ChainKept
  <2>2. rev \in Nat /\ session'[rev] = session[rev] /\ session'[0].st # "none"
    BY <1>3 DEF TypeOK, Keeps
  <2>3. ASSUME NEW st \in Ended, Terminated(st)
        PROVE  rev' = rev + 1 /\ Accepted(rev + 1)
    BY <2>2, <2>3 DEF Terminated, Appended, Content
  <2>4. ASSUME NEW o \in Operations, Begun(o)
        PROVE  rev' = rev + 1 /\ Accepted(rev + 1)
    BY <2>2, <2>4 DEF Begun, Active, Appended, Content
  <2>5. ASSUME NEW o \in Operations, BegunTooLate(o)
        PROVE  rev' = rev + 2 /\ Accepted(rev + 1) /\ Accepted(rev + 2)
    <3>1. /\ rev' = rev + 2 /\ session[rev].st = "active"
          /\ session'[rev + 1].st = "active" /\ session'[rev + 1].settles = "none"
          /\ session'[rev + 2].settles = "none"
          /\ session'[rev + 1].runs = session[rev].runs + 1
          /\ session'[rev + 2].runs = session'[rev + 1].runs
          /\ session[rev].updated <= session'[rev + 1].updated
          /\ session'[rev + 1].updated = session'[rev + 2].updated
      BY <2>5 DEF BegunTooLate, Active
    <3>2. session'[rev + 1].updated \in Nat
      BY <2>2, <2>5 DEF BegunTooLate, Session
    <3> QED BY <2>2, <3>1, <3>2 DEF Content
  <2>6. ASSUME Completed
        PROVE  rev' = rev + 1 /\ Accepted(rev + 1)
    <3>1. /\ session[rev].st = "active" /\ run[op].base = rev /\ op \in Operations
          /\ lease.wall <= expires.wall
      BY <2>6, FlightOperation DEF Completed, CallInv, InFlight, HasRun
    <3>2. /\ rev' = rev + 1 /\ session'[rev + 1].st = "active"
          /\ session'[rev + 1].runs = session[rev].runs /\ session'[rev + 1].settles = op
          /\ session[rev].updated <= session'[rev + 1].updated
          /\ run[op].created <= session'[rev + 1].updated
          /\ marker'[op].outcome = "completed" /\ marker'[op].final = rev + 1
          /\ run' = run /\ expires' = expires /\ run[op].created <= lease.wall
      BY <2>6 DEF Completed, Marked, Appended
    <3>3. run[op].created <= expires.wall
      <4>1. run[op].created \in Nat /\ lease.wall \in Nat /\ expires.wall \in Nat
        BY <3>1 DEF TypeOK, Run, Lease, Instants
      <4> QED BY <3>1, <3>2, <4>1
    <3>4. session'[rev + 1].updated \in Nat /\ run[op].created \in Nat
      BY <2>2, <2>6, <3>1 DEF Completed, Appended, Session, TypeOK, Run
    <3>5. op # "none"
      BY <3>1
    <3> QED BY <2>2, <3>1, <3>2, <3>3, <3>4, <3>5 DEF Content
  <2>7. ASSUME RunFailed
        PROVE  rev' = rev + 1 /\ Accepted(rev + 1)
    <3>1. session[rev].st = "active" /\ op \in Operations
      BY <2>7, FlightOperation DEF RunFailed, CallInv
    <3>2. /\ rev' = rev + 1 /\ session'[rev + 1].st = "failed"
          /\ session'[rev + 1].runs = session[rev].runs /\ session'[rev + 1].settles = op
          /\ session[rev].updated <= session'[rev + 1].updated
          /\ marker'[op].outcome = "failed" /\ marker'[op].final = rev + 1
      BY <2>7 DEF RunFailed, Marked, Appended
    <3>3. op # "none"
      BY <3>1
    <3> QED BY <2>2, <3>1, <3>2, <3>3 DEF Content
  <2>8. ASSUME \/ ClockStep \/ Forgotten \/ Launched \/ WorkloadOver \/ MarkerSaved \/ Abandoned
               \/ Dies \/ UNCHANGED vars
        PROVE  rev' = rev
    BY <2>8 DEF ClockStep, Forgotten, Launched, WorkloadOver, RunChanges, MarkerSaved, SaveStep,
       KeepAuthority, Abandoned, Dies, vars
  <2>9. ASSUME NEW step, RevisionSaved(step) \/ ArtifactSaved(step)
        PROVE  rev' = rev
    BY <2>9 DEF RevisionSaved, ArtifactSaved, SaveStep, KeepAuthority
  <2>10. ASSUME Authorize PROVE FALSE
    BY <1>3, <2>10 DEF Authorize
  <2> HIDE DEF Accepted
  <2>11. \/ rev' = rev
         \/ rev' = rev + 1 /\ Accepted(rev + 1)
         \/ rev' = rev + 2 /\ Accepted(rev + 1) /\ Accepted(rev + 2)
    BY <2>3, <2>4, <2>5, <2>6, <2>7, <2>8, <2>9, <2>10 DEF Elementary
  <2>12. \A k \in 0..rev' : Accepted(k)
    BY <2>1, <2>2, <2>11
  <2> QED BY <2>12 DEF ChainInv, Accepted
<1> QED BY <1>1, <1>2, <1>3, StepKeeps

\* Every step but the authorization keeps what was durable.
LEMMA DurableStays ==
  ASSUME Parameters, TypeOK, ChainInv, session[0].st # "none", Keeps, synced \subseteq synced',
         NEW r \in Nat, r <= rev, Durable(session, marker, synced, r)
  PROVE  Durable(session', marker', synced', r)
<1>1. \A k \in 0..r : session'[k] = session[k]
  BY DEF Keeps, TypeOK
<1>2. ASSUME NEW k \in 0..r, k > 0, session[k].settles # "none"
      PROVE  marker'[session[k].settles] = marker[session[k].settles]
  <2>1. k \in 0..rev /\ session[k] \in Session
    BY ParameterTypes DEF TypeOK
  <2>2. session[k].settles \in Operations
    BY <1>2, <2>1 DEF Session
  <2>3. marker[session[k].settles].outcome # "none"
    BY <1>2, <2>1 DEF ChainInv, Content
  <2> QED BY <2>2, <2>3 DEF Keeps
<1> QED BY <1>1, <1>2, DurableKept

\* No step undoes a synced name.
LEMMA StepSyncs ==
  ASSUME TypeOK, Elementary \/ UNCHANGED vars
  PROVE  synced \subseteq synced'
<1>1. synced \subseteq linked
  BY DEF TypeOK
<1>2. CASE \/ ClockStep \/ Authorize \/ Forgotten \/ Launched \/ WorkloadOver \/ Completed
           \/ RunFailed \/ Abandoned \/ UNCHANGED vars
  BY <1>2 DEF ClockStep, Authorize, Forgotten, Launched, WorkloadOver, RunChanges, Completed,
     RunFailed, Marked, Abandoned, KeepStore, vars
<1>3. ASSUME NEW st, Terminated(st) PROVE synced \subseteq synced'
  BY <1>3 DEF Terminated
<1>4. ASSUME NEW o, Begun(o) \/ BegunTooLate(o) PROVE synced \subseteq synced'
  BY <1>4 DEF Begun, BegunTooLate, KeepStore
<1>5. ASSUME NEW step, RevisionSaved(step) \/ ArtifactSaved(step) PROVE synced \subseteq synced'
  BY <1>1, <1>5 DEF RevisionSaved, ArtifactSaved, SaveStep
<1>6. CASE MarkerSaved
  BY <1>1, <1>6 DEF MarkerSaved, SaveStep
<1>7. CASE Dies
  BY <1>7 DEF Dies
<1> QED BY <1>2, <1>3, <1>4, <1>5, <1>6, <1>7 DEF Elementary

\* The marker of a completed run makes its settlement durable.
LEMMA SettlementDurable ==
  ASSUME Parameters, TypeOK, FreshInv, CallInv, UsedInv, ChainInv, FilesInv, MarkerSaved,
         marker[op].outcome = "completed"
  PROVE  /\ marker[op].final = rev /\ Durable(session', marker', synced', rev)
         /\ \A kind \in Evidence : File(kind, op, 0) \in synced'
<1>1. /\ pc = "marker" /\ rev \in Nat /\ rev > 0 /\ rev - 1 \in Nat /\ session[rev].settles = op
      /\ op \in Operations /\ op # "none" /\ session[0].st # "none"
  BY ParameterTypes, FlightOperation DEF MarkerSaved, CallInv, FreshInv, Settling, TypeOK
<1>2. synced \subseteq synced' /\ File("marker", op, 0) \in synced'
      /\ session' = session /\ marker' = marker
  BY DEF MarkerSaved, SaveStep, KeepAuthority, TypeOK
<1>3. /\ Durable(session, marker, synced, rev - 1) /\ SessionFile(rev) \in synced
      /\ \A kind \in Evidence \cup {"run"} : File(kind, op, 0) \in synced
  BY <1>1 DEF FilesInv, Settling, Published
<1>4. Keeps
  BY StepKeeps DEF Elementary, Authorize, MarkerSaved
<1>5. Durable(session', marker', synced', rev - 1)
  BY <1>1, <1>2, <1>3, <1>4, DurableStays
<1>6. Present(session', marker', synced', rev)
  BY <1>1, <1>2, <1>3 DEF Present
<1>7. Durable(session', marker', synced', rev)
  BY <1>1, <1>5, <1>6, DurableExtended
<1>8. marker[op].final = rev
  <2>1. Content(session, marker, run, expires.wall, rev)
    BY <1>1 DEF ChainInv
  <2> QED BY <1>1, <2>1 DEF Content
<1> QED BY <1>2, <1>3, <1>7, <1>8

\* A call goes on only after what it rests on is durable.
LEMMA NextFiles ==
  ASSUME Parameters, TypeOK, FreshInv, CallInv, UsedInv, ChainInv, FilesInv,
         Elementary \/ UNCHANGED vars
  PROVE  FilesInv'
<1> DEFINE Lasting(r) == Durable(session', marker', synced', r)
<1>1. synced \subseteq synced' /\ rev \in Nat
  BY StepSyncs DEF TypeOK
<1>2. ASSUME Keeps, session[0].st # "none", NEW r \in Nat, r <= rev,
             Durable(session, marker, synced, r)
      PROVE  Lasting(r)
  BY <1>1, <1>2, DurableStays
<1> HIDE DEF Lasting
<1>3. CASE ClockStep \/ UNCHANGED vars
  BY <1>3 DEF FilesInv, ClockStep, KeepStore, KeepAuthority, KeepRuns, Active,
     Durable, Present, vars
<1>4. CASE Authorize \/ Forgotten \/ Abandoned \/ Dies
  BY <1>4 DEF FilesInv, Authorize, Forgotten, Abandoned, Dies, Active, InFlight, HasRun, Settling
<1>5. ASSUME NEW o \in Operations, BegunTooLate(o) PROVE FilesInv'
  BY <1>5 DEF FilesInv, BegunTooLate, Active, InFlight, HasRun, Settling
<1>6. ASSUME NEW o \in Operations, Begun(o) PROVE FilesInv'
  <2>1. Keeps /\ session[0].st # "none"
    BY <1>6, StepKeeps DEF Elementary, Authorize, Begun, FreshInv, Active
  <2>2. Lasting(rev) /\ rev' - 1 = rev
    BY <1>1, <1>2, <1>6, <2>1 DEF FilesInv, Begun, Appended
  <2> QED BY <1>6, <2>2 DEF Lasting, FilesInv, Begun, InFlight, HasRun, Settling
<1>7. CASE Launched \/ WorkloadOver
  <2>1. Keeps /\ session[0].st # "none" /\ rev' = rev
    BY <1>7, StepKeeps DEF Elementary, Authorize, Launched, WorkloadOver, RunChanges, FreshInv,
       KeepAuthority
  <2>2. Lasting(rev)
    BY <1>1, <1>2, <1>7, <2>1 DEF FilesInv, InFlight, Launched, WorkloadOver
  <2> QED BY <1>7, <2>1, <2>2
        DEF Lasting, FilesInv, Launched, WorkloadOver, InFlight, HasRun, Settling, Published
<1>8. CASE Completed
  <2>1. Keeps /\ session[0].st # "none" /\ rev' - 1 = rev /\ op' = op
    BY <1>1, <1>8, StepKeeps DEF Elementary, Authorize, Completed, Marked, Appended, FreshInv
  <2>2. Lasting(rev)
    BY <1>1, <1>2, <1>8, <2>1 DEF FilesInv, InFlight, Completed
  <2>3. \A kind \in Evidence \cup {"run"} : File(kind, op, 0) \in synced'
    BY <1>1, <1>8 DEF FilesInv, HasRun, Published, Completed
  <2>4. pc' = "settled"
    BY <1>8 DEF Completed, Marked
  <2> QED BY <2>1, <2>2, <2>3, <2>4 DEF Lasting, FilesInv, InFlight, HasRun, Settling, Published
<1>9. CASE RunFailed
  <2>1. pc' = "settled" /\ marker'[op'].outcome = "failed"
    BY <1>9 DEF RunFailed, Marked
  <2> QED BY <2>1 DEF FilesInv, InFlight, HasRun, Settling
<1>10. ASSUME NEW step \in {"authorized", "terminal", "reserved", "settled"}, RevisionSaved(step)
       PROVE  FilesInv'
  <2>1. /\ pc = step /\ SessionFile(rev) \in synced'
        /\ UNCHANGED <<rev, session, held, marker, op>>
    BY <1>10 DEF RevisionSaved, SaveStep, KeepAuthority
  <2>2. Keeps /\ session[0].st # "none"
    BY <1>10, StepKeeps DEF Elementary, Authorize, RevisionSaved, FreshInv
  <2>3. CASE step = "authorized"
    <3>1. pc' = "idle" /\ rev = 0
      BY <1>10, <2>1, <2>3 DEF RevisionSaved, SaveStep, CallInv
    <3>2. Lasting(rev')
      BY <2>1, <3>1 DEF Lasting, Durable, Present
    <3> QED BY <3>1, <3>2 DEF Lasting, FilesInv, InFlight, HasRun, Settling
  <2>4. CASE step = "terminal"
    BY <1>10, <2>1, <2>4
       DEF RevisionSaved, SaveStep, CallInv, Active, FilesInv, InFlight, HasRun, Settling
  <2>5. CASE step = "reserved"
    <3>1. /\ pc' = "launch" /\ rev > 0 /\ rev - 1 \in Nat /\ session'[rev].settles = "none"
      BY <1>1, <1>10, <2>1, <2>5 DEF RevisionSaved, SaveStep, CallInv, InFlight
    <3>2. Lasting(rev - 1)
      BY <1>1, <1>2, <2>1, <2>2, <2>5, <3>1 DEF FilesInv
    <3>3. Present(session', marker', synced', rev)
      BY <2>1, <3>1 DEF Present
    <3>4. Lasting(rev')
      BY <1>1, <2>1, <3>1, <3>2, <3>3, DurableExtended DEF Lasting
    <3> QED BY <3>1, <3>4 DEF Lasting, FilesInv, InFlight, HasRun, Settling
  <2>6. CASE step = "settled"
    <3>1. pc' = "marker" /\ rev - 1 \in Nat /\ rev - 1 <= rev
      BY <1>1, <1>10, <2>1, <2>6 DEF RevisionSaved, SaveStep, CallInv, Settling
    <3>2. marker[op].outcome = "completed" => Lasting(rev - 1)
      BY <1>2, <2>1, <2>2, <2>6, <3>1 DEF FilesInv, Settling
    <3>3. marker[op].outcome = "completed" =>
             \A kind \in Evidence \cup {"run"} : File(kind, op, 0) \in synced'
      BY <1>1, <2>1, <2>6 DEF FilesInv, Settling, Published
    <3> QED BY <2>1, <3>1, <3>2, <3>3
          DEF Lasting, FilesInv, InFlight, HasRun, Settling, Published
  <2> QED BY <2>3, <2>4, <2>5, <2>6
<1>11. ASSUME NEW step \in {"evidence", "analysis", "verification", "run"}, ArtifactSaved(step)
       PROVE  FilesInv'
  <2>1. /\ pc = step /\ File(step, op, 0) \in synced' /\ rev' = rev /\ op' = op
        /\ pc' = CASE step = "evidence" -> "analysis" [] step = "analysis" -> "verification"
                   [] step = "verification" -> "run" [] step = "run" -> "finish"
    BY <1>11 DEF ArtifactSaved, SaveStep, KeepAuthority
  <2>2. Keeps /\ session[0].st # "none"
    BY <1>11, StepKeeps DEF Elementary, Authorize, ArtifactSaved, FreshInv
  <2>3. Lasting(rev)
    BY <1>1, <1>2, <2>1, <2>2 DEF FilesInv, InFlight
  <2>4. \A kind \in Published(step) \cup {step} : File(kind, op, 0) \in synced'
    BY <1>1, <2>1 DEF FilesInv, HasRun
  <2>5. \A kind \in Published(pc') : File(kind, op, 0) \in synced'
    BY <2>1, <2>4 DEF Published, Evidence
  <2> QED BY <2>1, <2>3, <2>5 DEF Lasting, FilesInv, InFlight, HasRun, Settling
<1>12. CASE MarkerSaved
  <2>1. pc' = "idle" /\ UNCHANGED <<rev, session>> /\ pc = "marker"
    BY <1>12 DEF MarkerSaved, SaveStep, KeepAuthority
  <2>2. CASE marker[op].outcome = "completed"
    <3>1. Lasting(rev')
      BY <1>12, <2>1, <2>2, SettlementDurable DEF Lasting
    <3> QED BY <2>1, <3>1 DEF Lasting, FilesInv, InFlight, HasRun, Settling
  <2>3. CASE marker[op].outcome # "completed"
    <3>1. /\ session[rev].settles = op /\ rev > 0 /\ op \in Operations /\ op # "none"
          /\ session[0].st # "none"
      BY <2>1, ParameterTypes, FlightOperation DEF CallInv, Settling, FreshInv
    <3>2. marker[op].outcome \in {"none", "completed", "failed"}
      BY <3>1 DEF TypeOK, Marker
    <3>3. Content(session, marker, run, expires.wall, rev)
      BY <1>1, <3>1 DEF ChainInv
    <3>4. session[rev].st # "active"
      BY <2>3, <3>1, <3>2, <3>3 DEF Content
    <3> QED BY <2>1, <3>4 DEF FilesInv, Active, InFlight, HasRun, Settling
  <2> QED BY <2>2, <2>3
<1>13. ASSUME NEW st \in Ended, Terminated(st) PROVE FilesInv'
  BY <1>13 DEF FilesInv, Terminated, Appended, Active, InFlight, HasRun, Settling, Ended
<1> QED BY <1>3, <1>4, <1>5, <1>6, <1>7, <1>8, <1>9, <1>10, <1>11, <1>12, <1>13 DEF Elementary

\* A returned Run stays durable.
LEMMA NextReturned ==
  ASSUME Parameters, TypeOK, FreshInv, CallInv, UsedInv, ChainInv, FilesInv, ReturnedInv,
         Elementary \/ UNCHANGED vars
  PROVE  ReturnedInv'
<1> SUFFICES ASSUME NEW o \in returned'
             PROVE  /\ Durable(session', marker', synced', marker'[o].final)
                    /\ \A kind \in Evidence : File(kind, o, 0) \in synced'
  BY DEF ReturnedInv
<1>1. CASE o \in returned
  <2>1. /\ o \in Operations /\ marker[o].outcome # "none" /\ o \in used
        /\ marker[o].final \in Nat /\ marker[o].final <= rev
    BY <1>1 DEF TypeOK, UsedInv
  <2>2. session[0].st # "none"
    BY <2>1 DEF FreshInv
  <2>3. Keeps
    BY <2>2, StepKeeps DEF Authorize
  <2>4. marker'[o] = marker[o]
    BY <2>1, <2>3 DEF Keeps
  <2>5. synced \subseteq synced'
    BY StepSyncs
  <2>6. Durable(session, marker, synced, marker[o].final)
    BY <1>1 DEF ReturnedInv
  <2>7. Durable(session', marker', synced', marker[o].final)
    BY <2>1, <2>2, <2>3, <2>5, <2>6, DurableStays
  <2> QED BY <1>1, <2>4, <2>5, <2>7 DEF ReturnedInv
<1>2. CASE o \notin returned
  <2>1. MarkerSaved /\ marker[op].outcome = "completed" /\ o = op
    <3>1. CASE MarkerSaved
      BY <1>2, <3>1 DEF MarkerSaved
    <3>2. CASE ~ MarkerSaved
      <4>1. CASE \/ ClockStep \/ Authorize \/ Forgotten \/ Launched \/ WorkloadOver \/ Completed
                 \/ RunFailed \/ Abandoned \/ Dies \/ UNCHANGED vars
        BY <1>2, <4>1 DEF ClockStep, Authorize, Forgotten, Launched, WorkloadOver, RunChanges,
           Completed, RunFailed, Marked, Abandoned, Dies, KeepRuns, KeepCall, vars
      <4>2. ASSUME NEW st, Terminated(st) PROVE returned' = returned
        BY <4>2 DEF Terminated, KeepCall
      <4>3. ASSUME NEW p, Begun(p) \/ BegunTooLate(p) PROVE returned' = returned
        BY <4>3 DEF Begun, BegunTooLate
      <4>4. ASSUME NEW step, RevisionSaved(step) \/ ArtifactSaved(step)
            PROVE  returned' = returned
        BY <4>4 DEF RevisionSaved, ArtifactSaved
      <4> QED BY <1>2, <3>2, <4>1, <4>2, <4>3, <4>4 DEF Elementary
    <3> QED BY <3>1, <3>2
  <2>2. marker' = marker
    BY <2>1 DEF MarkerSaved, SaveStep
  <2> QED BY <2>1, <2>2, SettlementDurable
<1> QED BY <1>1, <1>2

\* While the wall clock is not set back, dates follow each other.
LEMMA NextTime ==
  ASSUME Parameters, TypeOK, FreshInv, CallInv, UsedInv, ChainInv, TimeInv, wall' >= wall,
         TypeOK', Elementary \/ UNCHANGED vars
  PROVE  TimeInv'
<1>1. /\ wall \in Nat /\ wall' \in Nat /\ rev \in Nat /\ rev' \in Nat
      /\ \A k \in 0..MaxRev : session[k].updated \in Nat /\ session'[k].updated \in Nat
      /\ rev \in 0..MaxRev /\ rev' \in 0..MaxRev /\ lease.start \in Nat
  <2>1. \A k \in 0..MaxRev : session[k] \in Session /\ session'[k] \in Session
    BY DEF TypeOK
  <2>2. \A k \in 0..MaxRev : session[k].updated \in Nat /\ session'[k].updated \in Nat
    BY <2>1 DEF Session
  <2>3. lease.start \in Nat
    BY DEF TypeOK, Lease
  <2> QED BY <2>2, <2>3 DEF TypeOK
<1>2. ASSUME NEW o \in Operations
      PROVE  /\ run[o].base \in Nat /\ run[o].started \in Nat /\ run[o].created \in Nat
             /\ marker[o].outcome = "completed" =>
                   session[0].st # "none" /\ run[o].base \in 0..rev
  <2>1. run[o].base \in Nat /\ run[o].started \in Nat /\ run[o].created \in Nat
    BY DEF TypeOK, Run
  <2>2. ASSUME marker[o].outcome = "completed"
        PROVE  session[0].st # "none" /\ run[o].base \in 0..rev
    <3>1. /\ o \in used /\ marker[o].final \in 1..rev
          /\ session[marker[o].final].settles = o /\ o # "none"
      BY <2>2, ParameterTypes DEF UsedInv
    <3>2. session[0].st # "none"
      BY <3>1 DEF FreshInv
    <3>3. Content(session, marker, run, expires.wall, marker[o].final)
      BY <1>1, <3>1, <3>2 DEF ChainInv
    <3> QED BY <1>1, <2>2, <3>1, <3>2, <3>3 DEF Content
  <2> QED BY <2>1, <2>2
<1>3. CASE Authorize
  <2>1. rev = 0 /\ rev' = 0 /\ session'[0].updated = wall /\ wall' = wall /\ pc' = "authorized"
        /\ UNCHANGED <<run, marker>>
    BY <1>3, ParameterTypes DEF Authorize, FreshInv, TypeOK, KeepClocks
  <2>2. \A o \in Operations : marker[o].outcome # "completed"
    BY <1>2, <1>3 DEF Authorize
  <2>3. \A k \in 0..rev' : session'[k].updated <= wall'
    BY <2>1
  <2> QED BY <2>1, <2>2, <2>3 DEF TimeInv, InFlight, HasRun
<1>4. CASE Keeps
  <2>1. ASSUME NEW o \in Operations, marker[o].outcome = "completed"
        PROVE  session'[run'[o].base].updated <= run'[o].started
    BY <1>2, <1>4, <2>1 DEF Keeps, TimeInv
  <2>2. \A k \in 0..rev : session'[k].updated <= wall'
    <3> SUFFICES ASSUME NEW k \in 0..rev PROVE session'[k].updated <= wall'
      OBVIOUS
    <3>1. session'[k] = session[k] /\ session[k].updated <= wall
      BY <1>4 DEF Keeps, TimeInv
    <3>2. k \in 0..MaxRev
      BY <1>1, ParameterTypes
    <3>3. session[k].updated \in Nat
      BY <1>1, <3>2
    <3> QED BY <1>1, <3>1, <3>3
  <2> DEFINE Dated == \A k \in 0..rev' : session'[k].updated <= wall'
             Started == \A o \in Operations :
                marker'[o].outcome = "completed" =>
                    session'[run'[o].base].updated <= run'[o].started
  <2>3. ASSUME rev' = rev PROVE Dated
    BY <2>2, <2>3
  <2>4. ASSUME rev' = rev + 1, session'[rev + 1].updated <= wall PROVE Dated
    <3>1. session'[rev + 1].updated <= wall'
      BY <1>1, <2>4
    <3> QED BY <1>1, <2>2, <2>4, <3>1
  <2>5. ASSUME marker' = marker PROVE Started
    BY <2>1, <2>5
  <2> HIDE DEF Dated, Started
  <2>6. CASE ClockStep \/ UNCHANGED vars
    <3>1. UNCHANGED <<rev, session, marker, run, pc, op, lease>>
      BY <2>6 DEF ClockStep, KeepAuthority, KeepRuns, vars
    <3>2. pc \in HasRun => run[op].created <= wall'
      BY <1>1, <1>2, FlightOperation DEF TimeInv, HasRun, InFlight
    <3> QED BY <2>3, <2>5, <3>1, <3>2 DEF Dated, Started, TimeInv
  <2>7. CASE Forgotten \/ Abandoned \/ Dies \/ MarkerSaved
    <3>1. rev' = rev /\ marker' = marker /\ pc' \notin InFlight /\ pc' \notin HasRun
      BY <2>7 DEF Forgotten, Abandoned, Dies, MarkerSaved, SaveStep, KeepAuthority, KeepCall,
         InFlight, HasRun
    <3> QED BY <2>3, <2>5, <3>1 DEF Dated, Started, TimeInv
  <2>8. ASSUME NEW st \in Ended, Terminated(st) PROVE TimeInv'
    <3>1. /\ rev' = rev + 1 /\ session'[rev + 1].updated \in {wall, session[rev].updated}
          /\ marker' = marker /\ pc' \notin InFlight /\ pc' \notin HasRun
      BY <2>8 DEF Terminated, Appended, KeepCall, InFlight, HasRun
    <3>2. session'[rev + 1].updated <= wall
      BY <1>1, <3>1 DEF TimeInv
    <3> QED BY <2>4, <2>5, <3>1, <3>2 DEF Dated, Started, TimeInv
  <2>9. ASSUME NEW o \in Operations, Begun(o) PROVE TimeInv'
    <3>1. /\ rev' = rev + 1 /\ session'[rev + 1].updated \in {wall, session[rev].updated}
          /\ marker' = marker /\ pc' = "reserved" /\ lease'.start = wall
      BY <2>9 DEF Begun, Appended
    <3>2. session'[rev + 1].updated <= wall
      BY <1>1, <3>1 DEF TimeInv
    <3> QED BY <2>4, <2>5, <3>1, <3>2 DEF Dated, Started, TimeInv, HasRun
  <2>10. ASSUME NEW o \in Operations, BegunTooLate(o) PROVE TimeInv'
    <3>1. /\ rev' = rev + 2 /\ marker' = marker /\ pc' = "terminal"
          /\ session'[rev + 1].updated \in {wall, session[rev].updated}
          /\ session'[rev + 2].updated \in {wall, session[rev].updated}
      BY <2>10 DEF BegunTooLate
    <3>2. session'[rev + 1].updated <= wall' /\ session'[rev + 2].updated <= wall'
      BY <1>1, <3>1 DEF TimeInv
    <3>3. Dated
      BY <1>1, <2>2, <3>1, <3>2 DEF Dated
    <3> QED BY <2>5, <3>1, <3>3 DEF Dated, Started, TimeInv, InFlight, HasRun
  <2>11. CASE Launched
    <3>1. pc' = "running" /\ pc = "launch" /\ UNCHANGED <<rev, session, marker, lease>>
      BY <2>11 DEF Launched, RunChanges, KeepAuthority
    <3> QED BY <2>3, <2>5, <3>1 DEF Dated, Started, TimeInv, InFlight, HasRun
  <2>12. CASE WorkloadOver
    <3>1. /\ pc' = "evidence" /\ pc = "running"
          /\ UNCHANGED <<rev, session, marker, lease, op, wall>>
          /\ run'[op].created = wall
      BY <2>12 DEF WorkloadOver, RunChanges, KeepAuthority, KeepClocks
    <3> QED BY <1>1, <2>3, <2>5, <3>1 DEF Dated, Started, TimeInv, InFlight
  <2>13. CASE Completed
    <3>1. /\ pc = "finish" /\ op \in Operations /\ run[op].base = rev
          /\ run[op].created <= wall /\ session[rev].updated <= lease.start
      BY <2>13, FlightOperation DEF Completed, CallInv, TimeInv, InFlight, HasRun
    <3>2. /\ rev' = rev + 1 /\ pc' = "settled" /\ run' = run
          /\ session'[rev + 1].updated \in {wall, session[rev].updated, run[op].created}
          /\ session'[rev] = session[rev] /\ lease.start <= run[op].started
          /\ \A o \in Operations \ {op} : marker'[o] = marker[o]
      BY <1>1, <2>13 DEF Completed, Marked, Appended
    <3>3. session'[rev + 1].updated <= wall
      BY <1>1, <3>1, <3>2 DEF TimeInv
    <3>4. session'[run'[op].base].updated <= run'[op].started
      BY <1>1, <1>2, <3>1, <3>2
    <3>5. Started
      BY <2>1, <3>2, <3>4 DEF Started
    <3> QED BY <2>4, <3>2, <3>3, <3>5 DEF Dated, Started, TimeInv, InFlight, HasRun
  <2>14. CASE RunFailed
    <3>1. /\ rev' = rev + 1 /\ pc' = "settled" /\ marker'[op].outcome = "failed"
          /\ session'[rev + 1].updated \in {wall, session[rev].updated}
          /\ \A o \in Operations \ {op} : marker'[o] = marker[o]
      BY <2>14 DEF RunFailed, Marked, Appended
    <3>2. session'[rev + 1].updated <= wall
      BY <1>1, <3>1 DEF TimeInv
    <3>3. Started
      BY <2>1, <3>1 DEF Started
    <3> QED BY <2>4, <3>1, <3>2, <3>3 DEF Dated, Started, TimeInv, InFlight, HasRun
  <2>15. ASSUME NEW step \in {"authorized", "terminal", "reserved", "settled"}, RevisionSaved(step)
         PROVE  TimeInv'
    <3>1. /\ UNCHANGED <<rev, session, marker, lease>> /\ pc' \notin HasRun
          /\ pc' \in InFlight => pc \in InFlight
      BY <2>15 DEF RevisionSaved, SaveStep, KeepAuthority, InFlight, HasRun
    <3> QED BY <2>3, <2>5, <3>1 DEF Dated, Started, TimeInv
  <2>16. ASSUME NEW step \in {"evidence", "analysis", "verification", "run"}, ArtifactSaved(step)
         PROVE  TimeInv'
    <3>1. /\ UNCHANGED <<rev, session, marker, lease, run, op, wall>>
          /\ pc \in HasRun /\ pc \in InFlight
      BY <2>16 DEF ArtifactSaved, SaveStep, KeepAuthority, KeepClocks, InFlight, HasRun
    <3> QED BY <2>3, <2>5, <3>1 DEF Dated, Started, TimeInv
  <2> QED BY <1>3, <2>6, <2>7, <2>8, <2>9, <2>10, <2>11, <2>12, <2>13, <2>14, <2>15, <2>16
          DEF Elementary
<1> QED BY <1>3, <1>4, StepKeeps

----------------------------------------------------------------------------
(* The theorems.                                                           *)

LEMMA InitInvariant ==
  ASSUME Parameters, Init
  PROVE  SettlementInv /\ TimeInv
<1> USE ParameterTypes DEF Init
<1>1. TypeOK
  BY NoLeaseType
     DEF TypeOK, Session, NoSession, Instants, NoRun, Run, NoMarker, Marker, Files, Steps
<1>2. /\ rev = 0 /\ session[0] = NoSession /\ NoSession.st = "none" /\ NoSession.runs = 0
      /\ NoSession.updated = 0 /\ \A o \in Operations : marker[o].outcome = "none"
  BY DEF NoSession, NoMarker
<1>3. RevInv /\ FreshInv /\ CallInv /\ UsedInv /\ ChainInv
  BY <1>2 DEF RevInv, FreshInv, CallInv, UsedInv, ChainInv, InFlight, HasRun, Settling
<1>4. FilesInv /\ ReturnedInv
  BY <1>2 DEF FilesInv, ReturnedInv, Active, InFlight, HasRun, Settling
<1>5. TimeInv
  BY <1>2 DEF TimeInv, InFlight, HasRun
<1> QED BY <1>1, <1>3, <1>4, <1>5 DEF SettlementInv

LEMMA StepInvariant ==
  ASSUME Parameters, SettlementInv, [Next]_vars
  PROVE  SettlementInv' /\ (TimeInv /\ wall' >= wall => TimeInv')
<1>1. Elementary \/ UNCHANGED vars
  BY NextElementary DEF SettlementInv
<1>2. TypeOK' /\ RevInv' /\ FreshInv' /\ CallInv' /\ UsedInv' /\ ChainInv'
  BY <1>1, NextType, NextRevisions, NextFresh, NextCall, NextUsed, NextChain DEF SettlementInv
<1>3. FilesInv' /\ ReturnedInv'
  BY <1>1, NextFiles, NextReturned DEF SettlementInv
<1>4. TimeInv /\ wall' >= wall => TimeInv'
  BY <1>1, <1>2, NextTime DEF SettlementInv
<1> QED BY <1>2, <1>3, <1>4 DEF SettlementInv

\* A returned Run loads, if it did not start before the revision that reserved it.
LEMMA DurableRunLoads ==
  ASSUME Parameters, SettlementInv, NEW o \in returned
  PROVE  RunLoads(linked, o) \/ run[o].started < session[run[o].base].updated
<1> USE DEF SettlementInv
<1> DEFINE f == marker[o].final
<1>1. /\ o \in Operations /\ o # "none" /\ marker[o].outcome = "completed" /\ o \in used
      /\ f \in 1..rev /\ session[f].settles = o /\ rev \in Nat /\ rev \in 0..MaxRev
  BY ParameterTypes DEF TypeOK, UsedInv
<1>2. session[0].st # "none"
  BY <1>1 DEF FreshInv
<1>3. Content(session, marker, run, expires.wall, f)
  BY <1>1, <1>2 DEF ChainInv
<1>4. Durable(session, marker, linked, f)
  BY DEF ReturnedInv, Durable, Present, TypeOK
<1> HIDE DEF f
<1>5. f \in Nat /\ f > 0 /\ f - 1 \in Nat /\ f \in 0..rev /\ f - 1 \in 0..rev
  BY <1>1
<1>6. Durable(session, marker, linked, f - 1)
  BY <1>4, <1>5 DEF Durable
<1>7. ChainLoads(linked, f) /\ ChainLoads(linked, f - 1)
  BY <1>2, <1>4, <1>5, <1>6, ChainsLoad
<1>8. Present(session, marker, linked, f)
  BY <1>4, <1>5 DEF Durable
<1>9. File("run", o, 0) \in linked /\ File("marker", o, 0) \in linked
  BY <1>1, <1>5, <1>8 DEF Present
<1>10. \A kind \in Evidence : File(kind, o, 0) \in linked
  BY DEF ReturnedInv, TypeOK
<1>11. /\ run[o].base = f - 1 /\ session[f - 1].st = "active" /\ run[o].created <= expires.wall
  BY <1>1, <1>3, <1>5 DEF Content
<1>12. run[o].started \in Nat /\ session[f - 1].updated \in Nat
  <2>1. f - 1 \in 0..MaxRev
    BY <1>1, <1>5, ParameterTypes
  <2> QED BY <1>1, <2>1 DEF TypeOK, Run, Session
<1> QED BY <1>1, <1>7, <1>9, <1>10, <1>11, <1>12 DEF RunLoads, f

\* The revisions that authorize a workload load from what is durable.
LEMMA LaunchesDurable ==
  ASSUME Parameters, SettlementInv
  PROVE  LaunchOnDurableChain
<1> SUFFICES ASSUME pc = "running" PROVE ChainLoads(synced, rev)
  BY DEF LaunchOnDurableChain
<1>1. rev \in 0..rev /\ session[0].st # "none"
  BY DEF SettlementInv, TypeOK, FreshInv
<1>2. Durable(session, marker, synced, rev)
  BY DEF SettlementInv, FilesInv, InFlight
<1> QED BY <1>1, <1>2, ChainsLoad DEF SettlementInv

\* A Run that loads was settled as completed.
LEMMA FailedRunsDoNotLoad ==
  FailedNeverLoads
<1> QED BY DEF FailedNeverLoads, RunLoads

\* The inductive invariant holds of every behaviour of the settlement store,
\* wherever its clocks are set.
THEOREM SettlementInvariant ==
  ASSUME Parameters
  PROVE  Spec => []SettlementInv
<1>1. Init => SettlementInv
  BY InitInvariant
<1>2. SettlementInv /\ [Next]_vars => SettlementInv'
  BY StepInvariant
<1> QED BY <1>1, <1>2, PTL DEF Spec

\* Every variable keeps its type: the revisions of a session stay within two for
\* every run and one that ends it.
THEOREM TypeCorrect ==
  ASSUME Parameters
  PROVE  Spec => []TypeOK
<1>1. SettlementInv => TypeOK
  BY DEF SettlementInv
<1> QED BY <1>1, SettlementInvariant, PTL

\* The workload of _persist_runtime_lock_settlement's caller is launched only after the
\* whole chain of revisions that authorizes it is durable and loads, whatever saves
\* failed, processes died or clocks were set before.
THEOREM LaunchesAreDurable ==
  ASSUME Parameters
  PROVE  Spec => []LaunchOnDurableChain
<1>1. SettlementInv => LaunchOnDurableChain
  BY LaunchesDurable
<1> QED BY <1>1, SettlementInvariant, PTL

\* With the wall clock set at will one thing alone can keep a returned Run from
\* loading: it is dated before the revision that reserved it.
THEOREM ReturnedLoadUnlessSetBack ==
  ASSUME Parameters
  PROVE  Spec => [](\A o \in returned :
                       RunLoads(linked, o) \/ run[o].started < session[run[o].base].updated)
<1>1. SettlementInv => \A o \in returned :
                          RunLoads(linked, o) \/ run[o].started < session[run[o].base].updated
  BY DurableRunLoads
<1> QED BY <1>1, SettlementInvariant, PTL

\* While the wall clock is not set back a settlement is sound: a returned Run loads ever
\* after, through later revisions, failed saves, a crash and a loss of power; what
\* authorizes a workload is durable before it starts; a failed run never loads.
THEOREM SettlementsAreSound ==
  ASSUME Parameters
  PROVE  Spec /\ [][wall' >= wall]_vars => []SettlementSound
<1>1. Init => SettlementInv /\ TimeInv
  BY InitInvariant
<1>2. SettlementInv /\ TimeInv /\ [Next]_vars /\ [wall' >= wall]_vars
        => SettlementInv' /\ TimeInv'
  <2> SUFFICES ASSUME SettlementInv, TimeInv, [Next]_vars, [wall' >= wall]_vars
               PROVE  SettlementInv' /\ TimeInv'
    OBVIOUS
  <2>1. wall' >= wall
    BY DEF SettlementInv, TypeOK, vars
  <2> QED BY <2>1, StepInvariant
<1>3. SettlementInv /\ TimeInv => SettlementSound
  <2> SUFFICES ASSUME SettlementInv, TimeInv PROVE ReturnedRunLoads
    BY LaunchesDurable, FailedRunsDoNotLoad DEF SettlementSound
  <2> SUFFICES ASSUME NEW o \in returned PROVE RunLoads(linked, o)
    BY DEF ReturnedRunLoads
  <2>1. /\ o \in Operations /\ marker[o].outcome = "completed"
        /\ marker[o].final \in 1..rev /\ session[marker[o].final].settles = o /\ o \in used
    BY DEF SettlementInv, TypeOK, UsedInv
  <2>2. session[run[o].base].updated <= run[o].started
    BY <2>1 DEF TimeInv
  <2>3. run[o].base \in 0..rev
    <3>1. session[0].st # "none"
      BY <2>1 DEF SettlementInv, FreshInv
    <3>2. Content(session, marker, run, expires.wall, marker[o].final) /\ rev \in Nat
      BY <2>1, <3>1 DEF SettlementInv, ChainInv, TypeOK
    <3> QED BY <2>1, <3>2, ParameterTypes DEF Content
  <2>4. run[o].started \in Nat /\ session[run[o].base].updated \in Nat
    BY <2>1, <2>3, ParameterTypes DEF SettlementInv, TypeOK, Run, Session
  <2>5. ~ run[o].started < session[run[o].base].updated
    BY <2>2, <2>4
  <2> QED BY <2>5, DurableRunLoads
<1> QED BY <1>1, <1>2, <1>3, PTL DEF Spec

----------------------------------------------------------------------------
(* The private evidence of the Runtime Lock adapters (PrivateEvidence).    *)

CallSteps == {"idle", "launcher", "inventory", "target", "snapshot", "create",
              "execute", "recheck", "undo", "render", "returned", "launchfailed",
              "convert", "drop", "failed", "discard", "publish"}
\* Nothing of the launch is on disk yet.
Before == {"launcher", "inventory", "target", "snapshot"}
OfJava == {"inventory", "render", "launchfailed"}
FileNames == {"stream", "profile", "mutex", "block", "dir", "recording", "json",
              "raw", "kept"}
CallRecord == [step : CallSteps, adapter : E!Adapters, run : Runs \cup {0}, made : Nat,
               snap : {"none", "authorized", "edited", "other"},
               exit : {"none", "success", "failure", "timeout", "lost"}]
DiskEntry == [proc : Procs, adapter : E!Adapters, run : Runs, file : FileNames,
              bytes : {0, 1}]

\* The instance's cardinality is the one the library's theorems are about.
LEMMA SameCardinality == \A S : E!Cardinality(S) = Cardinality(S)
BY DEF E!Cardinality, Cardinality

LEMMA FilesCreated ==
    ASSUME NEW a \in E!Adapters
    PROVE  /\ Len(E!Files(a)) \in Nat /\ Len(E!Files(a)) >= 1
           /\ \A k \in 1..Len(E!Files(a)) : E!Files(a)[k] \in FileNames \ {"kept"}
BY DEF E!Files, E!Adapters, FileNames

EvidenceType ==
    /\ e_content \in {"authorized", "edited"} /\ e_owner \in {"authorized", "other"}
    /\ e_disk \subseteq DiskEntry /\ IsFiniteSet(e_disk)
    /\ e_lease \in Procs \cup {0}
    /\ e_up \in [Procs -> {"new", "up", "down", "crashed"}]
    /\ e_launcher \in [Procs -> SUBSET E!Adapters]
    /\ e_retained \in [Procs -> SUBSET Runs]
    /\ e_call \in [Procs -> CallRecord]
    /\ e_used \subseteq Runs /\ e_faults \in Nat

\* Tokens tell launches apart: a call has a token of its own, and a file with
\* that token is a file of the call.
TokenInv ==
    /\ \A p \in Procs :
        /\ e_call[p].step = "idle" <=> e_call[p].run = 0
        /\ e_up[p] # "up" => e_call[p].run = 0
        /\ e_call[p].run \in e_used \cup {0}
        /\ e_call[p].step \in Before => e_call[p].made = 0
        /\ e_call[p].step = "create" => e_call[p].made < Len(E!Files(e_call[p].adapter))
        /\ e_call[p].step \in OfJava => e_call[p].adapter = "java"
        /\ e_up[p] = "new" => e_retained[p] = {} /\ e_launcher[p] = {}
        /\ e_retained[p] \subseteq e_used
        /\ e_call[p].run \in e_retained[p] => e_call[p].adapter = "java"
    /\ \A p, q \in Procs : p # q /\ e_call[p].run # 0 =>
        e_call[p].run # e_call[q].run /\ e_call[p].run \notin e_retained[q]
    /\ \A e \in e_disk : e.run \in e_used /\ e_up[e.proc] # "new"

\* The files on disk and the calls they belong to.
FileInv ==
    /\ \A e \in e_disk, p \in Procs : e.run = e_call[p].run =>
        /\ e.proc = p /\ e.adapter = e_call[p].adapter /\ e.file # "kept"
        /\ e_call[p].step \notin Before \cup {"publish"}
    /\ \A e \in e_disk, p \in Procs : e.run \in e_retained[p] /\ e.proc # p =>
        e_up[e.proc] # "up"
    /\ \A e, f \in e_disk : e.run = f.run => e.proc = f.proc /\ e.adapter = f.adapter

\* Only the holder of the lease has a Java launcher and Java files of its own,
\* and it remembers what all others left.
LeaseInv ==
    /\ \A p \in Procs : e_up[p] = "up" /\ ("java" \in e_launcher[p] \/ e_call[p].step = "inventory")
        => e_lease = p
    /\ \A p \in Procs : e_call[p].adapter = "java" /\ e_call[p].step \notin {"idle", "launcher", "inventory"}
        => "java" \in e_launcher[p]
    /\ \A p \in Procs : e_call[p].adapter = "java" /\ e_call[p].step \in {"launcher", "inventory"}
        => "java" \notin e_launcher[p]
    /\ \A e \in e_disk : e.adapter = "java" /\ e_up[e.proc] = "up" => "java" \in e_launcher[e.proc]
    /\ \A e \in e_disk, p \in Procs :
        e_up[p] = "up" /\ "java" \in e_launcher[p] /\ e.adapter = "java" /\ e.proc # p
        => e.run \in e_retained[p]

EvidenceInv == EvidenceType /\ TokenInv /\ FileInv /\ LeaseInv

LEMMA InitEvidence == E!Init => EvidenceInv
BY EvidenceAssumption, FS_EmptySet
   DEF E!Init, EvidenceInv, EvidenceType, TokenInv, FileInv, LeaseInv, E!Idle, CallRecord,
       CallSteps, E!Adapters, Before, OfJava

\* What a step of a call leaves alone, whatever it does for its own launch.
CallStep(p) ==
    /\ e_up[p] = "up" /\ e_call[p].step # "idle"
    /\ UNCHANGED <<e_up, e_used>>
    /\ e_call' \in [Procs -> CallRecord] /\ \A q \in Procs \ {p} : e_call'[q] = e_call[q]
    /\ \/ e_call'[p] = E!Idle
       \/ /\ e_call'[p].adapter = e_call[p].adapter /\ e_call'[p].run = e_call[p].run
          /\ e_call'[p].step # "idle"
          /\ e_call'[p].step \in Before => e_call[p].step \in Before /\ e_call'[p].made = e_call[p].made
          /\ e_call'[p].step = "create" => e_call'[p].made < Len(E!Files(e_call[p].adapter))
          /\ e_call'[p].step \in OfJava => e_call[p].adapter = "java"
    /\ e_call[p].step \in Before => UNCHANGED e_disk
    /\ e_disk' \subseteq DiskEntry /\ IsFiniteSet(e_disk')
    /\ \A e \in e_disk' : e.run # e_call[p].run => e \in e_disk
    /\ \A e \in e_disk : e.run # e_call[p].run => e \in e_disk'
    /\ \A e \in e_disk' : e.run = e_call[p].run =>
        /\ e.proc = p /\ e.adapter = e_call[p].adapter
        /\ e_call'[p] # E!Idle => e.file # "kept" /\ e_call'[p].step \notin Before \cup {"publish"}
    /\ e_faults' \in {e_faults, e_faults + 1}
    /\ e_call'[p] = E!Idle /\ e_faults' = e_faults =>
        \A e \in e_disk' : e.run = e_call[p].run => e.file = "kept" \/ e.run \in e_retained'[p]

\* What it leaves alone unless it takes the inventory.
Memory(p) ==
    /\ e_retained' \in [Procs -> SUBSET Runs] /\ \A q \in Procs \ {p} : e_retained'[q] = e_retained[q]
    /\ e_retained[p] \subseteq e_retained'[p] \cup {e_call[p].run}
    /\ e_retained'[p] \subseteq e_retained[p] \cup {e_call[p].run}
    /\ e_call[p].run \in e_retained'[p] =>
          e_call[p].run \in e_retained[p] \/ e_call[p].adapter = "java" \/ e_call'[p] = E!Idle
    /\ e_call[p].run \in e_retained[p] \ e_retained'[p] =>
          \A e \in e_disk' : e.run # e_call[p].run
    /\ e_launcher' \in [Procs -> SUBSET E!Adapters] /\ \A q \in Procs \ {p} : e_launcher'[q] = e_launcher[q]
    /\ e_launcher[p] \subseteq e_launcher'[p]
    /\ "java" \in e_launcher'[p] => "java" \in e_launcher[p]
    /\ e_lease' = e_lease \/ (e_lease = 0 /\ e_lease' = p)
    /\ e_call'[p] # E!Idle /\ e_call'[p].step = "inventory" => e_lease' = p /\ e_call[p].step = "launcher"
    /\ e_call'[p].step # "launcher"
    /\ e_call'[p] # E!Idle /\ e_call[p].adapter = "java" /\ e_call'[p].step \notin {"launcher", "inventory"}
        => "java" \in e_launcher[p]

\* A call that goes on with what it has read, or with how its command ended.
Reads(p, s, n) == e_call' = [e_call EXCEPT ![p].step = s, ![p].snap = n]
Exits(p, s, x) ==
    \/ e_call' = [e_call EXCEPT ![p].step = s, ![p].exit = x]
    \/ e_call' = [e_call EXCEPT ![p].exit = x, ![p].step = s]

LEMMA ReadsCall ==
    ASSUME EvidenceType, NEW p \in Procs, NEW s \in CallSteps,
           NEW n \in {"none", "authorized", "edited", "other"}, Reads(p, s, n)
    PROVE  /\ e_call' \in [Procs -> CallRecord] /\ \A q \in Procs \ {p} : e_call'[q] = e_call[q]
           /\ e_call'[p].step = s /\ e_call'[p].adapter = e_call[p].adapter
           /\ e_call'[p].run = e_call[p].run /\ e_call'[p].made = e_call[p].made
BY DEF EvidenceType, CallRecord, Reads

LEMMA ExitsCall ==
    ASSUME EvidenceType, NEW p \in Procs, NEW s \in CallSteps,
           NEW x \in {"none", "success", "failure", "timeout", "lost"}, Exits(p, s, x)
    PROVE  /\ e_call' \in [Procs -> CallRecord] /\ \A q \in Procs \ {p} : e_call'[q] = e_call[q]
           /\ e_call'[p].step = s /\ e_call'[p].adapter = e_call[p].adapter
           /\ e_call'[p].run = e_call[p].run
BY DEF EvidenceType, CallRecord, Exits

LEMMA GoCall ==
    ASSUME EvidenceType, NEW p \in Procs, NEW s \in CallSteps, E!Go(p, s)
    PROVE  /\ e_call' \in [Procs -> CallRecord] /\ \A q \in Procs \ {p} : e_call'[q] = e_call[q]
           /\ e_call'[p].step = s /\ e_call'[p].adapter = e_call[p].adapter
           /\ e_call'[p].run = e_call[p].run /\ e_call'[p].made = e_call[p].made
           /\ e_call'[p].snap = e_call[p].snap
BY DEF EvidenceType, CallRecord, E!Go

LEMMA IdleCall == E!Idle \in CallRecord /\ E!Idle.run = 0 /\ E!Idle.step = "idle"
                  /\ E!Idle.adapter = "native" /\ E!Idle.made = 0 /\ E!Idle.snap = "none"
BY DEF E!Idle, CallRecord, CallSteps, E!Adapters

LEMMA EndedCall ==
    ASSUME EvidenceType, NEW p \in Procs, E!EndCall(p)
    PROVE  /\ e_call' \in [Procs -> CallRecord] /\ \A q \in Procs \ {p} : e_call'[q] = e_call[q]
           /\ e_call'[p] = E!Idle
BY IdleCall DEF EvidenceType, E!EndCall

\* Removing the files of a launch, or failing to.
LEMMA RemovedFiles ==
    ASSUME EvidenceType, NEW p \in Procs, E!Remove(p)
    PROVE  /\ e_disk' \subseteq DiskEntry /\ IsFiniteSet(e_disk')
           /\ \A e \in e_disk' : e \in e_disk
           /\ \A e \in e_disk : e.run # e_call[p].run => e \in e_disk'
           /\ \/ e_faults' = e_faults /\ \A e \in e_disk' : e.run # e_call[p].run
              \/ e_faults' = e_faults + 1 /\ e_disk' = e_disk
<1>1. e_disk' \subseteq e_disk
  BY DEF E!Remove, E!Of
<1>2. IsFiniteSet(e_disk')
  BY <1>1, FS_Subset DEF EvidenceType
<1> QED BY <1>1, <1>2 DEF E!Remove, E!Of, E!Run, E!NoFault, E!Fault, EvidenceType

\* A step that leaves the files alone.
LEMMA SameFiles ==
    ASSUME EvidenceInv, NEW p \in Procs, e_up[p] = "up", e_call[p].step # "idle",
           UNCHANGED <<e_up, e_used, e_disk, e_faults>>,
           e_call' \in [Procs -> CallRecord], \A q \in Procs \ {p} : e_call'[q] = e_call[q],
           \/ /\ e_call'[p] = E!Idle
              /\ \/ e_call[p].step \in Before \cup {"publish"}
                 \/ \A e \in e_disk : e.run = e_call[p].run =>
                       e.file = "kept" \/ e.run \in e_retained'[p]
           \/ /\ e_call'[p].adapter = e_call[p].adapter /\ e_call'[p].run = e_call[p].run
              /\ e_call'[p].step # "idle"
              /\ e_call'[p].step \in Before => e_call[p].step \in Before /\ e_call'[p].made = e_call[p].made
              /\ e_call'[p].step = "create" => e_call'[p].made < Len(E!Files(e_call[p].adapter))
              /\ e_call'[p].step \in OfJava => e_call[p].adapter = "java"
              /\ e_call'[p].step # "publish"
    PROVE  CallStep(p)
<1>1. /\ e_call[p].step \in Before \cup {"publish"} => \A e \in e_disk : e.run # e_call[p].run
      /\ \A e \in e_disk : e.run = e_call[p].run =>
            e.proc = p /\ e.adapter = e_call[p].adapter /\ e.file # "kept"
  BY DEF EvidenceInv, FileInv
<1>2. CASE e_call'[p] = E!Idle
  BY <1>1, <1>2, IdleCall DEF CallStep, EvidenceInv, EvidenceType
<1>3. CASE e_call'[p] # E!Idle
  BY <1>1, <1>3 DEF CallStep, EvidenceInv, EvidenceType
<1> QED BY <1>2, <1>3

\* A step that changes neither what is remembered nor the launchers.
LEMMA SameMemory ==
    ASSUME EvidenceInv, NEW p \in Procs, e_up[p] = "up", e_call[p].step # "idle",
           UNCHANGED <<e_retained, e_launcher, e_lease>>,
           \/ e_call'[p] = E!Idle
           \/ {e_call[p].step, e_call'[p].step} \cap {"launcher", "inventory"} = {}
    PROVE  Memory(p)
BY IdleCall DEF Memory, EvidenceInv, EvidenceType, LeaseInv

LEMMA PreparingSteps ==
    ASSUME EvidenceInv, NEW p \in Procs, E!Preparing(p)
    PROVE  CallStep(p) /\ (e_call[p].step # "inventory" => Memory(p))
<1> USE DEF E!At, E!Adapter, E!Run, OfJava
<1>0. EvidenceType /\ (e_call[p].step \in OfJava => e_call[p].adapter = "java")
  BY DEF EvidenceInv, TokenInv
<1>1. CASE E!GetNativeLauncher(p) \/ E!GetCpythonLauncher(p) \/ E!GetGoLauncher(p)
  <2>1. E!GetLauncher(p) /\ e_call[p].adapter # "java" /\ E!RootOf(e_call[p].adapter) \in E!Adapters \ {"java"}
    BY <1>0, <1>1 DEF E!GetNativeLauncher, E!GetCpythonLauncher, E!GetGoLauncher, E!RootOf, E!Adapters,
       EvidenceType, CallRecord
  <2>2. /\ e_call[p].step = "launcher" /\ e_up[p] = "up"
        /\ UNCHANGED <<e_up, e_used, e_disk, e_faults, e_retained, e_lease>>
    BY <2>1 DEF E!GetLauncher
  <2>3. CASE E!Go(p, "target") /\ e_launcher' = [e_launcher EXCEPT ![p] = @ \cup {E!RootOf(e_call[p].adapter)}]
    <3>1. /\ e_call' \in [Procs -> CallRecord] /\ \A q \in Procs \ {p} : e_call'[q] = e_call[q]
          /\ e_call'[p].step = "target" /\ e_call'[p].adapter = e_call[p].adapter
          /\ e_call'[p].run = e_call[p].run /\ e_call'[p].made = e_call[p].made
      BY <1>0, <2>3, GoCall DEF CallSteps
    <3>2. CallStep(p)
      BY <2>2, <3>1, SameFiles DEF Before
    <3>3. Memory(p)
      BY <1>0, <2>1, <2>2, <2>3, <3>1 DEF Memory, EvidenceType
    <3> QED BY <3>2, <3>3
  <2>4. CASE E!EndCall(p) /\ UNCHANGED e_launcher
    <3>1. CallStep(p)
      BY <1>0, <2>2, <2>4, EndedCall, SameFiles DEF Before
    <3>2. Memory(p)
      BY <1>0, <2>2, <2>4, EndedCall, SameMemory
    <3> QED BY <3>1, <3>2
  <2> QED BY <2>1, <2>3, <2>4 DEF E!GetLauncher
<1>2. CASE E!AcquireLease(p)
  <2>1. /\ e_call[p].step = "launcher" /\ e_up[p] = "up" /\ e_call[p].adapter = "java"
        /\ UNCHANGED <<e_up, e_used, e_disk, e_faults, e_retained, e_launcher>>
    BY <1>2 DEF E!AcquireLease
  <2>2. CASE e_lease = 0 /\ e_lease' = p /\ E!Go(p, "inventory")
    <3>1. /\ e_call' \in [Procs -> CallRecord] /\ \A q \in Procs \ {p} : e_call'[q] = e_call[q]
          /\ e_call'[p].step = "inventory" /\ e_call'[p].adapter = e_call[p].adapter
          /\ e_call'[p].run = e_call[p].run /\ e_call'[p].made = e_call[p].made
      BY <1>0, <2>2, GoCall DEF CallSteps
    <3>2. CallStep(p)
      BY <2>1, <3>1, SameFiles DEF Before
    <3>3. Memory(p)
      BY <1>0, <2>1, <2>2, <3>1 DEF Memory, EvidenceType
    <3> QED BY <3>2, <3>3
  <2>3. CASE E!EndCall(p) /\ UNCHANGED e_lease
    <3>1. CallStep(p)
      BY <1>0, <2>1, <2>3, EndedCall, SameFiles DEF Before
    <3>2. Memory(p)
      BY <1>0, <2>1, <2>3, EndedCall, SameMemory
    <3> QED BY <3>1, <3>2
  <2> QED BY <1>2, <2>2, <2>3 DEF E!AcquireLease
<1>3. CASE E!Inventory(p)
  <2>1. /\ e_call[p].step = "inventory" /\ e_up[p] = "up"
        /\ UNCHANGED <<e_up, e_used, e_disk, e_faults>>
    BY <1>3 DEF E!Inventory
  <2>2. CASE E!Go(p, "target")
    BY <1>0, <2>1, <2>2, GoCall, SameFiles DEF Before, CallSteps
  <2>3. CASE E!EndCall(p)
    BY <1>0, <2>1, <2>3, EndedCall, SameFiles DEF Before
  <2> QED BY <1>3, <2>1, <2>2, <2>3 DEF E!Inventory
<1>4. CASE \/ E!InspectNativeTarget(p) \/ E!InspectCpythonTarget(p) \/ E!InspectGoTarget(p)
           \/ E!InspectExecutableJar(p) \/ E!InspectLoopbackTarget(p)
  <2>1. /\ e_call[p].step = "target" /\ e_up[p] = "up"
        /\ UNCHANGED <<e_up, e_used, e_disk, e_faults, e_retained, e_launcher, e_lease>>
        /\ E!Go(p, "snapshot") \/ E!Go(p, "create") \/ E!EndCall(p)
    BY <1>4 DEF E!InspectNativeTarget, E!InspectCpythonTarget, E!InspectGoTarget,
       E!InspectExecutableJar, E!InspectLoopbackTarget, E!InspectTarget, E!Machine
  <2>2. e_call[p].made = 0 /\ 0 < Len(E!Files(e_call[p].adapter))
    BY <1>0, <2>1, FilesCreated DEF EvidenceInv, EvidenceType, CallRecord, TokenInv, Before
  <2>3. CASE E!Go(p, "snapshot") \/ E!Go(p, "create")
    <3>1. PICK s \in {"snapshot", "create"} : E!Go(p, s)
      BY <2>3
    <3>2. /\ e_call' \in [Procs -> CallRecord] /\ \A q \in Procs \ {p} : e_call'[q] = e_call[q]
          /\ e_call'[p].step = s /\ e_call'[p].adapter = e_call[p].adapter
          /\ e_call'[p].run = e_call[p].run /\ e_call'[p].made = e_call[p].made
      BY <1>0, <3>1, GoCall DEF CallSteps
    <3>3. CallStep(p)
      BY <2>1, <2>2, <3>2, SameFiles DEF Before
    <3>4. Memory(p)
      BY <2>1, <3>2, SameMemory
    <3> QED BY <3>3, <3>4
  <2>4. CASE E!EndCall(p)
    <3>1. CallStep(p)
      BY <1>0, <2>1, <2>4, EndedCall, SameFiles DEF Before
    <3>2. Memory(p)
      BY <1>0, <2>1, <2>4, EndedCall, SameMemory
    <3> QED BY <3>1, <3>2
  <2> QED BY <2>1, <2>3, <2>4
<1>5. CASE E!NativeSnapshot(p) \/ E!CpythonSnapshot(p) \/ E!GoSnapshot(p) \/ E!JarSnapshot(p)
  <2>1. E!SealedSnapshot(p)
    BY <1>5 DEF E!NativeSnapshot, E!CpythonSnapshot, E!GoSnapshot, E!JarSnapshot
  <2>2. /\ e_call[p].step = "snapshot" /\ e_up[p] = "up"
        /\ UNCHANGED <<e_up, e_used, e_disk, e_faults, e_retained, e_launcher, e_lease>>
    BY <2>1 DEF E!SealedSnapshot, E!Machine
  <2>3. e_call[p].made = 0 /\ 0 < Len(E!Files(e_call[p].adapter))
    BY <1>0, <2>2, FilesCreated DEF EvidenceInv, EvidenceType, CallRecord, TokenInv, Before
  <2>4. CASE e_call' = [e_call EXCEPT ![p].step = "create", ![p].snap = e_content]
    <3>1. /\ e_call' \in [Procs -> CallRecord] /\ \A q \in Procs \ {p} : e_call'[q] = e_call[q]
          /\ e_call'[p].step = "create" /\ e_call'[p].adapter = e_call[p].adapter
          /\ e_call'[p].run = e_call[p].run /\ e_call'[p].made = e_call[p].made
      <4>1. e_content \in {"authorized", "edited"} /\ "create" \in CallSteps /\ Reads(p, "create", e_content)
        BY <1>0, <2>4 DEF EvidenceType, CallSteps, Reads
      <4> QED BY <1>0, <4>1, ReadsCall
    <3>2. CallStep(p)
      BY <2>2, <2>3, <3>1, SameFiles DEF Before
    <3>3. Memory(p)
      BY <2>2, <3>1, SameMemory
    <3> QED BY <3>2, <3>3
  <2>5. CASE E!EndCall(p)
    <3>1. CallStep(p)
      BY <1>0, <2>2, <2>5, EndedCall, SameFiles DEF Before
    <3>2. Memory(p)
      BY <1>0, <2>2, <2>5, EndedCall, SameMemory
    <3> QED BY <3>1, <3>2
  <2> QED BY <2>1, <2>4, <2>5 DEF E!SealedSnapshot
<1>6. CASE E!CreatePrivate(p)
  <2> DEFINE k == e_call[p].made + 1
             a == e_call[p].adapter
             f == E!Entry(p, a, e_call[p].run, E!Files(a)[k], 0)
  <2>1. /\ e_call[p].step = "create" /\ e_up[p] = "up"
        /\ UNCHANGED <<e_up, e_used, e_faults, e_retained, e_launcher, e_lease>>
        /\ e_disk' = e_disk \cup {f}
        /\ e_call' = [e_call EXCEPT ![p].made = k,
                      ![p].step = IF k = Len(E!Files(a)) THEN "execute" ELSE @]
    BY <1>6 DEF E!CreatePrivate, E!Machine
  <2>2. k \in 1..Len(E!Files(a)) /\ a \in E!Adapters /\ e_call[p].run \in Runs /\ k \in Nat
        /\ Len(E!Files(a)) \in Nat
    BY <1>0, <2>1, FilesCreated DEF EvidenceInv, EvidenceType, CallRecord, TokenInv
  <2>3. f \in DiskEntry /\ f.file # "kept" /\ f.proc = p /\ f.adapter = a /\ f.run = e_call[p].run
    BY <2>2, FilesCreated DEF DiskEntry, E!Entry
  <2>4. /\ e_call' \in [Procs -> CallRecord] /\ \A q \in Procs \ {p} : e_call'[q] = e_call[q]
        /\ e_call'[p].step = IF k = Len(E!Files(a)) THEN "execute" ELSE "create"
        /\ e_call'[p].made = k
        /\ e_call'[p].adapter = a /\ e_call'[p].run = e_call[p].run
    <3>1. e_call \in [Procs -> CallRecord]
      BY <1>0 DEF EvidenceType
    <3>2. e_call' = [e_call EXCEPT ![p] = [e_call[p] EXCEPT !.made = k,
                      !.step = IF k = Len(E!Files(a)) THEN "execute" ELSE "create"]]
      BY <2>1, <3>1 DEF CallRecord
    <3>3. a = e_call[p].adapter
      OBVIOUS
    <3> HIDE DEF k, a
    <3>4. PICK s \in {"execute", "create"} : s = IF k = Len(E!Files(a)) THEN "execute" ELSE "create"
      OBVIOUS
    <3>5. e_call' = [e_call EXCEPT ![p] = [e_call[p] EXCEPT !.made = k, !.step = s]]
      BY <3>2, <3>4
    <3>6. /\ e_call' \in [Procs -> CallRecord] /\ \A q \in Procs \ {p} : e_call'[q] = e_call[q]
          /\ e_call'[p].step = s /\ e_call'[p].made = k
          /\ e_call'[p].adapter = e_call[p].adapter /\ e_call'[p].run = e_call[p].run
      BY <2>2, <3>1, <3>5 DEF CallRecord, CallSteps
    <3> QED BY <3>3, <3>4, <3>6
  <2>5. e_disk' \subseteq DiskEntry /\ IsFiniteSet(e_disk')
    BY <1>0, <2>1, <2>3, FS_AddElement DEF EvidenceType
  <2> HIDE DEF k, a, f
  <2>6. CallStep(p)
    <3>1. \A e \in e_disk' : e.run = e_call[p].run => e.proc = p /\ e.adapter = e_call[p].adapter /\ e.file # "kept"
      BY <2>1, <2>3 DEF EvidenceInv, FileInv, a
    <3>2. e_call'[p] # E!Idle
      BY <2>4, IdleCall
    <3>3. e_call'[p].step = "create" => e_call'[p].made < Len(E!Files(a))
      BY <2>2, <2>4
    <3> QED BY <1>0, <2>1, <2>3, <2>4, <2>5, <3>1, <3>2, <3>3 DEF CallStep, a, Before, EvidenceType
  <2>7. Memory(p)
    BY <2>1, <2>4, SameMemory
  <2> QED BY <2>6, <2>7
<1>7. CASE E!CreateFails(p)
  <2>1. /\ e_call[p].step = "create" /\ e_up[p] = "up" /\ e_faults' = e_faults + 1
        /\ UNCHANGED <<e_up, e_used, e_retained, e_launcher, e_lease>>
        /\ E!EndCall(p) /\ e_disk' \subseteq e_disk /\ \A e \in e_disk : e.run # e_call[p].run => e \in e_disk'
    BY <1>7 DEF E!CreateFails, E!Machine, E!Fault, E!Of
  <2>2. IsFiniteSet(e_disk')
    BY <1>0, <2>1, FS_Subset DEF EvidenceType
  <2>3. CallStep(p)
    BY <1>0, <2>1, <2>2, EndedCall DEF CallStep, EvidenceType, EvidenceInv, FileInv, Before
  <2>4. Memory(p)
    BY <1>0, <2>1, EndedCall, SameMemory
  <2> QED BY <2>3, <2>4
<1> QED BY <1>1, <1>2, <1>3, <1>4, <1>5, <1>6, <1>7 DEF E!Preparing

LEMMA ImageIsFinite ==
    ASSUME NEW U, NEW V, IsFiniteSet(U), NEW f \in [U -> V],
           \A v \in V : \E u \in U : f[u] = v
    PROVE  IsFiniteSet(V) /\ Cardinality(V) <= Cardinality(U)
BY FS_Surjection DEF Surjection

\* Every step of launch that writes into the files it has made.
Written(p, n, names) ==
    {IF e.run = e_call[p].run /\ e.file \in names
     THEN [e EXCEPT !.bytes = n] ELSE e : e \in e_disk}

LEMMA WrittenFiles ==
    ASSUME EvidenceInv, NEW p \in Procs, NEW n \in {0, 1}, NEW names,
           e_disk' = Written(p, n, names)
    PROVE  /\ e_disk' \subseteq DiskEntry /\ IsFiniteSet(e_disk')
           /\ \A e \in e_disk' : e.run # e_call[p].run => e \in e_disk
           /\ \A e \in e_disk : e.run # e_call[p].run => e \in e_disk'
           /\ \A e \in e_disk' : e.run = e_call[p].run =>
                e.proc = p /\ e.adapter = e_call[p].adapter /\ e.file # "kept"
           /\ (\E e \in e_disk' : e.run = e_call[p].run) => \E e \in e_disk : e.run = e_call[p].run
<1> DEFINE W(e) == IF e.run = e_call[p].run /\ e.file \in names
                   THEN [e EXCEPT !.bytes = n] ELSE e
<1>1. e_disk \subseteq DiskEntry /\ IsFiniteSet(e_disk) /\ e_disk' = {W(e) : e \in e_disk}
  BY DEF EvidenceInv, EvidenceType, Written
<1>2. \A e \in e_disk : /\ W(e) \in DiskEntry /\ W(e).proc = e.proc
                      /\ W(e).adapter = e.adapter /\ W(e).run = e.run
                      /\ W(e).file = e.file /\ (e.run # e_call[p].run => W(e) = e)
  BY <1>1 DEF DiskEntry
<1> HIDE DEF W
<1> DEFINE w == [e \in e_disk |-> W(e)]
<1>3. w \in [e_disk -> e_disk'] /\ \A v \in e_disk' : \E u \in e_disk : w[u] = v
  BY <1>1
<1> HIDE DEF w
<1>4. IsFiniteSet(e_disk')
  BY <1>1, <1>3, ImageIsFinite, ZenonT(30)
<1>5. \A e \in e_disk : e.run = e_call[p].run =>
         e.proc = p /\ e.adapter = e_call[p].adapter /\ e.file # "kept"
  BY DEF EvidenceInv, FileInv
<1> QED BY <1>1, <1>2, <1>4, <1>5

LEMMA LaunchingSteps ==
    ASSUME EvidenceInv, NEW p \in Procs, E!Launching(p)
    PROVE  CallStep(p) /\ Memory(p) /\ e_call[p].step # "inventory"
<1> USE DEF E!At, E!Adapter, E!Run, OfJava
<1>0. EvidenceType /\ (e_call[p].step = "render" => e_call[p].adapter = "java")
  BY DEF EvidenceInv, TokenInv
<1>1. CASE E!ExecuteNative(p) \/ E!ExecuteCpython(p) \/ E!ExecuteGo(p) \/ E!ExecuteJava(p)
  <2>1. E!Execute(p)
    BY <1>1 DEF E!ExecuteNative, E!ExecuteCpython, E!ExecuteGo, E!ExecuteJava
  <2>2. /\ e_call[p].step = "execute" /\ e_up[p] = "up"
        /\ UNCHANGED <<e_up, e_used, e_faults, e_retained, e_launcher, e_lease>>
    BY <2>1 DEF E!Execute
  <2>3. PICK n \in {0, 1} :
           e_disk' = Written(p, n, FileNames \ {"dir", "json"})
    <3>1. PICK n \in {0, 1} :
           e_disk' = {IF e.run = e_call[p].run /\ e.file \notin {"dir", "json"}
                    THEN [e EXCEPT !.bytes = n] ELSE e : e \in e_disk}
      BY <2>1 DEF E!Execute
    <3>2. \A e \in e_disk : e.file \in FileNames
      BY <1>0 DEF EvidenceType, DiskEntry
    <3> QED BY <3>1, <3>2 DEF Written
  <2>4. PICK exit \in {"success", "failure", "timeout", "lost"},
             s \in {"undo", "render", "returned"} :
           /\ e_call' = [e_call EXCEPT ![p].exit = exit, ![p].step = s]
           /\ s = "render" => e_call[p].adapter = "java"
    BY <2>1 DEF E!Execute
  <2>5. /\ e_call' \in [Procs -> CallRecord] /\ \A q \in Procs \ {p} : e_call'[q] = e_call[q]
        /\ e_call'[p].step = s /\ e_call'[p].adapter = e_call[p].adapter /\ e_call'[p].run = e_call[p].run
    <3>1. s \in CallSteps /\ Exits(p, s, exit)
      BY <2>4 DEF CallSteps, Exits
    <3> QED BY <1>0, <3>1, ExitsCall
  <2>6. CallStep(p)
    <3>1. e_call'[p] # E!Idle
      BY <2>5, IdleCall
    <3>2. e_call'[p].step \in OfJava => e_call[p].adapter = "java"
      BY <2>4, <2>5
    <3> QED BY <2>2, <2>3, <2>5, <3>1, <3>2, WrittenFiles DEF CallStep, Before
  <2>7. Memory(p)
    BY <2>2, <2>5, SameMemory
  <2> QED BY <2>2, <2>6, <2>7
<1>2. CASE E!FetchLoopback(p)
  <2>1. /\ e_call[p].step = "execute" /\ e_up[p] = "up"
        /\ UNCHANGED <<e_up, e_used, e_faults, e_retained, e_launcher, e_lease>>
    BY <1>2 DEF E!FetchLoopback, E!Machine
  <2>2. e_disk' = Written(p, 1, FileNames)
    <3>1. e_disk' = {IF e.run = e_call[p].run THEN [e EXCEPT !.bytes = 1] ELSE e : e \in e_disk}
      BY <1>2 DEF E!FetchLoopback
    <3>2. \A e \in e_disk : e.file \in FileNames
      BY <1>0 DEF EvidenceType, DiskEntry
    <3> QED BY <3>1, <3>2 DEF Written
  <2>3. /\ e_call' \in [Procs -> CallRecord] /\ \A q \in Procs \ {p} : e_call'[q] = e_call[q]
        /\ e_call'[p].step \in {"recheck", "undo"} /\ e_call'[p].adapter = e_call[p].adapter
        /\ e_call'[p].run = e_call[p].run
    <3>2. CASE e_call' = [e_call EXCEPT ![p].step = "recheck", ![p].snap = e_owner]
      <4>1. e_owner \in {"authorized", "other"} /\ "recheck" \in CallSteps /\ Reads(p, "recheck", e_owner)
        BY <1>0, <3>2 DEF EvidenceType, CallSteps, Reads
      <4> QED BY <1>0, <4>1, ReadsCall
    <3>3. CASE E!Go(p, "undo")
      BY <1>0, <3>3, GoCall DEF CallSteps
    <3> QED BY <1>2, <3>2, <3>3 DEF E!FetchLoopback
  <2>4. CallStep(p)
    <3>1. e_call'[p] # E!Idle
      BY <2>3, IdleCall
    <3> QED BY <2>1, <2>2, <2>3, <3>1, WrittenFiles DEF CallStep, Before
  <2>5. Memory(p)
    BY <2>1, <2>3, SameMemory
  <2> QED BY <2>1, <2>4, <2>5
<1>3. CASE E!RecheckTarget(p)
  <2>1. /\ e_call[p].step = "recheck" /\ e_up[p] = "up"
        /\ UNCHANGED <<e_up, e_used, e_disk, e_faults, e_retained, e_launcher, e_lease>>
    BY <1>3 DEF E!RecheckTarget
  <2>2. /\ e_call' \in [Procs -> CallRecord] /\ \A q \in Procs \ {p} : e_call'[q] = e_call[q]
        /\ e_call'[p].step \in {"returned", "undo"} /\ e_call'[p].adapter = e_call[p].adapter
        /\ e_call'[p].run = e_call[p].run
    <3>2. ASSUME NEW exit \in {"success", "timeout"},
                 e_call' = [e_call EXCEPT ![p].step = "returned", ![p].exit = exit]
          PROVE  <2>2!1 /\ <2>2!2 /\ <2>2!3
      <4>1. "returned" \in CallSteps /\ Exits(p, "returned", exit)
        BY <3>2 DEF CallSteps, Exits
      <4> QED BY <1>0, <4>1, ExitsCall
    <3>3. CASE E!Go(p, "undo")
      BY <1>0, <3>3, GoCall DEF CallSteps
    <3> QED BY <1>3, <3>2, <3>3 DEF E!RecheckTarget
  <2>3. CallStep(p)
    BY <2>1, <2>2, SameFiles DEF Before
  <2>4. Memory(p)
    BY <2>1, <2>2, SameMemory
  <2> QED BY <2>1, <2>3, <2>4
<1>4. CASE E!RenderJson(p)
  <2>1. /\ e_call[p].step = "render" /\ e_up[p] = "up"
        /\ UNCHANGED <<e_up, e_used, e_faults, e_retained, e_launcher, e_lease>>
    BY <1>4 DEF E!RenderJson, E!Machine
  <2>2. CASE E!Go(p, "undo") /\ UNCHANGED e_disk
    <3>1. CallStep(p)
      BY <1>0, <2>1, <2>2, GoCall, SameFiles DEF Before, CallSteps
    <3>2. Memory(p)
      BY <1>0, <2>1, <2>2, GoCall, SameMemory DEF CallSteps
    <3> QED BY <2>1, <3>1, <3>2
  <2>3. ASSUME NEW n \in {0, 1}, NEW s \in {"returned", "launchfailed"}, E!Go(p, s),
               e_disk' = {IF e.run = e_call[p].run /\ e.file = "json"
                        THEN [e EXCEPT !.bytes = n] ELSE e : e \in e_disk}
        PROVE  CallStep(p) /\ Memory(p)
    <3>1. e_disk' = Written(p, n, {"json"})
      BY <2>3 DEF Written
    <3>2. /\ e_call' \in [Procs -> CallRecord] /\ \A q \in Procs \ {p} : e_call'[q] = e_call[q]
          /\ e_call'[p].step = s /\ e_call'[p].adapter = e_call[p].adapter
          /\ e_call'[p].run = e_call[p].run
      BY <1>0, <2>3, GoCall DEF CallSteps
    <3>3. CallStep(p)
      <4>1. e_call'[p] # E!Idle
        BY <3>2, IdleCall
      <4> QED BY <1>0, <2>1, <3>1, <3>2, <4>1, WrittenFiles DEF CallStep, Before
    <3>4. Memory(p)
      BY <2>1, <3>2, SameMemory
    <3> QED BY <3>3, <3>4
  <2> QED BY <1>4, <2>1, <2>2, <2>3 DEF E!RenderJson
<1>5. CASE E!UndoNative(p) \/ E!UndoCpython(p) \/ E!UndoGo(p) \/ E!UndoJava(p)
  <2>1. E!UndoLaunch(p)
    BY <1>5 DEF E!UndoNative, E!UndoCpython, E!UndoGo, E!UndoJava
  <2>2. /\ e_call[p].step = "undo" /\ e_up[p] = "up" /\ E!Remove(p) /\ E!EndCall(p)
        /\ UNCHANGED <<e_up, e_used, e_retained, e_launcher, e_lease>>
    BY <2>1 DEF E!UndoLaunch, E!Machine
  <2>3. CallStep(p)
    BY <1>0, <2>2, RemovedFiles, EndedCall DEF CallStep, EvidenceInv, EvidenceType, FileInv, Before
  <2>4. Memory(p)
    BY <1>0, <2>2, EndedCall, SameMemory
  <2> QED BY <2>2, <2>3, <2>4
<1> QED BY <1>1, <1>2, <1>3, <1>4, <1>5 DEF E!Launching

LEMMA SettlingSteps ==
    ASSUME EvidenceInv, NEW p \in Procs, E!Settling(p)
    PROVE  CallStep(p) /\ Memory(p) /\ e_call[p].step # "inventory"
<1> USE DEF E!At, E!Adapter, E!Run, OfJava
<1>0. /\ EvidenceType
      /\ \A e \in e_disk : e.run = e_call[p].run =>
            /\ e.proc = p /\ e.adapter = e_call[p].adapter /\ e.file # "kept"
            /\ e_call[p].step \notin Before \cup {"publish"}
      /\ e_call[p].adapter = "java" /\ e_call[p].step \notin {"idle", "launcher", "inventory"}
            => "java" \in e_launcher[p]
      /\ e_call[p].run \in Runs \cup {0} /\ (e_call[p].step # "idle" => e_call[p].run \in Runs)
  BY DEF EvidenceInv, EvidenceType, FileInv, LeaseInv, TokenInv, CallRecord
<1>a. ASSUME E!Keep(p), e_call[p].step # "idle"
      PROVE  /\ e_retained' \in [Procs -> SUBSET Runs]
             /\ \A q \in Procs \ {p} : e_retained'[q] = e_retained[q]
             /\ e_retained'[p] = e_retained[p] \cup {e_call[p].run}
  BY <1>0, <1>a DEF E!Keep, EvidenceType
<1>1. CASE E!StreamReturned(p) \/ E!ConvertNative(p) \/ E!ConvertCpython(p) \/ E!ConvertGo(p)
           \/ E!ConvertLoopback(p) \/ E!ConvertJava(p)
  <2>1. PICK s \in {"convert", "drop", "discard", "failed"} : E!Go(p, s)
    BY <1>1 DEF E!StreamReturned, E!ConvertNative, E!ConvertCpython, E!ConvertGo, E!ConvertLoopback,
       E!ConvertJava, E!Convert
  <2>2. /\ e_call[p].step \in {"returned", "convert"} /\ e_up[p] = "up"
        /\ UNCHANGED <<e_up, e_used, e_disk, e_faults, e_retained, e_launcher, e_lease>>
    BY <1>1 DEF E!StreamReturned, E!ConvertNative, E!ConvertCpython, E!ConvertGo, E!ConvertLoopback,
       E!ConvertJava, E!Convert, E!Machine
  <2>3. CallStep(p)
    BY <1>0, <2>1, <2>2, GoCall, SameFiles DEF Before, CallSteps
  <2>4. Memory(p)
    BY <1>0, <2>1, <2>2, GoCall, SameMemory DEF CallSteps
  <2> QED BY <2>2, <2>3, <2>4
<1>2. CASE E!JavaLaunchFailed(p)
  <2>1. /\ e_call[p].step = "launchfailed" /\ e_up[p] = "up" /\ E!EndCall(p)
        /\ UNCHANGED <<e_up, e_used, e_launcher, e_lease>>
    BY <1>2 DEF E!JavaLaunchFailed, E!Machine
  <2>2. CASE E!Keep(p) /\ UNCHANGED e_disk /\ e_faults' \in {e_faults, e_faults + 1}
    <3>1. CallStep(p)
      BY <1>0, <1>a, <2>1, <2>2, EndedCall DEF CallStep, EvidenceType
    <3>2. Memory(p)
      BY <1>0, <1>a, <2>1, <2>2, EndedCall, IdleCall DEF Memory, EvidenceType
    <3> QED BY <2>1, <3>1, <3>2
  <2>3. CASE e_disk' = e_disk \ E!Of(E!Run(p)) /\ E!NoFault /\ UNCHANGED e_retained
    <3>1. E!Remove(p)
      BY <2>3 DEF E!Remove
    <3>2. CallStep(p)
      BY <1>0, <2>1, <3>1, RemovedFiles, EndedCall DEF CallStep, EvidenceType, Before
    <3>3. Memory(p)
      BY <1>0, <2>1, <2>3, EndedCall, SameMemory
    <3> QED BY <2>1, <3>2, <3>3
  <2> QED BY <1>2, <2>2, <2>3 DEF E!JavaLaunchFailed, E!NoFault, E!Fault
<1>3. CASE E!JavaReturned(p)
  <2>1. /\ e_call[p].step = "returned" /\ e_up[p] = "up" /\ e_call[p].adapter = "java"
        /\ UNCHANGED <<e_up, e_used, e_launcher, e_lease>>
    BY <1>3 DEF E!JavaReturned, E!Machine
  <2>2. ASSUME NEW s \in {"convert", "drop"}, E!Keep(p), E!Go(p, s), UNCHANGED <<e_disk, e_faults>>
        PROVE  CallStep(p) /\ Memory(p)
    <3>1. /\ e_call' \in [Procs -> CallRecord] /\ \A q \in Procs \ {p} : e_call'[q] = e_call[q]
          /\ e_call'[p].step = s /\ e_call'[p].adapter = e_call[p].adapter
          /\ e_call'[p].run = e_call[p].run
      BY <1>0, <2>2, GoCall DEF CallSteps
    <3>2. CallStep(p)
      BY <2>1, <2>2, <3>1, SameFiles DEF Before
    <3>3. Memory(p)
      BY <1>0, <1>a, <2>1, <2>2, <3>1 DEF Memory, EvidenceType
    <3> QED BY <3>2, <3>3
  <2>3. CASE E!Remove(p) /\ E!EndCall(p) /\ UNCHANGED e_retained
    <3>1. CallStep(p)
      BY <1>0, <2>1, <2>3, RemovedFiles, EndedCall DEF CallStep, EvidenceType, Before
    <3>2. Memory(p)
      BY <1>0, <2>1, <2>3, EndedCall, SameMemory
    <3> QED BY <2>1, <3>1, <3>2
  <2> QED BY <1>3, <2>1, <2>2, <2>3 DEF E!JavaReturned
<1>4. CASE E!RenderRaw(p)
  <2>1. /\ e_call[p].step = "returned" /\ e_up[p] = "up" /\ e_call[p].adapter # "java"
        /\ UNCHANGED <<e_up, e_used, e_launcher, e_lease, e_retained, e_faults>>
    BY <1>4 DEF E!RenderRaw, E!Machine, E!RootOf
  <2>2. PICK s \in {"drop", "convert", "failed"} : E!Go(p, s)
    BY <1>4 DEF E!RenderRaw
  <2>3. /\ e_call' \in [Procs -> CallRecord] /\ \A q \in Procs \ {p} : e_call'[q] = e_call[q]
        /\ e_call'[p].step = s /\ e_call'[p].adapter = e_call[p].adapter
        /\ e_call'[p].run = e_call[p].run
    BY <1>0, <2>2, GoCall DEF CallSteps
  <2>4. CASE UNCHANGED e_disk
    BY <2>1, <2>3, <2>4, SameFiles, SameMemory DEF Before
  <2>5. CASE e_disk' = e_disk \cup {E!Entry(p, E!Adapter(p), E!Run(p), "raw", 1)}
    <3> DEFINE f == E!Entry(p, E!Adapter(p), E!Run(p), "raw", 1)
    <3>1. f \in DiskEntry /\ f.run = e_call[p].run /\ f.proc = p /\ f.adapter = e_call[p].adapter
          /\ f.file = "raw" /\ e_disk' = e_disk \cup {f}
      BY <1>0, <2>1, <2>5 DEF E!Entry, DiskEntry, FileNames, EvidenceType, CallRecord
    <3> HIDE DEF f
    <3>2. e_disk' \subseteq DiskEntry /\ IsFiniteSet(e_disk')
      BY <1>0, <3>1, FS_AddElement DEF EvidenceType
    <3>3. e_call'[p] # E!Idle
      BY <2>3, IdleCall
    <3>4. CallStep(p)
      BY <1>0, <2>1, <2>3, <3>1, <3>2, <3>3 DEF CallStep, Before
    <3>5. Memory(p)
      BY <2>1, <2>3, SameMemory
    <3> QED BY <2>1, <3>4, <3>5
  <2> QED BY <1>4, <2>1, <2>4, <2>5 DEF E!RenderRaw
<1>5. CASE E!Drop(p)
  <2>1. /\ e_call[p].step = "drop" /\ e_up[p] = "up" /\ E!EndCall(p) /\ E!Remove(p)
        /\ UNCHANGED <<e_up, e_used, e_launcher, e_lease>>
        /\ e_retained' = [e_retained EXCEPT ![p] = IF e_disk' = e_disk THEN @ ELSE @ \ {E!Run(p)}]
    BY <1>5 DEF E!Drop, E!Machine
  <2>2. CallStep(p)
    BY <1>0, <2>1, RemovedFiles, EndedCall DEF CallStep, EvidenceType, Before
  <2>3. /\ e_retained' \in [Procs -> SUBSET Runs]
        /\ \A q \in Procs \ {p} : e_retained'[q] = e_retained[q]
        /\ \/ e_retained'[p] = e_retained[p]
           \/ e_retained'[p] = e_retained[p] \ {e_call[p].run} /\ e_disk' # e_disk
    BY <1>0, <2>1 DEF EvidenceType
  <2>4. Memory(p)
    BY <1>0, <2>1, <2>3, RemovedFiles, EndedCall, IdleCall DEF Memory, EvidenceType
  <2> QED BY <2>1, <2>2, <2>4
<1>6. CASE E!RetainNative(p)
  <2>1. /\ e_call[p].step = "failed" /\ e_up[p] = "up" /\ E!EndCall(p)
        /\ UNCHANGED <<e_up, e_used, e_launcher, e_lease, e_retained>>
    BY <1>6 DEF E!RetainNative, E!Machine
  <2>2. CASE E!Remove(p)
    BY <1>0, <2>1, <2>2, RemovedFiles, EndedCall, SameMemory DEF CallStep, EvidenceType, Before
  <2>3. CASE e_disk' = (e_disk \ E!Of(E!Run(p))) \cup {[e EXCEPT !.file = "kept"] : e \in E!Of(E!Run(p))} /\ E!NoFault
    <3> DEFINE own == E!Of(E!Run(p))
               kept == {[e EXCEPT !.file = "kept"] : e \in own}
               w == [e \in own |-> [e EXCEPT !.file = "kept"]]
    <3>1. IsFiniteSet(own) /\ own \subseteq DiskEntry /\ (\A e \in own : e.run = e_call[p].run)
          /\ (\A e \in e_disk : e.run = e_call[p].run => e \in own)
      BY <1>0, FS_Subset DEF EvidenceType, E!Of
    <3>2. \A e \in kept : e \in DiskEntry /\ e.run = e_call[p].run /\ e.proc = p
                          /\ e.adapter = e_call[p].adapter /\ e.file = "kept"
      BY <1>0, <3>1 DEF DiskEntry, FileNames, E!Of
    <3>3. w \in [own -> kept] /\ \A v \in kept : \E u \in own : w[u] = v
      OBVIOUS
    <3>4. e_disk' = (e_disk \ own) \cup kept
      BY <2>3
    <3> HIDE DEF own, kept, w
    <3>5. IsFiniteSet(kept)
      BY <3>1, <3>3, ImageIsFinite, ZenonT(30)
    <3>6. IsFiniteSet(e_disk \ own)
      BY <1>0, FS_Difference DEF EvidenceType
    <3>7. IsFiniteSet(e_disk')
      BY <3>4, <3>5, <3>6, FS_Union
    <3>8. CallStep(p)
      BY <1>0, <2>1, <2>3, <3>1, <3>2, <3>4, <3>7, EndedCall DEF CallStep, EvidenceType, E!NoFault, Before
    <3>9. Memory(p)
      BY <1>0, <2>1, EndedCall, SameMemory
    <3> QED BY <2>1, <3>8, <3>9
  <2> QED BY <1>6, <2>2, <2>3 DEF E!RetainNative
<1>7. CASE E!RetainCpython(p) \/ E!RetainJava(p)
  <2>1. E!Retain(p)
    BY <1>7 DEF E!RetainCpython, E!RetainJava
  <2>2. /\ e_call[p].step = "failed" /\ e_up[p] = "up" /\ E!EndCall(p) /\ E!Keep(p)
        /\ UNCHANGED <<e_up, e_used, e_launcher, e_lease, e_disk, e_faults>>
    BY <2>1 DEF E!Retain, E!Machine
  <2>3. CallStep(p)
    BY <1>0, <1>a, <2>2, EndedCall DEF CallStep, EvidenceType
  <2>4. Memory(p)
    BY <1>0, <1>a, <2>2, EndedCall, IdleCall DEF Memory, EvidenceType
  <2> QED BY <2>2, <2>3, <2>4
<1>8. CASE E!RetainGo(p)
  <2>1. /\ e_call[p].step = "failed" /\ e_up[p] = "up" /\ E!EndCall(p)
        /\ UNCHANGED <<e_up, e_used, e_launcher, e_lease>>
    BY <1>8 DEF E!RetainGo, E!Machine
  <2>2. CASE E!Keep(p) /\ UNCHANGED <<e_disk, e_faults>>
    <3>1. CallStep(p)
      BY <1>0, <1>a, <2>1, <2>2, EndedCall DEF CallStep, EvidenceType
    <3>2. Memory(p)
      BY <1>0, <1>a, <2>1, <2>2, EndedCall, IdleCall DEF Memory, EvidenceType
    <3> QED BY <2>1, <3>1, <3>2
  <2>3. CASE E!Remove(p) /\ UNCHANGED e_retained
    <3>1. CallStep(p)
      BY <1>0, <2>1, <2>3, RemovedFiles, EndedCall DEF CallStep, EvidenceType, Before
    <3>2. Memory(p)
      BY <1>0, <2>1, <2>3, EndedCall, SameMemory
    <3> QED BY <2>1, <3>1, <3>2
  <2> QED BY <1>8, <2>2, <2>3 DEF E!RetainGo
<1>9. CASE E!DiscardNative(p) \/ E!DiscardCpython(p) \/ E!DiscardGo(p) \/ E!DiscardJava(p)
  <2>1. E!Discard(p)
    BY <1>9 DEF E!DiscardNative, E!DiscardCpython, E!DiscardGo, E!DiscardJava
  <2>2. /\ e_call[p].step = "discard" /\ e_up[p] = "up" /\ E!Remove(p)
        /\ UNCHANGED <<e_up, e_used, e_launcher, e_lease>>
    BY <2>1 DEF E!Discard, E!Machine
  <2>3. CASE e_disk' = e_disk /\ E!EndCall(p) /\ UNCHANGED e_retained
    <3>1. CallStep(p)
      BY <1>0, <2>2, <2>3, RemovedFiles, EndedCall DEF CallStep, EvidenceType
    <3>2. Memory(p)
      BY <1>0, <2>2, <2>3, EndedCall, SameMemory
    <3> QED BY <2>2, <3>1, <3>2
  <2>4. CASE e_disk' = e_disk /\ E!Go(p, "failed") /\ UNCHANGED e_retained
    <3>1. /\ e_call' \in [Procs -> CallRecord] /\ \A q \in Procs \ {p} : e_call'[q] = e_call[q]
          /\ e_call'[p].step = "failed" /\ e_call'[p].adapter = e_call[p].adapter
          /\ e_call'[p].run = e_call[p].run /\ e_call'[p] # E!Idle
      BY <1>0, <2>4, GoCall, IdleCall DEF CallSteps
    <3>2. CallStep(p)
      BY <1>0, <2>2, <2>4, <3>1, RemovedFiles DEF CallStep, EvidenceType, Before
    <3>3. Memory(p)
      BY <2>2, <2>4, <3>1, SameMemory
    <3> QED BY <2>2, <3>2, <3>3
  <2>5. CASE e_disk' # e_disk /\ E!Go(p, "publish")
             /\ e_retained' = [e_retained EXCEPT ![p] = @ \ {E!Run(p)}]
    <3>1. /\ e_call' \in [Procs -> CallRecord] /\ \A q \in Procs \ {p} : e_call'[q] = e_call[q]
          /\ e_call'[p].step = "publish" /\ e_call'[p].adapter = e_call[p].adapter
          /\ e_call'[p].run = e_call[p].run /\ e_call'[p] # E!Idle
      BY <1>0, <2>5, GoCall, IdleCall DEF CallSteps
    <3>2. e_faults' = e_faults /\ \A e \in e_disk' : e.run # e_call[p].run
      BY <1>0, <2>2, <2>5, RemovedFiles
    <3>3. CallStep(p)
      BY <1>0, <2>2, <3>1, <3>2, RemovedFiles DEF CallStep, EvidenceType, Before
    <3>4. Memory(p)
      BY <1>0, <2>2, <2>5, <3>1, <3>2 DEF Memory, EvidenceType
    <3> QED BY <2>2, <3>3, <3>4
  <2> QED BY <2>1, <2>3, <2>4, <2>5 DEF E!Discard
<1>10. CASE E!Publish(p)
  <2>1. /\ e_call[p].step = "publish" /\ e_up[p] = "up" /\ E!EndCall(p)
        /\ UNCHANGED <<e_up, e_used, e_launcher, e_lease, e_disk, e_retained, e_faults>>
    BY <1>10 DEF E!Publish
  <2>2. CallStep(p)
    BY <1>0, <2>1, EndedCall, SameFiles
  <2>3. Memory(p)
    BY <1>0, <2>1, EndedCall, SameMemory
  <2> QED BY <2>1, <2>2, <2>3
<1> QED
  BY <1>1, <1>2, <1>3, <1>4, <1>5, <1>6, <1>7, <1>8, <1>9, <1>10 DEF E!Settling

\* A step of a call keeps the relations between calls, files and the lease.
LEMMA CallStepKeeps ==
    ASSUME EvidenceInv, NEW p \in Procs, CallStep(p), Memory(p),
           e_content' \in {"authorized", "edited"}, e_owner' \in {"authorized", "other"}
    PROVE  EvidenceInv'
<1>0. /\ EvidenceType /\ TokenInv /\ FileInv /\ LeaseInv
      /\ e_call[p].run \in Runs /\ e_call[p].run # 0 /\ 0 \notin Procs
  BY EvidenceAssumption DEF EvidenceInv, TokenInv, CallStep, EvidenceType, CallRecord
<1>1. EvidenceType'
  BY <1>0 DEF EvidenceType, CallStep, Memory
<1>2. TokenInv'
  <2>1. ASSUME NEW q \in Procs
        PROVE  /\ (e_call[q].step = "idle" <=> e_call[q].run = 0)'
               /\ (e_up[q] # "up" => e_call[q].run = 0)'
               /\ (e_call[q].run \in e_used \cup {0})'
               /\ (e_call[q].step \in Before => e_call[q].made = 0)'
               /\ (e_call[q].step = "create" => e_call[q].made < Len(E!Files(e_call[q].adapter)))'
               /\ (e_call[q].step \in OfJava => e_call[q].adapter = "java")'
    BY <1>0, <2>1, IdleCall DEF TokenInv, CallStep, Before, OfJava
  <2>2. ASSUME NEW q \in Procs
        PROVE  /\ (e_up[q] = "new" => e_retained[q] = {} /\ e_launcher[q] = {})'
               /\ (e_retained[q] \subseteq e_used)'
               /\ (e_call[q].run \in e_retained[q] => e_call[q].adapter = "java")'
    <3>1. CASE q = p
      <4>1. 0 \notin e_retained'[p]
        BY <1>1, EvidenceAssumption DEF EvidenceType
      <4> QED BY <1>0, <3>1, <4>1, IdleCall DEF TokenInv, CallStep, Memory
    <3>2. CASE q # p
      BY <1>0, <2>2, <3>2 DEF TokenInv, CallStep, Memory
    <3> QED BY <3>1, <3>2
  <2>3. ASSUME NEW q \in Procs, NEW r \in Procs, q # r, e_call'[q].run # 0
        PROVE  e_call'[q].run # e_call'[r].run /\ e_call'[q].run \notin e_retained'[r]
    <3>1. e_call'[q].run = e_call[q].run
      BY <2>3, IdleCall DEF CallStep
    <3>2. e_call'[r].run \in {e_call[r].run, 0}
      BY IdleCall DEF CallStep
    <3>3. e_call[q].run # e_call[r].run /\ e_call[q].run \notin e_retained[r]
      BY <1>0, <2>3, <3>1 DEF TokenInv
    <3>4. e_retained'[r] \subseteq e_retained[r] \cup {e_call[r].run}
      BY DEF Memory
    <3> QED BY <2>3, <3>1, <3>2, <3>3, <3>4
  <2>4. ASSUME NEW e \in e_disk'
        PROVE  e.run \in e_used' /\ e_up'[e.proc] # "new"
    BY <1>0, <2>4 DEF TokenInv, CallStep
  <2> QED BY <2>1, <2>2, <2>3, <2>4 DEF TokenInv
<1>3. FileInv'
  <2>1. ASSUME NEW e \in e_disk', NEW q \in Procs, e.run = e_call'[q].run
        PROVE  /\ e.proc = q /\ e.adapter = e_call'[q].adapter /\ e.file # "kept"
               /\ e_call'[q].step \notin Before \cup {"publish"}
    <3>1. e.run \in Runs /\ e.run # 0
      BY <1>1, EvidenceAssumption DEF EvidenceType, DiskEntry
    <3>2. CASE q = p
      BY <2>1, <3>1, <3>2, IdleCall DEF CallStep
    <3>3. CASE q # p
      <4>1. e.run # e_call[p].run /\ e_call'[q] = e_call[q]
        BY <1>0, <2>1, <3>1, <3>3 DEF TokenInv, CallStep
      <4> QED BY <1>0, <2>1, <4>1 DEF CallStep, FileInv
    <3> QED BY <3>2, <3>3
  <2>2. ASSUME NEW e \in e_disk', NEW q \in Procs, e.run \in e_retained'[q], e.proc # q
        PROVE  e_up'[e.proc] # "up"
    <3>1. CASE e.run = e_call[p].run
      <4>1. q # p /\ e_retained'[q] = e_retained[q]
        BY <2>2, <3>1 DEF CallStep, Memory
      <4> QED BY <1>0, <2>2, <3>1, <4>1 DEF TokenInv
    <3>2. CASE e.run # e_call[p].run
      <4>1. e \in e_disk /\ e.run \in e_retained[q] /\ e_up' = e_up
        BY <2>2, <3>2 DEF CallStep, Memory
      <4> QED BY <1>0, <2>2, <4>1 DEF FileInv
    <3> QED BY <3>1, <3>2
  <2>3. ASSUME NEW e \in e_disk', NEW f \in e_disk', e.run = f.run
        PROVE  e.proc = f.proc /\ e.adapter = f.adapter
    BY <1>0, <2>3 DEF FileInv, CallStep
  <2> QED BY <2>1, <2>2, <2>3 DEF FileInv
<1>4. LeaseInv'
  <2>1. ASSUME NEW q \in Procs, e_up'[q] = "up", "java" \in e_launcher'[q] \/ e_call'[q].step = "inventory"
        PROVE  e_lease' = q
    <3>1. CASE "java" \in e_launcher[q] \/ e_call[q].step = "inventory"
      BY <1>0, <2>1, <3>1 DEF CallStep, Memory, LeaseInv
    <3>2. CASE q = p
      BY <1>0, <2>1, <3>1, <3>2, IdleCall DEF CallStep, Memory
    <3>3. CASE q # p
      BY <2>1, <3>1, <3>3 DEF CallStep, Memory
    <3> QED BY <3>2, <3>3
  <2>2. ASSUME NEW q \in Procs, e_call'[q].adapter = "java",
               e_call'[q].step \notin {"idle", "launcher", "inventory"}
        PROVE  "java" \in e_launcher'[q]
    BY <1>0, <2>2, IdleCall DEF CallStep, Memory, LeaseInv
  <2>3. ASSUME NEW e \in e_disk', e.adapter = "java", e_up'[e.proc] = "up"
        PROVE  "java" \in e_launcher'[e.proc]
    <3>1. CASE e.run # e_call[p].run
      <4>1. e \in e_disk /\ e_up' = e_up /\ e.proc \in Procs
        BY <1>1, <3>1 DEF CallStep, EvidenceType, DiskEntry
      <4> QED BY <1>0, <2>3, <4>1 DEF LeaseInv, Memory
    <3>2. CASE e.run = e_call[p].run
      <4>1. e.proc = p /\ e_call[p].adapter = "java"
        BY <2>3, <3>2 DEF CallStep
      <4>2. CASE e_call'[p] # E!Idle
        <5>1. e_call'[p].step \notin Before
          BY <3>2, <4>2 DEF CallStep
        <5> QED BY <4>1, <4>2, <5>1 DEF Memory, Before
      <4>3. CASE e_call'[p] = E!Idle /\ e_call[p].step \notin Before
        BY <1>0, <4>1, <4>3 DEF LeaseInv, CallStep, Memory, Before
      <4>4. CASE e_call'[p] = E!Idle /\ e_call[p].step \in Before
        BY <1>0, <3>2, <4>4 DEF CallStep, FileInv
      <4> QED BY <4>2, <4>3, <4>4
    <3> QED BY <3>1, <3>2
  <2>4. ASSUME NEW e \in e_disk', NEW q \in Procs, e_up'[q] = "up", "java" \in e_launcher'[q],
               e.adapter = "java", e.proc # q
        PROVE  e.run \in e_retained'[q]
    <3>1. "java" \in e_launcher[q] /\ e_up[q] = "up"
      BY <2>4 DEF CallStep, Memory
    <3>2. CASE e.run # e_call[p].run
      <4>1. e \in e_disk
        BY <3>2 DEF CallStep
      <4>2. e.run \in e_retained[q]
        BY <1>0, <2>4, <3>1, <4>1 DEF LeaseInv
      <4> QED BY <3>2, <4>2 DEF Memory
    <3>3. CASE e.run = e_call[p].run
      <4>1. e.proc = p /\ e_up'[p] = "up"
        BY <3>3 DEF CallStep
      <4>2. "java" \in e_launcher'[p]
        BY <2>3, <2>4, <4>1
      <4>3. e_lease' = p /\ e_lease' = q
        BY <2>1, <2>4, <4>1, <4>2
      <4> QED BY <2>4, <4>1, <4>3
    <3> QED BY <3>2, <3>3
  <2>5. ASSUME NEW q \in Procs, e_call'[q].adapter = "java", e_call'[q].step \in {"launcher", "inventory"}
        PROVE  "java" \notin e_launcher'[q]
    BY <1>0, <2>5, IdleCall DEF CallStep, Memory, LeaseInv
  <2> QED BY <2>1, <2>2, <2>3, <2>4, <2>5 DEF LeaseInv
<1> QED BY <1>1, <1>2, <1>3, <1>4 DEF EvidenceInv

\* Taking the inventory: the holder of the lease remembers every Java launch.
LEMMA InventoryKeeps ==
    ASSUME EvidenceInv, NEW p \in Procs, E!Inventory(p)
    PROVE  EvidenceInv'
<1> USE DEF E!At
<1>0. /\ EvidenceType /\ TokenInv /\ FileInv /\ LeaseInv
      /\ e_call[p].step = "inventory" /\ e_up[p] = "up" /\ e_call[p].adapter = "java"
      /\ e_lease = p /\ e_call[p].run \in Runs
      /\ UNCHANGED <<e_content, e_owner, e_disk, e_up, e_used, e_faults>>
  BY DEF EvidenceInv, E!Inventory, TokenInv, LeaseInv, EvidenceType, CallRecord, OfJava
<1>1. \A e \in e_disk : e.adapter = "java" => e_up[e.proc] # "up" \/ e.proc = p
  BY <1>0, EvidenceAssumption DEF EvidenceType, DiskEntry, LeaseInv
<1>2. \A r \in E!JavaRuns : r \in Runs /\ r \in e_used /\ \E e \in e_disk : e.run = r /\ e.adapter = "java"
  BY <1>0 DEF E!JavaRuns, TokenInv, EvidenceType, DiskEntry
<1>3. \A e \in e_disk : e.run # e_call[p].run
  BY <1>0 DEF FileInv, Before
<1>4. \A r \in E!JavaRuns, q \in Procs : e_call[q].run # r
  <2> SUFFICES ASSUME NEW e \in e_disk, e.adapter = "java", NEW q \in Procs, e_call[q].run = e.run
               PROVE  FALSE
    BY <1>2
  <2>1. e.proc = q /\ e_call[q].run # 0 /\ q # p
    BY <1>0, <1>3, EvidenceAssumption DEF FileInv, EvidenceType, DiskEntry
  <2>2. e_up[q] = "up"
    BY <1>0, <2>1 DEF TokenInv
  <2> QED BY <1>1, <2>1, <2>2
<1>5. CASE /\ e_retained' = [e_retained EXCEPT ![p] = @ \cup E!JavaRuns]
           /\ e_launcher' = [e_launcher EXCEPT ![p] = @ \cup {"java"}]
           /\ E!Go(p, "target") /\ UNCHANGED e_lease
  <2>1. /\ e_call' \in [Procs -> CallRecord] /\ \A q \in Procs \ {p} : e_call'[q] = e_call[q]
        /\ e_call'[p].step = "target" /\ e_call'[p].adapter = e_call[p].adapter
        /\ e_call'[p].run = e_call[p].run /\ e_call'[p].made = e_call[p].made
    BY <1>0, <1>5, GoCall DEF CallSteps
  <2>2. /\ e_retained' \in [Procs -> SUBSET Runs] /\ e_launcher' \in [Procs -> SUBSET E!Adapters]
        /\ e_retained'[p] = e_retained[p] \cup E!JavaRuns /\ e_launcher'[p] = e_launcher[p] \cup {"java"}
        /\ \A q \in Procs \ {p} : e_retained'[q] = e_retained[q] /\ e_launcher'[q] = e_launcher[q]
    BY <1>0, <1>2, <1>5 DEF EvidenceType, E!Adapters
  <2>3. EvidenceType'
    BY <1>0, <1>5, <2>1, <2>2 DEF EvidenceType
  <2>4. TokenInv'
    <3>1. \A q \in Procs : e_call'[q].run = e_call[q].run /\ e_call'[q].adapter = e_call[q].adapter
                           /\ e_call'[q].made = e_call[q].made
      BY <2>1
    <3>2. \A q \in Procs :
            /\ e_call'[q].step = "idle" <=> e_call'[q].run = 0
            /\ e_up'[q] # "up" => e_call'[q].run = 0
            /\ e_call'[q].run \in e_used' \cup {0}
            /\ e_call'[q].step \in Before => e_call'[q].made = 0
            /\ e_call'[q].step = "create" => e_call'[q].made < Len(E!Files(e_call'[q].adapter))
            /\ e_call'[q].step \in OfJava => e_call'[q].adapter = "java"
      BY <1>0, <2>1 DEF TokenInv, Before, OfJava
    <3>3. \A q \in Procs :
            /\ e_up'[q] = "new" => e_retained'[q] = {} /\ e_launcher'[q] = {}
            /\ e_retained'[q] \subseteq e_used'
            /\ e_call'[q].run \in e_retained'[q] => e_call'[q].adapter = "java"
      BY <1>0, <1>2, <2>1, <2>2 DEF TokenInv
    <3>4. \A q, r \in Procs : q # r /\ e_call'[q].run # 0 =>
             e_call'[q].run # e_call'[r].run /\ e_call'[q].run \notin e_retained'[r]
      BY <1>0, <1>4, <2>2, <3>1 DEF TokenInv
    <3>5. \A e \in e_disk' : e.run \in e_used' /\ e_up'[e.proc] # "new"
      BY <1>0 DEF TokenInv
    <3> QED BY <3>2, <3>3, <3>4, <3>5 DEF TokenInv
  <2>5. FileInv'
    <3>1. ASSUME NEW e \in e_disk', NEW q \in Procs, e.run = e_call'[q].run
          PROVE  /\ e.proc = q /\ e.adapter = e_call'[q].adapter /\ e.file # "kept"
                 /\ e_call'[q].step \notin Before \cup {"publish"}
      BY <1>0, <1>3, <2>1, <3>1 DEF FileInv
    <3>2. ASSUME NEW e \in e_disk', NEW q \in Procs, e.run \in e_retained'[q], e.proc # q
          PROVE  e_up'[e.proc] # "up"
      <4>1. CASE e.run \in e_retained[q]
        BY <1>0, <3>2, <4>1 DEF FileInv
      <4>2. CASE e.run \notin e_retained[q]
        <5>1. q = p /\ e.run \in E!JavaRuns
          BY <2>2, <3>2, <4>2
        <5>2. PICK f \in e_disk : f.run = e.run /\ f.adapter = "java"
          BY <1>2, <5>1
        <5>3. CASE e.adapter = "java"
          BY <1>0, <1>1, <3>2, <5>1, <5>3
        <5>4. CASE e.adapter # "java"
          BY <1>0, <5>2, <5>4 DEF FileInv
        <5> QED BY <5>3, <5>4
      <4> QED BY <4>1, <4>2
    <3>3. \A e, f \in e_disk' : e.run = f.run => e.proc = f.proc /\ e.adapter = f.adapter
      BY <1>0 DEF FileInv
    <3> QED BY <3>1, <3>2, <3>3 DEF FileInv
  <2>6. LeaseInv'
    <3>1. \A e \in e_disk : e.adapter = "java" => e.run \in E!JavaRuns
      BY DEF E!JavaRuns
    <3>2. \A q \in Procs : e_up'[q] = "up" /\ ("java" \in e_launcher'[q] \/ e_call'[q].step = "inventory")
            => e_lease' = q
      BY <1>0, <1>5, <2>1, <2>2 DEF LeaseInv
    <3>3. \A q \in Procs : e_call'[q].adapter = "java"
             /\ e_call'[q].step \notin {"idle", "launcher", "inventory"} => "java" \in e_launcher'[q]
      BY <1>0, <2>1, <2>2 DEF LeaseInv
    <3>4. \A e \in e_disk' : e.adapter = "java" /\ e_up'[e.proc] = "up" => "java" \in e_launcher'[e.proc]
      BY <1>0, <1>1, <2>2 DEF LeaseInv
    <3>5. ASSUME NEW e \in e_disk', NEW q \in Procs, e_up'[q] = "up", "java" \in e_launcher'[q],
                 e.adapter = "java", e.proc # q
          PROVE  e.run \in e_retained'[q]
      <4>1. CASE q = p
        BY <1>0, <2>2, <3>1, <3>5, <4>1
      <4>2. CASE q # p
        BY <1>0, <2>2, <3>5, <4>2 DEF LeaseInv
      <4> QED BY <4>1, <4>2
    <3>6. \A q \in Procs : e_call'[q].adapter = "java" /\ e_call'[q].step \in {"launcher", "inventory"}
             => "java" \notin e_launcher'[q]
      BY <1>0, <2>1, <2>2 DEF LeaseInv
    <3> QED BY <3>2, <3>3, <3>4, <3>5, <3>6 DEF LeaseInv
  <2> QED BY <2>3, <2>4, <2>5, <2>6 DEF EvidenceInv
<1>6. CASE e_lease' = 0 /\ E!EndCall(p) /\ UNCHANGED <<e_retained, e_roots, e_launcher>>
  <2>1. /\ e_call' \in [Procs -> CallRecord] /\ \A q \in Procs \ {p} : e_call'[q] = e_call[q]
        /\ e_call'[p].run = 0 /\ e_call'[p].step = "idle" /\ e_call'[p].adapter = "native"
    BY <1>0, <1>6, EndedCall, IdleCall
  <2>2. EvidenceType'
    BY <1>0, <1>6, <2>1 DEF EvidenceType
  <2>3. 0 \notin Runs /\ 0 \notin Procs /\ "java" \notin e_launcher[p]
    BY <1>0, EvidenceAssumption DEF LeaseInv
  <2>4. TokenInv'
    BY <1>0, <1>6, <2>1, <2>3 DEF TokenInv, Before, OfJava, EvidenceType
  <2>5. FileInv'
    <3>1. \A e \in e_disk : e.run # 0
      BY <1>0, <2>3 DEF EvidenceType, DiskEntry
    <3>2. ASSUME NEW e \in e_disk', NEW q \in Procs, e.run = e_call'[q].run
          PROVE  /\ e.proc = q /\ e.adapter = e_call'[q].adapter /\ e.file # "kept"
                 /\ e_call'[q].step \notin Before \cup {"publish"}
      BY <1>0, <2>1, <3>1, <3>2 DEF FileInv
    <3> QED BY <1>0, <1>6, <3>2 DEF FileInv
  <2>6. LeaseInv'
    <3>1. \A q \in Procs : e_up[q] = "up" => "java" \notin e_launcher[q]
      BY <1>0, <2>3 DEF LeaseInv
    <3>2. \A q \in Procs \ {p} : e_up[q] = "up" => e_call[q].step # "inventory"
      BY <1>0 DEF LeaseInv
    <3> QED BY <1>0, <1>6, <2>1, <3>1, <3>2 DEF LeaseInv
  <2> QED BY <2>2, <2>4, <2>5, <2>6 DEF EvidenceInv
<1> QED BY <1>5, <1>6 DEF E!Inventory

\* A call starts with a token of its own.
LEMMA CollectKeeps ==
    ASSUME EvidenceInv, NEW p \in Procs, NEW a \in E!Adapters, NEW r \in Runs, E!Collect(p, a, r)
    PROVE  EvidenceInv'
<1> USE DEF E!At
<1> DEFINE s == IF E!RootOf(a) \in e_launcher[p] THEN "target" ELSE "launcher"
           c == [E!Idle EXCEPT !.step = s, !.adapter = a, !.run = r]
<1>0. /\ EvidenceType /\ TokenInv /\ FileInv /\ LeaseInv
      /\ e_call[p].step = "idle" /\ e_up[p] = "up" /\ e_call[p].run = 0 /\ r \notin e_used /\ r # 0
      /\ e_used' = e_used \cup {r}
      /\ e_call' = [e_call EXCEPT ![p] = c]
      /\ UNCHANGED <<e_content, e_owner, e_disk, e_lease, e_up, e_launcher, e_retained, e_faults>>
  BY EvidenceAssumption DEF EvidenceInv, E!Collect, TokenInv
<1>1. /\ c \in CallRecord /\ c.step \in {"target", "launcher"} /\ c.adapter = a /\ c.run = r
      /\ c.made = 0
      /\ a = "java" => (c.step = "target" <=> "java" \in e_launcher[p])
  BY DEF CallRecord, E!Idle, CallSteps, E!RootOf, E!Adapters
<1> HIDE DEF s, c
<1>2. /\ e_call' \in [Procs -> CallRecord] /\ e_call'[p] = c
      /\ \A q \in Procs \ {p} : e_call'[q] = e_call[q]
  BY <1>0, <1>1 DEF EvidenceType
<1>3. EvidenceType'
  BY <1>0, <1>2 DEF EvidenceType
<1>4. (\A e \in e_disk : e.run # r) /\ (\A q \in Procs : e_call[q].run # r /\ r \notin e_retained[q])
  BY <1>0 DEF TokenInv
<1>5. TokenInv'
  <2>1. \A q \in Procs :
          /\ e_call'[q].step = "idle" <=> e_call'[q].run = 0
          /\ e_up'[q] # "up" => e_call'[q].run = 0
          /\ e_call'[q].run \in e_used' \cup {0}
          /\ e_call'[q].step \in Before => e_call'[q].made = 0
          /\ e_call'[q].step = "create" => e_call'[q].made < Len(E!Files(e_call'[q].adapter))
          /\ e_call'[q].step \in OfJava => e_call'[q].adapter = "java"
    BY <1>0, <1>1, <1>2 DEF TokenInv, Before, OfJava
  <2>2. \A q \in Procs :
          /\ e_up'[q] = "new" => e_retained'[q] = {} /\ e_launcher'[q] = {}
          /\ e_retained'[q] \subseteq e_used'
          /\ e_call'[q].run \in e_retained'[q] => e_call'[q].adapter = "java"
    BY <1>0, <1>1, <1>2, <1>4 DEF TokenInv
  <2>3. \A q, t \in Procs : q # t /\ e_call'[q].run # 0 =>
           e_call'[q].run # e_call'[t].run /\ e_call'[q].run \notin e_retained'[t]
    BY <1>0, <1>1, <1>2, <1>4 DEF TokenInv
  <2>4. \A e \in e_disk' : e.run \in e_used' /\ e_up'[e.proc] # "new"
    BY <1>0 DEF TokenInv
  <2> QED BY <2>1, <2>2, <2>3, <2>4 DEF TokenInv
<1>6. FileInv'
  <2>1. ASSUME NEW e \in e_disk', NEW q \in Procs, e.run = e_call'[q].run
        PROVE  /\ e.proc = q /\ e.adapter = e_call'[q].adapter /\ e.file # "kept"
               /\ e_call'[q].step \notin Before \cup {"publish"}
    BY <1>0, <1>1, <1>2, <1>4, <2>1 DEF FileInv
  <2> QED BY <1>0, <2>1 DEF FileInv
<1>7. LeaseInv'
  BY <1>0, <1>1, <1>2 DEF LeaseInv
<1> QED BY <1>3, <1>5, <1>6, <1>7 DEF EvidenceInv

\* A process starts, ends or dies; the kernel frees the lease of one that ended.
LEMMA ProcessKeeps ==
    ASSUME EvidenceInv, NEW p \in Procs, E!StartProcess(p) \/ E!Shutdown(p) \/ E!Crash(p)
    PROVE  EvidenceInv'
<1> USE DEF E!At
<1>0. /\ EvidenceType /\ TokenInv /\ FileInv /\ LeaseInv /\ 0 \notin Procs /\ 0 \notin Runs
      /\ \A e \in e_disk : e.run # 0 /\ e.proc \in Procs
  BY EvidenceAssumption DEF EvidenceInv, EvidenceType, DiskEntry
<1>1. CASE E!StartProcess(p)
  <2>1. /\ e_up[p] = "new" /\ e_up' = [e_up EXCEPT ![p] = "up"]
        /\ UNCHANGED <<e_content, e_owner, e_disk, e_lease, e_launcher, e_retained, e_call, e_used, e_faults>>
        /\ e_launcher[p] = {} /\ e_call[p].run = 0 /\ e_call[p].step = "idle"
        /\ \A e \in e_disk : e.proc # p
    BY <1>0, <1>1 DEF E!StartProcess, TokenInv
  <2>2. EvidenceType'
    BY <1>0, <2>1 DEF EvidenceType
  <2>3. \A q \in Procs : e_up'[q] = IF q = p THEN "up" ELSE e_up[q]
    BY <1>0, <2>1 DEF EvidenceType
  <2>4. TokenInv'
    BY <1>0, <2>1, <2>3 DEF TokenInv
  <2>5. FileInv'
    BY <1>0, <2>1, <2>3 DEF FileInv
  <2>6. LeaseInv'
    BY <1>0, <2>1, <2>3 DEF LeaseInv
  <2> QED BY <2>2, <2>4, <2>5, <2>6 DEF EvidenceInv
<1>2. CASE E!Shutdown(p) \/ E!Crash(p)
  <2>1. /\ e_up[p] = "up" /\ e_up' \in {[e_up EXCEPT ![p] = "down"], [e_up EXCEPT ![p] = "crashed"]}
        /\ e_lease' = IF e_lease = p THEN 0 ELSE e_lease
        /\ UNCHANGED <<e_content, e_owner, e_launcher, e_retained, e_used, e_faults>>
        /\ e_disk' \subseteq e_disk
    BY <1>2 DEF E!Shutdown, E!Crash
  <2>2. /\ e_call' \in [Procs -> CallRecord] /\ \A q \in Procs \ {p} : e_call'[q] = e_call[q]
        /\ e_call'[p].run = 0 /\ e_call'[p].step = "idle"
    <3>1. CASE E!Shutdown(p)
      BY <1>0, <3>1 DEF E!Shutdown, TokenInv, EvidenceType
    <3>2. CASE E!Crash(p)
      BY <1>0, <3>2, EndedCall, IdleCall DEF E!Crash
    <3> QED BY <1>2, <3>1, <3>2
  <2>3. EvidenceType'
    <3>1. IsFiniteSet(e_disk')
      BY <1>0, <2>1, FS_Subset DEF EvidenceType
    <3> QED BY <1>0, <2>1, <2>2, <3>1 DEF EvidenceType
  <2>4. /\ \A q \in Procs \ {p} : e_up'[q] = e_up[q]
        /\ e_up'[p] \in {"down", "crashed"}
    BY <1>0, <2>1 DEF EvidenceType
  <2>5. TokenInv'
    <3>1. ASSUME NEW q \in Procs
          PROVE  /\ e_call'[q].step = "idle" <=> e_call'[q].run = 0
                 /\ e_up'[q] # "up" => e_call'[q].run = 0
                 /\ e_call'[q].run \in e_used' \cup {0}
                 /\ e_call'[q].step \in Before => e_call'[q].made = 0
                 /\ e_call'[q].step = "create" => e_call'[q].made < Len(E!Files(e_call'[q].adapter))
                 /\ e_call'[q].step \in OfJava => e_call'[q].adapter = "java"
                 /\ e_up'[q] = "new" => e_retained'[q] = {} /\ e_launcher'[q] = {}
                 /\ e_retained'[q] \subseteq e_used'
                 /\ e_call'[q].run \in e_retained'[q] => e_call'[q].adapter = "java"
      <4>1. CASE q = p
        BY <1>0, <2>1, <2>2, <2>4, <4>1 DEF TokenInv, EvidenceType, Before, OfJava
      <4>2. CASE q # p
        BY <1>0, <2>1, <2>2, <2>4, <4>2 DEF TokenInv
      <4> QED BY <4>1, <4>2
    <3>2. \A q, t \in Procs : q # t /\ e_call'[q].run # 0 =>
             e_call'[q].run # e_call'[t].run /\ e_call'[q].run \notin e_retained'[t]
      BY <1>0, <2>1, <2>2 DEF TokenInv
    <3>3. \A e \in e_disk' : e.run \in e_used' /\ e_up'[e.proc] # "new"
      BY <1>0, <2>1, <2>4 DEF TokenInv
    <3> QED BY <3>1, <3>2, <3>3 DEF TokenInv
  <2>6. FileInv'
    <3>1. ASSUME NEW e \in e_disk', NEW q \in Procs, e.run = e_call'[q].run
          PROVE  /\ e.proc = q /\ e.adapter = e_call'[q].adapter /\ e.file # "kept"
                 /\ e_call'[q].step \notin Before \cup {"publish"}
      BY <1>0, <2>1, <2>2, <3>1 DEF FileInv
    <3>2. ASSUME NEW e \in e_disk', NEW q \in Procs, e.run \in e_retained'[q], e.proc # q
          PROVE  e_up'[e.proc] # "up"
      BY <1>0, <2>1, <2>4, <3>2 DEF FileInv
    <3>3. \A e, f \in e_disk' : e.run = f.run => e.proc = f.proc /\ e.adapter = f.adapter
      BY <1>0, <2>1 DEF FileInv
    <3> QED BY <3>1, <3>2, <3>3 DEF FileInv
  <2>7. LeaseInv'
    <3>1. \A q \in Procs : e_up'[q] = "up" => q # p /\ e_up[q] = "up"
      BY <2>4
    <3>2. \A q \in Procs : e_call'[q].step # "idle" => q # p /\ e_call'[q] = e_call[q]
      BY <2>2
    <3>3. \A q \in Procs : e_up'[q] = "up" /\ ("java" \in e_launcher'[q] \/ e_call'[q].step = "inventory")
            => e_lease' = q
      BY <1>0, <2>1, <3>1, <3>2 DEF LeaseInv
    <3>4. \A q \in Procs : e_call'[q].adapter = "java" =>
            /\ e_call'[q].step \notin {"idle", "launcher", "inventory"} => "java" \in e_launcher'[q]
            /\ e_call'[q].step \in {"launcher", "inventory"} => "java" \notin e_launcher'[q]
      BY <1>0, <2>1, <3>2 DEF LeaseInv
    <3>5. \A e \in e_disk' : e.adapter = "java" /\ e_up'[e.proc] = "up" => "java" \in e_launcher'[e.proc]
      BY <1>0, <2>1, <3>1 DEF LeaseInv
    <3>6. \A e \in e_disk', q \in Procs :
            e_up'[q] = "up" /\ "java" \in e_launcher'[q] /\ e.adapter = "java" /\ e.proc # q
            => e.run \in e_retained'[q]
      BY <1>0, <2>1, <3>1 DEF LeaseInv
    <3> QED BY <3>3, <3>4, <3>5, <3>6 DEF LeaseInv
  <2> QED BY <2>3, <2>5, <2>6, <2>7 DEF EvidenceInv
<1> QED BY <1>1, <1>2

\* Outside of calls.
Idling == E!EditTarget \/ E!TargetReplaced \/ UNCHANGED E!vars

LEMMA IdlingKeeps ==
    ASSUME EvidenceInv, Idling
    PROVE  /\ UNCHANGED <<e_disk, e_roots, e_lease, e_up, e_launcher, e_retained, e_call, e_used, e_faults, e_executed>>
           /\ e_owner' \in {e_owner, "other"}
           /\ EvidenceInv'
<1>1. /\ UNCHANGED <<e_disk, e_roots, e_lease, e_up, e_launcher, e_retained, e_call, e_used, e_faults, e_executed>>
      /\ e_owner' \in {e_owner, "other"}
  BY DEF Idling, E!EditTarget, E!TargetReplaced, E!vars
<1>2. e_content' \in {"authorized", "edited"}
  BY DEF Idling, E!EditTarget, E!TargetReplaced, E!vars, EvidenceInv, EvidenceType
<1>3. EvidenceType'
  BY <1>1, <1>2 DEF EvidenceInv, EvidenceType
<1>4. TokenInv' /\ FileInv' /\ LeaseInv'
  BY <1>1 DEF EvidenceInv, TokenInv, FileInv, LeaseInv
<1> QED BY <1>1, <1>3, <1>4 DEF EvidenceInv

\* The kinds of steps.
LEMMA EvidenceSteps ==
    ASSUME [E!Next]_(E!vars)
    PROVE  \/ Idling
           \/ \E p \in Procs :
               \/ E!Preparing(p) \/ E!Launching(p) \/ E!Settling(p)
               \/ \E a \in E!Adapters, r \in Runs : E!Collect(p, a, r)
               \/ E!StartProcess(p) \/ E!Shutdown(p) \/ E!Crash(p)
BY DEF E!Next, Idling

LEMMA CallStepTargets ==
    ASSUME EvidenceInv, NEW p \in Procs, E!Preparing(p) \/ E!Launching(p) \/ E!Settling(p)
    PROVE  UNCHANGED <<e_content, e_owner>>
<1>1. CASE E!Preparing(p)
  BY <1>1 DEF E!Preparing, E!GetNativeLauncher, E!GetCpythonLauncher, E!GetGoLauncher, E!GetLauncher,
     E!AcquireLease, E!Inventory, E!InspectNativeTarget, E!InspectCpythonTarget, E!InspectGoTarget,
     E!InspectExecutableJar, E!InspectLoopbackTarget, E!InspectTarget, E!NativeSnapshot,
     E!CpythonSnapshot, E!GoSnapshot, E!JarSnapshot, E!SealedSnapshot, E!CreatePrivate, E!CreateFails, E!Machine
<1>2. CASE E!Launching(p)
  BY <1>2 DEF E!Launching, E!ExecuteNative, E!ExecuteCpython, E!ExecuteGo, E!ExecuteJava, E!Execute,
     E!FetchLoopback, E!RecheckTarget, E!RenderJson, E!UndoNative, E!UndoCpython, E!UndoGo, E!UndoJava,
     E!UndoLaunch, E!Machine
<1>3. CASE E!Settling(p)
  BY <1>3 DEF E!Settling, E!JavaLaunchFailed, E!JavaReturned, E!StreamReturned, E!RenderRaw, E!Drop,
     E!ConvertNative, E!ConvertCpython, E!ConvertGo, E!ConvertLoopback, E!ConvertJava, E!Convert,
     E!RetainNative, E!RetainCpython, E!RetainGo, E!RetainJava, E!Retain, E!DiscardNative,
     E!DiscardCpython, E!DiscardGo, E!DiscardJava, E!Discard, E!Publish, E!Machine
<1> QED BY <1>1, <1>2, <1>3

\* An inventory is a step of the call that is at that step.
LEMMA AtInventory ==
    ASSUME NEW p \in Procs, E!Preparing(p), e_call[p].step = "inventory"
    PROVE  E!Inventory(p)
BY DEF E!Preparing, E!GetNativeLauncher, E!GetCpythonLauncher, E!GetGoLauncher, E!GetLauncher,
   E!AcquireLease, E!InspectNativeTarget, E!InspectCpythonTarget, E!InspectGoTarget,
   E!InspectExecutableJar, E!InspectLoopbackTarget, E!InspectTarget, E!NativeSnapshot,
   E!CpythonSnapshot, E!GoSnapshot, E!JarSnapshot, E!SealedSnapshot, E!CreatePrivate, E!CreateFails, E!At

LEMMA NextEvidence == EvidenceInv /\ [E!Next]_(E!vars) => EvidenceInv'
<1> SUFFICES ASSUME EvidenceInv, [E!Next]_(E!vars)
             PROVE  EvidenceInv'
  OBVIOUS
<1>1. ASSUME NEW p \in Procs, E!Preparing(p) \/ E!Launching(p) \/ E!Settling(p)
      PROVE  EvidenceInv'
  <2>1. e_content' \in {"authorized", "edited"} /\ e_owner' \in {"authorized", "other"}
    BY <1>1, CallStepTargets DEF EvidenceInv, EvidenceType
  <2>2. CASE E!Inventory(p)
    BY <2>2, InventoryKeeps
  <2>3. CASE ~E!Inventory(p)
    BY <1>1, <2>1, <2>3, AtInventory, PreparingSteps, LaunchingSteps, SettlingSteps, CallStepKeeps
  <2> QED BY <2>2, <2>3
<1> QED BY <1>1, EvidenceSteps, IdlingKeeps, CollectKeeps, ProcessKeeps

----------------------------------------------------------------------------
(* What is executed.                                                       *)

\* A sealed copy was authorized content when it was hashed, and a capture that
\* is about to be checked again was of the authorized process, or that process
\* is gone for good.
AuthorizedInv ==
    /\ \A p \in Procs :
        /\ e_call[p].step \in {"create", "execute"} /\ e_call[p].adapter # "loopback"
            => e_call[p].snap = "authorized"
        /\ e_call[p].step = "recheck" => e_call[p].snap = "authorized" \/ e_owner = "other"
    /\ E!ExecutesAuthorized

LEMMA OtherSteps ==
    ASSUME EvidenceInv, NEW p \in Procs, E!Preparing(p) \/ E!Launching(p) \/ E!Settling(p)
    PROVE  \/ E!SealedSnapshot(p) \/ E!CreatePrivate(p) \/ E!InspectLoopbackTarget(p)
           \/ E!Execute(p) \/ E!FetchLoopback(p) \/ E!RecheckTarget(p)
           \/ /\ UNCHANGED e_executed
              /\ \A q \in Procs \ {p} : e_call'[q] = e_call[q]
              /\ e_call'[p].step \notin {"create", "execute", "recheck"}
<1> USE DEF E!Machine
<1>0. EvidenceType
  BY DEF EvidenceInv
<1>s. \A q \in Procs \ {p} : e_call'[q] = e_call[q]
  BY PreparingSteps, LaunchingSteps, SettlingSteps DEF CallStep
<1>g. ASSUME NEW t \in {"target", "snapshot", "inventory", "returned", "undo", "launchfailed",
                        "convert", "drop", "discard", "failed", "publish"},
             E!EndCall(p) \/ E!Go(p, t)
      PROVE  e_call'[p].step \notin {"create", "execute", "recheck"}
  <2>1. CASE E!EndCall(p)
    BY <1>0, <2>1, EndedCall, IdleCall
  <2>2. CASE E!Go(p, t)
    BY <1>0, <2>2, GoCall DEF CallSteps
  <2> QED BY <1>g, <2>1, <2>2
<1>1. CASE E!Preparing(p)
  BY <1>1, <1>s, <1>g DEF E!Preparing, E!GetNativeLauncher, E!GetCpythonLauncher, E!GetGoLauncher, E!GetLauncher,
     E!AcquireLease, E!Inventory, E!InspectNativeTarget, E!InspectCpythonTarget, E!InspectGoTarget,
     E!InspectExecutableJar, E!InspectTarget, E!NativeSnapshot,
     E!CpythonSnapshot, E!GoSnapshot, E!JarSnapshot, E!CreateFails
<1>2. CASE E!Launching(p)
  BY <1>2, <1>s, <1>g DEF E!Launching, E!ExecuteNative, E!ExecuteCpython, E!ExecuteGo, E!ExecuteJava,
     E!RenderJson, E!UndoNative, E!UndoCpython, E!UndoGo, E!UndoJava, E!UndoLaunch
<1>3. CASE E!Settling(p)
  BY <1>3, <1>s, <1>g DEF E!Settling, E!JavaLaunchFailed, E!JavaReturned, E!StreamReturned, E!RenderRaw, E!Drop,
     E!ConvertNative, E!ConvertCpython, E!ConvertGo, E!ConvertLoopback, E!ConvertJava, E!Convert,
     E!RetainNative, E!RetainCpython, E!RetainGo, E!RetainJava, E!Retain, E!DiscardNative,
     E!DiscardCpython, E!DiscardGo, E!DiscardJava, E!Discard, E!Publish
<1> QED BY <1>1, <1>2, <1>3

LEMMA NextAuthorized ==
    ASSUME EvidenceInv, AuthorizedInv, [E!Next]_(E!vars)
    PROVE  AuthorizedInv'
<1> USE DEF E!At, E!Adapter, E!Run, E!ExecutesAuthorized, E!Machine
<1>0. e_call \in [Procs -> CallRecord] /\ EvidenceType
  BY DEF EvidenceInv, EvidenceType
<1>1. CASE Idling
  BY <1>1, IdlingKeeps DEF AuthorizedInv
<1>2. ASSUME NEW p \in Procs, E!Preparing(p) \/ E!Launching(p) \/ E!Settling(p)
      PROVE  AuthorizedInv'
  <2>0. UNCHANGED <<e_content, e_owner>> /\ \A q \in Procs \ {p} : e_call'[q] = e_call[q]
    BY <1>2, CallStepTargets, PreparingSteps, LaunchingSteps, SettlingSteps DEF CallStep
  <2>1. CASE E!SealedSnapshot(p)
    <3>1. UNCHANGED e_executed
      BY <2>1 DEF E!SealedSnapshot
    <3>2. CASE e_content = "authorized" /\ e_call' = [e_call EXCEPT ![p].step = "create", ![p].snap = e_content]
      <4>1. e_call'[p] = [e_call[p] EXCEPT !.step = "create", !.snap = e_content]
        BY <1>0, <3>2
      <4>2. e_call'[p].step = "create" /\ e_call'[p].snap = "authorized"
        BY <1>0, <3>2, <4>1 DEF CallRecord
      <4> QED BY <2>0, <3>1, <4>2 DEF AuthorizedInv
    <3>3. CASE E!EndCall(p)
      BY <1>0, <2>0, <3>1, <3>3, EndedCall, IdleCall DEF AuthorizedInv
    <3> QED BY <2>1, <3>2, <3>3 DEF E!SealedSnapshot
  <2>2. CASE E!CreatePrivate(p)
    <3>1. /\ e_call[p].step = "create" /\ UNCHANGED e_executed
          /\ \E k, s : e_call' = [e_call EXCEPT ![p].made = k, ![p].step = s] /\ s \in {"execute", "create"}
      BY <2>2 DEF E!CreatePrivate
    <3>2. PICK k, s : e_call' = [e_call EXCEPT ![p].made = k, ![p].step = s] /\ s \in {"execute", "create"}
      BY <3>1
    <3>3. e_call'[p] = [e_call[p] EXCEPT !.made = k, !.step = s]
      BY <1>0, <3>2
    <3>4. e_call'[p].adapter = e_call[p].adapter /\ e_call'[p].snap = e_call[p].snap /\ e_call'[p].step = s
      BY <1>0, <3>3 DEF CallRecord
    <3> QED BY <2>0, <3>1, <3>2, <3>4 DEF AuthorizedInv
  <2>3. CASE E!InspectLoopbackTarget(p)
    <3>1. UNCHANGED e_executed /\ e_call[p].adapter = "loopback" /\ (E!Go(p, "create") \/ E!EndCall(p))
      BY <2>3 DEF E!InspectLoopbackTarget
    <3>2. CASE E!Go(p, "create")
      BY <1>0, <2>0, <3>1, <3>2, GoCall DEF AuthorizedInv, CallSteps
    <3>3. CASE E!EndCall(p)
      BY <1>0, <2>0, <3>1, <3>3, EndedCall, IdleCall DEF AuthorizedInv
    <3> QED BY <3>1, <3>2, <3>3
  <2>4. CASE E!Execute(p)
    <3>1. /\ e_call[p].step = "execute" /\ e_call[p].adapter # "loopback"
          /\ e_executed' = e_executed \cup {e_call[p].snap}
          /\ \E x, s : e_call' = [e_call EXCEPT ![p].exit = x, ![p].step = s]
                        /\ s \in {"undo", "render", "returned"}
      BY <2>4 DEF E!Execute
    <3>2. PICK x, s : e_call' = [e_call EXCEPT ![p].exit = x, ![p].step = s]
                        /\ s \in {"undo", "render", "returned"}
      BY <3>1
    <3>3. e_call'[p] = [e_call[p] EXCEPT !.exit = x, !.step = s]
      BY <1>0, <3>2
    <3>4. e_call'[p].step = s
      BY <1>0, <3>3 DEF CallRecord
    <3> QED BY <2>0, <3>1, <3>2, <3>4 DEF AuthorizedInv
  <2>5. CASE E!FetchLoopback(p)
    <3>1. UNCHANGED e_executed
      BY <2>5 DEF E!FetchLoopback
    <3>2. CASE e_call' = [e_call EXCEPT ![p].step = "recheck", ![p].snap = e_owner]
      <4>1. e_call'[p] = [e_call[p] EXCEPT !.step = "recheck", !.snap = e_owner]
        BY <1>0, <3>2
      <4>2. e_call'[p].step = "recheck" /\ e_call'[p].snap = e_owner
        BY <1>0, <4>1 DEF CallRecord
      <4> QED BY <1>0, <2>0, <3>1, <4>2 DEF AuthorizedInv, EvidenceType
    <3>3. CASE E!Go(p, "undo")
      BY <1>0, <2>0, <3>1, <3>3, GoCall DEF AuthorizedInv, CallSteps
    <3> QED BY <2>5, <3>2, <3>3 DEF E!FetchLoopback
  <2>6. CASE E!RecheckTarget(p)
    <3>1. e_call[p].step = "recheck"
      BY <2>6 DEF E!RecheckTarget
    <3>2. ASSUME NEW x, e_call' = [e_call EXCEPT ![p].step = "returned", ![p].exit = x],
                 e_owner = "authorized", e_executed' = e_executed \cup {e_call[p].snap}
          PROVE  AuthorizedInv'
      <4>1. e_call'[p] = [e_call[p] EXCEPT !.step = "returned", !.exit = x]
        BY <1>0, <3>2
      <4>2. e_call'[p].step = "returned"
        BY <1>0, <4>1 DEF CallRecord
      <4> QED BY <2>0, <3>1, <3>2, <4>2 DEF AuthorizedInv
    <3>3. CASE E!Go(p, "undo") /\ UNCHANGED e_executed
      BY <1>0, <2>0, <3>3, GoCall DEF AuthorizedInv, CallSteps
    <3> QED BY <2>6, <3>2, <3>3 DEF E!RecheckTarget
  <2>7. CASE UNCHANGED e_executed /\ e_call'[p].step \notin {"create", "execute", "recheck"}
    BY <2>0, <2>7 DEF AuthorizedInv
  <2> QED BY <1>2, <2>1, <2>2, <2>3, <2>4, <2>5, <2>6, <2>7, OtherSteps
<1>3. ASSUME NEW p \in Procs, NEW a \in E!Adapters, NEW r \in Runs, E!Collect(p, a, r)
      PROVE  AuthorizedInv'
  <2>1. UNCHANGED <<e_owner, e_executed>> /\ \E s \in {"target", "launcher"} :
          e_call' = [e_call EXCEPT ![p] = [E!Idle EXCEPT !.step = s, !.adapter = a, !.run = r]]
    BY <1>3 DEF E!Collect
  <2>2. /\ \A q \in Procs \ {p} : e_call'[q] = e_call[q]
        /\ e_call'[p].step \in {"target", "launcher"}
    BY <1>0, <2>1 DEF E!Idle
  <2> QED BY <2>1, <2>2 DEF AuthorizedInv
<1>4. ASSUME NEW p \in Procs, E!StartProcess(p) \/ E!Shutdown(p) \/ E!Crash(p)
      PROVE  AuthorizedInv'
  <2>1. UNCHANGED <<e_owner, e_executed>> /\ (UNCHANGED e_call \/ E!EndCall(p))
    BY <1>4 DEF E!StartProcess, E!Shutdown, E!Crash
  <2> QED BY <1>0, <2>1, EndedCall, IdleCall DEF AuthorizedInv
<1> QED BY <1>1, <1>2, <1>3, <1>4, EvidenceSteps

----------------------------------------------------------------------------
(* What is forgotten.                                                      *)

Leaked == UNION {E!Lost(p) : p \in {q \in Procs : e_up[q] = "up"}}

\* A launch is forgotten when a process that runs has a file of it that is not
\* quarantined, and neither its call nor a process that runs knows of it.
LeftBehind(r) ==
    /\ \E e \in e_disk : e.run = r /\ e.proc \in Procs /\ e_up[e.proc] = "up" /\ e.file # "kept"
    /\ \A q \in Procs : e_up[q] = "up" => r # e_call[q].run /\ r \notin e_retained[q]

LEMMA LeakedRuns == \A r : r \in Leaked <=> LeftBehind(r)
<1>1. \A r : (\E p \in Procs : e_up[p] = "up" /\ r \in E!Lost(p)) <=> LeftBehind(r)
  BY DEF E!Lost, E!InCall, E!Remembered, E!Run, LeftBehind
<1> QED BY <1>1 DEF Leaked

LEMMA LeakedRunsNext == \A r : r \in Leaked' <=> LeftBehind(r)'
<1>1. (\A r : r \in Leaked <=> LeftBehind(r))'
  BY LeakedRuns, PTL
<1> QED BY <1>1

LEMMA LeakedFinite == EvidenceType => IsFiniteSet(Leaked)
<1> SUFFICES ASSUME EvidenceType PROVE IsFiniteSet(Leaked)
  OBVIOUS
<1> DEFINE runs == {e.run : e \in e_disk}
           f == [e \in e_disk |-> e.run]
<1>1. f \in [e_disk -> runs] /\ \A v \in runs : \E u \in e_disk : f[u] = v
  OBVIOUS
<1>2. Leaked \subseteq runs
  BY LeakedRuns DEF LeftBehind
<1> HIDE DEF runs, f
<1>3. IsFiniteSet(e_disk)
  BY DEF EvidenceType
<1>4. IsFiniteSet(runs)
  BY <1>1, <1>3, ImageIsFinite, ZenonT(30)
<1> QED BY <1>2, <1>4, FS_Subset

LEMMA LeakedFiniteNext == EvidenceType' => IsFiniteSet(Leaked')
<1>1. (EvidenceType => IsFiniteSet(Leaked))'
  BY LeakedFinite, PTL
<1> QED BY <1>1

LEMMA LeakBound ==
    ASSUME EvidenceType, E!LeakNeedsFault, EvidenceType',
           \/ Leaked' \subseteq Leaked /\ e_faults' >= e_faults
           \/ \E r : Leaked' \subseteq Leaked \cup {r} /\ e_faults' = e_faults + 1
    PROVE  E!LeakNeedsFault'
<1>0. /\ IsFiniteSet(Leaked) /\ IsFiniteSet(Leaked') /\ Cardinality(Leaked) \in Nat
      /\ Cardinality(Leaked') \in Nat /\ Cardinality(Leaked) <= e_faults
      /\ e_faults \in Nat /\ e_faults' \in Nat
  BY LeakedFinite, LeakedFiniteNext, FS_CardinalityType, SameCardinality
     DEF EvidenceType, E!LeakNeedsFault, Leaked
<1>1. CASE Leaked' \subseteq Leaked /\ e_faults' >= e_faults
  <2>1. Cardinality(Leaked') <= Cardinality(Leaked)
    BY <1>0, <1>1, FS_Subset
  <2> QED BY <1>0, <1>1, <2>1, SameCardinality DEF E!LeakNeedsFault, Leaked
<1>2. ASSUME NEW r, Leaked' \subseteq Leaked \cup {r}, e_faults' = e_faults + 1
      PROVE  E!LeakNeedsFault'
  <2>1. IsFiniteSet(Leaked \cup {r}) /\ Cardinality(Leaked \cup {r}) <= Cardinality(Leaked) + 1
    BY <1>0, FS_AddElement
  <2>2. Cardinality(Leaked') <= Cardinality(Leaked \cup {r}) /\ Cardinality(Leaked \cup {r}) \in Nat
    BY <1>2, <2>1, FS_Subset, FS_CardinalityType
  <2> QED BY <1>0, <1>2, <2>1, <2>2, SameCardinality DEF E!LeakNeedsFault, Leaked
<1> QED BY <1>1, <1>2

LEMMA NextLeak ==
    ASSUME EvidenceInv, E!LeakNeedsFault, [E!Next]_(E!vars)
    PROVE  E!LeakNeedsFault'
<1>0. /\ EvidenceType /\ TokenInv /\ FileInv /\ LeaseInv /\ EvidenceType' /\ TokenInv' /\ FileInv'
      /\ \A e \in e_disk' : e.run # 0 /\ e.proc \in Procs
      /\ \A e \in e_disk : e.run # 0 /\ e.proc \in Procs
      /\ e_faults \in Nat
  BY NextEvidence, EvidenceAssumption DEF EvidenceInv, EvidenceType, DiskEntry
<1>1. CASE Idling
  <2>1. UNCHANGED <<e_disk, e_up, e_retained, e_call, e_faults>>
    BY <1>1, IdlingKeeps
  <2>2. Leaked' = Leaked
    BY <2>1 DEF Leaked, E!Lost, E!InCall, E!Remembered, E!Run
  <2> QED BY <1>0, <2>1, <2>2, LeakBound
<1>2. ASSUME NEW p \in Procs, CallStep(p),
             \A q \in Procs \ {p} : e_retained'[q] = e_retained[q],
             e_retained[p] \subseteq e_retained'[p] \cup {e_call[p].run}
      PROVE  E!LeakNeedsFault'
  <2>1. ASSUME NEW r \in Leaked', r # e_call[p].run
        PROVE  r \in Leaked
    <3>1. PICK e \in e_disk' : e.run = r /\ e.proc \in Procs /\ e_up'[e.proc] = "up" /\ e.file # "kept"
      BY <2>1, LeakedRunsNext DEF LeftBehind
    <3>2. \A q \in Procs : e_up'[q] = "up" => r # e_call'[q].run /\ r \notin e_retained'[q]
      BY <2>1, LeakedRunsNext DEF LeftBehind
    <3>3. e \in e_disk /\ e_up' = e_up
      BY <1>2, <2>1, <3>1 DEF CallStep
    <3>4. \A q \in Procs : e_up[q] = "up" => r # e_call[q].run /\ r \notin e_retained[q]
      BY <1>2, <2>1, <3>2, <3>3 DEF CallStep
    <3> QED BY <3>1, <3>3, <3>4, LeakedRuns DEF LeftBehind
  <2>2. CASE e_faults' = e_faults + 1
    <3>1. Leaked' \subseteq Leaked \cup {e_call[p].run}
      BY <2>1
    <3> QED BY <1>0, <2>2, <3>1, LeakBound
  <2>3. CASE e_faults' = e_faults
    <3>1. e_call[p].run \notin Leaked'
      <4>1. CASE e_call'[p].run = e_call[p].run
        BY <1>2, <4>1, LeakedRunsNext DEF CallStep, LeftBehind
      <4>2. CASE e_call'[p] = E!Idle
        <5>1. \A e \in e_disk' : e.run = e_call[p].run => e.file = "kept" \/ e.run \in e_retained'[p]
          BY <1>2, <2>3, <4>2 DEF CallStep
        <5>2. e_up'[p] = "up"
          BY <1>2 DEF CallStep
        <5> QED BY <5>1, <5>2, LeakedRunsNext DEF LeftBehind
      <4> QED BY <1>2, <4>1, <4>2 DEF CallStep
    <3>2. Leaked' \subseteq Leaked
      BY <2>1, <3>1
    <3> QED BY <1>0, <2>3, <3>2, LeakBound
  <2> QED BY <1>2, <2>2, <2>3 DEF CallStep
<1>3. ASSUME NEW p \in Procs, E!Preparing(p) \/ E!Launching(p) \/ E!Settling(p)
      PROVE  E!LeakNeedsFault'
  <2>1. CallStep(p)
    BY <1>3, PreparingSteps, LaunchingSteps, SettlingSteps
  <2>2. CASE E!Inventory(p)
    <3>1. UNCHANGED e_retained \/ e_retained' = [e_retained EXCEPT ![p] = @ \cup E!JavaRuns]
      BY <2>2 DEF E!Inventory
    <3>2. (\A q \in Procs \ {p} : e_retained'[q] = e_retained[q]) /\ e_retained[p] \subseteq e_retained'[p]
      BY <1>0, <3>1 DEF EvidenceType
    <3> QED BY <1>2, <2>1, <3>2
  <2>3. CASE ~E!Inventory(p)
    <3>1. Memory(p)
      BY <1>3, <2>3, AtInventory, PreparingSteps, LaunchingSteps, SettlingSteps
    <3> QED BY <1>2, <2>1, <3>1 DEF Memory
  <2> QED BY <2>2, <2>3
<1>4. ASSUME NEW p \in Procs, UNCHANGED <<e_retained, e_faults>>, e_disk' \subseteq e_disk,
             \A q \in Procs \ {p} : e_up'[q] = e_up[q] /\ e_call'[q] = e_call[q],
             \/ e_up'[p] = e_up[p] /\ e_up[p] = "up" /\ e_call[p].run = 0
             \/ e_up[p] = "up" /\ e_up'[p] # "up"
             \/ e_up'[p] = "up" /\ e_up[p] = "new" /\ UNCHANGED e_disk
      PROVE  E!LeakNeedsFault'
  <2>1. ASSUME NEW r \in Leaked'
        PROVE  r \in Leaked
    <3>1. PICK e \in e_disk' : e.run = r /\ e.proc \in Procs /\ e_up'[e.proc] = "up" /\ e.file # "kept"
      BY <2>1, LeakedRunsNext DEF LeftBehind
    <3>2. \A q \in Procs : e_up'[q] = "up" => r # e_call'[q].run /\ r \notin e_retained'[q]
      BY <2>1, LeakedRunsNext DEF LeftBehind
    <3>3. e \in e_disk /\ e.run # 0 /\ e_up[e.proc] = "up"
      BY <1>0, <1>4, <3>1 DEF TokenInv
    <3>4. ASSUME NEW q \in Procs, e_up[q] = "up"
          PROVE  r # e_call[q].run /\ r \notin e_retained[q]
      <4>1. CASE q # p
        BY <1>4, <3>2, <3>4, <4>1
      <4>2. CASE q = p /\ e_up'[p] = "up"
        BY <1>4, <3>1, <3>2, <3>3, <3>4, <4>2
      <4>3. CASE q = p /\ e_up'[p] # "up"
        <5>1. e.proc # p
          BY <3>1, <4>3
        <5> QED BY <1>0, <3>1, <3>3, <4>3, <5>1 DEF FileInv
      <4> QED BY <4>1, <4>2, <4>3
    <3> QED BY <3>1, <3>3, <3>4, LeakedRuns DEF LeftBehind
  <2> QED BY <1>0, <1>4, <2>1, LeakBound
<1>5. ASSUME NEW p \in Procs, NEW a \in E!Adapters, NEW r \in Runs, E!Collect(p, a, r)
      PROVE  E!LeakNeedsFault'
  <2>1. /\ UNCHANGED <<e_retained, e_faults, e_disk, e_up>> /\ e_up[p] = "up" /\ e_call[p].run = 0
        /\ \A q \in Procs \ {p} : e_call'[q] = e_call[q]
    BY <1>0, <1>5 DEF E!Collect, E!At, TokenInv, EvidenceType
  <2> QED BY <1>4, <2>1
<1>6. ASSUME NEW p \in Procs, E!StartProcess(p) \/ E!Shutdown(p) \/ E!Crash(p)
      PROVE  E!LeakNeedsFault'
  <2>1. /\ UNCHANGED <<e_retained, e_faults>> /\ e_disk' \subseteq e_disk
        /\ \A q \in Procs \ {p} : e_call'[q] = e_call[q]
        /\ \A q \in Procs \ {p} : e_up'[q] = e_up[q]
        /\ \/ e_up[p] = "up" /\ e_up'[p] # "up"
           \/ e_up'[p] = "up" /\ e_up[p] = "new" /\ UNCHANGED e_disk
    BY <1>0, <1>6 DEF E!StartProcess, E!Shutdown, E!Crash, E!At, E!EndCall, EvidenceType
  <2> QED BY <1>4, <2>1
<1> QED BY <1>1, <1>3, <1>5, <1>6, EvidenceSteps

----------------------------------------------------------------------------
(* What is retained, as long as no file operation fails.                   *)

LEMMA BytesSubset ==
    ASSUME NEW U, NEW V, IsFiniteSet(V), U \subseteq V
    PROVE  E!Bytes(U) \in Nat /\ E!Bytes(V) \in Nat /\ E!Bytes(U) <= E!Bytes(V)
<1> DEFINE u == {e \in U : e.bytes = 1}
           v == {e \in V : e.bytes = 1}
<1>1. u \subseteq v /\ v \subseteq V
  OBVIOUS
<1> HIDE DEF u, v
<1>2. IsFiniteSet(v)
  BY <1>1, FS_Subset
<1>3. IsFiniteSet(u) /\ Cardinality(u) <= Cardinality(v)
  BY <1>1, <1>2, FS_Subset
<1>4. Cardinality(u) \in Nat /\ Cardinality(v) \in Nat
  BY <1>2, <1>3, FS_CardinalityType
<1> QED BY <1>3, <1>4, SameCardinality DEF E!Bytes, u, v

LEMMA BytesUnion ==
    ASSUME NEW U, NEW V, IsFiniteSet(U), IsFiniteSet(V)
    PROVE  E!Bytes(U \cup V) <= E!Bytes(U) + E!Bytes(V)
<1> DEFINE u == {e \in U : e.bytes = 1}
           v == {e \in V : e.bytes = 1}
<1>1. u \subseteq U /\ v \subseteq V /\ {e \in U \cup V : e.bytes = 1} = u \cup v
  OBVIOUS
<1> HIDE DEF u, v
<1>2. IsFiniteSet(u) /\ IsFiniteSet(v)
  BY <1>1, FS_Subset
<1>3. /\ Cardinality(u \cup v) = Cardinality(u) + Cardinality(v) - Cardinality(u \cap v)
      /\ IsFiniteSet(u \cap v)
  BY <1>2, FS_Union, FS_Intersection
<1>4. Cardinality(u) \in Nat /\ Cardinality(v) \in Nat /\ Cardinality(u \cap v) \in Nat
  BY <1>2, <1>3, FS_CardinalityType
<1>5. Cardinality(u \cup v) <= Cardinality(u) + Cardinality(v)
  BY <1>3, <1>4
<1> QED BY <1>1, <1>5, SameCardinality DEF E!Bytes, u, v

\* A bound on a set bounds what is inside it.
LEMMA BytesWithin ==
    ASSUME NEW U, NEW V, IsFiniteSet(V), U \subseteq V, E!Bytes(V) <= Quota
    PROVE  E!Bytes(U) <= Quota
BY BytesSubset, EvidenceAssumption

KeptNative(p) == {e \in E!Mine(p, "native") : e.file = "kept"}
KeptGo(p) == {e \in E!Mine(p, "go") : e.run \in e_retained[p]}
JavaFiles == {e \in e_disk : e.adapter = "java"}
Decided == {"convert", "drop", "failed", "discard", "publish"}

\* The account of the process that may launch Java workloads.
JavaAccount(p) ==
    /\ E!Bytes({e \in JavaFiles : e.run # e_call[p].run}) <= Quota
    /\ \A e \in JavaFiles : e.run # e_call[p].run => e.run \in e_retained[p]
    /\ e_call[p].adapter = "java" /\ e_call[p].step \in Decided => E!Bytes(JavaFiles) <= Quota

QuotaInv ==
    e_faults = 0 => \A p \in Procs : e_up[p] = "up" =>
        /\ E!Bytes(KeptNative(p)) <= Quota
        /\ E!Bytes(KeptGo(p)) <= Quota
        /\ "java" \in e_launcher[p] => JavaAccount(p)

\* What a step of a call does to the three accounts.
Accounted(p) ==
    /\ \/ \A e \in e_disk' : e.run = e_call[p].run => e.file # "kept"
       \/ e_call[p].adapter = "native" /\ E!Bytes(KeptNative(p)') <= Quota
    /\ \/ e_call[p].run \notin e_retained'[p]
       \/ E!RootOf(e_call[p].adapter) # "go"
       \/ E!Bytes(KeptGo(p)') <= Quota
    /\ e_call[p].adapter = "java" =>
        \/ E!Bytes(JavaFiles') <= Quota
        \/ \A e \in e_disk' : e.run # e_call[p].run
        \/ e_call'[p] # E!Idle /\ e_call'[p].step \notin Decided

\* A step whose accounts hold keeps every quota.
LEMMA AccountedKeeps ==
    ASSUME EvidenceInv, EvidenceInv', QuotaInv, NEW p \in Procs, CallStep(p), Memory(p),
           e_faults' = 0, e_faults = 0, Accounted(p)
    PROVE  QuotaInv'
<1>0. /\ EvidenceType /\ TokenInv /\ FileInv /\ LeaseInv /\ EvidenceType' /\ LeaseInv'
      /\ IsFiniteSet(e_disk) /\ e_up[p] = "up" /\ e_up' = e_up
      /\ \A e \in e_disk : e.proc \in Procs /\ e.run # 0
      /\ \A e \in e_disk' : e.proc \in Procs /\ e.run # 0
  BY EvidenceAssumption DEF EvidenceInv, EvidenceType, CallStep, DiskEntry
<1>f. \A q : /\ KeptNative(q) \subseteq e_disk /\ KeptGo(q) \subseteq e_disk
             /\ JavaFiles \subseteq e_disk /\ {e \in JavaFiles : e.run # e_call[q].run} \subseteq e_disk
  BY DEF KeptNative, KeptGo, JavaFiles, E!Mine
<1>g. \A q : /\ IsFiniteSet(KeptNative(q)) /\ IsFiniteSet(KeptGo(q))
             /\ IsFiniteSet(JavaFiles) /\ IsFiniteSet({e \in JavaFiles : e.run # e_call[q].run})
  BY <1>0, <1>f, FS_Subset
<1>1. ASSUME NEW q \in Procs, e_up'[q] = "up"
      PROVE  E!Bytes(KeptNative(q)') <= Quota
  <2>1. E!Bytes(KeptNative(q)) <= Quota
    BY <1>0, <1>1 DEF QuotaInv
  <2>2. CASE \A e \in e_disk' : e.run = e_call[p].run => e.file # "kept" \/ q # p
    <3>1. KeptNative(q)' \subseteq KeptNative(q)
      BY <1>0, <2>2 DEF CallStep, KeptNative, E!Mine
    <3> QED BY <1>g, <2>1, <3>1, BytesWithin
  <2>3. CASE q = p /\ E!Bytes(KeptNative(p)') <= Quota
    BY <2>3
  <2> QED BY <2>2, <2>3 DEF Accounted
<1>2. ASSUME NEW q \in Procs, e_up'[q] = "up"
      PROVE  E!Bytes(KeptGo(q)') <= Quota
  <2>1. E!Bytes(KeptGo(q)) <= Quota
    BY <1>0, <1>2 DEF QuotaInv
  <2>2. CASE q = p /\ E!Bytes(KeptGo(p)') <= Quota
    BY <2>2
  <2>3. CASE q # p \/ e_call[p].run \notin e_retained'[p] \/ E!RootOf(e_call[p].adapter) # "go"
    <3>1. KeptGo(q)' \subseteq KeptGo(q)
      BY <1>0, <2>3 DEF CallStep, Memory, KeptGo, E!Mine
    <3> QED BY <1>g, <2>1, <3>1, BytesWithin
  <2> QED BY <2>2, <2>3 DEF Accounted
<1>3. ASSUME NEW q \in Procs, e_up'[q] = "up", "java" \in e_launcher'[q], q # p
      PROVE  JavaAccount(q)'
  <2>1. JavaAccount(q) /\ e_call'[q] = e_call[q] /\ e_retained'[q] = e_retained[q]
    BY <1>0, <1>3 DEF QuotaInv, CallStep, Memory
  <2>2. \A e \in JavaFiles' : e.run # e_call[p].run
    <3> SUFFICES ASSUME NEW e \in e_disk', e.adapter = "java", e.run = e_call[p].run
                 PROVE  FALSE
      BY DEF JavaFiles
    <3>1. e.proc = p
      BY DEF CallStep
    <3>2. "java" \in e_launcher'[p]
      BY <1>0, <3>1 DEF LeaseInv
    <3> QED BY <1>0, <1>3, <3>2 DEF LeaseInv
  <2>3. JavaFiles' \subseteq JavaFiles
    BY <2>2 DEF JavaFiles, CallStep
  <2>4. {e \in JavaFiles : e.run # e_call[q].run}' \subseteq {e \in JavaFiles : e.run # e_call[q].run}
    BY <2>1, <2>3
  <2>5. E!Bytes({e \in JavaFiles : e.run # e_call[q].run}') <= Quota
    BY <1>g, <2>1, <2>4, BytesWithin DEF JavaAccount
  <2>6. e_call[q].adapter = "java" /\ e_call[q].step \in Decided => E!Bytes(JavaFiles') <= Quota
    BY <1>g, <2>1, <2>3, BytesWithin DEF JavaAccount
  <2> QED BY <2>1, <2>3, <2>5, <2>6 DEF JavaAccount
<1>4. ASSUME "java" \in e_launcher'[p]
      PROVE  JavaAccount(p)'
  <2>1. JavaAccount(p)
    BY <1>0, <1>4 DEF QuotaInv, Memory
  <2>2. {e \in JavaFiles' : e.run # e_call[p].run} \subseteq {e \in JavaFiles : e.run # e_call[p].run}
    BY DEF JavaFiles, CallStep
  <2>3. E!Bytes({e \in JavaFiles' : e.run # e_call[p].run}) <= Quota
    BY <1>g, <2>1, <2>2, BytesWithin DEF JavaAccount
  <2>4. \A e \in JavaFiles' : e.run # e_call[p].run => e.run \in e_retained'[p]
    BY <2>1, <2>2 DEF JavaAccount, Memory
  <2>5. CASE e_call'[p] # E!Idle
    <3>1. e_call'[p].run = e_call[p].run /\ e_call'[p].adapter = e_call[p].adapter
      BY <2>5 DEF CallStep
    <3>2. ASSUME e_call[p].adapter = "java", e_call'[p].step \in Decided
          PROVE  E!Bytes(JavaFiles') <= Quota
      <4>1. CASE \A e \in e_disk' : e.run # e_call[p].run
        <5>1. JavaFiles' = {e \in JavaFiles' : e.run # e_call[p].run}
          BY <4>1 DEF JavaFiles
        <5> QED BY <2>3, <5>1
      <4> QED BY <3>2, <4>1 DEF Accounted
    <3> QED BY <2>3, <2>4, <3>1, <3>2 DEF JavaAccount
  <2>6. CASE e_call'[p] = E!Idle
    <3>1. {e \in JavaFiles : e.run # e_call[p].run}' = JavaFiles'
      BY <1>0, <2>6, IdleCall DEF JavaFiles
    <3>2. \A e \in JavaFiles' : e.run \in e_retained'[p]
      <4>1. \A e \in JavaFiles' : e.run = e_call[p].run => e.file # "kept"
        BY DEF Accounted, CallStep, JavaFiles
      <4>2. \A e \in JavaFiles' : e.run = e_call[p].run => e.file = "kept" \/ e.run \in e_retained'[p]
        BY <2>6 DEF CallStep, JavaFiles
      <4> QED BY <2>4, <4>1, <4>2
    <3>3. E!Bytes(JavaFiles') <= Quota
      <4>1. CASE \A e \in JavaFiles' : e.run # e_call[p].run
        <5>1. JavaFiles' = {e \in JavaFiles' : e.run # e_call[p].run}
          BY <4>1
        <5> QED BY <2>3, <5>1
      <4>2. CASE e_call[p].adapter # "java"
        BY <4>1, <4>2 DEF CallStep, JavaFiles
      <4> QED BY <2>6, <4>1, <4>2 DEF Accounted, JavaFiles
    <3>4. e_call'[p].step \notin Decided
      BY <2>6, IdleCall DEF Decided
    <3> QED BY <3>1, <3>2, <3>3, <3>4 DEF JavaAccount
  <2> QED BY <2>5, <2>6
<1> QED BY <1>1, <1>2, <1>3, <1>4 DEF QuotaInv

\* The steps up to the end of launch add nothing to an account.
LEMMA EarlyAccounted ==
    ASSUME EvidenceInv, NEW p \in Procs, e_faults' = e_faults,
           E!Preparing(p) \/ E!Launching(p), ~E!Inventory(p)
    PROVE  Accounted(p)
<1> USE DEF E!At, E!Adapter, E!Run, E!Machine
<1>0. /\ EvidenceType /\ CallStep(p) /\ e_faults \in Nat
      /\ e_call[p].run \in e_retained[p] => e_call[p].adapter = "java"
      /\ \A e \in e_disk : e.run = e_call[p].run =>
            e.file # "kept" /\ e_call[p].step \notin Before \cup {"publish"}
  BY PreparingSteps, LaunchingSteps DEF EvidenceInv, EvidenceType, TokenInv, FileInv
<1>1. e_retained' = e_retained
  <2>1. CASE E!Preparing(p)
    BY <2>1 DEF E!Preparing, E!GetNativeLauncher, E!GetCpythonLauncher, E!GetGoLauncher, E!GetLauncher,
     E!AcquireLease, E!InspectNativeTarget, E!InspectCpythonTarget, E!InspectGoTarget,
     E!InspectExecutableJar, E!InspectLoopbackTarget, E!InspectTarget, E!NativeSnapshot,
     E!CpythonSnapshot, E!GoSnapshot, E!JarSnapshot, E!SealedSnapshot, E!CreatePrivate, E!CreateFails
  <2>2. CASE E!Launching(p)
    BY <2>2 DEF E!Launching, E!ExecuteNative, E!ExecuteCpython, E!ExecuteGo, E!ExecuteJava, E!Execute,
     E!FetchLoopback, E!RecheckTarget, E!RenderJson, E!UndoNative, E!UndoCpython, E!UndoGo, E!UndoJava,
     E!UndoLaunch
  <2> QED BY <2>1, <2>2
<1>2. e_call[p].run \notin e_retained'[p] \/ E!RootOf(e_call[p].adapter) # "go"
  BY <1>0, <1>1 DEF E!RootOf
<1>3. CASE e_call'[p] # E!Idle /\ e_call'[p].step \notin Decided
  BY <1>0, <1>2, <1>3 DEF Accounted, CallStep
<1>4. CASE \A e \in e_disk' : e.run # e_call[p].run
  BY <1>2, <1>4 DEF Accounted
<1>5. ASSUME NEW t \in CallSteps \ (Decided \cup {"idle"}), E!Go(p, t)
      PROVE  Accounted(p)
  <2>1. e_call'[p] # E!Idle /\ e_call'[p].step \notin Decided
    BY <1>0, <1>5, GoCall, IdleCall
  <2> QED BY <1>3, <2>1
<1>6. CASE E!EndCall(p) /\ UNCHANGED e_disk /\ e_call[p].step \in Before
  BY <1>0, <1>4, <1>6
<1>7. CASE E!Preparing(p) /\ ~E!CreatePrivate(p) /\ ~E!SealedSnapshot(p)
  <2>1. ~E!CreateFails(p)
    BY <1>0 DEF E!CreateFails, E!Fault
  <2>2. \/ E!EndCall(p) /\ UNCHANGED e_disk /\ e_call[p].step \in Before
        \/ E!Go(p, "target") \/ E!Go(p, "inventory") \/ E!Go(p, "snapshot") \/ E!Go(p, "create")
    BY <1>7, <2>1 DEF E!Preparing, E!GetNativeLauncher, E!GetCpythonLauncher, E!GetGoLauncher, E!GetLauncher,
       E!AcquireLease, E!InspectNativeTarget, E!InspectCpythonTarget, E!InspectGoTarget,
       E!InspectExecutableJar, E!InspectLoopbackTarget, E!InspectTarget, E!NativeSnapshot,
       E!CpythonSnapshot, E!GoSnapshot, E!JarSnapshot, Before
  <2> QED BY <1>5, <1>6, <2>2 DEF CallSteps, Decided
<1>8. CASE E!SealedSnapshot(p)
  <2>1. e_call \in [Procs -> CallRecord]
    BY <1>0 DEF EvidenceType
  <2>2. CASE e_call' = [e_call EXCEPT ![p].step = "create", ![p].snap = e_content]
    <3>1. e_call'[p] = [e_call[p] EXCEPT !.step = "create", !.snap = e_content]
      BY <2>1, <2>2
    <3>2. e_call'[p].step = "create"
      BY <2>1, <3>1 DEF CallRecord
    <3> QED BY <1>3, <3>2, IdleCall DEF Decided
  <2>3. CASE E!EndCall(p)
    BY <1>6, <1>8, <2>3 DEF E!SealedSnapshot, Before
  <2> QED BY <1>8, <2>2, <2>3 DEF E!SealedSnapshot
<1>9. CASE E!CreatePrivate(p) \/ E!FetchLoopback(p) \/ E!RecheckTarget(p) \/ E!Execute(p) \/ E!RenderJson(p)
  <2>0. e_call \in [Procs -> CallRecord]
    BY <1>0 DEF EvidenceType
  <2>1. e_call'[p].step \in {"create", "execute", "recheck", "undo", "returned", "render", "launchfailed"}
    <3>1. CASE E!CreatePrivate(p)
      <4>1. PICK k, s : e_call' = [e_call EXCEPT ![p].made = k, ![p].step = s] /\ s \in {"execute", "create"}
        BY <3>1 DEF E!CreatePrivate
      <4>2. e_call'[p] = [e_call[p] EXCEPT !.made = k, !.step = s]
        BY <2>0, <4>1
      <4> QED BY <2>0, <4>1, <4>2 DEF CallRecord
    <3>2. CASE E!FetchLoopback(p)
      <4>1. CASE e_call' = [e_call EXCEPT ![p].step = "recheck", ![p].snap = e_owner]
        <5>1. e_call'[p] = [e_call[p] EXCEPT !.step = "recheck", !.snap = e_owner]
          BY <2>0, <4>1
        <5> QED BY <2>0, <5>1 DEF CallRecord
      <4>2. CASE E!Go(p, "undo")
        BY <1>0, <4>2, GoCall DEF CallSteps
      <4> QED BY <3>2, <4>1, <4>2 DEF E!FetchLoopback
    <3>3. CASE E!RecheckTarget(p)
      <4>1. ASSUME NEW x, e_call' = [e_call EXCEPT ![p].step = "returned", ![p].exit = x]
            PROVE  e_call'[p].step = "returned"
        <5>1. e_call'[p] = [e_call[p] EXCEPT !.step = "returned", !.exit = x]
          BY <2>0, <4>1
        <5> QED BY <2>0, <5>1 DEF CallRecord
      <4>2. CASE E!Go(p, "undo")
        BY <1>0, <4>2, GoCall DEF CallSteps
      <4> QED BY <3>3, <4>1, <4>2 DEF E!RecheckTarget
    <3>4. CASE E!Execute(p)
      <4>1. PICK x, s : e_call' = [e_call EXCEPT ![p].exit = x, ![p].step = s]
                        /\ s \in {"undo", "render", "returned"}
        BY <3>4 DEF E!Execute
      <4>2. e_call'[p] = [e_call[p] EXCEPT !.exit = x, !.step = s]
        BY <2>0, <4>1
      <4> QED BY <2>0, <4>1, <4>2 DEF CallRecord
    <3>5. CASE E!RenderJson(p)
      <4>1. E!Go(p, "returned") \/ E!Go(p, "launchfailed") \/ E!Go(p, "undo")
        BY <3>5 DEF E!RenderJson
      <4> QED BY <1>0, <4>1, GoCall DEF CallSteps
    <3> QED BY <1>9, <3>1, <3>2, <3>3, <3>4, <3>5
  <2> QED BY <1>3, <2>1, IdleCall DEF Decided
<1>10. CASE E!UndoLaunch(p)
  <2>1. E!Remove(p)
    BY <1>10 DEF E!UndoLaunch
  <2>2. \A e \in e_disk' : e.run # e_call[p].run
    BY <1>0, <2>1, RemovedFiles
  <2> QED BY <1>4, <2>2
<1> QED
  BY <1>7, <1>8, <1>9, <1>10 DEF E!Launching, E!ExecuteNative, E!ExecuteCpython, E!ExecuteGo,
     E!ExecuteJava, E!UndoNative, E!UndoCpython, E!UndoGo, E!UndoJava

\* A Java launch that fits is counted with everything else that Java left.
LEMMA JavaFits ==
    ASSUME EvidenceInv, QuotaInv, e_faults = 0, NEW p \in Procs, e_up[p] = "up",
           e_call[p].adapter = "java", e_call[p].step \notin {"idle", "launcher", "inventory"},
           E!WithinQuota(p)
    PROVE  E!Bytes(JavaFiles) <= Quota
<1> USE DEF E!Adapter, E!Run
<1>1. JavaAccount(p) /\ IsFiniteSet(e_disk) /\ Quota \in Nat
  BY EvidenceAssumption DEF EvidenceInv, LeaseInv, QuotaInv, EvidenceType
<1>2. E!Account(p) \subseteq e_disk /\ E!Of(e_call[p].run) \subseteq e_disk
  BY DEF E!Account, E!Of
<1>3. IsFiniteSet(E!Account(p)) /\ IsFiniteSet(E!Of(e_call[p].run))
  BY <1>1, <1>2, FS_Subset
<1>4. JavaFiles \subseteq E!Account(p) \cup E!Of(e_call[p].run)
  BY <1>1 DEF JavaAccount, JavaFiles, E!Account, E!Of, E!RootOf
<1>5. IsFiniteSet(E!Account(p) \cup E!Of(e_call[p].run))
      /\ E!Bytes(E!Account(p) \cup E!Of(e_call[p].run)) <= E!Bytes(E!Account(p)) + E!Bytes(E!Of(e_call[p].run))
  BY <1>3, BytesUnion, FS_Union
<1>6. E!Bytes(E!Account(p) \cup E!Of(e_call[p].run)) \in Nat /\ E!Bytes(E!Account(p)) \in Nat
      /\ E!Bytes(E!Of(e_call[p].run)) \in Nat
  BY <1>3, <1>5, BytesSubset
<1>7. E!Bytes(E!Account(p) \cup E!Of(e_call[p].run)) <= Quota
  BY <1>1, <1>5, <1>6 DEF E!WithinQuota
<1> QED BY <1>4, <1>5, <1>7, BytesWithin

LEMMA SettlingAccounted ==
    ASSUME EvidenceInv, QuotaInv, e_faults = 0, e_faults' = e_faults, NEW p \in Procs, E!Settling(p)
    PROVE  Accounted(p)
<1> USE DEF E!At, E!Adapter, E!Run, E!Machine
<1>0. /\ EvidenceType /\ CallStep(p) /\ Memory(p) /\ IsFiniteSet(e_disk) /\ e_up[p] = "up"
      /\ e_call[p].run \in e_retained[p] => e_call[p].adapter = "java"
      /\ \A e \in e_disk : e.run = e_call[p].run => e.file # "kept" /\ e.proc = p
                          /\ e.adapter = e_call[p].adapter
      /\ IsFiniteSet(JavaFiles)
      /\ e_call[p].run \in Runs
  <2>1. JavaFiles \subseteq e_disk
    BY DEF JavaFiles
  <2> QED BY <2>1, SettlingSteps, FS_Subset, EvidenceAssumption
       DEF EvidenceInv, EvidenceType, TokenInv, FileInv, CallStep, CallRecord
<1>1. CASE \A e \in e_disk' : e.run # e_call[p].run
  <2>1. e_call[p].run \in e_retained'[p] => E!RootOf(e_call[p].adapter) # "go" \/ E!Bytes(KeptGo(p)') <= Quota
    <3>1. KeptGo(p)' \subseteq KeptGo(p)
      BY <1>0, <1>1 DEF KeptGo, E!Mine, CallStep, Memory
    <3>2. E!Bytes(KeptGo(p)) <= Quota /\ KeptGo(p) \subseteq e_disk
      BY <1>0 DEF QuotaInv, KeptGo, E!Mine
    <3>3. IsFiniteSet(KeptGo(p))
      BY <1>0, <3>2, FS_Subset
    <3> QED BY <3>1, <3>2, <3>3, BytesWithin
  <2> QED BY <1>1, <2>1 DEF Accounted
<1>2. CASE E!Remove(p)
  <2>1. \A e \in e_disk' : e.run # e_call[p].run
    BY <1>0, <1>2, RemovedFiles
  <2> QED BY <1>1, <2>1
<1>3. CASE e_disk' = e_disk /\ e_call[p].adapter = "java" /\ (E!WithinQuota(p) \/ e_call[p].step \in Decided)
           /\ e_call[p].step \notin {"idle", "launcher", "inventory"}
  <2>1. E!Bytes(JavaFiles) <= Quota
    <3>1. CASE E!WithinQuota(p)
      BY <1>0, <1>3, <3>1, JavaFits
    <3>2. CASE e_call[p].step \in Decided
      BY <1>0, <1>3, <3>2 DEF QuotaInv, JavaAccount, EvidenceInv, LeaseInv
    <3> QED BY <1>3, <3>1, <3>2
  <2>2. JavaFiles' = JavaFiles
    BY <1>3 DEF JavaFiles
  <2> QED BY <1>0, <1>3, <2>1, <2>2 DEF Accounted, E!RootOf
<1>4. CASE e_call[p].adapter # "java" /\ e_retained' = e_retained
           /\ \A e \in e_disk' : e.run = e_call[p].run => e.file # "kept"
  BY <1>0, <1>4 DEF Accounted, E!RootOf
<1>5. CASE E!StreamReturned(p) \/ E!Convert(p)
  <2>1. e_disk' = e_disk /\ e_retained' = e_retained
    BY <1>5 DEF E!StreamReturned, E!Convert
  <2>2. e_call[p].adapter = "java" => e_call[p].step \in Decided
    BY <1>5 DEF E!StreamReturned, E!Convert, Decided
  <2> QED BY <1>0, <1>3, <1>4, <2>1, <2>2 DEF Decided
<1>6. CASE E!JavaLaunchFailed(p) \/ E!JavaReturned(p)
  <2>1. CASE e_call[p].adapter = "java"
    <3>1. \/ E!WithinQuota(p) /\ e_disk' = e_disk
          \/ E!Remove(p)
      BY <1>6 DEF E!JavaLaunchFailed, E!JavaReturned, E!Remove, E!Fault, E!NoFault
    <3>2. e_call[p].step \in {"launchfailed", "returned"}
      BY <1>6 DEF E!JavaLaunchFailed, E!JavaReturned
    <3> QED BY <1>2, <1>3, <2>1, <3>1, <3>2
  <2>2. CASE e_call[p].adapter # "java"
    BY <1>6, <2>2 DEF E!JavaLaunchFailed, E!JavaReturned, EvidenceInv, TokenInv, OfJava
  <2> QED BY <2>1, <2>2
<1>7. CASE E!RenderRaw(p)
  <2>1. e_call[p].adapter # "java" /\ e_retained' = e_retained
    BY <1>7 DEF E!RenderRaw, E!RootOf
  <2>2. e_disk' = e_disk \/ e_disk' = e_disk \cup {E!Entry(p, E!Adapter(p), E!Run(p), "raw", 1)}
    BY <1>7 DEF E!RenderRaw
  <2>3. \A e \in e_disk' : e.run = e_call[p].run => e.file # "kept"
    BY <1>0, <2>2 DEF E!Entry
  <2> QED BY <1>4, <2>1, <2>3
<1>8. CASE E!Drop(p) \/ E!Discard(p)
  BY <1>2, <1>8 DEF E!Drop, E!Discard
<1>9. CASE E!RetainNative(p)
  <2> DEFINE own == E!Of(E!Run(p))
             others == E!Mine(p, "native") \ own
             kept == {[e EXCEPT !.file = "kept"] : e \in own}
  <2>1. CASE /\ \A e \in others : e.file = "kept"
             /\ E!Bytes(others) + E!Bytes(own) <= Quota
             /\ e_disk' = (e_disk \ own) \cup kept
    <3>1. own \subseteq e_disk /\ others \subseteq e_disk /\ own \subseteq DiskEntry
      BY <1>0 DEF E!Of, E!Mine, EvidenceType
    <3>2. IsFiniteSet(own) /\ IsFiniteSet(others)
      BY <1>0, <3>1, FS_Subset
    <3>3. KeptNative(p)' \subseteq others \cup kept
      BY <1>0, <2>1 DEF KeptNative, E!Mine
    <3>4. IsFiniteSet(kept) /\ E!Bytes(kept) <= E!Bytes(own)
      <4> DEFINE u == {e \in own : e.bytes = 1}
                 v == {e \in kept : e.bytes = 1}
                 f == [e \in u |-> [e EXCEPT !.file = "kept"]]
                 g == [e \in own |-> [e EXCEPT !.file = "kept"]]
      <4>1. g \in [own -> kept] /\ \A y \in kept : \E x \in own : g[x] = y
        OBVIOUS
      <4>2. f \in [u -> v] /\ \A y \in v : \E x \in u : f[x] = y
        BY <3>1 DEF DiskEntry
      <4>3. u \subseteq own
        OBVIOUS
      <4>4. E!Bytes(kept) = Cardinality(v) /\ E!Bytes(own) = Cardinality(u)
        BY SameCardinality DEF E!Bytes
      <4> HIDE DEF own, kept, u, v, f, g
      <4>5. IsFiniteSet(kept)
        BY <3>2, <4>1, ImageIsFinite, ZenonT(30)
      <4>6. IsFiniteSet(u)
        BY <3>2, <4>3, FS_Subset
      <4>7. Cardinality(v) <= Cardinality(u)
        BY <4>2, <4>6, ImageIsFinite, ZenonT(30)
      <4> QED BY <4>4, <4>5, <4>7
    <3> HIDE DEF own, others, kept
    <3>5. IsFiniteSet(others \cup kept) /\ E!Bytes(others \cup kept) <= E!Bytes(others) + E!Bytes(kept)
      BY <3>2, <3>4, BytesUnion, FS_Union
    <3>6. /\ E!Bytes(others \cup kept) \in Nat /\ E!Bytes(others) \in Nat /\ E!Bytes(kept) \in Nat
          /\ E!Bytes(own) \in Nat /\ Quota \in Nat
      BY <3>2, <3>4, <3>5, BytesSubset, EvidenceAssumption
    <3>7. E!Bytes(others \cup kept) <= Quota
      BY <2>1, <3>4, <3>5, <3>6
    <3>8. E!Bytes(KeptNative(p)') <= Quota
      BY <3>3, <3>5, <3>7, BytesWithin
    <3> QED BY <1>0, <1>9, <3>8 DEF Accounted, E!RetainNative, E!RootOf
  <2>2. CASE E!Remove(p)
    BY <1>2, <2>2
  <2> QED BY <1>9, <2>1, <2>2 DEF E!RetainNative
<1>10. CASE E!Retain(p) /\ e_call[p].adapter \in {"cpython", "java"}
  <2>1. e_disk' = e_disk /\ e_call[p].step = "failed"
    BY <1>10 DEF E!Retain
  <2>2. CASE e_call[p].adapter = "java"
    BY <1>3, <2>1, <2>2 DEF Decided
  <2>3. CASE e_call[p].adapter = "cpython"
    BY <1>0, <2>1, <2>3 DEF Accounted, E!RootOf
  <2> QED BY <1>10, <2>2, <2>3
<1>11. CASE E!RetainGo(p)
  <2>1. CASE E!Remove(p)
    BY <1>2, <2>1
  <2>2. CASE E!WithinQuota(p) /\ E!Keep(p) /\ e_disk' = e_disk
    <3>1. E!RootOf(e_call[p].adapter) = "go" /\ e_call[p].adapter # "java"
      BY <1>11 DEF E!RetainGo, E!RootOf
    <3>2. e_retained'[p] = e_retained[p] \cup {e_call[p].run}
      BY <1>0, <2>2 DEF E!Keep, EvidenceType
    <3>3. E!Account(p) \subseteq e_disk /\ E!Of(e_call[p].run) \subseteq e_disk
      BY DEF E!Account, E!Of
    <3>4. IsFiniteSet(E!Account(p)) /\ IsFiniteSet(E!Of(e_call[p].run))
      BY <1>0, <3>3, FS_Subset
    <3>5. KeptGo(p)' \subseteq E!Account(p) \cup E!Of(e_call[p].run)
      BY <1>0, <2>2, <3>1, <3>2 DEF KeptGo, E!Mine, E!Account, E!Of
    <3>6. IsFiniteSet(E!Account(p) \cup E!Of(e_call[p].run))
          /\ E!Bytes(E!Account(p) \cup E!Of(e_call[p].run)) <= E!Bytes(E!Account(p)) + E!Bytes(E!Of(e_call[p].run))
      BY <3>4, BytesUnion, FS_Union
    <3>7. E!Bytes(E!Account(p) \cup E!Of(e_call[p].run)) \in Nat /\ E!Bytes(E!Account(p)) \in Nat
          /\ E!Bytes(E!Of(e_call[p].run)) \in Nat /\ Quota \in Nat
      BY <3>4, <3>6, BytesSubset, EvidenceAssumption
    <3>8. E!Bytes(E!Account(p) \cup E!Of(e_call[p].run)) <= Quota
      BY <2>2, <3>6, <3>7 DEF E!WithinQuota
    <3>9. E!Bytes(KeptGo(p)') <= Quota
      BY <3>5, <3>6, <3>8, BytesWithin
    <3> QED BY <1>0, <2>2, <3>1, <3>9 DEF Accounted
  <2> QED BY <1>11, <2>1, <2>2 DEF E!RetainGo
<1>12. CASE E!Publish(p)
  BY <1>1, <1>12 DEF E!Publish, EvidenceInv, FileInv
<1> QED
  BY <1>5, <1>6, <1>7, <1>8, <1>9, <1>10, <1>11, <1>12 DEF E!Settling,
     E!ConvertNative, E!ConvertCpython, E!ConvertGo, E!ConvertLoopback, E!ConvertJava,
     E!RetainCpython, E!RetainJava, E!DiscardNative, E!DiscardCpython, E!DiscardGo, E!DiscardJava

\* The inventory counts what every process left before it lets a process launch.
LEMMA InventoryQuota ==
    ASSUME EvidenceInv, EvidenceInv', QuotaInv, e_faults = 0, NEW p \in Procs, E!Inventory(p)
    PROVE  QuotaInv'
<1> USE DEF E!At
<1>0. /\ EvidenceType /\ FileInv /\ LeaseInv /\ LeaseInv' /\ TokenInv /\ IsFiniteSet(e_disk)
      /\ e_up[p] = "up" /\ e_lease = p /\ e_call[p].step = "inventory" /\ e_call[p].adapter = "java"
      /\ UNCHANGED <<e_disk, e_up, e_faults>>
      /\ \A q \in Procs \ {p} : e_call'[q] = e_call[q]
      /\ \A e \in e_disk : e.run # e_call[p].run
  BY DEF EvidenceInv, EvidenceType, LeaseInv, TokenInv, FileInv, E!Inventory, OfJava, Before,
     E!Go, E!EndCall
<1>1. /\ \A q \in Procs \ {p} : e_retained'[q] = e_retained[q] /\ e_launcher'[q] = e_launcher[q]
      /\ e_retained'[p] \subseteq e_retained[p] \cup E!JavaRuns /\ e_retained[p] \subseteq e_retained'[p]
  BY <1>0 DEF E!Inventory, EvidenceType
<1>2. ASSUME NEW q \in Procs, e_up[q] = "up"
      PROVE  KeptNative(q)' = KeptNative(q) /\ KeptGo(q)' = KeptGo(q)
  <2>1. KeptNative(q)' = KeptNative(q)
    BY <1>0 DEF KeptNative, E!Mine
  <2>2. \A e \in e_disk : e.run \in E!JavaRuns => e.adapter = "java"
    BY <1>0 DEF E!JavaRuns, FileInv
  <2>3. KeptGo(q)' = KeptGo(q)
    BY <1>0, <1>1, <2>2 DEF KeptGo, E!Mine, E!RootOf
  <2> QED BY <2>1, <2>3
<1>3. ASSUME NEW q \in Procs, e_up[q] = "up", "java" \in e_launcher'[q]
      PROVE  JavaAccount(q)'
  <2>1. q = p
    <3>1. CASE q # p
      BY <1>0, <1>1, <1>3, <3>1 DEF LeaseInv
    <3> QED BY <3>1
  <2>2. /\ \A r \in E!JavaRuns : E!RunComplete(r)
        /\ E!Retention(E!JavaRuns) <= Quota
        /\ e_retained' = [e_retained EXCEPT ![p] = @ \cup E!JavaRuns]
        /\ E!Go(p, "target")
    BY <1>0, <1>3, <2>1 DEF E!Inventory, LeaseInv
  <2>3. e_call'[p].step = "target" /\ e_call'[p].run = e_call[p].run
    BY <1>0, <2>2, GoCall DEF CallSteps
  <2>4. JavaFiles' = JavaFiles /\ \A e \in JavaFiles : e.run \in E!JavaRuns
    BY <1>0 DEF JavaFiles, E!JavaRuns
  <2>5. e_retained'[p] = e_retained[p] \cup E!JavaRuns
    BY <1>0, <2>2 DEF EvidenceType
  <2> DEFINE left == {e \in e_disk : e.run \in E!JavaRuns}
  <2>6. left \subseteq e_disk /\ E!Bytes(left) <= Quota /\ JavaFiles \subseteq left
    BY <2>2, <2>4 DEF E!Retention, JavaFiles
  <2>7. {e \in JavaFiles : e.run # e_call[p].run}' \subseteq left
    BY <2>4, <2>6
  <2> HIDE DEF left
  <2>8. IsFiniteSet(left)
    BY <1>0, <2>6, FS_Subset
  <2>9. E!Bytes({e \in JavaFiles : e.run # e_call[p].run}') <= Quota
    BY <2>6, <2>7, <2>8, BytesWithin
  <2> QED BY <2>1, <2>3, <2>4, <2>5, <2>9 DEF JavaAccount, Decided
<1> QED BY <1>0, <1>2, <1>3 DEF QuotaInv

\* Steps that move no file into an account.
LEMMA OutsideQuota ==
    ASSUME EvidenceInv, EvidenceInv', QuotaInv, e_faults = 0, NEW p \in Procs,
           UNCHANGED <<e_retained, e_launcher, e_faults>>, e_disk' \subseteq e_disk,
           \A q \in Procs \ {p} : e_up'[q] = e_up[q] /\ e_call'[q] = e_call[q],
           \/ e_up'[p] # "up"
           \/ e_up'[p] = "up" /\ e_up[p] = "new" /\ UNCHANGED e_disk
           \/ /\ e_up'[p] = "up" /\ e_up[p] = "up" /\ UNCHANGED e_disk
              /\ e_call[p].run = 0 /\ e_call'[p].step \notin Decided
    PROVE  QuotaInv'
<1>0. /\ EvidenceType /\ TokenInv /\ IsFiniteSet(e_disk) /\ Quota \in Nat
      /\ \A e \in e_disk : e.run # 0 /\ e.proc \in Procs
  BY EvidenceAssumption DEF EvidenceInv, EvidenceType, DiskEntry
<1>f. \A q : /\ KeptNative(q) \subseteq e_disk /\ KeptGo(q) \subseteq e_disk
             /\ JavaFiles \subseteq e_disk /\ {e \in JavaFiles : e.run # e_call[q].run} \subseteq e_disk
  BY DEF KeptNative, KeptGo, JavaFiles, E!Mine
<1>g. \A q : /\ IsFiniteSet(KeptNative(q)) /\ IsFiniteSet(KeptGo(q))
             /\ IsFiniteSet(JavaFiles) /\ IsFiniteSet({e \in JavaFiles : e.run # e_call[q].run})
  BY <1>0, <1>f, FS_Subset
<1>1. ASSUME NEW q \in Procs, e_up'[q] = "up"
      PROVE  /\ KeptNative(q)' \subseteq KeptNative(q) /\ KeptGo(q)' \subseteq KeptGo(q)
             /\ JavaFiles' \subseteq JavaFiles
  BY DEF KeptNative, KeptGo, JavaFiles, E!Mine
<1>2. ASSUME NEW q \in Procs, e_up'[q] = "up", e_up[q] = "up"
      PROVE  /\ E!Bytes(KeptNative(q)') <= Quota /\ E!Bytes(KeptGo(q)') <= Quota
             /\ "java" \in e_launcher'[q] => JavaAccount(q)'
  <2>1. E!Bytes(KeptNative(q)) <= Quota /\ E!Bytes(KeptGo(q)) <= Quota
    BY <1>2 DEF QuotaInv
  <2>2. E!Bytes(KeptNative(q)') <= Quota /\ E!Bytes(KeptGo(q)') <= Quota
    BY <1>1, <1>2, <1>g, <2>1, BytesWithin
  <2>3. ASSUME "java" \in e_launcher'[q]
        PROVE  JavaAccount(q)'
    <3>1. JavaAccount(q)
      BY <1>2, <2>3 DEF QuotaInv
    <3>2. {e \in JavaFiles : e.run # e_call[q].run}' \subseteq {e \in JavaFiles : e.run # e_call[q].run}
      BY <1>0, <1>1, <1>2, <1>f
    <3>3. E!Bytes({e \in JavaFiles : e.run # e_call[q].run}') <= Quota
      BY <1>g, <3>1, <3>2, BytesWithin DEF JavaAccount
    <3>4. \A e \in JavaFiles' : e.run # e_call'[q].run => e.run \in e_retained'[q]
      BY <3>1, <3>2 DEF JavaAccount
    <3>5. e_call'[q].adapter = "java" /\ e_call'[q].step \in Decided => E!Bytes(JavaFiles') <= Quota
      BY <1>1, <1>2, <1>g, <3>1, BytesWithin DEF JavaAccount
    <3> QED BY <3>3, <3>4, <3>5 DEF JavaAccount
  <2> QED BY <2>2, <2>3
<1>3. ASSUME NEW q \in Procs, e_up'[q] = "up", e_up[q] # "up"
      PROVE  /\ E!Bytes(KeptNative(q)') <= Quota /\ E!Bytes(KeptGo(q)') <= Quota
             /\ "java" \notin e_launcher'[q]
  <2>1. q = p /\ e_up[p] = "new" /\ UNCHANGED e_disk
    BY <1>3
  <2>2. \A e \in e_disk : e.proc # p
    BY <1>0, <2>1 DEF TokenInv
  <2>3. KeptNative(q)' = {} /\ KeptGo(q)' = {}
    BY <2>1, <2>2 DEF KeptNative, KeptGo, E!Mine
  <2>4. E!Bytes({}) = 0
    BY FS_EmptySet, SameCardinality, {e \in {} : e.bytes = 1} = {} DEF E!Bytes
  <2> QED BY <1>0, <2>1, <2>3, <2>4 DEF TokenInv
<1> QED BY <1>2, <1>3 DEF QuotaInv

LEMMA NextQuota ==
    ASSUME EvidenceInv, QuotaInv, [E!Next]_(E!vars)
    PROVE  QuotaInv'
<1> SUFFICES ASSUME e_faults' = 0
             PROVE  QuotaInv'
  BY DEF QuotaInv
<1>0. EvidenceInv' /\ e_faults \in Nat /\ EvidenceType /\ TokenInv
  BY NextEvidence DEF EvidenceInv, EvidenceType
<1>1. CASE Idling
  <2>1. UNCHANGED <<e_disk, e_up, e_launcher, e_retained, e_call, e_faults>>
    BY <1>1, IdlingKeeps
  <2> QED BY <2>1 DEF QuotaInv, KeptNative, KeptGo, JavaFiles, JavaAccount, E!Mine
<1>2. ASSUME NEW p \in Procs, E!Preparing(p) \/ E!Launching(p) \/ E!Settling(p)
      PROVE  QuotaInv'
  <2>1. CallStep(p)
    BY <1>2, PreparingSteps, LaunchingSteps, SettlingSteps
  <2>2. e_faults = 0 /\ e_faults' = e_faults
    BY <1>0, <2>1 DEF CallStep
  <2>3. CASE E!Inventory(p)
    BY <1>0, <2>2, <2>3, InventoryQuota
  <2>4. CASE ~E!Inventory(p)
    <3>1. Memory(p)
      BY <1>2, <2>4, AtInventory, PreparingSteps, LaunchingSteps, SettlingSteps
    <3>2. Accounted(p)
      BY <1>2, <2>2, <2>4, EarlyAccounted, SettlingAccounted
    <3> QED BY <1>0, <2>1, <2>2, <3>1, <3>2, AccountedKeeps
  <2> QED BY <2>3, <2>4
<1>3. ASSUME NEW p \in Procs, NEW a \in E!Adapters, NEW r \in Runs, E!Collect(p, a, r)
      PROVE  QuotaInv'
  <2>1. /\ UNCHANGED <<e_retained, e_launcher, e_faults, e_disk, e_up>> /\ e_up[p] = "up" /\ e_call[p].run = 0
        /\ \E s \in {"target", "launcher"} :
             e_call' = [e_call EXCEPT ![p] = [E!Idle EXCEPT !.step = s, !.adapter = a, !.run = r]]
    BY <1>0, <1>3 DEF E!Collect, E!At, TokenInv
  <2>2. (\A q \in Procs \ {p} : e_call'[q] = e_call[q]) /\ e_call'[p].step \in {"target", "launcher"}
    BY <1>0, <2>1 DEF E!Idle, EvidenceType
  <2> QED BY <1>0, <2>1, <2>2, OutsideQuota DEF Decided
<1>4. ASSUME NEW p \in Procs, E!StartProcess(p) \/ E!Shutdown(p) \/ E!Crash(p)
      PROVE  QuotaInv'
  <2>1. /\ UNCHANGED <<e_retained, e_launcher, e_faults>> /\ e_disk' \subseteq e_disk
        /\ \A q \in Procs \ {p} : e_call'[q] = e_call[q]
        /\ \A q \in Procs \ {p} : e_up'[q] = e_up[q]
        /\ \/ e_up'[p] # "up"
           \/ e_up'[p] = "up" /\ e_up[p] = "new" /\ UNCHANGED e_disk
    BY <1>0, <1>4 DEF E!StartProcess, E!Shutdown, E!Crash, E!At, E!EndCall, EvidenceType
  <2> QED BY <1>0, <2>1, OutsideQuota
<1> QED BY <1>1, <1>2, <1>3, <1>4, EvidenceSteps

\* The accounts in the words of the model.
LEMMA FilesAccount ==
    ASSUME EvidenceInv, QuotaInv
    PROVE  E!QuotaHeld /\ E!JavaRecovered
<1>1. E!QuotaHeld
  <2>1. \A p \in Procs : {e \in JavaFiles : e.run # e_call[p].run}
                         = {e \in e_disk : e.adapter = "java" /\ e.run # E!Run(p)}
    BY DEF JavaFiles, E!Run
  <2> QED BY <2>1 DEF QuotaInv, E!QuotaHeld, KeptNative, KeptGo, JavaAccount
<1>2. E!JavaRecovered
  BY DEF EvidenceInv, LeaseInv, E!JavaRecovered
<1> QED BY <1>1, <1>2

LEMMA InitAccounts == E!Init => AuthorizedInv /\ E!LeakNeedsFault /\ QuotaInv
<1> SUFFICES ASSUME E!Init
             PROVE  AuthorizedInv /\ E!LeakNeedsFault /\ QuotaInv
  OBVIOUS
<1>1. AuthorizedInv
  BY DEF E!Init, E!Idle, AuthorizedInv, E!ExecutesAuthorized
<1>2. Leaked = {}
  BY LeakedRuns DEF E!Init, LeftBehind
<1>3. E!LeakNeedsFault
  BY <1>2, FS_EmptySet, SameCardinality DEF E!Init, Leaked, E!LeakNeedsFault
<1>4. QuotaInv
  BY DEF E!Init, QuotaInv
<1> QED BY <1>1, <1>3, <1>4

----------------------------------------------------------------------------
(* The pthread probe and its children (PthreadProbe).                      *)

\* A copy of the probe that could still write is one that enter_probe and
\* probe_finalize recognise as a copy: it is configured and has the descriptor.
TargetStream == \E records : p_stream \in Seq(records) /\ \A r \in records : r.by = "target"

ChildInv ==
    /\ p_probe = [phase |-> p_probe.phase, configured |-> p_probe.configured,
                active |-> p_probe.active, truncated |-> p_probe.truncated,
                emitted |-> p_probe.emitted, sequence |-> p_probe.sequence]
    /\ p_probe.active \in BOOLEAN /\ (p_probe.active => p_probe.configured)
    /\ p_child = [at |-> p_child.at, configured |-> p_child.configured, active |-> p_child.active,
                fd |-> p_child.fd, flag |-> p_child.flag, tid |-> p_child.tid]
    /\ p_child.active \in BOOLEAN
    /\ p_child.active => p_child.configured /\ p_child.fd = "open"
    /\ TargetStream

LEMMA InitChild == P!Init => ChildInv
<1> SUFFICES ASSUME P!Init PROVE ChildInv
  OBVIOUS
<1>1. p_stream \in Seq({}) /\ \A r \in {} : r.by = "target"
  BY DEF P!Init
<1>2. TargetStream
  BY <1>1 DEF TargetStream
<1> QED BY <1>2 DEF P!Init, ChildInv, P!NoChild

LEMMA ChildIsSilent == ChildInv => P!ChildSilent
BY DEF ChildInv, TargetStream, P!ChildSilent

LEMMA NextChild ==
    ASSUME ChildInv, [P!Next]_(P!vars)
    PROVE  ChildInv'
<1>r. PICK records : p_stream \in Seq(records) /\ \A r \in records : r.by = "target"
  BY DEF ChildInv, TargetStream
<1>a. ASSUME NEW e, e.by = "target", p_stream' = Append(p_stream, e)
      PROVE  TargetStream'
  <2>1. p_stream' \in Seq(records \cup {e}) /\ \A r \in records \cup {e} : r.by = "target"
    BY <1>r, <1>a
  <2> QED BY <2>1 DEF TargetStream
<1>b. ASSUME UNCHANGED p_stream
      PROVE  TargetStream'
  BY <1>r, <1>b DEF TargetStream
<1>1. CASE UNCHANGED <<p_probe, p_stream, p_child>>
  BY <1>1 DEF ChildInv, TargetStream
<1>2. ASSUME NEW outcome \in {"refused", "unwritten", "written"}, P!Initialize(outcome)
      PROVE  ChildInv'
  BY <1>2, <1>b DEF P!Initialize, ChildInv
<1>3. CASE P!Finalize
  <2>1. /\ p_child' = p_child
        /\ p_probe' = [p_probe EXCEPT !.phase = "final", !.active = FALSE,
                                  !.sequence = IF p_probe.active THEN p_probe.sequence + 1 ELSE p_probe.sequence]
        /\ p_stream' = Append(p_stream, P!Footer(p_probe, "target")) \/ UNCHANGED p_stream
    BY <1>3 DEF P!Finalize
  <2>2. P!Footer(p_probe, "target").by = "target"
    BY DEF P!Footer
  <2>3. TargetStream'
    BY <1>a, <1>b, <2>1, <2>2
  <2>4. /\ p_probe' = [phase |-> p_probe'.phase, configured |-> p_probe'.configured,
                     active |-> p_probe'.active, truncated |-> p_probe'.truncated,
                     emitted |-> p_probe'.emitted, sequence |-> p_probe'.sequence]
        /\ p_probe'.active = FALSE
    BY <2>1 DEF ChildInv
  <2> QED BY <2>1, <2>3, <2>4 DEF ChildInv
<1>4. CASE P!ChildCall
  <2>1. p_probe' = p_probe
    BY <1>4 DEF P!ChildCall
  <2>2. CASE p_child.fd = "open" /\ p_child.active
    <3>1. /\ p_child' = [P!atfork_child(p_child) EXCEPT !.at = "called"] /\ ~P!atfork_child(p_child).active
          /\ UNCHANGED p_stream
      BY <1>4, <2>2 DEF P!ChildCall, ChildInv, P!ensure_process_identity, P!atfork_child
    <3>2. p_child' = [at |-> "called", configured |-> FALSE, active |-> FALSE,
                    fd |-> "closed", flag |-> "free", tid |-> p_child.tid]
      BY <3>1 DEF ChildInv, P!atfork_child
    <3>3. TargetStream'
      BY <1>b, <3>1
    <3> QED BY <2>1, <3>2, <3>3 DEF ChildInv
  <2>3. CASE ~(p_child.fd = "open" /\ p_child.active)
    <3>1. p_child.active = FALSE
      BY <2>3 DEF ChildInv
    <3>2. p_child' = [p_child EXCEPT !.at = "called"] /\ UNCHANGED p_stream
      BY <1>4, <2>3, <3>1 DEF P!ChildCall
    <3>3. p_child' = [at |-> "called", configured |-> p_child.configured, active |-> FALSE,
                    fd |-> p_child.fd, flag |-> p_child.flag, tid |-> p_child.tid]
      BY <3>1, <3>2 DEF ChildInv
    <3> QED BY <1>b, <2>1, <3>2, <3>3 DEF ChildInv
  <2> QED BY <2>2, <2>3
<1>5. CASE P!ChildExit
  <2>1. ~P!ensure_process_identity(p_child).active
    BY DEF ChildInv, P!ensure_process_identity, P!atfork_child
  <2>2. p_probe' = p_probe /\ p_child' = P!NoChild /\ UNCHANGED p_stream
    BY <1>5, <2>1 DEF P!ChildExit
  <2> QED BY <1>b, <2>2 DEF ChildInv, P!NoChild
<1>6. ASSUME NEW t \in Threads, P!WriteEvent(t) \/ P!WriteFails(t) \/ P!MarkLost(t)
      PROVE  ChildInv'
  <2>1. p_child' = p_child
    BY <1>6 DEF P!WriteEvent, P!WriteFails, P!MarkLost, P!Continue
  <2>2. P!Event(t).by = "target"
    BY DEF P!Event
  <2>3. p_stream' = Append(p_stream, P!Event(t)) \/ UNCHANGED p_stream
    BY <1>6 DEF P!WriteEvent, P!WriteFails, P!MarkLost
  <2>4. TargetStream'
    BY <1>a, <1>b, <2>2, <2>3
  <2>5. \/ UNCHANGED p_probe
        \/ p_probe' = [p_probe EXCEPT !.truncated = TRUE]
        \/ p_probe' = [p_probe EXCEPT !.sequence = p_probe.sequence + 1, !.emitted = p_probe.emitted + 1]
        \/ p_probe' = [p_probe EXCEPT !.sequence = p_probe.sequence + 1, !.truncated = TRUE, !.active = FALSE]
    BY <1>6 DEF P!WriteEvent, P!WriteFails, P!MarkLost, P!mark_lost
  <2>6. /\ p_probe' = [phase |-> p_probe'.phase, configured |-> p_probe'.configured,
                     active |-> p_probe'.active, truncated |-> p_probe'.truncated,
                     emitted |-> p_probe'.emitted, sequence |-> p_probe'.sequence]
        /\ p_probe'.active \in {p_probe.active, FALSE} /\ p_probe'.configured = p_probe.configured
    BY <2>5 DEF ChildInv
  <2> QED BY <2>1, <2>4, <2>6 DEF ChildInv
<1>7. ASSUME NEW t \in Threads, NEW flag \in {"free", "taken"}, P!Fork(t, flag) \/ P!Clone(t, flag)
      PROVE  ChildInv'
  <2>1. /\ UNCHANGED <<p_probe, p_stream>>
        /\ p_child' = P!Copied(t, flag) \/ p_child' = P!atfork_child(P!Copied(t, flag))
    BY <1>7 DEF P!Fork, P!Clone
  <2>2. /\ P!Copied(t, flag).active = p_probe.active
        /\ p_probe.active => P!Copied(t, flag).configured /\ P!Copied(t, flag).fd = "open"
    BY DEF P!Copied, ChildInv
  <2>3. p_child' = P!Copied(t, flag) =>
          /\ p_child' = [at |-> p_child'.at, configured |-> p_child'.configured, active |-> p_child'.active,
                       fd |-> p_child'.fd, flag |-> p_child'.flag, tid |-> p_child'.tid]
          /\ p_child'.active \in BOOLEAN /\ (p_child'.active => p_child'.configured /\ p_child'.fd = "open")
    BY <2>2 DEF P!Copied, ChildInv
  <2>4. p_child' = P!atfork_child(P!Copied(t, flag)) =>
          /\ p_child' = [at |-> p_child'.at, configured |-> p_child'.configured, active |-> p_child'.active,
                       fd |-> p_child'.fd, flag |-> p_child'.flag, tid |-> p_child'.tid]
          /\ p_child'.active = FALSE
    BY DEF P!Copied, P!atfork_child
  <2> QED BY <1>b, <2>1, <2>3, <2>4 DEF ChildInv
<1>8. ASSUME NEW t \in Threads,
             \/ \E token \in P!TokensOf(p_config.kind) : P!Lock(t, token)
             \/ \E slow \in BOOLEAN : P!LockReturns(t, slow) \/ P!LockFails(t, slow)
                                       \/ P!Wake(t, slow) \/ P!WaitRefused(t, slow)
             \/ P!Unlock(t) \/ P!PassThrough(t) \/ P!Wait(t) \/ P!Sleep(t) \/ P!Cancel(t)
      PROVE  ChildInv'
  BY <1>1, <1>8 DEF P!Lock, P!LockReturns, P!LockFails, P!Wake, P!WaitRefused, P!Unlock, P!PassThrough, P!Wait,
     P!Sleep, P!Cancel
<1>9. CASE UNCHANGED P!vars
  BY <1>1, <1>9 DEF P!vars
<1> QED
  BY <1>2, <1>3, <1>4, <1>5, <1>6, <1>7, <1>8, <1>9 DEF P!Next

----------------------------------------------------------------------------
(* The composition: a behaviour of AllSpec runs one component.             *)

LEMMA EvidencePart == [AllNext]_all => [E!Next]_(E!vars)
BY DEF AllNext, all, e_vars, E!vars

LEMMA ProbePart == [AllNext]_all => [P!Next]_(P!vars)
BY DEF AllNext, all, p_vars, P!vars

\* What a launcher executes and what it captures is what the capability was
\* issued for, however the target is edited or replaced and whoever takes its
\* socket (runtime_locks/native_launcher.py and its siblings).
THEOREM LaunchersExecuteAuthorized == AllSpec => []ExecutesAuthorized
<1>1. AllInit => EvidenceInv /\ AuthorizedInv
  BY InitEvidence, InitAccounts DEF AllInit
<1>2. EvidenceInv /\ AuthorizedInv /\ [AllNext]_all => EvidenceInv' /\ AuthorizedInv'
  BY EvidencePart, NextEvidence, NextAuthorized
<1>3. AuthorizedInv => ExecutesAuthorized
  BY DEF AuthorizedInv, ExecutesAuthorized
<1> QED BY <1>1, <1>2, <1>3, PTL DEF AllSpec

\* No private file of a launcher is forgotten without a failed file operation,
\* and what is retained stays within the quota, whatever the interleaving of the
\* tool calls, the Java inventories, the exits and the kills of the processes
\* (runtime_locks/*_launcher.py).
THEOREM LaunchersAccountFiles == AllSpec => []FilesAccounted
<1>1. AllInit => EvidenceInv /\ E!LeakNeedsFault /\ QuotaInv
  BY InitEvidence, InitAccounts DEF AllInit
<1>2. EvidenceInv /\ E!LeakNeedsFault /\ QuotaInv /\ [AllNext]_all =>
         EvidenceInv' /\ (E!LeakNeedsFault)' /\ QuotaInv'
  BY EvidencePart, NextEvidence, NextLeak, NextQuota
<1>3. EvidenceInv /\ E!LeakNeedsFault /\ QuotaInv => FilesAccounted
  BY FilesAccount DEF FilesAccounted, E!FilesRemembered
<1> QED BY <1>1, <1>2, <1>3, PTL DEF AllSpec

\* Every record in the stream of a probed process was written by that process,
\* whatever thread forks or clones it, whenever, and with the output lock free or
\* taken (native/pthread_probe/perflens_pthread_probe.c).
THEOREM ProbeChildSilent == AllSpec => []ChildSilent
<1>1. AllInit => ChildInv
  BY InitChild DEF AllInit
<1>2. ChildInv /\ [AllNext]_all => ChildInv'
  BY ProbePart, NextChild
<1>3. ChildInv => ChildSilent
  BY ChildIsSilent DEF ChildSilent
<1> QED BY <1>1, <1>2, <1>3, PTL DEF AllSpec
=============================================================================
