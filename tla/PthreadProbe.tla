---------------------------- MODULE PthreadProbe ----------------------------
(***************************************************************************)
(* The glibc pthread LD_PRELOAD probe and the converter that reads what it *)
(* wrote: native/pthread_probe/perflens_pthread_probe.c and                *)
(* runtime_locks/native_pthread_converter.py.                              *)
(*                                                                         *)
(* The threads of one workload call the exported wrappers on one lock (a   *)
(* mutex, a recursive mutex or a rwlock) and on one condition.  A wrapper  *)
(* performs the real call and writes wait_begin, wait_end, acquire and     *)
(* release records through one spin-locked descriptor; each thread keeps a *)
(* private list of the acquisitions whose release it still has to write.   *)
(* The process may exit, and so write the footer, while calls are under    *)
(* way; it may fork, or clone without the fork handlers; writes may fail.  *)
(*                                                                         *)
(* What a thread does under output_lock is one step: every access to the   *)
(* counters and to the descriptor is inside it.  The check of `active'     *)
(* before the lock is taken has no step of its own: active never becomes   *)
(* true again, so the check under the lock decides the same.  Timestamps   *)
(* are abstracted to whether a wait reached the threshold.                 *)
(***************************************************************************)
EXTENDS Naturals, Sequences, SequencesExt, FiniteSets

CONSTANTS Threads,   \* threads of the workload
          Limits,    \* values of PERFLENS_RUNTIME_LOCK_MAX_EVENTS
          Slots,     \* capacities of a thread's list of held locks
          MaxCalls   \* bound: wrapper calls and forks in a behaviour

VARIABLES
    config,   \* semantics, kind of lock, event limit, held slots
    probe,    \* the process-wide struct probe_state
    stream,   \* records in the output descriptor, in order
    th,       \* the wrapper call each thread is inside
    held,     \* thread-local held_locks
    truth,    \* the levels at which each thread really holds the lock, each
              \* with the sequence of its acquire record, 0 without one
    failed,   \* threads whose condition wait failed without releasing
    child,    \* the process a fork or clone made, with its copied state
    calls     \* wrapper calls and forks made

vars == <<config, probe, stream, th, held, truth, failed, child, calls>>

LockTokens == {"mutex", "recursive", "read", "write"}
Tokens == LockTokens \cup {"condition"}
TokensOf(kind) == IF kind = "rwlock" THEN {"read", "write"} ELSE {kind}

Idle == [at |-> "idle", op |-> "none", token |-> "mutex", pend |-> "none",
         begin |-> 0, related |-> 0, got |-> "none"]

NoChild == [at |-> "none", configured |-> FALSE, active |-> FALSE,
            fd |-> "closed", flag |-> "free", tid |-> "none"]

Init ==
    /\ config \in [exact : BOOLEAN, kind : {"mutex", "recursive", "rwlock"},
                   limit : Limits, slots : Slots]
    /\ probe = [phase |-> "new", configured |-> FALSE, active |-> FALSE,
                truncated |-> FALSE, emitted |-> 0, sequence |-> 0]
    /\ stream = <<>>
    /\ th = [t \in Threads |-> Idle]
    /\ held = [t \in Threads |-> <<>>]
    /\ truth = [t \in Threads |-> <<>>]
    /\ failed = {}
    /\ child = NoChild
    /\ calls = 0

(* probe_initialize, with configure_from_environment: refused settings     *)
(* leave the wrappers passing through, and a header that cannot be written *)
(* leaves the probe configured but inactive.                               *)
Initialize(outcome) ==
    /\ probe.phase = "new"
    /\ probe' = [probe EXCEPT !.phase = "running",
                              !.configured = outcome # "refused",
                              !.active = outcome = "written"]
    /\ UNCHANGED <<config, stream, th, held, truth, failed, child, calls>>

-----------------------------------------------------------------------------
(* The real lock *)

HoldsAny(t) == truth[t] # <<>>

Available(t, token) ==
    /\ \A u \in Threads \ {t} :
          HoldsAny(u) => token = "read" /\ truth[u][1].token = "read"
    /\ HoldsAny(t) => token \in {"recursive", "read"} /\ truth[t][1].token = token

Level(token) == [token |-> token, seq |-> 0]

-----------------------------------------------------------------------------
(* The thread-local list of held locks *)

held_capacity(t) == Len(held[t]) < config.slots

(* The position held_take removes: the newest entry of the token.          *)
held_take(list, token) ==
    LET found == {i \in DOMAIN list : list[i].token = token}
    IN  IF found = {} THEN 0 ELSE CHOOSE i \in found : \A j \in found : j <= i

(* The entry an unlock takes: rwlock_unlock tries the read token and then  *)
(* the write token, for pthread_rwlock_unlock does not say which it ends.  *)
UnlockEntry(list, token) ==
    LET read == held_take(list, "read")
    IN  IF token \notin {"read", "write"} THEN held_take(list, token)
        ELSE IF read # 0 /\ list[read].seq # 0 THEN read
        ELSE held_take(list, "write")

-----------------------------------------------------------------------------
(* What a wrapper does after an emission that returned seq.  A call is a   *)
(* record of where it is; `at' is "emit" before output_lock, "real" before *)
(* the real call, "wait" and "asleep" around the real condition wait,      *)
(* "lost" before mark_lost.                                                *)

Emit(c, event, token, related) ==
    [c EXCEPT !.at = "emit", !.pend = event, !.token = token, !.related = related]

Lose(c) == [c EXCEPT !.at = "lost"]

Observed(slow) == config.exact \/ slow

(* record_lock_result.  A begin record refused before the real call is     *)
(* tried again after it.                                                   *)
AfterReal(c, got, slow) ==
    LET done == [c EXCEPT !.got = got] IN
    IF ~Observed(slow) THEN Idle
    ELSE IF c.begin = 0 THEN Emit(done, "wait_begin", c.token, 0)
    ELSE Emit(done, "wait_end", c.token, c.begin)

AfterLockEvent(t, c, seq) ==
    CASE c.pend = "wait_begin" /\ c.got = "none" ->
             [c EXCEPT !.at = "real", !.begin = seq]
      [] c.pend = "wait_begin" /\ c.got # "none" ->
             IF seq = 0 THEN Idle
             ELSE Emit([c EXCEPT !.begin = seq], "wait_end", c.token, seq)
      [] c.pend = "wait_end" ->
             IF c.got # "acquired" \/ seq = 0 THEN Idle
             ELSE IF ~held_capacity(t) THEN Lose(c)
             ELSE Emit(c, "acquire", c.token, seq)
      [] c.pend = "acquire" -> Idle

(* record_condition_wait before the real wait: the mutex leaves the held   *)
(* list, and its release is written while it is still held.                *)
Parting(t, c) ==
    LET i == held_take(held[t], config.kind) IN
    IF i # 0 /\ held[t][i].seq # 0
    THEN Emit(c, "release", config.kind, held[t][i].seq)
    ELSE [c EXCEPT !.at = "wait"]

(* The end of record_condition_wait: after a wait that returned the mutex  *)
(* it is put back, with its acquire record when there is one.              *)
Regain(t, c, end) ==
    IF c.got = "failed" THEN Idle
    ELSE IF end # 0 /\ held_capacity(t) THEN Emit(c, "acquire", config.kind, 0)
    ELSE IF held_capacity(t) THEN Idle
    ELSE Lose(c)

AfterWaitEvent(t, c, seq) ==
    CASE c.pend = "wait_begin" /\ c.got = "none" ->
             Parting(t, [c EXCEPT !.begin = seq])
      [] c.pend = "release" -> [c EXCEPT !.at = "wait"]
      [] c.pend = "wait_begin" /\ c.got # "none" ->
             IF seq = 0 THEN Regain(t, c, 0)
             ELSE Emit([c EXCEPT !.begin = seq], "wait_end", "condition", seq)
      [] c.pend = "wait_end" -> Regain(t, c, seq)
      [] c.pend = "acquire" -> Idle

After(t, seq) ==
    LET c == th[t] IN
    CASE c.op = "lock" -> AfterLockEvent(t, c, seq)
      [] c.op = "wait" -> AfterWaitEvent(t, c, seq)
      [] c.op = "unlock" -> Idle

(* held_locks after the emission: held_push after an acquire, with a       *)
(* sequence of 0 where a condition wait's acquire was not recorded.        *)
HeldAfter(t, seq) ==
    LET c == th[t]
        entry == [token |-> config.kind, seq |-> seq]
        parted == held_take(held[t], config.kind)
    IN  CASE c.op = "lock" /\ c.pend = "acquire" /\ seq # 0 ->
                 Append(held[t], [token |-> c.token, seq |-> seq])
          [] c.op = "wait" /\ c.pend = "wait_begin" /\ c.got = "none" /\ parted # 0 ->
                 RemoveAt(held[t], parted)
          [] c.op = "wait" /\ c.pend = "acquire" -> Append(held[t], entry)
          [] c.op = "wait" /\ c.got = "notified"
               /\ After(t, seq) = Idle /\ c.pend # "acquire" ->
                 Append(held[t], [entry EXCEPT !.seq = 0])
          [] OTHER -> held[t]

(* The level a recorded acquire belongs to.                                *)
TruthAfter(t, seq) ==
    IF th[t].pend = "acquire"
    THEN [truth[t] EXCEPT ![Len(truth[t])].seq = seq] ELSE truth[t]

Continue(t, seq) ==
    /\ th' = [th EXCEPT ![t] = After(t, seq)]
    /\ held' = [held EXCEPT ![t] = HeldAfter(t, seq)]
    /\ truth' = [truth EXCEPT ![t] = TruthAfter(t, seq)]
    /\ UNCHANGED <<config, failed, child, calls>>

-----------------------------------------------------------------------------
(* emit_event *)

Result(c) == CASE c.pend = "wait_begin" -> "unknown"
               [] c.pend = "wait_end" -> c.got
               [] c.pend = "acquire" -> "acquired"
               [] c.pend = "release" -> "released"

Event(t) == LET c == th[t] IN
    [type |-> "event", sequence |-> probe.sequence + 1, kind |-> c.pend,
     tid |-> t, token |-> c.token, related |-> c.related,
     result |-> Result(c), by |-> "target"]

Footer(p, writer) ==
    [type |-> "footer", sequence |-> p.sequence + 1, count |-> p.emitted,
     truncated |-> p.truncated, by |-> writer]

\* Fault: emit_event does not look at active again under output_lock.
NotRechecked == TRUE

(* Whether publication is still open under output_lock.                    *)
StillActive == probe.active

(* emit_event under output_lock.                                           *)
WriteEvent(t) ==
    /\ th[t].at = "emit"
    /\ \/ ~StillActive /\ Continue(t, 0) /\ UNCHANGED <<probe, stream>>
       \/ StillActive /\ probe.emitted >= config.limit
          /\ Continue(t, 0) /\ UNCHANGED stream
          /\ probe' = [probe EXCEPT !.truncated = TRUE]
       \/ StillActive /\ probe.emitted < config.limit
          /\ Continue(t, probe.sequence + 1)
          /\ stream' = Append(stream, Event(t))
          /\ probe' = [probe EXCEPT !.sequence = @ + 1, !.emitted = @ + 1]

(* A write that fails or is short: the probe goes silent for good, and     *)
(* with it the footer.                                                     *)
WriteFails(t) ==
    /\ th[t].at = "emit" /\ StillActive /\ probe.emitted < config.limit
    /\ Continue(t, 0)
    /\ probe' = [probe EXCEPT !.sequence = @ + 1, !.truncated = TRUE,
                              !.active = FALSE]
    /\ UNCHANGED stream

\* Fault: mark_lost counts what is lost but does not declare truncation.
Undeclared(p) == p

(* mark_lost under output_lock; lost_event_count is not modelled, for      *)
(* every step that adds to it declares truncation.                         *)
mark_lost(p) == IF ~p.configured THEN p ELSE [p EXCEPT !.truncated = TRUE]

MarkLost(t) ==
    /\ th[t].at = "lost"
    /\ probe' = mark_lost(probe)
    /\ th' = [th EXCEPT ![t] = Idle]
    /\ UNCHANGED <<config, stream, held, truth, failed, child, calls>>

(* probe_finalize and emit_footer, in the process that was authorised.     *)
Finalize ==
    /\ probe.phase = "running"
    /\ probe' = [probe EXCEPT !.phase = "final", !.active = FALSE,
                              !.sequence = IF probe.active THEN @ + 1 ELSE @]
    /\ stream' = IF probe.active THEN Append(stream, Footer(probe, "target"))
                 ELSE stream
    /\ UNCHANGED <<config, th, held, truth, failed, child, calls>>

-----------------------------------------------------------------------------
(* The wrappers *)

(* A call between the constructor and the destructor; one made later       *)
(* passes through and is left out.                                         *)
Calls(t) == th[t].at = "idle" /\ probe.phase = "running" /\ calls < MaxCalls
            /\ calls' = calls + 1

(* enter_probe and the exact mode's begin record of SIMPLE_LOCK_WRAPPER.   *)
Lock(t, token) ==
    /\ Calls(t) /\ probe.active
    /\ token \in {"recursive", "read"} \/ ~HoldsAny(t)
    /\ th' = [th EXCEPT ![t] =
          LET c == [Idle EXCEPT !.op = "lock", !.token = token] IN
          IF config.exact THEN Emit(c, "wait_begin", token, 0)
          ELSE [c EXCEPT !.at = "real"]]
    /\ UNCHANGED <<config, probe, stream, held, truth, failed, child>>

(* The real call returns with the lock.                                    *)
LockReturns(t, slow) ==
    LET c == th[t] IN
    /\ c.at = "real" /\ Available(t, c.token)
    /\ truth' = [truth EXCEPT ![t] = Append(@, Level(c.token))]
    /\ th' = [th EXCEPT ![t] = AfterReal(c, "acquired", slow)]
    /\ UNCHANGED <<config, probe, stream, held, failed, child, calls>>

(* A try, timed or clock variant returns without it, timed out or failed:  *)
(* the record says which and nothing else depends on it.                   *)
LockFails(t, slow) ==
    LET c == th[t] IN
    /\ c.at = "real" /\ ~Available(t, c.token)
    /\ th' = [th EXCEPT ![t] = AfterReal(c, "timed_out", slow)]
    /\ UNCHANGED <<config, probe, stream, held, truth, failed, child, calls>>

(* mutex_unlock_observed and rwlock_unlock_observed: the real unlock comes *)
(* first, and the release record of the entry taken after it.              *)
Unlock(t) ==
    /\ Calls(t) /\ probe.active /\ HoldsAny(t)
    /\ LET token == Last(truth[t]).token
           i == UnlockEntry(held[t], token)
           c == [Idle EXCEPT !.op = "unlock"]
       IN  /\ truth' = [truth EXCEPT ![t] = Front(@)]
           /\ held' = [held EXCEPT ![t] = IF i = 0 THEN @ ELSE RemoveAt(@, i)]
           /\ th' = [th EXCEPT ![t] =
                 IF i # 0 /\ held[t][i].seq # 0
                 THEN Emit(c, "release", held[t][i].token, held[t][i].seq)
                 ELSE Idle]
    /\ UNCHANGED <<config, probe, stream, failed, child>>

(* A wrapper that finds the probe inactive makes the real call only.       *)
PassThrough(t) ==
    /\ Calls(t) /\ ~probe.active
    /\ \/ \E token \in TokensOf(config.kind) :
             /\ Available(t, token)
             /\ truth' = [truth EXCEPT ![t] = Append(@, Level(token))]
       \/ HoldsAny(t) /\ truth' = [truth EXCEPT ![t] = Front(@)]
    /\ UNCHANGED <<config, probe, stream, th, held, failed, child>>

(* The condition wrappers, on a mutex held once.                           *)
Wait(t) ==
    /\ Calls(t) /\ probe.active /\ config.kind # "rwlock" /\ Len(truth[t]) = 1
    /\ LET c == [Idle EXCEPT !.op = "wait", !.token = "condition"]
           i == held_take(held[t], config.kind)
       IN  IF config.exact
           THEN /\ th' = [th EXCEPT ![t] = Emit(c, "wait_begin", "condition", 0)]
                /\ UNCHANGED held
           ELSE /\ th' = [th EXCEPT ![t] = Parting(t, c)]
                /\ held' = [held EXCEPT ![t] = IF i = 0 THEN @ ELSE RemoveAt(@, i)]
    /\ UNCHANGED <<config, probe, stream, truth, failed, child>>

(* The real wait gives the mutex up ...                                    *)
Sleep(t) ==
    /\ th[t].at = "wait"
    /\ truth' = [truth EXCEPT ![t] = <<>>]
    /\ th' = [th EXCEPT ![t].at = "asleep"]
    /\ UNCHANGED <<config, probe, stream, held, failed, child, calls>>

(* What follows a wait: the records when it is observed, or at once the    *)
(* mutex back on the held list without one.                                *)
Woken(t, c, got, slow) ==
    LET done == [c EXCEPT !.got = got] IN
    IF ~Observed(slow) THEN Regain(t, done, 0)
    ELSE IF c.begin = 0 THEN Emit(done, "wait_begin", "condition", 0)
    ELSE Emit(done, "wait_end", "condition", c.begin)

(* ... and returns with it, notified or, to the same effect, timed out.    *)
Wake(t, slow) ==
    /\ th[t].at = "asleep" /\ Available(t, config.kind)
    /\ truth' = [truth EXCEPT ![t] = Append(@, Level(config.kind))]
    /\ th' = [th EXCEPT ![t] = Woken(t, th[t], "notified", slow)]
    /\ held' = [held EXCEPT ![t] =
          IF Woken(t, th[t], "notified", slow) = Idle
          THEN Append(@, Level(config.kind)) ELSE @]
    /\ UNCHANGED <<config, probe, stream, failed, child, calls>>

(* A wait refused by the library, as for an invalid timeout, never gives   *)
(* the mutex up.                                                           *)
WaitRefused(t, slow) ==
    /\ th[t].at = "wait"
    /\ failed' = failed \cup {t}
    /\ th' = [th EXCEPT ![t] = Woken(t, th[t], "failed", slow)]
    /\ UNCHANGED <<config, probe, stream, held, truth, child, calls>>

(* condition_cancel_cleanup: the thread is cancelled in the wait, which    *)
(* takes the mutex back before the cleanup handlers run.                   *)
Cancel(t) ==
    /\ th[t].at = "asleep" /\ Available(t, config.kind)
    /\ truth' = [truth EXCEPT ![t] = Append(@, Level(config.kind))]
    /\ th' = [th EXCEPT ![t] = Lose(@)]
    /\ held' = [held EXCEPT ![t] = <<>>]
    /\ UNCHANGED <<config, probe, stream, failed, child, calls>>

-----------------------------------------------------------------------------
(* Child processes *)

atfork_child(c) ==
    [c EXCEPT !.flag = "free", !.active = FALSE, !.configured = FALSE,
              !.fd = "closed"]

\* Fault: a child that the fork handlers did not reach keeps the probe.
IdentityKept(c) == c

ensure_process_identity(c) == IF c.configured THEN atfork_child(c) ELSE c

(* A process made from thread t with a copy of the probe's memory; the     *)
(* copied spin flag is set when another thread was inside output_lock.     *)
Copied(t, flag) ==
    [at |-> "running", tid |-> t, configured |-> probe.configured, active |-> probe.active,
     fd |-> IF probe.configured THEN "open" ELSE "closed", flag |-> flag]

Fork(t, flag) ==
    /\ child.at = "none" /\ probe.phase = "running" /\ Calls(t)
    /\ flag = "taken" => \E u \in Threads : th[u].at \in {"emit", "lost"}
    /\ child' = IF probe.active THEN atfork_child(Copied(t, flag)) ELSE Copied(t, flag)
    /\ UNCHANGED <<config, probe, stream, th, held, truth, failed>>

Clone(t, flag) ==
    /\ child.at = "none" /\ probe.phase = "running" /\ Calls(t)
    /\ flag = "taken" => \E u \in Threads : th[u].at \in {"emit", "lost"}
    /\ child' = Copied(t, flag)
    /\ UNCHANGED <<config, probe, stream, th, held, truth, failed>>

ChildEvent(c) ==
    [type |-> "event", sequence |-> probe.sequence + 1, kind |-> "wait_begin",
     tid |-> c.tid, token |-> "mutex", related |-> 0, result |-> "unknown",
     by |-> "child"]

(* A wrapper called in the child: enter_probe, and its first record if the *)
(* probe is still active there.                                            *)
ChildCall ==
    /\ child.at = "running"
    /\ LET c == IF child.fd = "open" /\ child.active
                THEN ensure_process_identity(child) ELSE child
       IN  /\ child' = [c EXCEPT !.at = "called"]
           /\ stream' = IF c.active /\ c.flag = "free"
                        THEN Append(stream, ChildEvent(c))
                        ELSE stream
    /\ UNCHANGED <<config, probe, th, held, truth, failed, calls>>

(* probe_finalize in the child.                                            *)
ChildExit ==
    /\ child.at \in {"running", "called"}
    /\ LET c == ensure_process_identity(child)
       IN  /\ child' = NoChild
           /\ stream' = IF c.active /\ c.flag = "free"
                        THEN Append(stream, Footer(probe, "child")) ELSE stream
    /\ UNCHANGED <<config, probe, th, held, truth, failed, calls>>

Next ==
    \/ \E outcome \in {"refused", "unwritten", "written"} : Initialize(outcome)
    \/ Finalize
    \/ ChildCall
    \/ ChildExit
    \/ \E t \in Threads :
          \/ \E token \in TokensOf(config.kind) : Lock(t, token)
          \/ \E slow \in BOOLEAN : LockReturns(t, slow)
          \/ \E slow \in BOOLEAN : LockFails(t, slow)
          \/ Unlock(t)
          \/ PassThrough(t)
          \/ Wait(t)
          \/ Sleep(t)
          \/ \E slow \in BOOLEAN : Wake(t, slow)
          \/ \E slow \in BOOLEAN : WaitRefused(t, slow)
          \/ Cancel(t)
          \/ WriteEvent(t)
          \/ WriteFails(t)
          \/ MarkLost(t)
          \/ \E flag \in {"free", "taken"} : Fork(t, flag) \/ Clone(t, flag)

Spec == Init /\ [][Next]_vars

Symmetry == Permutations(Threads)

-----------------------------------------------------------------------------
(* The converter: convert, _validate_pair and the record validators.       *)

Subjects == Threads \X Tokens

(* _ProbeEvent.validate_shape on the fields that are modelled.             *)
EventShape(e) ==
    CASE e.kind = "wait_begin" -> e.related = 0 /\ e.result = "unknown"
      [] e.kind = "wait_end" ->
             e.related # 0
             /\ e.result \in {"acquired", "notified", "timed_out", "failed"}
      [] e.kind = "acquire" -> e.result = "acquired"
      [] e.kind = "release" -> e.related # 0 /\ e.result = "released"

Empty == [ok |-> TRUE, count |-> 0, footer |-> "none", events |-> <<>>,
          waits |-> [s \in Subjects |-> <<>>],
          acquires |-> [s \in Subjects |-> <<>>]]

OnTop(stack, seq) == stack # <<>> /\ Last(stack) = seq

(* _validate_pair: waits and holds nest per thread and lock, and an        *)
(* acquire names a wait of its own that acquired.                          *)
PairOk(acc, e) ==
    LET s == <<e.tid, e.token>> IN
    CASE e.kind = "wait_begin" -> TRUE
      [] e.kind = "wait_end" -> OnTop(acc.waits[s], e.related)
      [] e.kind = "acquire" ->
             e.related # 0 =>
                 /\ e.related <= Len(acc.events)
                 /\ LET w == acc.events[e.related]
                    IN  w.kind = "wait_end" /\ w.result = "acquired"
                        /\ <<w.tid, w.token>> = s
      [] e.kind = "release" -> OnTop(acc.acquires[s], e.related)

(* One event of the stream: identity, budget, contiguity, pairs.           *)
AcceptEvent(acc, e) ==
    LET s == <<e.tid, e.token>>
        push(stack) == Append(stack, e.sequence)
    IN  [acc EXCEPT
          !.ok = acc.ok /\ acc.footer = "none" /\ EventShape(e)
                 /\ acc.count < config.limit /\ e.sequence = acc.count + 1
                 /\ PairOk(acc, e),
          !.count = @ + 1,
          !.events = Append(@, e),
          !.waits[s] = CASE e.kind = "wait_begin" -> push(@)
                         [] e.kind = "wait_end" /\ @ # <<>> -> Front(@)
                         [] OTHER -> @,
          !.acquires[s] = CASE e.kind = "acquire" -> push(@)
                            [] e.kind = "release" /\ @ # <<>> -> Front(@)
                            [] OTHER -> @]

(* The footer: _ProbeFooter.validate_footer and the counts of convert.     *)
AcceptFooter(acc, f) ==
    [acc EXCEPT !.ok = acc.ok /\ acc.footer = "none"
                       /\ f.sequence = acc.count + 1 /\ f.count = acc.count
                       /\ (f.truncated => f.count # 0),
                !.footer = "seen"]

Accept(acc, r) ==
    IF r.type = "footer" THEN AcceptFooter(acc, r) ELSE AcceptEvent(acc, r)

Converts == LET end == FoldLeft(Accept, Empty, stream)
            IN  end.ok /\ end.footer = "seen"

-----------------------------------------------------------------------------
(* Properties *)

FooterAt == {i \in DOMAIN stream : stream[i].type = "footer"}

(* Whatever the threads are doing when the process exits, the stream with  *)
(* a footer is one the converter accepts: nothing follows the footer, its  *)
(* counts are right, and waits and releases pair and nest, unless the only *)
(* thing the probe recorded is that it lost something (validate_footer     *)
(* refuses a truncated stream without events).                             *)
FooteredConverts ==
    FooterAt # {} =>
        \/ Converts
        \/ stream[1].type = "footer" /\ stream[1].truncated /\ Len(stream) = 1

Unreleased(t) ==
    LET of(kind) == {i \in DOMAIN stream :
                       stream[i].type = "event" /\ stream[i].tid = t
                       /\ stream[i].kind = kind}
    IN  {stream[i].sequence : i \in of("acquire")}
            \ {stream[i].related : i \in of("release")}

RecordedHolds(t) == {truth[t][i].seq : i \in DOMAIN truth[t]} \ {0}

(* While the probe is active and has declared no loss, the acquisitions a  *)
(* thread between calls has recorded and not released are the ones it      *)
(* really holds, through nesting, condition waits and cancellation: in     *)
(* exact mode, and in thresholded mode on a lock that does not nest.       *)
HoldsAccounted ==
    \A t \in Threads \ failed :
        /\ probe.active /\ ~probe.truncated /\ th[t].at = "idle"
        /\ config.exact \/ config.kind = "mutex"
        => Unreleased(t) = RecordedHolds(t)

(* The same without the restriction: a release record is written only when *)
(* the acquisition it names has ended, so that its hold time is genuine.   *)
ReleasesGenuine ==
    \A t \in Threads \ failed :
        probe.active /\ ~probe.truncated /\ th[t].at = "idle"
        => RecordedHolds(t) \subseteq Unreleased(t)

(* A forked or cloned child, whose copy of the probe still names the       *)
(* authorised PID in every record it would write, writes none: neither     *)
(* through a wrapper nor at exit, however the copy was taken.              *)
ChildSilent == \A i \in DOMAIN stream : stream[i].by = "target"
=============================================================================
