---------------------------- MODULE SpoolArchive ----------------------------
(***************************************************************************)
(* The archive-then-prune lifecycle of the Collector spool                 *)
(* (src/perflens/admin/spool.py).  Administrators run archive-spool,       *)
(* verify-spool-archive and prune-archived-spool while the broker goes on  *)
(* publishing evidence; a command may fail or be killed at any step, and   *)
(* the machine may lose power.                                             *)
(*                                                                         *)
(* Device, inode, size and modification time of a source are one number,   *)
(* its version: a file put back from an archive is another version with    *)
(* the same bytes.  Archive and SHA-256 are the set of versions the ZIP    *)
(* holds.  The policy read at the start of a command is the privilege      *)
(* mode, which selects the spool directory.                                *)
(***************************************************************************)
EXTENDS Integers, FiniteSets, FiniteSetsExt

CONSTANTS
    Names,          \* artifact names, numbers ordered as the code orders names
    Paths,          \* archive output paths
    Admins,         \* administrator commands that may run at the same time
    Modes,          \* privilege modes a policy may name
    Size,           \* Size[a]: logical size of the artifact a
    Ages,           \* older_than_days values
    Keeps,          \* keep_latest values
    MaxArtifacts,   \* max_artifacts
    MaxTotalBytes,  \* max_total_bytes
    MaxTime,        \* bound: the last day of the clock
    MaxRestores     \* bound: how many files are ever put back

\* _validate_archive_limits
ASSUME LimitAssumption ==
    /\ Names \subseteq Nat
    /\ Ages \subseteq Nat /\ Keeps \subseteq Nat /\ Keeps # {}
    /\ Size \in [Names -> Nat]
    /\ MaxArtifacts \in Nat \ {0} /\ MaxTotalBytes \in Nat \ {0}
    /\ MaxTime \in Nat /\ MaxRestores \in Nat

VARIABLES
    clock,      \* the day
    mode,       \* privilege_mode of the deployed policy
    broker,     \* "busy" while a temporary collection file is in the spool
    file,       \* file[a]: the last file that had the name a
    present,    \* names in a spool directory
    unsynced,   \* names whose removal a power loss may still undo
    archive,    \* archive[z]: the ZIP published at path z
    durable,    \* paths whose directory entry a power loss cannot take
    taken,      \* history: names in archives a power loss took
    op          \* op[d]: the command administrator d is running

vars == <<clock, mode, broker, file, present, unsynced, archive, durable,
          taken, op>>

\* A version of 0: the name was never used.
FileRecord == [version : Nat, day : Nat, mode : Modes \cup {"none"}]

\* CollectorSpoolArchiveEntry: name and source identity.
Entry == [name : Names, version : Nat]

\* CollectorSpoolArchiveManifest; one without entries is never written.
Manifest == [entries : SUBSET Entry, mode : Modes \cup {"none"}]

Stages == {"idle", "capture", "link", "check", "recheck", "unlink", "sync",
           "pruned", "nothing_to_prune"}

Removing == {"check", "recheck", "unlink", "sync"}

\* `todo` are the entries the current loop has still to visit, `done` the ones
\* captured (archive) or found present (prune).
Command == [stage : Stages, path : Paths \cup {"none"},
            mode : Modes \cup {"none"}, todo : SUBSET Entry,
            done : SUBSET Entry]

NoArchive == [entries |-> {}, mode |-> "none"]

Published == {a \in Names : file[a].version # 0}
Exists(z) == archive[z].entries # {}
NamesIn(E) == {e.name : e \in E}

\* The loops visit the entries in one order, the manifest's (here by name).
First(E) == {e \in E : \A f \in E : e.name <= f.name}

Archived == UNION {NamesIn(archive[z].entries) : z \in Paths}

----------------------------------------------------------------------------
(* Selection: _scan_managed_spool and _select_snapshots.                   *)

\* The spool directory of a mode.
Spool(m) == {a \in present : file[a].mode = m}

Newer(a, b) ==
    \/ file[a].day > file[b].day
    \/ file[a].day = file[b].day /\ a > b

\* Fault: the slice drops the oldest files instead of the newest.
RetainedOldest(S, keep) == {a \in S : Cardinality({b \in S : Newer(a, b)}) < keep}

\* newest_first[:keep_latest]
Retained(S, keep) == {a \in S : Cardinality({b \in S : Newer(b, a)}) < keep}

Eligible(S, age, keep) ==
    {a \in S \ Retained(S, keep) : file[a].day + age <= clock}

\* Oldest first, until one more would exceed a limit.
Selected(S, age, keep) ==
    LET E == Eligible(S, age, keep)
        UpTo(a) == {b \in E : b = a \/ Newer(a, b)}
    IN  {a \in E : /\ Cardinality(UpTo(a)) <= MaxArtifacts
                   /\ MapThenSumSet(LAMBDA b : Size[b], UpTo(a))
                          <= MaxTotalBytes}

EntryOf(a) == [name |-> a, version |-> file[a].version]

\* _verify_source_entry, _match_snapshot: the source is still the same file.
Matches(e, m) == e.name \in Spool(m) /\ file[e.name].version = e.version

----------------------------------------------------------------------------
Idle == [stage |-> "idle", path |-> "none", mode |-> "none", todo |-> {},
         done |-> {}]

Init ==
    /\ clock = 1
    /\ mode \in Modes
    /\ broker = "idle"
    /\ file = [a \in Names |-> [version |-> 0, day |-> 0, mode |-> "none"]]
    /\ present = {}
    /\ unsynced = {}
    /\ archive = [z \in Paths |-> NoArchive]
    /\ durable = {}
    /\ taken = {}
    /\ op = [d \in Admins |-> Idle]

----------------------------------------------------------------------------
(* The surroundings of the commands.                                       *)

disk == <<file, present, unsynced, archive, durable, taken>>

NextDay ==
    /\ clock < MaxTime
    /\ clock' = clock + 1
    /\ UNCHANGED <<mode, broker, disk, op>>

\* A collection for a new plan begins: its temporary file is in the spool.
BeginCollection ==
    /\ broker = "idle"
    /\ Published # Names
    /\ broker' = "busy"
    /\ UNCHANGED <<clock, mode, disk, op>>

\* It ends (or is cleared away by a human) without output.
EndCollection ==
    /\ broker = "busy"
    /\ broker' = "idle"
    /\ UNCHANGED <<clock, mode, disk, op>>

\* The broker publishes under the name of a plan, which is never used twice.
Publish(a) ==
    /\ broker = "busy"
    /\ file[a].version = 0
    /\ broker' = "idle"
    /\ file' = [file EXCEPT ![a] = [version |-> 1, day |-> clock, mode |-> mode]]
    /\ present' = present \cup {a}
    /\ UNCHANGED <<clock, mode, unsynced, archive, durable, taken, op>>

\* switch-mode: from here on commands work on the other spool.
SwitchMode(m) ==
    /\ m # mode
    /\ mode' = m
    /\ UNCHANGED <<clock, broker, disk, op>>

\* A human copies evidence back out of an archive and syncs the spool, not
\* while a prune is removing files from it.
Restore(a) ==
    /\ a \in Archived \ present
    /\ \A d \in Admins : op[d].stage \notin Removing
    /\ MapThenSumSet(LAMBDA b : file[b].version - 1, Published) < MaxRestores
    /\ file' = [file EXCEPT ![a] = [version |-> file[a].version + 1,
                                    day |-> clock, mode |-> file[a].mode]]
    /\ present' = present \cup {a}
    /\ unsynced' = {}
    /\ UNCHANGED <<clock, mode, broker, archive, durable, taken, op>>

\* The kernel writes the archives' directory back on its own.
Writeback ==
    /\ durable' = {z \in Paths : Exists(z)}
    /\ UNCHANGED <<clock, mode, broker, file, present, unsynced, archive,
                   taken, op>>

\* Power fails: every command ends, unsynced removals may be undone and
\* archives whose directory entry was not written may be gone.
PowerLoss ==
    \E back \in SUBSET unsynced,
       lost \in SUBSET {z \in Paths : Exists(z) /\ z \notin durable} :
        /\ present' = present \cup back
        /\ unsynced' = {}
        /\ archive' = [z \in Paths |->
                         IF z \in lost THEN NoArchive
                         ELSE archive[z]]
        /\ taken' = taken \cup UNION {NamesIn(archive[z].entries) : z \in lost}
        /\ op' = [d \in Admins |-> Idle]
        /\ UNCHANGED <<clock, mode, broker, file, durable>>

----------------------------------------------------------------------------
(* The commands.                                                           *)

Keep == UNCHANGED <<clock, mode, broker, file, taken>>
Becomes(d, c) == op' = [op EXCEPT ![d] = c]
Leaves(d) == Becomes(d, Idle)

\* The command has reported, fails (an I/O error, a refused check) or is killed.  Its
\* temporary file is removed by the finally clause or left with a hidden name;
\* neither touches the spool or the published archives.
Abort(d) ==
    /\ op[d].stage # "idle"
    /\ Leaves(d)
    /\ Keep /\ UNCHANGED <<present, unsynced, archive, durable>>

\* _new_archive_path, and os.link's own test: the output does not exist.
OutputFree(z) == ~ Exists(z)

\* _scan_managed_spool refuses a spool with an unmanaged entry in it.
SpoolClean == broker = "idle"

\* archive_collector_spool up to the selection: _new_archive_path refuses an
\* existing output, the scan refuses an unmanaged entry, an empty selection
\* ends the command.  A dry run captures without writing and is left out.
Archive(d, z, age, keep) ==
    LET chosen == Selected(Spool(mode), age, keep)
    IN  /\ op[d].stage = "idle"
        /\ OutputFree(z)
        /\ SpoolClean
        /\ chosen # {}
        /\ Becomes(d, [stage |-> "capture", path |-> z, mode |-> mode,
                       todo |-> {EntryOf(a) : a \in chosen}, done |-> {}])
        /\ Keep /\ UNCHANGED <<present, unsynced, archive, durable>>

\* _capture_entry: the file is read into the temporary ZIP if it is still the
\* one the scan saw; otherwise the command fails (Abort).
CaptureEntry(d) ==
    /\ op[d].stage = "capture"
    /\ \E e \in First(op[d].todo) :
          /\ Matches(e, op[d].mode)
          /\ Becomes(d, [op[d] EXCEPT
                           !.todo = @ \ {e},
                           !.done = @ \cup {e},
                           !.stage = IF op[d].todo = {e} THEN "link"
                                     ELSE "capture"])
    /\ Keep /\ UNCHANGED <<present, unsynced, archive, durable>>

\* Fault: os.replace instead of os.link.
LinkArchiveReplaces(d) ==
    /\ op[d].stage = "link"
    /\ archive' = [archive EXCEPT ![op[d].path] =
                     [entries |-> op[d].done, mode |-> op[d].mode]]
    /\ durable' = durable \ {op[d].path}
    /\ Leaves(d)
    /\ Keep /\ UNCHANGED <<present, unsynced>>

\* _write_archive: the synced temporary file, manifest last, is linked at the
\* output path, which must still be free; its directory is not synced.  The
\* command then only hashes the archive and reports.
LinkArchive(d) ==
    /\ op[d].stage = "link"
    /\ OutputFree(op[d].path)
    /\ archive' = [archive EXCEPT ![op[d].path] =
                     [entries |-> op[d].done, mode |-> op[d].mode]]
    /\ durable' = durable \ {op[d].path}
    /\ Leaves(d)
    /\ Keep /\ UNCHANGED <<present, unsynced>>

\* _validate_manifest_consistency: the manifest names the spool of the policy.
ManifestConsistent(z, m) == archive[z].mode = m

\* Fault: an archive of another privilege mode is accepted.
VerifiedOtherMode(z, m) == Exists(z)

\* _verify_archive: the ZIP is whole and its manifest is of the active spool.
Verified(z, m) == Exists(z) /\ ManifestConsistent(z, m)

\* prune_archived_collector_spool with its authorization, up to the archive's
\* verification; verify_collector_spool_archive with its sources makes the same
\* steps and ends before the removal, as does a dry run (Abort).
Prune(d, z) ==
    /\ op[d].stage = "idle"
    /\ Verified(z, mode)
    /\ Becomes(d, [stage |-> "check", path |-> z, mode |-> mode,
                   todo |-> archive[z].entries, done |-> {}])
    /\ Keep /\ UNCHANGED <<present, unsynced, archive, durable>>

\* The first pass: an entry is absent, or is the archived file; anything else
\* ends the command before the first removal (Abort).
CheckEntry(d) ==
    /\ op[d].stage = "check"
    /\ \E e \in First(op[d].todo) :
          LET there == e.name \in Spool(op[d].mode)
              found == IF there THEN op[d].done \cup {e} ELSE op[d].done
              rest == op[d].todo \ {e}
          IN  /\ there => Matches(e, op[d].mode)
              /\ Becomes(d,
                   IF rest # {}
                   THEN [op[d] EXCEPT !.todo = rest, !.done = found]
                   ELSE [op[d] EXCEPT
                           !.todo = found, !.done = {},
                           !.stage = IF found = {} THEN "nothing_to_prune"
                                     ELSE "recheck"])
    /\ Keep /\ UNCHANGED <<present, unsynced, archive, durable>>

\* The second pass: each source is verified again just before its removal.
RecheckEntry(d) ==
    /\ op[d].stage = "recheck"
    /\ \E e \in First(op[d].todo) :
          /\ Matches(e, op[d].mode)
          /\ Becomes(d, [op[d] EXCEPT !.stage = "unlink", !.done = {e}])
    /\ Keep /\ UNCHANGED <<present, unsynced, archive, durable>>

\* The entry is behind the command, which goes on to the next one.
Removed(d, e) ==
    LET rest == op[d].todo \ {e}
    IN  Becomes(d, [op[d] EXCEPT
                      !.todo = rest, !.done = {},
                      !.stage = IF rest = {} THEN "sync" ELSE "recheck"])

\* os.stat, which compares the inode number only, and os.unlink.
UnlinkEntry(d) ==
    /\ op[d].stage = "unlink"
    /\ \E e \in op[d].done :
          /\ e.name \in Spool(op[d].mode)
          /\ present' = present \ {e.name}
          /\ unsynced' = unsynced \cup {e.name}
          /\ Removed(d, e)
    /\ Keep /\ UNCHANGED <<archive, durable>>

\* os.fsync of the spool directory.
SyncSpool(d) ==
    /\ op[d].stage = "sync"
    /\ unsynced' = {}
    /\ Becomes(d, [op[d] EXCEPT !.stage = "pruned"])
    /\ Keep /\ UNCHANGED <<present, archive, durable>>

Next ==
    \/ NextDay \/ BeginCollection \/ EndCollection \/ Writeback
    \/ PowerLoss
    \/ \E m \in Modes : SwitchMode(m)
    \/ \E a \in Names : Publish(a) \/ Restore(a)
    \/ \E d \in Admins :
          \/ \E z \in Paths, age \in Ages, keep \in Keeps :
                Archive(d, z, age, keep)
          \/ \E z \in Paths : Prune(d, z)
          \/ CaptureEntry(d) \/ LinkArchive(d)
          \/ CheckEntry(d) \/ RecheckEntry(d) \/ UnlinkEntry(d)
          \/ SyncSpool(d) \/ Abort(d)

Spec == Init /\ [][Next]_vars

----------------------------------------------------------------------------
(* Properties.                                                             *)

\* The variables hold values of their kinds.
TypeOK ==
    /\ clock \in Nat
    /\ mode \in Modes
    /\ broker \in {"idle", "busy"}
    /\ file \in [Names -> FileRecord]
    /\ present \subseteq Published
    /\ unsynced \subseteq Published
    /\ archive \in [Paths -> Manifest]
    /\ durable \subseteq Paths
    /\ taken \subseteq Names
    /\ op \in [Admins -> Command]

\* Evidence the broker published is in the spool or in an archive, whatever
\* commands run side by side, fail or are killed, and wherever the power fails;
\* the one exception is an archive that the power loss itself took because its
\* directory had not been written back.
EvidenceKept == \A a \in Published : a \in present \cup Archived \cup taken

\* "The archive is always preserved": the same without the exception.
ArchivePreserved == \A a \in Published : a \in present \cup Archived

\* A prune that reports "pruned" or "nothing_to_prune" left no source of the
\* archive in the spool it was taken from, and the removals of a "pruned" one
\* survive a power loss.
ReportTruthful ==
    \A d \in Admins :
        op[d].stage \in {"pruned", "nothing_to_prune"} =>
            \A e \in archive[op[d].path].entries :
                file[e.name].version = e.version =>
                    /\ e.name \notin present
                    /\ op[d].stage = "pruned" => e.name \notin unsynced

\* The newest keep_latest artifacts of a spool are never given up, however many
\* archives are taken and pruned, by whom and in whatever order.
NewestKept ==
    \A m \in Modes :
        LET ever == {a \in Published : file[a].mode = m}
        IN  \A a \in ever : Cardinality({b \in ever : Newer(b, a)}) < Min(Keeps)
                                 => a \in present

\* What prune reports is so, and it never removes the newest artifacts.
PruneTruthful == ReportTruthful /\ NewestKept
=============================================================================
