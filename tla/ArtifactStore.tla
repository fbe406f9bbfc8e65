---------------------------- MODULE ArtifactStore ----------------------------
(***************************************************************************)
(* The store in which the MCP server keeps what it measured                *)
(* (mcp/storage.py over artifacts/filesystem.py): one JSON file per        *)
(* artifact, published once and never replaced, verified again with all    *)
(* the artifacts it refers to whenever it is loaded or paged to an agent.  *)
(*                                                                         *)
(* A call reads the file it is asked for and then, one after the other,    *)
(* every file in its closure; each read is three steps, between which      *)
(* another process may replace, rewrite, hard link, chmod or remove a file *)
(* or exchange the directory.  Two servers may be saving an artifact under *)
(* the same identifier at the same time, and may die or lose power.        *)
(*                                                                         *)
(* Content is abstracted to the generation of each half of a file: an      *)
(* artifact is of generation g when both halves are, and its references    *)
(* pin artifacts of the same generation.  One artifact of each kind stands *)
(* for all of them, and each has every reference its kind may have.        *)
(***************************************************************************)
EXTENDS ArtifactKinds

CONSTANTS Savers,       \* the server processes that may save
          MaxEdits,     \* edits of the directory by others
          MaxFaults     \* I/O errors, deaths and power losses

StoreBounds == MaxEdits \in Nat /\ MaxFaults \in Nat

-----------------------------------------------------------------------------
VARIABLES
    request,  \* the call: [call, kind]
    file,     \* the file of each kind the call may read
    root,     \* the artifact directory: "same" as at start, or "exchanged"
    at,       \* the read the call is at
    step,     \* "open", "first", "rest" within that read; "returned", "refused"
    fd,       \* the file as it was when opened, and its inode as it is now
    begun,    \* the first half read
    got,      \* what every read of the call returned
    held,     \* what the requested file has held since the call began
    saver,    \* each server that saves: [gen, step, out]
    durable,  \* whether the saved file's name is on disk: "no" or "yes"
    edits, faults, deaths, losses

callVars == <<request, at, step, begun, got>>
saveVars == <<saver, durable>>
budget   == <<edits, faults, deaths, losses>>
vars == <<callVars, fd, file, root, held, saveVars, budget>>

Plan == Plans[request.call][request.kind]

\* ino 0: no such file.  ver: the rest of what stat tells (size, times), which
\* never repeats under one name.
Absent == [ino |-> 0, ver |-> 0, halves |-> <<0, 0>>, links |-> 0, mode |-> "private"]
Written(g) == [ino |-> 1, ver |-> 0, halves |-> <<g, g>>, links |-> 1, mode |-> "private"]
Closed == [opened |-> Absent, inode |-> Absent]

\* Servers save while a call reads only where the call asks for this leaf.
SavedKind == "benchmark"
Saving == request.kind = SavedKind
Busy == {"link", "unlink", "sync", "final", "compare"}

TypeOK ==
    /\ request \in [call : {"load", "page"}, kind : Kinds]
    /\ root \in {"same", "exchanged"}
    /\ step \in {"open", "first", "rest", "returned", "refused"}
    /\ at \in DOMAIN Plan
    /\ saver \in [Savers -> [gen : {1, 2}, step : Busy \cup {"idle"},
                             out : {"none", "published", "reused", "raised", "died"}]]
    /\ durable \in {"no", "yes"}

Init ==
    /\ request \in [call : {"load", "page"}, kind : Kinds]
    /\ request # [call |-> "load", kind |-> "project-run"]
    /\ file \in {[k \in {Plan[i].kind : i \in DOMAIN Plan} |-> f] :
                     f \in {Written(1)} \cup (IF Saving THEN {Absent} ELSE {})}
    /\ root = "same"
    /\ at = 1 /\ step = "open" /\ fd = Closed /\ begun = 0 /\ got = <<>>
    /\ held = {file[request.kind].halves}
    /\ saver \in [Savers -> [gen : IF Saving THEN {1, 2} ELSE {1},
                             step : {"idle"}, out : {"none"}]]
    /\ durable = "yes"
    /\ edits = 0 /\ faults = 0 /\ deaths = 0 /\ losses = 0

\* The file named k becomes new; the inode it named becomes old.
Change(k, new, old) ==
    /\ file' = [file EXCEPT ![k] = new]
    /\ fd' = IF /\ step \in {"first", "rest"} /\ Plan[at].kind = k
                /\ file[k].ino # 0 /\ fd.inode.ino = file[k].ino
             THEN [fd EXCEPT !.inode = old] ELSE fd
    /\ held' = IF k = request.kind THEN held \cup {new.halves} ELSE held

-----------------------------------------------------------------------------
(* Reading one file (_open_file, _read_file).                              *)

Refuse == step' = "refused" /\ fd' = Closed /\ UNCHANGED <<request, at, begun, got>>

\* _assert_root_identity, _open_file: the directory is the one the store was
\* created on, and the name is a private file with one link.
Safe(f) == root = "same" /\ f.ino # 0 /\ f.mode = "private" /\ f.links = 1

OpenFile ==
    LET f == file[Plan[at].kind] IN
    /\ step = "open"
    /\ \/ /\ Safe(f)
          /\ step' = "first" /\ fd' = [opened |-> f, inode |-> f]
          /\ UNCHANGED <<request, at, begun, got>>
       \/ ~Safe(f) /\ Refuse
    /\ UNCHANGED <<file, root, held, saveVars, budget>>

\* _read_file, the first of its reads.
ReadFirst ==
    /\ step = "first"
    /\ step' = "rest" /\ begun' = fd.inode.halves[1]
    /\ UNCHANGED <<request, at, got, fd, file, root, held, saveVars, budget>>

Identity(f) == <<f.ino, f.ver, f.links, f.mode>>

\* Fault: the file is not looked at again once it has been read.
NotRechecked(k) == TRUE
\* _assert_unchanged_file: neither the inode nor the name changed meanwhile.
UnchangedFile(k) ==
    /\ Identity(fd.inode) = Identity(fd.opened)
    /\ Identity(file[k]) = Identity(fd.opened)

\* Schema, embedded identifier and digest: a mixture of two contents passes
\* only where there is no digest.
Sealed(kind, halves) == kind \in Unsealed \/ halves[1] = halves[2]

\* Fault: the second load of a paged artifact is not compared with the page.
NotCompared(halves) == TRUE
\* _validate_snapshot: the artifact loaded is the one whose bytes are paged.
SamePayload(halves) == halves = got[1]

\* A reference is followed to the content it names: by digest, or because the
\* artifact is computed again from what was read.
Bound(parent, kind, halves) ==
    CASE parent = 0 -> TRUE
      [] Plan[parent].kind = kind -> SamePayload(halves)
      [] OTHER -> halves = got[parent]

ReadRest ==
    LET here == Plan[at]
        halves == <<begun, fd.inode.halves[2]>>
        accepted == /\ UnchangedFile(here.kind) /\ Sealed(here.kind, halves)
                    /\ \/ Bound(here.from, here.kind, halves)
                       \/ here.from # 0 /\ <<Plan[here.from].kind, here.kind>> \in Loose
        required == UnchangedFile(here.kind) /\ Sealed(here.kind, halves)
                    /\ Bound(here.from, here.kind, halves)
    IN  /\ step = "rest"
        /\ \/ /\ accepted
              /\ got' = Append(got, halves)
              /\ fd' = Closed /\ begun' = 0
              /\ IF at = Len(Plan) THEN step' = "returned" /\ at' = at
                 ELSE step' = "open" /\ at' = at + 1
              /\ UNCHANGED request
           \/ ~required /\ Refuse
        /\ UNCHANGED <<file, root, held, saveVars, budget>>

-----------------------------------------------------------------------------
(* Saving one artifact (save over _publish_bytes).                         *)

Ends(s, out) == saver' = [saver EXCEPT ![s].step = "idle", ![s].out = out]
Goes(s, to)  == saver' = [saver EXCEPT ![s].step = to]
Fails == faults < MaxFaults /\ faults' = faults + 1 /\ UNCHANGED <<edits, deaths, losses>>

\* save, as far as the temporary file is written and on disk: no one else
\* looks at its name.
SaveBegin(s) ==
    /\ Saving /\ saver[s].step = "idle" /\ saver[s].out \in {"none", "raised"}
    /\ \/ root = "same" /\ Goes(s, "link") /\ UNCHANGED budget
       \/ root # "same" /\ saver[s].out = "none" /\ Ends(s, "raised") /\ UNCHANGED budget
       \/ root = "same" /\ Fails /\ Ends(s, "raised")
    /\ UNCHANGED <<callVars, fd, file, root, held, durable>>

\* Fault: os.replace instead of os.link, as write_json_atomic does.
AnyName(f) == TRUE
FreeName(f) == f.ino = 0

\* os.link: the artifact appears under its name, which must be free; the
\* temporary name is its second link.  When it fails, the finally clause
\* removes the temporary name and syncs the directory, ignoring errors.
LinkTemp(s) ==
    LET f == file[SavedKind]
        new == [Written(saver[s].gen) EXCEPT !.links = 2, !.ver = f.ver + 1]
    IN
    /\ Saving /\ saver[s].step = "link"
    /\ \/ /\ FreeName(f)
          /\ Change(SavedKind, new, f) /\ durable' = "no"
          /\ Goes(s, "unlink") /\ UNCHANGED budget
       \/ /\ ~FreeName(f) /\ Goes(s, "compare")
          /\ \/ durable' = "yes" /\ UNCHANGED budget
             \/ durable' = durable /\ Fails
          /\ UNCHANGED <<fd, file, held>>
       \/ Fails /\ Ends(s, "raised") /\ durable' = "yes" /\ UNCHANGED <<fd, file, held>>
    /\ UNCHANGED <<callVars, root>>

Unlinked(f) == IF f.ino = 0 THEN f ELSE [f EXCEPT !.links = @ - 1, !.ver = @ + 1]

\* Fault: a temporary name that could not be removed is left where it is.
LeftBehind(f) == f
\* The finally clause of _publish_bytes removes it if the first attempt failed.
CleanedUp(f) == Unlinked(f)

UnlinkTemp(s) ==
    LET f == file[SavedKind] IN
    /\ Saving /\ saver[s].step = "unlink"
    /\ \/ /\ Change(SavedKind, Unlinked(f), Unlinked(f)) /\ Goes(s, "sync")
          /\ UNCHANGED <<durable, budget>>
       \/ /\ Change(SavedKind, CleanedUp(f), CleanedUp(f)) /\ Ends(s, "raised")
          /\ durable' = "yes" /\ Fails
       \/ /\ faults + 2 <= MaxFaults /\ faults' = faults + 2 /\ Ends(s, "raised")
          /\ durable' = "yes" /\ UNCHANGED <<fd, file, held, edits, deaths, losses>>
    /\ UNCHANGED <<callVars, root>>

\* os.fsync of the directory, then _assert_directory_identity.
SyncDirectory(s) ==
    /\ Saving /\ saver[s].step = "sync"
    /\ \/ /\ durable' = "yes" /\ UNCHANGED budget
          /\ IF root = "same" THEN Goes(s, "final") ELSE Ends(s, "raised")
       \/ Fails /\ Ends(s, "raised") /\ UNCHANGED durable
    /\ UNCHANGED <<callVars, fd, file, root, held>>

\* The last _assert_root_identity of save.
SaveReturns(s) ==
    /\ Saving /\ saver[s].step = "final"
    /\ Ends(s, IF root = "same" THEN "published" ELSE "raised")
    /\ UNCHANGED <<callVars, fd, file, root, held, durable, budget>>

\* The name was taken: the same bytes count as saved, others are refused.
CompareExisting(s) ==
    LET f == file[SavedKind] IN
    /\ Saving /\ saver[s].step = "compare"
    /\ Ends(s, IF Safe(f) /\ f.halves = <<saver[s].gen, saver[s].gen>>
               THEN "reused" ELSE "raised")
    /\ UNCHANGED <<callVars, fd, file, root, held, durable, budget>>

-----------------------------------------------------------------------------
(* Deaths, power losses and what others do to the directory.               *)

\* A server dies between two steps of a save; a linked temporary stays.
Die(s) ==
    /\ saver[s].step # "idle" /\ faults < MaxFaults
    /\ Ends(s, "died")
    /\ faults' = faults + 1 /\ deaths' = deaths + 1
    /\ UNCHANGED <<callVars, fd, file, root, held, durable, edits, losses>>

\* Names that were not synced may be gone, in any combination.
PowerLoss ==
    LET f == file[SavedKind] IN
    /\ Saving /\ \E s \in Savers : saver[s].out # "none" \/ saver[s].step # "idle"
    /\ faults < MaxFaults /\ faults' = faults + 1 /\ losses' = losses + 1
    /\ \E new \in IF durable = "yes" THEN {f}
                  ELSE {f, Absent} \cup {[f EXCEPT !.links = n] : n \in 1 .. f.links} :
          file' = [file EXCEPT ![SavedKind] = new]
    /\ durable' = "yes"
    /\ saver' = [s \in Savers |-> IF saver[s].step = "idle" THEN saver[s]
                                  ELSE [saver[s] EXCEPT !.step = "idle", !.out = "died"]]
    /\ step' = (IF step = "returned" THEN step ELSE "refused") /\ fd' = Closed
    /\ UNCHANGED <<request, at, begun, got, root, held, edits, deaths>>

Edited == edits < MaxEdits /\ edits' = edits + 1 /\ UNCHANGED <<faults, deaths, losses>>
Awaiting == step \in {"open", "first", "rest"}

\* Another file is renamed over an artifact: an older copy, or a partial one.
ReplaceFile(k) ==
    /\ Awaiting /\ Edited /\ file[k].ino # 0
    /\ \E halves \in {<<2, 2>>, <<1, 2>>} :
          Change(k, [Written(1) EXCEPT !.ino = 2, !.ver = file[k].ver + 1, !.halves = halves],
                 [file[k] EXCEPT !.links = 0, !.ver = @ + 1])
    /\ UNCHANGED <<callVars, root, saveVars>>

\* It is rewritten in place, whole or in part.
RewriteFile(k) ==
    /\ Awaiting /\ Edited /\ file[k].ino # 0
    /\ \E halves \in {<<2, 2>>, <<2, 1>>} :
          LET new == [file[k] EXCEPT !.halves = halves, !.ver = @ + 1]
          IN  Change(k, new, new)
    /\ UNCHANGED <<callVars, root, saveVars>>

\* It gets a second name or another mode, or is removed.
TouchFile(k) ==
    /\ Awaiting /\ Edited /\ file[k].ino # 0
    /\ \/ LET new == [file[k] EXCEPT !.links = @ + 1, !.ver = @ + 1] IN Change(k, new, new)
       \/ LET new == [file[k] EXCEPT !.mode = "shared", !.ver = @ + 1] IN Change(k, new, new)
       \/ Change(k, [Absent EXCEPT !.ver = file[k].ver + 1], [file[k] EXCEPT !.links = 0, !.ver = @ + 1])
    /\ UNCHANGED <<callVars, root, saveVars>>

ExchangeRoot ==
    /\ Awaiting /\ Edited /\ root' = "exchanged"
    /\ UNCHANGED <<callVars, fd, file, held, saveVars>>

Next ==
    \/ OpenFile \/ ReadFirst \/ ReadRest
    \/ \E s \in Savers :
          \/ SaveBegin(s) \/ LinkTemp(s) \/ UnlinkTemp(s) \/ SyncDirectory(s)
          \/ SaveReturns(s) \/ CompareExisting(s) \/ Die(s)
    \/ PowerLoss
    \/ \E k \in DOMAIN file : ReplaceFile(k) \/ RewriteFile(k) \/ TouchFile(k)
    \/ ExchangeRoot

Spec == Init /\ [][Next]_vars

-----------------------------------------------------------------------------
\* The bytes a call returns were the whole content of the requested file at
\* one moment of the call: a rewrite between two reads of _read_file never
\* shows as a mixture, not even in an artifact that carries no digest.
WholeSnapshot == step = "returned" => got[1] \in held

\* The bytes a call returns are the ones it verified: whatever they refer to
\* by content, at any depth, was read in the same call in the version they
\* name, although the file itself may be replaced while its references are
\* being read (the window the comment in read_page describes).
PageVerified ==
    step = "returned" =>
        \A i \in 2 .. Len(got) :
            LET up == Plan[i].from IN
            <<Plan[up].kind, Plan[i].kind>> \notin Loose => got[i] = got[up]

\* What save reported as published stays: no later save under the same
\* identifier replaces it and a power loss does not take it back.  The same
\* holds of what it found saved already, as long as no I/O error was ignored.
SaveKept ==
    (Saving /\ edits = 0) =>
        \A s \in Savers :
            (saver[s].out = "published" \/ (saver[s].out = "reused" /\ faults = losses + deaths)) =>
                file[SavedKind].halves = <<saver[s].gen, saver[s].gen>>

\* Only a process or machine that dies between the link and the removal of the
\* temporary name leaves an artifact no one can read again (its second link is
\* refused by _open_file): a single I/O error never does.
OnlyDeathBlocks ==
    (Saving /\ edits = 0 /\ deaths = 0 /\ losses = 0 /\ faults <= 1
        /\ \A s \in Savers : saver[s].step # "unlink") =>
            file[SavedKind].links <= 1

\* A call returns one version of the file, whole, and has verified all it refers to.
ReadsVerified == WholeSnapshot /\ PageVerified

\* What was saved stays, and stays readable unless a process died in one window.
SavesKept == SaveKept /\ OnlyDeathBlocks
=============================================================================
