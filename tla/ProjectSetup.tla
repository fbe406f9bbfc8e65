---------------------------- MODULE ProjectSetup ----------------------------
(***************************************************************************)
(* perflens init, init --update and detach on one project                  *)
(* (distribution/onboarding.py, detach.py, skill.py and one module per     *)
(* client), with the user editing the same files meanwhile.                *)
(*                                                                         *)
(* A client configuration file has a PerfLens entry and a rest that        *)
(* belongs to the user.  The setup directory holds the ownership record,   *)
(* the generated copies and the project policy, which the user may edit.   *)
(* A command plans everything first, then changes one thing after the      *)
(* other; an error rolls the changes back, a death of the process does not.*)
(***************************************************************************)
EXTENDS Naturals, FiniteSets

CONSTANTS
    Selections,   \* the client selections given to --client
    MaxVersion,   \* bound: versions of PerfLens installed one after the other
    MaxCommands,  \* bound: commands
    MaxEdits,     \* bound: edits by the user
    MaxFaults     \* bound: failing file operations and deaths of a command

Clients == {"codex", "claude", "opencode", "copilot"}
SharedClients == {"codex", "opencode", "copilot"}
Files == {"codex", "mcp", "opencode", "vscode"}
Skills == {"shared", "claude"}

SetupConstants ==
    /\ Selections \subseteq SUBSET Clients /\ {} \notin Selections
    /\ MaxVersion \in 1..8 /\ MaxCommands \in Nat /\ MaxEdits \in Nat /\ MaxFaults \in Nat

VARIABLES
    bundled,    \* the installed version: what its entries and its Skill contain
    defaults,   \* the user's default client selection
    file,       \* the client configuration files
    skill,      \* the Skill directories: 0 for none, a version, or User
    output,     \* perflens-setup
    backup,     \* .perflens-setup.perflens-backup
    cmd,        \* the running command
    hist,       \* history: what the user wrote, and when
    commands, edits, faults

vars == <<bundled, defaults, file, skill, output, backup, cmd, hist, commands, edits, faults>>

\* Content that is the user's own.
User == 9

NoFile == [there |-> "no", entry |-> 0, other |-> 0]
With(x, e) == [x EXCEPT !.there = "yes", !.entry = e]
NoSetup == [state |-> "none", clients |-> {}, conf |-> 0, managed |-> {},
            fp |-> [k \in Skills |-> 0], policy |-> 0]
NoPlan == [do |-> "skip", expected |-> NoFile, content |-> NoFile]
Idle == [pc |-> "idle", sel |-> {}, plan |-> [f \in Files |-> NoPlan],
         skills |-> [k \in Skills |-> "skip"], applied |-> {}, installed |-> {},
         refreshed |-> {}, result |-> "none", attached |-> {}]
NoHistory == [other |-> [f \in Files |-> 0], own |-> {}, policy |-> 0, raced |-> {},
              detached |-> {}, left |-> {}, output |-> NoSetup,
              file |-> [f \in Files |-> NoFile], skill |-> [k \in Skills |-> 0]]

Init ==
    /\ bundled = 1 /\ defaults = {"codex", "claude"}
    /\ file = [f \in Files |-> NoFile] /\ skill = [k \in Skills |-> 0]
    /\ output = NoSetup /\ backup = NoSetup /\ cmd = Idle /\ hist = NoHistory
    /\ commands = 0 /\ edits = 0 /\ faults = 0

At(pc) == cmd.pc = pc
GoTo(pc) == cmd' = [cmd EXCEPT !.pc = pc]
FaultAllowed == faults < MaxFaults /\ faults' = faults + 1
Count == commands < MaxCommands /\ commands' = commands + 1

----------------------------------------------------------------------------
(* What is planned for one file or one Skill.  A plan may refuse.          *)

FilesOf(sel) ==
    (sel \cap {"codex", "opencode"}) \cup (IF sel \cap {"claude", "copilot"} # {} THEN {"mcp"} ELSE {})
    \cup (IF "copilot" \in sel THEN {"vscode"} ELSE {})

SkillsOf(sel) ==
    (IF sel \cap SharedClients # {} THEN {"shared"} ELSE {}) \cup (sel \cap {"claude"})

\* The recorded copies of the selected clients that cover a file.
SlotsOf(f, sel) ==
    CASE f = "mcp" -> sel \cap {"claude", "copilot"}
      [] f = "vscode" -> {"vscode"}
      [] OTHER -> {f}

\* The entry that is PerfLens's own: the codex file marks it, for the others it
\* must equal the recorded copy.
OwnEntry(f, sel) ==
    IF f = "codex" THEN IF file[f].entry \in 1..MaxVersion THEN file[f].entry ELSE 0
    ELSE IF SlotsOf(f, sel) \cap output.managed # {} THEN output.conf ELSE 0

RefusesCodex == file["codex"].entry = User
RefusesOther(f, sel) ==
    /\ f # "codex" /\ file[f].entry \notin {0, bundled, OwnEntry(f, sel)}

RefusesFile(f, sel) == (f = "codex" /\ RefusesCodex) \/ RefusesOther(f, sel)

InstallPlan(f, sel) ==
    IF f \notin FilesOf(sel) THEN NoPlan
    ELSE [do |-> IF file[f].entry = bundled THEN "keep" ELSE "write",
          expected |-> file[f], content |-> With(file[f], bundled)]

ExpectedSkill(k) == IF output.fp[k] # 0 THEN output.fp[k] ELSE bundled

\* Without --update a Skill that is there is left alone.
RefusesSkill(k, sel) ==
    /\ k \in SkillsOf(sel) /\ output.state = "ok" /\ skill[k] # 0 /\ skill[k] # ExpectedSkill(k)

SkillPlan(k, sel) ==
    IF k \notin SkillsOf(sel) THEN "skip"
    ELSE IF skill[k] = 0 THEN "install"
    ELSE IF output.state = "ok" /\ skill[k] # bundled THEN "update" ELSE "existing"

\* _validate_disabled_clients_detached.
Disabled(sel) == output.clients \ sel

Attached(sel) ==
    LET d == Disabled(sel)
        shared == /\ output.clients \cap SharedClients # {} /\ sel \cap SharedClients = {}
                  /\ skill["shared"] # 0
    IN {c \in d :
          \/ c \in {"codex", "opencode"} /\ file[c].entry # 0
          \/ c = "claude" /\ \/ "copilot" \notin sel /\ file["mcp"].entry # 0
                             \/ skill["claude"] # 0
          \/ c = "copilot" /\ \/ "claude" \notin sel /\ file["mcp"].entry # 0
                              \/ file["vscode"].entry # 0
          \/ c \in SharedClients /\ shared}

----------------------------------------------------------------------------
(* init.                                                                   *)

Refuse(result, attached) ==
    /\ cmd' = [Idle EXCEPT !.result = result, !.attached = attached]
    /\ UNCHANGED <<bundled, defaults, file, skill, output, backup, hist, edits, faults>>

\* A directory that is there without --update, no trustworthy record, a backup.
RefuseOutput ==
    \/ output.state = "partial"
    \/ output.state = "ok" /\ backup.state # "none"

\* The project, the executable, the options, the deployment, the recorded policy
\* files and copies, or the place of a client's file or of a Skill is refused.
RefuseProject == Refuse("refused", {})
RefuseExecutable == Refuse("refused", {})
RefuseOptions == Refuse("refused", {})
RefuseCollector == Refuse("refused", {})
RefuseRecordedPolicy == Refuse("refused", {})
RefuseRecordedCopy == Refuse("refused", {})
RefuseCodexPath == Refuse("refused", {})
RefuseClaudePath == Refuse("refused", {})
RefuseOpencodePath == Refuse("refused", {})
RefuseVscodePath == Refuse("refused", {})
RefuseSkillPath == Refuse("refused", {})
RefuseWithoutUpdate == output.state = "ok" /\ Refuse("refused", {})

Snapshot == [hist EXCEPT !.output = output, !.file = file, !.skill = skill]

StartSetup(sel) ==
    /\ cmd' = [Idle EXCEPT !.pc = "move", !.sel = sel,
                           !.plan = [f \in Files |-> InstallPlan(f, sel)],
                           !.skills = [k \in Skills |-> SkillPlan(k, sel)]]
    /\ hist' = Snapshot
    /\ UNCHANGED <<bundled, defaults, file, skill, output, backup, edits, faults>>

\* The order of the checks; nothing is changed by any of them.
RunSetup(sel) ==
    /\ At("idle") /\ Count
    /\ IF RefuseOutput THEN Refuse("refused", {})
       ELSE IF Attached(sel) # {} THEN Refuse("attached", Attached(sel))
       ELSE IF \E k \in Skills : RefusesSkill(k, sel) THEN Refuse("refused", {})
       ELSE IF \E f \in FilesOf(sel) : RefusesFile(f, sel) THEN Refuse("refused", {})
       ELSE \/ StartSetup(sel)
            \/ RefuseProject \/ RefuseExecutable \/ RefuseOptions \/ RefuseCollector
            \/ RefuseRecordedPolicy \/ RefuseRecordedCopy \/ RefuseCodexPath \/ RefuseClaudePath
            \/ RefuseOpencodePath \/ RefuseVscodePath \/ RefuseSkillPath \/ RefuseWithoutUpdate

\* Without --client: what the record names, else the defaults.
DefaultSelection == IF output.state = "ok" THEN output.clients ELSE defaults

InitCommand == \E sel \in Selections : RunSetup(sel)
InitByDefault == RunSetup(DefaultSelection)

SaveClientDefaults ==
    /\ At("idle") /\ Count /\ \E sel \in Selections \ {defaults} : defaults' = sel
    /\ UNCHANGED <<bundled, file, skill, output, backup, cmd, hist, edits, faults>>

Setup == <<bundled, defaults, hist, commands, edits>>

\* The old directory is renamed, a new one made.
MoveOutput ==
    /\ At("move") /\ GoTo("bundle")
    /\ backup' = output /\ output' = [NoSetup EXCEPT !.state = "partial"]
    /\ UNCHANGED <<Setup, file, skill, faults>>

\* Generated copies and guides; the policy moves from the backup, or the default
\* one is written.
WriteBundle ==
    /\ At("bundle") /\ GoTo("skills")
    /\ output' = [output EXCEPT !.conf = bundled,
                                !.policy = IF backup.policy # 0 THEN backup.policy ELSE 1]
    /\ backup' = [backup EXCEPT !.policy = 0]
    /\ UNCHANGED <<Setup, file, skill, faults>>

InstallSkills ==
    /\ At("skills")
    /\ LET new == {k \in Skills : cmd.skills[k] = "install"}
       IN /\ skill' = [k \in Skills |-> IF k \in new THEN bundled ELSE skill[k]]
          /\ cmd' = [cmd EXCEPT !.pc = "record", !.installed = new]
    /\ UNCHANGED <<Setup, file, output, backup, faults>>

OwnedSkill(k) ==
    IF cmd.skills[k] \in {"install", "update"} \/ (cmd.skills[k] = "existing" /\ skill[k] = bundled)
    THEN bundled ELSE 0

Slots == {"claude", "opencode", "copilot", "vscode"}
SlotFile(s) == IF s \in {"claude", "copilot"} THEN "mcp" ELSE s
SlotSelected(s) == IF s = "vscode" THEN "copilot" \in cmd.sel ELSE s \in cmd.sel

\* Fault: only what this setup wrote counts as managed.
WrittenSlots ==
    {s \in Slots : SlotSelected(s) /\ cmd.plan[SlotFile(s)].do = "write"}

\* _configuration_is_managed.
ManagedSlots ==
    {s \in Slots : SlotSelected(s) /\ \/ cmd.plan[SlotFile(s)].do = "write" \/ s \in backup.managed}

\* setup.json, before any file of the project is touched.
WriteRecord ==
    /\ At("record") /\ GoTo("apply")
    /\ output' = [output EXCEPT !.state = "ok", !.clients = cmd.sel, !.managed = ManagedSlots,
                                !.fp = [k \in Skills |-> OwnedSkill(k)]]
    /\ UNCHANGED <<Setup, file, skill, backup, faults>>

\* The plans are applied in a fixed order.
Order == <<"codex", "mcp", "opencode", "vscode">>
Pending == {f \in Files : cmd.plan[f].do # "skip" /\ f \notin cmd.applied}
First(s) == CHOOSE f \in s : \A i \in 1..4 : Order[i] \in s =>
                (\E j \in 1..i : Order[j] = f)

\* Fault: the file is not compared with what was planned from.
NotCompared(f) == TRUE

\* _assert_config_unchanged.
Unchanged(f) == file[f] = cmd.plan[f].expected

CheckFile ==
    /\ At("apply") /\ Pending # {}
    /\ LET f == First(Pending)
       IN IF ~Unchanged(f) THEN GoTo("rollback")
          ELSE IF cmd.plan[f].do = "keep" THEN cmd' = [cmd EXCEPT !.applied = @ \cup {f}]
          ELSE GoTo("write")
    /\ UNCHANGED <<Setup, file, skill, output, backup, faults>>

\* write_text_new_atomic publishes a new file only where there is none.
Appeared(f) == cmd.plan[f].expected.there = "no" /\ file[f].there = "yes"

\* write_text_atomic replaces the whole file.
WriteFile ==
    /\ At("write")
    /\ LET f == First(Pending)
       IN IF Appeared(f) THEN GoTo("rollback") /\ UNCHANGED file
          ELSE /\ file' = [file EXCEPT ![f] = cmd.plan[f].content]
               /\ cmd' = [cmd EXCEPT !.pc = "apply", !.applied = @ \cup {f}]
    /\ UNCHANGED <<Setup, skill, output, backup, faults>>

FilesApplied == At("apply") /\ Pending = {} /\ GoTo("refresh")
                /\ UNCHANGED <<Setup, file, skill, output, backup, faults>>

Stale == {k \in Skills : cmd.skills[k] = "update" /\ k \notin cmd.refreshed}

\* refresh_project_skill compares, renames the old tree, compares again, installs.
RefreshSkill ==
    /\ At("refresh") /\ Stale # {}
    /\ LET k == IF "shared" \in Stale THEN "shared" ELSE "claude"
       IN IF skill[k] = IF backup.fp[k] # 0 THEN backup.fp[k] ELSE bundled
          THEN /\ skill' = [skill EXCEPT ![k] = bundled]
               /\ cmd' = [cmd EXCEPT !.refreshed = @ \cup {k}]
          ELSE GoTo("rollback") /\ UNCHANGED skill
    /\ UNCHANGED <<Setup, file, output, backup, faults>>

\* The backup is removed as the last step.
RemoveBackup ==
    /\ At("refresh") /\ Stale = {}
    /\ backup' = NoSetup /\ cmd' = [Idle EXCEPT !.result = "ok", !.sel = cmd.sel]
    /\ hist' = [hist EXCEPT !.detached = {}]
    /\ UNCHANGED <<bundled, defaults, commands, edits, file, skill, output, faults>>

\* What the steps themselves refuse: a staging directory, a Skill tree or a file
\* that is not safe or too large.
StepRefused(pc) == At(pc) /\ GoTo("rollback") /\ UNCHANGED <<Setup, file, skill, output, backup, faults>>

RefuseAssets == StepRefused("bundle")
RefuseSkillCopy == StepRefused("skills")
RefuseLargeFile == StepRefused("record")

\* Any of the steps may fail; a removal that fails may have removed a part.
SetupFails ==
    /\ cmd.pc \in {"move", "bundle", "skills", "record", "apply", "write", "refresh"}
    /\ FaultAllowed /\ GoTo("rollback")
    /\ \/ UNCHANGED backup
       \/ /\ At("refresh") /\ Stale = {} /\ backup.state # "none"
          /\ backup' = [backup EXCEPT !.state = "partial"]
    /\ UNCHANGED <<Setup, file, skill, output>>

\* The policy goes back to the backup before the new directory is removed.
PolicyReturned == output.policy

\* Fault: what was written over is not restored.
RolledBackNothing(f) == file[f]

\* _rollback_config_plan: only a file that still has what was written.
RolledBack(f) ==
    IF f \in cmd.applied /\ cmd.plan[f].do = "write" /\ file[f] = cmd.plan[f].content
    THEN cmd.plan[f].expected ELSE file[f]

\* What was written and then edited stays as it is.
LeftWritten ==
    {f \in cmd.applied : cmd.plan[f].do = "write" /\ file[f] # cmd.plan[f].content}

\* Skills that were installed are removed; a Skill that was refreshed stays.
Rollback ==
    /\ At("rollback")
    /\ file' = [f \in Files |-> RolledBack(f)]
    /\ output' = IF backup.state # "none"
                 THEN [backup EXCEPT !.policy = IF backup.policy # 0 THEN @ ELSE PolicyReturned]
                 ELSE IF output.state = "partial" \/ cmd.applied # {} \/ hist.output.state = "none"
                      THEN NoSetup ELSE output
    /\ backup' = NoSetup
    /\ skill' = [k \in Skills |-> IF k \in cmd.installed THEN 0 ELSE skill[k]]
    /\ cmd' = [Idle EXCEPT !.result = "failed", !.refreshed = cmd.refreshed]
    /\ hist' = [hist EXCEPT !.left = @ \cup LeftWritten]
    /\ UNCHANGED <<bundled, defaults, commands, edits, faults>>

----------------------------------------------------------------------------
(* detach.  The record is only read.                                       *)

Configured == IF output.state = "none" THEN {"codex", "claude"} ELSE output.clients
Remaining(sel) == Configured \ sel

PreserveShared(sel) == Remaining(sel) \cap {"claude", "copilot"} # {}

RemovalFiles(sel) ==
    {f \in FilesOf(sel) : f = "mcp" => ~PreserveShared(sel)}

RemovalSkills(sel) ==
    {k \in SkillsOf(sel) : k = "shared" => Remaining(sel) \cap SharedClients = {}}

\* Both recorded copies may vouch for the shared file.
OwnedBy(f) == OwnEntry(f, {"claude", "copilot"})

RefusesRemoval(sel) ==
    \/ \E f \in RemovalFiles(sel) : file[f].entry # 0 /\ file[f].entry # OwnedBy(f)
    \/ \E k \in RemovalSkills(sel) : skill[k] # 0 /\ skill[k] # ExpectedSkill(k)

RemovalPlan(f, sel) ==
    IF f \in RemovalFiles(sel) /\ file[f].entry # 0
    THEN [do |-> "write", expected |-> file[f], content |-> With(file[f], 0)]
    ELSE NoPlan

StartDetach(sel) ==
    /\ cmd' = [Idle EXCEPT !.pc = "remove", !.sel = sel,
                           !.plan = [f \in Files |-> RemovalPlan(f, sel)],
                           !.skills = [k \in Skills |->
                              IF k \in RemovalSkills(sel) /\ skill[k] # 0 THEN "remove" ELSE "skip"]]
    /\ hist' = [Snapshot EXCEPT !.left = @ \cup (IF PreserveShared(sel) THEN {"mcp"} ELSE {})]
    /\ UNCHANGED <<bundled, defaults, file, skill, output, backup, edits, faults>>

RunDetach(sel) ==
    /\ At("idle") /\ Count
    /\ IF output.state = "partial" \/ RefusesRemoval(sel) THEN Refuse("refused", {})
       ELSE StartDetach(sel)

DetachClient == \E c \in Clients : c \in Configured /\ RunDetach({c})
DetachAll == RunDetach(Configured)

RemoveEntry ==
    /\ At("remove") /\ Pending # {}
    /\ IF Unchanged(First(Pending)) THEN GoTo("erase")
       ELSE cmd' = [Idle EXCEPT !.result = "error"]
    /\ UNCHANGED <<Setup, file, skill, output, backup, faults>>

EraseEntry ==
    /\ At("erase")
    /\ LET f == First(Pending)
       IN /\ file' = [file EXCEPT ![f] = cmd.plan[f].content]
          /\ cmd' = [cmd EXCEPT !.pc = "remove", !.applied = @ \cup {f}]
    /\ UNCHANGED <<Setup, skill, output, backup, faults>>

\* SkillRemovalPlan.apply, for both Skills, and the end of the command.
RemoveSkills ==
    /\ At("remove") /\ Pending = {}
    /\ LET gone == {k \in Skills : cmd.skills[k] = "remove"}
           unchanged == {k \in gone : skill[k] = hist.skill[k]}
       IN /\ skill' = [k \in Skills |-> IF k \in unchanged THEN 0 ELSE skill[k]]
          /\ cmd' = [Idle EXCEPT !.result = IF unchanged = gone THEN "detached" ELSE "error"]
          /\ hist' = IF unchanged = gone THEN [hist EXCEPT !.detached = @ \cup cmd.sel] ELSE hist
    /\ UNCHANGED <<bundled, defaults, commands, edits, file, output, backup, faults>>

DetachFails ==
    /\ cmd.pc \in {"remove", "erase"} /\ FaultAllowed /\ cmd' = [Idle EXCEPT !.result = "error"]
    /\ UNCHANGED <<Setup, file, skill, output, backup>>

----------------------------------------------------------------------------
(* The user, and faults of the environment.                                *)

Edit == edits < MaxEdits /\ edits' = edits + 1

Aside == <<bundled, defaults, backup, cmd, commands, faults>>

\* An edit between the comparison of a file and its replacement.
Raced(f) ==
    IF cmd.pc \in {"write", "erase"} /\ f = First(Pending) /\ cmd.plan[f].expected.there = "yes"
    THEN {f} ELSE {}

EditFile(f) ==
    /\ Edit /\ file' = [file EXCEPT ![f].other = @ + 1, ![f].there = "yes"]
    /\ hist' = [hist EXCEPT !.other[f] = @ + 1, !.raced = @ \cup Raced(f)]
    /\ UNCHANGED <<Aside, skill, output>>

EditEntry(f) ==
    /\ Edit /\ file[f].entry # User /\ file' = [file EXCEPT ![f] = With(@, User)]
    /\ hist' = [hist EXCEPT !.own = @ \cup {f}, !.raced = @ \cup Raced(f)]
    /\ UNCHANGED <<Aside, skill, output>>

\* A Skill that this command installed goes with its rollback.
ModifySkill(k) ==
    /\ Edit /\ skill[k] \notin {0, User} /\ skill' = [skill EXCEPT ![k] = User]
    /\ hist' = [hist EXCEPT !.own = @ \cup {k},
                            !.raced = @ \cup (IF k \in cmd.installed THEN {k} ELSE {})]
    /\ UNCHANGED <<Aside, file, output>>

EditPolicy ==
    /\ Edit /\ output.policy # 0 /\ (At("idle") \/ hist.output.policy # 0)
    /\ output' = [output EXCEPT !.policy = @ + 1]
    /\ hist' = [hist EXCEPT !.policy = output.policy + 1]
    /\ UNCHANGED <<Aside, file, skill>>

Upgrade ==
    /\ At("idle") /\ bundled < MaxVersion /\ bundled' = bundled + 1
    /\ UNCHANGED <<defaults, file, skill, output, backup, cmd, hist, commands, edits, faults>>

Killed ==
    /\ ~At("idle") /\ FaultAllowed /\ cmd' = [Idle EXCEPT !.result = "killed"]
    /\ UNCHANGED <<Setup, file, skill, output, backup>>

Next ==
    \/ InitCommand \/ InitByDefault \/ SaveClientDefaults \/ MoveOutput \/ WriteBundle
    \/ InstallSkills \/ WriteRecord \/ CheckFile \/ WriteFile \/ FilesApplied \/ RefreshSkill
    \/ RemoveBackup \/ SetupFails \/ RefuseAssets \/ RefuseSkillCopy \/ RefuseLargeFile \/ Rollback \/ DetachClient \/ DetachAll \/ RemoveEntry
    \/ EraseEntry \/ RemoveSkills \/ DetachFails \/ EditPolicy \/ Upgrade \/ Killed
    \/ \E f \in Files : EditFile(f) \/ EditEntry(f)
    \/ \E k \in Skills : ModifySkill(k)

Spec == Init /\ [][Next]_vars

----------------------------------------------------------------------------
(* Properties.                                                             *)

TypeOK ==
    /\ bundled \in 1..MaxVersion /\ defaults \subseteq Clients
    /\ \A f \in Files : file[f].entry \in (0..MaxVersion) \cup {User}
    /\ \A k \in Skills : skill[k] \in (0..MaxVersion) \cup {User}
    /\ output.state \in {"none", "partial", "ok"} /\ backup.state \in {"none", "partial", "ok"}

\* Whatever commands run, fail or are killed, and in whatever order: what the user
\* wrote into a client configuration, a PerfLens entry of his own, a modified Skill
\* and the edited project policy are still there, unless an edit fell between the
\* comparison of that file and its replacement.
UserContentKept ==
    /\ \A f \in Files \ hist.raced :
          file[f].other = hist.other[f] /\ (f \in hist.own => file[f].entry = User)
    /\ \A k \in Skills \ hist.raced : k \in hist.own => skill[k] = User
    /\ hist.policy # 0 => hist.policy \in {output.policy, backup.policy}

\* A setup that failed before its first Skill was refreshed leaves the record, the
\* Skills and every entry as they were, except what the user changed meanwhile.
RollbackRestores ==
    (cmd.result = "failed" /\ cmd.refreshed = {} /\ backup.state = "none") =>
        /\ output.state = "partial" \/ [output EXCEPT !.policy = 0] = [hist.output EXCEPT !.policy = 0]
        /\ \A f \in Files : f \in hist.own \cup hist.raced \/ file[f].other # hist.file[f].other
                            \/ file[f].entry = hist.file[f].entry
        /\ \A k \in Skills : k \in hist.own \/ skill[k] = hist.skill[k]

\* An entry that PerfLens wrote and can tell from the user's: the codex block
\* marks itself, the others equal a recorded copy.
Recorded(f) ==
    file[f].entry \in 1..MaxVersion =>
        /\ output.state = "ok" /\ file[f].entry = output.conf
        /\ SlotsOf(f, Clients) \cap output.managed # {}

\* Every entry PerfLens wrote can be told from the user's by a later update or
\* detach, with two exceptions: the shared .mcp.json once a detach has left it to
\* the other of its two clients (_configuration_is_managed in onboarding.py), and
\* a file that the user edited between its change and the rollback of the setup.
EntriesOwned ==
    (At("idle") /\ faults = 0) => \A f \in Files \ ({"codex"} \cup hist.left) : Recorded(f)

\* That the shared entry stays recorded as well is not so, even without edits: a
\* client that joined an unchanged file is not recorded for it and may be the one
\* that remains.
SharedEntryOwned == (At("idle") /\ faults = 0 /\ edits = 0) => Recorded("mcp")

\* A client that was detached is not an obstacle to an update without it.
NarrowsAfterDetach == cmd.result = "attached" => ~(cmd.attached \subseteq hist.detached)

\* Setup tells what is the user's from what is its own: it keeps the one and can
\* take back the other, after any sequence of commands.
OwnershipKept == UserContentKept /\ EntriesOwned
=============================================================================
