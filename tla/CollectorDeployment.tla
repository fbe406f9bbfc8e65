------------------------- MODULE CollectorDeployment -------------------------
(***************************************************************************)
(* The administrator's transactions on a host (src/perflens/admin/         *)
(* deploy.py): deploy, switch-mode, switch-profile, upgrade, update-policy *)
(* with and without a change of the rootful grant, and undeploy, each with *)
(* the rollback it runs when one of its steps fails.                       *)
(*                                                                         *)
(* A transaction is a program of file replacements, systemctl commands and *)
(* a health check, run one step at a time under the administrator's lock;  *)
(* its rollback is a second program.  A step may fail without its effect   *)
(* or after it (a systemctl call that times out goes on in systemd).  File *)
(* contents are the facts the programs render into them.  A refused        *)
(* command changes nothing and is no step.                                 *)
(***************************************************************************)
EXTENDS Naturals, Sequences, FiniteSets

CONSTANTS
    Versions,       \* installed packages: the templates of the units
    Revisions,      \* contents of a policy apart from its mode and its grant
    Interruptible,  \* kinds of transactions whose writes may fail after their effect
    MaxFaults       \* bound on the faults of a behaviour

DeploymentConstants ==
    /\ Versions # {} /\ Revisions # {} /\ MaxFaults \in Nat
    /\ Interruptible \subseteq {"mode", "profile", "policy"}

VARIABLES
    disk,       \* the managed files
    loaded,     \* systemd: unit definitions as of the last reload
    enabled,    \* systemd: units started at boot
    running,    \* systemd: running services, with what they were started from
    package,    \* the installed package
    op,         \* the transaction, with the faults it met
    faults      \* the faults so far

vars == <<disk, loaded, enabled, running, package, op, faults>>

CollectorModes == {"cap_perfmon", "paranoid3_helper"}
Profiles == {"cpu_only", "full_diagnostics"}
Grants == {"none", "rootful"}
Units == {"collector", "helper", "trace"}
Texts == {"config", "profile", "tracePolicy"}
Files == Units \cup Texts

Missing == [missing |-> "yes"]

Configs == [mode : CollectorModes, grant : Grants, revision : Revisions]

\* parse_collector_deployment_policy: the grant is for the Helper mode only.
Policies == {c \in Configs : c.grant = "rootful" => c.mode = "paranoid3_helper"}

NoProcess == [unit |-> Missing, config |-> Missing]
NoTransaction ==
    [kind |-> "none", phase |-> "ended", result |-> "none", program |-> <<>>, n |-> 0,
     before |-> [f \in Files |-> Missing], healthy |-> "no", faults |-> 0, failed |-> {}]

Init ==
    /\ disk = [f \in Files |-> Missing]
    /\ loaded = [u \in Units |-> Missing]
    /\ enabled = {}
    /\ running = [u \in Units |-> NoProcess]
    /\ package \in Versions
    /\ op = NoTransaction
    /\ faults = 0

----------------------------------------------------------------------------
(* What the files say.                                                     *)

\* load_feature_profile: a missing file means cpu_only.
ProfileOf(d) == IF d["profile"] = Missing THEN "cpu_only" ELSE d["profile"].profile

CollectorUnit(mode, profile) == [mode |-> mode, profile |-> profile, version |-> package]
HelperUnit(c) == [grant |-> c.grant, version |-> package]
TraceUnit(c, policy) ==
    [mode |-> c.mode, grant |-> c.grant, policy |-> policy, version |-> package]

Requires(unit) ==
    IF unit = Missing THEN {}
    ELSE (IF unit.mode = "paranoid3_helper" THEN {"helper"} ELSE {})
         \cup (IF unit.profile = "full_diagnostics" THEN {"trace"} ELSE {})

\* The files of a deployment agree: the units are those of the policy's mode,
\* of the profile and of the grant.
Consistent(d) ==
    /\ d["config"] # Missing /\ d["collector"] # Missing
    /\ d["collector"].mode = d["config"].mode
    /\ d["collector"].profile = ProfileOf(d)
    /\ \A u \in {"helper", "trace"} :
          /\ d[u] # Missing <=> u \in Requires(d["collector"])
          /\ d[u] # Missing => d[u].grant = d["config"].grant
    /\ d["trace"] # Missing => d["trace"].policy = d["tracePolicy"]

\* Every unit runs from its file, and the collector from the policy.
Serving ==
    \A u \in Units :
       running[u] = IF disk[u] = Missing THEN NoProcess
                    ELSE [unit |-> disk[u],
                          config |-> IF u = "collector" THEN disk["config"] ELSE Missing]

OnDisk == [u \in Units |-> disk[u]]

Healthy ==
    /\ Consistent(disk) /\ Serving
    /\ loaded = OnDisk /\ enabled = {u \in Units : disk[u] # Missing}
Absent == \A u \in Units : disk[u] = Missing /\ running[u] = NoProcess

----------------------------------------------------------------------------
(* The steps of a program.                                                 *)

Step(do, on) == [do |-> do, on |-> on, to |-> Missing, errors |-> "raise", unless |-> {}]
Write(f, content) == [Step("write", f) EXCEPT !.to = content]
Install(f, content) == [Step("install", f) EXCEPT !.to = content]
Remove(f) == Step("remove", f)
Reload == Step("reload", "all")
Tool == Step("tool", "all")
Wait(profile) == Step("wait", profile)
Tolerated(s) == [s EXCEPT !.errors = "ignore"]
Collected(s, units) == [s EXCEPT !.errors = "collect", !.unless = units]

When(condition, program) == IF condition THEN program ELSE <<>>

Process(u, definitions) ==
    [unit |-> definitions[u], config |-> IF u = "collector" THEN disk["config"] ELSE Missing]

\* systemd starts what the unit requires, and stops what requires the unit.
StartSet(u, definitions) ==
    {u} \cup (IF u = "collector" THEN Requires(definitions["collector"]) ELSE {})
StopSet(u, definitions) ==
    {u} \cup (IF u \in Requires(definitions["collector"]) /\ running["collector"] # NoProcess
              THEN {"collector"} ELSE {})
RestartSet(u, definitions) ==
    StopSet(u, definitions)
    \cup UNION {{q \in StartSet(s, definitions) : running[q] = NoProcess}
                  : s \in StopSet(u, definitions)}

\* A command that cannot do its work fails; systemctl knows no unit without
\* a file, and the health check asks the running collector for its profile.
Possible(s) ==
    CASE s.do = "install" -> disk[s.on] \in {Missing, s.to}
      [] s.do = "disable" -> disk[s.on] # Missing
      [] s.do = "enable" -> \A u \in StartSet(s.on, OnDisk) : disk[u] # Missing
      [] s.do = "restart" ->
            \A u \in StartSet(s.on, loaded) : loaded[u] # Missing
      [] s.do = "wait" ->
            running["collector"] # NoProcess
            /\ (s.on = "any" \/ running["collector"].unit.profile = s.on)
      [] OTHER -> TRUE

\* What a step does when it does its work; enable and disable reload.
Effect(s) ==
    /\ disk' = IF s.do \in {"write", "install"} THEN [disk EXCEPT ![s.on] = s.to]
               ELSE IF s.do = "remove" THEN [disk EXCEPT ![s.on] = Missing] ELSE disk
    /\ loaded' = IF s.do \in {"reload", "enable", "disable"} THEN OnDisk ELSE loaded
    /\ enabled' = IF s.do = "enable" THEN enabled \cup {s.on}
                  ELSE IF s.do = "disable" THEN enabled \ {s.on} ELSE enabled
    /\ running' =
          [u \in Units |->
             CASE s.do = "enable" /\ u \in StartSet(s.on, OnDisk) /\ running[u] = NoProcess ->
                     Process(u, OnDisk)
               [] s.do = "restart" /\ u \in RestartSet(s.on, loaded) -> Process(u, loaded)
               [] s.do = "disable" /\ u \in StopSet(s.on, OnDisk) -> NoProcess
               [] s.do = "stop" /\ u \in StopSet(s.on, loaded) -> NoProcess
               [] OTHER -> running[u]]

NoEffect == UNCHANGED <<disk, loaded, enabled, running>>

\* What a failed step may leave: nothing, its effect, or a restarted unit
\* that is down.
Leaves(s) ==
    \/ NoEffect
    \/ /\ Possible(s)
       /\ s.do \in {"write", "install", "remove"} => op.kind \in Interruptible
       /\ s.do \notin {"reload", "tool", "wait"}
       /\ Effect(s)
    \/ /\ s.do = "restart"
       /\ running' = [u \in Units |-> IF u \in StopSet(s.on, loaded) THEN NoProcess
                                      ELSE running[u]]
       /\ UNCHANGED <<disk, loaded, enabled>>

----------------------------------------------------------------------------
(* The programs.  Each is fixed when the transaction begins, under the     *)
(* lock, from the files as they are.                                       *)

Config == disk["config"]
Present(f) == disk[f] # Missing

\* Fault: switch-mode leaves a Helper unit it does not need.
LeaveHelper(target) == When(target = "paranoid3_helper", <<Write("helper", HelperUnit(Config))>>)

HelperFile(target) ==
    IF target = "paranoid3_helper" THEN <<Write("helper", HelperUnit(Config))>>
    ELSE When(Present("helper"), <<Remove("helper")>>)

StartCommands(mode) ==
    <<Reload>> \o When(mode = "paranoid3_helper", <<Step("enable", "helper")>>)
    \o <<Step("enable", "collector")>>

SwitchModeProgram(target) ==
    <<Step("disable", "collector")>>
    \o When(Config.mode = "paranoid3_helper" \/ Present("helper"), <<Step("disable", "helper")>>)
    \o <<Write("config", [Config EXCEPT !.mode = target]),
         Write("collector", CollectorUnit(target, ProfileOf(disk)))>>
    \o HelperFile(target) \o StartCommands(target) \o <<Wait(ProfileOf(disk))>>

SwitchProfileProgram(target) ==
    LET full == target = "full_diagnostics" IN
    <<Step("stop", "collector")>>
    \o When(~full /\ Present("trace"), <<Step("disable", "trace")>>)
    \o <<Write("collector", CollectorUnit(Config.mode, target)),
         Write("profile", [profile |-> target])>>
    \o (IF full THEN <<Write("tracePolicy", [version |-> package]),
                       Write("trace", TraceUnit(Config, [version |-> package])),
                       Reload, Step("enable", "trace")>>
        ELSE When(Present("trace"), <<Remove("trace")>>)
             \o When(~Present("trace"), <<Step("disable", "trace")>>) \o <<Reload>>)
    \o <<Step("enable", "collector"), Wait(target)>>

\* A Helper unit beside a policy that does not use it.
StaleHelper == Config.mode = "cap_perfmon" /\ Present("helper")

Restarts(c, profile) ==
    <<Reload>>
    \o When(c.mode = "paranoid3_helper", <<Step("restart", "helper")>>)
    \o When(profile = "full_diagnostics", <<Step("restart", "trace")>>)
    \o <<Step("restart", "collector")>>

\* Fault: a stale Helper is not looked for.
UpgradeKeepsStale ==
    LET full == ProfileOf(disk) = "full_diagnostics" IN
    When(Present("helper") /\ disk["helper"] # HelperUnit(Config),
         <<Write("helper", HelperUnit(Config))>>)
    \o <<Write("collector", CollectorUnit(Config.mode, ProfileOf(disk)))>>
    \o Restarts(Config, ProfileOf(disk))
    \o <<Wait(IF full THEN "full_diagnostics" ELSE "any")>>

UpgradeProgram ==
    LET full == ProfileOf(disk) = "full_diagnostics"
        trace == TraceUnit(Config, disk["tracePolicy"])
        unit == CollectorUnit(Config.mode, ProfileOf(disk)) IN
    (IF StaleHelper THEN <<Step("disable", "helper"), Remove("helper")>>
     ELSE When(Present("helper") /\ disk["helper"] # HelperUnit(Config),
               <<Write("helper", HelperUnit(Config))>>))
    \o When(full /\ disk["trace"] # trace, <<Write("trace", trace)>>)
    \o When(disk["collector"] # unit, <<Write("collector", unit)>>)
    \o Restarts(Config, ProfileOf(disk))
    \o <<Wait(IF full THEN "full_diagnostics" ELSE "any")>>

UpdatePolicyProgram(c) == <<Write("config", c), Step("restart", "collector"), Wait("any")>>

\* _update_rootful_container_policy restarts the Trace Helper that is there,
\* whatever the profile says.
GrantCommands(d) ==
    Restarts(d["config"], IF d["trace"] # Missing THEN "full_diagnostics" ELSE "cpu_only")
    \o <<Wait("any")>>
UpdateGrantProgram(c) ==
    <<Write("helper", HelperUnit(c))>>
    \o When(Present("trace"), <<Write("trace", TraceUnit(c, disk["tracePolicy"]))>>)
    \o <<Write("config", c)>> \o GrantCommands(disk)

UndeployProgram ==
    When(Present("collector"), <<Step("disable", "collector")>>)
    \o When(Present("trace"), <<Step("disable", "trace")>>)
    \o When(Present("helper"), <<Step("disable", "helper")>>)
    \o When(Present("collector"), <<Remove("collector")>>)
    \o When(Present("helper"), <<Remove("helper")>>)
    \o When(Present("trace"), <<Remove("trace")>>) \o <<Reload>>

DeployProgram(c) ==
    LET helper == c.mode = "paranoid3_helper" IN
    <<Tool, Install("config", c), Install("collector", CollectorUnit(c.mode, "cpu_only"))>>
    \o When(helper, <<Install("helper", HelperUnit(c))>>)
    \o <<Tool>> \o StartCommands(c.mode) \o <<Wait("any")>>

----------------------------------------------------------------------------
(* The rollbacks, over the files d that the failed step left.              *)

Done(o) == {o.program[i] : i \in 1 .. o.n}
Replaced(o) == {s.on : s \in {t \in Done(o) : t.do = "write"}}

Restore(f, o, d) ==
    IF o.before[f] = Missing THEN When(d[f] # Missing, <<Remove(f)>>)
    ELSE <<Write(f, o.before[f])>>

RollbackModeSwitch(o, d) ==
    LET mode == o.before["config"].mode IN
    <<Step("disable", "collector")>>
    \o When(mode = "cap_perfmon", <<Step("disable", "helper")>>)
    \o Restore("config", o, d) \o Restore("collector", o, d) \o Restore("helper", o, d)
    \o StartCommands(mode) \o <<Wait(ProfileOf(o.before))>>

\* Fault: the profile file is forgotten.
RollbackProfileUnits(o, d) ==
    <<Tolerated(Step("stop", "collector")), Tolerated(Step("disable", "trace"))>>
    \o Restore("collector", o, d) \o Restore("trace", o, d) \o <<Reload>>
    \o When(ProfileOf(o.before) = "full_diagnostics", <<Step("enable", "trace")>>)
    \o <<Step("enable", "collector"), Wait(ProfileOf(o.before))>>

RollbackProfileSwitch(o, d) ==
    <<Tolerated(Step("stop", "collector")), Tolerated(Step("disable", "trace"))>>
    \o Restore("collector", o, d) \o Restore("trace", o, d)
    \o Restore("profile", o, d) \o Restore("tracePolicy", o, d) \o <<Reload>>
    \o When(ProfileOf(o.before) = "full_diagnostics", <<Step("enable", "trace")>>)
    \o <<Step("enable", "collector"), Wait(ProfileOf(o.before))>>

\* Only the units whose replacement was noted, and nothing when there is none.
RollbackUpgrade(o) ==
    When("collector" \in Replaced(o), <<Write("collector", o.before["collector"])>>)
    \o When("trace" \in Replaced(o), <<Write("trace", o.before["trace"])>>)
    \o When("helper" \in Replaced(o) \/ Remove("helper") \in Done(o),
            <<Write("helper", o.before["helper"])>>)
    \o Restarts(o.before["config"], ProfileOf(o.before))
UpgradeTouched(o) == Replaced(o) # {} \/ Step("disable", "helper") \in Done(o)

RollbackPolicy(o, d) ==
    When(d["config"] # o.before["config"], UpdatePolicyProgram(o.before["config"]))

RollbackGrant(o) ==
    When("config" \in Replaced(o), <<Write("config", o.before["config"])>>)
    \o When("trace" \in Replaced(o), <<Write("trace", o.before["trace"])>>)
    \o When("helper" \in Replaced(o), <<Write("helper", o.before["helper"])>>)
    \o GrantCommands(o.before)

\* _rollback_new_deployment goes on after an error and keeps the files of a
\* service it could not stop.
RollbackDeployment(o) ==
    LET installed == {f \in Files : o.before[f] = Missing
                                    /\ \E s \in Done(o) : s.do = "install" /\ s.on = f}
        attempted == {u \in installed :
                         Step("enable", u) \in Done(o) \cup {o.program[o.n + 1]}}
        Disable(u) == When(u \in attempted, <<Collected(Step("disable", u), {})>>)
        Unlink(f, unless) == When(f \in installed, <<Collected(Remove(f), unless)>>)
    IN  Disable("collector") \o Disable("helper")
        \o Unlink("collector", {"collector"}) \o Unlink("helper", {"helper"})
        \o Unlink("config", {"collector", "helper"})
        \o When(installed \cap Units # {}, <<Collected(Reload, {})>>)

HasRollback(o) == o.kind # "undeploy" /\ (o.kind = "upgrade" => UpgradeTouched(o))
Rollback(o, d) ==
    CASE o.kind = "deploy" -> RollbackDeployment(o)
      [] o.kind = "mode" -> RollbackModeSwitch(o, d)
      [] o.kind = "profile" -> RollbackProfileSwitch(o, d)
      [] o.kind = "upgrade" -> RollbackUpgrade(o)
      [] o.kind = "policy" -> RollbackPolicy(o, d)
      [] o.kind = "grant" -> RollbackGrant(o)

----------------------------------------------------------------------------
(* The commands.                                                           *)

Begin(kind, program) ==
    /\ op.phase = "ended"
    /\ op' = [NoTransaction EXCEPT
                 !.kind = kind, !.phase = "forward", !.program = program, !.before = disk,
                 !.healthy = IF Healthy THEN "yes"
                             ELSE IF Absent /\ ProfileOf(disk) = "cpu_only" THEN "absent"
                             ELSE "no"]
    /\ UNCHANGED <<disk, loaded, enabled, running, package, faults>>

Deployed == Present("config") /\ Present("collector")
TraceTopology == Present("trace") /\ Present("tracePolicy")

\* deploy --config, and setup, which deploys a policy of its own.
Deploy(c) == Begin("deploy", DeployProgram(c))

SwitchMode(target) ==
    /\ Deployed
    /\ Config.grant = "rootful" => target = "paranoid3_helper"
    /\ ProfileOf(disk) = "full_diagnostics" => TraceTopology
    /\ Config.mode = "paranoid3_helper" => Present("helper")
    /\ Config.mode # target \/ (StaleHelper /\ target = "cap_perfmon")
    /\ Begin("mode", SwitchModeProgram(target))

SwitchProfile(target) ==
    /\ Deployed /\ ProfileOf(disk) # target
    /\ Begin("profile", SwitchProfileProgram(target))

Upgrade ==
    /\ Deployed
    /\ ProfileOf(disk) = "full_diagnostics" => TraceTopology
    /\ Config.mode = "paranoid3_helper" => Present("helper")
    /\ Begin("upgrade", UpgradeProgram)

UpdatePolicy(c) ==
    /\ Deployed /\ c # Config /\ c.mode = Config.mode /\ c.grant = Config.grant
    /\ Begin("policy", UpdatePolicyProgram(c))

UpdateGrant(c) ==
    /\ Deployed /\ c.mode = Config.mode /\ c.grant # Config.grant
    /\ Config.mode = "paranoid3_helper"
    /\ disk["helper"] = HelperUnit(Config)
    /\ Present("trace") => /\ Present("tracePolicy")
                           /\ disk["trace"] = TraceUnit(Config, disk["tracePolicy"])
    /\ Begin("grant", UpdateGrantProgram(c))

Undeploy ==
    /\ \E u \in Units : Present(u)
    /\ Begin("undeploy", UndeployProgram)

----------------------------------------------------------------------------
(* Running the program.                                                    *)

InProgress == op.phase # "ended" /\ op.n < Len(op.program)
Current == op.program[op.n + 1]
Skipped == Current.unless \cap op.failed # {}
Ended(o, result) ==
    [o EXCEPT !.phase = "ended", !.result = result, !.program = <<>>, !.n = 0]

Skip ==
    /\ InProgress /\ Skipped
    /\ op' = [op EXCEPT !.n = @ + 1]
    /\ NoEffect /\ UNCHANGED <<package, faults>>

Succeed ==
    /\ InProgress /\ ~Skipped /\ Possible(Current)
    /\ Effect(Current)
    /\ op' = [op EXCEPT !.n = @ + 1]
    /\ UNCHANGED <<package, faults>>

\* A failed step starts the rollback; a step of the rollback that fails ends
\* it, is ignored, or is noted.
Failed(o) ==
    CASE o.phase = "forward" /\ HasRollback(o) ->
            [o EXCEPT !.phase = "back", !.program = Rollback(o, disk'), !.n = 0]
      [] o.phase = "forward" /\ ~HasRollback(o) -> Ended(o, "failed")
      [] o.phase = "back" /\ Current.errors = "raise" -> Ended(o, "unrestored")
      [] o.phase = "back" /\ Current.errors = "ignore" -> [o EXCEPT !.n = @ + 1]
      [] o.phase = "back" /\ Current.errors = "collect" ->
            [o EXCEPT !.n = @ + 1,
                      !.failed = @ \cup {IF Current.do = "disable" THEN Current.on ELSE "other"}]

Fail ==
    /\ InProgress /\ ~Skipped
    /\ \/ /\ ~Possible(Current)
          /\ NoEffect
          /\ op' = Failed(op)
          /\ UNCHANGED faults
       \/ /\ faults < MaxFaults
          /\ faults' = faults + 1
          /\ Leaves(Current)
          /\ op' = Failed([op EXCEPT !.faults = @ + 1])
    /\ UNCHANGED package

Finish ==
    /\ op.phase # "ended" /\ op.n = Len(op.program)
    /\ op' = Ended(op, IF op.phase = "forward" THEN "ok"
                       ELSE IF op.failed = {} THEN "restored" ELSE "unrestored")
    /\ NoEffect /\ UNCHANGED <<package, faults>>

\* Another package is installed; it touches no managed file.
InstallPackage ==
    /\ op.phase = "ended"
    /\ package' \in Versions \ {package}
    /\ op' = NoTransaction
    /\ NoEffect /\ UNCHANGED faults

Command ==
    \/ \E c \in Policies : Deploy(c) \/ UpdatePolicy(c) \/ UpdateGrant(c)
    \/ \E mode \in CollectorModes : SwitchMode(mode)
    \/ \E profile \in Profiles : SwitchProfile(profile)
    \/ Upgrade \/ Undeploy

Next == Command \/ Skip \/ Succeed \/ Fail \/ Finish \/ InstallPackage
Spec == Init /\ [][Next]_vars

----------------------------------------------------------------------------
(* Properties.                                                             *)

UnitContents ==
    [collector |-> [mode : CollectorModes, profile : Profiles, version : Versions],
     helper |-> [grant : Grants, version : Versions],
     trace |-> [mode : CollectorModes, grant : Grants, version : Versions,
                policy : [version : Versions] \cup {Missing}]]

TypeOK ==
    /\ \A u \in Units : {disk[u], loaded[u], running[u].unit} \subseteq
                           UnitContents[u] \cup {Missing}
    /\ disk["config"] \in Policies \cup {Missing}
    /\ disk["profile"] \in [profile : Profiles] \cup {Missing}
    /\ disk["tracePolicy"] \in [version : Versions] \cup {Missing}
    /\ enabled \subseteq Units /\ package \in Versions
    /\ op.result \in {"none", "ok", "restored", "failed", "unrestored"}
    /\ op.faults \in 0 .. faults /\ faults \in 0 .. MaxFaults

\* A command that succeeds on a healthy host, or deploys on a host without
\* services, ends with files that agree and with every unit running from them:
\* no Helper or grant is left that the policy does not give.
SuccessConverges ==
    op.result = "ok" /\ op.kind # "undeploy" /\ op.healthy \in {"yes", "absent"} => Healthy

\* After one failure the files are those of before and, unless there was nothing
\* to restore, every service runs from them again; a failed deployment leaves
\* nothing.  (A switch of the mode is left out: see FailureRestores.)
OneFaultRestored ==
    op.phase = "ended" /\ op.result # "ok" /\ op.faults = 1 =>
       /\ op.healthy = "yes" /\ op.kind \in {"profile", "grant", "policy", "upgrade"} =>
             disk = op.before /\ (op.result = "failed" \/ Healthy)
       /\ op.healthy = "absent" /\ op.kind = "deploy" => disk = op.before /\ Absent

\* Whatever earlier commands left behind, an upgrade that succeeds leaves the
\* collector that the deployed policy asks for running from it, and no Helper
\* unit but the one the policy asks for.
UpgradeConverges ==
    op.result = "ok" /\ op.kind = "upgrade" =>
       /\ disk["collector"] = CollectorUnit(Config.mode, ProfileOf(disk))
       /\ running["collector"] = [unit |-> disk["collector"], config |-> Config]
       /\ disk["helper"] = (IF Config.mode = "paranoid3_helper" THEN HelperUnit(Config) ELSE Missing)
       /\ Present("helper") => running["helper"].unit = disk["helper"]

\* "Failure restores the prior policy, units, and services": a switch of the
\* mode that meets one fault on a healthy host is rolled back.
FailureRestores ==
    op.healthy = "yes" /\ op.kind = "mode" /\ op.faults = 1 => op.result # "unrestored"

\* A command that reports success has brought files and services together.
Converges == SuccessConverges /\ UpgradeConverges
=============================================================================
