----------------------------- MODULE PlanLedger -----------------------------
(***************************************************************************)
(* What the Collector promises about its single-use plans, whatever        *)
(* happens to its process: a plan is executed at most once, one plan at a  *)
(* time, and evidence of a plan can appear only during that execution.     *)
(* (docs/architecture.md, "Single-use semantics do not depend on process   *)
(* memory".)                                                               *)
(***************************************************************************)
CONSTANT Plans

VARIABLES
    status,     \* status[p]: unused, executing or closed
    evidence    \* the plans whose evidence is in the spool

lvars == <<status, evidence>>

Init ==
    /\ status = [p \in Plans |-> "unused"]
    /\ evidence = {}

Begin(p) ==
    /\ status[p] = "unused"
    /\ \A q \in Plans : status[q] # "executing"
    /\ status' = [status EXCEPT ![p] = "executing"]
    /\ UNCHANGED evidence

Publish(p) ==
    /\ status[p] = "executing"
    /\ evidence' = evidence \cup {p}
    /\ UNCHANGED status

\* The execution ends, with its evidence or (a failure) without it.
Close(p) ==
    /\ status[p] = "executing"
    /\ status' = [status EXCEPT ![p] = "closed"]
    /\ evidence' \in {evidence, evidence \ {p}}

\* The administrator archives and removes evidence at any time.
Remove(p) ==
    /\ evidence' = evidence \ {p}
    /\ UNCHANGED status

Next == \E p \in Plans : Begin(p) \/ Publish(p) \/ Close(p) \/ Remove(p)

Spec == Init /\ [][Next]_lvars
=============================================================================
