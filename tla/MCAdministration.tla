-------------------------- MODULE MCAdministration ---------------------------
(***************************************************************************)
(* The commands of an administrator of the collector: the archive and the  *)
(* prune of the spool, and the deployment of the collector.  They work on  *)
(* different directories, so a behaviour runs one of them.                 *)
(***************************************************************************)
EXTENDS MCSpoolArchive

CONSTANTS
    Versions, Revisions, Interruptible, MaxFaults

VARIABLE
    part   \* the component that runs; the others stay in their initial states

VARIABLES
    d_disk, d_loaded, d_enabled, d_running, d_package, d_op, d_faults

d_vars == <<
    d_disk, d_loaded, d_enabled, d_running, d_package, d_op, d_faults>>

D == INSTANCE CollectorDeployment WITH
    disk <- d_disk, loaded <- d_loaded, enabled <- d_enabled,
    running <- d_running, package <- d_package, op <- d_op,
    faults <- d_faults

ASSUME DeploymentAssumption == D!DeploymentConstants

all == <<part, vars, d_vars>>

AllInit ==
    /\ part \in {"spool", "deployment"}
    /\ Init
    /\ D!Init

AllNext ==
    \/ part = "spool" /\ Next
       /\ UNCHANGED <<part, d_vars>>
    \/ part = "deployment" /\ D!Next
       /\ UNCHANGED <<part, vars>>

AllSpec == AllInit /\ [][AllNext]_all

AllSymmetry ==
    Symmetry \cup Permutations(Versions) \cup Permutations(Revisions)

-----------------------------------------------------------------------------
\* After one failure of a deployment command the files and services are those
\* of before (admin/deploy.py; a switch of the mode is left out).
OneFaultRestored == D!OneFaultRestored

\* A deployment command that reports success has brought files and services
\* together (admin/deploy.py).
Converges == D!Converges
=============================================================================
