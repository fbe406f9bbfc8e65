---------------------------- MODULE ArtifactKinds ---------------------------
(***************************************************************************)
(* The kinds of artifacts, what each of them refers to, and from that the  *)
(* reads that a typed load or a page of an artifact consists of            *)
(* (mcp/storage.py).                                                       *)
(***************************************************************************)
EXTENDS Naturals, FiniteSets, SequencesExt

(***************************************************************************)
(* What a typed load of each kind loads in turn, in the order of the code. *)
(***************************************************************************)
Leaves ==
    {"analysis", "benchmark", "project-run", "collection", "trace-evidence",
     "container-target", "runtime-adapter-capability",
     "container-resource-context", "container-workload-spec"}

ProfileLinks ==
    [kind \in {"profile-comparison", "benchmark-comparison", "diagnosis"} |->
        CASE kind = "profile-comparison" -> <<"analysis", "analysis">>
          [] kind = "benchmark-comparison" -> <<"benchmark", "benchmark">>
          [] kind = "diagnosis" -> <<"analysis", "container-symbol-context">>]

LockEvidenceLinks ==
    [kind \in {"runtime-lock-evidence"} |-> <<"container-target", "container-run">>]

LockAuthorityLinks ==
    [kind \in {"runtime-lock-capability", "runtime-lock-preview"} |->
        IF kind = "runtime-lock-capability" THEN <<"runtime-adapter-capability">>
        ELSE <<"runtime-lock-capability">>]

LockAnalysisLinks ==
    [kind \in {"runtime-lock-analysis", "runtime-lock-verification",
               "runtime-lock-diagnosis"} |->
        CASE kind = "runtime-lock-analysis" -> <<"runtime-lock-evidence">>
          [] kind = "runtime-lock-verification" -> <<"runtime-lock-analysis">>
          [] kind = "runtime-lock-diagnosis" ->
                <<"runtime-lock-analysis", "runtime-lock-verification">>]

\* A session of revision 0; the chain of later revisions is the subject of
\* RuntimeLockCollection.
LockSessionLinks ==
    [kind \in {"runtime-lock-session", "runtime-lock-run-finalization"} |->
        IF kind = "runtime-lock-session" THEN <<"runtime-lock-preview">>
        ELSE <<"runtime-lock-session">>]

LockRunLinks ==
    [kind \in {"runtime-lock-run"} |->
        <<"runtime-lock-session", "runtime-lock-preview", "runtime-lock-analysis",
          "runtime-lock-verification", "runtime-lock-run-finalization">>]

\* The same file kind, when the run was authorized by a Docker optimization.
DockerLockRunLinks ==
    [kind \in {"docker-lock-run"} |->
        <<"docker-optimization-session", "docker-build", "container-target",
          "container-run", "container-measurement", "runtime-lock-analysis",
          "runtime-lock-verification", "benchmark">>]

LockComparisonLinks ==
    [kind \in {"runtime-lock-comparison"} |->
        <<"docker-lock-run", "runtime-lock-analysis", "runtime-lock-verification",
          "container-measurement", "container-matched-comparison", "docker-build">>]

ContainerLinks ==
    [kind \in {"container-module-snapshot", "container-symbol-context",
               "container-run"} |->
        CASE kind = "container-module-snapshot" -> <<"collection">>
          [] kind = "container-symbol-context" ->
                <<"analysis", "container-module-snapshot">>
          [] kind = "container-run" -> <<"container-resource-context", "benchmark">>]

MeasurementLinks ==
    [kind \in {"container-measurement", "container-matched-comparison"} |->
        IF kind = "container-measurement"
        THEN <<"collection", "container-resource-context", "container-run",
               "container-workload-spec", "benchmark">>
        ELSE <<"container-measurement", "analysis", "profile-comparison",
               "benchmark", "benchmark-comparison">>]

IterationLinks ==
    [kind \in {"docker-optimization-iteration"} |->
        <<"docker-optimization-session", "docker-build", "container-measurement",
          "analysis", "profile-comparison", "benchmark", "benchmark-comparison",
          "container-matched-comparison", "runtime-lock-comparison">>]

DispositionLinks ==
    [kind \in {"docker-optimization-disposition"} |->
        <<"docker-optimization-iteration", "docker-optimization-session",
          "docker-build">>]

TraceLinks ==
    [kind \in {"scheduler-analysis", "off-cpu-analysis", "lock-analysis"} |->
        <<"trace-evidence">>]

\* Kinds whose page is validated from a table: most have no references.
DockerSnapshotLeaves ==
    {"docker-build-capability", "docker-build-recipe", "docker-build-context",
     "docker-optimization-preview", "docker-optimization-session", "docker-build"}

Links ==
    [kind \in Leaves \cup DockerSnapshotLeaves |-> <<>>]
    @@ ProfileLinks @@ LockEvidenceLinks @@ LockAuthorityLinks
    @@ LockAnalysisLinks @@ LockSessionLinks @@ LockRunLinks
    @@ DockerLockRunLinks @@ LockComparisonLinks @@ ContainerLinks
    @@ MeasurementLinks @@ IterationLinks @@ DispositionLinks @@ TraceLinks

Kinds == DOMAIN Links

\* Benchmarks and project runs carry no digest of their own content.
Unsealed == {"benchmark", "project-run"}

\* References that bind an identity the artifact shares with others, not its
\* content.
Loose == {<<"container-run", "container-resource-context">>,
          <<"container-module-snapshot", "collection">>}

(***************************************************************************)
(* The reads of a call: each names the kind it reads and the read whose    *)
(* artifact refers to it (0: the call itself).                             *)
(***************************************************************************)
After(kind, readings) ==
    FoldLeft(LAMBDA sofar, reading :
                 sofar \o [i \in DOMAIN reading |->
                    [kind |-> reading[i].kind,
                     from |-> IF i = 1 THEN 1 ELSE reading[i].from + Len(sofar)]],
             <<[kind |-> kind, from |-> 0]>>, readings)

Reads[kind \in Kinds] ==
    After(kind, [i \in DOMAIN Links[kind] |-> Reads[Links[kind][i]]])

\* A page of these kinds is read, loaded a second time with everything it
\* refers to, and compared; the others are verified from the bytes read.
Reloaded == {"runtime-adapter-capability", "runtime-lock-capability",
             "runtime-lock-preview", "runtime-lock-verification",
             "runtime-lock-session", "runtime-lock-run", "docker-lock-run",
             "runtime-lock-run-finalization", "runtime-lock-comparison"}

\* References a load follows and a page of the same artifact does not.
PageLinks(kind) ==
    CASE kind = "runtime-lock-evidence" -> <<>>
      [] kind = "container-run" -> <<"container-resource-context">>
      [] kind = "runtime-lock-diagnosis" -> <<"runtime-lock-analysis">>
      [] OTHER -> Links[kind]

PageReads(kind) ==
    LET followed == IF kind \in Reloaded THEN <<kind>> ELSE PageLinks(kind)
    IN  After(kind, [i \in DOMAIN followed |-> Reads[followed[i]]])

\* Put together kind by kind, so that a call's reads are computed once.
LoadPlans == FoldSet(LAMBDA kind, plans : plans @@ (kind :> Reads[kind]), <<>>, Kinds)
PagePlans == FoldSet(LAMBDA kind, plans : plans @@ (kind :> PageReads(kind)), <<>>, Kinds)

Plans == ("load" :> LoadPlans) @@ ("page" :> PagePlans)

\* A call reads what it was asked for first, and every later read follows a
\* reference of an earlier one; only a page is loaded again by its own kind.
PlansOrdered ==
    \A call \in {"load", "page"} : \A kind \in Kinds :
        LET plan == Plans[call][kind] IN
        /\ plan \in Seq([kind : Kinds, from : Nat]) /\ Len(plan) >= 1
        /\ plan[1] = [kind |-> kind, from |-> 0]
        /\ \A i \in 2 .. Len(plan) :
               /\ plan[i].from \in 1 .. i - 1
               /\ plan[plan[i].from].kind = plan[i].kind => plan[i].from = 1
=============================================================================
