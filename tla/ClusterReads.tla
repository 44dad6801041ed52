----------------------------- MODULE ClusterReads -----------------------------
(***************************************************************************)
(* How the operator reads the cluster: a collector or an assessment check  *)
(* sends its list requests, each of them sees the objects of one kind as   *)
(* they are when the API server answers it, and then it makes a payload or *)
(* a verdict of the answers.  Other clients create, change and delete      *)
(* objects in the meantime, so the answers need not belong together.       *)
(*                                                                         *)
(* A reader is one of the three collectors or one of twenty-nine checks.   *)
(* The collectors wait for each answer before they send the next request;  *)
(* a check sends its requests together, except that the VPA check first    *)
(* reads the custom resource definition and the check of hard-coded        *)
(* secrets lists one kind after the other.  Readers share nothing:         *)
(* `reader' is chosen once, and reads again and again.                     *)
(***************************************************************************)
EXTENDS Collectors, ClusterChecks

CONSTANTS Catalog,     \* Catalog[r]: the objects that the cluster of r may have
          MaxChanges   \* bound: MaxChanges[r], changes of the cluster during one read

Readers == DOMAIN Catalog
Collecting == {"metadata", "inventory", "patterns"}

\* The kinds that a reader asks for, in stages: the requests of a stage are
\* sent together, and the next stage when all of them are answered.
CheckKinds ==
    LET scalable == {"deployment", "statefulSet"}
        all      == scalable \cup {"daemonSet"}
    IN  [replicaCounts |-> scalable, spread |-> scalable,
         budgets |-> scalable \cup {"pdb"}, hpa |-> scalable \cup {"hpa"},
         vpa |-> scalable \cup {"vpa"}, spot |-> scalable \cup {"node"},
         requests |-> all, limits |-> all, probes |-> all, overProvisioning |-> all,
         placement |-> all \cup {"node"}, ratios |-> all, efficiency |-> all \cup {"node"},
         backup |-> {"crd", "deployment"}, clusterAdmin |-> {"clusterRoleBinding", "roleBinding"},
         wildcards |-> {"clusterRole", "role"}, configMaps |-> {"configMap"},
         governance |-> all \cup {"quota", "limitRange", "namespace"}]

\* The checks of pods, and those that list the deployments only.
PodChecks == {"privileged", "nonRoot", "capabilities"}
OperatorChecks == {"strategy", "healthProbes", "metricsExposure", "logging", "audit"}

Stages(r) ==
    CASE r = "metadata"  -> <<{"version"}, {"node"}>>
      [] r = "inventory" -> <<{"namespace"}, {"pod"}, {"deployment"}, {"statefulSet"},
                              {"replicaSet"}, {"service"}>>
      [] r = "patterns"  -> <<{"pod"}, {"deployment"}, {"statefulSet"}, {"daemonSet"},
                              {"service"}>>
      [] r = "vpa"       -> <<{"crd"}, CheckKinds.vpa>>
      [] r = "secrets"   -> <<{"deployment"}, {"statefulSet"}>>
      [] r = "externalSecrets" -> <<{"crd"}>>
      [] r \in PodChecks -> <<{"pod"}>>
      [] r \in OperatorChecks \cup {"consolidation"} -> <<{"deployment"}>>
      [] OTHER           -> <<CheckKinds[r]>>

Kinds(r) == UNION {Stages(r)[i] : i \in DOMAIN Stages(r)}

\* Who reads: the collectors and the checks.
Known == Collecting \cup DOMAIN CheckKinds \cup PodChecks \cup OperatorChecks
           \cup {"secrets", "externalSecrets", "consolidation"}

\* The objects have the fields that their reader looks at, with values that
\* the API server accepts.
Fits(r, o) ==
    /\ r \in Collecting => Listed(o)
    /\ r \in OperatorChecks => DeployedOperator(o)
    /\ r \notin Collecting \cup OperatorChecks \cup {"backup", "secrets"}
         /\ o.kind \in {"deployment", "statefulSet", "daemonSet"} => ComputedWorkload(o)
    /\ r = "hpa" /\ o.kind = "hpa" => {o.min, o.max} \subseteq Amount
    /\ r = "governance" /\ o.kind = "quota" =>
         {o.cpu, o.memory, o.pods, o.cpuLimit, o.memoryLimit} \subseteq Amount
    /\ r = "efficiency" /\ o.kind = "node" => {o.cpu, o.memory} \subseteq Amount

ASSUME CatalogAssumption ==
    /\ Readers \subseteq Known
    /\ MaxChanges \in [Readers -> Nat]
    /\ \A r \in Readers :
         IsFiniteSet(Catalog[r]) /\ \A o \in Catalog[r] : o.kind \in Kinds(r) /\ Fits(r, o)

\* What the checks find.
Judge(r, seen) ==
    CASE r = "replicaCounts"    -> ReplicaCounts(seen)
      [] r = "spread"           -> SpreadAntiAffinity(seen)
      [] r = "budgets"          -> PodDisruptionBudgets(seen)
      [] r = "requests"         -> ResourceRequests(seen)
      [] r = "limits"           -> ResourceLimits(seen)
      [] r = "probes"           -> LivenessReadinessProbes(seen)
      [] r = "hpa"              -> HpaSanity(seen)
      [] r = "vpa"              -> VpaSanity(seen)
      [] r = "placement"        -> NodePlacement(seen)
      [] r = "spot"             -> SpotUsage(seen)
      [] r = "overProvisioning" -> OverProvisioning(seen)
      [] r = "governance"       -> NamespaceGovernance(seen)
      [] r = "ratios"           -> RequestLimitRatios(seen)
      [] r = "efficiency"       -> ResourceEfficiency(seen)
      [] r = "consolidation"    -> Consolidation(seen)
      [] r = "backup"           -> BackupSignals(seen)
      [] r = "clusterAdmin"     -> ClusterAdminMisuse(seen)
      [] r = "wildcards"        -> WildcardPermissions(seen)
      [] r = "secrets"          -> HardcodedSecrets(seen)
      [] r = "configMaps"       -> SecretsInConfigMaps(seen)
      [] r = "externalSecrets"  -> {}
      [] r = "privileged"       -> PrivilegedContainers(seen)
      [] r = "nonRoot"          -> RunAsNonRoot(seen)
      [] r = "capabilities"     -> CapabilitiesValidation(seen)
      [] r = "strategy"         -> DeploymentStrategy(seen)
      [] r = "healthProbes"     -> HealthProbes(seen)
      [] r = "metricsExposure"  -> MetricsExposure(seen)
      [] r = "logging"          -> LoggingConfiguration(seen)
      [] r = "audit"            -> AuditSignals(seen)

\* A check has nothing to judge: no capacity, no external secrets, no
\* deployment of the operator.
Skips(r, seen) ==
    \/ r = "externalSecrets" /\ ExternalSecretsMissing(seen)
    \/ r = "efficiency" /\ NoCapacity(seen)
    \/ r \in OperatorChecks /\ NoOperator(seen)

VARIABLES
    reader,      \* who reads
    phase,       \* "idle", "reading" or "done"
    config,      \* what the kube config has of the current cluster
    cluster,     \* the objects that the API server has
    stage,       \* the stage of the requests that were sent last
    pending,     \* the kinds that are not answered yet
    seen,        \* seen[kind]: the answer, {} before it
    changes,     \* changes of the cluster during this read
    throughout,  \* history: the objects that were there during the whole read
    ever,        \* history: the objects that were there at some time of it
    result       \* what the reader made of the answers

vars == <<reader, phase, config, cluster, stage, pending, seen, changes, throughout,
          ever, result>>

Identity(o) == <<o.kind, o.ns, o.name>>

\* A state of the API server: one object for each name, and one version.
States(r) ==
    {S \in SUBSET Catalog[r] :
       /\ \A o, p \in S : Identity(o) = Identity(p) => o = p
       /\ "version" \in Kinds(r) => \E o \in S : o.kind = "version"}

Nothing == [outcome |-> "none", data |-> {}]

Init ==
    /\ reader \in Readers /\ phase = "idle" /\ config = "ca" /\ cluster = {}
    /\ stage = 1 /\ pending = {} /\ seen = [k \in Kinds(reader) |-> {}]
    /\ changes = 0 /\ throughout = {} /\ ever = {} /\ result = Nothing

\* A read begins, in any state of the cluster.  Two collectors need the
\* identifier of the cluster first and throw without it, before any request.
Begin ==
    /\ phase = "idle"
    /\ cluster' \in States(reader)
    /\ config' \in IF reader \in Collecting THEN {"ca", "server", "none"} ELSE {"ca"}
    /\ reader \in {"inventory", "patterns"} => ClusterIdKnown(config')
    /\ phase' = "reading" /\ pending' = Stages(reader)[1]
    /\ throughout' = cluster' /\ ever' = cluster'
    /\ UNCHANGED <<reader, stage, seen, changes, result>>

\* The read is over, and forgotten.
Forget ==
    /\ phase' = "idle" /\ config' = "ca" /\ cluster' = {}
    /\ stage' = 1 /\ pending' = {} /\ seen' = [k \in Kinds(reader) |-> {}]
    /\ changes' = 0 /\ throughout' = {} /\ ever' = {} /\ result' = Nothing
    /\ UNCHANGED reader

\* The payload is stored, or dropped, or the verdict is recorded.
Return == phase = "done" /\ Forget

\* The API server answers a request with the objects of the kind.
Answer(kind) ==
    /\ phase = "reading" /\ kind \in pending
    /\ seen' = [seen EXCEPT ![kind] = {o \in cluster : o.kind = kind}]
    /\ pending' = pending \ {kind}
    /\ UNCHANGED <<reader, phase, config, cluster, stage, changes, throughout, ever, result>>

\* All but the phase and the result.
Frame == UNCHANGED <<reader, config, cluster, stage, pending, seen, changes, throughout, ever>>

\* A request is refused or lost, or the resource is gone: the reader throws.
\* The checks of roles catch it, and their verdict is an error.
RequestFails(kind) ==
    /\ phase = "reading" /\ kind \in pending
    /\ IF reader \in {"clusterAdmin", "wildcards"}
       THEN /\ phase' = "done" /\ result' = [outcome |-> "error", data |-> {}]
            /\ Frame
       ELSE Forget

\* Mutant: an empty answer is taken for a failure and asked for again.
AskAgain ==
    /\ phase = "reading" /\ pending = {} /\ stage < Len(Stages(reader))
    /\ \E next \in {IF \E k \in Stages(reader)[stage] : seen[k] = {} THEN stage ELSE stage + 1} :
         stage' = next /\ pending' = Stages(reader)[next]
    /\ UNCHANGED <<reader, phase, config, cluster, seen, changes, throughout, ever, result>>

\* All requests of the stage are answered, and there is another stage.  The
\* VPA check ends here when the resource is not defined.
Proceed ==
    /\ phase = "reading" /\ pending = {} /\ stage < Len(Stages(reader))
    /\ IF reader = "vpa" /\ seen.crd = {}
       THEN /\ phase' = "done" /\ result' = [outcome |-> "skipped", data |-> {}]
            /\ UNCHANGED <<stage, pending>>
       ELSE /\ stage' = stage + 1 /\ pending' = Stages(reader)[stage + 1]
            /\ UNCHANGED <<phase, result>>
    /\ UNCHANGED <<reader, config, cluster, seen, changes, throughout, ever>>

LastStageAnswered ==
    phase = "reading" /\ pending = {} /\ stage = Len(Stages(reader))

Stored(valid, data) == [outcome |-> IF valid THEN "stored" ELSE "rejected", data |-> data]

\* The cluster metadata: of the nodes, in any order, the first one counts.
\* Without a node, or without the identifier of the cluster, it throws.
FinishMetadata ==
    /\ LastStageAnswered /\ reader = "metadata"
    /\ IF MetadataCollected(config, seen.node)
       THEN /\ phase' = "done"
            /\ \E first \in seen.node, version \in seen.version :
               \E d \in {MetadataOf(version, seen.node, first)} :
                 result' = Stored(ValidMetadata(d), d)
            /\ Frame
       ELSE Forget

FinishInventory ==
    /\ LastStageAnswered /\ reader = "inventory"
    /\ phase' = "done"
    /\ \E d \in {InventoryOf(seen)} : result' = Stored(ValidInventory(d), d)
    /\ Frame

FinishPatterns ==
    /\ LastStageAnswered /\ reader = "patterns"
    /\ phase' = "done"
    /\ \E d \in {PatternsOf(seen)} : result' = Stored(ValidPatterns(d), d)
    /\ Frame

\* A check gives its verdict.
FinishCheck ==
    /\ LastStageAnswered /\ reader \notin Collecting
    /\ phase' = "done"
    /\ IF Skips(reader, seen) THEN result' = [outcome |-> "skipped", data |-> {}]
       ELSE \E findings \in {Judge(reader, seen)} :
              result' = [outcome |-> Worst(findings), data |-> findings]
    /\ Frame

\* Another client creates, replaces or deletes an object; a version is only
\* replaced.
Change(o) ==
    /\ phase = "reading" /\ changes < MaxChanges[reader]
    /\ o.kind = "version" => o \notin cluster
    /\ cluster' = {p \in cluster : Identity(p) # Identity(o)}
                    \cup (IF o \in cluster THEN {} ELSE {o})
    /\ changes' = changes + 1
    /\ throughout' = throughout \cap cluster'
    /\ ever' = ever \cup cluster'
    /\ UNCHANGED <<reader, phase, config, stage, pending, seen, result>>

ReaderStep == Proceed \/ FinishMetadata \/ FinishInventory \/ FinishPatterns \/ FinishCheck
RequestEnds == \E kind \in pending : Answer(kind) \/ RequestFails(kind)

Next == Begin \/ Return \/ RequestEnds \/ ReaderStep \/ \E o \in Catalog[reader] : Change(o)

\* A request is answered or fails, and the continuation of a promise runs.
Fairness == WF_vars(RequestEnds) /\ WF_vars(ReaderStep)
Spec == Init /\ [][Next]_vars /\ Fairness

-----------------------------------------------------------------------------
(* What a payload and a verdict may say of the time of the read.           *)

Steady(kinds) == {o \in throughout : o.kind \in kinds}
Sometime(kinds) == {o \in ever : o.kind \in kinds}
Payload == result.data
Made(r) == phase = "done" /\ reader = r

\* The state has its shape; a payload has the shape that types.ts declares
\* for it, every array and every count of it, and a verdict is a status with
\* its findings.
TypeOK ==
    /\ reader \in Readers /\ phase \in {"idle", "reading", "done"}
    /\ config \in {"ca", "server", "none"} /\ cluster \subseteq Catalog[reader]
    /\ stage \in 1..Len(Stages(reader)) /\ pending \subseteq Stages(reader)[stage]
    /\ DOMAIN seen = Kinds(reader) /\ \A k \in Kinds(reader) : seen[k] \subseteq ever
    /\ changes \in 0..MaxChanges[reader] /\ throughout \subseteq cluster /\ cluster \subseteq ever
    /\ IF phase = "done" THEN result.outcome # "none" ELSE result = Nothing
    /\ Made("metadata") => Payload \in ClusterMetadata
    /\ Made("inventory") => ResourceInventory(Payload)
    /\ Made("patterns") => Payload \in ResourceConfigurationPatternsData
    /\ phase = "done" =>
         IF reader \in Collecting THEN result.outcome \in {"stored", "rejected"}
         ELSE result.outcome \in {"passing", "warning", "failing", "skipped", "error"}

\* An inventory and the patterns of any cluster pass the validation, so that
\* their processCollection, which swallows the error, never drops one; the
\* metadata are stored just when the version has three numbers and nothing
\* more, and the cluster not more nodes than a payload may have.
PayloadsValidate ==
    /\ Made("inventory") \/ Made("patterns") => result.outcome = "stored"
    /\ Made("metadata") =>
         (result.outcome = "stored"
            <=> Payload.kubernetesVersion = "plain" /\ Payload.nodeCount <= MaxNodes)

\* The numbers of one payload agree with each other: what is counted by
\* namespace, type, policy, setting or probe adds up to the total, and every
\* total of containers, pods and services is the same one.
InventoryAddsUp ==
    /\ SumOf(Payload.resources.pods.byNamespace) = Payload.resources.pods.total
    /\ SumOf(Payload.resources.services.byType) = Payload.resources.services.total
    /\ Len(Payload.namespaces.list) = Payload.namespaces.count

PatternsAddUp ==
    LET containers == Payload.resourceLimitsRequests.totalCount
        pods       == Payload.securityContexts.totalPods
        security   == Payload.securityContexts
        counted    == Payload.labelsAnnotations
    IN  /\ containers = Payload.imagePullPolicies.totalContainers
        /\ containers = security.totalContainers /\ containers = Payload.probes.totalContainers
        /\ \A k \in {"cpuRequests", "cpuLimits", "memoryRequests", "memoryLimits"} :
             Len(Payload.resourceLimitsRequests[k]) = containers
        /\ SumOf(Payload.imagePullPolicies.policies) = containers
        /\ \A k \in {"runAsNonRoot", "readOnlyRootFilesystem", "allowPrivilegeEscalation"} :
             SumOf(security.containerLevel[k]) = containers
        /\ \A k \in {"livenessProbes", "readinessProbes", "startupProbes"} :
             LET p == Payload.probes[k]
             IN  /\ p.configured + p.notConfigured = containers
                 /\ SumOf(p.probeTypes) <= p.configured
                 /\ Len(p.periodSeconds) <= p.configured
        /\ \A k \in {"runAsNonRoot", "fsGroup"} : SumOf(security.podLevel[k]) = pods
        /\ pods = Payload.volumes.totalPods /\ pods = Len(Payload.volumes.volumesPerPod)
        /\ pods = Len(counted.labelCounts.pods) /\ pods = Len(counted.annotationCounts.pods)
        /\ SumOf(Payload.volumes.volumeTypes) = SumOf(Payload.volumes.volumesPerPod)
        /\ Payload.services.totalServices = SumOf(Payload.services.serviceTypes)
        /\ Payload.services.totalServices = Len(counted.labelCounts.services)
        /\ Len(Payload.replicaCounts.deployments) <= Len(counted.labelCounts.deployments)

TotalsAgree ==
    /\ Made("inventory") => InventoryAddsUp
    /\ Made("patterns") => PatternsAddUp

\* A count of a payload is one that the cluster could have had during the
\* read: no less than the objects of the kind that were there all the time,
\* and no more than the different objects that were there at some time.
CouldCount(n, kind) ==
    /\ n >= Cardinality(Steady({kind}))
    /\ n <= Cardinality({Identity(o) : o \in Sometime({kind})})

CountsAreOfTheirTime ==
    /\ Made("metadata") => CouldCount(Payload.nodeCount, "node")
    /\ Made("inventory") =>
         /\ CouldCount(Payload.namespaces.count, "namespace")
         /\ CouldCount(Payload.resources.pods.total, "pod")
         /\ CouldCount(Payload.resources.deployments.total, "deployment")
         /\ CouldCount(Payload.resources.statefulSets.total, "statefulSet")
         /\ CouldCount(Payload.resources.replicaSets.total, "replicaSet")
         /\ CouldCount(Payload.resources.services.total, "service")
    /\ Made("patterns") =>
         /\ CouldCount(Payload.securityContexts.totalPods, "pod")
         /\ CouldCount(Len(Payload.labelsAnnotations.labelCounts.deployments), "deployment")
         /\ CouldCount(Payload.replicaCounts.daemonSetCount, "daemonSet")
         /\ CouldCount(Payload.services.totalServices, "service")

\* Kubernetes' own meaning of what the checks look for, by the objects
\* alone.  A disruption budget with plain labels guards the pods that carry
\* all of them; an expression NotIn also admits pods without the key.
Guards(p, w) ==
    /\ p.ns = w.ns
    /\ \A k \in DOMAIN p.labels : k \in DOMAIN w.podLabels /\ w.podLabels[k] = p.labels[k]
    /\ \A e \in p.exprs :
         LET value == {w.podLabels[k] : k \in DOMAIN w.podLabels \cap {e.key}}
         IN  CASE e.op = "In"     -> value \cap e.values # {}
               [] e.op = "NotIn"  -> value \cap e.values = {}
               [] e.op = "Exists" -> value # {}
               [] OTHER           -> value = {}

ScalableObjects(S) == {w \in S : w.kind \in ScalableKinds}
WorkloadObjects(S) == {w \in S : w.kind \in ScalableKinds \cup {"daemonSet"}}
Resolves(a, S) == \E w \in ScalableObjects(S) : w.ns = a.ns /\ w.kind = a.targetKind /\ w.name = a.targetName
HpaNumbers(h) == h.max >= 1 /\ h.min # 0 /\ (h.min <= h.max) /\ h.metrics /\ BehaviorValid(h)
CanRun(w, nodes) == {n \in nodes : MatchesPlacement(w, n)}
Demand(ns, S) == NamespaceUsage(In(WorkloadObjects(S), ns))
Exceeds(demand, q) ==
    \/ q.cpu # None /\ demand.cpu > q.cpu
    \/ q.memory # None /\ demand.memory > q.memory
    \/ q.pods # None /\ demand.pods > q.pods

\* What the checks that judge one object after another ask of an object, for
\* whatever reason they would blame it.
InProportion(request, limit) ==
    request = None \/ limit <= 0 \/ (request <= limit /\ limit <= 5 * request)
WellUsed(use, capacity) ==
    /\ capacity.cpu >= 4000 => 20 * use.cpu >= 3 * capacity.cpu
    /\ capacity.memory >= 8 => 20 * use.memory >= 3 * capacity.memory
RunsVelero(d) == d.nameLabel = "velero" \/ d.templateNameLabel = "velero"
Secret(e, least) == e.sensitive /\ ~e.placeholder /\ e.length >= least
LeftInRollout(d) ==
    IF d.strategy = "Recreate" THEN 0 ELSE d.replicas - MaxUnavailable(d.replicas, d.maxUnavailable)

Acceptable(o) ==
    CASE reader = "ratios" -> ResourceRelevant(o) =>
           \A c \in AllContainers(o) :
             InProportion(c.cpu, c.cpuLimit) /\ InProportion(c.memory, c.memoryLimit)
      [] reader = "clusterAdmin" -> o.role = "cluster-admin" /\ o.roleKind = "ClusterRole" =>
           IF o.kind = "roleBinding" THEN o.ns \in SystemNamespaces
           ELSE \A s \in o.subjects : s.ns \in SystemNamespaces
      [] reader = "wildcards" -> \A rule \in o.rules : rule.verbs \cap {"*"} = {}
      [] reader = "secrets" -> \A c \in o.containers : \A e \in c.env : e.literal => ~Secret(e, 8)
      [] reader = "configMaps" -> \A e \in o.data \cup o.binaryData : ~Secret(e, 4)
      [] reader = "privileged" -> \A c \in o.containers \cup o.ephemerals : ~c.privileged
      [] reader = "nonRoot" -> \A c \in o.containers :
           /\ c.nonRoot # "false"
           /\ o.nonRoot # "true" => c.nonRoot = "true"
      [] reader = "capabilities" -> \A c \in o.containers :
           "SYS_ADMIN" \in {Capability[a] : a \in Range(c.add)} => c.drop # <<>>
      [] reader = "strategy" -> o.app = "kube9-operator" /\ o.replicas >= 2 => LeftInRollout(o) >= 1
      [] reader \in {"healthProbes", "metricsExposure"} ->
           o.app = "kube9-operator" =>
             \E c \in Range(o.containers) :
               /\ c.liveness.http /\ c.readiness.http
               /\ IF reader = "metricsExposure" THEN c.ports # {}
                  ELSE c.liveness.path = "/healthz" /\ c.liveness.port = c.readiness.port
      [] reader = "logging" -> o.app = "kube9-operator" =>
           \E c \in Range(o.containers) : c.logLevel \in {"error", "warn", "info"}
      [] reader = "audit" -> o.app = "kube9-operator" =>
           "default" # o.serviceAccountName /\ {o.serviceAccountName, o.serviceAccount} # {""}
      [] OTHER -> TRUE

\* A check that passes has overlooked nothing that was there during the whole
\* read: whatever it should have found was missing, or was relieved by
\* another object, at some time of the read.  One that is skipped has nothing
\* to judge.
PassIsSound ==
  /\ phase = "done" /\ result.outcome = "skipped" =>
       \/ reader \in {"vpa", "externalSecrets"} /\ Steady({"crd"}) = {}
       \/ reader = "efficiency" /\ Allocatable(Steady({"node"})).cpu = 0
       \/ reader \in OperatorChecks /\ OperatorDeployments(Steady({"deployment"})) = {}
  /\ phase = "done" /\ result.outcome = "passing" =>
      /\ \A o \in throughout : Acceptable(o)
      /\ reader = "efficiency" =>
           WellUsed(FleetRequests(WorkloadObjects(ever)), Allocatable(Steady({"node"})))
      /\ reader = "consolidation" /\ Cardinality(Running(throughout)) >= MinDeployments =>
           10 * Cardinality(Single(throughout)) < 6 * Cardinality({Identity(d) : d \in Running(ever)})
      /\ reader = "backup" =>
           \/ \E d \in Sometime({"deployment"}) : RunsVelero(d) \/ d.namesController
           \/ \E c \in Sometime({"crd"}) : c.namesSnapshots
      /\ reader \in {"spread", "budgets"} =>
           \A w \in ScalableObjects(throughout) : HaRelevant(w) /\ ReplicasOr(w, 1) >= 2 =>
             IF reader = "spread" THEN HasSpread(w) ELSE \E p \in Sometime({"pdb"}) : Guards(p, w)
      /\ reader = "replicaCounts" =>
           \A w \in ScalableObjects(throughout) : HaRelevant(w) => w.replicas >= MinHaReplicas
      /\ reader = "requests" =>
           \A w \in WorkloadObjects(throughout) : ResourceRelevant(w) => ~LacksRequests(w)
      /\ reader = "limits" =>
           \A w \in WorkloadObjects(throughout) : ResourceRelevant(w) => ~LacksLimits(w)
      /\ reader = "probes" =>
           \A w \in WorkloadObjects(throughout) : ProbeRelevant(w) =>
             \A c \in Range(w.containers) : HasProbe(c.liveness) /\ HasProbe(c.readiness)
      /\ reader = "hpa" =>
           \A h \in Steady({"hpa"}) : InScope(h) => Resolves(h, ever) /\ HpaNumbers(h)
      /\ reader = "vpa" => \A v \in Steady({"vpa"}) : InScope(v) => Resolves(v, ever)
      /\ reader = "placement" =>
           \A w \in WorkloadObjects(throughout) : InScope(w) =>
             /\ w.nodeName = "none"
             /\ Constrained(w) => CanRun(w, Sometime({"node"})) # {}
             /\ PlacedReplicas(w) >= 2 => HasSpread(w)
      /\ reader = "spot" /\ (\E n \in Steady({"node"}) : LooksSpot(n)) =>
             \A w \in ScalableObjects(throughout) : ResourceRelevant(w) => TargetsSpot(w)
      /\ reader = "overProvisioning" =>
           \A w \in WorkloadObjects(throughout) : ResourceRelevant(w) /\ w.replicas > 0 =>
             PodCpu(w) < 4000 /\ PodMemory(w) < 16
      /\ reader = "governance" =>
           \A q \in Steady({"quota"}) : InScope(q) => ~Exceeds(Demand(q.ns, throughout), q)

\* A check that warns or fails blames objects that were there at some time of
\* the read, for something that nothing which was there all the time relieves.
Blamed == {f.about : f \in result.data}
BlameIsSound ==
    phase = "done" /\ result.outcome \in {"warning", "failing"} =>
      /\ reader \in {"spread", "budgets", "replicaCounts", "requests", "limits", "probes",
                     "spot", "overProvisioning"} => Blamed \subseteq WorkloadObjects(ever)
      /\ reader \notin {"hpa", "vpa", "placement", "efficiency", "consolidation", "backup", "governance"} =>
           Blamed \subseteq ever
      /\ reader = "efficiency" =>
           ~WellUsed(FleetRequests(WorkloadObjects(throughout)), Allocatable(Sometime({"node"})))
      /\ reader = "consolidation" => Single(ever) # {}
      /\ reader = "backup" => \A d \in Steady({"deployment"}) : ~RunsVelero(d) /\ ~d.namesController
      /\ reader = "budgets" =>
           \A w \in Blamed, p \in Steady({"pdb"}) :
             ~(DOMAIN p.labels # {} /\ p.exprs = {} /\ Guards(p, w))
      /\ reader = "hpa" =>
           IF result.outcome = "failing"
           THEN \A h \in Blamed : h \in ever /\ ~(Resolves(h, throughout) /\ HpaNumbers(h))
           ELSE /\ Blamed \subseteq {Key(w) : w \in ScalableObjects(ever)}
                /\ \A h \in Steady({"hpa"}) : InScope(h) => Target(h) \notin Blamed
      /\ reader = "vpa" /\ result.outcome = "failing" =>
           \A v \in Blamed : v \in ever /\ ~(Resolves(v, throughout) /\ v.mode \in UpdateModes)
      /\ reader = "placement" /\ Sometime({"node"}) # {} /\ result.outcome = "failing" =>
           \E w \in Blamed : w.nodeName # "none" \/ CanRun(w, Steady({"node"})) = {}
      /\ reader = "spot" =>
           /\ \E n \in Sometime({"node"}) : LooksSpot(n)
           /\ result.outcome = "failing" =>
                \A w \in ScalableObjects(throughout) : ResourceRelevant(w) => ~TargetsSpot(w)
      /\ reader = "governance" /\ result.outcome = "failing" =>
           \E q \in Sometime({"quota"}) : Exceeds(Demand(q.ns, ever), q)

\* Every read comes to an end: it makes its payload or verdict, or it throws.
ReadsEnd == phase = "reading" ~> phase # "reading"

\* types.ts:30 declares a version that begins with three numbers, whatever
\* follows: the metadata of such a cluster are stored.
DocumentedVersionsAreStored ==
    Made("metadata") /\ Payload.kubernetesVersion \in {"plain", "suffixed"}
      /\ Payload.nodeCount <= MaxNodes => result.outcome = "stored"
=============================================================================
