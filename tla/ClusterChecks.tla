----------------------------- MODULE ClusterChecks -----------------------------
(***************************************************************************)
(* The other assessment checks that list objects of the cluster: sizing,   *)
(* sustainability, backup, security and the operator's own deployment.     *)
(* Conventions are those of AssessmentChecks; each check looks only at the *)
(* fields that its catalog gives the objects.                              *)
(***************************************************************************)
EXTENDS AssessmentChecks

CONSTANTS MinDeployments,   \* deployments before sprawl is judged: 8
          ManyCapabilities, \* so many dropped capabilities count as all: 39
          Capability        \* Capability[c]: the name c without CAP_, in capitals

ASSUME ThresholdsAssumption == MinDeployments \in Nat \ {0} /\ ManyCapabilities \in Nat \ {0}

-----------------------------------------------------------------------------
(* Cost: requests in proportion to limits.                                 *)

\* A request below a twentieth of the limit, or above it, fails; one below a
\* fifth is warned about.  The code divides floating-point numbers, the model
\* multiplies; they differ, if at all, where the ratio is the threshold.
RatioLevels(request, limit) ==
    {level \in {"failing", "warning"} :
       /\ request # None /\ limit > 0
       /\ IF request > limit \/ 20 * request < limit THEN level = "failing"
          ELSE level = "warning" /\ 5 * request < limit}

ContainerRatios(c) == RatioLevels(c.cpu, c.cpuLimit) \cup RatioLevels(c.memory, c.memoryLimit)

RequestLimitRatios(seen) ==
    UNION {{Finding(level, w) : level \in UNION {ContainerRatios(c) : c \in AllContainers(w)}} :
           w \in {v \in Workloads(seen) : ResourceRelevant(v)}}

-----------------------------------------------------------------------------
(* Sustainability: idle capacity, sprawl.                                  *)

\* What schedulable nodes offer, as far as it parses.
Offered(nodes, f) ==
    SumOf([n \in {m \in nodes : ~m.unschedulable /\ m[f] # None} |-> n[f]])

Allocatable(nodes) == [cpu |-> Offered(nodes, "cpu"), memory |-> Offered(nodes, "memory")]

\* Desired replicas times the effective request of a pod.
FleetRequests(ws) ==
    LET fleet == {w \in ws : ResourceRelevant(w) /\ ReplicasOr(w, 0) > 0}
    IN  [cpu |-> SumOf([w \in fleet |-> w.replicas * PodCpu(w)]),
         memory |-> SumOf([w \in fleet |-> w.replicas * PodMemory(w)])]

\* Less than 15 % of capacity that is worth the signal: 4 cores, 8 GiB.
Idle(use, capacity) ==
    \/ capacity.cpu >= 4000 /\ 100 * use.cpu < 15 * capacity.cpu
    \/ capacity.memory >= 8 /\ 100 * use.memory < 15 * capacity.memory

NoCapacity(seen) == Allocatable(seen.node) = [cpu |-> 0, memory |-> 0]

ResourceEfficiency(seen) ==
    IF Idle(FleetRequests(Workloads(seen)), Allocatable(seen.node))
    THEN {Finding("warning", "idle nodes")} ELSE {}

\* The deployments that run, and those of one replica.
Running(ds) == {d \in ds : ResourceRelevant(d) /\ ReplicasOr(d, 1) > 0}
Single(ds) == {d \in Running(ds) : ReplicasOr(d, 1) = 1}

Consolidation(seen) ==
    IF /\ Cardinality(Running(seen.deployment)) >= MinDeployments
       /\ 10 * Cardinality(Single(seen.deployment)) >= 6 * Cardinality(Running(seen.deployment))
    THEN {Finding("warning", "sprawl")} ELSE {}

-----------------------------------------------------------------------------
(* Reliability: backup tools.                                              *)

IsVelero(d) == "velero" \in {d.nameLabel, d.templateNameLabel}
IsSnapshotCrd(c) == c.group = "snapshot.storage.k8s.io" /\ c.namesSnapshots

BackupSignals(seen) ==
    IF \/ \E d \in seen.deployment : IsVelero(d) \/ d.namesController
       \/ \E c \in seen.crd : IsSnapshotCrd(c)
    THEN {} ELSE {Finding("warning", "no backup")}

-----------------------------------------------------------------------------
(* Security: roles and their bindings.                                     *)

SystemNamespaces == {"kube-system", "kube-public", "kube-node-lease", "kube9-system"}

IsClusterAdminBinding(b) == b.roleKind = "ClusterRole" /\ b.role = "cluster-admin"
IsSystemSubject(s) == s.kind = "ServiceAccount" /\ s.ns \in SystemNamespaces

\* A binding for the cluster is judged by its subjects, a namespaced one by
\* its own namespace.
Misused(b) ==
    /\ IsClusterAdminBinding(b)
    /\ IF b.kind = "clusterRoleBinding"
       THEN b.subjects = {} \/ \E s \in b.subjects : ~IsSystemSubject(s)
       ELSE b.ns \notin SystemNamespaces

ClusterAdminMisuse(seen) ==
    Findings("failing", {b \in seen.clusterRoleBinding \cup seen.roleBinding : Misused(b)})

HasWildcard(role) ==
    \E rule \in role.rules : "*" \in rule.resources \cup rule.verbs \cup rule.apiGroups

WildcardPermissions(seen) ==
    Findings("failing", {r \in seen.clusterRole \cup seen.role : HasWildcard(r)})

-----------------------------------------------------------------------------
(* Security: values that look secret.  An entry has a key that sounds      *)
(* sensitive or not, and the length of a value that may be a placeholder.  *)

LooksSecret(e, least) == e.sensitive /\ e.length >= least /\ ~e.placeholder

\* Only values written out, in containers that are not init containers.
Hardcodes(w) ==
    \E c \in w.containers : \E e \in c.env : e.literal /\ LooksSecret(e, 8)

HardcodedSecrets(seen) == Findings("failing", {w \in Scalable(seen) : Hardcodes(w)})

\* The length of binary data is that of the decoded text.
SecretsInConfigMaps(seen) ==
    Findings("failing",
             {m \in seen.configMap : \E e \in m.data \cup m.binaryData : LooksSecret(e, 4)})

\* The check reads one definition: it is there, or the check is skipped.
ExternalSecretsMissing(seen) == seen.crd = {}

-----------------------------------------------------------------------------
(* Security: pods, with their init and ephemeral containers.               *)

PodContainers(p) == p.containers \cup p.inits \cup p.ephemerals

PrivilegedContainers(seen) ==
    Findings("failing", {p \in seen.pod : \E c \in PodContainers(p) : c.privileged})

\* A container's own setting wins over the pod's.
RunsAsNonRoot(p, c) ==
    IF c.nonRoot # "notSet" THEN c.nonRoot = "true" ELSE p.nonRoot = "true"

RunAsNonRoot(seen) ==
    Findings("failing", {p \in seen.pod : \E c \in PodContainers(p) : ~RunsAsNonRoot(p, c)})

Dangerous == {"SYS_ADMIN", "SYS_MODULE", "SYS_PTRACE", "SYS_RAWIO", "NET_ADMIN",
              "DAC_READ_SEARCH", "AUDIT_CONTROL", "MKNOD", "SYS_BOOT", "SYS_TIME"}
DropsAll(c) ==
    Len(c.drop) >= ManyCapabilities \/ \E d \in Range(c.drop) : Capability[d] = "ALL"

CapabilitiesValidation(seen) ==
    Findings("failing", {p \in seen.pod : \E c \in PodContainers(p) :
                           ~DropsAll(c) /\ \E a \in Range(c.add) : Capability[a] \in Dangerous})

-----------------------------------------------------------------------------
(* Operational excellence: the deployment of the operator.                 *)

OperatorDeployments(ds) == {d \in ds : d.app = "kube9-operator"}

\* The container with the chart's name, or the first one.
OperatorContainer(d) ==
    LET named == {i \in DOMAIN d.containers : d.containers[i].name = "operator"}
    IN  d.containers[IF named = {} THEN 1 ELSE Min(named)]

NoContainers(d) == d.containers = <<>>

\* What the API server accepts: a probe by HTTP has a port.
DeployedOperator(d) ==
    /\ IsTuple(d.containers) /\ d.replicas \in Amount /\ d.maxUnavailable.value \in Nat
    /\ \A c \in Range(d.containers) :
         \A p \in {c.liveness, c.readiness} : p.http => p.port.by # "none"

\* A percentage of the replicas is rounded down; nothing set is 25 %.
MaxUnavailable(replicas, m) ==
    CASE m.unit = "pods"    -> IF m.value < replicas THEN m.value ELSE replicas
      [] m.unit = "percent" -> (replicas * m.value) \div 100
      [] OTHER              -> (replicas * 25) \div 100

StopsAllPods(d) ==
    LET replicas == IF d.replicas >= 1 THEN d.replicas ELSE 1
    IN  replicas >= 2 /\ (d.strategy = "Recreate" \/ MaxUnavailable(replicas, d.maxUnavailable) >= replicas)

DeploymentStrategy(seen) ==
    LET ds == OperatorDeployments(seen.deployment)
    IN  Findings("failing", {d \in ds : StopsAllPods(d)})
          \cup Findings("warning", {d \in ds : d.deadline > 0 /\ d.deadline < 120})

\* A port is a number or a name; a text that spells a number is that number.
DeclaresPort(probe, c) == \E p \in c.ports : probe.port.by # "none" /\ p[probe.port.by] = probe.port.value
Http(c) == c.liveness.http /\ c.readiness.http

HealthProblem(d) ==
    \/ NoContainers(d)
    \/ LET c == OperatorContainer(d)
       IN  \/ ~Http(c)
           \/ c.liveness.path # "/healthz" \/ c.readiness.path # "/readyz"
           \/ /\ "none" \notin {c.liveness.port.by, c.readiness.port.by}
              /\ c.liveness.port # c.readiness.port

HealthProbes(seen) ==
    Findings("failing", {d \in OperatorDeployments(seen.deployment) : HealthProblem(d)})

MetricsExposure(seen) ==
    LET ds == OperatorDeployments(seen.deployment)
        probed == {d \in ds : ~NoContainers(d) /\ Http(OperatorContainer(d))}
        Declared(d) == LET c == OperatorContainer(d)
                       IN  DeclaresPort(c.liveness, c) /\ DeclaresPort(c.readiness, c)
    IN  Findings("failing", {d \in ds : d \in probed => ~Declared(d)})
          \cup Findings("warning", {d \in probed : d.scrape = "false"})

LoggingConfiguration(seen) ==
    LET ds == OperatorDeployments(seen.deployment)
        At(d, levels) == ~NoContainers(d) /\ OperatorContainer(d).logLevel \in levels
    IN  Findings("failing", {d \in ds : ~At(d, {"error", "warn", "info", "debug"})})
          \cup Findings("warning", {d \in ds : At(d, {"debug"})})

\* serviceAccountName, or the deprecated field when it is empty.
AccountOf(d) == IF d.serviceAccountName # "" THEN d.serviceAccountName ELSE d.serviceAccount

AuditSignals(seen) ==
    Findings("failing", {d \in OperatorDeployments(seen.deployment) :
                           \/ NoContainers(d) \/ ~OperatorContainer(d).namespaceFromField
                           \/ AccountOf(d) \in {"", "default"}})

NoOperator(seen) == OperatorDeployments(seen.deployment) = {}
=============================================================================
