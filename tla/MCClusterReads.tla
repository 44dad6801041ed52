---- MODULE MCClusterReads ----
(***************************************************************************)
(* Objects for the readers of ClusterReads: for each reader those that its *)
(* rules tell apart, some of them two versions of one object.              *)
(***************************************************************************)
EXTENDS ClusterReads

NoLabels == [x \in {} |-> "none"]

\* Two of the namespaces have the same identifier.
MCHash == [prod |-> "id1", shop |-> "id1", dev |-> "id2"]
MCProdNames == {"prod"}
MCNumberOf == [n4 |-> 4, n8 |-> 8]

Named(kind, ns, name) == [kind |-> kind, ns |-> ns, name |-> name]

\* Nodes, versions and namespaces.
Version(text) == Named("version", "none", "version") @@ [text |-> text]
MetaNode(name, labels, regions, zones) ==
    Named("node", "none", name) @@ [labels |-> labels, regions |-> regions, zones |-> zones]
Node(name, labels, spot) ==
    Named("node", "none", name) @@ [labels |-> labels, spotLabel |-> spot, spotTaint |-> FALSE]
Namespace(name, prod) == Named("namespace", "none", name) @@ [prodLabel |-> prod]

\* What the inventory and the patterns look at.
Probe(handler, time) == [handler |-> handler, delay |-> time, timeout |-> NotSet, period |-> time]
PodContainer(policy, tri, probe) ==
    [cpu |-> <<100, NotSet>>, memory |-> <<NotSet, 2>>, policy |-> policy, nonRoot |-> tri,
     readOnly |-> tri, escalation |-> "notSet", added |-> <<"NET_ADMIN">>, dropped |-> <<>>,
     probes |-> [liveness |-> probe, readiness |-> Probe("missing", NotSet),
                 startup |-> Probe("unknown", 3)]]
Pod(name, ns, containers, volumes) ==
    Named("pod", ns, name) @@
    [nonRoot |-> "true", fsGroup |-> "set", labels |-> 2, annotations |-> 0,
     containers |-> containers, volumes |-> volumes]
Counting(kind, name, replicas) ==
    Named(kind, "shop", name) @@ [replicas |-> replicas, labels |-> 1, annotations |-> 1]
Service(name, type) ==
    Named("service", "shop", name) @@ [type |-> type, ports |-> 2, labels |-> 0, annotations |-> 1]

PodA == Pod("a", "shop", <<PodContainer("Always", "true", Probe("http", 5)),
                           PodContainer("other", "notSet", Probe("grpc", NotSet))>>,
            <<"configMap", "other">>)
PodB == Pod("b", "prod", <<PodContainer("Never", "false", Probe("missing", NotSet))>>, <<>>)

MetadataObjects ==
    {Version("plain"), Version("suffixed"), Version("unknown"),
     MetaNode("n1", {"eks-nodegroup"}, <<2, 0>>, <<0, 0, 4>>),
     MetaNode("n1", {"gke-os"}, <<0, 4>>, <<0, 2, 0>>),
     MetaNode("n2", {"role-master"}, <<0, 0>>, <<0, 0, 0>>),
     MetaNode("n3", {}, <<1, 4>>, <<3, 0, 0>>)}

InventoryObjects ==
    {Namespace("prod", FALSE), Namespace("shop", FALSE), PodA, PodB,
     Counting("deployment", "d", 1), Counting("statefulSet", "s", 1),
     Service("v", "unset"), Named("replicaSet", "shop", "r")}

PatternObjects ==
    {PodA, PodB, Counting("deployment", "d", 2), Counting("deployment", "d", NotSet),
     Counting("statefulSet", "s", 1), Named("daemonSet", "shop", "m"),
     Service("v", "unset"), Service("v", "NodePort")}

\* What the checks look at.
NoProbe == [handler |-> "none", target |-> "none", complete |-> TRUE, delay |-> 0, period |-> 10,
            timeout |-> 1]
HttpProbe == [NoProbe EXCEPT !.handler = "http"]
Container ==
    [cpu |-> 500, memory |-> 1, cpuLimit |-> 1000, memoryLimit |-> 2,
     liveness |-> [HttpProbe EXCEPT !.target = "live"], readiness |-> HttpProbe]
Workload(kind, name, replicas) ==
    Named(kind, "shop", name) @@
    [marks |-> {}, replicas |-> replicas, antiAffinity |-> TRUE, topologySpread |-> FALSE,
     podLabels |-> [app |-> name], inits |-> <<>>, containers |-> <<Container>>,
     nodeName |-> "none", nodeSelector |-> NoLabels, required |-> FALSE, terms |-> {},
     nodeAffinity |-> FALSE, spotHints |-> {}]
Web == Workload("deployment", "web", 2)
Db == Workload("statefulSet", "db", 3)
Agent == Workload("daemonSet", "agent", 0)

ReplicaObjects ==
    {Web, [Web EXCEPT !.replicas = None], [Db EXCEPT !.replicas = 0],
     [Db EXCEPT !.ns = "kube-system", !.replicas = 1],
     [Workload("deployment", "job", 1) EXCEPT !.marks = {"ha-exempt"}]}

SpreadObjects ==
    {Web, [Web EXCEPT !.antiAffinity = FALSE], [Db EXCEPT !.antiAffinity = FALSE,
     !.topologySpread = TRUE], [Db EXCEPT !.antiAffinity = FALSE, !.replicas = 1]}

Pdb(name, ns, labels, exprs) == Named("pdb", ns, name) @@ [labels |-> labels, exprs |-> exprs]
BudgetObjects ==
    {Web, Db, [Web EXCEPT !.podLabels = NoLabels],
     Pdb("all", "shop", NoLabels, {}), Pdb("web", "shop", [app |-> "web"], {}),
     Pdb("web", "dev", [app |-> "web"], {}),
     Pdb("some", "shop", NoLabels, {[key |-> "app", op |-> "NotIn", values |-> {"db"}]}),
     Pdb("db", "shop", NoLabels, {[key |-> "app", op |-> "In", values |-> {"db"}],
                                  [key |-> "old", op |-> "DoesNotExist", values |-> {}]})}

ContainerObjects ==
    {Web, [Web EXCEPT !.containers = <<Container, [Container EXCEPT !.cpu = None]>>],
     [Db EXCEPT !.inits = <<[Container EXCEPT !.memoryLimit = None, !.memory = None]>>],
     [Agent EXCEPT !.marks = {"resource-exempt"}, !.containers = <<[Container EXCEPT !.cpuLimit = None]>>],
     Agent}

ProbeObjects ==
    {Web, [Web EXCEPT !.containers = <<[Container EXCEPT !.liveness = NoProbe]>>],
     [Db EXCEPT !.containers = <<[Container EXCEPT !.liveness = HttpProbe]>>],
     [Db EXCEPT !.containers = <<[Container EXCEPT !.readiness = [HttpProbe EXCEPT !.complete = FALSE]]>>],
     [Agent EXCEPT !.marks = {"probe-exempt"}, !.containers = <<[Container EXCEPT !.readiness = NoProbe]>>]}

Hpa(name, kind, target) ==
    Named("hpa", "shop", name) @@
    [targetKind |-> kind, targetName |-> target, min |-> None, max |-> 3, metrics |-> TRUE,
     scaleUp |-> {[value |-> 1, period |-> 15]}, scaleDown |-> {}]
HpaObjects ==
    {Web, Db, Workload("deployment", "api", 1),
     Hpa("h1", "deployment", "web"), [Hpa("h1", "deployment", "web") EXCEPT !.min = 4],
     Hpa("h2", "statefulSet", "db"), [Hpa("h2", "replicaSet", "db") EXCEPT !.scaleDown = {[value |-> 0, period |-> 0]}],
     [Hpa("h3", "none", "none") EXCEPT !.ns = "kube-system"]}

Vpa(name, kind, target, mode) ==
    Named("vpa", "shop", name) @@ [targetKind |-> kind, targetName |-> target, mode |-> mode]
VpaObjects ==
    {Named("crd", "none", "vpa"), Web, Db, Vpa("v1", "deployment", "web", "Off"),
     Vpa("v1", "deployment", "web", "Auto"), Vpa("v2", "statefulSet", "db", "Off"),
     Vpa("v2", "statefulSet", "db", "Sometimes")}

Zone(values) == {{[key |-> "zone", op |-> "In", values |-> values]}}
PlacementObjects ==
    {Node("n1", [zone |-> "a", size |-> "n4"], FALSE), Node("n2", [zone |-> "b", size |-> "n8"], FALSE),
     [Web EXCEPT !.required = TRUE, !.nodeAffinity = TRUE, !.terms = Zone({"a"})],
     [Web EXCEPT !.nodeName = "n1"],
     [Db EXCEPT !.required = TRUE, !.nodeAffinity = TRUE,
                !.terms = {{[key |-> "size", op |-> "Gt", values |-> {"n4"}]},
                           {[key |-> "zone", op |-> "NotIn", values |-> {"b"}]}}],
     [Db EXCEPT !.antiAffinity = FALSE, !.nodeSelector = [zone |-> "c"]], Agent}

SpotObjects ==
    {Node("n1", NoLabels, TRUE), Node("n1", NoLabels, FALSE), Node("n2", NoLabels, FALSE),
     Web, [Web EXCEPT !.spotHints = {"tolerations"}], [Db EXCEPT !.spotHints = {"required"}],
     [Db EXCEPT !.marks = {"resource-exempt"}]}

Heavy(w, cpu, memory) == [w EXCEPT !.containers = <<[Container EXCEPT !.cpu = cpu, !.memory = memory]>>]
OverObjects ==
    {Web, Heavy(Web, 4000, 1), [Heavy(Db, 100, 64) EXCEPT !.replicas = 0], Heavy(Db, 100, 64),
     [Heavy(Agent, 3000, 1) EXCEPT !.replicas = 50, !.inits = <<[Container EXCEPT !.memory = None]>>]}

RatioObjects ==
    {Web, Heavy(Web, 40, 1), [Heavy(Db, 150, 1) EXCEPT !.inits = <<[Container EXCEPT !.memory = 3]>>],
     [Heavy(Db, 2000, None) EXCEPT !.marks = {"resource-exempt"}], Heavy(Agent, 150, 1),
     [Agent EXCEPT !.containers = <<[Container EXCEPT !.cpuLimit = None, !.memoryLimit = 0]>>]}

CapacityNode(name, cpu, memory, unschedulable) ==
    Named("node", "none", name) @@ [cpu |-> cpu, memory |-> memory, unschedulable |-> unschedulable]
EfficiencyObjects ==
    {CapacityNode("n1", 4000, 8, FALSE), CapacityNode("n1", 4000, 8, TRUE),
     CapacityNode("n2", None, 16, FALSE), CapacityNode("n2", None, None, FALSE),
     Web, [Web EXCEPT !.replicas = None], [Heavy(Db, 500, 4) EXCEPT !.replicas = 1]}

SprawlObjects ==
    {Workload("deployment", "a", 1), Workload("deployment", "a", 3), Workload("deployment", "b", None),
     Workload("deployment", "c", 2), Workload("deployment", "c", 0)}

Crd(name, group, snapshots) ==
    Named("crd", "none", name) @@ [group |-> group, namesSnapshots |-> snapshots]
Tool(name, label, template, controller) ==
    Named("deployment", "tools", name) @@
    [nameLabel |-> label, templateNameLabel |-> template, namesController |-> controller]
BackupObjects ==
    {Crd("snapshots", "snapshot.storage.k8s.io", TRUE), Crd("classes", "snapshot.storage.k8s.io", FALSE),
     Tool("t", "none", "velero", FALSE), Tool("t", "none", "none", FALSE),
     Tool("snapshot-controller", "none", "none", TRUE)}

Binding(kind, ns, role, subjects) ==
    Named(kind, ns, "b") @@ [roleKind |-> "ClusterRole", role |-> role, subjects |-> subjects]
Subject(kind, ns) == [kind |-> kind, ns |-> ns]
BindingObjects ==
    {Binding("clusterRoleBinding", "none", "cluster-admin", {Subject("ServiceAccount", "kube-system")}),
     Binding("clusterRoleBinding", "none", "cluster-admin",
             {Subject("ServiceAccount", "kube9-system"), Subject("Group", "none")}),
     Binding("clusterRoleBinding", "none", "view", {Subject("User", "none")}),
     Binding("roleBinding", "kube-system", "cluster-admin", {Subject("User", "none")}),
     Binding("roleBinding", "shop", "cluster-admin", {Subject("ServiceAccount", "kube-system")})}

Rule(verbs, resources) == [verbs |-> verbs, resources |-> resources, apiGroups |-> {"apps"}]
RoleObjects ==
    {Named("clusterRole", "none", "c") @@ [rules |-> {Rule({"get"}, {"pods"}), Rule({"*"}, {"pods"})}],
     Named("clusterRole", "none", "c") @@ [rules |-> {Rule({"get"}, {"pods"})}],
     Named("role", "shop", "r") @@ [rules |-> {Rule({"get"}, {"*"})}],
     Named("role", "shop", "s") @@ [rules |-> {}]}

Entry(length, placeholder) ==
    [sensitive |-> TRUE, literal |-> TRUE, length |-> length, placeholder |-> placeholder]
WithEnv(kind, name, env) == Named(kind, "shop", name) @@ [containers |-> {[env |-> env]}]
SecretObjects ==
    {WithEnv("deployment", "d", {Entry(12, FALSE)}), WithEnv("deployment", "d", {Entry(8, TRUE)}),
     WithEnv("statefulSet", "s", {Entry(7, FALSE), [Entry(20, FALSE) EXCEPT !.sensitive = FALSE]}),
     WithEnv("statefulSet", "s", {[Entry(20, FALSE) EXCEPT !.literal = FALSE], Entry(8, FALSE)})}
ConfigMap(name, data, binary) ==
    Named("configMap", "shop", name) @@ [data |-> data, binaryData |-> binary]
ConfigMapObjects ==
    {ConfigMap("m", {Entry(4, FALSE)}, {}), ConfigMap("m", {Entry(3, FALSE)}, {Entry(8, TRUE)}),
     ConfigMap("n", {}, {Entry(5, FALSE)}), ConfigMap("n", {}, {}),
     ConfigMap("o", {[Entry(9, FALSE) EXCEPT !.sensitive = FALSE]}, {})}

\* Pods of three kinds of containers, and what the operator's deployment has.
MCCapability == [sys_admin |-> "SYS_ADMIN", CAP_SYS_ADMIN |-> "SYS_ADMIN", all |-> "ALL", CHOWN |-> "CHOWN"]
Plain == [privileged |-> FALSE, nonRoot |-> "notSet", add |-> <<>>, drop |-> <<>>]
GuardedPod(name, nonRoot, containers, ephemerals) ==
    Named("pod", "shop", name) @@
    [nonRoot |-> nonRoot, containers |-> containers, inits |-> {}, ephemerals |-> ephemerals]
PodObjects ==
    {GuardedPod("a", "true", {Plain}, {}), GuardedPod("a", "true", {Plain}, {[Plain EXCEPT !.privileged = TRUE]}),
     GuardedPod("b", "notSet", {[Plain EXCEPT !.nonRoot = "true", !.add = <<"sys_admin">>, !.drop = <<"all">>]}, {}),
     GuardedPod("b", "notSet", {[Plain EXCEPT !.add = <<"CHOWN", "CAP_SYS_ADMIN">>]}, {}),
     GuardedPod("c", "true", {[Plain EXCEPT !.nonRoot = "false", !.add = <<"CHOWN">>]}, {})}

ByNumber == [by |-> "number", value |-> "8080"]
HttpGet(path, port) == [http |-> TRUE, path |-> path, port |-> port]
Main == [name |-> "operator", liveness |-> HttpGet("/healthz", ByNumber),
         readiness |-> HttpGet("/readyz", ByNumber), ports |-> {[number |-> "8080", name |-> "http"]},
         logLevel |-> "info", namespaceFromField |-> TRUE]
Sidecar == [Main EXCEPT !.name = "sidecar", !.liveness.http = FALSE, !.logLevel = "unset"]
Operator ==
    Named("deployment", "kube9-system", "operator") @@
    [app |-> "kube9-operator", containers |-> <<Sidecar, Main>>, replicas |-> 2,
     strategy |-> "RollingUpdate", maxUnavailable |-> [unit |-> "unset", value |-> 0],
     deadline |-> 600, scrape |-> "true", serviceAccountName |-> "", serviceAccount |-> "kube9"]
OperatorObjects ==
    {Operator, [Operator EXCEPT !.app = "other", !.name = "proxy"],
     [Operator EXCEPT !.strategy = "Recreate", !.replicas = None, !.deadline = 60, !.scrape = "false",
                      !.containers = <<[Main EXCEPT !.logLevel = "debug"]>>],
     [Operator EXCEPT !.maxUnavailable = [unit |-> "percent", value |-> 100], !.serviceAccountName = "default",
                      !.containers = <<[Main EXCEPT !.readiness.port = [by |-> "name", value |-> "web"],
                                                    !.logLevel = "loud"]>>],
     [Operator EXCEPT !.name = "second", !.strategy = "Recreate", !.containers = <<>>,
                      !.maxUnavailable = [unit |-> "pods", value |-> 5]]}

Quota(name, ns, cpu, pods) ==
    Named("quota", ns, name) @@
    [cpu |-> cpu, memory |-> None, cpuLimit |-> None, memoryLimit |-> None, pods |-> pods]
GovernanceObjects ==
    {Web, [Db EXCEPT !.ns = "prod", !.containers = <<[Container EXCEPT !.cpu = None]>>],
     Quota("q", "shop", 1000, None), Quota("q", "shop", 20000, 4), Quota("p", "prod", None, None),
     Named("limitRange", "shop", "l") @@ [items |-> {{"cpu", "memory"}}],
     Namespace("shop", TRUE)}

MCCatalog ==
    [metadata |-> MetadataObjects, inventory |-> InventoryObjects, patterns |-> PatternObjects,
     replicaCounts |-> ReplicaObjects, spread |-> SpreadObjects, budgets |-> BudgetObjects,
     requests |-> ContainerObjects, limits |-> ContainerObjects, probes |-> ProbeObjects,
     hpa |-> HpaObjects, vpa |-> VpaObjects, placement |-> PlacementObjects,
     spot |-> SpotObjects, overProvisioning |-> OverObjects, governance |-> GovernanceObjects,
     ratios |-> RatioObjects, efficiency |-> EfficiencyObjects, consolidation |-> SprawlObjects,
     backup |-> BackupObjects, clusterAdmin |-> BindingObjects, wildcards |-> RoleObjects,
     secrets |-> SecretObjects, configMaps |-> ConfigMapObjects,
     externalSecrets |-> {Crd("externalsecrets", "external-secrets.io", FALSE)}]
    @@ [r \in PodChecks |-> PodObjects] @@ [r \in OperatorChecks |-> OperatorObjects]

MCMaxChanges ==
    [r \in Readers |-> IF r \in {"metadata", "budgets", "vpa", "spot", "placement"} THEN 2 ELSE 1]
====
