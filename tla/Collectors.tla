------------------------------ MODULE Collectors ------------------------------
(***************************************************************************)
(* What the three collectors make of the objects they listed: the cluster  *)
(* metadata, the resource inventory and the resource configuration         *)
(* patterns; the shapes that types.ts declares for them; and the           *)
(* validation that a payload passes before it is stored.                   *)
(*                                                                         *)
(* `seen' has one field for each kind: the set of objects that its list    *)
(* request returned.  An array of the payload is a sequence in some order  *)
(* of the list; names, quantities and identifiers are values that can only *)
(* be compared, and labels and annotations of a pattern are counted.       *)
(***************************************************************************)
EXTENDS Sequences, SequencesExt, Sums

CONSTANTS MaxName,   \* the longest region or zone: 50
          MaxNodes,  \* the most nodes that a payload may have: 10000
          Hash       \* Hash[n]: the identifier made of the namespace name n

ASSUME NamesAssumption == MaxName \in Nat /\ MaxNodes \in Nat

NotSet == -1   \* a number that is not set

Policies == {"Always", "IfNotPresent", "Never"}
PolicyKeys == Policies \cup {"notSet"}
ProbeTypes == {"http", "tcp", "exec", "grpc"}
VolumeTypes == {"configMap", "secret", "emptyDir", "persistentVolumeClaim",
                "hostPath", "downwardAPI", "projected", "other"}
ServiceTypes == {"ClusterIP", "NodePort", "LoadBalancer", "ExternalName"}
TriKeys == {"true", "false", "notSet"}
Providers == {"aws", "gcp", "azure", "on-premise", "other", "unknown"}

-----------------------------------------------------------------------------
(* The fields of the Kubernetes objects that the collectors read.          *)

Setting == Nat \cup {NotSet}

ListedProbes == [handler : STRING, delay : Setting, timeout : Setting, period : Setting]

ListedContainers ==
    [cpu : Setting \X Setting, memory : Setting \X Setting, policy : STRING,
     nonRoot : TriKeys, readOnly : TriKeys, escalation : TriKeys,
     added : Seq(STRING), dropped : Seq(STRING),
     probes : [liveness : ListedProbes, readiness : ListedProbes, startup : ListedProbes]]

ListedPod(p) ==
    /\ p.ns \in DOMAIN Hash /\ p.nonRoot \in TriKeys /\ p.fsGroup \in {"set", "notSet"}
    /\ p.volumes \in Seq(VolumeTypes) /\ p.containers \in Seq(ListedContainers)

Listed(o) ==
    /\ o.kind = "version" => o.text \in {"plain", "suffixed", "unknown"}
    /\ o.kind = "node" => o.regions \in Seq(Nat) /\ o.zones \in Seq(Nat)
    /\ o.kind = "namespace" => o.name \in DOMAIN Hash
    /\ o.kind = "pod" => ListedPod(o)
    /\ o.kind \in {"pod", "deployment", "service"} => o.labels \in Nat /\ o.annotations \in Nat
    /\ o.kind \in {"deployment", "statefulSet"} => o.replicas \in Setting
    /\ o.kind = "service" => o.type \in ServiceTypes \cup {"unset"} /\ o.ports \in Nat

\* How often a value is counted in S, the values of S as an array.
Tally(S, F(_), keys) == [v \in keys |-> Cardinality({x \in S : F(x) = v})]
Each(S, F(_)) == LET s == SetToSeq(S) IN [i \in 1..Len(s) |-> F(s[i])]

-----------------------------------------------------------------------------
(* The interfaces of types.ts.                                             *)

ClusterMetadata ==
    [kubernetesVersion : {"plain", "suffixed", "unknown"}, nodeCount : Nat,
     provider : Providers, region : Nat, zone : Nat]

Counts(f, keys) == DOMAIN f \subseteq keys /\ \A k \in DOMAIN f : f[k] \in Nat

\* Every key of byType is optional.
ResourceInventory(d) ==
    /\ d.namespaces \in [count : Nat, list : Seq(Range(Hash))]
    /\ d.resources.pods.total \in Nat /\ Counts(d.resources.pods.byNamespace, Range(Hash))
    /\ \A kind \in {"deployments", "statefulSets", "replicaSets"} :
         d.resources[kind] \in [total : Nat]
    /\ d.resources.services.total \in Nat
    /\ Counts(d.resources.services.byType, ServiceTypes)

ResourceLimitsRequestsData ==
    [cpuRequests : Seq(Nat \cup {NotSet}), cpuLimits : Seq(Nat \cup {NotSet}),
     memoryRequests : Seq(Nat \cup {NotSet}), memoryLimits : Seq(Nat \cup {NotSet}),
     totalCount : Nat]

ReplicaCountsData == [deployments : Seq(Nat), statefulSets : Seq(Nat), daemonSetCount : Nat]

ImagePullPoliciesData == [policies : [PolicyKeys -> Nat], totalContainers : Nat]

SecurityContextsData ==
    [podLevel : [runAsNonRoot : [TriKeys -> Nat], fsGroup : [{"set", "notSet"} -> Nat]],
     containerLevel : [runAsNonRoot : [TriKeys -> Nat],
                       readOnlyRootFilesystem : [TriKeys -> Nat],
                       allowPrivilegeEscalation : [TriKeys -> Nat],
                       added : Seq(STRING), dropped : Seq(STRING)],
     totalPods : Nat, totalContainers : Nat]

Counted == {"pods", "deployments", "services"}

LabelsAnnotationsData ==
    [labelCounts : [Counted -> Seq(Nat)], annotationCounts : [Counted -> Seq(Nat)],
     commonLabelKeys : Seq(STRING)]

VolumesData ==
    [volumeTypes : [VolumeTypes -> Nat], volumesPerPod : Seq(Nat),
     volumeMountsPerContainer : Seq(Nat), totalPods : Nat]

ServicesData ==
    [serviceTypes : [ServiceTypes -> Nat], portsPerService : Seq(Nat), totalServices : Nat]

ProbeConfigData ==
    [configured : Nat, notConfigured : Nat, probeTypes : [ProbeTypes -> Nat],
     initialDelaySeconds : Seq(Nat), timeoutSeconds : Seq(Nat), periodSeconds : Seq(Nat)]

ProbesData ==
    [livenessProbes : ProbeConfigData, readinessProbes : ProbeConfigData,
     startupProbes : ProbeConfigData, totalContainers : Nat]

ResourceConfigurationPatternsData ==
    [resourceLimitsRequests : ResourceLimitsRequestsData, replicaCounts : ReplicaCountsData,
     imagePullPolicies : ImagePullPoliciesData, securityContexts : SecurityContextsData,
     labelsAnnotations : LabelsAnnotationsData, volumes : VolumesData,
     services : ServicesData, probes : ProbesData]

-----------------------------------------------------------------------------
(* Cluster metadata.  The labels of one node, the first of the list, tell  *)
(* the provider, the region and the zone: node.labels are the labels that  *)
(* have a value (an empty one does not count), node.regions and node.zones *)
(* the lengths of the labels that the code tries in turn, 0 for none.      *)

\* The identifier of the cluster is made of its CA certificate or its URL.
ClusterIdKnown(config) == config \in {"ca", "server"}

\* The first provider that a label speaks for.
DetectProvider(first) ==
    LET Has(labels) == first.labels \cap labels # {}
    IN  IF Has({"eks-nodegroup", "t3-instance"}) THEN "aws"
        ELSE IF Has({"gke-nodepool", "gke-os"}) THEN "gcp"
        ELSE IF Has({"aks-agentpool", "role"}) THEN "azure"
        ELSE IF Has({"role-master", "role-control-plane"}) THEN "on-premise"
        ELSE "unknown"

\* The length of the first of the labels that is there, cut to MaxName.
RegionAndZone(first) ==
    LET Cut(n) == IF n > MaxName THEN MaxName ELSE n
        Left(lengths) == LET there == {i \in DOMAIN lengths : lengths[i] > 0}
                         IN  IF there = {} THEN 0 ELSE Cut(lengths[Min(there)])
    IN  [region |-> Left(first.regions), zone |-> Left(first.zones)]

\* collect: it throws for an empty list, and then for an unknown cluster.
MetadataCollected(config, nodes) == nodes # {} /\ ClusterIdKnown(config)

MetadataOf(version, nodes, first) ==
    [kubernetesVersion |-> version.text, nodeCount |-> Cardinality(nodes),
     provider |-> DetectProvider(first),
     region |-> RegionAndZone(first).region, zone |-> RegionAndZone(first).zone]

\* The pattern of the version ends after three numbers.
ValidMetadata(d) ==
    /\ d.kubernetesVersion = "plain"
    /\ d.nodeCount \in 1..MaxNodes
    /\ d.provider \in Providers
    /\ d.region <= MaxName
    /\ d.zone <= MaxName

-----------------------------------------------------------------------------
(* Resource inventory.                                                     *)

HashNamespace(name) == Hash[name]

Namespaces(items) ==
    [count |-> Cardinality(items), list |-> Each(items, LAMBDA n : HashNamespace(n.name))]

\* Mutant: the counts are filed under the names.
PodCountsByName(items) ==
    [total |-> Cardinality(items),
     byNamespace |-> Tally(items, LAMBDA p : p.ns, {p.ns : p \in items})]

PodCounts(items) ==
    [total |-> Cardinality(items),
     byNamespace |-> Tally(items, LAMBDA p : HashNamespace(p.ns),
                           {HashNamespace(p.ns) : p \in items})]

\* An unset type is ClusterIP.
TypeOf(service) == IF service.type = "unset" THEN "ClusterIP" ELSE service.type

ServiceCounts(items) ==
    [total |-> Cardinality(items),
     byType |-> Tally(items, TypeOf, {TypeOf(s) : s \in items} \cap ServiceTypes)]

\* Mutant: the stateful sets are counted from the list of deployments.
InventoryMixed(seen) ==
    [namespaces |-> Namespaces(seen.namespace),
     resources |-> [pods |-> PodCounts(seen.pod),
                    deployments |-> [total |-> Cardinality(seen.deployment)],
                    statefulSets |-> [total |-> Cardinality(seen.deployment)],
                    replicaSets |-> [total |-> Cardinality(seen.replicaSet)],
                    services |-> ServiceCounts(seen.service)]]

InventoryOf(seen) ==
    [namespaces |-> Namespaces(seen.namespace),
     resources |-> [pods |-> PodCounts(seen.pod),
                    deployments |-> [total |-> Cardinality(seen.deployment)],
                    statefulSets |-> [total |-> Cardinality(seen.statefulSet)],
                    replicaSets |-> [total |-> Cardinality(seen.replicaSet)],
                    services |-> ServiceCounts(seen.service)]]

\* assertInteger and a lower bound.
IsCount(n) == n \in Int /\ n >= 0

ValidInventory(d) ==
    /\ IsCount(d.namespaces.count)
    /\ Len(d.namespaces.list) = d.namespaces.count
    /\ Range(d.namespaces.list) \subseteq Range(Hash)
    /\ IsCount(d.resources.pods.total)
    /\ \A id \in DOMAIN d.resources.pods.byNamespace :
         id \in Range(Hash) /\ IsCount(d.resources.pods.byNamespace[id])
    /\ \A kind \in {"deployments", "statefulSets", "replicaSets", "services"} :
         IsCount(d.resources[kind].total)
    /\ \A t \in DOMAIN d.resources.services.byType :
         t \in ServiceTypes /\ IsCount(d.resources.services.byType[t])

-----------------------------------------------------------------------------
(* Resource configuration patterns: counters that start at zero and arrays *)
(* that start empty, and what each list adds to them.                      *)

\* The containers of a set of pods (not the init containers), and the volumes.
Containers(pods) == UNION {{[pod |-> p, at |-> i] : i \in DOMAIN p.containers} : p \in pods}
It(c) == c.pod.containers[c.at]
PodVolumes(pods) == UNION {{[pod |-> p, at |-> i] : i \in DOMAIN p.volumes} : p \in pods}

ContainerResources(cs) ==
    [cpuRequests    |-> Each(cs, LAMBDA c : It(c).cpu[1]),
     cpuLimits      |-> Each(cs, LAMBDA c : It(c).cpu[2]),
     memoryRequests |-> Each(cs, LAMBDA c : It(c).memory[1]),
     memoryLimits   |-> Each(cs, LAMBDA c : It(c).memory[2]),
     totalCount     |-> Cardinality(cs)]

ImagePullPolicy(cs) ==
    [policies |-> Tally(cs, LAMBDA c : IF It(c).policy \in Policies THEN It(c).policy
                                       ELSE "notSet", PolicyKeys),
     totalContainers |-> Cardinality(cs)]

SecurityContexts(pods, cs) ==
    [podLevel |-> [runAsNonRoot |-> Tally(pods, LAMBDA p : p.nonRoot, TriKeys),
                   fsGroup |-> Tally(pods, LAMBDA p : p.fsGroup, {"set", "notSet"})],
     containerLevel |->
       [runAsNonRoot |-> Tally(cs, LAMBDA c : It(c).nonRoot, TriKeys),
        readOnlyRootFilesystem |-> Tally(cs, LAMBDA c : It(c).readOnly, TriKeys),
        allowPrivilegeEscalation |-> Tally(cs, LAMBDA c : It(c).escalation, TriKeys),
        added |-> FlattenSeq(Each(cs, LAMBDA c : It(c).added)),
        dropped |-> FlattenSeq(Each(cs, LAMBDA c : It(c).dropped))],
     totalPods |-> Cardinality(pods),
     totalContainers |-> Cardinality(cs)]

\* processProbe, over all containers: a probe is missing, or has a handler,
\* which may be of no known type, and timings, which may be NotSet.
ProbeConfig(cs, name) ==
    LET with == {c \in cs : It(c).probes[name].handler # "missing"}
        Times(field) == Each({c \in with : It(c).probes[name][field] # NotSet},
                             LAMBDA c : It(c).probes[name][field])
    IN  [configured |-> Cardinality(with),
         notConfigured |-> Cardinality(cs \ with),
         probeTypes |-> Tally(with, LAMBDA c : It(c).probes[name].handler, ProbeTypes),
         initialDelaySeconds |-> Times("delay"),
         timeoutSeconds |-> Times("timeout"),
         periodSeconds |-> Times("period")]

Probes(cs) == [livenessProbes |-> ProbeConfig(cs, "liveness"),
               readinessProbes |-> ProbeConfig(cs, "readiness"),
               startupProbes |-> ProbeConfig(cs, "startup"),
               totalContainers |-> Cardinality(cs)]

\* Mutant: the early return for a pod without volumes does not count the pod.
VolumesOfSome(pods) ==
    [volumeTypes |-> Tally(PodVolumes(pods), LAMBDA v : v.pod.volumes[v.at], VolumeTypes),
     volumesPerPod |-> Each(pods, LAMBDA p : Len(p.volumes)),
     volumeMountsPerContainer |-> <<>>,
     totalPods |-> Cardinality({p \in pods : p.volumes # <<>>})]

Volumes(pods) ==
    [volumeTypes |-> Tally(PodVolumes(pods), LAMBDA v : v.pod.volumes[v.at], VolumeTypes),
     volumesPerPod |-> Each(pods, LAMBDA p : Len(p.volumes)),
     volumeMountsPerContainer |-> <<>>,
     totalPods |-> Cardinality(pods)]

\* A service of another type is counted, but under no type.
Services(items) ==
    [serviceTypes |-> Tally(items, TypeOf, ServiceTypes),
     portsPerService |-> Each(items, LAMBDA s : s.ports),
     totalServices |-> Cardinality(items)]

\* The pods, the deployments and the services by their labels.
LabelsAnnotations(seen) ==
    LET items == [pods |-> seen.pod, deployments |-> seen.deployment, services |-> seen.service]
    IN  [labelCounts |-> [k \in Counted |-> Each(items[k], LAMBDA o : o.labels)],
         annotationCounts |-> [k \in Counted |-> Each(items[k], LAMBDA o : o.annotations)],
         commonLabelKeys |-> <<>>]

\* Mutant: a workload without a number of replicas is listed too.
ReplicasOfAll(items) == Each(items, LAMBDA o : o.replicas)

\* The replicas that are set.
ReplicasOf(items) ==
    Each({o \in items : o.replicas # NotSet}, LAMBDA o : o.replicas)

\* collect: pods, deployments, stateful sets, daemon sets, services.
PatternsOf(seen) ==
    LET cs == Containers(seen.pod)
    IN  [resourceLimitsRequests |-> ContainerResources(cs),
         replicaCounts |-> [deployments |-> ReplicasOf(seen.deployment),
                            statefulSets |-> ReplicasOf(seen.statefulSet),
                            daemonSetCount |-> Cardinality(seen.daemonSet)],
         imagePullPolicies |-> ImagePullPolicy(cs),
         securityContexts |-> SecurityContexts(seen.pod, cs),
         labelsAnnotations |-> LabelsAnnotations(seen),
         volumes |-> Volumes(seen.pod),
         services |-> Services(seen.service),
         probes |-> Probes(cs)]

\* The counters are integers and the arrays are arrays: no more is asked of
\* a payload, neither a lower bound nor what an array holds.
IsArray(a) == DOMAIN a = 1..Len(a)
Integral(f, keys) == keys \subseteq DOMAIN f /\ \A k \in keys : f[k] \in Int
Arrays(f, keys) == keys \subseteq DOMAIN f /\ \A k \in keys : IsArray(f[k])

ValidProbe(p) ==
    /\ Integral(p, {"configured", "notConfigured"})
    /\ Integral(p.probeTypes, ProbeTypes)
    /\ Arrays(p, {"initialDelaySeconds", "timeoutSeconds", "periodSeconds"})

ValidPatterns(d) ==
    /\ Arrays(d.resourceLimitsRequests, {"cpuRequests", "cpuLimits", "memoryRequests", "memoryLimits"})
    /\ Integral(d.resourceLimitsRequests, {"totalCount"})
    /\ Arrays(d.replicaCounts, {"deployments", "statefulSets"})
    /\ Integral(d.replicaCounts, {"daemonSetCount"})
    /\ Integral(d.imagePullPolicies.policies, PolicyKeys)
    /\ Integral(d.imagePullPolicies, {"totalContainers"})
    /\ Integral(d.securityContexts.podLevel.runAsNonRoot, TriKeys)
    /\ Integral(d.securityContexts.podLevel.fsGroup, {"set", "notSet"})
    /\ \A k \in {"runAsNonRoot", "readOnlyRootFilesystem", "allowPrivilegeEscalation"} :
         Integral(d.securityContexts.containerLevel[k], TriKeys)
    /\ Arrays(d.securityContexts.containerLevel, {"added", "dropped"})
    /\ Integral(d.securityContexts, {"totalPods", "totalContainers"})
    /\ Arrays(d.labelsAnnotations.labelCounts, Counted)
    /\ Arrays(d.labelsAnnotations.annotationCounts, Counted)
    /\ Arrays(d.labelsAnnotations, {"commonLabelKeys"})
    /\ Integral(d.volumes.volumeTypes, VolumeTypes)
    /\ Arrays(d.volumes, {"volumesPerPod", "volumeMountsPerContainer"})
    /\ Integral(d.volumes, {"totalPods"})
    /\ Integral(d.services.serviceTypes, ServiceTypes)
    /\ Arrays(d.services, {"portsPerService"}) /\ Integral(d.services, {"totalServices"})
    /\ \A k \in {"livenessProbes", "readinessProbes", "startupProbes"} : ValidProbe(d.probes[k])
    /\ Integral(d.probes, {"totalContainers"})
=============================================================================
