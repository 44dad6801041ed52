--------------------------- MODULE AssessmentChecks ---------------------------
(***************************************************************************)
(* Assessment checks that list objects of several kinds and judge them     *)
(* together.  `seen' has one field for each kind: the set of objects that  *)
(* its list request returned.  A check gives its findings, each a level    *)
(* and the object it is about, and its status is the worst level.          *)
(*                                                                         *)
(* A number that is not set, or that cannot be parsed, is None.  CPU is in *)
(* millicores and memory in gibibytes.  A label map is a record.           *)
(***************************************************************************)
EXTENDS Sequences, SequencesExt, Sums

CONSTANTS ProdNames,  \* namespaces with a name that looks like production
          NumberOf    \* NumberOf[v]: the number that a label value spells

None == -1
Excluded == {"kube-system", "kube-public", "kube-node-lease", "tigera-operator", "calico-system"}
InScope(o) == o.ns \notin Excluded
MinHaReplicas == 2

Finding(level, o) == [level |-> level, about |-> o]
Findings(level, S) == {Finding(level, o) : o \in S}
Levels(findings) == {f.level : f \in findings}

Worst(findings) == CASE "failing" \in Levels(findings) -> "failing"
                     [] Levels(findings) = {"warning"} -> "warning"
                     [] OTHER                          -> "passing"

-----------------------------------------------------------------------------
(* Which workloads a check looks at.                                       *)

HaRelevant(w) ==
    /\ "ha-exempt" \notin w.marks
    /\ InScope(w)
    /\ "ha-required" \in w.marks \/ w.kind \in {"deployment", "statefulSet"}

ResourceRelevant(w) == "resource-exempt" \notin w.marks /\ InScope(w)
ProbeRelevant(w) == "probe-exempt" \notin w.marks /\ InScope(w)

Scalable(seen) == seen.deployment \cup seen.statefulSet
Workloads(seen) == Scalable(seen) \cup seen.daemonSet

\* A value of 0 is a number of replicas, only a missing one counts as n.
ReplicasOr(w, n) == IF w.replicas = None THEN n ELSE w.replicas

-----------------------------------------------------------------------------
(* Reliability: replica counts, spread, disruption budgets.                *)

ReplicaCounts(seen) ==
    Findings("failing", {w \in Scalable(seen) : HaRelevant(w) /\ ReplicasOr(w, 1) < MinHaReplicas})

Replicated(seen) == {w \in Scalable(seen) : HaRelevant(w) /\ ReplicasOr(w, 1) >= 2}

HasSpread(w) == w.antiAffinity \/ w.topologySpread

SpreadAntiAffinity(seen) == Findings("warning", {w \in Replicated(seen) : ~HasSpread(w)})

\* One expression of a selector.  NotIn asks for the key.
Satisfies(labels, e) ==
    LET has == e.key \in DOMAIN labels
    IN  CASE e.op = "In"           -> has /\ labels[e.key] \in e.values
          [] e.op = "NotIn"        -> has /\ labels[e.key] \notin e.values
          [] e.op = "Exists"       -> has
          [] e.op = "DoesNotExist" -> ~has
          [] OTHER                 -> FALSE

LabelsMatch(wanted, labels) ==
    \A k \in DOMAIN wanted : k \in DOMAIN labels /\ labels[k] = wanted[k]

\* Mutant: a budget of any namespace covers.
CoversAnywhere(pdb, w) ==
    /\ DOMAIN pdb.labels # {} \/ pdb.exprs # {}
    /\ LabelsMatch(pdb.labels, w.podLabels)
    /\ \A e \in pdb.exprs : Satisfies(w.podLabels, e)

\* pdbCoversWorkload: a selector without clauses covers nothing.
Covers(pdb, w) ==
    /\ pdb.ns = w.ns
    /\ DOMAIN pdb.labels # {} \/ pdb.exprs # {}
    /\ LabelsMatch(pdb.labels, w.podLabels)
    /\ \A e \in pdb.exprs : Satisfies(w.podLabels, e)

PodDisruptionBudgets(seen) ==
    Findings("warning", {w \in Replicated(seen) : \A p \in seen.pdb : ~Covers(p, w)})

-----------------------------------------------------------------------------
(* Reliability: probes, requests and limits of the containers.             *)

AllContainers(w) == Range(w.inits) \cup Range(w.containers)

\* What the API server accepts: quantities are not negative.
Amount == Nat \cup {None}
IsTuple(s) == s \in Seq(Range(s))
ComputedWorkload(w) ==
    /\ w.name # "none" /\ w.replicas \in Amount
    /\ IsTuple(w.inits) /\ IsTuple(w.containers)
    /\ \A c \in AllContainers(w) : {c.cpu, c.memory, c.cpuLimit, c.memoryLimit} \subseteq Amount

LacksRequests(w) == \E c \in AllContainers(w) : c.cpu = None \/ c.memory = None
LacksLimits(w) == \E c \in AllContainers(w) : c.cpuLimit = None \/ c.memoryLimit = None

ResourceRequests(seen) ==
    Findings("failing", {w \in Workloads(seen) : ResourceRelevant(w) /\ LacksRequests(w)})
ResourceLimits(seen) ==
    Findings("warning", {w \in Workloads(seen) : ResourceRelevant(w) /\ LacksLimits(w)})

HasProbe(p) == p.handler \in {"http", "tcp", "exec", "grpc"}

\* What the handler needs (port, path, command) is missing.
Misconfigured(p) == HasProbe(p) /\ ~p.complete

\* probeSignature leaves the time-outs and thresholds out.
IdenticalAndDangerous(liveness, readiness) ==
    /\ HasProbe(liveness) /\ HasProbe(readiness)
    /\ [liveness EXCEPT !.timeout = 0] = [readiness EXCEPT !.timeout = 0]
    /\ liveness.delay <= 1

ProbeViolation(c) ==
    \/ ~HasProbe(c.liveness) \/ ~HasProbe(c.readiness)
    \/ Misconfigured(c.liveness) \/ Misconfigured(c.readiness)
    \/ IdenticalAndDangerous(c.liveness, c.readiness)

LivenessReadinessProbes(seen) ==
    Findings("failing", {w \in Workloads(seen) :
                           ProbeRelevant(w) /\ \E c \in Range(w.containers) : ProbeViolation(c)})

-----------------------------------------------------------------------------
(* Performance: autoscalers.                                               *)

Key(w) == <<w.ns, w.kind, w.name>>
Target(a) == <<a.ns, a.targetKind, a.targetName>>
ScalableKinds == {"deployment", "statefulSet"}

\* Mutant: only deployments are looked up.
KeysOfDeployments(seen) == {Key(w) : w \in {v \in seen.deployment : InScope(v)}}

ScalableKeys(seen) == {Key(w) : w \in {v \in Scalable(seen) : InScope(v)}}

HasTarget(a) == a.targetKind # "none" /\ a.targetName # "none"
PolicyValid(p) == p.value > 0 /\ p.period > 0
BehaviorValid(h) == \A p \in h.scaleUp \cup h.scaleDown : PolicyValid(p)

\* The rest of an HPA is judged only when its target is of a kind that scales.
HpaInvalid(h, keys) ==
    LET min == IF h.min = None THEN 1 ELSE h.min
    IN  \/ ~HasTarget(h) \/ h.targetKind \notin ScalableKinds
        \/ Target(h) \notin keys
        \/ h.max < 1 \/ min < 1
        \/ h.max # None /\ min > h.max
        \/ ~h.metrics
        \/ ~BehaviorValid(h)

HpaSanity(seen) ==
    LET keys == ScalableKeys(seen)
        hpas == {h \in seen.hpa : InScope(h)}
        covered == {Target(h) : h \in hpas} \cap keys
    IN  IF seen.hpa = {} THEN Findings("warning", keys)
        ELSE LET invalid == Findings("failing", {h \in hpas : HpaInvalid(h, keys)})
             IN  IF invalid = {} /\ 2 * Cardinality(covered) < Cardinality(keys)
                 THEN Findings("warning", keys \ covered) ELSE invalid

UpdateModes == {"Off", "Initial", "Recreate", "Auto"}

VpaInvalid(v, keys) ==
    \/ ~HasTarget(v) \/ v.targetKind \notin ScalableKinds
    \/ Target(v) \notin keys
    \/ v.mode \notin UpdateModes

\* Without a VPA the check warns about the cluster; it also warns when all
\* of them only recommend.
VpaSanity(seen) ==
    LET vpas == {v \in seen.vpa : InScope(v)}
        invalid == {v \in vpas : VpaInvalid(v, ScalableKeys(seen))}
    IN  CASE seen.vpa = {} -> {Finding("warning", "no VPA")}
          [] seen.vpa # {} /\ invalid # {} -> Findings("failing", invalid)
          [] vpas # {} /\ invalid = {} /\ \A v \in vpas : v.mode = "Off" -> Findings("warning", vpas)
          [] OTHER -> {}

-----------------------------------------------------------------------------
(* Performance: placement on nodes.                                        *)

MatchesNode(e, node) ==
    LET has == e.key = "metadata.name" \/ e.key \in DOMAIN node.labels
        value == IF e.key = "metadata.name" THEN node.name ELSE node.labels[e.key]
        Number(v) == v \in DOMAIN NumberOf
    IN  CASE e.op = "In"           -> has /\ value \in e.values
          [] e.op = "NotIn"        -> ~has \/ value \notin e.values
          [] e.op = "Exists"       -> has
          [] e.op = "DoesNotExist" -> ~has
          [] e.op = "Gt" -> has /\ Number(value) /\ \E v \in e.values : Number(v) /\ NumberOf[value] > NumberOf[v]
          [] e.op = "Lt" -> has /\ Number(value) /\ \E v \in e.values : Number(v) /\ NumberOf[value] < NumberOf[v]
          [] OTHER -> FALSE

\* A term is a set of expressions; an empty one matches no node.
MatchesPlacement(w, node) ==
    /\ w.nodeName \in {"none", node.name}
    /\ LabelsMatch(w.nodeSelector, node.labels)
    /\ w.required => \E term \in w.terms : term # {} /\ \A e \in term : MatchesNode(e, node)

PlacedReplicas(w) == IF w.kind = "daemonSet" /\ w.replicas = 0 THEN 1 ELSE ReplicasOr(w, 1)
Constrained(w) == DOMAIN w.nodeSelector # {} \/ w.nodeAffinity

Placement(w, nodes) ==
    LET matched == {n \in nodes : MatchesPlacement(w, n)}
        many    == PlacedReplicas(w) >= 2
        pinned  == w.nodeName # "none"
        levels  == {l \in {"failing", "warning"} :
                      \/ l = "warning" /\ many /\ ~HasSpread(w)
                      \/ l = "failing" /\ pinned
                      \/ l = "failing" /\ ~pinned /\ Constrained(w) /\ matched = {}
                      \/ l = "warning" /\ ~pinned /\ Constrained(w) /\ many
                           /\ Cardinality(matched) = 1}
    IN  {Finding(l, w) : l \in levels}

NodePlacement(seen) ==
    IF seen.node = {} THEN {Finding("warning", "no nodes")}
    ELSE UNION {Placement(w, seen.node) : w \in {v \in Workloads(seen) : InScope(v)}}

-----------------------------------------------------------------------------
(* Cost: spot capacity and over-provisioning.                              *)

\* A label of a provider's, or a taint whose text says so.
LooksSpot(node) == node.spotLabel \/ node.spotTaint
TargetsSpot(w) ==
    w.spotHints \cap {"nodeSelector", "required", "preferred", "tolerations"} # {}

SpotUsage(seen) ==
    LET scope == {w \in Scalable(seen) : ResourceRelevant(w)}
        unconfigured == {w \in scope : ~TargetsSpot(w)}
        spot == \E n \in seen.node : LooksSpot(n)
    IN  CASE ~spot -> {}
          [] spot /\ unconfigured = scope -> Findings("failing", scope)
          [] spot /\ unconfigured # scope -> Findings("warning", unconfigured)

\* What the containers that state the resource f ask for together.
Sum(cs, f) == SumOf([i \in {j \in DOMAIN cs : cs[j][f] # None} |-> cs[i][f]])
Larger(a, b) == IF a > b THEN a ELSE b

\* Init containers run before the others: the larger sum counts.
PodCpu(w) == Larger(Sum(w.inits, "cpu"), Sum(w.containers, "cpu"))
PodMemory(w) == Larger(Sum(w.inits, "memory"), Sum(w.containers, "memory"))

\* The levels of a quantity per pod and in total.
Classify(perPod, total, warn, fail, totalWarn, totalFail) ==
    LET Level(x, w, f) == CASE x >= f -> {"failing"} [] x >= w /\ x < f -> {"warning"} [] OTHER -> {}
    IN  Level(perPod, warn, fail) \cup Level(total, totalWarn, totalFail)

OverProvisioned(w) ==
    LET n == ReplicasOr(w, 0)
    IN  IF n = 0 THEN {}
        ELSE Classify(PodCpu(w), n * PodCpu(w), 4000, 16000, 32000, 128000)
               \cup Classify(PodMemory(w), n * PodMemory(w), 16, 64, 256, 1024)

OverProvisioning(seen) ==
    UNION {{Finding(level, w) : level \in OverProvisioned(w)} :
           w \in {v \in Workloads(seen) : ResourceRelevant(v)}}

-----------------------------------------------------------------------------
(* Performance: quotas and limit ranges of namespaces.                     *)

In(S, ns) == {o \in S : o.ns = ns}

\* Requests of all containers, the init containers too.
Requested(w, f) == ReplicasOr(w, 1) * (Sum(w.containers, f) + Sum(w.inits, f))
Missing(w) == ReplicasOr(w, 1) > 0 /\ LacksRequests(w)

NamespaceUsage(ws) ==
    [cpu |-> SumOf([w \in ws |-> Requested(w, "cpu")]),
     memory |-> SumOf([w \in ws |-> Requested(w, "memory")]),
     pods |-> SumOf([w \in ws |-> ReplicasOr(w, 1)]),
     missing |-> \E w \in ws : Missing(w)]

HasDefaults(range) == \E item \in range.items : {"cpu", "memory"} \subseteq item

ProductionLike(ns, namespaces, usage) ==
    \/ ns \in ProdNames
    \/ \E n \in namespaces : n.name = ns /\ n.prodLabel
    \/ usage.pods >= 3

\* What one hard limit says of the use: None is a limit that is not there.
Bound(use, hard, times) ==
    CASE hard = None -> {}
      [] hard # None /\ use > hard -> {"failing"}
      [] hard # None /\ use <= hard /\ use > 0 /\ (10 * use >= 9 * hard \/ hard >= times * use)
           -> {"warning"}
      [] OTHER -> {}

\* limits.cpu and limits.memory are only too high, never too low.
LooseLimit(use, hard) == hard # None /\ use > 0 /\ hard >= 25 * use

QuotaLevels(q, usage) ==
    Bound(usage.cpu, q.cpu, 20) \cup Bound(usage.memory, q.memory, 20)
      \cup Bound(usage.pods, q.pods, 10)
      \cup (IF \/ {q.cpu, q.memory, q.cpuLimit, q.memoryLimit, q.pods} = {None}
               \/ LooseLimit(usage.cpu, q.cpuLimit) \/ LooseLimit(usage.memory, q.memoryLimit)
            THEN {"warning"} ELSE {})

NamespaceFindings(ns, seen) ==
    LET usage    == NamespaceUsage(In(Workloads(seen), ns))
        quotas   == In(seen.quota, ns)
        required == ProductionLike(ns, seen.namespace, usage)
        defaults == \E r \in In(seen.limitRange, ns) : HasDefaults(r)
        loose    == required /\ (quotas = {} \/ (usage.missing /\ ~defaults))
    IN  (UNION {{Finding(level, q) : level \in QuotaLevels(q, usage)} : q \in quotas})
          \cup (IF loose THEN {Finding("warning", [kind |-> "namespace", name |-> ns])} ELSE {})

NamespaceGovernance(seen) ==
    UNION {NamespaceFindings(ns, seen) : ns \in {w.ns : w \in {v \in Workloads(seen) : InScope(v)}}}
=============================================================================
