-------------------------- MODULE ClusterReads_proofs --------------------------
(***************************************************************************)
(* Proofs about ClusterReads, for every catalog of objects, however many   *)
(* other clients change the cluster during a read and however often.       *)
(*                                                                         *)
(* ReadInv is the inductive invariant: an answer has one object for each   *)
(* name, all that were there during the whole read and only such that were *)
(* there at some time of it, and a result is made of all the answers.      *)
(* From it follow, one part each: the counts are of their time             *)
(* (CountsTheorem), the totals agree (TotalsTheorem), a check that passes  *)
(* has overlooked nothing (PassTheorem), one that does not blames rightly  *)
(* (BlameTheorem), the payloads validate (PayloadsTheorem) and have their  *)
(* shapes (TypeTheorem).  The lemmas of a check say what its findings mean *)
(* for an answer between the two sets of objects.                          *)
(***************************************************************************)
EXTENDS ClusterReads, Sums_proofs

\* The stages of each reader.
LEMMA StagesAre ==
    ASSUME NEW r \in Known
    PROVE  /\ r = "metadata" => Stages(r) = <<{"version"}, {"node"}>>
           /\ r = "inventory" => Stages(r) = <<{"namespace"}, {"pod"}, {"deployment"},
                                               {"statefulSet"}, {"replicaSet"}, {"service"}>>
           /\ r = "patterns" => Stages(r) = <<{"pod"}, {"deployment"}, {"statefulSet"},
                                              {"daemonSet"}, {"service"}>>
           /\ r = "vpa" => Stages(r) = <<{"crd"}, {"deployment", "statefulSet", "vpa"}>>
           /\ r = "secrets" => Stages(r) = <<{"deployment"}, {"statefulSet"}>>
           /\ r = "externalSecrets" => Stages(r) = <<{"crd"}>>
           /\ r \in PodChecks => Stages(r) = <<{"pod"}>>
           /\ r \in OperatorChecks \cup {"consolidation"} => Stages(r) = <<{"deployment"}>>
           /\ r \in DOMAIN CheckKinds \ {"vpa"} => Stages(r) = <<CheckKinds[r]>>
<1>1. r = "metadata" => Stages(r) = <<{"version"}, {"node"}>>
  BY DEF Stages, PodChecks, OperatorChecks
<1>2. r = "inventory" => Stages(r) = <<{"namespace"}, {"pod"}, {"deployment"},
                                       {"statefulSet"}, {"replicaSet"}, {"service"}>>
  BY DEF Stages, PodChecks, OperatorChecks
<1>3. r = "patterns" => Stages(r) = <<{"pod"}, {"deployment"}, {"statefulSet"},
                                      {"daemonSet"}, {"service"}>>
  BY DEF Stages, PodChecks, OperatorChecks
<1>4. r = "vpa" => Stages(r) = <<{"crd"}, {"deployment", "statefulSet", "vpa"}>>
  <2>1. CheckKinds.vpa = {"deployment", "statefulSet", "vpa"}
    BY DEF CheckKinds
  <2> QED BY <2>1 DEF Stages, PodChecks, OperatorChecks
<1>5. r = "secrets" => Stages(r) = <<{"deployment"}, {"statefulSet"}>>
  BY DEF Stages, PodChecks, OperatorChecks
<1>6. r = "externalSecrets" => Stages(r) = <<{"crd"}>>
  BY DEF Stages, PodChecks, OperatorChecks
<1>7. r \in PodChecks => Stages(r) = <<{"pod"}>>
  BY DEF Stages, PodChecks, OperatorChecks
<1>8. r \in OperatorChecks \cup {"consolidation"} => Stages(r) = <<{"deployment"}>>
  BY DEF Stages, PodChecks, OperatorChecks
<1>9. r \in DOMAIN CheckKinds \ {"vpa"} => Stages(r) = <<CheckKinds[r]>>
  <2>1. r \in DOMAIN CheckKinds => r \notin Collecting \cup {"secrets", "externalSecrets", "consolidation"}
                                              \cup PodChecks \cup OperatorChecks
    BY DEF CheckKinds, Collecting, PodChecks, OperatorChecks
  <2> QED BY <2>1 DEF Stages, Collecting
<1> QED BY <1>1, <1>2, <1>3, <1>4, <1>5, <1>6, <1>7, <1>8, <1>9

\* Every reader has a stage, and every kind that it asks for belongs to one.
LEMMA StagesList ==
    ASSUME NEW r \in Known
    PROVE  /\ DOMAIN Stages(r) = 1..Len(Stages(r)) /\ Len(Stages(r)) \in Nat \ {0}
           /\ \A k \in Kinds(r) : \E i \in 1..Len(Stages(r)) : k \in Stages(r)[i]
           /\ \A i \in 1..Len(Stages(r)) : Stages(r)[i] \subseteq Kinds(r)
<1>1. DOMAIN Stages(r) = 1..Len(Stages(r)) /\ Len(Stages(r)) \in Nat \ {0}
  <2> DEFINE s == Stages(r)
  <2>1. \/ r \in {"metadata", "vpa", "secrets"} /\ \E a, b : s = <<a, b>>
        \/ r = "inventory" /\ \E a, b, c, d, e, f : s = <<a, b, c, d, e, f>>
        \/ r = "patterns" /\ \E a, b, c, d, e : s = <<a, b, c, d, e>>
        \/ \E a : s = <<a>>
    <3> HIDE DEF s
    <3>1. r \in {"metadata", "vpa", "secrets"} => \E a, b : s = <<a, b>>
      BY StagesAre DEF s
    <3>2. r = "inventory" => \E a, b, c, d, e, f : s = <<a, b, c, d, e, f>>
      BY StagesAre DEF s
    <3>3. r = "patterns" => \E a, b, c, d, e : s = <<a, b, c, d, e>>
      BY StagesAre DEF s
    <3>4. r \notin {"metadata", "inventory", "patterns", "vpa", "secrets"} => \E a : s = <<a>>
      BY StagesAre DEF s, Known, Collecting
    <3> QED BY <3>1, <3>2, <3>3, <3>4
  <2> HIDE DEF s
  <2>2. DOMAIN s = 1..Len(s) /\ Len(s) \in Nat \ {0}
    BY <2>1
  <2> QED BY <2>2 DEF s
<1> QED BY <1>1 DEF Kinds

-----------------------------------------------------------------------------
(* The invariant of a read.                                                *)

\* A set of objects with one object for each name.
OnePerName(S) == \A o, p \in S : Identity(o) = Identity(p) => o = p

StateOK ==
    /\ reader \in Readers /\ phase \in {"idle", "reading", "done"}
    /\ config \in {"ca", "server", "none"}
    /\ stage \in 1..Len(Stages(reader)) /\ pending \subseteq Stages(reader)[stage]
    /\ DOMAIN seen = Kinds(reader) /\ changes \in 0..MaxChanges[reader]
    /\ phase = "idle" => pending = {} /\ cluster = {} /\ ever = {} /\ stage = 1

ClusterOK ==
    /\ throughout \subseteq cluster /\ cluster \subseteq ever /\ ever \subseteq Catalog[reader]
    /\ OnePerName(cluster)

\* An answer has objects of its kind that were there together at some time,
\* and all that were there during the whole read.
AnswersOK == \A k \in Kinds(reader) : seen[k] \subseteq Sometime({k}) /\ OnePerName(seen[k])
Answered(k) == Steady({k}) \subseteq seen[k]
StagesOK ==
    phase # "idle" =>
      \A i \in 1..stage : \A k \in Stages(reader)[i] : k \in pending \/ Answered(k)

AllAnswered == \A k \in Kinds(reader) : Answered(k)

\* How a read ends that does not throw.
MetadataMade ==
    /\ reader = "metadata"
    /\ \E first \in seen.node, version \in seen.version :
       \E d \in {MetadataOf(version, seen.node, first)} : result = Stored(ValidMetadata(d), d)
InventoryMade ==
    /\ reader = "inventory"
    /\ \E d \in {InventoryOf(seen)} : result = Stored(ValidInventory(d), d)
PatternsMade ==
    /\ reader = "patterns"
    /\ \E d \in {PatternsOf(seen)} : result = Stored(ValidPatterns(d), d)
Verdict ==
    /\ reader \notin Collecting
    /\ IF Skips(reader, seen) THEN result = [outcome |-> "skipped", data |-> {}]
       ELSE \E findings \in {Judge(reader, seen)} :
              result = [outcome |-> Worst(findings), data |-> findings]

Errs == reader \in {"clusterAdmin", "wildcards"} /\ result = [outcome |-> "error", data |-> {}]
NotDefined ==
    /\ reader = "vpa" /\ seen.crd = {} /\ Answered("crd")
    /\ result = [outcome |-> "skipped", data |-> {}]

ResultOK ==
    IF phase = "done"
    THEN Errs \/ NotDefined \/ (AllAnswered /\ (MetadataMade \/ InventoryMade \/ PatternsMade \/ Verdict))
    ELSE result = Nothing

ReadInv == StateOK /\ ClusterOK /\ AnswersOK /\ StagesOK /\ ResultOK

\* A reader has a bound on the changes, a first stage and a finite catalog.
LEMMA ReadersAre ==
    ASSUME reader \in Readers
    PROVE  /\ reader \in Known /\ MaxChanges[reader] \in Nat /\ IsFiniteSet(Catalog[reader])
           /\ DOMAIN Stages(reader) = 1..Len(Stages(reader)) /\ Len(Stages(reader)) \in Nat \ {0}
           /\ \A k \in Kinds(reader) : \E i \in 1..Len(Stages(reader)) : k \in Stages(reader)[i]
           /\ \A i \in 1..Len(Stages(reader)) : Stages(reader)[i] \subseteq Kinds(reader)
<1>1. reader \in Known
  BY CatalogAssumption
<1> QED BY <1>1, StagesList, CatalogAssumption

\* Before a read nothing is known.
LEMMA IdleIsOK ==
    ASSUME reader \in Readers, phase = "idle", config = "ca", cluster = {}, stage = 1,
           pending = {}, seen = [k \in Kinds(reader) |-> {}], changes = 0, throughout = {},
           ever = {}, result = Nothing
    PROVE  ReadInv
<1>1. StateOK
  BY ReadersAre DEF StateOK
<1> QED BY <1>1 DEF ReadInv, ClusterOK, AnswersOK, StagesOK, ResultOK, OnePerName

\* Before the first read nothing is known.
LEMMA ReadStarts == Init => ReadInv
BY IdleIsOK DEF Init

\* A read that is over is forgotten.
LEMMA ForgetKeeps == ReadInv /\ Forget => ReadInv'
<1> SUFFICES ASSUME ReadInv, Forget PROVE ReadInv'
  OBVIOUS
<1>1. reader' \in Readers /\ reader' = reader
  BY DEF Forget, ReadInv, StateOK
<1>2. Kinds(reader') = Kinds(reader) /\ Stages(reader') = Stages(reader)
  BY <1>1
<1>3. StateOK'
  BY <1>1, <1>2, ReadersAre DEF Forget, StateOK, ReadInv
<1> QED BY <1>1, <1>2, <1>3 DEF Forget, ReadInv, ClusterOK, AnswersOK, StagesOK, ResultOK, OnePerName

\* A read begins with one state of the cluster, which is all there ever was.
LEMMA BeginKeeps == ReadInv /\ Begin => ReadInv'
<1> SUFFICES ASSUME ReadInv, Begin PROVE ReadInv'
  OBVIOUS
<1>1. reader' = reader /\ reader \in Readers
  BY DEF Begin, ReadInv, StateOK
<1>2. Kinds(reader') = Kinds(reader) /\ Stages(reader') = Stages(reader) /\ stage = 1 /\ stage' = stage
  BY <1>1 DEF Begin, ReadInv, StateOK
<1>3. StateOK'
  BY <1>1, <1>2, ReadersAre DEF Begin, StateOK, ReadInv
<1>4. ClusterOK'
  BY <1>1 DEF Begin, States, ClusterOK, OnePerName
<1>5. AnswersOK'
  <2>1. \A k \in Kinds(reader) : seen[k] = {}
    BY DEF Begin, ReadInv, StateOK, AnswersOK, Sometime
  <2>2. seen' = seen
    BY DEF Begin
  <2> QED BY <1>2, <2>1, <2>2 DEF AnswersOK, OnePerName
<1>6. StagesOK'
  BY <1>2 DEF Begin, StagesOK
<1>7. ResultOK'
  BY DEF Begin, ReadInv, ResultOK
<1> QED BY <1>3, <1>4, <1>5, <1>6, <1>7 DEF ReadInv

\* An answer shows the cluster as it is.
LEMMA AnswerKeeps == ASSUME NEW kind PROVE ReadInv /\ Answer(kind) => ReadInv'
<1> SUFFICES ASSUME ReadInv, Answer(kind) PROVE ReadInv'
  OBVIOUS
<1> DEFINE shown == {o \in cluster : o.kind = kind}
<1>1. /\ reader' = reader /\ reader \in Readers /\ stage' = stage /\ cluster' = cluster
      /\ throughout' = throughout /\ ever' = ever /\ phase' = phase /\ result' = result
      /\ config' = config /\ changes' = changes /\ phase = "reading"
  BY DEF Answer, ReadInv, StateOK
<1>2. Kinds(reader') = Kinds(reader) /\ Stages(reader') = Stages(reader)
  BY <1>1
<1>3. kind \in Kinds(reader)
  BY <1>1, ReadersAre DEF Answer, ReadInv, StateOK
<1>4. \A k \in Kinds(reader) : seen'[k] = IF k = kind THEN shown ELSE seen[k]
  BY <1>3 DEF Answer, ReadInv, StateOK
<1>5. StateOK'
  <2>1. DOMAIN seen' = Kinds(reader)
    BY DEF Answer, ReadInv, StateOK
  <2>2. pending' \subseteq pending
    BY DEF Answer
  <2> QED BY <1>1, <1>2, <2>1, <2>2 DEF StateOK, ReadInv
<1>6. ClusterOK'
  BY <1>1 DEF ClusterOK, ReadInv, OnePerName
<1>7. Steady({kind}) \subseteq shown /\ shown \subseteq Sometime({kind}) /\ OnePerName(shown)
  BY DEF ReadInv, ClusterOK, Steady, Sometime, OnePerName
<1>8. \A ks : Steady(ks)' = Steady(ks) /\ Sometime(ks)' = Sometime(ks)
  BY <1>1 DEF Steady, Sometime
<1> HIDE DEF shown
<1>9. AnswersOK'
  <2> SUFFICES ASSUME NEW k \in Kinds(reader)
               PROVE  seen'[k] \subseteq Sometime({k})' /\ OnePerName(seen'[k])
    BY <1>2 DEF AnswersOK, OnePerName
  <2>1. seen[k] \subseteq Sometime({k}) /\ OnePerName(seen[k])
    BY DEF AnswersOK, ReadInv
  <2>2. CASE k = kind
    BY <2>2, <1>4, <1>7, <1>8
  <2>3. CASE k # kind
    BY <2>1, <2>3, <1>4, <1>8
  <2> QED BY <2>2, <2>3
<1>10. StagesOK'
  <2> SUFFICES ASSUME NEW i \in 1..stage, NEW k \in Stages(reader)[i]
               PROVE  k \in pending' \/ Steady({k})' \subseteq seen'[k]
    BY <1>1, <1>2 DEF StagesOK, Answered
  <2>1. k \in Kinds(reader)
    BY <1>1, ReadersAre DEF ReadInv, StateOK
  <2>2. k \in pending \/ Steady({k}) \subseteq seen[k]
    BY <1>1 DEF StagesOK, ReadInv, Answered
  <2>3. k = kind => Steady({k})' \subseteq seen'[k]
    BY <2>1, <1>4, <1>7, <1>8
  <2>4. k # kind => seen'[k] = seen[k] /\ (k \in pending => k \in pending')
    BY <2>1, <1>4 DEF Answer
  <2> QED BY <2>2, <2>3, <2>4, <1>8
<1>11. ResultOK'
  BY <1>1 DEF ReadInv, ResultOK
<1> QED BY <1>5, <1>6, <1>9, <1>10, <1>11 DEF ReadInv

\* The cluster changes: what was there throughout shrinks, what ever was grows.
LEMMA ChangeKeeps == ASSUME NEW o \in Catalog[reader] PROVE ReadInv /\ Change(o) => ReadInv'
<1> SUFFICES ASSUME ReadInv, Change(o) PROVE ReadInv'
  OBVIOUS
<1>1. /\ reader' = reader /\ reader \in Readers /\ stage' = stage /\ seen' = seen
      /\ pending' = pending /\ phase' = phase /\ result' = result /\ phase = "reading"
  BY DEF Change, ReadInv, StateOK
<1>2. Kinds(reader') = Kinds(reader) /\ Stages(reader') = Stages(reader)
  BY <1>1
<1>3. StateOK'
  BY <1>1, <1>2, ReadersAre DEF StateOK, ReadInv, Change
<1>4. ClusterOK'
  <2>1. cluster' \subseteq cluster \cup {o}
    BY DEF Change
  <2>2. OnePerName(cluster')
    BY DEF Change, ReadInv, ClusterOK, OnePerName
  <2>3. OnePerName(cluster)'
    BY <2>2 DEF OnePerName
  <2> QED BY <1>1, <2>1, <2>3 DEF Change, ReadInv, ClusterOK
<1>5. throughout' \subseteq throughout /\ ever \subseteq ever'
  BY DEF Change
<1>6. \A ks : Steady(ks)' \subseteq Steady(ks) /\ Sometime(ks) \subseteq Sometime(ks)'
  BY <1>5 DEF Steady, Sometime
<1>7. AnswersOK'
  <2> SUFFICES ASSUME NEW k \in Kinds(reader)
               PROVE  seen[k] \subseteq Sometime({k})' /\ OnePerName(seen[k])
    BY <1>1, <1>2 DEF AnswersOK, OnePerName
  <2> QED BY <1>6 DEF AnswersOK, ReadInv
<1>8. StagesOK'
  <2> SUFFICES ASSUME NEW i \in 1..stage, NEW k \in Stages(reader)[i]
               PROVE  k \in pending \/ Steady({k})' \subseteq seen[k]
    BY <1>1, <1>2 DEF StagesOK, Answered
  <2> QED BY <1>1, <1>6 DEF StagesOK, ReadInv, Answered
<1>9. ResultOK'
  BY <1>1 DEF ReadInv, ResultOK
<1> QED BY <1>3, <1>4, <1>7, <1>8, <1>9 DEF ReadInv

\* The state in which a read ends is the one it was in.
LEMMA EndKeeps ==
    ASSUME ReadInv, phase = "reading", phase' = "done", Frame,
           (Errs \/ NotDefined \/ (AllAnswered /\ (MetadataMade \/ InventoryMade \/ PatternsMade \/ Verdict)))'
    PROVE  ReadInv'
<1>1. Kinds(reader') = Kinds(reader) /\ Stages(reader') = Stages(reader)
  BY DEF Frame
<1>2. StateOK'
  BY <1>1 DEF StateOK, ReadInv, Frame
<1>3. ClusterOK'
  BY DEF ClusterOK, ReadInv, Frame, OnePerName
<1>4. AnswersOK'
  BY <1>1 DEF AnswersOK, ReadInv, Frame, Sometime, OnePerName
<1>5. StagesOK'
  BY <1>1 DEF StagesOK, ReadInv, Frame, Answered, Steady
<1>6. ResultOK'
  BY DEF ResultOK
<1> QED BY <1>2, <1>3, <1>4, <1>5, <1>6 DEF ReadInv

\* When the last stage is answered, every kind is.
LEMMA AllOfThem == ReadInv /\ LastStageAnswered => AllAnswered
<1> SUFFICES ASSUME ReadInv, LastStageAnswered, NEW k \in Kinds(reader) PROVE Answered(k)
  BY DEF AllAnswered
<1>1. reader \in Readers
  BY DEF ReadInv, StateOK
<1>2. PICK i \in 1..Len(Stages(reader)) : k \in Stages(reader)[i]
  BY <1>1, ReadersAre
<1> QED BY <1>2 DEF LastStageAnswered, ReadInv, StagesOK

\* A request that fails ends the read, or the verdict is an error.
LEMMA FailureKeeps == ASSUME NEW kind PROVE ReadInv /\ RequestFails(kind) => ReadInv'
<1> SUFFICES ASSUME ReadInv, RequestFails(kind) PROVE ReadInv'
  OBVIOUS
<1>1. CASE reader \in {"clusterAdmin", "wildcards"}
  <2>1. phase = "reading" /\ phase' = "done" /\ Frame /\ reader' = reader
        /\ result' = [outcome |-> "error", data |-> {}]
    BY <1>1 DEF RequestFails, Frame
  <2>2. Errs'
    BY <1>1, <2>1 DEF Errs
  <2> QED BY <2>1, <2>2, EndKeeps
<1>2. CASE reader \notin {"clusterAdmin", "wildcards"}
  BY <1>2, ForgetKeeps DEF RequestFails
<1> QED BY <1>1, <1>2

\* The next stage begins when the answers of this one are there.
LEMMA ProceedKeeps == ReadInv /\ Proceed => ReadInv'
<1> SUFFICES ASSUME ReadInv, Proceed PROVE ReadInv'
  OBVIOUS
<1>0. reader \in Readers
  BY DEF ReadInv, StateOK
<1>1. CASE reader = "vpa" /\ seen.crd = {}
  <2>1. phase = "reading" /\ phase' = "done" /\ Frame
        /\ result' = [outcome |-> "skipped", data |-> {}] /\ reader' = reader /\ seen' = seen
        /\ throughout' = throughout
    BY <1>1 DEF Proceed, Frame
  <2>2. Answered("crd")
    <3>1. Stages(reader)[1] = {"crd"}
      BY <1>0, <1>1, ReadersAre, StagesAre
    <3> QED BY <3>1, <1>0, ReadersAre DEF Proceed, ReadInv, StagesOK, StateOK
  <2>3. NotDefined'
    BY <1>1, <2>1, <2>2 DEF NotDefined, Answered, Steady
  <2> QED BY <2>1, <2>3, EndKeeps
<1>2. CASE ~(reader = "vpa" /\ seen.crd = {})
  <2>1. /\ phase = "reading" /\ phase' = phase /\ reader' = reader /\ stage' = stage + 1
        /\ pending = {} /\ pending' = Stages(reader)[stage + 1] /\ stage < Len(Stages(reader))
        /\ seen' = seen /\ throughout' = throughout /\ ever' = ever /\ result' = result
        /\ cluster' = cluster /\ config' = config /\ changes' = changes
    BY <1>2 DEF Proceed
  <2>2. Kinds(reader') = Kinds(reader) /\ Stages(reader') = Stages(reader)
    BY <2>1
  <2>3. StateOK'
    BY <1>0, <2>1, <2>2, ReadersAre DEF StateOK, ReadInv
  <2>4. ClusterOK'
    BY <2>1 DEF ClusterOK, ReadInv, OnePerName
  <2>5. AnswersOK'
    BY <2>1, <2>2 DEF AnswersOK, ReadInv, Sometime, OnePerName
  <2>6. StagesOK'
    <3> SUFFICES ASSUME NEW i \in 1..(stage + 1), NEW k \in Stages(reader)[i]
                 PROVE  k \in pending' \/ Answered(k)
      BY <2>1, <2>2 DEF StagesOK, Answered, Steady
    <3>1. stage \in Nat
      BY <1>0, ReadersAre DEF ReadInv, StateOK
    <3>2. CASE i = stage + 1
      BY <2>1, <3>2
    <3>3. CASE i # stage + 1
      <4>1. i \in 1..stage
        BY <3>1, <3>3
      <4> QED BY <2>1, <4>1 DEF ReadInv, StagesOK
    <3> QED BY <3>2, <3>3
  <2>7. ResultOK'
    BY <2>1 DEF ReadInv, ResultOK
  <2> QED BY <2>3, <2>4, <2>5, <2>6, <2>7 DEF ReadInv
<1> QED BY <1>1, <1>2

\* What a reader makes of all its answers.
LEMMA FinishKeeps ==
    ReadInv /\ (FinishMetadata \/ FinishInventory \/ FinishPatterns \/ FinishCheck) => ReadInv'
<1> SUFFICES ASSUME ReadInv, FinishMetadata \/ FinishInventory \/ FinishPatterns \/ FinishCheck
             PROVE  ReadInv'
  OBVIOUS
<1>1. LastStageAnswered /\ phase = "reading" /\ AllAnswered
  <2>1. LastStageAnswered
    BY DEF FinishMetadata, FinishInventory, FinishPatterns, FinishCheck
  <2> QED BY <2>1, AllOfThem DEF LastStageAnswered
<1>2. ASSUME Frame, phase' = "done", (MetadataMade \/ InventoryMade \/ PatternsMade \/ Verdict)'
      PROVE  ReadInv'
  <2>1. AllAnswered'
    BY <1>1, <1>2 DEF Frame, AllAnswered, Answered, Steady
  <2> QED BY <1>1, <1>2, <2>1, EndKeeps
<1>3. CASE FinishMetadata
  <2>1. CASE MetadataCollected(config, seen.node)
    <3>1. Frame /\ phase' = "done" /\ reader' = reader /\ seen' = seen
      BY <1>3, <2>1 DEF FinishMetadata, Frame
    <3>2. MetadataMade'
      BY <1>3, <2>1, <3>1, Zenon DEF FinishMetadata, MetadataMade
    <3> QED BY <3>1, <3>2, <1>2
  <2>2. CASE ~MetadataCollected(config, seen.node)
    BY <1>3, <2>2, ForgetKeeps DEF FinishMetadata
  <2> QED BY <2>1, <2>2
<1>4. CASE FinishInventory
  <2>1. Frame /\ phase' = "done" /\ reader' = reader /\ seen' = seen
    BY <1>4 DEF FinishInventory, Frame
  <2>2. InventoryMade'
    BY <1>4, <2>1, Zenon DEF FinishInventory, InventoryMade
  <2> QED BY <2>1, <2>2, <1>2
<1>5. CASE FinishPatterns
  <2>1. Frame /\ phase' = "done" /\ reader' = reader /\ seen' = seen
    BY <1>5 DEF FinishPatterns, Frame
  <2>2. PatternsMade'
    BY <1>5, <2>1, Zenon DEF FinishPatterns, PatternsMade
  <2> QED BY <2>1, <2>2, <1>2
<1>6. CASE FinishCheck
  <2>1. Frame /\ phase' = "done" /\ reader' = reader /\ seen' = seen
    BY <1>6 DEF FinishCheck, Frame
  <2>2. Verdict'
    BY <1>6, <2>1, Zenon DEF FinishCheck, Verdict
  <2> QED BY <2>1, <2>2, <1>2
<1> QED BY <1>3, <1>4, <1>5, <1>6

\* Every step keeps the inductive invariant.
LEMMA ReadStep == ReadInv /\ [Next]_vars => ReadInv'
<1> SUFFICES ASSUME ReadInv, [Next]_vars PROVE ReadInv'
  OBVIOUS
<1>1. CASE UNCHANGED vars
  BY <1>1 DEF vars, ReadInv, StateOK, ClusterOK, AnswersOK, StagesOK, ResultOK, OnePerName,
     Answered, AllAnswered, Steady, Sometime, Errs, NotDefined, MetadataMade, InventoryMade,
     PatternsMade, Verdict
<1>2. CASE Begin
  BY <1>2, BeginKeeps
<1>3. CASE Return
  BY <1>3, ForgetKeeps DEF Return
<1>4. CASE RequestEnds
  <2>1. PICK kind \in pending : Answer(kind) \/ RequestFails(kind)
    BY <1>4 DEF RequestEnds
  <2> QED BY <2>1, AnswerKeeps, FailureKeeps
<1>5. CASE ReaderStep
  BY <1>5, ProceedKeeps, FinishKeeps DEF ReaderStep
<1>6. CASE \E o \in Catalog[reader] : Change(o)
  BY <1>6, ChangeKeeps
<1> QED BY <1>1, <1>2, <1>3, <1>4, <1>5, <1>6 DEF Next

\* What a reader has seen and made is what it could have seen and made.
THEOREM ReadInvariance == Spec => []ReadInv
BY ReadStarts, ReadStep, PTL DEF Spec

-----------------------------------------------------------------------------
(* What the collectors count.                                              *)

\* The array of a finite set has each of its elements once.
LEMMA ArrayOf ==
    ASSUME NEW S, IsFiniteSet(S)
    PROVE  /\ Cardinality(S) \in Nat /\ SetToSeq(S) \in [1..Cardinality(S) -> S]
           /\ Len(SetToSeq(S)) = Cardinality(S)
           /\ \A i, j \in 1..Cardinality(S) : SetToSeq(S)[i] = SetToSeq(S)[j] => i = j
           /\ \A x \in S : \E i \in 1..Cardinality(S) : SetToSeq(S)[i] = x
<1> DEFINE n == Cardinality(S)
<1>1. n \in Nat /\ ExistsBijection(1..n, S)
  BY FS_CardinalityType
<1>2. PICK f \in [1..n -> S] : IsInjective(f)
  <2>1. PICK f : f \in Bijection(1..n, S)
    BY <1>1 DEF ExistsBijection
  <2>2. f \in [1..n -> S] /\ IsInjective(f)
    BY <2>1 DEF Bijection, Injection, IsInjective
  <2> QED BY <2>2
<1>3. SetToSeq(S) \in [1..n -> S] /\ IsInjective(SetToSeq(S))
  BY <1>2 DEF SetToSeq
<1> DEFINE s == SetToSeq(S)
<1> HIDE DEF n, s
<1>4. Len(s) = n
  BY <1>1, <1>3 DEF s
<1>5. IsFiniteSet(1..n) /\ Cardinality(1..n) = n
  BY <1>1, FS_Interval
<1>6. s \in Injection(1..n, S)
  BY <1>3 DEF Injection, IsInjective, s
<1>7. s \in Surjection(1..n, S)
  BY <1>5, <1>6, FS_Injection DEF n
<1> QED BY <1>1, <1>3, <1>4, <1>6, <1>7 DEF n, s, Surjection, IsInjective

\* The number of objects in an answer is one that the cluster could have had.
LEMMA CountOfTime ==
    ASSUME ReadInv, NEW k \in Kinds(reader), Answered(k)
    PROVE  /\ IsFiniteSet(seen[k]) /\ Cardinality(seen[k]) \in Nat
           /\ CouldCount(Cardinality(seen[k]), k)
<1>1. seen[k] \subseteq Sometime({k}) /\ OnePerName(seen[k]) /\ Steady({k}) \subseteq seen[k]
  BY DEF ReadInv, AnswersOK, Answered
<1>2. IsFiniteSet(Sometime({k}))
  <2>1. IsFiniteSet(Catalog[reader]) /\ Sometime({k}) \subseteq Catalog[reader]
    BY ReadersAre DEF ReadInv, StateOK, ClusterOK, Sometime
  <2> QED BY <2>1, FS_Subset
<1>3. IsFiniteSet(seen[k]) /\ Cardinality(Steady({k})) <= Cardinality(seen[k])
  BY <1>1, <1>2, FS_Subset
<1> DEFINE names == {Identity(o) : o \in Sometime({k})}
           name == [o \in Sometime({k}) |-> Identity(o)]
           nameSeen == [o \in seen[k] |-> Identity(o)]
<1>4. IsFiniteSet(names)
  <2>1. name \in Surjection(Sometime({k}), names)
    BY DEF Surjection
  <2> QED BY <2>1, <1>2, FS_Surjection
<1>5. Cardinality(seen[k]) <= Cardinality(names)
  <2>1. nameSeen \in Injection(seen[k], names)
    BY <1>1 DEF Injection, IsInjective, OnePerName
  <2> QED BY <2>1, <1>4, FS_Injection
<1> QED BY <1>3, <1>5, FS_CardinalityType DEF CouldCount

\* The kinds that the collectors list.
LEMMA CollectorsList ==
    /\ reader = "metadata" => Kinds(reader) = {"version", "node"}
    /\ reader = "inventory" => Kinds(reader) = {"namespace", "pod", "deployment", "statefulSet",
                                                 "replicaSet", "service"}
    /\ reader = "patterns" => Kinds(reader) = {"pod", "deployment", "statefulSet", "daemonSet", "service"}
<1>1. ASSUME NEW r, r = "metadata" PROVE Kinds(r) = {"version", "node"}
  <2>1. Stages(r) = <<{"version"}, {"node"}>>
    BY <1>1, StagesAre DEF Known, Collecting
  <2> QED BY <2>1 DEF Kinds
<1>2. ASSUME NEW r, r = "inventory" PROVE Kinds(r) = {"namespace", "pod", "deployment", "statefulSet",
                                                 "replicaSet", "service"}
  <2>1. Stages(r) = <<{"namespace"}, {"pod"}, {"deployment"},
                                               {"statefulSet"}, {"replicaSet"}, {"service"}>>
    BY <1>2, StagesAre DEF Known, Collecting
  <2> QED BY <2>1 DEF Kinds
<1>3. ASSUME NEW r, r = "patterns" PROVE Kinds(r) = {"pod", "deployment", "statefulSet", "daemonSet", "service"}
  <2>1. Stages(r) = <<{"pod"}, {"deployment"}, {"statefulSet"}, {"daemonSet"}, {"service"}>>
    BY <1>3, StagesAre DEF Known, Collecting
  <2> QED BY <2>1 DEF Kinds
<1> QED BY <1>1, <1>2, <1>3

\* What a collector has made is made of what it saw.
LEMMA MadeOf ==
    ASSUME ReadInv, phase = "done"
    PROVE  /\ reader \in Collecting => AllAnswered
           /\ reader = "metadata" =>
                \E first \in seen.node, version \in seen.version :
                   /\ Payload = MetadataOf(version, seen.node, first)
                   /\ result.outcome = IF ValidMetadata(Payload) THEN "stored" ELSE "rejected"
           /\ reader = "inventory" =>
                /\ Payload = InventoryOf(seen)
                /\ result.outcome = IF ValidInventory(Payload) THEN "stored" ELSE "rejected"
           /\ reader = "patterns" =>
                /\ Payload = PatternsOf(seen)
                /\ result.outcome = IF ValidPatterns(Payload) THEN "stored" ELSE "rejected"
<1>1. \A v \in BOOLEAN : \A d : Stored(v, d).data = d
                            /\ Stored(v, d).outcome = IF v THEN "stored" ELSE "rejected"
  BY DEF Stored
<1>2. Errs \/ NotDefined \/ (AllAnswered /\ (MetadataMade \/ InventoryMade \/ PatternsMade \/ Verdict))
  BY DEF ReadInv, ResultOK
<1>3. reader \in Collecting => ~Errs /\ ~NotDefined /\ ~Verdict
  BY DEF Collecting, Errs, NotDefined, Verdict
<1>4. reader \in {"metadata", "inventory", "patterns"} <=> reader \in Collecting
  BY DEF Collecting
<1>5. \A d : ValidMetadata(d) \in BOOLEAN /\ ValidInventory(d) \in BOOLEAN /\ ValidPatterns(d) \in BOOLEAN
  BY DEF ValidMetadata, ValidInventory, ValidPatterns
<1>6. ASSUME reader = "metadata"
      PROVE  \E first \in seen.node, version \in seen.version :
                   /\ Payload = MetadataOf(version, seen.node, first)
                   /\ result.outcome = IF ValidMetadata(Payload) THEN "stored" ELSE "rejected"
  <2>1. PICK first \in seen.node, version \in seen.version :
           result = Stored(ValidMetadata(MetadataOf(version, seen.node, first)), MetadataOf(version, seen.node, first))
    BY <1>2, <1>3, <1>4, <1>6 DEF MetadataMade, InventoryMade, PatternsMade
  <2> QED BY <2>1, <1>1, <1>5 DEF Payload
<1>7. ASSUME reader = "inventory"
      PROVE  /\ Payload = InventoryOf(seen)
             /\ result.outcome = IF ValidInventory(Payload) THEN "stored" ELSE "rejected"
  <2>1. result = Stored(ValidInventory(InventoryOf(seen)), InventoryOf(seen))
    BY <1>2, <1>3, <1>4, <1>7 DEF MetadataMade, InventoryMade, PatternsMade
  <2> QED BY <2>1, <1>1, <1>5 DEF Payload
<1>8. ASSUME reader = "patterns"
      PROVE  /\ Payload = PatternsOf(seen)
             /\ result.outcome = IF ValidPatterns(Payload) THEN "stored" ELSE "rejected"
  <2>1. result = Stored(ValidPatterns(PatternsOf(seen)), PatternsOf(seen))
    BY <1>2, <1>3, <1>4, <1>8 DEF MetadataMade, InventoryMade, PatternsMade
  <2> QED BY <2>1, <1>1, <1>5 DEF Payload
<1> QED BY <1>2, <1>3, <1>6, <1>7, <1>8

\* The lengths of the arrays that the counts are of.
LEMMA ArrayLengths ==
    ASSUME NEW S, IsFiniteSet(S)
    PROVE  /\ Len(Namespaces(S).list) = Cardinality(S)
           /\ Len(Each(S, LAMBDA o : o.labels)) = Cardinality(S)
           /\ Len(Each(S, LAMBDA o : o.annotations)) = Cardinality(S)
<1> DEFINE n == Cardinality(S)
           s == SetToSeq(S)
<1>1. Len(s) = n /\ n \in Nat
  BY ArrayOf
<1> HIDE DEF s, n
<1>2. Len([i \in 1..Len(s) |-> HashNamespace(s[i].name)]) = n
  BY <1>1
<1>3. Len([i \in 1..Len(s) |-> s[i].labels]) = n
  BY <1>1
<1>4. Len([i \in 1..Len(s) |-> s[i].annotations]) = n
  BY <1>1
<1> QED BY <1>2, <1>3, <1>4 DEF Namespaces, Each, s, n

\* The counts of a payload are ones that the cluster could have had during the
\* read, however it changed between the requests.
THEOREM CountsTheorem == Spec => []CountsAreOfTheirTime
<1>1. ReadInv => CountsAreOfTheirTime
  <2> SUFFICES ASSUME ReadInv, phase = "done", reader \in Collecting PROVE CountsAreOfTheirTime
    BY DEF CountsAreOfTheirTime, Made, Collecting
  <2>1. \A k \in Kinds(reader) : IsFiniteSet(seen[k]) /\ CouldCount(Cardinality(seen[k]), k)
    BY MadeOf, CountOfTime DEF AllAnswered
  <2>2. ASSUME reader = "metadata" PROVE CouldCount(Payload.nodeCount, "node")
    BY <2>1, <2>2, MadeOf, CollectorsList DEF MetadataOf
  <2>3. ASSUME reader = "inventory"
        PROVE  /\ CouldCount(Payload.namespaces.count, "namespace")
               /\ CouldCount(Payload.resources.pods.total, "pod")
               /\ CouldCount(Payload.resources.deployments.total, "deployment")
               /\ CouldCount(Payload.resources.statefulSets.total, "statefulSet")
               /\ CouldCount(Payload.resources.replicaSets.total, "replicaSet")
               /\ CouldCount(Payload.resources.services.total, "service")
    BY <2>1, <2>3, MadeOf, CollectorsList DEF InventoryOf, Namespaces, PodCounts, ServiceCounts
  <2>4. ASSUME reader = "patterns"
        PROVE  /\ CouldCount(Payload.securityContexts.totalPods, "pod")
               /\ CouldCount(Len(Payload.labelsAnnotations.labelCounts.deployments), "deployment")
               /\ CouldCount(Payload.replicaCounts.daemonSetCount, "daemonSet")
               /\ CouldCount(Payload.services.totalServices, "service")
    <3>1. Payload = PatternsOf(seen) /\ Kinds(reader) = {"pod", "deployment", "statefulSet", "daemonSet", "service"}
      BY <2>4, MadeOf, CollectorsList
    <3>2. Payload.securityContexts.totalPods = Cardinality(seen.pod)
      BY <3>1 DEF PatternsOf, SecurityContexts
    <3>3. Payload.labelsAnnotations.labelCounts.deployments = Each(seen.deployment, LAMBDA o : o.labels)
      BY <3>1 DEF PatternsOf, LabelsAnnotations, Counted
    <3>4. Payload.replicaCounts.daemonSetCount = Cardinality(seen.daemonSet)
      BY <3>1 DEF PatternsOf
    <3>5. Payload.services.totalServices = Cardinality(seen.service)
      BY <3>1 DEF PatternsOf, Services
    <3> QED BY <2>1, <3>1, <3>2, <3>3, <3>4, <3>5, ArrayLengths
  <2> QED BY <2>2, <2>3, <2>4 DEF CountsAreOfTheirTime, Made
<1> QED BY <1>1, ReadInvariance, PTL

\* The parts of finitely many objects, of which n says how many each has.
Parts(S, n) == UNION {{[pod |-> p, at |-> i] : i \in 1..n[p]} : p \in S}

\* They are as many as the numbers of the objects' array add up to.
LEMMA PartsAddUp ==
    ASSUME NEW S, IsFiniteSet(S), NEW n \in [S -> Nat]
    PROVE  /\ IsFiniteSet(Parts(S, n))
           /\ SumOf([i \in 1..Cardinality(S) |-> n[SetToSeq(S)[i]]]) = Cardinality(Parts(S, n))
<1> DEFINE s == SetToSeq(S)
           c == Cardinality(S)
           f == [i \in 1..c |-> n[s[i]]]
           U == Units(f, 1..c)
           part == [u \in U |-> [pod |-> s[u[1]], at |-> u[2]]]
<1>1. /\ c \in Nat /\ s \in [1..c -> S]
      /\ \A i, j \in 1..c : s[i] = s[j] => i = j
      /\ \A x \in S : \E i \in 1..c : s[i] = x
  BY ArrayOf
<1> HIDE DEF s, c
<1>2. DOMAIN f = 1..c /\ (\A i \in 1..c : f[i] \in Nat) /\ IsFiniteSet(1..c)
  BY <1>1, FS_Interval
<1>3. IsFiniteSet(U) /\ SumOf(f) = Cardinality(U)
  <2> HIDE DEF f, U
  <2>1. IsFiniteSet(Units(f, DOMAIN f)) /\ SumOf(f) = Cardinality(Units(f, DOMAIN f))
    BY <1>2, UnitsFinite, SumCountsUnits
  <2> QED BY <2>1, <1>2 DEF U
<1>4. \A u \in U : u[1] \in 1..c /\ u[2] \in 1..n[s[u[1]]] /\ u = <<u[1], u[2]>>
  BY DEF Units
<1>5. \A i \in 1..c : \A j \in 1..n[s[i]] : <<i, j>> \in U
  BY DEF Units
<1> HIDE DEF U, f
<1>6. part \in [U -> Parts(S, n)]
  <2> SUFFICES ASSUME NEW u \in U PROVE [pod |-> s[u[1]], at |-> u[2]] \in Parts(S, n)
    OBVIOUS
  <2>1. s[u[1]] \in S /\ u[2] \in 1..n[s[u[1]]]
    BY <1>1, <1>4
  <2> QED BY <2>1 DEF Parts
<1>7. \A t \in Parts(S, n) : \E u \in U : part[u] = t
  <2> TAKE t \in Parts(S, n)
  <2>1. PICK p \in S : \E j \in 1..n[p] : t = [pod |-> p, at |-> j]
    BY DEF Parts
  <2>2. PICK j \in 1..n[p] : t = [pod |-> p, at |-> j]
    BY <2>1
  <2>3. PICK i \in 1..c : s[i] = p
    BY <1>1
  <2>4. <<i, j>> \in U
    BY <2>2, <2>3, <1>5
  <2> QED BY <2>2, <2>3, <2>4
<1>8. \A u, v \in U : part[u] = part[v] => u = v
  BY <1>1, <1>4
<1> HIDE DEF part
<1>9. part \in Surjection(U, Parts(S, n)) /\ part \in Injection(U, Parts(S, n))
  BY <1>6, <1>7, <1>8 DEF Surjection, Injection, IsInjective
<1>10. IsFiniteSet(Parts(S, n)) /\ Cardinality(Parts(S, n)) = Cardinality(U)
  BY <1>3, <1>9, FS_Surjection
<1> QED BY <1>3, <1>10 DEF f, s, c

\* A list of as many values as n has n of them.
LEMMA LengthIs == ASSUME NEW n \in Nat, NEW f, DOMAIN f = 1..n PROVE Len(f) = n
OBVIOUS

\* The objects of an answer have the fields that the collectors read.
LEMMA SeenListed ==
    ASSUME ReadInv, reader \in Collecting, NEW k \in Kinds(reader), NEW o \in seen[k]
    PROVE  o.kind = k /\ Listed(o)
<1>1. o \in ever /\ o.kind = k
  BY DEF ReadInv, AnswersOK, Sometime
<1>2. o \in Catalog[reader] /\ reader \in Readers
  BY <1>1 DEF ReadInv, ClusterOK, StateOK
<1> QED BY <1>1, <1>2, CatalogAssumption DEF Fits

\* The pods that the patterns are made of, and their containers and volumes.
LEMMA PodsOfPatterns ==
    ASSUME ReadInv, reader = "patterns", AllAnswered
    PROVE  LET pods == seen.pod  cs == Containers(seen.pod)  vs == PodVolumes(seen.pod)
           IN  /\ IsFiniteSet(pods) /\ IsFiniteSet(cs) /\ IsFiniteSet(vs)
               /\ \A p \in pods : ListedPod(p)
               /\ \A c \in cs : It(c) \in ListedContainers
               /\ \A v \in vs : v.pod.volumes[v.at] \in VolumeTypes
               /\ SumOf(Each(pods, LAMBDA p : Len(p.volumes))) = Cardinality(vs)
<1> DEFINE pods == seen.pod
           cs == Containers(seen.pod)
           vs == PodVolumes(seen.pod)
           nc == [p \in pods |-> Len(p.containers)]
           nv == [p \in pods |-> Len(p.volumes)]
<1>1. IsFiniteSet(pods)
  BY CountOfTime, CollectorsList DEF AllAnswered
<1>2. \A p \in pods : ListedPod(p)
  BY SeenListed, CollectorsList DEF Listed, Collecting
<1>3. /\ nc \in [pods -> Nat] /\ nv \in [pods -> Nat]
      /\ \A p \in pods : DOMAIN p.containers = 1..nc[p] /\ DOMAIN p.volumes = 1..nv[p]
      /\ \A p \in pods : \A i \in 1..nc[p] : p.containers[i] \in ListedContainers
      /\ \A p \in pods : \A i \in 1..nv[p] : p.volumes[i] \in VolumeTypes
  BY <1>2 DEF ListedPod
<1> HIDE DEF pods, nc, nv
<1>4. cs = Parts(pods, nc)
  BY <1>3 DEF pods, Containers, Parts
<1>5. vs = Parts(pods, nv)
  BY <1>3 DEF pods, PodVolumes, Parts
<1>6. \A c \in cs : It(c) \in ListedContainers
  BY <1>3, <1>4 DEF It, Parts
<1>7. \A v \in vs : v.pod.volumes[v.at] \in VolumeTypes
  BY <1>3, <1>5 DEF Parts
<1>8. IsFiniteSet(Parts(pods, nc)) /\ IsFiniteSet(Parts(pods, nv))
      /\ SumOf([i \in 1..Cardinality(pods) |-> nv[SetToSeq(pods)[i]]]) = Cardinality(Parts(pods, nv))
  BY <1>1, <1>3, PartsAddUp
<1>9. Each(pods, LAMBDA p : Len(p.volumes)) = [i \in 1..Cardinality(pods) |-> nv[SetToSeq(pods)[i]]]
  <2>1. Len(SetToSeq(pods)) = Cardinality(pods) /\ SetToSeq(pods) \in [1..Cardinality(pods) -> pods]
    BY <1>1, ArrayOf
  <2> QED BY <2>1 DEF Each, nv
<1> HIDE DEF cs, vs
<1> QED BY <1>1, <1>2, <1>4, <1>5, <1>6, <1>7, <1>8, <1>9 DEF pods, cs, vs

\* A finite set has finitely many values of a function.
LEMMA ValuesFinite ==
    ASSUME NEW S, IsFiniteSet(S), NEW g, DOMAIN g = S
    PROVE  IsFiniteSet({g[x] : x \in S})
<1> DEFINE T == {g[x] : x \in S}
           h == [x \in S |-> g[x]]
<1>1. h \in Surjection(S, T)
  BY DEF Surjection
<1> HIDE DEF h, T
<1>2. IsFiniteSet(T)
  BY <1>1, FS_Surjection
<1> QED BY <1>2 DEF T

\* What an inventory counts by namespace and by type adds up.
LEMMA InventoryAdds ==
    ASSUME ReadInv, Made("inventory") PROVE InventoryAddsUp
<1> DEFINE pods == seen.pod
           services == seen.service
           id == [p \in pods |-> HashNamespace(p.ns)]
           type == [s \in services |-> TypeOf(s)]
           ids == {HashNamespace(p.ns) : p \in pods}
           types == {TypeOf(s) : s \in services}
<1>1. reader = "inventory" /\ AllAnswered /\ Payload = InventoryOf(seen)
  BY MadeOf DEF Made, Collecting
<1>2. Kinds(reader) = {"namespace", "pod", "deployment", "statefulSet", "replicaSet", "service"}
  BY <1>1, CollectorsList
<1>3. IsFiniteSet(pods) /\ IsFiniteSet(services) /\ IsFiniteSet(seen.namespace)
  BY <1>1, <1>2, CountOfTime DEF AllAnswered
<1>4. \A s \in services : s.type \in ServiceTypes \cup {"unset"}
  BY <1>1, <1>2, SeenListed DEF Listed, Collecting
<1>5. SumOf(PodCounts(pods).byNamespace) = Cardinality(pods)
  <2>1. ids = {id[p] : p \in pods}
    OBVIOUS
  <2>2. IsFiniteSet(ids)
    <3> HIDE DEF pods
    <3>1. IsFiniteSet({id[p] : p \in pods})
      BY <1>3, ValuesFinite
    <3> QED BY <3>1, <2>1
  <2>3. \A v : {p \in pods : id[p] = v} = {p \in pods : HashNamespace(p.ns) = v}
    OBVIOUS
  <2>4. [v \in ids |-> Cardinality({p \in pods : id[p] = v})]
          = [v \in ids |-> Cardinality({p \in pods : HashNamespace(p.ns) = v})]
    BY <2>3
  <2>5. SumOf([v \in ids |-> Cardinality({p \in pods : id[p] = v})]) = Cardinality(pods)
    <3>1. \A p \in pods : id[p] \in ids
      OBVIOUS
    <3> HIDE DEF pods, id, ids
    <3> QED BY <1>3, <2>2, <3>1, ClassesAddUp
  <2>6. PodCounts(pods).byNamespace = [v \in ids |-> Cardinality({p \in pods : HashNamespace(p.ns) = v})]
    BY DEF PodCounts, Tally
  <2> QED BY <2>4, <2>5, <2>6
<1>6. SumOf(ServiceCounts(services).byType) = Cardinality(services)
  <2>1. types \subseteq ServiceTypes
    BY <1>4 DEF TypeOf, ServiceTypes
  <2>2. IsFiniteSet(types)
    <3>1. types = {type[s] : s \in services}
      OBVIOUS
    <3> HIDE DEF services
    <3>2. IsFiniteSet({type[s] : s \in services})
      BY <1>3, ValuesFinite
    <3> QED BY <3>1, <3>2
  <2>3. \A v : {s \in services : type[s] = v} = {s \in services : TypeOf(s) = v}
    OBVIOUS
  <2>4. [v \in types |-> Cardinality({s \in services : type[s] = v})]
          = [v \in types |-> Cardinality({s \in services : TypeOf(s) = v})]
    BY <2>3
  <2>5. SumOf([v \in types |-> Cardinality({s \in services : type[s] = v})]) = Cardinality(services)
    <3>1. \A s \in services : type[s] \in types
      OBVIOUS
    <3> HIDE DEF services, type, types
    <3> QED BY <1>3, <2>2, <3>1, ClassesAddUp
  <2>6. types \cap ServiceTypes = types
    BY <2>1
  <2>7. ServiceCounts(services).byType = [v \in types |-> Cardinality({s \in services : TypeOf(s) = v})]
    BY <2>6 DEF ServiceCounts, Tally
  <2> QED BY <2>4, <2>5, <2>7
<1>7. Len(Namespaces(seen.namespace).list) = Cardinality(seen.namespace)
  BY <1>3, ArrayLengths
<1>8. Payload.resources.pods = PodCounts(pods) /\ Payload.resources.services = ServiceCounts(services)
      /\ Payload.namespaces = Namespaces(seen.namespace)
  BY <1>1 DEF InventoryOf
<1> QED BY <1>5, <1>6, <1>7, <1>8 DEF InventoryAddsUp, PodCounts, ServiceCounts, Namespaces

\* The elements of a tuple are finitely many.
LEMMA TupleFinite ==
    ASSUME NEW n \in Nat, NEW t, DOMAIN t = 1..n PROVE IsFiniteSet({t[i] : i \in 1..n})
<1>1. IsFiniteSet(1..n)
  BY FS_Interval
<1> QED BY <1>1, ValuesFinite

\* The settings, policies and types that are counted are finitely many.
LEMMA KeysFinite ==
    /\ IsFiniteSet(TriKeys) /\ IsFiniteSet({"set", "notSet"}) /\ IsFiniteSet(PolicyKeys)
    /\ IsFiniteSet(ProbeTypes) /\ IsFiniteSet(VolumeTypes) /\ IsFiniteSet(ServiceTypes)
<1>1. IsFiniteSet(TriKeys)
  <2> DEFINE t == <<"true", "false", "notSet">>
  <2>1. TriKeys = {t[i] : i \in 1..3} /\ DOMAIN t = 1..3
    BY DEF TriKeys
  <2> QED BY <2>1, TupleFinite
<1>2. IsFiniteSet({"set", "notSet"})
  <2> DEFINE t == <<"set", "notSet">>
  <2>1. {"set", "notSet"} = {t[i] : i \in 1..2} /\ DOMAIN t = 1..2
    OBVIOUS
  <2> HIDE DEF t
  <2>2. IsFiniteSet({t[i] : i \in 1..2})
    BY <2>1, TupleFinite
  <2> QED BY <2>1, <2>2
<1>3. IsFiniteSet(PolicyKeys)
  <2> DEFINE t == <<"Always", "IfNotPresent", "Never", "notSet">>
  <2>1. PolicyKeys = {t[i] : i \in 1..4} /\ DOMAIN t = 1..4
    BY DEF PolicyKeys, Policies
  <2> QED BY <2>1, TupleFinite
<1>4. IsFiniteSet(ProbeTypes)
  <2> DEFINE t == <<"http", "tcp", "exec", "grpc">>
  <2>1. ProbeTypes = {t[i] : i \in 1..4} /\ DOMAIN t = 1..4
    BY DEF ProbeTypes
  <2> QED BY <2>1, TupleFinite
<1>5. IsFiniteSet(VolumeTypes)
  <2> DEFINE t == <<"configMap", "secret", "emptyDir", "persistentVolumeClaim",
                    "hostPath", "downwardAPI", "projected", "other">>
  <2>1. VolumeTypes = {t[i] : i \in 1..8} /\ DOMAIN t = 1..8
    BY DEF VolumeTypes
  <2> QED BY <2>1, TupleFinite
<1>6. IsFiniteSet(ServiceTypes)
  <2> DEFINE t == <<"ClusterIP", "NodePort", "LoadBalancer", "ExternalName">>
  <2>1. ServiceTypes = {t[i] : i \in 1..4} /\ DOMAIN t = 1..4
    BY DEF ServiceTypes
  <2> QED BY <2>1, TupleFinite
<1> QED BY <1>1, <1>2, <1>3, <1>4, <1>5, <1>6

\* A count by a setting that each object has adds up to the objects.
LEMMA TallyAddsUp ==
    ASSUME NEW S, IsFiniteSet(S), NEW K, IsFiniteSet(K), NEW g, \A x \in S : g[x] \in K,
           NEW t, t = [v \in K |-> t[v]], \A v \in K : t[v] = Cardinality({x \in S : g[x] = v})
    PROVE  SumOf(t) = Cardinality(S)
<1>1. t = [v \in K |-> Cardinality({x \in S : g[x] = v})]
  OBVIOUS
<1> QED BY <1>1, ClassesAddUp

\* The counts of the settings of containers and pods.
LEMMA ContainersAddUp ==
    ASSUME NEW cs, IsFiniteSet(cs), \A c \in cs : It(c) \in ListedContainers,
           NEW pods, IsFiniteSet(pods), \A p \in pods : ListedPod(p)
    PROVE  /\ SumOf(ImagePullPolicy(cs).policies) = Cardinality(cs)
           /\ \A k \in {"runAsNonRoot", "readOnlyRootFilesystem", "allowPrivilegeEscalation"} :
                SumOf(SecurityContexts(pods, cs).containerLevel[k]) = Cardinality(cs)
           /\ \A k \in {"runAsNonRoot", "fsGroup"} :
                SumOf(SecurityContexts(pods, cs).podLevel[k]) = Cardinality(pods)
           /\ \A k \in {"cpuRequests", "cpuLimits", "memoryRequests", "memoryLimits"} :
                Len(ContainerResources(cs)[k]) = Cardinality(cs)
<1>1. SumOf(ImagePullPolicy(cs).policies) = Cardinality(cs)
  <2> DEFINE g == [c \in cs |-> IF It(c).policy \in Policies THEN It(c).policy ELSE "notSet"]
             t == ImagePullPolicy(cs).policies
  <2>1. t = [v \in PolicyKeys |-> Cardinality({c \in cs : (IF It(c).policy \in Policies THEN It(c).policy
                                                           ELSE "notSet") = v})]
    BY DEF ImagePullPolicy, Tally
  <2>2. \A v : {c \in cs : (IF It(c).policy \in Policies THEN It(c).policy ELSE "notSet") = v} = {c \in cs : g[c] = v}
    OBVIOUS
  <2>3. \A c \in cs : g[c] \in PolicyKeys
    BY DEF PolicyKeys
  <2> HIDE DEF g, t
  <2>4. t = [v \in PolicyKeys |-> t[v]] /\ \A v \in PolicyKeys : t[v] = Cardinality({c \in cs : g[c] = v})
    BY <2>1, <2>2
  <2> QED BY <2>3, <2>4, TallyAddsUp, KeysFinite DEF t
<1>2. ASSUME NEW k \in {"nonRoot", "readOnly", "escalation"}
      PROVE  SumOf([v \in TriKeys |-> Cardinality({c \in cs : It(c)[k] = v})]) = Cardinality(cs)
  <2> DEFINE g == [c \in cs |-> It(c)[k]]
             t == [v \in TriKeys |-> Cardinality({c \in cs : It(c)[k] = v})]
  <2>1. \A v : {c \in cs : It(c)[k] = v} = {c \in cs : g[c] = v}
    OBVIOUS
  <2>2. \A c \in cs : g[c] \in TriKeys
    BY DEF ListedContainers
  <2>3. t = [v \in TriKeys |-> t[v]] /\ \A v \in TriKeys : t[v] = Cardinality({c \in cs : g[c] = v})
    BY <2>1
  <2> HIDE DEF g, t
  <2>4. SumOf(t) = Cardinality(cs)
    BY <2>2, <2>3, TallyAddsUp, KeysFinite
  <2> QED BY <2>4 DEF t
<1>3. SumOf([v \in TriKeys |-> Cardinality({p \in pods : p.nonRoot = v})]) = Cardinality(pods)
  <2> DEFINE g == [p \in pods |-> p.nonRoot]
             t == [v \in TriKeys |-> Cardinality({p \in pods : p.nonRoot = v})]
  <2>1. \A v : {p \in pods : p.nonRoot = v} = {p \in pods : g[p] = v}
    OBVIOUS
  <2>2. \A p \in pods : g[p] \in TriKeys
    BY DEF ListedPod
  <2>3. t = [v \in TriKeys |-> t[v]] /\ \A v \in TriKeys : t[v] = Cardinality({p \in pods : g[p] = v})
    BY <2>1
  <2> HIDE DEF g, t
  <2>4. SumOf(t) = Cardinality(pods)
    BY <2>2, <2>3, TallyAddsUp, KeysFinite
  <2> QED BY <2>4 DEF t
<1>4. SumOf([v \in {"set", "notSet"} |-> Cardinality({p \in pods : p.fsGroup = v})]) = Cardinality(pods)
  <2> DEFINE K == {"set", "notSet"}
             g == [p \in pods |-> p.fsGroup]
             t == [v \in K |-> Cardinality({p \in pods : p.fsGroup = v})]
  <2>1. \A v : {p \in pods : p.fsGroup = v} = {p \in pods : g[p] = v}
    OBVIOUS
  <2>2. \A p \in pods : g[p] \in K
    BY DEF ListedPod
  <2>3. t = [v \in K |-> t[v]] /\ \A v \in K : t[v] = Cardinality({p \in pods : g[p] = v})
    BY <2>1
  <2>4. IsFiniteSet(K)
    BY KeysFinite
  <2> HIDE DEF g, K, t
  <2>5. SumOf(t) = Cardinality(pods)
    BY <2>2, <2>3, <2>4, TallyAddsUp
  <2> QED BY <2>5 DEF K, t
<1>5. /\ SecurityContexts(pods, cs).containerLevel.runAsNonRoot
             = [v \in TriKeys |-> Cardinality({c \in cs : It(c)["nonRoot"] = v})]
      /\ SecurityContexts(pods, cs).containerLevel.readOnlyRootFilesystem
             = [v \in TriKeys |-> Cardinality({c \in cs : It(c)["readOnly"] = v})]
      /\ SecurityContexts(pods, cs).containerLevel.allowPrivilegeEscalation
             = [v \in TriKeys |-> Cardinality({c \in cs : It(c)["escalation"] = v})]
      /\ SecurityContexts(pods, cs).podLevel.runAsNonRoot
             = [v \in TriKeys |-> Cardinality({p \in pods : p.nonRoot = v})]
      /\ SecurityContexts(pods, cs).podLevel.fsGroup
             = [v \in {"set", "notSet"} |-> Cardinality({p \in pods : p.fsGroup = v})]
  BY DEF SecurityContexts, Tally
<1>6. ASSUME NEW k \in {"cpuRequests", "cpuLimits", "memoryRequests", "memoryLimits"}
      PROVE  Len(ContainerResources(cs)[k]) = Cardinality(cs)
  <2>1. Len(SetToSeq(cs)) = Cardinality(cs) /\ Cardinality(cs) \in Nat
    BY ArrayOf
  <2>2. DOMAIN ContainerResources(cs)[k] = 1..Cardinality(cs)
    BY <2>1 DEF ContainerResources, Each
  <2> QED BY <2>1, <2>2, LengthIs
<1> QED BY <1>1, <1>2, <1>3, <1>4, <1>5, <1>6

\* The counts of one probe: the types and times are of probes that are there.
LEMMA ProbesAddUp ==
    ASSUME NEW cs, IsFiniteSet(cs), NEW name
    PROVE  LET p == ProbeConfig(cs, name)
           IN  /\ p.configured + p.notConfigured = Cardinality(cs)
               /\ SumOf(p.probeTypes) <= p.configured
               /\ Len(p.periodSeconds) <= p.configured
<1> DEFINE with == {c \in cs : It(c).probes[name].handler # "missing"}
           typed == {c \in cs : It(c).probes[name].handler \in ProbeTypes}
           timed == {c \in with : It(c).probes[name].period # NotSet}
           g == [c \in typed |-> It(c).probes[name].handler]
           t == ProbeConfig(cs, name).probeTypes
           p == ProbeConfig(cs, name)
<1>1. p.configured = Cardinality(with) /\ p.notConfigured = Cardinality(cs \ with)
  BY DEF ProbeConfig
<1>2. p.periodSeconds = Each(timed, LAMBDA c : It(c).probes[name].period)
  BY DEF ProbeConfig, Each
<1>3. t = [v \in ProbeTypes |-> Cardinality({c \in with : It(c).probes[name].handler = v})]
  BY DEF ProbeConfig, Tally
<1>4. \A v \in ProbeTypes : {c \in with : It(c).probes[name].handler = v} = {c \in typed : g[c] = v}
  BY DEF ProbeTypes
<1>5. \A c \in typed : g[c] \in ProbeTypes
  OBVIOUS
<1>6. typed \subseteq with
  BY DEF ProbeTypes
<1>7. with \subseteq cs /\ timed \subseteq with
  OBVIOUS
<1>8. DOMAIN Each(timed, LAMBDA c : It(c).probes[name].period) = 1..Len(SetToSeq(timed))
  BY DEF Each
<1> HIDE DEF with, typed, timed, g, t, p
<1>9. IsFiniteSet(with) /\ IsFiniteSet(typed) /\ IsFiniteSet(timed)
      /\ Cardinality(typed) <= Cardinality(with) /\ Cardinality(timed) <= Cardinality(with)
  BY <1>6, <1>7, FS_Subset
<1>10. Cardinality(with) + Cardinality(cs \ with) = Cardinality(cs)
  <2>1. with = cs \cap with
    BY <1>7
  <2>2. Cardinality(cs \ with) = Cardinality(cs) - Cardinality(cs \cap with)
    BY FS_Difference
  <2>3. Cardinality(cs) \in Nat /\ Cardinality(with) \in Nat
    BY <1>9, FS_CardinalityType
  <2> QED BY <2>1, <2>2, <2>3
<1>11. SumOf(t) = Cardinality(typed)
  <2>1. t = [v \in ProbeTypes |-> t[v]] /\ \A v \in ProbeTypes : t[v] = Cardinality({c \in typed : g[c] = v})
    BY <1>3, <1>4
  <2> QED BY <2>1, <1>5, <1>9, TallyAddsUp, KeysFinite
<1>12. Len(p.periodSeconds) = Cardinality(timed)
  BY <1>2, <1>8, <1>9, ArrayOf, LengthIs
<1> QED BY <1>1, <1>9, <1>10, <1>11, <1>12 DEF p, t

\* A service is of a known type.
LEMMA ServicesAddUp ==
    ASSUME NEW S, IsFiniteSet(S), \A s \in S : s.type \in ServiceTypes \cup {"unset"}
    PROVE  SumOf(Services(S).serviceTypes) = Cardinality(S)
<1> DEFINE g == [s \in S |-> TypeOf(s)]
           t == Services(S).serviceTypes
<1>1. t = [v \in ServiceTypes |-> Cardinality({s \in S : TypeOf(s) = v})]
  BY DEF Services, Tally
<1>2. \A v : {s \in S : TypeOf(s) = v} = {s \in S : g[s] = v}
  OBVIOUS
<1>3. \A s \in S : g[s] \in ServiceTypes
  BY DEF TypeOf, ServiceTypes
<1> HIDE DEF g, t
<1>4. t = [v \in ServiceTypes |-> t[v]] /\ \A v \in ServiceTypes : t[v] = Cardinality({s \in S : g[s] = v})
  BY <1>1, <1>2
<1>5. IsFiniteSet(ServiceTypes)
  BY KeysFinite
<1>6. SumOf(t) = Cardinality(S)
  BY <1>3, <1>4, <1>5, TallyAddsUp
<1> QED BY <1>6 DEF t

\* The volumes of the pods, by their types.
LEMMA VolumesAddUp ==
    ASSUME NEW pods, IsFiniteSet(PodVolumes(pods)),
           \A v \in PodVolumes(pods) : v.pod.volumes[v.at] \in VolumeTypes
    PROVE  SumOf(Volumes(pods).volumeTypes) = Cardinality(PodVolumes(pods))
<1> DEFINE vs == PodVolumes(pods)
           g == [v \in vs |-> v.pod.volumes[v.at]]
           t == Volumes(pods).volumeTypes
<1>1. t = [k \in VolumeTypes |-> Cardinality({v \in vs : v.pod.volumes[v.at] = k})]
  BY DEF Volumes, Tally
<1>2. \A k : {v \in vs : v.pod.volumes[v.at] = k} = {v \in vs : g[v] = k}
  OBVIOUS
<1>3. \A v \in vs : g[v] \in VolumeTypes
  OBVIOUS
<1> HIDE DEF g, t, vs
<1>4. t = [k \in VolumeTypes |-> t[k]] /\ \A k \in VolumeTypes : t[k] = Cardinality({v \in vs : g[v] = k})
  BY <1>1, <1>2
<1>5. SumOf(t) = Cardinality(vs)
  BY <1>3, <1>4, TallyAddsUp, KeysFinite DEF vs
<1> QED BY <1>5 DEF t, vs

\* Everything that the patterns count adds up.
LEMMA PatternsAdd ==
    ASSUME ReadInv, Made("patterns") PROVE PatternsAddUp
<1> DEFINE pods == seen.pod
           cs == Containers(seen.pod)
           vs == PodVolumes(seen.pod)
<1>1. reader = "patterns" /\ AllAnswered /\ Payload = PatternsOf(seen)
  BY MadeOf DEF Made, Collecting
<1>2. Kinds(reader) = {"pod", "deployment", "statefulSet", "daemonSet", "service"}
  BY <1>1, CollectorsList
<1>3. IsFiniteSet(seen.deployment) /\ IsFiniteSet(seen.service)
  BY <1>1, <1>2, CountOfTime DEF AllAnswered
<1>4. \A s \in seen.service : s.type \in ServiceTypes \cup {"unset"}
  BY <1>1, <1>2, SeenListed DEF Listed, Collecting
<1>5. /\ IsFiniteSet(pods) /\ IsFiniteSet(cs) /\ IsFiniteSet(vs)
      /\ \A p \in pods : ListedPod(p)
      /\ \A c \in cs : It(c) \in ListedContainers
      /\ \A v \in vs : v.pod.volumes[v.at] \in VolumeTypes
      /\ SumOf(Each(pods, LAMBDA p : Len(p.volumes))) = Cardinality(vs)
  BY <1>1, PodsOfPatterns
<1>6. /\ Payload.resourceLimitsRequests = ContainerResources(cs)
      /\ Payload.imagePullPolicies = ImagePullPolicy(cs)
      /\ Payload.securityContexts = SecurityContexts(pods, cs)
      /\ Payload.labelsAnnotations = LabelsAnnotations(seen)
      /\ Payload.volumes = Volumes(pods) /\ Payload.services = Services(seen.service)
      /\ Payload.probes = Probes(cs)
      /\ Payload.replicaCounts.deployments = ReplicasOf(seen.deployment)
  BY <1>1 DEF PatternsOf
<1>7. /\ Payload.resourceLimitsRequests.totalCount = Cardinality(cs)
      /\ Payload.imagePullPolicies.totalContainers = Cardinality(cs)
      /\ Payload.securityContexts.totalContainers = Cardinality(cs)
      /\ Payload.probes.totalContainers = Cardinality(cs)
      /\ Payload.securityContexts.totalPods = Cardinality(pods)
      /\ Payload.volumes.totalPods = Cardinality(pods)
      /\ Payload.services.totalServices = Cardinality(seen.service)
  <2> HIDE DEF pods, cs
  <2>1. ContainerResources(cs).totalCount = Cardinality(cs)
    BY DEF ContainerResources
  <2>2. ImagePullPolicy(cs).totalContainers = Cardinality(cs)
    BY DEF ImagePullPolicy
  <2>3. /\ SecurityContexts(pods, cs).totalContainers = Cardinality(cs)
        /\ SecurityContexts(pods, cs).totalPods = Cardinality(pods)
    BY DEF SecurityContexts
  <2>4. Probes(cs).totalContainers = Cardinality(cs)
    BY DEF Probes
  <2>5. Volumes(pods).totalPods = Cardinality(pods)
    BY DEF Volumes
  <2>6. Services(seen.service).totalServices = Cardinality(seen.service)
    BY DEF Services
  <2> QED BY <1>6, <2>1, <2>2, <2>3, <2>4, <2>5, <2>6
<1>8. /\ SumOf(Payload.imagePullPolicies.policies) = Cardinality(cs)
      /\ \A k \in {"runAsNonRoot", "readOnlyRootFilesystem", "allowPrivilegeEscalation"} :
           SumOf(Payload.securityContexts.containerLevel[k]) = Cardinality(cs)
      /\ \A k \in {"runAsNonRoot", "fsGroup"} :
           SumOf(Payload.securityContexts.podLevel[k]) = Cardinality(pods)
      /\ \A k \in {"cpuRequests", "cpuLimits", "memoryRequests", "memoryLimits"} :
           Len(Payload.resourceLimitsRequests[k]) = Cardinality(cs)
  <2> HIDE DEF pods, cs
  <2>1. /\ SumOf(ImagePullPolicy(cs).policies) = Cardinality(cs)
        /\ \A k \in {"runAsNonRoot", "readOnlyRootFilesystem", "allowPrivilegeEscalation"} :
             SumOf(SecurityContexts(pods, cs).containerLevel[k]) = Cardinality(cs)
        /\ \A k \in {"runAsNonRoot", "fsGroup"} :
             SumOf(SecurityContexts(pods, cs).podLevel[k]) = Cardinality(pods)
        /\ \A k \in {"cpuRequests", "cpuLimits", "memoryRequests", "memoryLimits"} :
             Len(ContainerResources(cs)[k]) = Cardinality(cs)
    BY <1>5, ContainersAddUp
  <2> QED BY <1>6, <2>1, Zenon
<1>9. \A k \in {"livenessProbes", "readinessProbes", "startupProbes"} :
        LET p == Payload.probes[k]
        IN  /\ p.configured + p.notConfigured = Cardinality(cs)
            /\ SumOf(p.probeTypes) <= p.configured
            /\ Len(p.periodSeconds) <= p.configured
  <2> TAKE k \in {"livenessProbes", "readinessProbes", "startupProbes"}
  <2>1. \E name : Payload.probes[k] = ProbeConfig(cs, name)
    BY <1>6 DEF Probes
  <2> HIDE DEF cs
  <2> QED BY <2>1, <1>5, ProbesAddUp
<1>10. SumOf(Payload.volumes.volumeTypes) = SumOf(Payload.volumes.volumesPerPod)
  <2>1. Payload.volumes.volumesPerPod = Each(pods, LAMBDA p : Len(p.volumes))
    BY <1>6 DEF Volumes, Each
  <2> QED BY <2>1, <1>5, <1>6, VolumesAddUp
<1>11. SumOf(Payload.services.serviceTypes) = Cardinality(seen.service)
  BY <1>3, <1>4, <1>6, ServicesAddUp
<1>12. Len(Payload.volumes.volumesPerPod) = Cardinality(pods)
  <2>1. DOMAIN Payload.volumes.volumesPerPod = 1..Len(SetToSeq(pods))
    BY <1>6 DEF Volumes, Each
  <2> HIDE DEF pods
  <2> QED BY <2>1, <1>5, ArrayOf, LengthIs
<1>13. /\ Len(Payload.labelsAnnotations.labelCounts.pods) = Cardinality(pods)
       /\ Len(Payload.labelsAnnotations.annotationCounts.pods) = Cardinality(pods)
       /\ Len(Payload.labelsAnnotations.labelCounts.services) = Cardinality(seen.service)
       /\ Len(Payload.labelsAnnotations.labelCounts.deployments) = Cardinality(seen.deployment)
  <2>1. /\ Payload.labelsAnnotations.labelCounts.pods = Each(pods, LAMBDA o : o.labels)
        /\ Payload.labelsAnnotations.annotationCounts.pods = Each(pods, LAMBDA o : o.annotations)
        /\ Payload.labelsAnnotations.labelCounts.services = Each(seen.service, LAMBDA o : o.labels)
        /\ Payload.labelsAnnotations.labelCounts.deployments = Each(seen.deployment, LAMBDA o : o.labels)
    BY <1>6 DEF LabelsAnnotations, Counted
  <2> QED BY <2>1, <1>3, <1>5, ArrayLengths
<1>14. Len(Payload.replicaCounts.deployments) <= Cardinality(seen.deployment)
  <2> DEFINE set == {o \in seen.deployment : o.replicas # NotSet}
  <2>1. DOMAIN ReplicasOf(seen.deployment) = 1..Len(SetToSeq(set))
    BY DEF ReplicasOf, Each
  <2>2. IsFiniteSet(set) /\ Cardinality(set) <= Cardinality(seen.deployment)
    BY <1>3, FS_Subset
  <2> HIDE DEF set
  <2>3. Len(ReplicasOf(seen.deployment)) = Cardinality(set)
    BY <2>1, <2>2, ArrayOf, LengthIs
  <2> QED BY <2>2, <2>3, <1>6
<1> HIDE DEF pods, cs, vs
<1> QED BY <1>7, <1>8, <1>9, <1>10, <1>11, <1>12, <1>13, <1>14 DEF PatternsAddUp

\* The numbers of one payload agree with each other, whatever the objects of
\* the cluster are.
THEOREM TotalsTheorem == Spec => []TotalsAgree
<1>1. ReadInv => TotalsAgree
  BY InventoryAdds, PatternsAdd DEF TotalsAgree
<1> QED BY <1>1, ReadInvariance, PTL

-----------------------------------------------------------------------------
(* What the checks say of the time of their read.                          *)

\* The kinds that the checks list.
LEMMA ChecksList ==
    ASSUME NEW r \in Known
    PROVE  /\ r \in {"replicaCounts", "spread", "secrets"} => Kinds(r) = {"deployment", "statefulSet"}
           /\ r \in {"requests", "limits", "probes", "overProvisioning", "ratios"} =>
                Kinds(r) = {"deployment", "statefulSet", "daemonSet"}
           /\ r = "budgets" => Kinds(r) = {"deployment", "statefulSet", "pdb"}
           /\ r = "hpa" => Kinds(r) = {"deployment", "statefulSet", "hpa"}
           /\ r = "vpa" => Kinds(r) = {"crd", "deployment", "statefulSet", "vpa"}
           /\ r = "spot" => Kinds(r) = {"deployment", "statefulSet", "node"}
           /\ r \in {"placement", "efficiency"} =>
                Kinds(r) = {"deployment", "statefulSet", "daemonSet", "node"}
           /\ r = "governance" =>
                Kinds(r) = {"deployment", "statefulSet", "daemonSet", "quota", "limitRange", "namespace"}
           /\ r = "backup" => Kinds(r) = {"crd", "deployment"}
           /\ r = "clusterAdmin" => Kinds(r) = {"clusterRoleBinding", "roleBinding"}
           /\ r = "wildcards" => Kinds(r) = {"clusterRole", "role"}
           /\ r = "configMaps" => Kinds(r) = {"configMap"}
           /\ r = "externalSecrets" => Kinds(r) = {"crd"}
           /\ r \in PodChecks => Kinds(r) = {"pod"}
           /\ r \in OperatorChecks \cup {"consolidation"} => Kinds(r) = {"deployment"}
<1>1. ASSUME NEW a, Stages(r) = <<a>> PROVE Kinds(r) = a
  BY <1>1 DEF Kinds
<1>2. ASSUME NEW a, NEW b, Stages(r) = <<a, b>> PROVE Kinds(r) = a \cup b
  <2>1. DOMAIN Stages(r) = {1, 2}
    BY <1>2
  <2> QED BY <1>2, <2>1 DEF Kinds
<1>3. r \in DOMAIN CheckKinds \ {"vpa"} => Kinds(r) = CheckKinds[r]
  BY <1>1, StagesAre
<1>4. /\ r = "vpa" => Kinds(r) = {"crd", "deployment", "statefulSet", "vpa"}
      /\ r = "secrets" => Kinds(r) = {"deployment", "statefulSet"}
  BY <1>2, StagesAre
<1>5. /\ r = "externalSecrets" => Kinds(r) = {"crd"}
      /\ r \in PodChecks => Kinds(r) = {"pod"}
      /\ r \in OperatorChecks \cup {"consolidation"} => Kinds(r) = {"deployment"}
  BY <1>1, StagesAre
<1>6. /\ r \in {"replicaCounts", "spread"} => Kinds(r) = {"deployment", "statefulSet"}
      /\ r \in {"requests", "limits", "probes", "overProvisioning", "ratios"} =>
                Kinds(r) = {"deployment", "statefulSet", "daemonSet"}
      /\ r = "budgets" => Kinds(r) = {"deployment", "statefulSet", "pdb"}
      /\ r = "hpa" => Kinds(r) = {"deployment", "statefulSet", "hpa"}
      /\ r = "spot" => Kinds(r) = {"deployment", "statefulSet", "node"}
  BY <1>3 DEF CheckKinds
<1>7. /\ r \in {"placement", "efficiency"} =>
                Kinds(r) = {"deployment", "statefulSet", "daemonSet", "node"}
      /\ r = "governance" =>
           Kinds(r) = {"deployment", "statefulSet", "daemonSet", "quota", "limitRange", "namespace"}
      /\ r = "backup" => Kinds(r) = {"crd", "deployment"}
      /\ r = "clusterAdmin" => Kinds(r) = {"clusterRoleBinding", "roleBinding"}
      /\ r = "wildcards" => Kinds(r) = {"clusterRole", "role"}
      /\ r = "configMaps" => Kinds(r) = {"configMap"}
  BY <1>3 DEF CheckKinds
<1> QED BY <1>4, <1>5, <1>6, <1>7

\* An answer lies between what was there throughout the read and what was
\* there at some time of it.
LEMMA AnswersBetween ==
    ASSUME ReadInv, AllAnswered
    PROVE  /\ reader \in Readers /\ reader \in Known
           /\ \A o \in throughout : o.kind \in Kinds(reader) /\ o \in seen[o.kind] /\ o \in ever
           /\ \A k \in Kinds(reader) : \A o \in seen[k] : o \in ever /\ o.kind = k
           /\ \A o \in ever : Fits(reader, o)
           /\ IsFiniteSet(ever) /\ \A k \in Kinds(reader) : IsFiniteSet(seen[k]) /\ OnePerName(seen[k])
<1>1. reader \in Readers /\ reader \in Known
  BY ReadersAre DEF ReadInv, StateOK
<1>2. throughout \subseteq ever /\ ever \subseteq Catalog[reader]
  BY DEF ReadInv, ClusterOK
<1>3. \A o \in ever : o.kind \in Kinds(reader) /\ Fits(reader, o)
  BY <1>1, <1>2, CatalogAssumption
<1>4. \A o \in throughout : o \in Steady({o.kind})
  BY DEF Steady
<1>5. \A o \in throughout : o.kind \in Kinds(reader) /\ o \in seen[o.kind]
  BY <1>2, <1>3, <1>4 DEF AllAnswered, Answered
<1>6. \A k \in Kinds(reader) : \A o \in seen[k] : o \in ever /\ o.kind = k
  BY DEF ReadInv, AnswersOK, Sometime
<1>7. IsFiniteSet(ever)
  BY <1>1, <1>2, CatalogAssumption, FS_Subset
<1>8. \A k \in Kinds(reader) : IsFiniteSet(seen[k]) /\ OnePerName(seen[k])
  BY CountOfTime DEF AllAnswered, ReadInv, AnswersOK
<1> QED BY <1>1, <1>2, <1>3, <1>5, <1>6, <1>7, <1>8

\* The status of a check is its worst level.
LEMMA WorstIs ==
    ASSUME NEW F
    PROVE  /\ Worst(F) \in {"passing", "warning", "failing"}
           /\ Worst(F) = "failing" <=> \E f \in F : f.level = "failing"
           /\ Worst(F) = "warning" <=> Levels(F) = {"warning"}
<1>1. "failing" \in Levels(F) => Levels(F) # {"warning"}
  OBVIOUS
<1>2. "failing" \in Levels(F) <=> \E f \in F : f.level = "failing"
  BY DEF Levels
<1> QED BY <1>1, <1>2 DEF Worst

\* Findings of one level about the objects of a set.
LEMMA FindingsAre ==
    ASSUME NEW level, NEW S
    PROVE  /\ \A f \in Findings(level, S) : f.level = level /\ f.about \in S
           /\ \A o \in S : \E f \in Findings(level, S) : f.level = level /\ f.about = o
           /\ S = {} => Findings(level, S) = {}
           /\ {f.about : f \in Findings(level, S)} = S
<1>1. \A o : Finding(level, o).level = level /\ Finding(level, o).about = o
  BY DEF Finding
<1> QED BY <1>1 DEF Findings

\* The verdict of a check that neither throws nor is skipped.
LEMMA VerdictOf ==
    ASSUME ReadInv, phase = "done", reader \notin Collecting,
           result.outcome \in {"passing", "warning", "failing"}
    PROVE  /\ AllAnswered /\ ~Skips(reader, seen)
           /\ result.data = Judge(reader, seen) /\ result.outcome = Worst(Judge(reader, seen))
<1>1. Errs \/ NotDefined \/ (AllAnswered /\ (MetadataMade \/ InventoryMade \/ PatternsMade \/ Verdict))
  BY DEF ReadInv, ResultOK
<1>2. ~Errs /\ ~NotDefined
  BY DEF Errs, NotDefined
<1>3. AllAnswered /\ Verdict
  BY <1>1, <1>2 DEF MetadataMade, InventoryMade, PatternsMade, Collecting
<1>4. ~Skips(reader, seen)
  BY <1>3 DEF Verdict
<1>5. result = [outcome |-> Worst(Judge(reader, seen)), data |-> Judge(reader, seen)]
  BY <1>3, <1>4, Zenon DEF Verdict
<1> QED BY <1>3, <1>4, <1>5

About(F) == {f.about : f \in F}

\* A check whose findings are of one level, or of two, passes without any.
LEMMA OneLevel ==
    ASSUME NEW level \in {"failing", "warning"}, NEW S
    PROVE  /\ Worst(Findings(level, S)) = "passing" <=> S = {}
           /\ About(Findings(level, S)) = S
<1> DEFINE F == Findings(level, S)
<1>1. /\ \A f \in F : f.level = level /\ f.about \in S
      /\ \A o \in S : \E f \in F : f.level = level /\ f.about = o
      /\ S = {} => F = {}
  BY FindingsAre
<1> HIDE DEF F
<1>2. S = {} => Levels(F) = {}
  BY <1>1 DEF Levels
<1>3. S # {} => Levels(F) = {level}
  BY <1>1 DEF Levels
<1>4. Worst(F) = "passing" <=> S = {}
  BY <1>2, <1>3 DEF Worst
<1>5. About(F) = S
  BY <1>1 DEF About
<1> QED BY <1>4, <1>5 DEF F

\* A check with findings of either level passes without any.
LEMMA TwoLevels ==
    ASSUME NEW F, \A f \in F : f.level \in {"failing", "warning"}
    PROVE  Worst(F) = "passing" <=> F = {}
<1>1. F = {} => Levels(F) = {}
  BY DEF Levels
<1>2. F # {} => Levels(F) \in {{"failing"}, {"warning"}, {"failing", "warning"}}
  BY DEF Levels
<1> QED BY <1>1, <1>2 DEF Worst

\* The workloads of an answer lie between those that were there throughout
\* the read and those that were there at some time of it.
LEMMA WorkloadsBetween ==
    ASSUME ReadInv, AllAnswered
    PROVE  /\ {"deployment", "statefulSet"} \subseteq Kinds(reader) =>
                ScalableObjects(throughout) \subseteq Scalable(seen)
                  /\ Scalable(seen) \subseteq ScalableObjects(ever)
                  /\ IsFiniteSet(Scalable(seen))
           /\ {"deployment", "statefulSet", "daemonSet"} \subseteq Kinds(reader) =>
                WorkloadObjects(throughout) \subseteq Workloads(seen)
                  /\ Workloads(seen) \subseteq WorkloadObjects(ever)
                  /\ IsFiniteSet(Workloads(seen))
           /\ ScalableObjects(ever) \subseteq WorkloadObjects(ever) /\ WorkloadObjects(ever) \subseteq ever
           /\ reader \notin Collecting \cup OperatorChecks \cup {"backup", "secrets"} =>
                \A w \in WorkloadObjects(ever) : ComputedWorkload(w)
<1>1. /\ \A o \in throughout : o.kind \in Kinds(reader) /\ o \in seen[o.kind] /\ o \in ever
      /\ \A k \in Kinds(reader) : \A o \in seen[k] : o \in ever /\ o.kind = k
      /\ \A o \in ever : Fits(reader, o)
      /\ \A k \in Kinds(reader) : IsFiniteSet(seen[k])
  BY AnswersBetween
<1>2. ASSUME {"deployment", "statefulSet"} \subseteq Kinds(reader)
      PROVE  /\ ScalableObjects(throughout) \subseteq Scalable(seen)
             /\ Scalable(seen) \subseteq ScalableObjects(ever)
             /\ IsFiniteSet(Scalable(seen))
  BY <1>1, <1>2, FS_Union DEF ScalableObjects, Scalable, ScalableKinds
<1>3. ASSUME {"deployment", "statefulSet", "daemonSet"} \subseteq Kinds(reader)
      PROVE  /\ WorkloadObjects(throughout) \subseteq Workloads(seen)
             /\ Workloads(seen) \subseteq WorkloadObjects(ever)
             /\ IsFiniteSet(Workloads(seen))
  <2>1. IsFiniteSet(Workloads(seen))
    BY <1>1, <1>2, <1>3, FS_Union DEF Workloads
  <2> QED BY <1>1, <1>3, <2>1 DEF WorkloadObjects, Workloads, Scalable, ScalableKinds
<1>4. ScalableObjects(ever) \subseteq WorkloadObjects(ever) /\ WorkloadObjects(ever) \subseteq ever
  BY DEF ScalableObjects, WorkloadObjects
<1>5. ASSUME reader \notin Collecting \cup OperatorChecks \cup {"backup", "secrets"}
      PROVE  \A w \in WorkloadObjects(ever) : ComputedWorkload(w)
  BY <1>1, <1>5 DEF WorkloadObjects, ScalableKinds, Fits
<1> QED BY <1>2, <1>3, <1>4, <1>5

\* Replica counts and spread.
LEMMA ReplicaCountsSound ==
    ASSUME ReadInv, AllAnswered, reader = "replicaCounts"
    PROVE  /\ Worst(ReplicaCounts(seen)) = "passing" =>
                \A w \in ScalableObjects(throughout) : HaRelevant(w) => w.replicas >= MinHaReplicas
           /\ About(ReplicaCounts(seen)) \subseteq WorkloadObjects(ever)
<1> DEFINE S == {w \in Scalable(seen) : HaRelevant(w) /\ ReplicasOr(w, 1) < MinHaReplicas}
<1>1. Kinds(reader) = {"deployment", "statefulSet"}
  BY AnswersBetween, ChecksList
<1>2. /\ ScalableObjects(throughout) \subseteq Scalable(seen) /\ Scalable(seen) \subseteq WorkloadObjects(ever)
      /\ \A w \in Scalable(seen) : w.replicas \in Amount
  BY <1>1, WorkloadsBetween DEF Collecting, OperatorChecks, ComputedWorkload
<1>3. (Worst(ReplicaCounts(seen)) = "passing" <=> S = {}) /\ About(ReplicaCounts(seen)) = S
  BY OneLevel DEF ReplicaCounts
<1>4. ASSUME S = {}, NEW w \in Scalable(seen), HaRelevant(w) PROVE w.replicas >= MinHaReplicas
  <2>1. ~(ReplicasOr(w, 1) < MinHaReplicas)
    BY <1>4
  <2>2. w.replicas \in Nat \cup {-1}
    BY <1>2 DEF Amount, None
  <2> QED BY <2>1, <2>2 DEF ReplicasOr, MinHaReplicas, None
<1> QED BY <1>2, <1>3, <1>4

\* Spread of replicated workloads.
LEMMA SpreadSound ==
    ASSUME ReadInv, AllAnswered, reader = "spread"
    PROVE  /\ Worst(SpreadAntiAffinity(seen)) = "passing" =>
                \A w \in ScalableObjects(throughout) :
                  HaRelevant(w) /\ ReplicasOr(w, 1) >= 2 => HasSpread(w)
           /\ About(SpreadAntiAffinity(seen)) \subseteq WorkloadObjects(ever)
<1> DEFINE S == {w \in Replicated(seen) : ~HasSpread(w)}
<1>1. Kinds(reader) = {"deployment", "statefulSet"}
  BY AnswersBetween, ChecksList
<1>2. ScalableObjects(throughout) \subseteq Scalable(seen) /\ Scalable(seen) \subseteq WorkloadObjects(ever)
  BY <1>1, WorkloadsBetween
<1>3. (Worst(SpreadAntiAffinity(seen)) = "passing" <=> S = {}) /\ About(SpreadAntiAffinity(seen)) = S
  BY OneLevel DEF SpreadAntiAffinity
<1> QED BY <1>2, <1>3 DEF Replicated

\* A budget that covers a workload guards its pods, and one of plain labels
\* that guards them covers it.
LEMMA CoversGuards ==
    ASSUME NEW p, NEW w
    PROVE  /\ Covers(p, w) => Guards(p, w)
           /\ DOMAIN p.labels # {} /\ p.exprs = {} /\ Guards(p, w) => Covers(p, w)
<1>1. ASSUME Covers(p, w), NEW e \in p.exprs
      PROVE  LET value == {w.podLabels[k] : k \in DOMAIN w.podLabels \cap {e.key}}
             IN  CASE e.op = "In"     -> value \cap e.values # {}
                   [] e.op = "NotIn"  -> value \cap e.values = {}
                   [] e.op = "Exists" -> value # {}
                   [] OTHER           -> value = {}
  <2> DEFINE value == {w.podLabels[k] : k \in DOMAIN w.podLabels \cap {e.key}}
  <2>1. e.key \in DOMAIN w.podLabels => value = {w.podLabels[e.key]}
    OBVIOUS
  <2>2. e.key \notin DOMAIN w.podLabels => value = {}
    OBVIOUS
  <2>3. Satisfies(w.podLabels, e)
    BY <1>1 DEF Covers
  <2> HIDE DEF value
  <2>4. CASE e.op = "In"
    BY <2>1, <2>2, <2>3, <2>4 DEF Satisfies
  <2>5. CASE e.op = "NotIn"
    BY <2>1, <2>2, <2>3, <2>5 DEF Satisfies
  <2>6. CASE e.op = "Exists"
    BY <2>1, <2>2, <2>3, <2>6 DEF Satisfies
  <2>7. CASE e.op \notin {"In", "NotIn", "Exists"}
    BY <2>1, <2>2, <2>3, <2>7 DEF Satisfies
  <2> QED BY <2>4, <2>5, <2>6, <2>7 DEF value
<1>2. Covers(p, w) => Guards(p, w)
  BY <1>1 DEF Covers, Guards, LabelsMatch
<1>3. DOMAIN p.labels # {} /\ p.exprs = {} /\ Guards(p, w) => Covers(p, w)
  BY DEF Covers, Guards, LabelsMatch
<1> QED BY <1>2, <1>3

\* Disruption budgets.
LEMMA BudgetsSound ==
    ASSUME ReadInv, AllAnswered, reader = "budgets"
    PROVE  /\ Worst(PodDisruptionBudgets(seen)) = "passing" =>
                \A w \in ScalableObjects(throughout) :
                  HaRelevant(w) /\ ReplicasOr(w, 1) >= 2 => \E p \in Sometime({"pdb"}) : Guards(p, w)
           /\ About(PodDisruptionBudgets(seen)) \subseteq WorkloadObjects(ever)
           /\ \A w \in About(PodDisruptionBudgets(seen)), p \in Steady({"pdb"}) :
                ~(DOMAIN p.labels # {} /\ p.exprs = {} /\ Guards(p, w))
<1> DEFINE S == {w \in Replicated(seen) : \A p \in seen.pdb : ~Covers(p, w)}
<1>1. Kinds(reader) = {"deployment", "statefulSet", "pdb"}
  BY AnswersBetween, ChecksList
<1>2. ScalableObjects(throughout) \subseteq Scalable(seen) /\ Scalable(seen) \subseteq WorkloadObjects(ever)
  BY <1>1, WorkloadsBetween
<1>3. Steady({"pdb"}) \subseteq seen.pdb /\ seen.pdb \subseteq Sometime({"pdb"})
  BY <1>1 DEF AllAnswered, Answered, ReadInv, AnswersOK
<1>4. (Worst(PodDisruptionBudgets(seen)) = "passing" <=> S = {}) /\ About(PodDisruptionBudgets(seen)) = S
  BY OneLevel DEF PodDisruptionBudgets
<1> QED BY <1>2, <1>3, <1>4, CoversGuards DEF Replicated

\* Requests, limits and probes.
LEMMA ContainerChecksSound ==
    ASSUME ReadInv, AllAnswered, reader \in {"requests", "limits", "probes"}
    PROVE  /\ reader = "requests" /\ Worst(ResourceRequests(seen)) = "passing" =>
                \A w \in WorkloadObjects(throughout) : ResourceRelevant(w) => ~LacksRequests(w)
           /\ reader = "limits" /\ Worst(ResourceLimits(seen)) = "passing" =>
                \A w \in WorkloadObjects(throughout) : ResourceRelevant(w) => ~LacksLimits(w)
           /\ reader = "probes" /\ Worst(LivenessReadinessProbes(seen)) = "passing" =>
                \A w \in WorkloadObjects(throughout) : ProbeRelevant(w) =>
                  \A c \in Range(w.containers) : HasProbe(c.liveness) /\ HasProbe(c.readiness)
           /\ About(ResourceRequests(seen)) \cup About(ResourceLimits(seen))
                \cup About(LivenessReadinessProbes(seen)) \subseteq WorkloadObjects(ever)
<1> DEFINE R == {w \in Workloads(seen) : ResourceRelevant(w) /\ LacksRequests(w)}
           L == {w \in Workloads(seen) : ResourceRelevant(w) /\ LacksLimits(w)}
           P == {w \in Workloads(seen) : ProbeRelevant(w) /\ \E c \in Range(w.containers) : ProbeViolation(c)}
<1>1. Kinds(reader) = {"deployment", "statefulSet", "daemonSet"}
  BY AnswersBetween, ChecksList
<1>2. WorkloadObjects(throughout) \subseteq Workloads(seen) /\ Workloads(seen) \subseteq WorkloadObjects(ever)
  BY <1>1, WorkloadsBetween
<1>3. (Worst(ResourceRequests(seen)) = "passing" <=> R = {}) /\ About(ResourceRequests(seen)) = R
  BY OneLevel DEF ResourceRequests
<1>4. (Worst(ResourceLimits(seen)) = "passing" <=> L = {}) /\ About(ResourceLimits(seen)) = L
  BY OneLevel DEF ResourceLimits
<1>5. (Worst(LivenessReadinessProbes(seen)) = "passing" <=> P = {}) /\ About(LivenessReadinessProbes(seen)) = P
  BY OneLevel DEF LivenessReadinessProbes
<1>6. \A c : ~ProbeViolation(c) => HasProbe(c.liveness) /\ HasProbe(c.readiness)
  BY DEF ProbeViolation
<1> QED BY <1>2, <1>3, <1>4, <1>5, <1>6

\* The targets of autoscalers: a workload that a target names is one of the
\* keys, and a key names a workload that was there at some time.
LEMMA TargetsBetween ==
    ASSUME ReadInv, AllAnswered, reader \in {"hpa", "vpa"}
    PROVE  /\ ScalableKeys(seen) \subseteq {Key(w) : w \in ScalableObjects(ever)}
           /\ \A a : Target(a) \in ScalableKeys(seen) => Resolves(a, ever)
           /\ \A a : InScope(a) /\ Resolves(a, throughout) =>
                HasTarget(a) /\ a.targetKind \in ScalableKinds /\ Target(a) \in ScalableKeys(seen)
<1>1. {"deployment", "statefulSet"} \subseteq Kinds(reader)
  BY AnswersBetween, ChecksList
<1>2. /\ ScalableObjects(throughout) \subseteq Scalable(seen) /\ Scalable(seen) \subseteq ScalableObjects(ever)
      /\ \A w \in Scalable(seen) : w.name # "none"
  BY <1>1, WorkloadsBetween DEF Collecting, OperatorChecks, ComputedWorkload
<1>3. \A w \in Scalable(seen) : InScope(w) => Key(w) \in ScalableKeys(seen)
  BY DEF ScalableKeys
<1>4. ASSUME NEW key \in ScalableKeys(seen)
      PROVE  \E w \in Scalable(seen) : key = Key(w)
  BY DEF ScalableKeys
<1>5. ASSUME NEW a, Target(a) \in ScalableKeys(seen) PROVE Resolves(a, ever)
  <2>1. PICK w \in Scalable(seen) : Target(a) = Key(w)
    BY <1>4, <1>5
  <2>2. a.ns = w.ns /\ a.targetKind = w.kind /\ a.targetName = w.name
    BY <2>1 DEF Target, Key
  <2> QED BY <1>2, <2>2 DEF Resolves
<1>6. ASSUME NEW a, InScope(a), Resolves(a, throughout)
      PROVE  HasTarget(a) /\ a.targetKind \in ScalableKinds /\ Target(a) \in ScalableKeys(seen)
  <2>1. PICK w \in ScalableObjects(throughout) : w.ns = a.ns /\ w.kind = a.targetKind /\ w.name = a.targetName
    BY <1>6 DEF Resolves
  <2>2. w \in Scalable(seen) /\ w.kind \in ScalableKinds /\ InScope(w)
    BY <1>2, <1>6, <2>1 DEF ScalableObjects, InScope
  <2>3. Target(a) = Key(w)
    BY <2>1 DEF Target, Key
  <2> QED BY <1>2, <1>3, <2>1, <2>2, <2>3 DEF HasTarget, ScalableKinds
<1> QED BY <1>2, <1>4, <1>5, <1>6

\* The numbers of an autoscaler that is not invalid make sense, and those of
\* an invalid one with a target do not.
LEMMA HpaNumbersOf ==
    ASSUME NEW h, {h.min, h.max} \subseteq Amount, NEW keys
    PROVE  /\ ~HpaInvalid(h, keys) => HpaNumbers(h) /\ Target(h) \in keys
           /\ HpaInvalid(h, keys) /\ HasTarget(h) /\ h.targetKind \in ScalableKinds
                /\ Target(h) \in keys => ~HpaNumbers(h)
<1>1. h.min \in Nat \cup {-1} /\ h.max \in Nat \cup {-1}
  BY DEF Amount, None
<1> QED BY <1>1 DEF HpaInvalid, HpaNumbers, None

\* Horizontal autoscalers: what they point at and the numbers they have.
LEMMA HpaSound ==
    ASSUME ReadInv, AllAnswered, reader = "hpa", NEW F, F = HpaSanity(seen)
    PROVE  /\ Worst(F) = "passing" =>
                \A h \in Steady({"hpa"}) : InScope(h) => Resolves(h, ever) /\ HpaNumbers(h)
           /\ Worst(F) = "failing" =>
                \A h \in About(F) : h \in ever /\ ~(Resolves(h, throughout) /\ HpaNumbers(h))
           /\ Worst(F) = "warning" =>
                /\ About(F) \subseteq {Key(w) : w \in ScalableObjects(ever)}
                /\ \A h \in Steady({"hpa"}) : InScope(h) => Target(h) \notin About(F)
<1> DEFINE keys == ScalableKeys(seen)
           hpas == {h \in seen.hpa : InScope(h)}
           covered == {Target(h) : h \in hpas} \cap keys
           bad == {h \in hpas : HpaInvalid(h, keys)}
<1>1. Kinds(reader) = {"deployment", "statefulSet", "hpa"}
  BY AnswersBetween, ChecksList
<1>2. /\ Steady({"hpa"}) \subseteq seen.hpa
      /\ \A h \in seen.hpa : h \in ever /\ {h.min, h.max} \subseteq Amount
  <2>1. Steady({"hpa"}) \subseteq seen.hpa
    BY <1>1 DEF AllAnswered, Answered
  <2>2. \A h \in seen.hpa : h \in ever /\ h.kind = "hpa" /\ Fits(reader, h)
    BY <1>1, AnswersBetween
  <2> QED BY <2>1, <2>2 DEF Fits
<1>3. F = Findings("failing", bad) \/ (F = Findings("warning", keys \ covered) /\ bad = {})
  <2>1. F = IF seen.hpa = {} THEN Findings("warning", keys)
            ELSE IF Findings("failing", bad) = {} /\ 2 * Cardinality(covered) < Cardinality(keys)
                 THEN Findings("warning", keys \ covered) ELSE Findings("failing", bad)
    BY Zenon DEF HpaSanity
  <2>2. seen.hpa = {} => bad = {} /\ keys = keys \ covered
    OBVIOUS
  <2> HIDE DEF keys, hpas, covered, bad
  <2>3. Findings("failing", bad) = {} => bad = {}
    BY FindingsAre
  <2> QED BY <2>1, <2>2, <2>3
<1>4. \A h \in hpas : Target(h) \notin keys \ covered
  OBVIOUS
<1>5. \A h \in hpas : ~HpaInvalid(h, keys) => Resolves(h, ever) /\ HpaNumbers(h)
  BY <1>2, HpaNumbersOf, TargetsBetween
<1>6. \A h \in bad : h \in ever /\ ~(Resolves(h, throughout) /\ HpaNumbers(h))
  BY <1>2, HpaNumbersOf, TargetsBetween
<1>7. keys \subseteq {Key(w) : w \in ScalableObjects(ever)}
  BY TargetsBetween
<1>8. \A h \in Steady({"hpa"}) : InScope(h) => h \in hpas
  BY <1>2
<1>9. seen.hpa = {} => hpas = {}
  OBVIOUS
<1>10. \A h \in hpas : h \in bad \/ ~HpaInvalid(h, keys)
  OBVIOUS
<1> HIDE DEF keys, hpas, covered, bad
<1>11. CASE F = Findings("failing", bad)
  <2>1. (Worst(F) = "passing" <=> bad = {}) /\ About(F) = bad /\ Worst(F) # "warning"
    BY <1>11, OneLevel, FindingsAre, WorstIs DEF Levels
  <2> QED BY <2>1, <1>5, <1>6, <1>8, <1>10
<1>12. CASE F = Findings("warning", keys \ covered) /\ bad = {}
  <2>1. About(F) = keys \ covered /\ Worst(F) # "failing"
    BY <1>12, OneLevel, FindingsAre, WorstIs
  <2> QED BY <2>1, <1>4, <1>5, <1>7, <1>8, <1>10, <1>12
<1> QED BY <1>3, <1>11, <1>12

\* The VPA check.
LEMMA VpaSound ==
    ASSUME ReadInv, AllAnswered, reader = "vpa", NEW F, F = VpaSanity(seen)
    PROVE  /\ Worst(F) = "passing" => \A v \in Steady({"vpa"}) : InScope(v) => Resolves(v, ever)
           /\ Worst(F) = "failing" =>
                \A v \in About(F) : v \in ever /\ ~(Resolves(v, throughout) /\ v.mode \in UpdateModes)
<1> DEFINE keys == ScalableKeys(seen)
           vpas == {v \in seen.vpa : InScope(v)}
           bad == {v \in vpas : VpaInvalid(v, keys)}
<1>1. Kinds(reader) = {"crd", "deployment", "statefulSet", "vpa"}
  BY AnswersBetween, ChecksList
<1>2. Steady({"vpa"}) \subseteq seen.vpa /\ \A v \in seen.vpa : v \in ever
  BY <1>1, AnswersBetween DEF AllAnswered, Answered
<1>3. \/ F = Findings("failing", bad)
      \/ F = {} /\ bad = {}
      \/ \E S : S # {} /\ F = Findings("warning", S)
  <2>1. CASE seen.vpa = {}
    <3>1. F = Findings("warning", {"no VPA"})
      BY <2>1 DEF VpaSanity, Findings
    <3> QED BY <3>1
  <2>2. CASE seen.vpa # {} /\ bad # {}
    BY <2>2, Zenon DEF VpaSanity
  <2>3. CASE seen.vpa # {} /\ bad = {} /\ vpas # {} /\ \A v \in vpas : v.mode = "Off"
    <3>1. F = Findings("warning", vpas)
      BY <2>3 DEF VpaSanity
    <3> QED BY <2>3, <3>1
  <2>4. CASE seen.vpa # {} /\ bad = {} /\ ~(vpas # {} /\ \A v \in vpas : v.mode = "Off")
    <3>1. F = {}
      BY <2>4 DEF VpaSanity
    <3> QED BY <2>4, <3>1
  <2> QED BY <2>1, <2>2, <2>3, <2>4
<1>4. \A v \in vpas : v \in bad \/ Resolves(v, ever)
  BY TargetsBetween DEF VpaInvalid
<1>5. \A v \in bad : v \in ever /\ ~(Resolves(v, throughout) /\ v.mode \in UpdateModes)
  BY <1>2, TargetsBetween DEF VpaInvalid
<1>6. \A v \in Steady({"vpa"}) : InScope(v) => v \in vpas
  BY <1>2
<1> HIDE DEF keys, vpas, bad
<1>7. CASE F = Findings("failing", bad)
  <2>1. (Worst(F) = "passing" <=> bad = {}) /\ About(F) = bad
    BY <1>7, OneLevel
  <2> QED BY <2>1, <1>4, <1>5, <1>6
<1>8. CASE F = {} /\ bad = {}
  BY <1>4, <1>6, <1>8 DEF About
<1>9. CASE \E S : S # {} /\ F = Findings("warning", S)
  <2>1. Worst(F) # "passing" /\ Worst(F) # "failing"
    BY <1>9, OneLevel, FindingsAre, WorstIs
  <2> QED BY <2>1
<1> QED BY <1>3, <1>7, <1>8, <1>9

\* Placement on nodes.
LEMMA PlacementOf ==
    ASSUME NEW w, NEW nodes
    PROVE  /\ \A f \in Placement(w, nodes) : f.level \in {"failing", "warning"} /\ f.about = w
           /\ Placement(w, nodes) = {} =>
                /\ w.nodeName = "none"
                /\ Constrained(w) => CanRun(w, nodes) # {}
                /\ PlacedReplicas(w) >= 2 => HasSpread(w)
           /\ (\E f \in Placement(w, nodes) : f.level = "failing") =>
                w.nodeName # "none" \/ CanRun(w, nodes) = {}
<1> DEFINE matched == {n \in nodes : MatchesPlacement(w, n)}
           many    == PlacedReplicas(w) >= 2
           pinned  == w.nodeName # "none"
           levels  == {l \in {"failing", "warning"} :
                         \/ l = "warning" /\ many /\ ~HasSpread(w)
                         \/ l = "failing" /\ pinned
                         \/ l = "failing" /\ ~pinned /\ Constrained(w) /\ matched = {}
                         \/ l = "warning" /\ ~pinned /\ Constrained(w) /\ many
                              /\ Cardinality(matched) = 1}
<1>1. Placement(w, nodes) = {Finding(l, w) : l \in levels}
  BY Zenon DEF Placement
<1>2. \A l : Finding(l, w).level = l /\ Finding(l, w).about = w
  BY DEF Finding
<1>3. CanRun(w, nodes) = matched
  BY DEF CanRun
<1>4. /\ \A l \in levels : l \in {"failing", "warning"}
      /\ levels = {} => ~pinned /\ (Constrained(w) => matched # {}) /\ (many => HasSpread(w))
      /\ "failing" \in levels => pinned \/ matched = {}
  OBVIOUS
<1> HIDE DEF levels
<1>5. \A f \in Placement(w, nodes) : f.level \in levels /\ f.about = w
  BY <1>1, <1>2
<1>6. Placement(w, nodes) = {} => levels = {}
  BY <1>1
<1> QED BY <1>3, <1>4, <1>5, <1>6

\* Placement on nodes.
LEMMA PlacementSound ==
    ASSUME ReadInv, AllAnswered, reader = "placement", NEW F, F = NodePlacement(seen)
    PROVE  /\ Worst(F) = "passing" =>
                \A w \in WorkloadObjects(throughout) : InScope(w) =>
                  /\ w.nodeName = "none"
                  /\ Constrained(w) => CanRun(w, Sometime({"node"})) # {}
                  /\ PlacedReplicas(w) >= 2 => HasSpread(w)
           /\ Worst(F) = "failing" =>
                \E w \in About(F) : w.nodeName # "none" \/ CanRun(w, Steady({"node"})) = {}
<1> DEFINE scope == {v \in Workloads(seen) : InScope(v)}
<1>1. Kinds(reader) = {"deployment", "statefulSet", "daemonSet", "node"}
  BY AnswersBetween, ChecksList
<1>2. Steady({"node"}) \subseteq seen.node /\ seen.node \subseteq Sometime({"node"})
  BY <1>1 DEF AllAnswered, Answered, ReadInv, AnswersOK
<1>3. WorkloadObjects(throughout) \subseteq Workloads(seen)
  BY <1>1, WorkloadsBetween
<1>4. \A w : CanRun(w, Steady({"node"})) \subseteq CanRun(w, seen.node)
             /\ CanRun(w, seen.node) \subseteq CanRun(w, Sometime({"node"}))
  BY <1>2 DEF CanRun
<1>5. CASE seen.node = {}
  <2>1. F = Findings("warning", {"no nodes"})
    BY <1>5 DEF NodePlacement, Findings
  <2>2. Worst(F) # "passing" /\ Worst(F) # "failing"
    BY <2>1, OneLevel, FindingsAre, WorstIs
  <2> QED BY <2>2
<1>6. CASE seen.node # {}
  <2>1. F = UNION {Placement(w, seen.node) : w \in scope}
    BY <1>6 DEF NodePlacement
  <2>2. \A f \in F : \E w \in scope : f \in Placement(w, seen.node)
    BY <2>1
  <2>3. \A f \in F : f.level \in {"failing", "warning"}
    BY <2>2, PlacementOf
  <2>4. ASSUME Worst(F) = "passing", NEW w \in WorkloadObjects(throughout), InScope(w)
        PROVE  /\ w.nodeName = "none"
               /\ Constrained(w) => CanRun(w, Sometime({"node"})) # {}
               /\ PlacedReplicas(w) >= 2 => HasSpread(w)
    <3>1. F = {}
      BY <2>3, <2>4, TwoLevels
    <3>2. w \in scope
      BY <1>3, <2>4
    <3>3. Placement(w, seen.node) = {}
      BY <2>1, <3>1, <3>2
    <3>4. CanRun(w, seen.node) \subseteq CanRun(w, Sometime({"node"}))
      BY <1>4
    <3> QED BY <3>3, <3>4, PlacementOf
  <2>5. ASSUME Worst(F) = "failing"
        PROVE  \E w \in About(F) : w.nodeName # "none" \/ CanRun(w, Steady({"node"})) = {}
    <3>1. PICK f \in F : f.level = "failing"
      BY <2>5, WorstIs
    <3>2. PICK w \in scope : f \in Placement(w, seen.node)
      BY <2>2
    <3>3. f.about = w /\ (w.nodeName # "none" \/ CanRun(w, seen.node) = {})
      BY <3>1, <3>2, PlacementOf
    <3>4. CanRun(w, Steady({"node"})) \subseteq CanRun(w, seen.node)
      BY <1>4
    <3>5. w \in About(F)
      BY <3>3 DEF About
    <3> QED BY <3>3, <3>4, <3>5
  <2> QED BY <2>4, <2>5
<1> QED BY <1>5, <1>6

\* Spot capacity.
LEMMA SpotSound ==
    ASSUME ReadInv, AllAnswered, reader = "spot", NEW F, F = SpotUsage(seen)
    PROVE  /\ Worst(F) = "passing" /\ (\E n \in Steady({"node"}) : LooksSpot(n)) =>
                \A w \in ScalableObjects(throughout) : ResourceRelevant(w) => TargetsSpot(w)
           /\ About(F) \subseteq WorkloadObjects(ever)
           /\ F # {} => \E n \in Sometime({"node"}) : LooksSpot(n)
           /\ Worst(F) = "failing" =>
                \A w \in ScalableObjects(throughout) : ResourceRelevant(w) => ~TargetsSpot(w)
<1> DEFINE scope == {w \in Scalable(seen) : ResourceRelevant(w)}
           unconfigured == {w \in scope : ~TargetsSpot(w)}
           spot == \E n \in seen.node : LooksSpot(n)
<1>1. Kinds(reader) = {"deployment", "statefulSet", "node"}
  BY AnswersBetween, ChecksList
<1>2. Steady({"node"}) \subseteq seen.node /\ seen.node \subseteq Sometime({"node"})
  BY <1>1 DEF AllAnswered, Answered, ReadInv, AnswersOK
<1>3. ScalableObjects(throughout) \subseteq Scalable(seen) /\ Scalable(seen) \subseteq WorkloadObjects(ever)
  BY <1>1, WorkloadsBetween
<1>4. CASE ~spot
  <2>1. F = {}
    BY <1>4 DEF SpotUsage
  <2> QED BY <1>2, <1>4, <2>1, WorstIs DEF About
<1>5. CASE spot /\ unconfigured = scope
  <2>1. F = Findings("failing", scope)
    BY <1>5 DEF SpotUsage
  <2>2. (Worst(F) = "passing" <=> scope = {}) /\ About(F) = scope
    BY <2>1, OneLevel
  <2> QED BY <1>2, <1>3, <1>5, <2>2
<1>6. CASE spot /\ unconfigured # scope
  <2>1. F = Findings("warning", unconfigured)
    BY <1>6 DEF SpotUsage
  <2>2. (Worst(F) = "passing" <=> unconfigured = {}) /\ About(F) = unconfigured
    BY <2>1, OneLevel
  <2>3. Worst(F) # "failing"
    BY <2>1, FindingsAre, WorstIs
  <2> QED BY <1>2, <1>3, <1>6, <2>2, <2>3
<1> QED BY <1>4, <1>5, <1>6

\* Products of natural numbers.
LEMMA ProductNat == \A a, b \in Nat : a * b \in Nat
OBVIOUS

\* What the containers of a workload ask for together is a natural number.
LEMMA RequestsNat ==
    ASSUME NEW w, ComputedWorkload(w)
    PROVE  /\ PodCpu(w) \in Nat /\ PodMemory(w) \in Nat
           /\ \A f \in {"cpu", "memory"} : Requested(w, f) \in Nat
           /\ ReplicasOr(w, 1) \in Nat /\ ReplicasOr(w, 0) \in Nat
<1>0. \A n \in Nat : IsFiniteSet(1..n)
  BY FS_Interval
<1>1. ASSUME NEW cs \in {w.inits, w.containers}, NEW f \in {"cpu", "memory"}
      PROVE  Sum(cs, f) \in Nat
  <2> DEFINE D == {j \in DOMAIN cs : cs[j][f] # None}
             g == [i \in D |-> cs[i][f]]
  <2>1. cs \in Seq(Range(cs)) /\ \A c \in Range(cs) : c[f] \in Amount
    BY DEF ComputedWorkload, AllContainers, IsTuple
  <2>2. DOMAIN cs = 1..Len(cs) /\ Len(cs) \in Nat /\ \A j \in DOMAIN cs : cs[j] \in Range(cs)
    <3> HIDE DEF D, g
    <3>1. DOMAIN cs = 1..Len(cs) /\ Len(cs) \in Nat
      BY <2>1
    <3> QED BY <3>1 DEF Range
  <2>3. IsFiniteSet(D)
    <3>1. D \subseteq 1..Len(cs)
      BY <2>2
    <3> HIDE DEF D, g
    <3>2. IsFiniteSet(1..Len(cs))
      BY <2>2, <1>0
    <3> QED BY <3>1, <3>2, FS_Subset
  <2>4. \A i \in D : g[i] \in Nat
    BY <2>1, <2>2 DEF Amount, None
  <2>5. DOMAIN g = D
    OBVIOUS
  <2> HIDE DEF D, g
  <2>6. SumOf(g) \in Nat
    BY <2>3, <2>4, <2>5, SumCountsUnits
  <2> QED BY <2>6 DEF g, D, Sum
<1>2. ReplicasOr(w, 1) \in Nat /\ ReplicasOr(w, 0) \in Nat
  BY DEF ComputedWorkload, ReplicasOr, Amount, None
<1>3. PodCpu(w) \in Nat /\ PodMemory(w) \in Nat
  BY <1>1 DEF PodCpu, PodMemory, Larger
<1>4. ASSUME NEW f \in {"cpu", "memory"} PROVE Requested(w, f) \in Nat
  <2>1. Sum(w.containers, f) + Sum(w.inits, f) \in Nat
    BY <1>1
  <2> QED BY <1>2, <2>1, ProductNat DEF Requested
<1> QED BY <1>2, <1>3, <1>4

\* Over-provisioning.
LEMMA OverSound ==
    ASSUME ReadInv, AllAnswered, reader = "overProvisioning", NEW F, F = OverProvisioning(seen)
    PROVE  /\ Worst(F) = "passing" =>
                \A w \in WorkloadObjects(throughout) : ResourceRelevant(w) /\ w.replicas > 0 =>
                  PodCpu(w) < 4000 /\ PodMemory(w) < 16
           /\ About(F) \subseteq WorkloadObjects(ever)
<1> DEFINE scope == {v \in Workloads(seen) : ResourceRelevant(v)}
           Of(w) == {Finding(level, w) : level \in OverProvisioned(w)}
<1>1. Kinds(reader) = {"deployment", "statefulSet", "daemonSet"}
  BY AnswersBetween, ChecksList
<1>2. /\ WorkloadObjects(throughout) \subseteq Workloads(seen) /\ Workloads(seen) \subseteq WorkloadObjects(ever)
      /\ \A w \in Workloads(seen) : ComputedWorkload(w)
  BY <1>1, WorkloadsBetween DEF Collecting, OperatorChecks
<1>3. F = UNION {Of(w) : w \in scope}
  BY DEF OverProvisioning
<1>4. \A w : OverProvisioned(w) \subseteq {"failing", "warning"}
  BY DEF OverProvisioned, Classify
<1>5. \A w : \A f \in Of(w) : f.level \in OverProvisioned(w) /\ f.about = w
  BY DEF Finding
<1>6. \A w : Of(w) = {} => OverProvisioned(w) = {}
  OBVIOUS
<1>7. ASSUME NEW w \in Workloads(seen), w.replicas > 0, OverProvisioned(w) = {}
      PROVE  PodCpu(w) < 4000 /\ PodMemory(w) < 16
  <2> DEFINE Level(x, wn, fl) == CASE x >= fl -> {"failing"} [] x >= wn /\ x < fl -> {"warning"} [] OTHER -> {}
  <2>1. PodCpu(w) \in Nat /\ PodMemory(w) \in Nat
    BY <1>2, RequestsNat
  <2>2. ReplicasOr(w, 0) # 0
    BY <1>2, <1>7 DEF ReplicasOr, ComputedWorkload, Amount, None
  <2>3. /\ Level(PodCpu(w), 4000, 16000) = {}
        /\ Level(PodMemory(w), 16, 64) = {}
    BY <1>7, <2>2 DEF OverProvisioned, Classify
  <2>4. ASSUME NEW x \in Nat, NEW a \in Nat, NEW b \in Nat, a < b, Level(x, a, b) = {} PROVE x < a
    BY <2>4
  <2> HIDE DEF Level
  <2> QED BY <2>1, <2>3, <2>4
<1> HIDE DEF Of
<1>8. \A f \in F : \E w \in scope : f \in Of(w)
  BY <1>3
<1>9. \A f \in F : f.level \in {"failing", "warning"} /\ f.about \in Workloads(seen)
  BY <1>4, <1>5, <1>8
<1>10. Worst(F) = "passing" => \A w \in scope : OverProvisioned(w) = {}
  <2>1. Worst(F) = "passing" => F = {}
    BY <1>9, TwoLevels
  <2>2. F = {} => \A w \in scope : Of(w) = {}
    BY <1>3
  <2> QED BY <2>1, <2>2, <1>6
<1>11. About(F) \subseteq Workloads(seen)
  BY <1>9 DEF About
<1> QED BY <1>2, <1>7, <1>10, <1>11

\* More workloads ask for more, and more nodes offer more.
LEMMA FleetGrows ==
    ASSUME NEW B, IsFiniteSet(B), \A w \in B : ComputedWorkload(w), NEW A \in SUBSET B
    PROVE  /\ FleetRequests(A).cpu \in Nat /\ FleetRequests(A).memory \in Nat
           /\ FleetRequests(A).cpu <= FleetRequests(B).cpu
           /\ FleetRequests(A).memory <= FleetRequests(B).memory
<1> DEFINE fleet(S) == {w \in S : ResourceRelevant(w) /\ ReplicasOr(w, 0) > 0}
           cpu(S) == [w \in fleet(S) |-> w.replicas * PodCpu(w)]
           memory(S) == [w \in fleet(S) |-> w.replicas * PodMemory(w)]
<1>1. \A w \in fleet(B) : w.replicas * PodCpu(w) \in Nat /\ w.replicas * PodMemory(w) \in Nat
  <2> TAKE w \in fleet(B)
  <2>1. w.replicas \in Nat
    BY DEF ComputedWorkload, ReplicasOr, Amount, None
  <2>2. PodCpu(w) \in Nat /\ PodMemory(w) \in Nat
    BY RequestsNat
  <2> QED BY <2>1, <2>2, ProductNat
<1>2. IsFiniteSet(fleet(A)) /\ IsFiniteSet(fleet(B)) /\ fleet(A) \subseteq fleet(B)
  <2>1. fleet(A) \subseteq B /\ fleet(B) \subseteq B
    OBVIOUS
  <2>2. fleet(A) \subseteq fleet(B)
    OBVIOUS
  <2> HIDE DEF fleet
  <2> QED BY <2>1, <2>2, FS_Subset
<1>3. \A S : FleetRequests(S) = [cpu |-> SumOf(cpu(S)), memory |-> SumOf(memory(S))]
  BY DEF FleetRequests
<1> HIDE DEF fleet
<1>4. /\ DOMAIN cpu(A) = fleet(A) /\ DOMAIN cpu(B) = fleet(B)
      /\ \A w \in fleet(A) : cpu(A)[w] \in Nat /\ cpu(A)[w] <= cpu(B)[w]
      /\ \A w \in fleet(B) : cpu(B)[w] \in Nat
  BY <1>1, <1>2
<1>5. /\ DOMAIN memory(A) = fleet(A) /\ DOMAIN memory(B) = fleet(B)
      /\ \A w \in fleet(A) : memory(A)[w] \in Nat /\ memory(A)[w] <= memory(B)[w]
      /\ \A w \in fleet(B) : memory(B)[w] \in Nat
  BY <1>1, <1>2
<1> HIDE DEF cpu, memory
<1>6. SumOf(cpu(A)) \in Nat /\ SumOf(cpu(A)) <= SumOf(cpu(B))
  BY <1>2, <1>4, SumIsMonotone, SumCountsUnits
<1>7. SumOf(memory(A)) \in Nat /\ SumOf(memory(A)) <= SumOf(memory(B))
  BY <1>2, <1>5, SumIsMonotone, SumCountsUnits
<1> QED BY <1>3, <1>6, <1>7

\* More nodes offer more.
LEMMA CapacityGrows ==
    ASSUME NEW B, IsFiniteSet(B), \A n \in B : {n.cpu, n.memory} \subseteq Amount, NEW A \in SUBSET B
    PROVE  /\ Allocatable(A).cpu \in Nat /\ Allocatable(A).memory \in Nat
           /\ Allocatable(A).cpu <= Allocatable(B).cpu
           /\ Allocatable(A).memory <= Allocatable(B).memory
<1>1. ASSUME NEW f \in {"cpu", "memory"}
      PROVE  Offered(A, f) \in Nat /\ Offered(A, f) <= Offered(B, f)
  <2> DEFINE usable(S) == {m \in S : ~m.unschedulable /\ m[f] # None}
             offer(S) == [n \in usable(S) |-> n[f]]
  <2>1. \A n \in usable(B) : n[f] \in Nat
    BY DEF Amount, None
  <2>2. usable(A) \subseteq usable(B) /\ usable(B) \subseteq B /\ usable(A) \subseteq B
    OBVIOUS
  <2>3. \A S : Offered(S, f) = SumOf(offer(S))
    BY DEF Offered
  <2> HIDE DEF usable
  <2>4. IsFiniteSet(usable(A)) /\ IsFiniteSet(usable(B))
    BY <2>2, FS_Subset
  <2>5. /\ DOMAIN offer(A) = usable(A) /\ DOMAIN offer(B) = usable(B)
        /\ \A n \in usable(A) : offer(A)[n] \in Nat /\ offer(A)[n] <= offer(B)[n]
        /\ \A n \in usable(B) : offer(B)[n] \in Nat
    BY <2>1, <2>2
  <2> HIDE DEF offer
  <2>6. SumOf(offer(A)) \in Nat /\ SumOf(offer(A)) <= SumOf(offer(B))
    BY <2>2, <2>4, <2>5, SumIsMonotone, SumCountsUnits
  <2> QED BY <2>3, <2>6
<1> QED BY <1>1 DEF Allocatable

\* Idle capacity.
LEMMA EfficiencySound ==
    ASSUME ReadInv, AllAnswered, reader = "efficiency", NEW F, F = ResourceEfficiency(seen)
    PROVE  /\ NoCapacity(seen) => Allocatable(Steady({"node"})).cpu = 0
           /\ Worst(F) = "passing" =>
                WellUsed(FleetRequests(WorkloadObjects(ever)), Allocatable(Steady({"node"})))
           /\ F # {} =>
                ~WellUsed(FleetRequests(WorkloadObjects(throughout)), Allocatable(Sometime({"node"})))
<1> DEFINE fleet(S) == FleetRequests(S)
           nodes(S) == Allocatable(S)
           W == Workloads(seen)
           Wt == WorkloadObjects(throughout)
           We == WorkloadObjects(ever)
           N == seen.node
           Nt == Steady({"node"})
           Ne == Sometime({"node"})
<1>1. Kinds(reader) = {"deployment", "statefulSet", "daemonSet", "node"}
  BY AnswersBetween, ChecksList
<1>2. /\ Wt \subseteq W /\ W \subseteq We /\ IsFiniteSet(We)
      /\ \A w \in We : ComputedWorkload(w)
  <2>1. IsFiniteSet(We)
    BY AnswersBetween, WorkloadsBetween, FS_Subset
  <2> QED BY <1>1, <2>1, WorkloadsBetween DEF Collecting, OperatorChecks
<1>3. /\ Nt \subseteq N /\ N \subseteq Ne /\ IsFiniteSet(Ne)
      /\ \A n \in Ne : {n.cpu, n.memory} \subseteq Amount
  <2>1. Nt \subseteq N /\ N \subseteq Ne
    BY <1>1 DEF AllAnswered, Answered, ReadInv, AnswersOK
  <2>2. Ne \subseteq ever /\ \A n \in Ne : n.kind = "node"
    BY DEF Sometime
  <2>3. IsFiniteSet(Ne)
    BY <2>2, AnswersBetween, FS_Subset
  <2>4. \A n \in Ne : {n.cpu, n.memory} \subseteq Amount
    BY <2>2, AnswersBetween DEF Fits
  <2> QED BY <2>1, <2>3, <2>4
<1> HIDE DEF W, Wt, We, N, Nt, Ne
<1>4. IsFiniteSet(W) /\ (\A w \in W : ComputedWorkload(w))
      /\ IsFiniteSet(N) /\ (\A n \in N : {n.cpu, n.memory} \subseteq Amount)
  BY <1>2, <1>3, FS_Subset
<1>5. \A f \in {"cpu", "memory"} :
        /\ fleet(Wt)[f] \in Nat /\ fleet(W)[f] \in Nat /\ fleet(We)[f] \in Nat
        /\ fleet(Wt)[f] <= fleet(W)[f] /\ fleet(W)[f] <= fleet(We)[f]
  <2>1. /\ fleet(W).cpu \in Nat /\ fleet(W).memory \in Nat
        /\ fleet(We).cpu \in Nat /\ fleet(We).memory \in Nat
        /\ fleet(W).cpu <= fleet(We).cpu /\ fleet(W).memory <= fleet(We).memory
    BY <1>2, FleetGrows
  <2>2. /\ fleet(Wt).cpu \in Nat /\ fleet(Wt).memory \in Nat
        /\ fleet(Wt).cpu <= fleet(W).cpu /\ fleet(Wt).memory <= fleet(W).memory
    BY <1>2, <1>4, FleetGrows
  <2> QED BY <2>1, <2>2
<1>6. \A f \in {"cpu", "memory"} :
        /\ nodes(Nt)[f] \in Nat /\ nodes(N)[f] \in Nat /\ nodes(Ne)[f] \in Nat
        /\ nodes(Nt)[f] <= nodes(N)[f] /\ nodes(N)[f] <= nodes(Ne)[f]
  <2>1. /\ nodes(N).cpu \in Nat /\ nodes(N).memory \in Nat
        /\ nodes(Ne).cpu \in Nat /\ nodes(Ne).memory \in Nat
        /\ nodes(N).cpu <= nodes(Ne).cpu /\ nodes(N).memory <= nodes(Ne).memory
    BY <1>3, CapacityGrows
  <2>2. /\ nodes(Nt).cpu \in Nat /\ nodes(Nt).memory \in Nat
        /\ nodes(Nt).cpu <= nodes(N).cpu /\ nodes(Nt).memory <= nodes(N).memory
    BY <1>3, <1>4, CapacityGrows
  <2> QED BY <2>1, <2>2
<1>7. /\ Worst(F) = "passing" <=> ~Idle(fleet(W), nodes(N))
      /\ F # {} => Idle(fleet(W), nodes(N))
  <2>1. Idle(fleet(W), nodes(N)) => F = Findings("warning", {"idle nodes"})
    BY DEF ResourceEfficiency, W, N, Findings
  <2>2. ~Idle(fleet(W), nodes(N)) => F = {}
    BY DEF ResourceEfficiency, W, N
  <2>3. F = {} => Worst(F) = "passing"
    BY TwoLevels
  <2> QED BY <2>1, <2>2, <2>3, OneLevel
<1>8. NoCapacity(seen) => nodes(N).cpu = 0
  BY DEF NoCapacity, N
<1> HIDE DEF fleet, nodes
<1>9. NoCapacity(seen) => nodes(Nt).cpu = 0
  BY <1>6, <1>8
<1>10. ~Idle(fleet(W), nodes(N)) => WellUsed(fleet(We), nodes(Nt))
  BY <1>5, <1>6 DEF Idle, WellUsed
<1>11. Idle(fleet(W), nodes(N)) => ~WellUsed(fleet(Wt), nodes(Ne))
  BY <1>5, <1>6 DEF Idle, WellUsed
<1> QED BY <1>7, <1>9, <1>10, <1>11 DEF fleet, nodes, Nt, Ne, Wt, We

\* More workloads of a namespace need more of it.
LEMMA DemandGrows ==
    ASSUME NEW B, IsFiniteSet(B), \A w \in B : ComputedWorkload(w), NEW A \in SUBSET B,
           NEW f \in {"cpu", "memory", "pods"}
    PROVE  NamespaceUsage(A)[f] \in Nat /\ NamespaceUsage(A)[f] <= NamespaceUsage(B)[f]
<1> DEFINE need(w) == IF f = "pods" THEN ReplicasOr(w, 1) ELSE Requested(w, f)
           all(S) == [w \in S |-> need(w)]
<1>1. \A S : NamespaceUsage(S)[f] = SumOf(all(S))
  <2> TAKE S
  <2>1. CASE f = "pods"
    BY <2>1 DEF NamespaceUsage
  <2>2. CASE f = "cpu"
    <3>1. all(S) = [w \in S |-> Requested(w, "cpu")]
      BY <2>2
    <3> HIDE DEF all
    <3> QED BY <2>2, <3>1 DEF NamespaceUsage
  <2>3. CASE f = "memory"
    <3>1. all(S) = [w \in S |-> Requested(w, "memory")]
      BY <2>3
    <3> HIDE DEF all
    <3> QED BY <2>3, <3>1 DEF NamespaceUsage
  <2> QED BY <2>1, <2>2, <2>3
<1>2. \A w \in B : need(w) \in Nat
  BY RequestsNat
<1> HIDE DEF need
<1>3. /\ DOMAIN all(A) = A /\ DOMAIN all(B) = B
      /\ \A w \in A : all(A)[w] \in Nat /\ all(A)[w] <= all(B)[w]
      /\ \A w \in B : all(B)[w] \in Nat
  BY <1>2
<1>4. IsFiniteSet(A)
  BY FS_Subset
<1> HIDE DEF all
<1>5. SumOf(all(A)) \in Nat /\ SumOf(all(A)) <= SumOf(all(B))
  BY <1>3, <1>4, SumIsMonotone, SumCountsUnits
<1> QED BY <1>1, <1>5

\* What a hard limit says of the use.
LEMMA BoundIs ==
    ASSUME NEW use \in Nat, NEW hard \in Amount, NEW times
    PROVE  /\ Bound(use, hard, times) \subseteq {"failing", "warning"}
           /\ "failing" \in Bound(use, hard, times) <=> hard # None /\ use > hard
<1>1. hard \in Nat \cup {-1}
  BY DEF Amount, None
<1>2. CASE hard = None
  BY <1>2 DEF Bound
<1>3. CASE hard # None /\ use > hard
  <2>1. Bound(use, hard, times) = {"failing"}
    BY <1>1, <1>3 DEF Bound, None
  <2> QED BY <1>3, <2>1
<1>4. CASE hard # None /\ ~(use > hard)
  <2>1. Bound(use, hard, times) \subseteq {"warning"}
    <3> DEFINE near == use > 0 /\ (10 * use >= 9 * hard \/ hard >= times * use)
    <3>1. use <= hard
      BY <1>1, <1>4 DEF None
    <3>2. Bound(use, hard, times) =
             CASE hard = None -> {}
               [] hard # None /\ use > hard -> {"failing"}
               [] hard # None /\ use <= hard /\ near -> {"warning"}
               [] OTHER -> {}
      BY Zenon DEF Bound
    <3> HIDE DEF near
    <3>3. CASE near
      BY <1>4, <3>1, <3>2, <3>3
    <3>4. CASE ~near
      BY <1>4, <3>1, <3>2, <3>4
    <3> QED BY <3>3, <3>4
  <2> QED BY <1>4, <2>1
<1> QED BY <1>2, <1>3, <1>4

\* A quota is exceeded just when its levels say so.
LEMMA QuotaIs ==
    ASSUME NEW q, {q.cpu, q.memory, q.pods, q.cpuLimit, q.memoryLimit} \subseteq Amount,
           NEW use, use.cpu \in Nat, use.memory \in Nat, use.pods \in Nat
    PROVE  /\ QuotaLevels(q, use) \subseteq {"failing", "warning"}
           /\ "failing" \in QuotaLevels(q, use) <=> Exceeds(use, q)
<1> DEFINE c == Bound(use.cpu, q.cpu, 20)
           m == Bound(use.memory, q.memory, 20)
           p == Bound(use.pods, q.pods, 10)
<1>1. /\ c \subseteq {"failing", "warning"} /\ ("failing" \in c <=> q.cpu # None /\ use.cpu > q.cpu)
      /\ m \subseteq {"failing", "warning"} /\ ("failing" \in m <=> q.memory # None /\ use.memory > q.memory)
      /\ p \subseteq {"failing", "warning"} /\ ("failing" \in p <=> q.pods # None /\ use.pods > q.pods)
  BY BoundIs
<1>2. \E x \in {{}, {"warning"}} : QuotaLevels(q, use) = c \cup m \cup p \cup x
  BY DEF QuotaLevels
<1> HIDE DEF c, m, p
<1> QED BY <1>1, <1>2 DEF Exceeds

\* What the workloads of a namespace use, by the answers.
Use(ns) == NamespaceUsage(In(Workloads(seen), ns))

\* The findings of a namespace.
LEMMA NamespaceIs ==
    ASSUME NEW ns, \A q \in seen.quota : QuotaLevels(q, Use(ns)) \subseteq {"failing", "warning"}
    PROVE  /\ \A f \in NamespaceFindings(ns, seen) : f.level \in {"failing", "warning"}
           /\ (\E f \in NamespaceFindings(ns, seen) : f.level = "failing") <=>
                \E q \in seen.quota : q.ns = ns /\ "failing" \in QuotaLevels(q, Use(ns))
<1> DEFINE use == Use(ns)
           quotas == In(seen.quota, ns)
           Of(q) == {Finding(level, q) : level \in QuotaLevels(q, use)}
           All == UNION {Of(q) : q \in quotas}
<1>1. \E x : NamespaceFindings(ns, seen) = All \cup x /\ \A f \in x : f.level = "warning"
  <2> DEFINE required == ProductionLike(ns, seen.namespace, use)
             defaults == \E r \in In(seen.limitRange, ns) : HasDefaults(r)
             loose == required /\ (quotas = {} \/ (use.missing /\ ~defaults))
             x == IF loose THEN {Finding("warning", [kind |-> "namespace", name |-> ns])} ELSE {}
  <2>1. NamespaceFindings(ns, seen) = All \cup x
    BY Zenon DEF NamespaceFindings, Use
  <2>2. \A f \in x : f.level = "warning"
    BY DEF Finding
  <2> HIDE DEF x, All
  <2> QED BY <2>1, <2>2
<1>2. \A q \in quotas : q \in seen.quota /\ q.ns = ns
  BY DEF In
<1>3. \A q \in seen.quota : q.ns = ns => q \in quotas
  BY DEF In
<1>4. \A q : (\A f \in Of(q) : f.level \in QuotaLevels(q, use))
            /\ \A level \in QuotaLevels(q, use) : \E f \in Of(q) : f.level = level
  <2> TAKE q
  <2>1. \A level \in QuotaLevels(q, use) :
          Finding(level, q) \in Of(q) /\ Finding(level, q).level = level
    BY DEF Finding
  <2>2. \A f \in Of(q) : f.level \in QuotaLevels(q, use)
    BY DEF Finding
  <2> HIDE DEF Of
  <2> QED BY <2>1, <2>2
<1> HIDE DEF Of, quotas
<1>5. /\ \A f \in All : \E q \in quotas : f \in Of(q)
      /\ \A q \in quotas : Of(q) \subseteq All
  OBVIOUS
<1> HIDE DEF All
<1>6. \A f \in All : f.level \in {"failing", "warning"}
  BY <1>2, <1>4, <1>5
<1>7. (\E f \in All : f.level = "failing") <=>
        \E q \in seen.quota : q.ns = ns /\ "failing" \in QuotaLevels(q, use)
  BY <1>2, <1>3, <1>4, <1>5
<1> QED BY <1>1, <1>6, <1>7

\* Governance of namespaces.
LEMMA GovernanceSound ==
    ASSUME ReadInv, AllAnswered, reader = "governance", NEW F, F = NamespaceGovernance(seen)
    PROVE  /\ Worst(F) = "passing" =>
                \A q \in Steady({"quota"}) : InScope(q) => ~Exceeds(Demand(q.ns, throughout), q)
           /\ Worst(F) = "failing" =>
                \E q \in Sometime({"quota"}) : Exceeds(Demand(q.ns, ever), q)
<1> DEFINE W == Workloads(seen)
           spaces == {w.ns : w \in {v \in W : InScope(v)}}
           Of(ns) == NamespaceFindings(ns, seen)
<1>1. Kinds(reader) = {"deployment", "statefulSet", "daemonSet", "quota", "limitRange", "namespace"}
  BY AnswersBetween, ChecksList
<1>2. /\ Steady({"quota"}) \subseteq seen.quota /\ seen.quota \subseteq Sometime({"quota"})
      /\ \A q \in seen.quota : {q.cpu, q.memory, q.pods, q.cpuLimit, q.memoryLimit} \subseteq Amount
  <2>1. Steady({"quota"}) \subseteq seen.quota /\ seen.quota \subseteq Sometime({"quota"})
    BY <1>1 DEF AllAnswered, Answered, ReadInv, AnswersOK
  <2>2. \A q \in seen.quota : q.kind = "quota" /\ Fits(reader, q)
    BY <1>1, AnswersBetween
  <2>3. \A q \in seen.quota : {q.cpu, q.memory, q.pods, q.cpuLimit, q.memoryLimit} \subseteq Amount
    BY <2>2 DEF Fits
  <2> QED BY <2>1, <2>3
<1>3. /\ WorkloadObjects(throughout) \subseteq W /\ W \subseteq WorkloadObjects(ever)
      /\ IsFiniteSet(WorkloadObjects(ever)) /\ \A w \in WorkloadObjects(ever) : ComputedWorkload(w)
  <2>1. IsFiniteSet(WorkloadObjects(ever))
    BY AnswersBetween, WorkloadsBetween, FS_Subset
  <2> QED BY <1>1, <2>1, WorkloadsBetween DEF Collecting, OperatorChecks
<1>4. ASSUME NEW ns, NEW f \in {"cpu", "memory", "pods"}
      PROVE  /\ Demand(ns, throughout)[f] \in Nat /\ Use(ns)[f] \in Nat /\ Demand(ns, ever)[f] \in Nat
             /\ Demand(ns, throughout)[f] <= Use(ns)[f] /\ Use(ns)[f] <= Demand(ns, ever)[f]
  <2> DEFINE A == In(WorkloadObjects(throughout), ns)
             M == In(Workloads(seen), ns)
             B == In(WorkloadObjects(ever), ns)
  <2>1. A \subseteq M /\ M \subseteq B /\ B \subseteq WorkloadObjects(ever)
    BY <1>3 DEF In
  <2> HIDE DEF A, M, B
  <2>2. IsFiniteSet(B) /\ IsFiniteSet(M) /\ (\A w \in B : ComputedWorkload(w)) /\ \A w \in M : ComputedWorkload(w)
    BY <1>3, <2>1, FS_Subset
  <2>3. NamespaceUsage(A)[f] \in Nat /\ NamespaceUsage(A)[f] <= NamespaceUsage(M)[f]
    BY <2>1, <2>2, DemandGrows
  <2>4. NamespaceUsage(M)[f] \in Nat /\ NamespaceUsage(M)[f] <= NamespaceUsage(B)[f]
    BY <2>1, <2>2, DemandGrows
  <2>5. NamespaceUsage(B)[f] \in Nat
    BY <2>2, DemandGrows
  <2> QED BY <2>3, <2>4, <2>5 DEF A, M, B, Demand, Use
<1>5. ASSUME NEW q \in seen.quota, NEW ns
      PROVE  /\ QuotaLevels(q, Use(ns)) \subseteq {"failing", "warning"}
             /\ "failing" \in QuotaLevels(q, Use(ns)) <=> Exceeds(Use(ns), q)
             /\ Exceeds(Demand(ns, throughout), q) => Exceeds(Use(ns), q)
             /\ Exceeds(Use(ns), q) => Exceeds(Demand(ns, ever), q)
  <2> DEFINE u == Use(ns)
             a == Demand(ns, throughout)
             b == Demand(ns, ever)
  <2>1. /\ a.cpu \in Nat /\ u.cpu \in Nat /\ b.cpu \in Nat /\ a.cpu <= u.cpu /\ u.cpu <= b.cpu
        /\ a.memory \in Nat /\ u.memory \in Nat /\ b.memory \in Nat /\ a.memory <= u.memory /\ u.memory <= b.memory
        /\ a.pods \in Nat /\ u.pods \in Nat /\ b.pods \in Nat /\ a.pods <= u.pods /\ u.pods <= b.pods
    <3>1. \A f \in {"cpu", "memory", "pods"} :
            a[f] \in Nat /\ u[f] \in Nat /\ b[f] \in Nat /\ a[f] <= u[f] /\ u[f] <= b[f]
      BY <1>4
    <3> HIDE DEF u, a, b
    <3> QED BY <3>1
  <2> HIDE DEF u, a, b
  <2>2. q.cpu \in Nat \cup {-1} /\ q.memory \in Nat \cup {-1} /\ q.pods \in Nat \cup {-1}
    BY <1>2 DEF Amount, None
  <2>3. QuotaLevels(q, u) \subseteq {"failing", "warning"} /\ ("failing" \in QuotaLevels(q, u) <=> Exceeds(u, q))
    BY <1>2, <2>1, QuotaIs
  <2>4. Exceeds(a, q) => Exceeds(u, q)
    BY <2>1, <2>2 DEF Exceeds, None
  <2>5. Exceeds(u, q) => Exceeds(b, q)
    BY <2>1, <2>2 DEF Exceeds, None
  <2> QED BY <2>3, <2>4, <2>5 DEF u, a, b
<1>6. ASSUME NEW ns
      PROVE  /\ \A f \in Of(ns) : f.level \in {"failing", "warning"}
             /\ (\E f \in Of(ns) : f.level = "failing") <=> \E q \in seen.quota : q.ns = ns /\ Exceeds(Use(ns), q)
  <2>1. \A q \in seen.quota : QuotaLevels(q, Use(ns)) \subseteq {"failing", "warning"}
    BY <1>5
  <2>2. /\ \A f \in Of(ns) : f.level \in {"failing", "warning"}
        /\ (\E f \in Of(ns) : f.level = "failing") <=>
              \E q \in seen.quota : q.ns = ns /\ "failing" \in QuotaLevels(q, Use(ns))
    BY <2>1, NamespaceIs
  <2> QED BY <2>2, <1>5
<1>7. F = UNION {Of(ns) : ns \in spaces}
  BY DEF NamespaceGovernance
<1>8. ASSUME NEW q \in Steady({"quota"}), InScope(q), Exceeds(Demand(q.ns, throughout), q)
      PROVE  q.ns \in spaces
  <2> DEFINE A == In(WorkloadObjects(throughout), q.ns)
             none == [w \in {} |-> 0]
  <2>1. A # {}
    <3> SUFFICES ASSUME A = {} PROVE FALSE
      OBVIOUS
    <3>1. Demand(q.ns, throughout) = NamespaceUsage({})
      BY DEF Demand
    <3>2. \A f \in {"cpu", "memory", "pods"} : NamespaceUsage({})[f] = 0
      <4>1. \A g : DOMAIN g = {} => SumOf(g) = 0
        BY SumIsZero, FS_EmptySet
      <4>2. /\ SumOf([w \in {} |-> Requested(w, "cpu")]) = 0
            /\ SumOf([w \in {} |-> Requested(w, "memory")]) = 0
            /\ SumOf([w \in {} |-> ReplicasOr(w, 1)]) = 0
        BY <4>1
      <4> QED BY <4>2 DEF NamespaceUsage
    <3>3. q.cpu \in Nat \cup {-1} /\ q.memory \in Nat \cup {-1} /\ q.pods \in Nat \cup {-1}
      BY <1>2 DEF Amount, None
    <3> QED BY <1>8, <3>1, <3>2, <3>3 DEF Exceeds, None
  <2>2. PICK w \in WorkloadObjects(throughout) : w.ns = q.ns
    BY <2>1 DEF In
  <2> QED BY <1>3, <1>8, <2>2 DEF InScope
<1> HIDE DEF Of, spaces, W
<1>9. \A f \in F : \E ns \in spaces : f \in Of(ns)
  BY <1>7
<1>10. ASSUME Worst(F) = "passing", NEW q \in Steady({"quota"}), InScope(q)
       PROVE  ~Exceeds(Demand(q.ns, throughout), q)
  <2> SUFFICES ASSUME Exceeds(Demand(q.ns, throughout), q) PROVE FALSE
    OBVIOUS
  <2>1. \A f \in F : f.level \in {"failing", "warning"}
    BY <1>6, <1>9
  <2>2. F = {}
    BY <1>10, <2>1, TwoLevels
  <2>3. Of(q.ns) = {}
    BY <1>7, <1>8, <1>10, <2>2
  <2>4. q \in seen.quota /\ Exceeds(Use(q.ns), q)
    BY <1>2, <1>5
  <2> QED BY <1>6, <2>3, <2>4
<1>11. ASSUME Worst(F) = "failing" PROVE \E q \in Sometime({"quota"}) : Exceeds(Demand(q.ns, ever), q)
  <2>1. PICK f \in F : f.level = "failing"
    BY <1>11, WorstIs
  <2>2. PICK ns \in spaces : f \in Of(ns)
    BY <1>9
  <2>3. PICK q \in seen.quota : q.ns = ns /\ Exceeds(Use(ns), q)
    BY <1>6, <2>1, <2>2
  <2> QED BY <1>2, <1>5, <2>3
<1> QED BY <1>10, <1>11

\* Consolidation.
LEMMA ConsolidationSound ==
    ASSUME ReadInv, AllAnswered, reader = "consolidation", NEW F, F = Consolidation(seen)
    PROVE  /\ Worst(F) = "passing" /\ Cardinality(Running(throughout)) >= MinDeployments =>
                10 * Cardinality(Single(throughout)) < 6 * Cardinality({Identity(d) : d \in Running(ever)})
           /\ F # {} => Single(ever) # {}
<1> DEFINE D == seen.deployment
           R == Running(D)
           S == Single(D)
           Rt == Running(throughout)
           St == Single(throughout)
           names == {Identity(d) : d \in Running(ever)}
           sprawl == Cardinality(R) >= MinDeployments /\ 10 * Cardinality(S) >= 6 * Cardinality(R)
<1>1. Kinds(reader) = {"deployment"}
  BY AnswersBetween, ChecksList
<1>2. throughout \subseteq D /\ D \subseteq ever /\ IsFiniteSet(ever) /\ IsFiniteSet(D) /\ OnePerName(D)
  BY <1>1, AnswersBetween
<1>3. /\ Rt \subseteq R /\ St \subseteq S /\ R \subseteq Running(ever) /\ S \subseteq Single(ever)
      /\ R \subseteq D /\ S \subseteq D /\ Running(ever) \subseteq ever
  BY <1>2 DEF Running, Single
<1>4. IsFiniteSet(R) /\ IsFiniteSet(S) /\ IsFiniteSet(Running(ever))
  BY <1>2, <1>3, FS_Subset
<1>5. F # {} => sprawl
  BY DEF Consolidation
<1>6. sprawl => Worst(F) # "passing"
  <2>1. sprawl => F = Findings("warning", {"sprawl"})
    BY DEF Consolidation, Findings
  <2> QED BY <2>1, OneLevel
<1>7. IsFiniteSet(names) /\ Cardinality(R) <= Cardinality(names)
  <2> DEFINE name == [d \in Running(ever) |-> Identity(d)]
             nameSeen == [d \in R |-> Identity(d)]
  <2>1. name \in Surjection(Running(ever), names)
    BY DEF Surjection
  <2>2. IsFiniteSet(names)
    BY <2>1, <1>4, FS_Surjection
  <2>3. nameSeen \in Injection(R, names)
    BY <1>2, <1>3 DEF Injection, IsInjective, OnePerName
  <2> QED BY <2>2, <2>3, FS_Injection
<1> HIDE DEF R, S, Rt, St, names, D
<1>8. Cardinality(Rt) <= Cardinality(R) /\ Cardinality(St) <= Cardinality(S)
  BY <1>3, <1>4, FS_Subset
<1>9. /\ Cardinality(R) \in Nat /\ Cardinality(S) \in Nat /\ Cardinality(names) \in Nat
      /\ Cardinality(Rt) \in Nat /\ Cardinality(St) \in Nat
  BY <1>3, <1>4, <1>7, FS_Subset, FS_CardinalityType
<1>10. ASSUME Worst(F) = "passing", Cardinality(Rt) >= MinDeployments
       PROVE  10 * Cardinality(St) < 6 * Cardinality(names)
  <2>1. ~sprawl
    BY <1>6, <1>10
  <2> QED BY <2>1, <1>7, <1>8, <1>9, <1>10, ThresholdsAssumption
<1>11. ASSUME F # {} PROVE Single(ever) # {}
  <2>1. Cardinality(S) # 0
    BY <1>5, <1>9, <1>11, ThresholdsAssumption
  <2>2. S # {}
    BY <2>1, FS_EmptySet
  <2> QED BY <2>2, <1>3
<1> QED BY <1>10, <1>11 DEF Rt, St, names

\* Backup tools.
LEMMA BackupSound ==
    ASSUME ReadInv, AllAnswered, reader = "backup", NEW F, F = BackupSignals(seen)
    PROVE  /\ Worst(F) = "passing" =>
                \/ \E d \in Sometime({"deployment"}) : RunsVelero(d) \/ d.namesController
                \/ \E c \in Sometime({"crd"}) : c.namesSnapshots
           /\ F # {} => \A d \in Steady({"deployment"}) : ~RunsVelero(d) /\ ~d.namesController
<1> DEFINE found == \/ \E d \in seen.deployment : IsVelero(d) \/ d.namesController
                    \/ \E c \in seen.crd : IsSnapshotCrd(c)
<1>1. Kinds(reader) = {"crd", "deployment"}
  BY AnswersBetween, ChecksList
<1>2. /\ Steady({"deployment"}) \subseteq seen.deployment /\ seen.deployment \subseteq Sometime({"deployment"})
      /\ seen.crd \subseteq Sometime({"crd"})
  BY <1>1 DEF AllAnswered, Answered, ReadInv, AnswersOK
<1>3. \A d : IsVelero(d) <=> RunsVelero(d)
  BY DEF IsVelero, RunsVelero
<1>4. found => F = {}
  BY DEF BackupSignals
<1>5. ~found => Worst(F) # "passing"
  <2>1. ~found => F = Findings("warning", {"no backup"})
    BY DEF BackupSignals, Findings
  <2> QED BY <2>1, OneLevel
<1> QED BY <1>2, <1>3, <1>4, <1>5 DEF IsSnapshotCrd

\* A check of one object after another blames what is not acceptable: every
\* object of its kinds that was there throughout the read, and only objects
\* that were there at some time of it.
LEMMA RolesSound ==
    ASSUME ReadInv, AllAnswered
    PROVE  /\ reader = "clusterAdmin" =>
                /\ About(ClusterAdminMisuse(seen)) \subseteq ever
                /\ Worst(ClusterAdminMisuse(seen)) = "passing" => \A o \in throughout : Acceptable(o)
           /\ reader = "wildcards" =>
                /\ About(WildcardPermissions(seen)) \subseteq ever
                /\ Worst(WildcardPermissions(seen)) = "passing" => \A o \in throughout : Acceptable(o)
<1> DEFINE B == {b \in seen.clusterRoleBinding \cup seen.roleBinding : Misused(b)}
           W == {r \in seen.clusterRole \cup seen.role : HasWildcard(r)}
<1>1. (Worst(ClusterAdminMisuse(seen)) = "passing" <=> B = {}) /\ About(ClusterAdminMisuse(seen)) = B
  BY OneLevel DEF ClusterAdminMisuse
<1>2. (Worst(WildcardPermissions(seen)) = "passing" <=> W = {}) /\ About(WildcardPermissions(seen)) = W
  BY OneLevel DEF WildcardPermissions
<1>3. /\ \A o \in throughout : o.kind \in Kinds(reader) /\ o \in seen[o.kind]
      /\ \A k \in Kinds(reader) : \A o \in seen[k] : o \in ever /\ o.kind = k
  BY AnswersBetween
<1>4. /\ reader = "clusterAdmin" => Kinds(reader) = {"clusterRoleBinding", "roleBinding"}
      /\ reader = "wildcards" => Kinds(reader) = {"clusterRole", "role"}
  BY AnswersBetween, ChecksList
<1>5. ASSUME reader = "clusterAdmin"
      PROVE  B \subseteq ever /\ (B = {} => \A o \in throughout : Acceptable(o))
  <2>1. ASSUME NEW o, ~Misused(o), o.kind \in {"clusterRoleBinding", "roleBinding"}
        PROVE  Acceptable(o)
    BY <1>5, <2>1 DEF Acceptable, Misused, IsClusterAdminBinding, IsSystemSubject
  <2> QED BY <1>3, <1>4, <1>5, <2>1
<1>6. ASSUME reader = "wildcards"
      PROVE  W \subseteq ever /\ (W = {} => \A o \in throughout : Acceptable(o))
  <2>1. ASSUME NEW o, ~HasWildcard(o) PROVE Acceptable(o)
    BY <1>6, <2>1 DEF Acceptable, HasWildcard
  <2> QED BY <1>3, <1>4, <1>6, <2>1
<1> QED BY <1>1, <1>2, <1>5, <1>6

\* Values that look secret.
LEMMA SecretsSound ==
    ASSUME ReadInv, AllAnswered
    PROVE  /\ reader = "secrets" =>
                /\ About(HardcodedSecrets(seen)) \subseteq ever
                /\ Worst(HardcodedSecrets(seen)) = "passing" => \A o \in throughout : Acceptable(o)
           /\ reader = "configMaps" =>
                /\ About(SecretsInConfigMaps(seen)) \subseteq ever
                /\ Worst(SecretsInConfigMaps(seen)) = "passing" => \A o \in throughout : Acceptable(o)
<1> DEFINE H == {w \in Scalable(seen) : Hardcodes(w)}
           M == {m \in seen.configMap : \E e \in m.data \cup m.binaryData : LooksSecret(e, 4)}
<1>1. (Worst(HardcodedSecrets(seen)) = "passing" <=> H = {}) /\ About(HardcodedSecrets(seen)) = H
  BY OneLevel DEF HardcodedSecrets
<1>2. (Worst(SecretsInConfigMaps(seen)) = "passing" <=> M = {}) /\ About(SecretsInConfigMaps(seen)) = M
  BY OneLevel DEF SecretsInConfigMaps
<1>3. /\ \A o \in throughout : o.kind \in Kinds(reader) /\ o \in seen[o.kind]
      /\ \A k \in Kinds(reader) : \A o \in seen[k] : o \in ever /\ o.kind = k
  BY AnswersBetween
<1>4. /\ reader = "secrets" => Kinds(reader) = {"deployment", "statefulSet"}
      /\ reader = "configMaps" => Kinds(reader) = {"configMap"}
  BY AnswersBetween, ChecksList
<1>5. \A e, least : Secret(e, least) <=> LooksSecret(e, least)
  BY DEF Secret, LooksSecret
<1>6. ASSUME reader = "secrets"
      PROVE  H \subseteq ever /\ (H = {} => \A o \in throughout : Acceptable(o))
  <2>1. ASSUME NEW o, ~Hardcodes(o) PROVE Acceptable(o)
    BY <1>5, <1>6, <2>1 DEF Acceptable, Hardcodes
  <2> QED BY <1>3, <1>4, <1>6, <2>1 DEF Scalable
<1>7. ASSUME reader = "configMaps"
      PROVE  M \subseteq ever /\ (M = {} => \A o \in throughout : Acceptable(o))
  <2>1. ASSUME NEW o, \A e \in o.data \cup o.binaryData : ~LooksSecret(e, 4) PROVE Acceptable(o)
    BY <1>5, <1>7, <2>1 DEF Acceptable
  <2> QED BY <1>3, <1>4, <1>7, <2>1
<1> QED BY <1>1, <1>2, <1>6, <1>7

\* Pods.
LEMMA PodsSound ==
    ASSUME ReadInv, AllAnswered
    PROVE  /\ reader = "privileged" =>
                /\ About(PrivilegedContainers(seen)) \subseteq ever
                /\ Worst(PrivilegedContainers(seen)) = "passing" => \A o \in throughout : Acceptable(o)
           /\ reader = "nonRoot" =>
                /\ About(RunAsNonRoot(seen)) \subseteq ever
                /\ Worst(RunAsNonRoot(seen)) = "passing" => \A o \in throughout : Acceptable(o)
           /\ reader = "capabilities" =>
                /\ About(CapabilitiesValidation(seen)) \subseteq ever
                /\ Worst(CapabilitiesValidation(seen)) = "passing" => \A o \in throughout : Acceptable(o)
<1> DEFINE Unsafe(c) == ~DropsAll(c) /\ \E a \in Range(c.add) : Capability[a] \in Dangerous
           P == {p \in seen.pod : \E c \in PodContainers(p) : c.privileged}
           N == {p \in seen.pod : \E c \in PodContainers(p) : ~RunsAsNonRoot(p, c)}
           C == {p \in seen.pod : \E c \in PodContainers(p) : Unsafe(c)}
<1>1. (Worst(PrivilegedContainers(seen)) = "passing" <=> P = {}) /\ About(PrivilegedContainers(seen)) = P
  BY OneLevel DEF PrivilegedContainers
<1>2. (Worst(RunAsNonRoot(seen)) = "passing" <=> N = {}) /\ About(RunAsNonRoot(seen)) = N
  BY OneLevel DEF RunAsNonRoot
<1>3. (Worst(CapabilitiesValidation(seen)) = "passing" <=> C = {}) /\ About(CapabilitiesValidation(seen)) = C
  BY OneLevel DEF CapabilitiesValidation
<1>4. ASSUME reader \in PodChecks PROVE seen.pod \subseteq ever /\ throughout \subseteq seen.pod
  <2>1. Kinds(reader) = {"pod"}
    BY <1>4, AnswersBetween, ChecksList
  <2> QED BY <2>1, AnswersBetween
<1>5. \A o : o.containers \subseteq PodContainers(o) /\ o.ephemerals \subseteq PodContainers(o)
  BY DEF PodContainers
<1>6. ASSUME reader = "privileged", NEW o, \A c \in PodContainers(o) : ~c.privileged PROVE Acceptable(o)
  BY <1>5, <1>6 DEF Acceptable
<1>7. ASSUME reader = "nonRoot", NEW o, \A c \in PodContainers(o) : RunsAsNonRoot(o, c) PROVE Acceptable(o)
  <2>1. \A c : RunsAsNonRoot(o, c) => c.nonRoot # "false" /\ (o.nonRoot # "true" => c.nonRoot = "true")
    BY DEF RunsAsNonRoot
  <2> QED BY <1>5, <1>7, <2>1 DEF Acceptable
<1>8. ASSUME reader = "capabilities", NEW o, \A c \in PodContainers(o) : ~Unsafe(c) PROVE Acceptable(o)
  <2>1. \A c : c.drop = <<>> => ~DropsAll(c)
    BY ThresholdsAssumption DEF DropsAll, Range
  <2>2. \A c : "SYS_ADMIN" \in {Capability[a] : a \in Range(c.add)} =>
                 \E a \in Range(c.add) : Capability[a] \in Dangerous
    BY DEF Dangerous
  <2>3. \A c \in o.containers : "SYS_ADMIN" \in {Capability[a] : a \in Range(c.add)} => c.drop # <<>>
    BY <1>5, <1>8, <2>1, <2>2
  <2> QED BY <1>8, <2>3 DEF Acceptable
<1> HIDE DEF Unsafe
<1>9. reader \in {"privileged", "nonRoot", "capabilities"} => reader \in PodChecks
  BY DEF PodChecks
<1> QED BY <1>1, <1>2, <1>3, <1>4, <1>6, <1>7, <1>8, <1>9

\* Requests in proportion to limits.
LEMMA RatiosSound ==
    ASSUME ReadInv, AllAnswered, reader = "ratios", NEW F, F = RequestLimitRatios(seen)
    PROVE  /\ About(F) \subseteq ever
           /\ Worst(F) = "passing" => \A o \in throughout : Acceptable(o)
<1> DEFINE W == {v \in Workloads(seen) : ResourceRelevant(v)}
           levels(w) == UNION {ContainerRatios(c) : c \in AllContainers(w)}
           Of(w) == {Finding(level, w) : level \in levels(w)}
<1>1. Kinds(reader) = {"deployment", "statefulSet", "daemonSet"}
  BY AnswersBetween, ChecksList
<1>2. /\ WorkloadObjects(throughout) \subseteq Workloads(seen) /\ Workloads(seen) \subseteq WorkloadObjects(ever)
      /\ WorkloadObjects(ever) \subseteq ever /\ \A w \in WorkloadObjects(ever) : ComputedWorkload(w)
  BY <1>1, WorkloadsBetween DEF Collecting, OperatorChecks
<1>3. throughout \subseteq WorkloadObjects(throughout)
  BY <1>1, AnswersBetween DEF WorkloadObjects, ScalableKinds
<1>4. F = UNION {Of(w) : w \in W}
  BY DEF RequestLimitRatios
<1>5. \A w : /\ \A f \in Of(w) : f.level \in levels(w) /\ f.about = w
             /\ \A level \in levels(w) : \E f \in Of(w) : f.level = level
  <2> TAKE w
  <2>1. \A level : Finding(level, w).level = level /\ Finding(level, w).about = w
    BY DEF Finding
  <2> HIDE DEF levels
  <2> QED BY <2>1
<1>6. \A w : levels(w) \subseteq {"failing", "warning"}
  BY DEF ContainerRatios, RatioLevels
<1>7. \A request, limit \in Amount : RatioLevels(request, limit) = {} => InProportion(request, limit)
  <2> TAKE request, limit \in Amount
  <2> SUFFICES ASSUME request # None, limit > 0, ~(request <= limit /\ limit <= 5 * request)
               PROVE  RatioLevels(request, limit) # {}
    BY DEF InProportion, Amount, None
  <2>1. request \in Nat /\ limit \in Nat
    BY DEF Amount, None
  <2>2. CASE request > limit \/ 20 * request < limit
    <3>1. "failing" \in RatioLevels(request, limit)
      BY <2>1, <2>2 DEF RatioLevels
    <3> QED BY <3>1
  <2>3. CASE ~(request > limit \/ 20 * request < limit)
    <3>1. "warning" \in RatioLevels(request, limit)
      BY <2>1, <2>3 DEF RatioLevels
    <3> QED BY <3>1
  <2> QED BY <2>2, <2>3
<1>8. ASSUME NEW w, ComputedWorkload(w), ResourceRelevant(w) => levels(w) = {} PROVE Acceptable(w)
  <2>1. ASSUME ResourceRelevant(w), NEW c \in AllContainers(w)
        PROVE  InProportion(c.cpu, c.cpuLimit) /\ InProportion(c.memory, c.memoryLimit)
    <3>1. ContainerRatios(c) = {}
      BY <1>8, <2>1
    <3>2. RatioLevels(c.cpu, c.cpuLimit) = {} /\ RatioLevels(c.memory, c.memoryLimit) = {}
      BY <3>1 DEF ContainerRatios
    <3>3. {c.cpu, c.memory, c.cpuLimit, c.memoryLimit} \subseteq Amount
      BY <1>8, <2>1 DEF ComputedWorkload
    <3> QED BY <1>7, <3>2, <3>3
  <2> QED BY <2>1 DEF Acceptable
<1> HIDE DEF levels, Of
<1>9. \A f \in F : \E w \in W : f \in Of(w)
  BY <1>4
<1>10. About(F) \subseteq ever
  BY <1>2, <1>5, <1>9 DEF About
<1>11. ASSUME Worst(F) = "passing", NEW o \in throughout PROVE Acceptable(o)
  <2>1. F = {}
    <3>1. \A f \in F : f.level \in {"failing", "warning"}
      BY <1>5, <1>6, <1>9
    <3> QED BY <3>1, <1>11, TwoLevels
  <2>2. \A w \in W : levels(w) = {}
    BY <1>4, <1>5, <2>1
  <2>3. o \in Workloads(seen) /\ ComputedWorkload(o)
    BY <1>2, <1>3
  <2> QED BY <1>8, <2>2, <2>3
<1> QED BY <1>10, <1>11

\* The deployments of the operator.
LEMMA DeploymentsBetween ==
    ASSUME ReadInv, AllAnswered, reader \in OperatorChecks
    PROVE  /\ throughout \subseteq seen.deployment /\ seen.deployment \subseteq ever
           /\ \A d \in seen.deployment : DeployedOperator(d)
           /\ NoOperator(seen) => OperatorDeployments(Steady({"deployment"})) = {}
           /\ OperatorDeployments(seen.deployment) \subseteq ever
           /\ \A d \in throughout : d.app = "kube9-operator" => d \in OperatorDeployments(seen.deployment)
<1>1. Kinds(reader) = {"deployment"}
  BY AnswersBetween, ChecksList
<1>2. throughout \subseteq seen.deployment /\ seen.deployment \subseteq ever /\ \A o \in ever : Fits(reader, o)
  BY <1>1, AnswersBetween
<1> QED BY <1>2 DEF Fits, OperatorDeployments, NoOperator, Steady

\* The operator's container is one of them.
LEMMA ContainerOf ==
    ASSUME NEW d, DeployedOperator(d), ~NoContainers(d)
    PROVE  OperatorContainer(d) \in Range(d.containers)
<1> DEFINE cs == d.containers
           named == {i \in DOMAIN cs : cs[i].name = "operator"}
           at == IF named = {} THEN 1 ELSE Min(named)
<1>1. cs \in Seq(Range(cs)) /\ cs # <<>>
  BY DEF DeployedOperator, IsTuple, NoContainers
<1>2. DOMAIN cs = 1..Len(cs) /\ Len(cs) \in Nat \ {0}
  <2> HIDE DEF cs
  <2> QED BY <1>1
<1>3. at \in DOMAIN cs
  <2>1. CASE named = {}
    BY <1>2, <2>1
  <2>2. CASE named # {}
    <3>1. named \subseteq Nat /\ named \subseteq DOMAIN cs
      BY <1>2
    <3> HIDE DEF named
    <3>2. PICK n \in named : \A m \in named : n <= m
      BY <2>2, <3>1, LeastOf
    <3>3. Min(named) \in named
      BY <3>1, <3>2 DEF Min
    <3> QED BY <2>2, <3>1, <3>3
  <2> QED BY <2>1, <2>2
<1>4. OperatorContainer(d) = cs[at]
  BY Zenon DEF OperatorContainer
<1> HIDE DEF cs, at
<1> QED BY <1>3, <1>4 DEF Range, cs

\* The strategy of the operator's roll-out.
LEMMA StrategySound ==
    ASSUME ReadInv, AllAnswered, reader = "strategy", NEW F, F = DeploymentStrategy(seen)
    PROVE  /\ About(F) \subseteq ever
           /\ Worst(F) = "passing" => \A o \in throughout : Acceptable(o)
<1> DEFINE ds == OperatorDeployments(seen.deployment)
           S == {d \in ds : StopsAllPods(d)}
           D == {d \in ds : d.deadline > 0 /\ d.deadline < 120}
<1>1. reader \in OperatorChecks
  BY DEF OperatorChecks
<1>2. F = Findings("failing", S) \cup Findings("warning", D)
  BY DEF DeploymentStrategy
<1> HIDE DEF S, D
<1>3. \A f \in F : f.level \in {"failing", "warning"} /\ f.about \in S \cup D
  BY <1>2, FindingsAre
<1>4. F = {} => S = {}
  BY <1>2, FindingsAre
<1>5. S \subseteq ever /\ D \subseteq ever
  BY <1>1, DeploymentsBetween DEF S, D
<1>6. ASSUME NEW d, DeployedOperator(d), d.app = "kube9-operator" => ~StopsAllPods(d)
      PROVE  Acceptable(d)
  <2>1. ASSUME d.app = "kube9-operator", d.replicas >= 2 PROVE LeftInRollout(d) >= 1
    <3>1. d.replicas \in Nat /\ d.maxUnavailable.value \in Nat
      BY <1>6, <2>1 DEF DeployedOperator, Amount, None
    <3>2. MaxUnavailable(d.replicas, d.maxUnavailable) \in Int
      <4>1. d.replicas * d.maxUnavailable.value \in Nat
        BY <3>1, ProductNat
      <4> DEFINE product == d.replicas * d.maxUnavailable.value
                 m == d.maxUnavailable
      <4>2. MaxUnavailable(d.replicas, m) \in
              {m.value, d.replicas, product \div 100, (d.replicas * 25) \div 100}
        BY DEF MaxUnavailable
      <4> HIDE DEF product
      <4>3. product \div 100 \in Int
        BY <4>1 DEF product
      <4> QED BY <3>1, <4>2, <4>3
    <3>3. ~StopsAllPods(d)
      BY <1>6, <2>1
    <3>4. /\ d.strategy # "Recreate"
          /\ ~(MaxUnavailable(d.replicas, d.maxUnavailable) >= d.replicas)
      BY <2>1, <3>1, <3>3 DEF StopsAllPods
    <3> QED BY <3>1, <3>2, <3>4 DEF LeftInRollout
  <2> QED BY <2>1 DEF Acceptable
<1>7. ASSUME Worst(F) = "passing", NEW o \in throughout PROVE Acceptable(o)
  <2>1. S = {}
    BY <1>3, <1>4, <1>7, TwoLevels
  <2> QED BY <1>1, <1>6, <2>1, DeploymentsBetween DEF S
<1> QED BY <1>3, <1>5, <1>7 DEF About

\* Probes and metrics of the operator.
LEMMA HttpSound ==
    ASSUME ReadInv, AllAnswered
    PROVE  /\ reader = "healthProbes" =>
                /\ About(HealthProbes(seen)) \subseteq ever
                /\ Worst(HealthProbes(seen)) = "passing" => \A o \in throughout : Acceptable(o)
           /\ reader = "metricsExposure" =>
                /\ About(MetricsExposure(seen)) \subseteq ever
                /\ Worst(MetricsExposure(seen)) = "passing" => \A o \in throughout : Acceptable(o)
<1> DEFINE ds == OperatorDeployments(seen.deployment)
           H == {d \in ds : HealthProblem(d)}
           Declared(d) == LET c == OperatorContainer(d)
                          IN  DeclaresPort(c.liveness, c) /\ DeclaresPort(c.readiness, c)
           probed == {d \in ds : ~NoContainers(d) /\ Http(OperatorContainer(d))}
           U == {d \in ds : d \in probed => ~Declared(d)}
           X == {d \in probed : d.scrape = "false"}
           M == MetricsExposure(seen)
<1>1. {"healthProbes", "metricsExposure"} \subseteq OperatorChecks
  BY DEF OperatorChecks
<1>2. (Worst(HealthProbes(seen)) = "passing" <=> H = {}) /\ About(HealthProbes(seen)) = H
  BY OneLevel DEF HealthProbes
<1>3. M = Findings("failing", U) \cup Findings("warning", X)
  BY Zenon DEF MetricsExposure
<1>4. ASSUME reader = "healthProbes", NEW d, DeployedOperator(d),
             d.app = "kube9-operator" => ~HealthProblem(d)
      PROVE  Acceptable(d)
  <2>1. ASSUME d.app = "kube9-operator"
        PROVE  LET c == OperatorContainer(d)
               IN  /\ c \in Range(d.containers) /\ c.liveness.http /\ c.readiness.http
                   /\ c.liveness.path = "/healthz" /\ c.liveness.port = c.readiness.port
    <3> DEFINE c == OperatorContainer(d)
    <3>1. ~NoContainers(d) /\ Http(c) /\ c.liveness.path = "/healthz"
          /\ ("none" \notin {c.liveness.port.by, c.readiness.port.by} => c.liveness.port = c.readiness.port)
      BY <1>4, <2>1 DEF HealthProblem
    <3>2. c \in Range(d.containers)
      BY <1>4, <3>1, ContainerOf
    <3>3. c.liveness.port.by # "none" /\ c.readiness.port.by # "none"
      BY <1>4, <3>1, <3>2 DEF DeployedOperator, Http
    <3> QED BY <3>1, <3>2, <3>3 DEF Http
  <2> QED BY <1>4, <2>1 DEF Acceptable
<1>5. ASSUME reader = "metricsExposure", NEW d, DeployedOperator(d),
             d.app = "kube9-operator" => ~NoContainers(d) /\ Http(OperatorContainer(d)) /\ Declared(d)
      PROVE  Acceptable(d)
  <2>1. ASSUME d.app = "kube9-operator"
        PROVE  LET c == OperatorContainer(d)
               IN  c \in Range(d.containers) /\ c.liveness.http /\ c.readiness.http /\ c.ports # {}
    BY <1>5, <2>1, ContainerOf DEF Http, DeclaresPort
  <2> QED BY <1>5, <2>1 DEF Acceptable
<1>6. ASSUME reader = "healthProbes"
      PROVE  H \subseteq ever /\ (H = {} => \A o \in throughout : Acceptable(o))
  BY <1>1, <1>4, <1>6, DeploymentsBetween
<1>7. ASSUME reader = "metricsExposure"
      PROVE  U \cup X \subseteq ever /\ (U = {} => \A o \in throughout : Acceptable(o))
  <2> HIDE DEF Declared
  <2>1. U \cup X \subseteq ever
    BY <1>1, <1>7, DeploymentsBetween
  <2>2. ASSUME U = {}, NEW o \in throughout PROVE Acceptable(o)
    BY <1>1, <1>5, <1>7, <2>2, DeploymentsBetween
  <2> QED BY <2>1, <2>2
<1> HIDE DEF U, X, H, M
<1>8. \A f \in M : f.level \in {"failing", "warning"} /\ f.about \in U \cup X
  BY <1>3, FindingsAre
<1>9. M = {} => U = {}
  BY <1>3, FindingsAre
<1>10. Worst(M) = "passing" => U = {}
  BY <1>8, <1>9, TwoLevels
<1>11. About(M) \subseteq U \cup X
  BY <1>8 DEF About
<1> QED BY <1>2, <1>6, <1>7, <1>10, <1>11 DEF M

\* Logging and the account of the operator.
LEMMA SignalsSound ==
    ASSUME ReadInv, AllAnswered
    PROVE  /\ reader = "logging" =>
                /\ About(LoggingConfiguration(seen)) \subseteq ever
                /\ Worst(LoggingConfiguration(seen)) = "passing" => \A o \in throughout : Acceptable(o)
           /\ reader = "audit" =>
                /\ About(AuditSignals(seen)) \subseteq ever
                /\ Worst(AuditSignals(seen)) = "passing" => \A o \in throughout : Acceptable(o)
<1> DEFINE ds == OperatorDeployments(seen.deployment)
           At(d, levels) == ~NoContainers(d) /\ OperatorContainer(d).logLevel \in levels
           U == {d \in ds : ~At(d, {"error", "warn", "info", "debug"})}
           X == {d \in ds : At(d, {"debug"})}
           Unsafe(d) == \/ NoContainers(d) \/ ~OperatorContainer(d).namespaceFromField
                        \/ AccountOf(d) \in {"", "default"}
           A == {d \in ds : Unsafe(d)}
           L == LoggingConfiguration(seen)
<1>1. {"logging", "audit"} \subseteq OperatorChecks
  BY DEF OperatorChecks
<1>2. (Worst(AuditSignals(seen)) = "passing" <=> A = {}) /\ About(AuditSignals(seen)) = A
  BY OneLevel DEF AuditSignals
<1>3. L = Findings("failing", U) \cup Findings("warning", X)
  BY Zenon DEF LoggingConfiguration
<1>4. ASSUME reader = "logging", NEW d, DeployedOperator(d),
             d.app = "kube9-operator" => At(d, {"error", "warn", "info", "debug"}) /\ ~At(d, {"debug"})
      PROVE  Acceptable(d)
  <2>1. ASSUME d.app = "kube9-operator"
        PROVE  /\ OperatorContainer(d) \in Range(d.containers)
               /\ OperatorContainer(d).logLevel \in {"error", "warn", "info"}
    BY <1>4, <2>1, ContainerOf
  <2> QED BY <1>4, <2>1 DEF Acceptable
<1>5. ASSUME reader = "audit", NEW d, d.app = "kube9-operator" => ~Unsafe(d)
      PROVE  Acceptable(d)
  BY <1>5 DEF Acceptable, AccountOf
<1>6. ASSUME reader = "audit"
      PROVE  A \subseteq ever /\ (A = {} => \A o \in throughout : Acceptable(o))
  <2> HIDE DEF Unsafe
  <2> QED BY <1>1, <1>5, <1>6, DeploymentsBetween
<1>7. ASSUME reader = "logging"
      PROVE  /\ U \cup X \subseteq ever
             /\ U = {} /\ X = {} => \A o \in throughout : Acceptable(o)
  <2> HIDE DEF At
  <2>1. U \cup X \subseteq ever
    BY <1>1, <1>7, DeploymentsBetween
  <2>2. ASSUME U = {}, X = {}, NEW o \in throughout PROVE Acceptable(o)
    BY <1>1, <1>4, <1>7, <2>2, DeploymentsBetween
  <2> QED BY <2>1, <2>2
<1> HIDE DEF U, X, A, L
<1>8. \A f \in L : f.level \in {"failing", "warning"} /\ f.about \in U \cup X
  BY <1>3, FindingsAre
<1>9. L = {} => U = {} /\ X = {}
  BY <1>3, FindingsAre
<1>10. Worst(L) = "passing" => U = {} /\ X = {}
  BY <1>8, <1>9, TwoLevels
<1>11. About(L) \subseteq U \cup X
  BY <1>8 DEF About
<1> QED BY <1>2, <1>6, <1>7, <1>10, <1>11 DEF L

\* How a read ends: a collector stores or drops its payload, a check gives a
\* status, is skipped or errs.
LEMMA OutcomeOf ==
    ASSUME ReadInv, phase = "done"
    PROVE  /\ reader \in Collecting => result.outcome \in {"stored", "rejected"}
           /\ reader \notin Collecting =>
                result.outcome \in {"passing", "warning", "failing", "skipped", "error"}
           /\ result.outcome = "skipped" => NotDefined \/ (AllAnswered /\ Skips(reader, seen))
<1>1. Errs \/ NotDefined \/ (AllAnswered /\ (MetadataMade \/ InventoryMade \/ PatternsMade \/ Verdict))
  BY DEF ReadInv, ResultOK
<1>2. CASE Errs
  BY <1>2 DEF Errs, Collecting
<1>3. CASE NotDefined
  BY <1>3 DEF NotDefined, Collecting
<1>4. CASE MetadataMade \/ InventoryMade \/ PatternsMade
  <2>1. \A valid, d : Stored(valid, d).outcome \in {"stored", "rejected"}
    BY DEF Stored
  <2>2. result.outcome \in {"stored", "rejected"} /\ reader \in Collecting
    BY <1>4, <2>1 DEF MetadataMade, InventoryMade, PatternsMade, Collecting
  <2> QED BY <2>2
<1>5. CASE AllAnswered /\ Verdict
  <2>1. reader \notin Collecting
    BY <1>5 DEF Verdict
  <2>2. CASE Skips(reader, seen)
    BY <1>5, <2>1, <2>2 DEF Verdict
  <2>3. CASE ~Skips(reader, seen)
    <3>1. result = [outcome |-> Worst(Judge(reader, seen)), data |-> Judge(reader, seen)]
      BY <1>5, <2>3, Zenon DEF Verdict
    <3>2. result.outcome \in {"passing", "warning", "failing"}
      BY <3>1, WorstIs
    <3> QED BY <2>1, <3>2
  <2> QED BY <2>2, <2>3
<1> QED BY <1>1, <1>2, <1>3, <1>4, <1>5

\* The findings of each check.
LEMMA JudgeIs ==
    /\ Judge("replicaCounts", seen) = ReplicaCounts(seen)
    /\ Judge("spread", seen) = SpreadAntiAffinity(seen)
    /\ Judge("budgets", seen) = PodDisruptionBudgets(seen)
    /\ Judge("requests", seen) = ResourceRequests(seen)
    /\ Judge("limits", seen) = ResourceLimits(seen)
    /\ Judge("probes", seen) = LivenessReadinessProbes(seen)
    /\ Judge("hpa", seen) = HpaSanity(seen)
    /\ Judge("vpa", seen) = VpaSanity(seen)
    /\ Judge("placement", seen) = NodePlacement(seen)
    /\ Judge("spot", seen) = SpotUsage(seen)
    /\ Judge("overProvisioning", seen) = OverProvisioning(seen)
    /\ Judge("governance", seen) = NamespaceGovernance(seen)
    /\ Judge("ratios", seen) = RequestLimitRatios(seen)
    /\ Judge("efficiency", seen) = ResourceEfficiency(seen)
    /\ Judge("consolidation", seen) = Consolidation(seen)
    /\ Judge("backup", seen) = BackupSignals(seen)
    /\ Judge("clusterAdmin", seen) = ClusterAdminMisuse(seen)
    /\ Judge("wildcards", seen) = WildcardPermissions(seen)
    /\ Judge("secrets", seen) = HardcodedSecrets(seen)
    /\ Judge("configMaps", seen) = SecretsInConfigMaps(seen)
    /\ Judge("externalSecrets", seen) = {}
    /\ Judge("privileged", seen) = PrivilegedContainers(seen)
    /\ Judge("nonRoot", seen) = RunAsNonRoot(seen)
    /\ Judge("capabilities", seen) = CapabilitiesValidation(seen)
    /\ Judge("strategy", seen) = DeploymentStrategy(seen)
    /\ Judge("healthProbes", seen) = HealthProbes(seen)
    /\ Judge("metricsExposure", seen) = MetricsExposure(seen)
    /\ Judge("logging", seen) = LoggingConfiguration(seen)
    /\ Judge("audit", seen) = AuditSignals(seen)
BY DEF Judge

\* The checks that judge one object after another, and the others.
LEMMA AcceptableIs ==
    ASSUME ReadInv, AllAnswered, reader \notin Collecting,
           Worst(Judge(reader, seen)) = "passing", NEW o \in throughout
    PROVE  Acceptable(o)
<1> DEFINE singly == {"ratios", "clusterAdmin", "wildcards", "secrets", "configMaps", "privileged",
                      "nonRoot", "capabilities", "strategy", "healthProbes", "metricsExposure",
                      "logging", "audit"}
<1>1. CASE reader = "ratios"
  BY <1>1, JudgeIs, RatiosSound
<1>2. CASE reader \in {"clusterAdmin", "wildcards"}
  BY <1>2, JudgeIs, RolesSound
<1>3. CASE reader \in {"secrets", "configMaps"}
  BY <1>3, JudgeIs, SecretsSound
<1>4. CASE reader \in {"privileged", "nonRoot", "capabilities"}
  BY <1>4, JudgeIs, PodsSound
<1>5. CASE reader = "strategy"
  BY <1>5, JudgeIs, StrategySound
<1>6. CASE reader \in {"healthProbes", "metricsExposure"}
  BY <1>6, JudgeIs, HttpSound
<1>7. CASE reader \in {"logging", "audit"}
  BY <1>7, JudgeIs, SignalsSound
<1>8. CASE reader \notin singly
  BY <1>8 DEF Acceptable
<1> QED BY <1>1, <1>2, <1>3, <1>4, <1>5, <1>6, <1>7, <1>8

\* A skipped check has nothing to judge.
LEMMA SkipsSound ==
    ASSUME ReadInv, phase = "done", result.outcome = "skipped"
    PROVE  \/ reader \in {"vpa", "externalSecrets"} /\ Steady({"crd"}) = {}
           \/ reader = "efficiency" /\ Allocatable(Steady({"node"})).cpu = 0
           \/ reader \in OperatorChecks /\ OperatorDeployments(Steady({"deployment"})) = {}
<1>1. CASE NotDefined
  BY <1>1 DEF NotDefined, Answered
<1>2. CASE AllAnswered /\ Skips(reader, seen)
  <2>1. CASE reader = "externalSecrets" /\ ExternalSecretsMissing(seen)
    <3>1. Kinds(reader) = {"crd"}
      BY <1>2, <2>1, AnswersBetween, ChecksList
    <3> QED BY <1>2, <2>1, <3>1 DEF AllAnswered, Answered, ExternalSecretsMissing
  <2>2. CASE reader = "efficiency" /\ NoCapacity(seen)
    BY <1>2, <2>2, EfficiencySound
  <2>3. CASE reader \in OperatorChecks /\ NoOperator(seen)
    BY <1>2, <2>3, DeploymentsBetween
  <2> QED BY <1>2, <2>1, <2>2, <2>3 DEF Skips
<1> QED BY <1>1, <1>2, OutcomeOf

\* PassIsSound, of every cluster: a check that passes has overlooked nothing
\* that was there during its whole read.
THEOREM PassTheorem == Spec => []PassIsSound
<1> DEFINE F == Judge(reader, seen)
<1>1. ReadInv => PassIsSound
  <2> SUFFICES ASSUME ReadInv PROVE PassIsSound
    OBVIOUS
  <2>1. ASSUME phase = "done", result.outcome = "passing"
        PROVE  AllAnswered /\ reader \notin Collecting /\ Worst(F) = "passing"
    <3>1. reader \notin Collecting
      BY <2>1, OutcomeOf
    <3> QED BY <2>1, <3>1, VerdictOf
  <2>2. ASSUME phase = "done", result.outcome = "passing" PROVE \A o \in throughout : Acceptable(o)
    BY <2>1, <2>2, AcceptableIs
  <2> HIDE DEF F
  <2>3. ASSUME phase = "done", result.outcome = "passing"
        PROVE  /\ reader = "efficiency" =>
                    WellUsed(FleetRequests(WorkloadObjects(ever)), Allocatable(Steady({"node"})))
               /\ reader = "consolidation" /\ Cardinality(Running(throughout)) >= MinDeployments =>
                    10 * Cardinality(Single(throughout)) < 6 * Cardinality({Identity(d) : d \in Running(ever)})
               /\ reader = "backup" =>
                    \/ \E d \in Sometime({"deployment"}) : RunsVelero(d) \/ d.namesController
                    \/ \E c \in Sometime({"crd"}) : c.namesSnapshots
               /\ reader \in {"spread", "budgets"} =>
                    \A w \in ScalableObjects(throughout) : HaRelevant(w) /\ ReplicasOr(w, 1) >= 2 =>
                      IF reader = "spread" THEN HasSpread(w) ELSE \E p \in Sometime({"pdb"}) : Guards(p, w)
               /\ reader = "replicaCounts" =>
                    \A w \in ScalableObjects(throughout) : HaRelevant(w) => w.replicas >= MinHaReplicas
               /\ reader = "requests" =>
                    \A w \in WorkloadObjects(throughout) : ResourceRelevant(w) => ~LacksRequests(w)
               /\ reader = "limits" =>
                    \A w \in WorkloadObjects(throughout) : ResourceRelevant(w) => ~LacksLimits(w)
               /\ reader = "probes" =>
                    \A w \in WorkloadObjects(throughout) : ProbeRelevant(w) =>
                      \A c \in Range(w.containers) : HasProbe(c.liveness) /\ HasProbe(c.readiness)
    <3>1. ASSUME reader = "efficiency"
          PROVE  WellUsed(FleetRequests(WorkloadObjects(ever)), Allocatable(Steady({"node"})))
      BY <2>1, <2>3, <3>1, JudgeIs, EfficiencySound DEF F
    <3>2. ASSUME reader = "consolidation", Cardinality(Running(throughout)) >= MinDeployments
          PROVE  10 * Cardinality(Single(throughout)) < 6 * Cardinality({Identity(d) : d \in Running(ever)})
      BY <2>1, <2>3, <3>2, JudgeIs, ConsolidationSound DEF F
    <3>3. ASSUME reader = "backup"
          PROVE  \/ \E d \in Sometime({"deployment"}) : RunsVelero(d) \/ d.namesController
                 \/ \E c \in Sometime({"crd"}) : c.namesSnapshots
      BY <2>1, <2>3, <3>3, JudgeIs, BackupSound DEF F
    <3>4. ASSUME reader \in {"spread", "budgets"}, NEW w \in ScalableObjects(throughout),
                 HaRelevant(w), ReplicasOr(w, 1) >= 2
          PROVE  IF reader = "spread" THEN HasSpread(w) ELSE \E p \in Sometime({"pdb"}) : Guards(p, w)
      BY <2>1, <2>3, <3>4, JudgeIs, SpreadSound, BudgetsSound DEF F
    <3>5. ASSUME reader = "replicaCounts", NEW w \in ScalableObjects(throughout), HaRelevant(w)
          PROVE  w.replicas >= MinHaReplicas
      BY <2>1, <2>3, <3>5, JudgeIs, ReplicaCountsSound DEF F
    <3>6. /\ reader = "requests" =>
               \A w \in WorkloadObjects(throughout) : ResourceRelevant(w) => ~LacksRequests(w)
          /\ reader = "limits" =>
               \A w \in WorkloadObjects(throughout) : ResourceRelevant(w) => ~LacksLimits(w)
          /\ reader = "probes" =>
               \A w \in WorkloadObjects(throughout) : ProbeRelevant(w) =>
                 \A c \in Range(w.containers) : HasProbe(c.liveness) /\ HasProbe(c.readiness)
      BY <2>1, <2>3, JudgeIs, ContainerChecksSound DEF F
    <3> QED BY <3>1, <3>2, <3>3, <3>4, <3>5, <3>6
  <2>4. ASSUME phase = "done", result.outcome = "passing"
        PROVE  /\ reader = "hpa" =>
                    \A h \in Steady({"hpa"}) : InScope(h) => Resolves(h, ever) /\ HpaNumbers(h)
               /\ reader = "vpa" => \A v \in Steady({"vpa"}) : InScope(v) => Resolves(v, ever)
               /\ reader = "placement" =>
                    \A w \in WorkloadObjects(throughout) : InScope(w) =>
                      /\ w.nodeName = "none"
                      /\ Constrained(w) => CanRun(w, Sometime({"node"})) # {}
                      /\ PlacedReplicas(w) >= 2 => HasSpread(w)
               /\ reader = "spot" /\ (\E n \in Steady({"node"}) : LooksSpot(n)) =>
                    \A w \in ScalableObjects(throughout) : ResourceRelevant(w) => TargetsSpot(w)
               /\ reader = "overProvisioning" =>
                    \A w \in WorkloadObjects(throughout) : ResourceRelevant(w) /\ w.replicas > 0 =>
                      PodCpu(w) < 4000 /\ PodMemory(w) < 16
               /\ reader = "governance" =>
                    \A q \in Steady({"quota"}) : InScope(q) => ~Exceeds(Demand(q.ns, throughout), q)
    <3>1. ASSUME reader = "hpa"
          PROVE  \A h \in Steady({"hpa"}) : InScope(h) => Resolves(h, ever) /\ HpaNumbers(h)
      BY <2>1, <2>4, <3>1, JudgeIs, HpaSound DEF F
    <3>2. ASSUME reader = "vpa"
          PROVE  \A v \in Steady({"vpa"}) : InScope(v) => Resolves(v, ever)
      BY <2>1, <2>4, <3>2, JudgeIs, VpaSound DEF F
    <3>3. ASSUME reader = "placement"
          PROVE  \A w \in WorkloadObjects(throughout) : InScope(w) =>
                   /\ w.nodeName = "none"
                   /\ Constrained(w) => CanRun(w, Sometime({"node"})) # {}
                   /\ PlacedReplicas(w) >= 2 => HasSpread(w)
      BY <2>1, <2>4, <3>3, JudgeIs, PlacementSound DEF F
    <3>4. ASSUME reader = "spot", \E n \in Steady({"node"}) : LooksSpot(n)
          PROVE  \A w \in ScalableObjects(throughout) : ResourceRelevant(w) => TargetsSpot(w)
      BY <2>1, <2>4, <3>4, JudgeIs, SpotSound DEF F
    <3>5. ASSUME reader = "overProvisioning"
          PROVE  \A w \in WorkloadObjects(throughout) : ResourceRelevant(w) /\ w.replicas > 0 =>
                   PodCpu(w) < 4000 /\ PodMemory(w) < 16
      BY <2>1, <2>4, <3>5, JudgeIs, OverSound DEF F
    <3>6. ASSUME reader = "governance"
          PROVE  \A q \in Steady({"quota"}) : InScope(q) => ~Exceeds(Demand(q.ns, throughout), q)
      BY <2>1, <2>4, <3>6, JudgeIs, GovernanceSound DEF F
    <3> QED BY <3>1, <3>2, <3>3, <3>4, <3>5, <3>6
  <2> QED BY <2>2, <2>3, <2>4, SkipsSound, Zenon DEF PassIsSound
<1> QED BY <1>1, ReadInvariance, PTL

\* The workload checks blame workloads, and the others that blame objects
\* blame objects of the cluster.
LEMMA BlamesObjects ==
    ASSUME ReadInv, AllAnswered, reader \notin Collecting, NEW F, F = Judge(reader, seen)
    PROVE  /\ reader \in {"spread", "budgets", "replicaCounts", "requests", "limits", "probes",
                          "spot", "overProvisioning"} => About(F) \subseteq WorkloadObjects(ever)
           /\ reader \notin {"hpa", "vpa", "placement", "efficiency", "consolidation", "backup", "governance"} =>
                About(F) \subseteq ever
<1>1. WorkloadObjects(ever) \subseteq ever
  BY WorkloadsBetween
<1>2. CASE reader \in {"spread", "budgets", "replicaCounts"}
  BY <1>1, <1>2, JudgeIs, SpreadSound, BudgetsSound, ReplicaCountsSound
<1>3. CASE reader \in {"requests", "limits", "probes"}
  BY <1>1, <1>3, JudgeIs, ContainerChecksSound
<1>4. CASE reader = "spot"
  BY <1>1, <1>4, JudgeIs, SpotSound
<1>5. CASE reader = "overProvisioning"
  BY <1>1, <1>5, JudgeIs, OverSound
<1>6. CASE reader = "ratios"
  BY <1>6, JudgeIs, RatiosSound
<1>7. CASE reader \in {"clusterAdmin", "wildcards"}
  BY <1>7, JudgeIs, RolesSound
<1>8. CASE reader \in {"secrets", "configMaps"}
  BY <1>8, JudgeIs, SecretsSound
<1>9. CASE reader \in PodChecks
  BY <1>9, JudgeIs, PodsSound DEF PodChecks
<1>10. CASE reader = "strategy"
  BY <1>10, JudgeIs, StrategySound
<1>11. CASE reader \in {"healthProbes", "metricsExposure"}
  BY <1>11, JudgeIs, HttpSound
<1>12. CASE reader \in {"logging", "audit"}
  BY <1>12, JudgeIs, SignalsSound
<1>13. CASE reader = "externalSecrets"
  <2>1. F = {}
    BY <1>13, JudgeIs
  <2> QED BY <2>1, <1>13 DEF About
<1>14. CASE reader \in {"hpa", "vpa", "placement", "efficiency", "consolidation", "backup", "governance"}
  BY <1>14
<1>15. reader \in {"replicaCounts", "spread", "budgets", "hpa", "vpa", "spot", "requests", "limits", "probes",
                   "overProvisioning", "placement", "ratios", "efficiency", "backup", "clusterAdmin",
                   "wildcards", "configMaps", "governance", "strategy", "healthProbes", "metricsExposure",
                   "logging", "audit", "secrets", "externalSecrets", "consolidation"} \cup PodChecks
  BY AnswersBetween DEF Known, CheckKinds, OperatorChecks
<1> QED BY <1>2, <1>3, <1>4, <1>5, <1>6, <1>7, <1>8, <1>9, <1>10, <1>11, <1>12, <1>13, <1>14, <1>15

\* BlameIsSound, of every cluster: a check that warns or fails blames objects
\* that were there at some time of its read, and rightly so.
THEOREM BlameTheorem == Spec => []BlameIsSound
<1> DEFINE F == Judge(reader, seen)
<1>1. ReadInv => BlameIsSound
  <2> SUFFICES ASSUME ReadInv, phase = "done", result.outcome \in {"warning", "failing"}
               PROVE  BlameIsSound
    BY DEF BlameIsSound
  <2>1. AllAnswered /\ reader \notin Collecting /\ result.outcome = Worst(F) /\ Blamed = About(F) /\ F # {}
    <3>1. reader \notin Collecting
      BY OutcomeOf
    <3>2. AllAnswered /\ result.data = F /\ result.outcome = Worst(F)
      BY <3>1, VerdictOf
    <3>3. F # {}
      BY <3>2, TwoLevels
    <3> QED BY <3>1, <3>2, <3>3 DEF Blamed, About
  <2>2. /\ reader \in {"spread", "budgets", "replicaCounts", "requests", "limits", "probes",
                       "spot", "overProvisioning"} => Blamed \subseteq WorkloadObjects(ever)
        /\ reader \notin {"hpa", "vpa", "placement", "efficiency", "consolidation", "backup", "governance"} =>
             Blamed \subseteq ever
    BY <2>1, BlamesObjects
  <2> HIDE DEF F
  <2>3. reader = "efficiency" =>
          ~WellUsed(FleetRequests(WorkloadObjects(throughout)), Allocatable(Sometime({"node"})))
    BY <2>1, JudgeIs, EfficiencySound DEF F
  <2>4. reader = "consolidation" => Single(ever) # {}
    BY <2>1, JudgeIs, ConsolidationSound DEF F
  <2>5. reader = "backup" => \A d \in Steady({"deployment"}) : ~RunsVelero(d) /\ ~d.namesController
    BY <2>1, JudgeIs, BackupSound DEF F
  <2>6. reader = "budgets" =>
          \A w \in Blamed, p \in Steady({"pdb"}) : ~(DOMAIN p.labels # {} /\ p.exprs = {} /\ Guards(p, w))
    BY <2>1, JudgeIs, BudgetsSound DEF F
  <2>7. reader = "hpa" =>
          IF result.outcome = "failing"
          THEN \A h \in Blamed : h \in ever /\ ~(Resolves(h, throughout) /\ HpaNumbers(h))
          ELSE /\ Blamed \subseteq {Key(w) : w \in ScalableObjects(ever)}
               /\ \A h \in Steady({"hpa"}) : InScope(h) => Target(h) \notin Blamed
    BY <2>1, JudgeIs, HpaSound DEF F
  <2>8. reader = "vpa" /\ result.outcome = "failing" =>
          \A v \in Blamed : v \in ever /\ ~(Resolves(v, throughout) /\ v.mode \in UpdateModes)
    BY <2>1, JudgeIs, VpaSound DEF F
  <2>9. reader = "placement" /\ Sometime({"node"}) # {} /\ result.outcome = "failing" =>
          \E w \in Blamed : w.nodeName # "none" \/ CanRun(w, Steady({"node"})) = {}
    BY <2>1, JudgeIs, PlacementSound DEF F
  <2>10. reader = "spot" =>
           /\ \E n \in Sometime({"node"}) : LooksSpot(n)
           /\ result.outcome = "failing" =>
                \A w \in ScalableObjects(throughout) : ResourceRelevant(w) => ~TargetsSpot(w)
    BY <2>1, JudgeIs, SpotSound DEF F
  <2>11. reader = "governance" /\ result.outcome = "failing" =>
           \E q \in Sometime({"quota"}) : Exceeds(Demand(q.ns, ever), q)
    BY <2>1, JudgeIs, GovernanceSound DEF F
  <2> QED BY <2>2, <2>3, <2>4, <2>5, <2>6, <2>7, <2>8, <2>9, <2>10, <2>11, Zenon DEF BlameIsSound
<1> QED BY <1>1, ReadInvariance, PTL

-----------------------------------------------------------------------------
(* The shapes of the payloads, and their validation.                       *)

\* An array of arrays, flattened, is an array of what they hold.
LEMMA FlattenedIs ==
    ASSUME NEW T, NEW s \in Seq(Seq(T)) PROVE FlattenSeq(s) \in Seq(T)
<1> DEFINE n == Len(s)
           Flat(f, i) == f[i] = IF i = 1 THEN s[i] ELSE f[i - 1] \o s[i]
           Flattens(m) == \E f : DOMAIN f = 1..m /\ \A i \in 1..m : Flat(f, i)
<1>1. n \in Nat /\ \A i \in 1..n : s[i] \in Seq(T)
  OBVIOUS
<1>2. CASE n = 0
  BY <1>2 DEF FlattenSeq
<1>3. CASE n # 0
  <2>1. \A m \in 1..n : Flattens(m)
    <3> DEFINE Bad == {m \in 1..n : ~Flattens(m)}
    <3> SUFFICES ASSUME Bad # {} PROVE FALSE
      OBVIOUS
    <3>1. Bad \subseteq Nat
      OBVIOUS
    <3> HIDE DEF Bad
    <3>2. PICK m \in Bad : \A k \in Bad : m <= k
      BY <3>1, LeastOf
    <3> USE DEF Bad
    <3>3. m \in 1..n /\ ~Flattens(m)
      OBVIOUS
    <3>4. CASE m = 1
      <4> DEFINE f == [i \in 1..1 |-> s[1]]
      <4>1. DOMAIN f = 1..1 /\ \A i \in 1..1 : Flat(f, i)
        OBVIOUS
      <4> HIDE DEF f
      <4>2. Flattens(1)
        BY <4>1
      <4> QED BY <3>3, <3>4, <4>2
    <3>5. CASE m # 1
      <4>1. m - 1 \in 1..n /\ ~(m <= m - 1)
        BY <3>3, <3>5
      <4>2. Flattens(m - 1)
        BY <3>2, <4>1
      <4>3. PICK f : DOMAIN f = 1..(m - 1) /\ \A i \in 1..(m - 1) : Flat(f, i)
        BY <4>2
      <4> DEFINE last == f[m - 1] \o s[m]
                 g == [i \in 1..m |-> IF i = m THEN last ELSE f[i]]
      <4> HIDE DEF last
      <4>4. DOMAIN g = 1..m
        OBVIOUS
      <4>5. ASSUME NEW i \in 1..m PROVE Flat(g, i)
        <5>1. CASE i = m
          <6>1. m - 1 \in 1..m /\ m - 1 # m
            BY <3>3, <3>5
          <6>2. g[m] = last /\ g[m - 1] = f[m - 1]
            BY <3>3, <6>1
          <6> HIDE DEF g
          <6> QED BY <3>5, <5>1, <6>2 DEF last
        <5>2. CASE i # m
          <6>1. i \in 1..(m - 1) /\ (i # 1 => i - 1 \in 1..m /\ i - 1 # m)
            BY <3>3, <5>2
          <6>2. Flat(f, i) /\ g[i] = f[i] /\ (i # 1 => g[i - 1] = f[i - 1])
            BY <4>3, <5>2, <6>1
          <6> QED BY <6>2
        <5> QED BY <5>1, <5>2
      <4> HIDE DEF g, Flat
      <4>6. Flattens(m)
        BY <4>4, <4>5
      <4> QED BY <3>3, <4>6
    <3> QED BY <3>4, <3>5
  <2> DEFINE h == CHOOSE f : f = [i \in 1..n |-> IF i = 1 THEN s[i] ELSE f[i - 1] \o s[i]]
  <2>2. h = [i \in 1..n |-> IF i = 1 THEN s[i] ELSE h[i - 1] \o s[i]]
    <3>1. PICK f : DOMAIN f = 1..n /\ \A i \in 1..n : Flat(f, i)
      <4>1. n \in 1..n
        BY <1>1, <1>3
      <4> QED BY <2>1, <4>1
    <3> DEFINE g == [i \in 1..n |-> f[i]]
    <3>2. \A i \in 1..n : g[i] = f[i] /\ (i # 1 => g[i - 1] = f[i - 1])
      BY <1>1
    <3>3. g = [i \in 1..n |-> IF i = 1 THEN s[i] ELSE g[i - 1] \o s[i]]
      <4>1. \A i \in 1..n : g[i] = IF i = 1 THEN s[i] ELSE g[i - 1] \o s[i]
        BY <3>1, <3>2
      <4>2. g = [i \in 1..n |-> g[i]]
        OBVIOUS
      <4> HIDE DEF g
      <4> QED BY <4>1, <4>2
    <3> HIDE DEF g
    <3> QED BY <3>3, Zenon
  <2>3. FlattenSeq(s) = h[n]
    BY <1>3, Zenon DEF FlattenSeq
  <2> HIDE DEF h
  <2>4. \A i \in 1..n : h[i] = IF i = 1 THEN s[i] ELSE h[i - 1] \o s[i]
    BY <2>2
  <2>5. \A i \in 1..n : h[i] \in Seq(T)
    <3> DEFINE Bad == {m \in 1..n : h[m] \notin Seq(T)}
    <3> SUFFICES ASSUME Bad # {} PROVE FALSE
      OBVIOUS
    <3>1. Bad \subseteq Nat
      OBVIOUS
    <3> HIDE DEF Bad
    <3>2. PICK m \in Bad : \A k \in Bad : m <= k
      BY <3>1, LeastOf
    <3> USE DEF Bad
    <3>3. m \in 1..n /\ h[m] \notin Seq(T)
      OBVIOUS
    <3>4. m # 1
      BY <1>1, <2>4, <3>3
    <3>5. m - 1 \in 1..n /\ ~(m <= m - 1)
      BY <3>3, <3>4
    <3>6. h[m - 1] \in Seq(T)
      BY <3>2, <3>5
    <3>7. h[m] = h[m - 1] \o s[m]
      BY <2>4, <3>3, <3>4
    <3> QED BY <1>1, <3>3, <3>6, <3>7
  <2>6. n \in 1..n
    BY <1>1, <1>3
  <2> QED BY <2>3, <2>5, <2>6
<1> QED BY <1>2, <1>3

\* A function on 1..n is an array of its values.
LEMMA ArrayIs == ASSUME NEW T, NEW n \in Nat, NEW f \in [1..n -> T] PROVE f \in Seq(T)
OBVIOUS

\* What is counted in a finite set is a natural number.
LEMMA PartCount ==
    ASSUME NEW S, IsFiniteSet(S), NEW A \in SUBSET S PROVE IsFiniteSet(A) /\ Cardinality(A) \in Nat
BY FS_Subset, FS_CardinalityType

\* The arrays of the patterns.
LEMMA ResourcesTyped ==
    ASSUME NEW cs, IsFiniteSet(cs), \A c \in cs : It(c) \in ListedContainers
    PROVE  /\ ContainerResources(cs) \in ResourceLimitsRequestsData
           /\ ImagePullPolicy(cs) \in ImagePullPoliciesData
<1> DEFINE n == Cardinality(cs)
           s == SetToSeq(cs)
<1>1. n \in Nat /\ Len(s) = n /\ s \in [1..n -> cs]
  BY ArrayOf
<1> HIDE DEF n, s
<1>2. \A i \in 1..n : /\ It(s[i]).cpu[1] \in Setting /\ It(s[i]).cpu[2] \in Setting
                      /\ It(s[i]).memory[1] \in Setting /\ It(s[i]).memory[2] \in Setting
  BY <1>1 DEF ListedContainers
<1>3. /\ [i \in 1..n |-> It(s[i]).cpu[1]] \in Seq(Setting)
      /\ [i \in 1..n |-> It(s[i]).cpu[2]] \in Seq(Setting)
      /\ [i \in 1..n |-> It(s[i]).memory[1]] \in Seq(Setting)
      /\ [i \in 1..n |-> It(s[i]).memory[2]] \in Seq(Setting)
  BY <1>1, <1>2
<1>4. ContainerResources(cs) =
        [cpuRequests |-> [i \in 1..n |-> It(s[i]).cpu[1]], cpuLimits |-> [i \in 1..n |-> It(s[i]).cpu[2]],
         memoryRequests |-> [i \in 1..n |-> It(s[i]).memory[1]],
         memoryLimits |-> [i \in 1..n |-> It(s[i]).memory[2]], totalCount |-> n]
  BY <1>1 DEF ContainerResources, Each, n, s
<1>5. ContainerResources(cs) \in ResourceLimitsRequestsData
  BY <1>1, <1>3, <1>4 DEF ResourceLimitsRequestsData, Setting
<1>6. ImagePullPolicy(cs).policies \in [PolicyKeys -> Nat]
  <2> DEFINE of(v) == {c \in cs : (IF It(c).policy \in Policies THEN It(c).policy ELSE "notSet") = v}
  <2>1. \A v : Cardinality(of(v)) \in Nat
    BY PartCount
  <2>2. ImagePullPolicy(cs).policies = [v \in PolicyKeys |-> Cardinality(of(v))]
    BY DEF ImagePullPolicy, Tally
  <2> HIDE DEF of
  <2> QED BY <2>1, <2>2
<1>7. ImagePullPolicy(cs) = [policies |-> ImagePullPolicy(cs).policies, totalContainers |-> n]
  BY DEF ImagePullPolicy, n
<1>8. ImagePullPolicy(cs) \in ImagePullPoliciesData
  BY <1>1, <1>6, <1>7 DEF ImagePullPoliciesData
<1> QED BY <1>5, <1>8

\* The settings and capabilities of pods and containers.
LEMMA SecurityTyped ==
    ASSUME NEW cs, IsFiniteSet(cs), \A c \in cs : It(c) \in ListedContainers,
           NEW pods, IsFiniteSet(pods)
    PROVE  SecurityContexts(pods, cs) \in SecurityContextsData
<1> DEFINE n == Cardinality(cs)
           s == SetToSeq(cs)
           x == SecurityContexts(pods, cs)
           added == [i \in 1..n |-> It(s[i]).added]
           dropped == [i \in 1..n |-> It(s[i]).dropped]
<1>1. n \in Nat /\ Len(s) = n /\ s \in [1..n -> cs] /\ Cardinality(pods) \in Nat
  BY ArrayOf
<1>2. Each(cs, LAMBDA c : It(c).added) = added /\ Each(cs, LAMBDA c : It(c).dropped) = dropped
  BY <1>1 DEF Each
<1> HIDE DEF n, s
<1>3. added \in Seq(Seq(STRING)) /\ dropped \in Seq(Seq(STRING))
  <2>1. \A i \in 1..n : It(s[i]).added \in Seq(STRING) /\ It(s[i]).dropped \in Seq(STRING)
    BY <1>1 DEF ListedContainers
  <2> QED BY <1>1, <2>1
<1> HIDE DEF added, dropped
<1>4. FlattenSeq(added) \in Seq(STRING) /\ FlattenSeq(dropped) \in Seq(STRING)
  BY <1>3, FlattenedIs
<1> DEFINE podsOf(k, v) == {p \in pods : p[k] = v}
           csOf(k, v) == {c \in cs : It(c)[k] = v}
<1>5. \A k, v : Cardinality(podsOf(k, v)) \in Nat /\ Cardinality(csOf(k, v)) \in Nat
  BY PartCount
<1>6. x = [podLevel |-> [runAsNonRoot |-> [v \in TriKeys |-> Cardinality(podsOf("nonRoot", v))],
                         fsGroup |-> [v \in {"set", "notSet"} |-> Cardinality(podsOf("fsGroup", v))]],
           containerLevel |-> [runAsNonRoot |-> [v \in TriKeys |-> Cardinality(csOf("nonRoot", v))],
                               readOnlyRootFilesystem |-> [v \in TriKeys |-> Cardinality(csOf("readOnly", v))],
                               allowPrivilegeEscalation |-> [v \in TriKeys |-> Cardinality(csOf("escalation", v))],
                               added |-> FlattenSeq(added), dropped |-> FlattenSeq(dropped)],
           totalPods |-> Cardinality(pods), totalContainers |-> n]
  BY <1>2 DEF SecurityContexts, Tally, n
<1> HIDE DEF podsOf, csOf, x
<1> QED BY <1>1, <1>4, <1>5, <1>6 DEF SecurityContextsData, x

\* The arrays of the other parts of the patterns.
LEMMA VolumesTyped ==
    ASSUME NEW pods, IsFiniteSet(pods), \A p \in pods : ListedPod(p), IsFiniteSet(PodVolumes(pods))
    PROVE  Volumes(pods) \in VolumesData
<1> DEFINE n == Cardinality(pods)
           s == SetToSeq(pods)
           of(t) == {v \in PodVolumes(pods) : v.pod.volumes[v.at] = t}
<1>1. n \in Nat /\ Len(s) = n /\ s \in [1..n -> pods]
  BY ArrayOf
<1>2. Volumes(pods) = [volumeTypes |-> [t \in VolumeTypes |-> Cardinality(of(t))],
                       volumesPerPod |-> [i \in 1..n |-> Len(s[i].volumes)],
                       volumeMountsPerContainer |-> <<>>, totalPods |-> n]
  BY <1>1 DEF Volumes, Tally, Each
<1>3. \A t : Cardinality(of(t)) \in Nat
  BY PartCount
<1> HIDE DEF n, s, of
<1>4. [i \in 1..n |-> Len(s[i].volumes)] \in Seq(Nat)
  <2>1. \A i \in 1..n : Len(s[i].volumes) \in Nat
    BY <1>1 DEF ListedPod
  <2> QED BY <1>1, <2>1
<1>5. <<>> \in Seq(Nat)
  OBVIOUS
<1> QED BY <1>1, <1>2, <1>3, <1>4, <1>5 DEF VolumesData

\* Services.
LEMMA ServicesTyped ==
    ASSUME NEW items, IsFiniteSet(items), \A o \in items : o.ports \in Nat
    PROVE  Services(items) \in ServicesData
<1> DEFINE n == Cardinality(items)
           s == SetToSeq(items)
           of(t) == {o \in items : TypeOf(o) = t}
<1>1. n \in Nat /\ Len(s) = n /\ s \in [1..n -> items]
  BY ArrayOf
<1>2. Services(items) = [serviceTypes |-> [t \in ServiceTypes |-> Cardinality(of(t))],
                         portsPerService |-> [i \in 1..n |-> s[i].ports], totalServices |-> n]
  BY <1>1 DEF Services, Tally, Each
<1>3. \A t : Cardinality(of(t)) \in Nat
  BY PartCount
<1> HIDE DEF n, s, of
<1>4. [i \in 1..n |-> s[i].ports] \in Seq(Nat)
  BY <1>1
<1> QED BY <1>1, <1>2, <1>3, <1>4 DEF ServicesData

\* The replicas that are set.
LEMMA ReplicasTyped ==
    ASSUME NEW items, IsFiniteSet(items), \A o \in items : o.replicas \in Setting
    PROVE  ReplicasOf(items) \in Seq(Nat)
<1> DEFINE set == {o \in items : o.replicas # NotSet}
           n == Cardinality(set)
           s == SetToSeq(set)
<1>1. IsFiniteSet(set)
  BY PartCount
<1>2. n \in Nat /\ Len(s) = n /\ s \in [1..n -> set]
  BY <1>1, ArrayOf
<1>3. \A o \in set : o.replicas \in Nat
  BY DEF Setting, NotSet
<1>4. ReplicasOf(items) = [i \in 1..n |-> s[i].replicas]
  BY <1>2 DEF ReplicasOf, Each
<1> HIDE DEF set, n, s
<1> QED BY <1>2, <1>3, <1>4

\* Labels and annotations.
LEMMA LabelsTyped ==
    ASSUME NEW answers, \A k \in {"pod", "deployment", "service"} :
             IsFiniteSet(answers[k]) /\ \A o \in answers[k] : o.labels \in Nat /\ o.annotations \in Nat
    PROVE  LabelsAnnotations(answers) \in LabelsAnnotationsData
<1> DEFINE items == [pods |-> answers.pod, deployments |-> answers.deployment, services |-> answers.service]
           s(k) == SetToSeq(items[k])
           n(k) == Len(s(k))
           L == [k \in Counted |-> [i \in 1..n(k) |-> s(k)[i].labels]]
           A == [k \in Counted |-> [i \in 1..n(k) |-> s(k)[i].annotations]]
<1>1. ASSUME NEW k \in Counted
      PROVE  IsFiniteSet(items[k]) /\ \A o \in items[k] : o.labels \in Nat /\ o.annotations \in Nat
  BY DEF Counted
<1>2. LabelsAnnotations(answers) = [labelCounts |-> L, annotationCounts |-> A, commonLabelKeys |-> <<>>]
  BY DEF LabelsAnnotations, Each
<1> HIDE DEF items
<1>3. ASSUME NEW k \in Counted
      PROVE  /\ [i \in 1..n(k) |-> s(k)[i].labels] \in Seq(Nat)
             /\ [i \in 1..n(k) |-> s(k)[i].annotations] \in Seq(Nat)
  <2>1. n(k) \in Nat /\ s(k) \in [1..n(k) -> items[k]]
    BY <1>1, ArrayOf
  <2>2. ASSUME NEW m \in Nat, NEW q \in [1..m -> items[k]]
        PROVE  [i \in 1..m |-> q[i].labels] \in Seq(Nat) /\ [i \in 1..m |-> q[i].annotations] \in Seq(Nat)
    BY <1>1
  <2> HIDE DEF n, s
  <2> QED BY <2>1, <2>2
<1> HIDE DEF n, s
<1>4. L \in [Counted -> Seq(Nat)] /\ A \in [Counted -> Seq(Nat)]
  BY <1>3
<1>5. <<>> \in Seq(STRING)
  OBVIOUS
<1> HIDE DEF L, A
<1> QED BY <1>2, <1>4, <1>5 DEF LabelsAnnotationsData

\* Probes.
LEMMA ProbesTyped ==
    ASSUME NEW cs, IsFiniteSet(cs), \A c \in cs : It(c) \in ListedContainers
    PROVE  Probes(cs) \in ProbesData
<1>1. ASSUME NEW name \in {"liveness", "readiness", "startup"}
      PROVE  ProbeConfig(cs, name) \in ProbeConfigData
  <2> DEFINE with == {c \in cs : It(c).probes[name].handler # "missing"}
             timed(f) == {c \in with : It(c).probes[name][f] # NotSet}
             s(f) == SetToSeq(timed(f))
             n(f) == Len(s(f))
             times(f) == [i \in 1..n(f) |-> It(s(f)[i]).probes[name][f]]
             of(t) == {c \in with : It(c).probes[name].handler = t}
  <2>1. ProbeConfig(cs, name) =
          [configured |-> Cardinality(with), notConfigured |-> Cardinality(cs \ with),
           probeTypes |-> [t \in ProbeTypes |-> Cardinality(of(t))],
           initialDelaySeconds |-> times("delay"), timeoutSeconds |-> times("timeout"),
           periodSeconds |-> times("period")]
    BY DEF ProbeConfig, Tally, Each
  <2>2. Cardinality(with) \in Nat /\ Cardinality(cs \ with) \in Nat /\ \A t : Cardinality(of(t)) \in Nat
    <3>1. with \subseteq cs /\ (cs \ with) \subseteq cs /\ \A t : of(t) \subseteq cs
      OBVIOUS
    <3> HIDE DEF with, of
    <3> QED BY <3>1, PartCount
  <2>3. ASSUME NEW f \in {"delay", "timeout", "period"} PROVE times(f) \in Seq(Nat)
    <3>1. IsFiniteSet(timed(f))
      <4>1. timed(f) \subseteq cs
        OBVIOUS
      <4> QED BY <4>1, PartCount
    <3>2. \A c \in timed(f) : It(c).probes[name][f] \in Nat
      <4>1. \A c \in cs : It(c).probes[name][f] \in Setting
        BY DEF ListedContainers, ListedProbes
      <4> QED BY <4>1 DEF Setting, NotSet
    <3> HIDE DEF timed
    <3>3. n(f) \in Nat /\ s(f) \in [1..n(f) -> timed(f)]
      BY <3>1, ArrayOf
    <3>4. ASSUME NEW m \in Nat, NEW q \in [1..m -> timed(f)]
          PROVE  [i \in 1..m |-> It(q[i]).probes[name][f]] \in Seq(Nat)
      BY <3>2
    <3> HIDE DEF n, s
    <3> QED BY <3>3, <3>4
  <2> HIDE DEF with, of, times
  <2> QED BY <2>1, <2>2, <2>3 DEF ProbeConfigData
<1>2. Cardinality(cs) \in Nat
  BY FS_CardinalityType
<1> QED BY <1>1, <1>2 DEF Probes, ProbesData

\* The patterns have the shape that types.ts declares.
LEMMA PatternsTyped ==
    ASSUME ReadInv, reader = "patterns", AllAnswered
    PROVE  PatternsOf(seen) \in ResourceConfigurationPatternsData
<1> DEFINE cs == Containers(seen.pod)
<1>1. Kinds(reader) = {"pod", "deployment", "statefulSet", "daemonSet", "service"}
  BY CollectorsList
<1>2. \A k \in {"pod", "deployment", "statefulSet", "daemonSet", "service"} :
        IsFiniteSet(seen[k]) /\ Cardinality(seen[k]) \in Nat /\ \A o \in seen[k] : o.kind = k /\ Listed(o)
  BY <1>1, CountOfTime, SeenListed DEF AllAnswered, Collecting
<1>3. /\ IsFiniteSet(seen.pod) /\ IsFiniteSet(cs) /\ IsFiniteSet(PodVolumes(seen.pod))
      /\ \A p \in seen.pod : ListedPod(p)
      /\ \A c \in cs : It(c) \in ListedContainers
  BY PodsOfPatterns
<1> HIDE DEF cs
<1>4. ContainerResources(cs) \in ResourceLimitsRequestsData /\ ImagePullPolicy(cs) \in ImagePullPoliciesData
  BY <1>3, ResourcesTyped
<1>5. SecurityContexts(seen.pod, cs) \in SecurityContextsData
  BY <1>3, SecurityTyped
<1>6. Volumes(seen.pod) \in VolumesData
  BY <1>3, VolumesTyped
<1>7. Services(seen.service) \in ServicesData
  BY <1>2, ServicesTyped DEF Listed
<1>8. LabelsAnnotations(seen) \in LabelsAnnotationsData
  BY <1>2, LabelsTyped DEF Listed
<1>9. Probes(cs) \in ProbesData
  BY <1>3, ProbesTyped
<1>10. ReplicasOf(seen.deployment) \in Seq(Nat) /\ ReplicasOf(seen.statefulSet) \in Seq(Nat)
  BY <1>2, ReplicasTyped DEF Listed
<1>11. [deployments |-> ReplicasOf(seen.deployment), statefulSets |-> ReplicasOf(seen.statefulSet),
        daemonSetCount |-> Cardinality(seen.daemonSet)] \in ReplicaCountsData
  BY <1>2, <1>10 DEF ReplicaCountsData
<1> QED BY <1>4, <1>5, <1>6, <1>7, <1>8, <1>9, <1>11 DEF PatternsOf, ResourceConfigurationPatternsData, cs

\* A payload of the declared shape passes the validation of the patterns.
LEMMA PatternsValid ==
    ASSUME NEW d \in ResourceConfigurationPatternsData PROVE ValidPatterns(d)
<1>1. \A T : \A a \in Seq(T) : IsArray(a)
  BY DEF IsArray
<1>2. /\ Arrays(d.resourceLimitsRequests, {"cpuRequests", "cpuLimits", "memoryRequests", "memoryLimits"})
      /\ Integral(d.resourceLimitsRequests, {"totalCount"})
  <2>1. d.resourceLimitsRequests \in ResourceLimitsRequestsData
    BY DEF ResourceConfigurationPatternsData
  <2> DEFINE x == d.resourceLimitsRequests
  <2> HIDE DEF x
  <2>2. /\ DOMAIN x = {"cpuRequests", "cpuLimits", "memoryRequests", "memoryLimits", "totalCount"}
        /\ x.totalCount \in Int
        /\ \A k \in {"cpuRequests", "cpuLimits", "memoryRequests", "memoryLimits"} : x[k] \in Seq(Nat \cup {NotSet})
    BY <2>1 DEF ResourceLimitsRequestsData, x
  <2> QED BY <1>1, <2>2 DEF Arrays, Integral, x
<1>3. Arrays(d.replicaCounts, {"deployments", "statefulSets"}) /\ Integral(d.replicaCounts, {"daemonSetCount"})
  <2>1. d.replicaCounts \in ReplicaCountsData
    BY DEF ResourceConfigurationPatternsData
  <2> DEFINE x == d.replicaCounts
  <2> HIDE DEF x
  <2>2. /\ DOMAIN x = {"deployments", "statefulSets", "daemonSetCount"} /\ x.daemonSetCount \in Int
        /\ x.deployments \in Seq(Nat) /\ x.statefulSets \in Seq(Nat)
    BY <2>1 DEF ReplicaCountsData, x
  <2> QED BY <1>1, <2>2 DEF Arrays, Integral, x
<1>4. Integral(d.imagePullPolicies.policies, PolicyKeys) /\ Integral(d.imagePullPolicies, {"totalContainers"})
  BY DEF ResourceConfigurationPatternsData, ImagePullPoliciesData, Integral
<1>5. /\ Integral(d.securityContexts.podLevel.runAsNonRoot, TriKeys)
      /\ Integral(d.securityContexts.podLevel.fsGroup, {"set", "notSet"})
      /\ \A k \in {"runAsNonRoot", "readOnlyRootFilesystem", "allowPrivilegeEscalation"} :
           Integral(d.securityContexts.containerLevel[k], TriKeys)
      /\ Arrays(d.securityContexts.containerLevel, {"added", "dropped"})
      /\ Integral(d.securityContexts, {"totalPods", "totalContainers"})
  <2>1. d.securityContexts \in SecurityContextsData
    BY DEF ResourceConfigurationPatternsData
  <2> DEFINE x == d.securityContexts
             pod == x.podLevel
             container == x.containerLevel
  <2> HIDE DEF x
  <2>2. /\ DOMAIN x = {"podLevel", "containerLevel", "totalPods", "totalContainers"}
        /\ x.totalPods \in Int /\ x.totalContainers \in Int
        /\ pod.runAsNonRoot \in [TriKeys -> Nat] /\ pod.fsGroup \in [{"set", "notSet"} -> Nat]
        /\ container \in [runAsNonRoot : [TriKeys -> Nat], readOnlyRootFilesystem : [TriKeys -> Nat],
                          allowPrivilegeEscalation : [TriKeys -> Nat],
                          added : Seq(STRING), dropped : Seq(STRING)]
    BY <2>1 DEF SecurityContextsData, x
  <2> HIDE DEF pod, container
  <2>3. \A keys : \A f \in [keys -> Nat] : Integral(f, keys)
    BY DEF Integral
  <2>4. /\ DOMAIN container = {"runAsNonRoot", "readOnlyRootFilesystem", "allowPrivilegeEscalation", "added", "dropped"}
        /\ \A k \in {"runAsNonRoot", "readOnlyRootFilesystem", "allowPrivilegeEscalation"} :
             container[k] \in [TriKeys -> Nat]
        /\ container.added \in Seq(STRING) /\ container.dropped \in Seq(STRING)
    BY <2>2
  <2>5. Arrays(container, {"added", "dropped"})
    BY <1>1, <2>4 DEF Arrays
  <2>6. Integral(x, {"totalPods", "totalContainers"})
    BY <2>2 DEF Integral
  <2> QED BY <2>2, <2>3, <2>4, <2>5, <2>6 DEF x, pod, container
<1>6. /\ Arrays(d.labelsAnnotations.labelCounts, Counted)
      /\ Arrays(d.labelsAnnotations.annotationCounts, Counted)
      /\ Arrays(d.labelsAnnotations, {"commonLabelKeys"})
  <2>1. d.labelsAnnotations \in LabelsAnnotationsData
    BY DEF ResourceConfigurationPatternsData
  <2> DEFINE x == d.labelsAnnotations
  <2> HIDE DEF x
  <2>2. /\ DOMAIN x = {"labelCounts", "annotationCounts", "commonLabelKeys"} /\ x.commonLabelKeys \in Seq(STRING)
        /\ x.labelCounts \in [Counted -> Seq(Nat)] /\ x.annotationCounts \in [Counted -> Seq(Nat)]
    BY <2>1 DEF LabelsAnnotationsData, x
  <2>3. \A f \in [Counted -> Seq(Nat)] : Arrays(f, Counted)
    BY <1>1 DEF Arrays
  <2>4. Arrays(x, {"commonLabelKeys"})
    BY <1>1, <2>2 DEF Arrays
  <2> QED BY <2>2, <2>3, <2>4 DEF x
<1>7. /\ Integral(d.volumes.volumeTypes, VolumeTypes) /\ Integral(d.volumes, {"totalPods"})
      /\ Arrays(d.volumes, {"volumesPerPod", "volumeMountsPerContainer"})
  <2>1. d.volumes \in VolumesData
    BY DEF ResourceConfigurationPatternsData
  <2> DEFINE x == d.volumes
  <2> HIDE DEF x
  <2>2. /\ DOMAIN x = {"volumeTypes", "volumesPerPod", "volumeMountsPerContainer", "totalPods"}
        /\ x.totalPods \in Int /\ x.volumeTypes \in [VolumeTypes -> Nat]
        /\ x.volumesPerPod \in Seq(Nat) /\ x.volumeMountsPerContainer \in Seq(Nat)
    BY <2>1 DEF VolumesData, x
  <2> QED BY <1>1, <2>2 DEF Arrays, Integral, x
<1>8. /\ Integral(d.services.serviceTypes, ServiceTypes)
      /\ Arrays(d.services, {"portsPerService"}) /\ Integral(d.services, {"totalServices"})
  <2>1. d.services \in ServicesData
    BY DEF ResourceConfigurationPatternsData
  <2> DEFINE x == d.services
  <2> HIDE DEF x
  <2>2. /\ DOMAIN x = {"serviceTypes", "portsPerService", "totalServices"}
        /\ x.totalServices \in Int /\ x.serviceTypes \in [ServiceTypes -> Nat]
        /\ x.portsPerService \in Seq(Nat)
    BY <2>1 DEF ServicesData, x
  <2> QED BY <1>1, <2>2 DEF Arrays, Integral, x
<1>9. ASSUME NEW k \in {"livenessProbes", "readinessProbes", "startupProbes"} PROVE ValidProbe(d.probes[k])
  <2>1. d.probes[k] \in ProbeConfigData
    BY DEF ResourceConfigurationPatternsData, ProbesData
  <2> DEFINE x == d.probes[k]
  <2> HIDE DEF x
  <2>2. /\ DOMAIN x = {"configured", "notConfigured", "probeTypes", "initialDelaySeconds", "timeoutSeconds", "periodSeconds"}
        /\ x.configured \in Int /\ x.notConfigured \in Int /\ x.probeTypes \in [ProbeTypes -> Nat]
        /\ \A f \in {"initialDelaySeconds", "timeoutSeconds", "periodSeconds"} : x[f] \in Seq(Nat)
    BY <2>1 DEF ProbeConfigData, x
  <2> QED BY <1>1, <2>2 DEF ValidProbe, Arrays, Integral, x
<1>10. Integral(d.probes, {"totalContainers"})
  BY DEF ResourceConfigurationPatternsData, ProbesData, Integral
<1> QED BY <1>2, <1>3, <1>4, <1>5, <1>6, <1>7, <1>8, <1>9, <1>10 DEF ValidPatterns

\* The inventory has the shape that types.ts declares, and is valid.
LEMMA InventoryTyped ==
    ASSUME ReadInv, reader = "inventory", AllAnswered
    PROVE  ResourceInventory(InventoryOf(seen)) /\ ValidInventory(InventoryOf(seen))
<1> DEFINE pods == seen.pod
           services == seen.service
           spaces == seen.namespace
           ids == {HashNamespace(p.ns) : p \in pods}
           types == {TypeOf(s) : s \in services} \cap ServiceTypes
           inNs(id) == {p \in pods : HashNamespace(p.ns) = id}
           ofType(t) == {s \in services : TypeOf(s) = t}
           n == Cardinality(spaces)
           q == SetToSeq(spaces)
           list == [i \in 1..n |-> HashNamespace(q[i].name)]
           d == InventoryOf(seen)
<1>1. Kinds(reader) = {"namespace", "pod", "deployment", "statefulSet", "replicaSet", "service"}
  BY CollectorsList
<1>2. \A k \in {"namespace", "pod", "deployment", "statefulSet", "replicaSet", "service"} :
        IsFiniteSet(seen[k]) /\ Cardinality(seen[k]) \in Nat /\ \A o \in seen[k] : o.kind = k /\ Listed(o)
  BY <1>1, CountOfTime, SeenListed DEF AllAnswered, Collecting
<1>3. \A name \in DOMAIN Hash : HashNamespace(name) \in Range(Hash)
  BY DEF HashNamespace, Range
<1>4. ids \subseteq Range(Hash)
  BY <1>2, <1>3 DEF Listed, ListedPod
<1>5. \A id : Cardinality(inNs(id)) \in Nat
  BY <1>2, PartCount
<1>6. \A t : Cardinality(ofType(t)) \in Nat
  BY <1>2, PartCount
<1>7. n \in Nat /\ Len(q) = n /\ q \in [1..n -> spaces]
  BY <1>2, ArrayOf
<1>8. d = [namespaces |-> [count |-> n, list |-> list],
           resources |-> [pods |-> [total |-> Cardinality(pods),
                                    byNamespace |-> [id \in ids |-> Cardinality(inNs(id))]],
                          deployments |-> [total |-> Cardinality(seen.deployment)],
                          statefulSets |-> [total |-> Cardinality(seen.statefulSet)],
                          replicaSets |-> [total |-> Cardinality(seen.replicaSet)],
                          services |-> [total |-> Cardinality(services),
                                        byType |-> [t \in types |-> Cardinality(ofType(t))]]]]
  BY <1>7 DEF InventoryOf, Namespaces, PodCounts, ServiceCounts, Tally, Each
<1>9. \A i \in 1..n : HashNamespace(q[i].name) \in Range(Hash)
  BY <1>2, <1>3, <1>7 DEF Listed
<1> HIDE DEF n, q
<1>10. list \in Seq(Range(Hash)) /\ Len(list) = n /\ \A i \in DOMAIN list : list[i] \in Range(Hash)
  BY <1>7, <1>9
<1> HIDE DEF list, ids, types, inNs, ofType, d, pods, services, spaces
<1>11. /\ d.namespaces.count = n /\ d.namespaces.list = list
       /\ d.namespaces \in [count : Nat, list : Seq(Range(Hash))]
  BY <1>7, <1>8, <1>10
<1>12. /\ d.resources.pods.total \in Nat
       /\ d.resources.pods.byNamespace = [id \in ids |-> Cardinality(inNs(id))]
  BY <1>2, <1>8 DEF pods
<1>13. \A kind \in {"deployments", "statefulSets", "replicaSets"} : d.resources[kind] \in [total : Nat]
  BY <1>2, <1>8
<1>14. /\ d.resources.services.total \in Nat
       /\ d.resources.services.byType = [t \in types |-> Cardinality(ofType(t))]
  BY <1>2, <1>8 DEF services
<1>15. types \subseteq ServiceTypes
  BY DEF types
<1>16. Counts(d.resources.pods.byNamespace, Range(Hash)) /\ Counts(d.resources.services.byType, ServiceTypes)
  BY <1>4, <1>5, <1>6, <1>12, <1>14, <1>15 DEF Counts
<1>17. ResourceInventory(d)
  BY <1>11, <1>12, <1>13, <1>14, <1>16 DEF ResourceInventory
<1>18. \A k \in Nat : IsCount(k)
  BY DEF IsCount
<1>19. /\ IsCount(d.namespaces.count) /\ Len(d.namespaces.list) = d.namespaces.count
       /\ Range(d.namespaces.list) \subseteq Range(Hash)
  <2>1. Range(list) \subseteq Range(Hash)
    BY <1>10 DEF Range
  <2> QED BY <1>7, <1>10, <1>11, <1>18, <2>1
<1>20. /\ \A id \in DOMAIN d.resources.pods.byNamespace :
            id \in Range(Hash) /\ IsCount(d.resources.pods.byNamespace[id])
       /\ \A t \in DOMAIN d.resources.services.byType :
            t \in ServiceTypes /\ IsCount(d.resources.services.byType[t])
  BY <1>16, <1>18 DEF Counts
<1>21. \A kind \in {"deployments", "statefulSets", "replicaSets", "services"} : IsCount(d.resources[kind].total)
  BY <1>13, <1>14, <1>18
<1>22. ValidInventory(d)
  BY <1>12, <1>18, <1>19, <1>20, <1>21 DEF ValidInventory
<1> QED BY <1>17, <1>22 DEF d

\* The metadata have the shape that types.ts declares, and are valid just
\* when the version is plain and the nodes are not too many.
LEMMA MetadataTyped ==
    ASSUME ReadInv, reader = "metadata", AllAnswered,
           NEW first \in seen.node, NEW version \in seen.version, NEW d,
           d = MetadataOf(version, seen.node, first)
    PROVE  /\ d \in ClusterMetadata
           /\ ValidMetadata(d) <=> d.kubernetesVersion = "plain" /\ d.nodeCount <= MaxNodes
<1>1. Kinds(reader) = {"version", "node"}
  BY CollectorsList
<1>2. Listed(first) /\ first.kind = "node" /\ Listed(version) /\ version.kind = "version"
  BY <1>1, SeenListed DEF Collecting
<1>3. IsFiniteSet(seen.node) /\ Cardinality(seen.node) \in Nat /\ Cardinality(seen.node) # 0
  BY <1>1, CountOfTime, FS_EmptySet DEF AllAnswered
<1>4. DetectProvider(first) \in Providers
  BY DEF DetectProvider, Providers
<1>5. ASSUME NEW lengths \in Seq(Nat)
      PROVE  LET Cut(n) == IF n > MaxName THEN MaxName ELSE n
                 there == {i \in DOMAIN lengths : lengths[i] > 0}
                 left == IF there = {} THEN 0 ELSE Cut(lengths[Min(there)])
             IN  left \in Nat /\ left <= MaxName
  <2> DEFINE Cut(n) == IF n > MaxName THEN MaxName ELSE n
             there == {i \in DOMAIN lengths : lengths[i] > 0}
             left == IF there = {} THEN 0 ELSE Cut(lengths[Min(there)])
  <2>1. \A n \in Nat : Cut(n) \in Nat /\ Cut(n) <= MaxName
    BY NamesAssumption
  <2>2. CASE there = {}
    BY <2>2, NamesAssumption
  <2>3. CASE there # {}
    <3>1. there \subseteq Nat /\ there \subseteq DOMAIN lengths
      OBVIOUS
    <3> HIDE DEF there
    <3>2. PICK n \in there : \A m \in there : n <= m
      BY <2>3, <3>1, LeastOf
    <3>3. Min(there) \in there
      BY <3>1, <3>2 DEF Min
    <3> DEFINE at == Min(there)
    <3> HIDE DEF at
    <3>4. at \in DOMAIN lengths
      BY <3>1, <3>3 DEF at
    <3>5. lengths[at] \in Nat
      BY <3>4
    <3>6. left = Cut(lengths[at])
      BY <2>3 DEF at
    <3> HIDE DEF Cut, left
    <3>7. left \in Nat /\ left <= MaxName
      BY <2>1, <3>5, <3>6
    <3> QED BY <3>7 DEF left, Cut, there
  <2> QED BY <2>2, <2>3
<1>6. /\ RegionAndZone(first).region \in Nat /\ RegionAndZone(first).region <= MaxName
      /\ RegionAndZone(first).zone \in Nat /\ RegionAndZone(first).zone <= MaxName
  <2>1. first.regions \in Seq(Nat) /\ first.zones \in Seq(Nat)
    BY <1>2 DEF Listed
  <2> QED BY <1>5, <2>1 DEF RegionAndZone
<1>7. version.text \in {"plain", "suffixed", "unknown"}
  BY <1>2 DEF Listed
<1>8. /\ d.kubernetesVersion = version.text /\ d.nodeCount = Cardinality(seen.node)
      /\ d.provider = DetectProvider(first)
      /\ d.region = RegionAndZone(first).region /\ d.zone = RegionAndZone(first).zone
  BY DEF MetadataOf
<1>9. d \in ClusterMetadata
  BY <1>3, <1>4, <1>6, <1>7 DEF MetadataOf, ClusterMetadata
<1>10. ValidMetadata(d) <=> d.kubernetesVersion = "plain" /\ d.nodeCount <= MaxNodes
  BY <1>3, <1>4, <1>6, <1>8, NamesAssumption DEF ValidMetadata
<1> QED BY <1>9, <1>10

\* PayloadsValidate, of every cluster: no inventory and no patterns are ever
\* dropped, and metadata only for the version or the number of nodes.
THEOREM PayloadsTheorem == Spec => []PayloadsValidate
<1>1. ReadInv => PayloadsValidate
  <2> SUFFICES ASSUME ReadInv, phase = "done" PROVE PayloadsValidate
    BY DEF PayloadsValidate, Made
  <2>1. reader \in Collecting => AllAnswered
    BY MadeOf
  <2>2. reader = "inventory" => result.outcome = "stored"
    BY <2>1, MadeOf, InventoryTyped DEF Collecting
  <2>3. reader = "patterns" => result.outcome = "stored"
    BY <2>1, MadeOf, PatternsTyped, PatternsValid DEF Collecting
  <2>4. ASSUME reader = "metadata"
        PROVE  result.outcome = "stored" <=> Payload.kubernetesVersion = "plain" /\ Payload.nodeCount <= MaxNodes
    <3>1. PICK first \in seen.node, version \in seen.version :
             /\ Payload = MetadataOf(version, seen.node, first)
             /\ result.outcome = IF ValidMetadata(Payload) THEN "stored" ELSE "rejected"
      BY <2>4, MadeOf
    <3>2. ValidMetadata(Payload) <=> Payload.kubernetesVersion = "plain" /\ Payload.nodeCount <= MaxNodes
      BY <2>1, <2>4, <3>1, MetadataTyped DEF Collecting
    <3> QED BY <3>1, <3>2
  <2> QED BY <2>2, <2>3, <2>4 DEF PayloadsValidate, Made
<1> QED BY <1>1, ReadInvariance, PTL

\* The type invariant, of every cluster, with the shapes of the payloads.
THEOREM TypeTheorem == Spec => []TypeOK
<1>1. ReadInv => TypeOK
  <2> SUFFICES ASSUME ReadInv PROVE TypeOK
    OBVIOUS
  <2>1. /\ reader \in Readers /\ phase \in {"idle", "reading", "done"}
        /\ config \in {"ca", "server", "none"} /\ cluster \subseteq Catalog[reader]
        /\ stage \in 1..Len(Stages(reader)) /\ pending \subseteq Stages(reader)[stage]
        /\ changes \in 0..MaxChanges[reader]
        /\ throughout \subseteq cluster /\ cluster \subseteq ever
    BY DEF ReadInv, StateOK, ClusterOK
  <2>2. DOMAIN seen = Kinds(reader) /\ \A k \in Kinds(reader) : seen[k] \subseteq ever
    BY DEF ReadInv, StateOK, AnswersOK, Sometime
  <2>3. phase # "done" => result = Nothing
    BY DEF ReadInv, ResultOK
  <2>4. phase = "done" =>
          IF reader \in Collecting THEN result.outcome \in {"stored", "rejected"}
          ELSE result.outcome \in {"passing", "warning", "failing", "skipped", "error"}
    BY OutcomeOf
  <2>5. IF phase = "done" THEN result.outcome # "none" ELSE result = Nothing
    BY <2>3, <2>4
  <2>6. phase = "done" /\ reader \in Collecting => AllAnswered
    BY MadeOf
  <2>7. ASSUME Made("metadata") PROVE Payload \in ClusterMetadata
    <3>1. PICK first \in seen.node, version \in seen.version : Payload = MetadataOf(version, seen.node, first)
      BY <2>7, MadeOf DEF Made
    <3> QED BY <2>6, <2>7, <3>1, MetadataTyped DEF Made, Collecting
  <2>8. Made("inventory") => ResourceInventory(Payload)
    BY <2>6, MadeOf, InventoryTyped DEF Made, Collecting
  <2>9. Made("patterns") => Payload \in ResourceConfigurationPatternsData
    BY <2>6, MadeOf, PatternsTyped DEF Made, Collecting
  <2> QED BY <2>1, <2>2, <2>4, <2>5, <2>7, <2>8, <2>9 DEF TypeOK
<1> QED BY <1>1, ReadInvariance, PTL
=============================================================================
