------------------------ MODULE ReconcilerConfigProofs ------------------------
(***************************************************************************)
(* At rest every pod runs the config.yaml that the ConfigMap of its tier   *)
(* holds (PodsRunPublishedConfig), while the spec is edited at most once   *)
(* and the resource is not deleted.                                        *)
(*                                                                         *)
(* The argument.  Let a be the spec before the edit and cr.spec the one    *)
(* after it.  The caches show the resource with a first and with cr.spec   *)
(* from some point on, and a pass works on what the cache showed when it   *)
(* began.  So a ConfigMap is written for a until some pass sees cr.spec,   *)
(* and only for cr.spec from then on: its data never leave cr.spec again.  *)
(* A StatefulSet gets the checksum of a config.yaml only after the         *)
(* ConfigMap holds it (PassPublished), hence pods whose template has the   *)
(* checksum of cr.spec were started when the ConfigMap had its data.       *)
(*                                                                         *)
(* With a second edit back to a this fails: a pod that starts late under   *)
(* the first template with checksum a reads the ConfigMap of the spec in   *)
(* between, and no later template differs from its own.                    *)
(***************************************************************************)
EXTENDS ReconcilerWakeupProofs

(* The user edits the spec once at most and does not delete the resource. *)
OneEdit == Limit["deletes"] = 0 /\ Limit["edits"] <= 1

(* d is the config.yaml that spec s gives to its tier n. *)
YamlOf(s, n, d) ==
    \E j \in DOMAIN s.tiers : s.tiers[j].name = n /\ d = ConfigYAML(s, s.tiers[j])

Published(n) == <<"ConfigMap", n, 0>>

(* It is that of the spec before the edit, a, or after it. *)
Known(a, n, d) == YamlOf(a, n, d) \/ YamlOf(cr.spec, n, d)

(* A copy of the resource that has the edit. *)
New(c) == c.live /\ c.spec = cr.spec

(* The copies of the resource show a, and then the edit. *)
SpecsSeen(a) ==
    /\ spent["edits"] = 0 => a = cr.spec
    /\ crCache.live => crCache.spec \in {a, cr.spec}
    /\ \A c \in Range(crWatch) : c.live => c.spec \in {a, cr.spec}
    /\ New(crCache) => \A c \in Range(crWatch) : New(c)
    /\ \A i, j \in 1..Len(crWatch) : i < j /\ New(crWatch[i]) => New(crWatch[j])

PassSees(a) ==
    step # "idle" =>
        /\ cluster.spec \in {a, cr.spec}
        /\ cluster.spec = cr.spec => New(crCache)

(* A pass that works on a is under way, or the next one may be one. *)
OldAtWork == (step # "idle" /\ cluster.spec # cr.spec) \/ ~New(crCache)

(* What the ConfigMaps hold, and what the caches show of them. *)
PublishedOK(a) ==
    \A n \in TierNames : obj[Published(n)].live =>
        /\ Known(a, n, obj[Published(n)].mut.data)
        /\ OldAtWork => YamlOf(a, n, obj[Published(n)].mut.data)

Copies(n) == {objCache[Published(n)]} \cup Range(objWatch[Published(n)])

CopiesLag(a) ==
    \A n \in TierNames : \A o \in Copies(n) : o.live =>
        /\ Known(a, n, o.mut.data)
        /\ obj[Published(n)].live
        /\ YamlOf(cr.spec, n, o.mut.data) => YamlOf(cr.spec, n, obj[Published(n)].mut.data)

(* A pass publishes a tier's config.yaml before it goes on. *)
PassPublished ==
    step \notin {"idle", "configmap"} =>
        obj[ConfigMapKey(tier)].mut.data = ConfigYAML(cluster.spec, tier)

(* The config.yaml of tier n whose checksum is h is one of the two, and if *)
(* it is the newer one then it is d.                                       *)
Announces(a, n, h, d) ==
    /\ Known(a, n, h.sha256)
    /\ YamlOf(cr.spec, n, h.sha256) => d = h.sha256

ChecksumsOK(a) ==
    \A k \in StsKeys : obj[k].live =>
        Announces(a, k[2], obj[k].mut.checksum, obj[Published(k[2])].mut.data)

PodsOK(a) ==
    \A k \in StsKeys : pods[k].live =>
        /\ Known(a, k[2], pods[k].config)
        /\ Announces(a, k[2], pods[k].template.checksum, pods[k].config)

EditInv(a) ==
    /\ SpecsSeen(a) /\ PassSees(a) /\ PublishedOK(a) /\ CopiesLag(a) /\ PassPublished
    /\ ChecksumsOK(a) /\ PodsOK(a)

NothingPublished ==
    /\ \A n \in TierNames : \A o \in Copies(n) : ~o.live
    /\ \A k \in StsKeys : ~pods[k].live

ConfigInv ==
    /\ pods = [k \in StsKeys |-> pods[k]]
    /\ IF cr.live THEN \E a \in Specs : EditInv(a) ELSE NothingPublished

-----------------------------------------------------------------------------
(* The config.yaml of a spec.                                              *)

(* The tiers of a spec have different names, so a tier has one. *)
LEMMA YamlUnique ==
    ASSUME NEW s \in Specs, NEW n, NEW d, NEW e, YamlOf(s, n, d), YamlOf(s, n, e)
    PROVE  d = e
<1>1. PICK i \in DOMAIN s.tiers : s.tiers[i].name = n /\ d = ConfigYAML(s, s.tiers[i])
  BY DEF YamlOf
<1>2. PICK j \in DOMAIN s.tiers : s.tiers[j].name = n /\ e = ConfigYAML(s, s.tiers[j])
  BY DEF YamlOf
<1>3. i = j
  BY <1>1, <1>2, SpecsAssumption
<1> QED
  BY <1>1, <1>2, <1>3

(* What the running pass publishes and announces. *)
LEMMA PassYaml ==
    ASSUME TypeOK, step # "idle"
    PROVE  /\ YamlOf(cluster.spec, tier.name, ConfigYAML(cluster.spec, tier))
           /\ cluster.spec \in Specs /\ tier.name \in TierNames
           /\ ConfigMapKey(tier) = Published(tier.name)
<1>1. /\ cluster.spec \in Specs /\ tier.name \in TierNames
      /\ ti \in 1..Len(cluster.spec.tiers)
  BY TierFacts DEF TypeOK, LocalTypeOK
<1>2. ti \in DOMAIN cluster.spec.tiers
  BY <1>1, SpecsAssumption DEF ValidSpec
<1> QED
  BY <1>1, <1>2 DEF YamlOf, tier, ConfigMapKey, Published

(* Where ConfigMaps are kept. *)
LEMMA PublishedKeys ==
    ASSUME NEW n \in TierNames
    PROVE  Published(n) \in Keys /\ Published(n) \notin StsKeys
  BY DEF Published, Keys, StsKeys

LEMMA StsKeyTier ==
    ASSUME NEW k \in StsKeys
    PROVE  k \in Keys /\ k[2] \in TierNames /\ Published(k[2]) \in Keys
  BY DEF Published, Keys, StsKeys

(* A live resource holds a submitted spec. *)
LEMMA SpecOf ==
    ASSUME TypeOK, cr.live
    PROVE  cr.spec \in Specs /\ cr = [f \in ClusterFields |-> cr[f]] /\ cr.live = TRUE
<1>1. cr # Absent /\ IsCluster(cr)
  BY DEF Absent, TypeOK, ClusterTypeOK
<1> QED
  BY <1>1 DEF IsCluster

-----------------------------------------------------------------------------
(* Which steps change the spec, the copies and the pass.                   *)

LEMMA SpecKept ==
    ASSUME TypeOK, cr.live, [Next]_vars, ~EditCluster, ~DeleteCluster
    PROVE  cr'.live /\ cr'.spec = cr.spec
<1>1. ASSUME NEW m, WriteCr([cr EXCEPT !.status = m])
      PROVE  cr'.live /\ cr'.spec = cr.spec
  <2>1. cr' = [cr EXCEPT !.status = m]
    BY <1>1, WriteCrEffect DEF TypeOK
  <2> QED
    BY <2>1, SpecOf DEF ClusterFields
<1>2. CASE UpdateStatus \/ UpdateStatusPluginFailed
  <2>1. UNCHANGED cr \/ \E m : WriteCr([cr EXCEPT !.status = m])
    BY <1>2 DEF UpdateStatus, UpdateStatusPluginFailed, PatchStatus
  <2> QED
    BY <1>1, <2>1
<1>3. CASE Reconcile /\ ~UpdateStatus /\ ~UpdateStatusPluginFailed
  BY <1>3
  DEF Reconcile, FetchCluster, ReconcileConfigMap, ReconcileInterconnect, ReconcileClient,
      ReconcileStatefulSet, ListExtraStatefulSets, ListExtra, DeleteExtraStatefulSet,
      CleanupDone, ReconcileIngress, CollectTierStatus, ReconcilePlugins, CallFails,
      ApplyObject, apiVars
<1>4. CASE Manager \/ Kubernetes \/ UNCHANGED vars
  BY <1>4
  DEF Manager, DeliverCr, DeliverObj, RequeueAfterElapses, Restart, Kubernetes,
      CollectGarbage, StatefulSetController, RollPods, PodBecomesReady, PodRetires, PodFails,
      PodsVanish, vars, apiVars
<1>5. ~CreateCluster
  BY DEF CreateCluster
<1> QED
  BY <1>2, <1>3, <1>4, <1>5 DEF Next, User

(* The budget of edits is spent by edits. *)
LEMMA EditsKept ==
    ASSUME TypeOK, [Next]_vars, ~EditCluster
    PROVE  spent'["edits"] = spent["edits"]
<1>1. ASSUME NEW b \in Budgets, b # "edits", Spend(b) PROVE spent'["edits"] = spent["edits"]
  BY <1>1 DEF Spend, TypeOK, SpentTypeOK, Budgets
<1>2. /\ Spend("faults") => spent'["edits"] = spent["edits"]
      /\ Spend("crashes") => spent'["edits"] = spent["edits"]
      /\ Spend("deletes") => spent'["edits"] = spent["edits"]
      /\ Spend("losses") => spent'["edits"] = spent["edits"]
  BY <1>1 DEF Budgets
<1>3. CASE Reconcile
  BY <1>2, <1>3
  DEF Reconcile, FetchCluster, ReconcileConfigMap, ReconcileInterconnect, ReconcileClient,
      ReconcileStatefulSet, ListExtraStatefulSets, ListExtra, DeleteExtraStatefulSet,
      CleanupDone, ReconcileIngress, CollectTierStatus, ReconcilePlugins, UpdateStatus,
      UpdateStatusPluginFailed, CallFails, ApplyObject, Answer
<1>4. CASE Manager
  BY <1>2, <1>4 DEF Manager, DeliverCr, DeliverObj, RequeueAfterElapses, Restart
<1>5. CASE User
  BY <1>2, <1>5 DEF User, CreateCluster, DeleteCluster
<1>6. CASE Kubernetes \/ UNCHANGED vars
  BY <1>2, <1>6 DEF Kubernetes, CollectGarbage, StatefulSetController, RollPods,
     PodBecomesReady, PodRetires, PodFails, PodsVanish, vars
<1> QED
  BY <1>3, <1>4, <1>5, <1>6 DEF Next

(* What becomes of the copies of the resource. *)
LEMMA CopiesOfResource ==
    ASSUME TypeOK, [Next]_vars
    PROVE  \/ UNCHANGED <<crCache, crWatch>>
           \/ UNCHANGED crCache /\ crWatch' = Append(crWatch, cr')
           \/ /\ crWatch # <<>>
              /\ crCache' = Head(crWatch) /\ crWatch' = Tail(crWatch)
           \/ crCache' = cr /\ crWatch' = <<>> /\ UNCHANGED cr
<1>1. CASE QuietStepOf \/ ObjWrite \/ \E k \in Keys : DeliverObj(k)
  BY <1>1 DEF QuietStepOf, ObjWrite, DeliverObj, apiVars, cacheVars
<1>2. CASE CrWrite
  BY <1>2 DEF CrWrite, WriteCr, cacheVars
<1>3. CASE DeliverCr \/ Restart
  BY <1>3 DEF DeliverCr, Restart
<1> QED
  BY <1>1, <1>2, <1>3, StepKinds

LEMMA SeenStep ==
    ASSUME TypeOK, cr.live, [Next]_vars, ~EditCluster, ~DeleteCluster, NEW a, SpecsSeen(a)
    PROVE  SpecsSeen(a)' /\ (New(crCache) => New(crCache)')
<1>1. /\ cr'.live /\ cr'.spec = cr.spec /\ spent'["edits"] = spent["edits"]
      /\ \A c : (c.live /\ c.spec = cr'.spec) <=> New(c)
  BY SpecKept, EditsKept DEF New
<1>2. /\ crWatch \in Seq(Range(crWatch)) /\ Len(crWatch) \in Nat
      /\ \A i \in 1..Len(crWatch) : crWatch[i] \in Range(crWatch)
      /\ \A c \in Range(crWatch) : \E i \in 1..Len(crWatch) : c = crWatch[i]
  BY DEF TypeOK, ClusterTypeOK, IsWatch, Range
<1>3. CASE UNCHANGED <<crCache, crWatch>>
  BY <1>1, <1>3 DEF SpecsSeen, New
<1>4. CASE UNCHANGED crCache /\ crWatch' = Append(crWatch, cr')
  <2>1. /\ Range(crWatch') = Range(crWatch) \cup {cr'} /\ Len(crWatch') = Len(crWatch) + 1
    BY <1>2, <1>4, AppendWatch
  <2>2. /\ \A i \in 1..Len(crWatch) : crWatch'[i] = crWatch[i]
        /\ crWatch'[Len(crWatch) + 1] = cr'
    <3> DEFINE S == Range(crWatch) \cup {cr'}
    <3>1. crWatch \in Seq(S) /\ cr' \in S
      BY <1>2
    <3> QED
      BY <1>4, <3>1, AppendProperties
  <2>3. ASSUME NEW i \in 1..Len(crWatch'), NEW j \in 1..Len(crWatch'), i < j, New(crWatch'[i])
        PROVE  New(crWatch'[j])
    <3>1. CASE j = Len(crWatch) + 1
      BY <1>1, <2>2, <3>1 DEF New
    <3>2. CASE j # Len(crWatch) + 1
      <4>1. /\ Len(crWatch) \in Nat /\ Len(crWatch') = Len(crWatch) + 1
            /\ i \in 1..Len(crWatch') /\ j \in 1..Len(crWatch') /\ i < j
        BY <1>2, <2>1, <2>3
      <4>2. i \in 1..Len(crWatch) /\ j \in 1..Len(crWatch)
        BY <3>2, <4>1
      <4> QED
        BY <2>2, <2>3, <4>2 DEF SpecsSeen
    <3> QED
      BY <3>1, <3>2
  <2> QED
    BY <1>1, <1>4, <2>1, <2>3 DEF SpecsSeen, New
<1>5. CASE /\ crWatch # <<>>
           /\ crCache' = Head(crWatch) /\ crWatch' = Tail(crWatch)
  <2>1. /\ Head(crWatch) \in Range(crWatch) /\ Range(crWatch') \subseteq Range(crWatch)
        /\ Len(crWatch') = Len(crWatch) - 1 /\ crWatch' \in Seq(Range(crWatch'))
    BY <1>2, <1>5, TailWatch
  <2>2. /\ Head(crWatch) = crWatch[1] /\ Len(crWatch) > 0
        /\ \A i \in 1..Len(crWatch') : crWatch'[i] = crWatch[i + 1]
    <3>1. Head(crWatch) = crWatch[1] /\ Len(crWatch) > 0
      BY <1>2, <1>5, EmptySeq, LenProperties
    <3>2. \A i \in 1..Len(Tail(crWatch)) : Tail(crWatch)[i] = crWatch[i + 1]
      BY <1>2, <1>5, HeadTailProperties
    <3> QED
      BY <1>5, <3>1, <3>2
  <2>3. ASSUME NEW i \in 1..Len(crWatch'), NEW j \in 1..Len(crWatch'), i < j, New(crWatch'[i])
        PROVE  New(crWatch'[j])
    <3>1. i + 1 \in 1..Len(crWatch) /\ j + 1 \in 1..Len(crWatch) /\ i + 1 < j + 1
      BY <1>2, <2>1, <2>3
    <3> QED
      BY <2>2, <2>3, <3>1 DEF SpecsSeen
  <2>4. ASSUME New(crCache'), NEW c \in Range(crWatch') PROVE New(c)
    <3>1. PICK i \in 1..Len(crWatch') : c = crWatch'[i]
      BY <2>1 DEF Range
    <3>2. i + 1 \in 1..Len(crWatch) /\ 1 \in 1..Len(crWatch) /\ 1 < i + 1
      BY <1>2, <2>1
    <3> QED
      BY <1>5, <2>2, <2>4, <3>1, <3>2 DEF SpecsSeen
  <2> QED
    BY <1>1, <1>5, <2>1, <2>3, <2>4 DEF SpecsSeen, New
<1>6. CASE crCache' = cr /\ crWatch' = <<>> /\ UNCHANGED cr
  <2>1. Len(crWatch') = 0 /\ Range(crWatch') = {}
    BY <1>6, EmptyWatch
  <2> QED
    BY <1>1, <1>6, <2>1 DEF SpecsSeen, New
<1> QED
  BY <1>3, <1>4, <1>5, <1>6, CopiesOfResource

(* What becomes of the spec the pass works on. *)
LEMMA PassSpec ==
    ASSUME TypeOK, [Next]_vars, step' # "idle"
    PROVE  \/ step # "idle" /\ UNCHANGED cluster
           \/ cluster' = crCache /\ crCache.live /\ UNCHANGED crCache
<1>1. ~ClearLocals
  BY DEF ClearLocals
<1>2. CASE FetchCluster
  BY <1>2 DEF FetchCluster, localVars, cacheVars
<1>3. CASE EntriesLeft \/ EntryHeld \/ EntryAdded
  BY <1>3 DEF EntriesLeft, EntryHeld, EntryAdded, NextTier
<1> QED
  BY <1>1, <1>2, <1>3, EntrySteps

LEMMA PassSeesStep ==
    ASSUME TypeOK, cr.live, [Next]_vars, ~EditCluster, ~DeleteCluster, NEW a, SpecsSeen(a),
           PassSees(a)
    PROVE  PassSees(a)' /\ (OldAtWork' => OldAtWork)
<1>1. cr'.spec = cr.spec /\ (New(crCache) => New(crCache)')
  BY SpecKept, SeenStep
<1>2. CASE step' = "idle"
  BY <1>1, <1>2 DEF PassSees, OldAtWork
<1>3. CASE step' # "idle" /\ step # "idle" /\ UNCHANGED cluster
  BY <1>1, <1>3 DEF PassSees, OldAtWork
<1>4. CASE step' # "idle" /\ cluster' = crCache /\ crCache.live /\ UNCHANGED crCache
  BY <1>1, <1>4 DEF PassSees, OldAtWork, SpecsSeen, New
<1> QED
  BY <1>2, <1>3, <1>4, PassSpec

-----------------------------------------------------------------------------
(* ConfigMaps.                                                             *)

(* Nobody but reconcileConfigMap writes one. *)
LEMMA ConfigMapWritten ==
    ASSUME TypeOK, FirstLife, [Next]_vars, NEW n \in TierNames
    PROVE  \/ obj'[Published(n)] = obj[Published(n)]
           \/ /\ ReconcileConfigMap /\ n = tier.name
              /\ Applied(Published(n), buildConfigMap(cluster.spec, tier))
<1> DEFINE k == Published(n)
<1> SUFFICES ASSUME obj'[k] # obj[k]
             PROVE  /\ ReconcileConfigMap /\ n = tier.name
                    /\ Applied(k, buildConfigMap(cluster.spec, tier))
  OBVIOUS
<1>1. k \in Keys /\ k \notin StsKeys /\ obj' # obj
  BY PublishedKeys
<1>2. /\ \A t : k # InterconnectKey(t) /\ k # ClientKey(t) /\ k # IngressKey(t)
      /\ \A t, i : k # StatefulSetKey(t, i)
      /\ \A t : k = ConfigMapKey(t) => n = t.name
  BY DEF Published, ConfigMapKey, InterconnectKey, ClientKey, IngressKey, StatefulSetKey
<1> HIDE DEF k
<1>3. CASE \/ ReconcileInterconnect \/ ReconcileClient \/ ReconcileStatefulSet
           \/ ReconcileIngress \/ DeleteExtraStatefulSet
  <2>1. ~DeleteExtraStatefulSet
    BY <1>1, <1>2, DeleteTouches DEF OnlyChanged
  <2> QED
    BY <1>1, <1>2, <1>3, <2>1, ApplyTouches DEF OnlyChanged
<1>4. CASE ReconcileConfigMap
  <2>1. k = ConfigMapKey(tier)
    BY <1>1, <1>4, ApplyTouches DEF OnlyChanged
  <2>2. Applied(k, buildConfigMap(cluster.spec, tier))
    BY <1>1, <1>4, <2>1 DEF ReconcileConfigMap, ApplyObject
  <2> QED
    BY <1>2, <1>4, <2>1, <2>2
<1>5. CASE Kubernetes
  <2>1. ASSUME NEW l \in Keys, CollectGarbage(l) PROVE FALSE
    BY <2>1 DEF CollectGarbage, FirstLife, NothingBefore, OneUid
  <2>2. ASSUME NEW l \in StsKeys, StatefulSetController(l) \/ PodFails(l) PROVE FALSE
    <3>1. l \in Keys /\ l # k
      BY <1>1 DEF Keys
    <3>2. CASE PodsVanish(l)
      BY <1>1, <3>2 DEF PodsVanish, apiVars
    <3>3. CASE RollPods(l) \/ PodBecomesReady(l) \/ PodRetires(l) \/ PodFails(l)
      <4>1. obj[l].live /\ \E m : SetReady(l, m)
        BY <3>3 DEF RollPods, PodBecomesReady, PodRetires, PodFails
      <4> QED
        BY <1>1, <3>1, <4>1, SetReadyEffect DEF OnlyChanged
    <3> QED
      BY <2>2, <3>2, <3>3 DEF StatefulSetController
  <2> QED
    BY <1>5, <2>1, <2>2 DEF Kubernetes
<1>6. CASE \/ Manager \/ User \/ UNCHANGED vars
           \/ FetchCluster \/ ListExtraStatefulSets \/ CleanupDone \/ CollectTierStatus
           \/ ReconcilePlugins \/ UpdateStatus \/ UpdateStatusPluginFailed \/ CallFails
  BY <1>1, <1>6
  DEF Manager, DeliverCr, DeliverObj, RequeueAfterElapses, Restart, User, CreateCluster,
      EditCluster, DeleteCluster, vars, FetchCluster, ListExtraStatefulSets, ListExtra,
      CleanupDone, CollectTierStatus, ReconcilePlugins, UpdateStatus,
      UpdateStatusPluginFailed, CallFails, apiVars
<1> QED
  BY <1>3, <1>4, <1>5, <1>6 DEF Next, Reconcile

(* What an accepted call leaves of a field that the builder sets: the      *)
(* wanted value, unless the cache already shows that one.                  *)
LEMMA AppliedField ==
    ASSUME TypeOK, NEW k \in Keys, NEW built, Applied(k, built), NEW f \in DOMAIN built.mut
    PROVE  \/ obj'[k].live /\ obj'[k].mut[f] = built.mut[f]
           \/ /\ obj'[k].live /\ obj[k].live /\ objCache[k].live
              /\ objCache[k].mut[f] = built.mut[f] /\ obj'[k].mut[f] = obj[k].mut[f]
<1>1. CASE ~objCache[k].live /\ ~obj[k].live
  <2>1. WriteObj(k, NewObject(k, built))
    BY <1>1 DEF Applied
  <2>2. obj'[k] = NewObject(k, built)
    BY <2>1, WriteObjEffect DEF TypeOK
  <2> QED
    BY <2>2 DEF NewObject
<1>2. CASE objCache[k].live /\ obj[k].live
  <2>1. WriteObj(k, Patched(k, built))
    BY <1>2 DEF Applied
  <2>2. obj'[k] = Patched(k, built)
    BY <2>1, WriteObjEffect DEF TypeOK
  <2>3. obj[k] # Absent /\ IsObject(k, obj[k])
    BY <1>2 DEF Absent, TypeOK, ObjectTypeOK
  <2>4. obj[k] = [g \in ObjectFields |-> obj[k][g]]
    BY <2>3 DEF IsObject
  <2>5. /\ Patched(k, built).mut = MergePatch(obj[k].mut, objCache[k].mut, built.mut)
        /\ Patched(k, built).live = obj[k].live
    BY <2>4 DEF Patched, ObjectFields
  <2>6. \/ Patched(k, built).mut[f] = built.mut[f]
        \/ objCache[k].mut[f] = built.mut[f] /\ Patched(k, built).mut[f] = obj[k].mut[f]
    BY <2>5 DEF MergePatch
  <2> QED
    BY <1>2, <2>2, <2>5, <2>6
<1> QED
  BY <1>1, <1>2 DEF Applied

(* reconcileConfigMap publishes the config.yaml of its pass, although it   *)
(* compares it with the cache; and what cr.spec wants stays.               *)
LEMMA ConfigMapApplied ==
    ASSUME TypeOK, cr.live, NEW a \in Specs, PassSees(a), PublishedOK(a), CopiesLag(a),
           step # "idle", NEW k, k = Published(tier.name),
           Applied(k, buildConfigMap(cluster.spec, tier))
    PROVE  /\ obj'[k].live
           /\ obj'[k].mut.data = ConfigYAML(cluster.spec, tier)
           /\ obj[k].live /\ YamlOf(cr.spec, tier.name, obj[k].mut.data)
                => obj'[k].mut.data = obj[k].mut.data
<1> DEFINE want == ConfigYAML(cluster.spec, tier)
           n == tier.name
<1>1. /\ YamlOf(cluster.spec, n, want) /\ cluster.spec \in Specs /\ n \in TierNames
      /\ k \in Keys /\ cr.spec \in Specs
  BY PassYaml, PublishedKeys, SpecOf
<1>2. /\ DOMAIN buildConfigMap(cluster.spec, tier).mut = {"data"}
      /\ buildConfigMap(cluster.spec, tier).mut["data"] = want
  BY DEF buildConfigMap
<1>3. /\ obj'[k].live
      /\ \/ obj'[k].mut.data = want
         \/ /\ obj[k].live /\ objCache[k].live /\ objCache[k].mut.data = want
            /\ obj'[k].mut.data = obj[k].mut.data
  BY <1>1, <1>2, AppliedField
<1> HIDE DEF want, n
<1>4. CASE cluster.spec = cr.spec
  <2>1. objCache[k].live /\ objCache[k].mut.data = want =>
           YamlOf(cr.spec, n, obj[k].mut.data)
    BY <1>1, <1>4 DEF CopiesLag, Copies, n
  <2>2. obj'[k].mut.data = want
    BY <1>1, <1>3, <1>4, <2>1, YamlUnique
  <2>3. YamlOf(cr.spec, n, obj[k].mut.data) => obj[k].mut.data = want
    BY <1>1, <1>4, YamlUnique
  <2> QED
    BY <1>3, <2>2, <2>3 DEF want, n
<1>5. CASE cluster.spec # cr.spec
  <2>1. cluster.spec = a /\ OldAtWork
    BY <1>5 DEF PassSees, OldAtWork
  <2>2. obj[k].live => YamlOf(a, n, obj[k].mut.data)
    BY <1>1, <2>1 DEF PublishedOK, n
  <2>3. obj[k].live => obj[k].mut.data = want
    BY <1>1, <2>1, <2>2, YamlUnique
  <2> QED
    BY <1>3, <2>3 DEF want, n
<1> QED
  BY <1>4, <1>5

-----------------------------------------------------------------------------
(* EditInv(a) survives every step but an edit.                             *)

(* What a step makes of the ConfigMap of tier n. *)
LEMMA ConfigMapStep ==
    ASSUME TypeOK, FirstLife, cr.live, [Next]_vars, NEW a \in Specs, EditInv(a),
           NEW n \in TierNames
    PROVE  /\ obj[Published(n)].live => obj'[Published(n)].live
           /\ \/ obj'[Published(n)] = obj[Published(n)]
              \/ step # "idle" /\ YamlOf(cluster.spec, n, obj'[Published(n)].mut.data)
           /\ obj[Published(n)].live /\ YamlOf(cr.spec, n, obj[Published(n)].mut.data)
                => obj'[Published(n)].mut.data = obj[Published(n)].mut.data
<1>1. CASE obj'[Published(n)] = obj[Published(n)]
  BY <1>1
<1>2. CASE /\ ReconcileConfigMap /\ n = tier.name
           /\ Applied(Published(n), buildConfigMap(cluster.spec, tier))
  <2>1. step # "idle"
    BY <1>2 DEF ReconcileConfigMap
  <2>2. PassSees(a) /\ PublishedOK(a) /\ CopiesLag(a)
    BY DEF EditInv
  <2>3. PICK k : k = Published(tier.name)
    OBVIOUS
  <2>4. /\ obj'[k].live
        /\ obj'[k].mut.data = ConfigYAML(cluster.spec, tier)
        /\ obj[k].live /\ YamlOf(cr.spec, tier.name, obj[k].mut.data)
             => obj'[k].mut.data = obj[k].mut.data
    BY <1>2, <2>1, <2>2, <2>3, ConfigMapApplied
  <2> QED
    BY <1>2, <2>1, <2>3, <2>4, PassYaml
<1> QED
  BY <1>1, <1>2, ConfigMapWritten

LEMMA PublishedStep ==
    ASSUME TypeOK, FirstLife, cr.live, [Next]_vars, ~EditCluster, ~DeleteCluster,
           NEW a \in Specs, EditInv(a)
    PROVE  PublishedOK(a)'
<1> SUFFICES ASSUME NEW n \in TierNames, obj'[Published(n)].live
             PROVE  /\ \/ YamlOf(a, n, obj'[Published(n)].mut.data)
                       \/ YamlOf(cr'.spec, n, obj'[Published(n)].mut.data)
                    /\ OldAtWork' => YamlOf(a, n, obj'[Published(n)].mut.data)
  BY DEF PublishedOK, Published, Known
<1>1. cr'.spec = cr.spec /\ (OldAtWork' => OldAtWork)
  BY SpecKept, PassSeesStep DEF EditInv
<1>2. CASE obj'[Published(n)] = obj[Published(n)]
  BY <1>1, <1>2 DEF EditInv, PublishedOK, Known
<1>3. CASE step # "idle" /\ YamlOf(cluster.spec, n, obj'[Published(n)].mut.data)
  <2>1. cluster.spec \in {a, cr.spec} /\ (OldAtWork => cluster.spec = a)
    BY <1>3 DEF EditInv, PassSees, OldAtWork
  <2> QED
    BY <1>1, <1>3, <2>1 DEF Known
<1> QED
  BY <1>2, <1>3, ConfigMapStep

LEMMA CopiesLagStep ==
    ASSUME TypeOK, FirstLife, cr.live, [Next]_vars, ~EditCluster, ~DeleteCluster,
           NEW a \in Specs, EditInv(a)
    PROVE  CopiesLag(a)'
<1> SUFFICES ASSUME NEW n \in TierNames,
                    NEW o \in {objCache'[Published(n)]} \cup Range(objWatch'[Published(n)]),
                    o.live
             PROVE  /\ Known(a, n, o.mut.data)'
                    /\ obj'[Published(n)].live
                    /\ YamlOf(cr'.spec, n, o.mut.data) =>
                          YamlOf(cr'.spec, n, obj'[Published(n)].mut.data)
  BY DEF CopiesLag, Copies, Published
<1>1. cr'.spec = cr.spec
  BY SpecKept
<1>2. Published(n) \in Keys
  BY PublishedKeys
<1>3. o \in {objCache[Published(n)], obj[Published(n)], obj'[Published(n)]}
              \cup Range(objWatch[Published(n)])
  BY <1>2, CopiesOrigin
<1>4. CASE o = obj'[Published(n)]
  <2>1. PublishedOK(a)'
    BY PublishedStep
  <2>2. Known(a, n, o.mut.data)'
    BY <1>4, <2>1 DEF PublishedOK, Published
  <2> QED
    BY <1>4, <2>2
<1>5. CASE o # obj'[Published(n)]
  <2>1. /\ Known(a, n, o.mut.data) /\ obj[Published(n)].live
        /\ YamlOf(cr.spec, n, o.mut.data) => YamlOf(cr.spec, n, obj[Published(n)].mut.data)
    <3>1. CASE o = obj[Published(n)]
      BY <3>1 DEF EditInv, PublishedOK
    <3>2. CASE o \in Copies(n)
      BY <3>2 DEF EditInv, CopiesLag
    <3> QED
      BY <1>3, <1>5, <3>1, <3>2 DEF Copies
  <2>2. /\ obj'[Published(n)].live
        /\ YamlOf(cr.spec, n, obj[Published(n)].mut.data)
             => obj'[Published(n)].mut.data = obj[Published(n)].mut.data
    BY <2>1, ConfigMapStep
  <2> QED
    BY <1>1, <2>1, <2>2 DEF Known
<1> QED
  BY <1>4, <1>5

(* A pass leaves the ConfigMap behind by reconcileConfigMap only. *)
LEMMA PassGoesOn ==
    ASSUME TypeOK, [Next]_vars, step' \notin {"idle", "configmap"}
    PROVE  /\ step # "idle" /\ UNCHANGED <<cluster, ti>>
           /\ step = "configmap" =>
                 Applied(ConfigMapKey(tier), buildConfigMap(cluster.spec, tier))
<1>1. ~ClearLocals
  BY DEF ClearLocals
<1>2. CASE FetchCluster
  BY <1>2 DEF FetchCluster, localVars
<1>3. CASE EntriesLeft \/ EntryHeld \/ EntryAdded
  <2>1. step # "idle" /\ UNCHANGED <<cluster, ti>>
    BY <1>3 DEF EntriesLeft, EntryHeld, EntryAdded, NextTier
  <2>2. ASSUME step = "configmap"
        PROVE  Applied(ConfigMapKey(tier), buildConfigMap(cluster.spec, tier))
    <3>1. ~(Manager \/ User \/ Kubernetes \/ UNCHANGED vars)
      BY <1>1, <2>2
      DEF Manager, DeliverCr, DeliverObj, RequeueAfterElapses, Restart, User, CreateCluster,
          EditCluster, DeleteCluster, Kubernetes, CollectGarbage, StatefulSetController,
          RollPods, PodBecomesReady, PodRetires, PodFails, PodsVanish, vars, localVars
    <3>2. ReconcileConfigMap
      BY <1>1, <2>2, <3>1
      DEF Next, Reconcile, FetchCluster, ReconcileInterconnect, ReconcileClient,
          ReconcileStatefulSet, ListExtraStatefulSets, ListExtra, DeleteExtraStatefulSet,
          CleanupDone, ReconcileIngress, CollectTierStatus, ReconcilePlugins, UpdateStatus,
          UpdateStatusPluginFailed, CallFails, ReturnError
    <3> QED
      BY <1>1, <3>2 DEF ReconcileConfigMap, ApplyObject, ReturnError
  <2> QED
    BY <2>1, <2>2
<1> QED
  BY <1>1, <1>2, <1>3, EntrySteps

LEMMA PassPublishedStep ==
    ASSUME TypeOK, FirstLife, cr.live, [Next]_vars, NEW a \in Specs, EditInv(a)
    PROVE  PassPublished'
<1> SUFFICES ASSUME step' \notin {"idle", "configmap"}
             PROVE  obj'[ConfigMapKey(tier')].mut.data = ConfigYAML(cluster'.spec, tier')
  BY DEF PassPublished, ConfigMapKey
<1>1. /\ step # "idle" /\ UNCHANGED <<cluster, ti>>
      /\ step = "configmap" => Applied(ConfigMapKey(tier), buildConfigMap(cluster.spec, tier))
  BY PassGoesOn
<1>2. tier' = tier
  BY <1>1 DEF tier
<1>3. PICK k : k = ConfigMapKey(tier)
  OBVIOUS
<1>4. tier.name \in TierNames /\ k = Published(tier.name)
  BY <1>1, <1>3, PassYaml
<1>5. CASE step = "configmap"
  BY <1>1, <1>2, <1>3, <1>4, <1>5, ConfigMapApplied DEF EditInv
<1>6. CASE step # "configmap"
  <2>1. obj'[k] = obj[k]
    BY <1>4, <1>6, ConfigMapWritten DEF ReconcileConfigMap
  <2> QED
    BY <1>1, <1>2, <1>3, <1>6, <2>1 DEF EditInv, PassPublished
<1> QED
  BY <1>5, <1>6

LEMMA ChecksumsStep ==
    ASSUME TypeOK, FirstLife, cr.live, [Next]_vars, ~EditCluster, ~DeleteCluster,
           NEW a \in Specs, EditInv(a)
    PROVE  ChecksumsOK(a)'
<1> SUFFICES ASSUME NEW k \in StsKeys, obj'[k].live
             PROVE  Announces(a, k[2], obj[k].mut.checksum, obj[Published(k[2])].mut.data)'
  BY DEF ChecksumsOK
<1>1. cr'.spec = cr.spec /\ k \in Keys /\ k[2] \in TierNames
  BY SpecKept, StsKeyTier
<1>2. ASSUME obj[k].live, obj'[k].mut.checksum = obj[k].mut.checksum
      PROVE  Announces(a, k[2], obj[k].mut.checksum, obj[Published(k[2])].mut.data)'
  <2>1. obj[Published(k[2])].live
    BY <1>2 DEF FirstLife, StsHaveDeps, HasDeps, Published
  <2>2. Announces(a, k[2], obj[k].mut.checksum, obj[Published(k[2])].mut.data)
    BY <1>2 DEF EditInv, ChecksumsOK
  <2>3. YamlOf(cr.spec, k[2], obj[Published(k[2])].mut.data)
          => obj'[Published(k[2])].mut.data = obj[Published(k[2])].mut.data
    BY <1>1, <2>1, ConfigMapStep
  <2> QED
    BY <1>1, <1>2, <2>2, <2>3 DEF Announces, Known, Published
<1>3. CASE ReconcileStatefulSet /\ k = StatefulSetKey(tier, rsIndex) /\ Applied(k, BuiltHere)
  <2>1. step = "statefulset" /\ k[2] = tier.name
    BY <1>3 DEF ReconcileStatefulSet, StatefulSetKey
  <2>2. PICK want : want = ConfigYAML(cluster.spec, tier)
    OBVIOUS
  <2>3. /\ YamlOf(cluster.spec, k[2], want) /\ cluster.spec \in {a, cr.spec}
        /\ ConfigMapKey(tier) = Published(k[2])
    BY <2>1, <2>2, PassYaml DEF EditInv, PassSees
  <2>4. obj'[Published(k[2])].mut.data = want
    <3>1. obj[Published(k[2])].mut.data = want
      BY <2>1, <2>2, <2>3 DEF EditInv, PassPublished
    <3> QED
      BY <1>1, <2>1, <3>1, ConfigMapWritten DEF ReconcileConfigMap
  <2>5. "checksum" \in DOMAIN BuiltHere.mut /\ BuiltHere.mut.checksum = configHash(want)
    BY <2>2 DEF BuiltHere, buildStatefulSet
  <2>6. \/ obj'[k].mut.checksum = configHash(want)
        \/ obj[k].live /\ obj'[k].mut.checksum = obj[k].mut.checksum
    BY <1>1, <1>3, <2>5, AppliedField
  <2>7. CASE obj'[k].mut.checksum = configHash(want)
    <3>1. obj'[k].mut.checksum.sha256 = want
      BY <2>7 DEF configHash
    <3> QED
      BY <1>1, <2>3, <2>4, <3>1 DEF Announces, Known, Published
  <2> QED
    BY <1>2, <2>6, <2>7
<1> QED
  BY <1>2, <1>3, StsWritten

(* Pods are started from the template and the ConfigMap as they are. *)
LEMMA PodsWritten ==
    ASSUME TypeOK, [Next]_vars, pods = [k \in StsKeys |-> pods[k]]
    PROVE  /\ pods' = [k \in StsKeys |-> pods'[k]]
           /\ \A k \in StsKeys : pods'[k].live =>
                 \/ pods'[k] = pods[k]
                 \/ /\ obj[k].live /\ obj[Published(k[2])].live
                    /\ pods'[k] = [live |-> TRUE, template |-> Template(obj[k]),
                                   config |-> obj[Published(k[2])].mut.data]
<1>1. CASE UNCHANGED pods
  BY <1>1
<1>2. ASSUME NEW l \in StsKeys, RollPods(l)
      PROVE  /\ obj[l].live /\ obj[Published(l[2])].live
             /\ pods' = [pods EXCEPT ![l] = [live |-> TRUE, template |-> Template(obj[l]),
                                             config |-> obj[Published(l[2])].mut.data]]
  BY <1>2 DEF RollPods, Published
<1>3. ASSUME NEW l \in StsKeys, PodsVanish(l) PROVE pods' = [pods EXCEPT ![l] = Absent]
  BY <1>3 DEF PodsVanish
<1>4. CASE \E l \in StsKeys : RollPods(l)
  BY <1>2, <1>4
<1>5. CASE \E l \in StsKeys : PodsVanish(l)
  BY <1>3, <1>5 DEF Absent
<1>6. CASE Reconcile \/ Manager \/ User \/ UNCHANGED vars
  <2>1. UNCHANGED pods
    BY <1>6
    DEF Reconcile, FetchCluster, ReconcileConfigMap, ReconcileInterconnect, ReconcileClient,
        ReconcileStatefulSet, ListExtraStatefulSets, ListExtra, DeleteExtraStatefulSet,
        CleanupDone, ReconcileIngress, CollectTierStatus, ReconcilePlugins, UpdateStatus,
        UpdateStatusPluginFailed, CallFails, ApplyObject, Manager, DeliverCr, DeliverObj,
        RequeueAfterElapses, Restart, User, CreateCluster, EditCluster, DeleteCluster, vars
  <2> QED
    BY <1>1, <2>1
<1>7. CASE Kubernetes
  <2>1. UNCHANGED pods \/ \E l \in StsKeys : RollPods(l) \/ PodsVanish(l)
    BY <1>7
    DEF Kubernetes, CollectGarbage, StatefulSetController, PodBecomesReady, PodRetires,
        PodFails
  <2> QED
    BY <1>1, <1>4, <1>5, <2>1
<1> QED
  BY <1>6, <1>7 DEF Next

LEMMA PodsStep ==
    ASSUME TypeOK, cr.live, [Next]_vars, ~EditCluster, ~DeleteCluster,
           NEW a \in Specs, EditInv(a), pods = [k \in StsKeys |-> pods[k]]
    PROVE  PodsOK(a)'
<1> SUFFICES ASSUME NEW k \in StsKeys, pods'[k].live
             PROVE  (/\ Known(a, k[2], pods[k].config)
                     /\ Announces(a, k[2], pods[k].template.checksum, pods[k].config))'
  BY DEF PodsOK
<1>1. cr'.spec = cr.spec /\ k[2] \in TierNames
  BY SpecKept, StsKeyTier
<1>2. CASE pods'[k] = pods[k]
  BY <1>1, <1>2 DEF EditInv, PodsOK, Announces, Known
<1>3. CASE /\ obj[k].live /\ obj[Published(k[2])].live
           /\ pods'[k] = [live |-> TRUE, template |-> Template(obj[k]),
                          config |-> obj[Published(k[2])].mut.data]
  <2>1. /\ Known(a, k[2], obj[Published(k[2])].mut.data)
        /\ Announces(a, k[2], obj[k].mut.checksum, obj[Published(k[2])].mut.data)
    BY <1>1, <1>3 DEF EditInv, PublishedOK, ChecksumsOK
  <2>2. /\ pods'[k].config = obj[Published(k[2])].mut.data
        /\ pods'[k].template.checksum = obj[k].mut.checksum
    BY <1>3 DEF Template, TemplateFields
  <2> QED
    BY <1>1, <2>1, <2>2 DEF Announces, Known
<1> QED
  BY <1>2, <1>3, PodsWritten

LEMMA EditInvStep ==
    ASSUME TypeOK, FirstLife, cr.live, [Next]_vars, ~EditCluster, ~DeleteCluster,
           NEW a \in Specs, EditInv(a), pods = [k \in StsKeys |-> pods[k]]
    PROVE  EditInv(a)'
<1>1. SpecsSeen(a)' /\ PassSees(a)'
  BY SeenStep, PassSeesStep DEF EditInv
<1>2. PublishedOK(a)' /\ CopiesLag(a)' /\ PassPublished'
  BY PublishedStep, CopiesLagStep, PassPublishedStep
<1>3. ChecksumsOK(a)' /\ PodsOK(a)'
  BY ChecksumsStep, PodsStep
<1> QED
  BY <1>1, <1>2, <1>3 DEF EditInv

-----------------------------------------------------------------------------
(* The user's steps.                                                       *)

(* The edit.  So far there has been one spec: it is the old one now. *)
LEMMA EditStep ==
    ASSUME OneEdit, TypeOK, FirstLife, cr.live, EditCluster, NEW a \in Specs, EditInv(a)
    PROVE  cr'.live /\ EditInv(a)'
<1>1. spent["edits"] = 0 /\ a = cr.spec
  <2>1. spent["edits"] = 0
    BY BoundsAssumption DEF EditCluster, Spend, OneEdit, TypeOK, SpentTypeOK, Budgets
  <2> QED
    BY <2>1 DEF EditInv, SpecsSeen
<1>2. /\ cr'.live /\ cr'.spec # a
      /\ crWatch' = Append(crWatch, cr') /\ spent'["edits"] # 0
      /\ UNCHANGED <<obj, objCache, objWatch, crCache, step, cluster, ti, pods>>
  <2>1. PICK s \in Specs \ {cr.spec} : WriteCr([cr EXCEPT !.spec = s])
    BY DEF EditCluster
  <2>2. cr' = [cr EXCEPT !.spec = s]
    BY <2>1, WriteCrEffect DEF TypeOK
  <2>3. cr'.spec = s /\ cr'.live
    BY <2>2, SpecOf DEF ClusterFields
  <2>4. crWatch' = Append(crWatch, cr')
    BY <1>1, <2>1, <2>2, <2>3 DEF WriteCr
  <2>5. spent'["edits"] # 0
    BY <1>1 DEF EditCluster, Spend, TypeOK, SpentTypeOK, Budgets
  <2> QED
    BY <1>1, <2>1, <2>3, <2>4, <2>5 DEF EditCluster, cacheVars, localVars
<1>3. /\ ~New(crCache)' /\ \A c \in Range(crWatch) : ~(c.live /\ c.spec = cr'.spec)
      /\ step # "idle" => cluster.spec = a
  BY <1>1, <1>2 DEF EditInv, SpecsSeen, PassSees, New
<1>4. SpecsSeen(a)' /\ PassSees(a)'
  <2>1. /\ crWatch \in Seq(Range(crWatch)) /\ Len(crWatch) \in Nat
        /\ \A i \in 1..Len(crWatch) : crWatch[i] \in Range(crWatch)
    BY DEF TypeOK, ClusterTypeOK, IsWatch, Range
  <2>2. Range(crWatch') = Range(crWatch) \cup {cr'} /\ Len(crWatch') = Len(crWatch) + 1
    BY <1>2, <2>1, AppendWatch
  <2>3. \A i \in 1..Len(crWatch) : crWatch'[i] = crWatch[i]
    <3> DEFINE S == Range(crWatch) \cup {cr'}
    <3>1. crWatch \in Seq(S) /\ cr' \in S
      BY <2>1
    <3> QED
      BY <1>2, <3>1, AppendProperties
  <2>4. ASSUME NEW i \in 1..Len(crWatch'), NEW j \in 1..Len(crWatch'), i < j
        PROVE  ~(crWatch'[i].live /\ crWatch'[i].spec = cr'.spec)
    <3>1. /\ Len(crWatch) \in Nat /\ Len(crWatch') = Len(crWatch) + 1
          /\ i \in 1..Len(crWatch') /\ j \in 1..Len(crWatch') /\ i < j
      BY <2>1, <2>2, <2>4
    <3>2. i \in 1..Len(crWatch)
      BY <3>1
    <3> QED
      BY <1>3, <2>1, <2>3, <3>2
  <2>5. \A c \in Range(crWatch') : c.live => c.spec \in {a, cr'.spec}
    BY <1>1, <2>2 DEF EditInv, SpecsSeen
  <2>6. crCache'.live => crCache'.spec \in {a, cr'.spec}
    BY <1>1, <1>2 DEF EditInv, SpecsSeen
  <2>7. SpecsSeen(a)'
    BY <1>2, <1>3, <2>4, <2>5, <2>6 DEF SpecsSeen, New
  <2> QED
    BY <1>2, <1>3, <2>7 DEF PassSees
<1>5. \A n, d : Known(a, n, d) => YamlOf(a, n, d) /\ Known(a, n, d)'
  BY <1>1 DEF Known
<1>6. \A n \in TierNames : obj[Published(n)].live =>
          YamlOf(a, n, obj[Published(n)].mut.data)
  BY <1>5 DEF EditInv, PublishedOK
<1>7. PublishedOK(a)'
  BY <1>2, <1>5, <1>6 DEF PublishedOK, Known
<1>8. CopiesLag(a)'
  <2> SUFFICES ASSUME NEW n \in TierNames, NEW o \in Copies(n), o.live
               PROVE  /\ Known(a, n, o.mut.data)'
                      /\ obj[Published(n)].live
                      /\ o.mut.data = obj[Published(n)].mut.data
    BY <1>2 DEF CopiesLag, Copies
  <2>1. Known(a, n, o.mut.data) /\ obj[Published(n)].live
    BY DEF EditInv, CopiesLag
  <2> QED
    BY <1>5, <1>6, <2>1, YamlUnique
<1>9. PassPublished'
  BY <1>2 DEF EditInv, PassPublished, tier
<1>10. ChecksumsOK(a)'
  <2> SUFFICES ASSUME NEW k \in StsKeys, obj[k].live
               PROVE  Announces(a, k[2], obj[k].mut.checksum, obj[Published(k[2])].mut.data)'
    BY <1>2 DEF ChecksumsOK
  <2>1. /\ Known(a, k[2], obj[k].mut.checksum.sha256)
        /\ YamlOf(a, k[2], obj[Published(k[2])].mut.data)
    <3>1. obj[Published(k[2])].live /\ k[2] \in TierNames
      BY StsKeyTier DEF FirstLife, StsHaveDeps, HasDeps, Published
    <3> QED
      BY <1>6, <3>1 DEF EditInv, ChecksumsOK, Announces
  <2>2. obj[Published(k[2])].mut.data = obj[k].mut.checksum.sha256
    BY <1>5, <2>1, YamlUnique
  <2> QED
    BY <1>2, <1>5, <2>1, <2>2 DEF Announces, Known
<1>11. PodsOK(a)'
  <2> SUFFICES ASSUME NEW k \in StsKeys, pods[k].live
               PROVE  (/\ Known(a, k[2], pods[k].config)
                       /\ Announces(a, k[2], pods[k].template.checksum, pods[k].config))'
    BY <1>2 DEF PodsOK
  <2>1. /\ Known(a, k[2], pods[k].config)
        /\ Known(a, k[2], pods[k].template.checksum.sha256)
    BY DEF EditInv, PodsOK, Announces
  <2>2. pods[k].config = pods[k].template.checksum.sha256
    BY <1>5, <2>1, YamlUnique
  <2> QED
    BY <1>2, <1>5, <2>1, <2>2 DEF Announces, Known
<1> QED
  BY <1>2, <1>4, <1>7, <1>8, <1>9, <1>10, <1>11 DEF EditInv

(* The resource is created: there is nothing else yet. *)
LEMMA CreateStep ==
    ASSUME TypeOK, FirstLife, CreateCluster, NothingPublished
    PROVE  cr'.live /\ \E a \in Specs : EditInv(a)'
<1>1. PICK a \in Specs :
         WriteCr([live |-> TRUE, uid |-> spent["deletes"], spec |-> a, status |-> NoStatus])
  BY DEF CreateCluster
<1>2. /\ ~cr.live /\ cr'.live /\ cr'.spec = a
      /\ crWatch' = Append(crWatch, cr')
      /\ UNCHANGED <<obj, objCache, objWatch, crCache, step, pods>>
  <2>1. cr' = [live |-> TRUE, uid |-> spent["deletes"], spec |-> a, status |-> NoStatus]
    BY <1>1, WriteCrEffect DEF TypeOK
  <2>2. ~cr.live
    BY DEF CreateCluster
  <2>3. cr' # cr
    BY <2>1, <2>2
  <2>4. crWatch' = Append(crWatch, cr')
    BY <1>1, <2>1, <2>3 DEF WriteCr
  <2> QED
    BY <2>1, <2>2, <2>4 DEF CreateCluster, cacheVars, localVars
<1>3. /\ ~crCache.live /\ step = "idle" /\ \A c \in Range(crWatch) : ~c.live
      /\ \A k \in Keys : ~obj[k].live
  BY <1>2 DEF FirstLife, NothingBefore
<1>4. SpecsSeen(a)' /\ PassSees(a)'
  <2>1. /\ crWatch \in Seq(Range(crWatch)) /\ Len(crWatch) \in Nat
        /\ \A i \in 1..Len(crWatch) : crWatch[i] \in Range(crWatch)
    BY DEF TypeOK, ClusterTypeOK, IsWatch, Range
  <2>2. Range(crWatch') = Range(crWatch) \cup {cr'} /\ Len(crWatch') = Len(crWatch) + 1
    BY <1>2, <2>1, AppendWatch
  <2>3. \A i \in 1..Len(crWatch) : crWatch'[i] = crWatch[i]
    <3> DEFINE S == Range(crWatch) \cup {cr'}
    <3>1. crWatch \in Seq(S) /\ cr' \in S
      BY <2>1
    <3> QED
      BY <1>2, <3>1, AppendProperties
  <2>4. ASSUME NEW i \in 1..Len(crWatch'), NEW j \in 1..Len(crWatch'), i < j
        PROVE  ~crWatch'[i].live
    <3>1. /\ Len(crWatch) \in Nat /\ Len(crWatch') = Len(crWatch) + 1
          /\ i \in 1..Len(crWatch') /\ j \in 1..Len(crWatch') /\ i < j
      BY <2>1, <2>2, <2>4
    <3>2. i \in 1..Len(crWatch)
      BY <3>1
    <3> QED
      BY <1>3, <2>1, <2>3, <3>2
  <2> QED
    BY <1>2, <1>3, <2>2, <2>4 DEF SpecsSeen, PassSees, New
<1>5. PublishedOK(a)' /\ ChecksumsOK(a)'
  BY <1>2, <1>3, PublishedKeys, StsKeyTier DEF PublishedOK, ChecksumsOK
<1>6. CopiesLag(a)' /\ PodsOK(a)' /\ PassPublished'
  BY <1>2, <1>3 DEF NothingPublished, CopiesLag, Copies, PodsOK, PassPublished
<1> QED
  BY <1>2, <1>4, <1>5, <1>6 DEF EditInv

(* Nothing appears before the resource does. *)
LEMMA NothingStep ==
    ASSUME TypeOK, FirstLife, FirstLife', ~cr'.live, [Next]_vars, ~cr.live, NothingPublished,
           pods = [k \in StsKeys |-> pods[k]]
    PROVE  NothingPublished'
<1>1. \A k \in Keys : ~obj[k].live /\ ~obj'[k].live
  BY DEF FirstLife, NothingBefore
<1>2. ASSUME NEW n \in TierNames,
             NEW o \in {objCache'[Published(n)]} \cup Range(objWatch'[Published(n)])
      PROVE  ~o.live
  <2>1. Published(n) \in Keys
    BY PublishedKeys
  <2>2. o \in {objCache[Published(n)], obj[Published(n)], obj'[Published(n)]}
                \cup Range(objWatch[Published(n)])
    BY <2>1, CopiesOrigin
  <2> QED
    BY <1>1, <2>1, <2>2 DEF NothingPublished, Copies
<1>3. \A k \in StsKeys : ~pods'[k].live
  BY <1>1, PodsWritten, StsKeyTier DEF NothingPublished
<1> QED
  BY <1>2, <1>3 DEF NothingPublished, Copies, Published

-----------------------------------------------------------------------------
(* ConfigInv is inductive.                                                 *)
LEMMA ConfigStep ==
    ASSUME OneEdit, WakeInv, WakeInv', [Next]_vars, ConfigInv
    PROVE  ConfigInv'
<1>1. TypeOK /\ FirstLife /\ FirstLife' /\ ~DeleteCluster
  <2>1. /\ TypeOK /\ (spent["deletes"] = 0 => FirstLife)
        /\ TypeOK' /\ (spent["deletes"] = 0 => FirstLife)'
    BY DEF WakeInv, OrderInv, DepsInv
  <2>2. ASSUME NEW n \in Nat, n <= 0 PROVE n = 0
    BY <2>2
  <2>3. spent["deletes"] = 0
    BY <2>1, <2>2 DEF OneEdit, TypeOK, SpentTypeOK, Budgets
  <2>4. spent'["deletes"] = 0
    BY <2>1, <2>2 DEF OneEdit, TypeOK, SpentTypeOK, Budgets
  <2>5. ~DeleteCluster
    BY <2>1, <2>4, SpendEffect DEF DeleteCluster, TypeOK
  <2> QED
    BY <2>1, <2>3, <2>4, <2>5
<1>2. pods = [k \in StsKeys |-> pods[k]] /\ pods' = [k \in StsKeys |-> pods'[k]]
  BY <1>1, PodsWritten DEF ConfigInv
<1>3. CASE cr.live
  <2>1. PICK a \in Specs : EditInv(a)
    BY <1>3 DEF ConfigInv
  <2>2. cr'.live /\ EditInv(a)'
    <3>1. CASE EditCluster
      BY <1>1, <1>3, <2>1, <3>1, EditStep
    <3>2. CASE ~EditCluster
      BY <1>1, <1>2, <1>3, <2>1, <3>2, SpecKept, EditInvStep
    <3> QED
      BY <3>1, <3>2
  <2> QED
    BY <1>2, <2>2 DEF ConfigInv
<1>4. CASE ~cr.live
  <2>1. NothingPublished
    BY <1>4 DEF ConfigInv
  <2>2. CASE CreateCluster
    BY <1>1, <1>2, <2>1, <2>2, CreateStep DEF ConfigInv
  <2>3. CASE ~CreateCluster
    <3>1. ~cr'.live
      BY <1>1, <1>4, <2>3, ResourceKept
    <3>2. NothingPublished'
      BY <1>1, <1>2, <1>4, <2>1, <3>1, NothingStep
    <3> QED
      BY <1>2, <3>1, <3>2 DEF ConfigInv
  <2> QED
    BY <2>2, <2>3
<1> QED
  BY <1>3, <1>4

(* At rest the ConfigMap of a tier of the spec, and the checksums of its   *)
(* StatefulSets, are those of the spec; the ConfigMap of a tier that the   *)
(* edit has removed is the old one for ever.                               *)
LEMMA PodsAtRest ==
    ASSUME TypeOK, FirstLife, NoLostWakeup, ConfigInv
    PROVE  PodsRunPublishedConfig
<1> SUFFICES ASSUME Settled, cr.live, NEW k \in StsKeys, obj[k].live, RolledOut(k)
             PROVE  pods[k].config = obj[Published(k[2])].mut.data
  BY DEF PodsRunPublishedConfig, Published
<1>1. PICK a \in Specs : EditInv(a)
  BY DEF ConfigInv
<1>2. /\ cr.spec \in Specs /\ k[2] \in TierNames /\ k \in Keys
      /\ k = <<"StatefulSet", k[2], k[3]>> /\ k[3] \in 1..MaxReplicas
  BY SpecOf, StsKeyTier DEF StsKeys
<1>3. /\ Known(a, k[2], pods[k].config)
      /\ Announces(a, k[2], obj[k].mut.checksum, pods[k].config)
  <2>1. pods[k].live /\ pods[k].template.checksum = obj[k].mut.checksum
    BY DEF RolledOut, Template, TemplateFields
  <2> QED
    BY <1>1, <2>1 DEF EditInv, PodsOK
<1>4. obj[Published(k[2])].live /\ Known(a, k[2], obj[Published(k[2])].mut.data)
  <2>1. obj[Published(k[2])].live
    BY DEF FirstLife, StsHaveDeps, HasDeps, Published
  <2> QED
    BY <1>1, <1>2, <2>1 DEF EditInv, PublishedOK
<1>5. CASE \E j \in DOMAIN cr.spec.tiers : cr.spec.tiers[j].name = k[2]
  <2>1. PICK j \in DOMAIN cr.spec.tiers : cr.spec.tiers[j].name = k[2]
    BY <1>5
  <2>2. PICK t : t = cr.spec.tiers[j]
    OBVIOUS
  <2>3. PICK want : want = ConfigYAML(cr.spec, t)
    OBVIOUS
  <2>4. /\ TierConverged(cr.spec, t) /\ YamlOf(cr.spec, k[2], want)
        /\ t.replicas \in 1..MaxReplicas /\ t.name = k[2]
    <3>1. Converged
      BY DEF NoLostWakeup
    <3> QED
      BY <1>2, <2>1, <2>2, <2>3, <3>1, SpecsAssumption DEF Converged, YamlOf
  <2>5. k = StatefulSetKey(t, k[3]) /\ k \in TierKeys(t)
    <3>1. k = StatefulSetKey(t, k[3])
      BY <1>2, <2>4 DEF StatefulSetKey
    <3>2. ~(k[3] > t.replicas)
      BY <1>2, <2>4, <3>1 DEF TierConverged
    <3>3. k[3] \in 1..t.replicas
      BY <1>2, <2>4, <3>2, BoundsAssumption
    <3> QED
      BY <3>1, <3>3 DEF TierKeys
  <2>6. Published(k[2]) \in TierKeys(t) /\ Published(k[2]) = ConfigMapKey(t)
    BY <2>4 DEF TierKeys, ConfigMapKey, Published
  <2>7. Matches(cr.spec, t, k) /\ Matches(cr.spec, t, Published(k[2]))
    BY <2>4, <2>5, <2>6 DEF TierConverged
  <2>8. obj[Published(k[2])].mut.data = want
    <3>1. Build(cr.spec, t, Published(k[2])) = buildConfigMap(cr.spec, t)
      BY <2>6, BuildOf
    <3> QED
      BY <2>3, <2>7, <3>1 DEF Matches, buildConfigMap
  <2>9. obj[k].mut.checksum.sha256 = want
    <3>1. Build(cr.spec, t, k) = buildStatefulSet(cr.spec, t, k[3], ConfigYAML(cr.spec, t))
      BY <2>5, BuildOf
    <3>2. obj[k].mut.checksum = configHash(want)
      BY <2>3, <2>7, <3>1 DEF Matches, buildStatefulSet
    <3> QED
      BY <3>2 DEF configHash
  <2> QED
    BY <1>3, <2>4, <2>8, <2>9 DEF Announces
<1>6. CASE ~\E j \in DOMAIN cr.spec.tiers : cr.spec.tiers[j].name = k[2]
  <2>1. \A d : Known(a, k[2], d) => YamlOf(a, k[2], d)
    BY <1>6 DEF Known, YamlOf
  <2> QED
    BY <1>3, <1>4, <2>1, YamlUnique
<1> QED
  BY <1>5, <1>6

(* At rest every pod that was started from the current template runs the   *)
(* config.yaml that the ConfigMap of its tier holds (property              *)
(* PodsRunPublishedConfig): reconcileTier publishes the ConfigMap before   *)
(* it puts its checksum into the template, and a stale cache cannot bring  *)
(* an older config.yaml back.  The spec is edited once at most; with a     *)
(* second edit the property fails (run ConfigRevisited).                   *)
THEOREM PublishedConfigRuns ==
    ASSUME OneEdit
    PROVE  Spec => []PodsRunPublishedConfig
<1>1. NameKept
  BY DEF OneEdit, NameKept
<1>2. Init => ConfigInv
  <2> SUFFICES ASSUME Init PROVE ConfigInv
    OBVIOUS
  <2>1. ~cr.live /\ pods = [k \in StsKeys |-> pods[k]] /\ \A k \in StsKeys : ~pods[k].live
    BY DEF Init, Absent
  <2>2. ASSUME NEW n \in TierNames PROVE \A o \in Copies(n) : ~o.live
    BY PublishedKeys, EmptyWatch DEF Init, Absent, Copies
  <2> QED
    BY <2>1, <2>2 DEF ConfigInv, NothingPublished
<1>3. WakeInv /\ WakeInv' /\ ConfigInv /\ [Next]_vars => ConfigInv'
  BY ConfigStep
<1>4. WakeInv /\ ConfigInv => PodsRunPublishedConfig
  <2> SUFFICES ASSUME WakeInv, ConfigInv PROVE PodsRunPublishedConfig
    OBVIOUS
  <2>1. TypeOK /\ NoLostWakeup /\ (spent["deletes"] = 0 => FirstLife)
    BY DEF WakeInv, OrderInv, DepsInv
  <2>2. spent["deletes"] = 0
    BY <2>1 DEF OneEdit, TypeOK, SpentTypeOK, Budgets
  <2> QED
    BY <2>1, <2>2, PodsAtRest
<1> QED
  BY <1>1, <1>2, <1>3, <1>4, WakeInvariant, PTL DEF Spec
===============================================================================
