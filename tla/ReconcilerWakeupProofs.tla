------------------------ MODULE ReconcilerWakeupProofs ------------------------
(***************************************************************************)
(* Reconciler never comes to rest with work left to do (NoLostWakeup), or  *)
(* with a status that is not true (StatusTruthful), for every value of its *)
(* constants.                                                              *)
(*                                                                         *)
(* The argument.  Call the operator disturbed while a request is queued, a *)
(* timer runs or an event is under way.  A pass never ends a disturbance:  *)
(* events are delivered by queueing a request, and the queue is read only  *)
(* between passes.  So if it is undisturbed now, it has been since the     *)
(* pass began: the caches are current (CacheCurrent), the pass works on    *)
(* the resource as it is, and none of its calls has changed anything,      *)
(* since each change is an event.  A call that changed nothing has found   *)
(* its object as the spec wants it (PassQuiet), so a pass that ends        *)
(* undisturbed leaves a cluster that is as the spec wants it.              *)
(*                                                                         *)
(* What is left over of other replicasets is found by its labels, and they *)
(* hold the clusterName.  In the life of one resource a StatefulSet with   *)
(* another name than replicaset 1 of its tier cannot come into being       *)
(* (LabelsInv).  Across a deletion it can, if clusterName differs; hence   *)
(* the hypothesis of the theorem.                                          *)
(***************************************************************************)
EXTENDS ReconcilerRefinementProofs

(* Something will start another pass. *)
Disturbed ==
    \/ queued \/ timer
    \/ crWatch # <<>> \/ \E k \in Keys : objWatch[k] # <<>>

(* The last event under way, or else the cache, shows the object. *)
Latest(cache, watch, now) ==
    /\ watch = <<>> => cache = now
    /\ watch # <<>> => watch[Len(watch)] = now

CacheCurrent ==
    /\ Latest(crCache, crWatch, cr)
    /\ \A k \in Keys : Latest(objCache[k], objWatch[k], obj[k])

(* The labels of a StatefulSet never change, and name its cluster. *)
Named(k, c) == [name |-> k[2], cluster |-> c, replicaset |-> k[3]]

Labelled ==
    \A k \in StsKeys : obj[k].live =>
        /\ obj[k].fixed.selector = obj[k].mut.labels
        /\ \E s \in Specs : obj[k].mut.labels = Named(k, s.clusterName)

(* Every StatefulSet has the clusterName of replicaset 1 of its tier, so   *)
(* has the one the pass is about to create, and no cache shows that first  *)
(* one with another name.                                                  *)
First(k) == <<"StatefulSet", k[2], 1>>

FirstAgrees ==
    \A k \in StsKeys : obj[k].live =>
        /\ obj[First(k)].live
        /\ obj[First(k)].mut.labels.cluster = obj[k].mut.labels.cluster

NextAgrees ==
    step = "statefulset" /\ rsIndex > 1 =>
        obj[StatefulSetKey(tier, 1)].mut.labels.cluster = cluster.spec.clusterName

CopiesAgree ==
    \A k \in StsKeys : k[3] = 1 =>
        \A o \in {objCache[k]} \cup Range(objWatch[k]) :
            o.live => obj[k].live /\ o.mut.labels = obj[k].mut.labels

FirstLabels == FirstAgrees /\ NextAgrees /\ CopiesAgree

LabelsInv == Labelled /\ (spent["deletes"] = 0 => FirstLabels)

(* What an undisturbed pass has been through is as the spec wants it. *)
Good(k) == Matches(cluster.spec, tier, k)

DepsGood ==
    /\ step # "configmap" => Good(ConfigMapKey(tier))
    /\ step \notin {"configmap", "interconnect"} => Good(InterconnectKey(tier))
    /\ step \notin {"configmap", "interconnect", "client"} => Good(ClientKey(tier))

ReplicasetsGood ==
    /\ step = "statefulset" =>
          \A i \in 1..(rsIndex - 1) : Good(StatefulSetKey(tier, i))
    /\ step \notin {"configmap", "interconnect", "client", "statefulset"} =>
          \A i \in 1..tier.replicas : Good(StatefulSetKey(tier, i))

ExtraGone ==
    /\ step = "delete" =>
          \A i \in (tier.replicas + 1)..MaxReplicas :
              i \in extra <=> obj[StatefulSetKey(tier, i)].live
    /\ step \in {"ingress", "tierstatus", "plugins", "pluginfailed", "status"} =>
          \A i \in (tier.replicas + 1)..MaxReplicas : ~obj[StatefulSetKey(tier, i)].live

IngressGood ==
    step \in {"tierstatus", "plugins", "pluginfailed", "status"} /\ tier.ingress.enabled
        => Good(IngressKey(tier))

EarlierTiersGood ==
    \A j \in 1..(ti - 1) : TierConverged(cluster.spec, cluster.spec.tiers[j])

TierGood == DepsGood /\ ReplicasetsGood /\ ExtraGone /\ IngressGood

PassQuiet ==
    step # "idle" /\ ~Disturbed => cluster = cr /\ EarlierTiersGood /\ TierGood

(* A tier's loop starts at replicaset 1; the loop over the tiers ends with *)
(* the last.                                                               *)
LoopBounds ==
    /\ step \in {"configmap", "interconnect", "client"} => rsIndex = 1
    /\ step = "status" => ti = Len(cluster.spec.tiers)

(* Every resource of the name is given the same clusterName. *)
OneClusterName == \A r, s \in Specs : r.clusterName = s.clusterName

NameKept == Limit["deletes"] = 0 \/ OneClusterName

WakeInv == OrderInv /\ CacheCurrent /\ LabelsInv /\ LoopBounds /\ PassQuiet /\ NoLostWakeup

-----------------------------------------------------------------------------
(* Caches.                                                                 *)

LEMMA LatestAppend ==
    ASSUME NEW w, w \in Seq(Range(w)), NEW c, NEW v
    PROVE  Append(w, v) # <<>> /\ Latest(c, Append(w, v), v)
<1> DEFINE S == Range(w) \cup {v}
<1>1. w \in Seq(S)
  BY DEF Range
<1>2. Len(Append(w, v)) = Len(w) + 1 /\ Append(w, v)[Len(w) + 1] = v /\ Len(w) \in Nat
  BY <1>1, AppendProperties
<1>3. Append(w, v) # <<>>
  BY <1>1
<1> QED
  BY <1>2, <1>3 DEF Latest

LEMMA LatestTail ==
    ASSUME NEW w, w \in Seq(Range(w)), w # <<>>, NEW c, NEW v, Latest(c, w, v)
    PROVE  Latest(Head(w), Tail(w), v)
<1>1. w[Len(w)] = v /\ Len(w) \in Nat /\ Len(w) > 0 /\ Head(w) = w[1]
  <2>1. w[Len(w)] = v
    BY DEF Latest
  <2>2. Len(w) \in Nat /\ Len(w) > 0 /\ Head(w) = w[1]
    BY EmptySeq, LenProperties
  <2> QED
    BY <2>1, <2>2
<1> DEFINE t == Tail(w)
<1>2. /\ Len(t) = Len(w) - 1 /\ \A i \in 1..Len(t) : t[i] = w[i + 1]
      /\ t \in Seq(Range(w))
  BY HeadTailProperties
<1> HIDE DEF t
<1>3. CASE t = <<>>
  <2>1. Len(w) = 1
    BY <1>1, <1>2, <1>3, EmptyWatch
  <2> QED
    BY <1>1, <1>3, <2>1 DEF Latest, t
<1>4. CASE t # <<>>
  <2>1. Len(t) \in Nat /\ Len(t) > 0
    BY <1>2, <1>4, EmptySeq
  <2>2. t[Len(t)] = w[Len(w)]
    BY <1>1, <1>2, <2>1
  <2> QED
    BY <1>1, <1>4, <2>2 DEF Latest, t
<1> QED
  BY <1>3, <1>4

(* A write keeps the last event current, and one that changes something is *)
(* a disturbance.                                                          *)
LEMMA WriteObjLatest ==
    ASSUME TypeOK, CacheCurrent, NEW k \in Keys, NEW v, WriteObj(k, v), UNCHANGED objCache
    PROVE  /\ \A l \in Keys : Latest(objCache'[l], objWatch'[l], obj'[l])
           /\ v # obj[k] => objWatch'[k] # <<>>
           /\ v = obj[k] => UNCHANGED <<obj, objWatch>>
<1>1. CASE v = obj[k]
  BY <1>1 DEF WriteObj, CacheCurrent
<1>2. CASE v # obj[k]
  <2>1. /\ obj'[k] = v /\ objWatch'[k] = Append(objWatch[k], v)
        /\ \A l \in Keys \ {k} : obj'[l] = obj[l] /\ objWatch'[l] = objWatch[l]
    BY <1>2 DEF WriteObj, TypeOK, ObjectTypeOK
  <2>2. objWatch[k] \in Seq(Range(objWatch[k]))
    BY DEF TypeOK, ObjectTypeOK, IsWatch
  <2>3. objWatch'[k] # <<>> /\ Latest(objCache'[k], objWatch'[k], obj'[k])
    BY <2>1, <2>2, LatestAppend
  <2> QED
    BY <1>2, <2>1, <2>3 DEF CacheCurrent
<1> QED
  BY <1>1, <1>2

LEMMA WriteCrLatest ==
    ASSUME TypeOK, CacheCurrent, NEW v, WriteCr(v), UNCHANGED crCache
    PROVE  /\ Latest(crCache', crWatch', cr')
           /\ v # cr => crWatch' # <<>>
           /\ v = cr => UNCHANGED <<cr, crWatch>>
<1>1. CASE v = cr
  BY <1>1 DEF WriteCr, CacheCurrent
<1>2. CASE v # cr
  <2>1. cr' = v /\ crWatch' = Append(crWatch, v)
    BY <1>2 DEF WriteCr
  <2>2. crWatch \in Seq(Range(crWatch))
    BY DEF TypeOK, ClusterTypeOK, IsWatch
  <2> QED
    BY <1>2, <2>1, <2>2, LatestAppend
<1> QED
  BY <1>1, <1>2

(* What a step does to the API server and the caches. *)
QuietStepOf == UNCHANGED <<apiVars, cacheVars>>

ObjWrite ==
    /\ UNCHANGED <<cr, crWatch, cacheVars>>
    /\ \E k \in Keys : \E v : WriteObj(k, v)

CrWrite ==
    /\ UNCHANGED <<obj, objWatch, cacheVars>>
    /\ \E v : WriteCr(v)

LEMMA StepKinds ==
    ASSUME TypeOK, [Next]_vars
    PROVE  \/ QuietStepOf \/ ObjWrite \/ CrWrite
           \/ DeliverCr \/ (\E k \in Keys : DeliverObj(k)) \/ Restart
<1>1. CASE \/ ReconcileConfigMap \/ ReconcileInterconnect \/ ReconcileClient
           \/ ReconcileStatefulSet \/ ReconcileIngress
  <2>1. step # "idle"
    BY <1>1 DEF ReconcileConfigMap, ReconcileInterconnect, ReconcileClient,
                ReconcileStatefulSet, ReconcileIngress
  <2>2. /\ ConfigMapKey(tier) \in Keys /\ InterconnectKey(tier) \in Keys
        /\ ClientKey(tier) \in Keys /\ IngressKey(tier) \in Keys
        /\ StatefulSetKey(tier, rsIndex) \in Keys
    BY <2>1, PassBounds, TierKeysAreKeys
  <2>3. ASSUME NEW k \in Keys, NEW built, Applied(k, built) \/ UNCHANGED <<obj, objWatch>>,
               UNCHANGED <<cr, crWatch, cacheVars>>
        PROVE  QuietStepOf \/ ObjWrite
    BY <2>3 DEF Applied, QuietStepOf, ObjWrite, apiVars, cacheVars
  <2>4. QuietStepOf \/ ObjWrite
    <3>1. CASE ReconcileConfigMap
      BY <2>2, <2>3, <3>1 DEF ReconcileConfigMap, ApplyObject
    <3>2. CASE ReconcileInterconnect
      BY <2>2, <2>3, <3>2 DEF ReconcileInterconnect, ApplyObject
    <3>3. CASE ReconcileClient
      BY <2>2, <2>3, <3>3 DEF ReconcileClient, ApplyObject
    <3>4. CASE ReconcileStatefulSet
      BY <2>2, <2>3, <3>4 DEF ReconcileStatefulSet, ApplyObject
    <3>5. CASE ReconcileIngress
      BY <2>2, <2>3, <3>5 DEF ReconcileIngress, ApplyObject, QuietStepOf
    <3> QED
      BY <1>1, <3>1, <3>2, <3>3, <3>4, <3>5
  <2> QED
    BY <2>4
<1>2. CASE DeleteExtraStatefulSet
  <2>1. PICK i \in extra : WriteObj(StatefulSetKey(tier, i), Absent)
    BY <1>2 DEF DeleteExtraStatefulSet
  <2>2. step = "delete" /\ UNCHANGED <<cr, crWatch, cacheVars>>
    BY <1>2 DEF DeleteExtraStatefulSet
  <2>3. i \in (tier.replicas + 1)..MaxReplicas
    BY <2>2 DEF TypeOK, LocalTypeOK
  <2>4. i \in 1..MaxReplicas
    BY <2>2, <2>3, PassBounds, BoundsAssumption
  <2>5. StatefulSetKey(tier, i) \in Keys
    BY <2>2, <2>4, PassBounds, TierKeysAreKeys
  <2> QED
    BY <2>1, <2>2, <2>5 DEF ObjWrite
<1>3. CASE Kubernetes
  <2>1. \A k \in StsKeys : k \in Keys
    BY DEF Keys
  <2> QED
    BY <1>3, <2>1
    DEF Kubernetes, CollectGarbage, StatefulSetController, RollPods, PodBecomesReady,
        PodRetires, PodFails, PodsVanish, SetReady, ObjWrite, QuietStepOf
<1>4. CASE UpdateStatus \/ UpdateStatusPluginFailed
  BY <1>4
  DEF UpdateStatus, UpdateStatusPluginFailed, PatchStatus, CrWrite, QuietStepOf, apiVars
<1>5. CASE User
  BY <1>5 DEF User, CreateCluster, EditCluster, DeleteCluster, CrWrite
<1>6. CASE \/ FetchCluster \/ ListExtraStatefulSets \/ CleanupDone \/ CollectTierStatus
           \/ ReconcilePlugins \/ CallFails \/ RequeueAfterElapses \/ UNCHANGED vars
  BY <1>6
  DEF FetchCluster, ListExtraStatefulSets, ListExtra, CleanupDone, CollectTierStatus,
      ReconcilePlugins, CallFails, RequeueAfterElapses, vars, QuietStepOf
<1> QED
  BY <1>1, <1>2, <1>3, <1>4, <1>5, <1>6 DEF Next, Reconcile, Manager

LEMMA CacheStep ==
    ASSUME TypeOK, CacheCurrent, [Next]_vars
    PROVE  CacheCurrent'
<1>1. CASE QuietStepOf
  BY <1>1 DEF QuietStepOf, apiVars, cacheVars, CacheCurrent
<1>2. CASE ObjWrite
  <2>1. PICK k \in Keys : \E v : WriteObj(k, v)
    BY <1>2 DEF ObjWrite
  <2>2. UNCHANGED <<cr, crWatch, crCache, objCache>>
    BY <1>2 DEF ObjWrite, cacheVars
  <2> QED
    BY <2>1, <2>2, WriteObjLatest DEF CacheCurrent
<1>3. CASE CrWrite
  <2>1. UNCHANGED <<obj, objWatch, crCache, objCache>>
    BY <1>3 DEF CrWrite, cacheVars
  <2> QED
    BY <1>3, <2>1, WriteCrLatest DEF CrWrite, CacheCurrent
<1>4. CASE DeliverCr
  <2>1. crWatch \in Seq(Range(crWatch))
    BY DEF TypeOK, ClusterTypeOK, IsWatch
  <2> QED
    BY <1>4, <2>1, LatestTail DEF DeliverCr, CacheCurrent
<1>5. ASSUME NEW k \in Keys, DeliverObj(k) PROVE CacheCurrent'
  <2>1. /\ objCache'[k] = Head(objWatch[k]) /\ objWatch'[k] = Tail(objWatch[k])
        /\ \A l \in Keys \ {k} : objCache'[l] = objCache[l] /\ objWatch'[l] = objWatch[l]
        /\ UNCHANGED <<cr, crCache, crWatch, obj>>
    BY <1>5 DEF DeliverObj, TypeOK, ObjectTypeOK
  <2>2. objWatch[k] \in Seq(Range(objWatch[k])) /\ objWatch[k] # <<>>
    BY <1>5 DEF TypeOK, ObjectTypeOK, IsWatch, DeliverObj
  <2>3. Latest(objCache'[k], objWatch'[k], obj'[k])
    BY <2>1, <2>2, LatestTail DEF CacheCurrent
  <2> QED
    BY <2>1, <2>3 DEF CacheCurrent
<1>6. CASE Restart
  BY <1>6 DEF Restart, CacheCurrent, Latest
<1> QED
  BY <1>1, <1>2, <1>3, <1>4, <1>5, <1>6, StepKinds

(* A step that leaves the operator undisturbed has changed nothing on the  *)
(* API server.                                                             *)
LEMMA UndisturbedWrites ==
    ASSUME TypeOK, CacheCurrent, [Next]_vars, ~Disturbed'
    PROVE  UNCHANGED <<cr, obj>>
<1>1. CASE ObjWrite
  <2>1. PICK k \in Keys : \E v : WriteObj(k, v)
    BY <1>1 DEF ObjWrite
  <2>2. objWatch'[k] = <<>>
    BY DEF Disturbed
  <2> QED
    BY <1>1, <2>1, <2>2, WriteObjLatest DEF ObjWrite, cacheVars
<1>2. CASE CrWrite
  <2>1. crWatch' = <<>>
    BY DEF Disturbed
  <2> QED
    BY <1>2, <2>1, WriteCrLatest DEF CrWrite, cacheVars
<1> QED
  BY <1>1, <1>2, StepKinds DEF QuietStepOf, apiVars, DeliverCr, DeliverObj, Restart

(* And it found the operator undisturbed, unless it took the request off   *)
(* the queue or restarted the operator.                                    *)
LEMMA UndisturbedBefore ==
    ASSUME TypeOK, CacheCurrent, [Next]_vars, ~Disturbed', ~FetchCluster, ~Restart
    PROVE  ~Disturbed
<1>1. queued' = FALSE /\ timer' = FALSE /\ crWatch' = <<>> /\ \A k \in Keys : objWatch'[k] = <<>>
  <2>1. queued' \in BOOLEAN /\ timer' \in BOOLEAN
    <3>1. TypeOK'
      BY ApplyType, WorkerType, DeleteType, StatusType, ManagerType, UserType, KubernetesType,
         StutterTypes
      DEF Next, Reconcile, vars, apiVars, cacheVars, queueVars, TypeOK
    <3> QED
      BY <3>1 DEF TypeOK
  <2> QED
    BY <2>1 DEF Disturbed
<1>2. ~DeliverCr /\ ~RequeueAfterElapses /\ \A k \in Keys : ~DeliverObj(k)
  BY <1>1 DEF DeliverCr, DeliverObj, RequeueAfterElapses
<1>3. crWatch = <<>> /\ \A k \in Keys : objWatch[k] = <<>>
  <2>1. CASE QuietStepOf
    BY <1>1, <2>1 DEF QuietStepOf, apiVars
  <2>2. CASE ObjWrite
    <3>1. PICK k \in Keys : \E v : WriteObj(k, v)
      BY <2>2 DEF ObjWrite
    <3>2. UNCHANGED <<objWatch, crWatch>>
      BY <1>1, <2>2, <3>1, WriteObjLatest DEF ObjWrite, cacheVars
    <3> QED
      BY <1>1, <3>2
  <2>3. CASE CrWrite
    <3>1. UNCHANGED <<objWatch, crWatch>>
      BY <1>1, <2>3, WriteCrLatest DEF CrWrite, cacheVars
    <3> QED
      BY <1>1, <3>1
  <2> QED
    BY <1>2, <2>1, <2>2, <2>3, StepKinds
<1>4. ~queued /\ ~timer
  <2>2. CASE Reconcile
    BY <1>1, <2>2
    DEF Reconcile, ReconcileConfigMap, ReconcileInterconnect, ReconcileClient,
        ReconcileStatefulSet, ListExtraStatefulSets, ListExtra, DeleteExtraStatefulSet,
        CleanupDone, ReconcileIngress, CollectTierStatus, ReconcilePlugins, UpdateStatus,
        UpdateStatusPluginFailed, CallFails, ApplyObject, Answer, ReturnError, ReturnOk,
        Goto, NextReplicaset, NextTier, queueVars
  <2>3. CASE User \/ Kubernetes \/ UNCHANGED vars
    BY <1>1, <2>3
    DEF User, CreateCluster, EditCluster, DeleteCluster, Kubernetes, CollectGarbage,
        StatefulSetController, RollPods, PodBecomesReady, PodRetires, PodFails, PodsVanish,
        vars, queueVars
  <2> QED
    BY <1>2, <2>2, <2>3 DEF Next, Manager
<1> QED
  BY <1>3, <1>4 DEF Disturbed

-----------------------------------------------------------------------------
(* Labels.                                                                 *)

(* What the StatefulSet controller reports leaves everything else. *)
LEMMA SetReadyEffect ==
    ASSUME TypeOK, NEW k \in Keys, obj[k].live, NEW n, SetReady(k, n)
    PROVE  /\ obj'[k].live /\ obj'[k].mut = obj[k].mut /\ obj'[k].fixed = obj[k].fixed
           /\ OnlyChanged(k)
<1>1. obj[k] # Absent /\ IsObject(k, obj[k])
  BY DEF Absent, TypeOK, ObjectTypeOK
<1>2. obj[k] = [f \in ObjectFields |-> obj[k][f]] /\ obj[k].live = TRUE
  BY <1>1 DEF IsObject
<1>3. obj'[k] = [obj[k] EXCEPT !.ready = n] /\ OnlyChanged(k)
  BY WriteObjEffect DEF SetReady, TypeOK, OnlyChanged
<1> QED
  BY <1>2, <1>3 DEF ObjectFields

(* A patch that Kubernetes accepts keeps a StatefulSet's labels. *)
LEMMA PatchKeepsLabels ==
    ASSUME TypeOK, Labelled, NEW k \in StsKeys, NEW built, obj[k].live,
           ~Invalid(k, Patched(k, built)), WriteObj(k, Patched(k, built))
    PROVE  obj'[k].mut.labels = obj[k].mut.labels /\ obj'[k].fixed = obj[k].fixed
<1>1. k \in Keys /\ k[1] = "StatefulSet"
  BY DEF Keys, StsKeys
<1>2. obj[k] # Absent /\ IsObject(k, obj[k])
  BY <1>1 DEF Absent, TypeOK, ObjectTypeOK
<1>3. obj[k] = [f \in ObjectFields |-> obj[k][f]]
  BY <1>2 DEF IsObject
<1>4. Patched(k, built).fixed = obj[k].fixed
  BY <1>3 DEF Patched, ObjectFields
<1>5. Patched(k, built).mut.labels = Patched(k, built).fixed.selector
  BY <1>1 DEF Invalid
<1>6. obj'[k] = Patched(k, built)
  BY <1>1, WriteObjEffect DEF TypeOK
<1> QED
  BY <1>4, <1>5, <1>6 DEF Labelled

(* What the builder makes of the StatefulSet the pass is at. *)
BuiltHere == buildStatefulSet(cluster.spec, tier, rsIndex, ConfigYAML(cluster.spec, tier))

(* Nobody but reconcileStatefulSet changes what a StatefulSet asks for. *)
LEMMA StsWritten ==
    ASSUME TypeOK, [Next]_vars, NEW k \in StsKeys, obj'[k].live
    PROVE  \/ obj[k].live /\ obj'[k].mut = obj[k].mut /\ obj'[k].fixed = obj[k].fixed
           \/ /\ ReconcileStatefulSet /\ k = StatefulSetKey(tier, rsIndex)
              /\ Applied(k, BuiltHere)
<1>1. k \in Keys
  BY DEF Keys
<1>2. CASE obj'[k] = obj[k]
  BY <1>2
<1>3. CASE ReconcileStatefulSet /\ obj'[k] # obj[k]
  <2>1. step = "statefulset" /\ obj' # obj
    BY <1>3 DEF ReconcileStatefulSet
  <2>2. k = StatefulSetKey(tier, rsIndex)
    BY <1>1, <1>3, <2>1, ApplyTouches DEF OnlyChanged
  <2>3. Applied(k, BuiltHere)
    BY <1>3, <2>1, <2>2 DEF ReconcileStatefulSet, ApplyObject, BuiltHere
  <2> QED
    BY <1>3, <2>2, <2>3
<1>4. CASE \/ ReconcileConfigMap \/ ReconcileInterconnect \/ ReconcileClient \/ ReconcileIngress
  <2>1. /\ k # ConfigMapKey(tier) /\ k # InterconnectKey(tier) /\ k # ClientKey(tier)
        /\ k # IngressKey(tier)
    BY DEF StsKeys, ConfigMapKey, InterconnectKey, ClientKey, IngressKey
  <2>2. obj'[k] = obj[k]
    BY <1>1, <1>4, <2>1, ApplyTouches DEF OnlyChanged
  <2> QED
    BY <1>2, <2>2
<1>5. ASSUME NEW l \in Keys, WriteObj(l, Absent) PROVE obj'[k] = obj[k]
  BY <1>1, <1>5, WriteObjEffect DEF TypeOK, Absent
<1>6. CASE DeleteExtraStatefulSet
  <2>1. step = "delete"
    BY <1>6 DEF DeleteExtraStatefulSet
  <2>2. PICK i \in extra : WriteObj(StatefulSetKey(tier, i), Absent)
    BY <1>6 DEF DeleteExtraStatefulSet
  <2>3. i \in (tier.replicas + 1)..MaxReplicas
    BY <2>1 DEF TypeOK, LocalTypeOK
  <2>4. i \in 1..MaxReplicas
    BY <2>1, <2>3, PassBounds, BoundsAssumption
  <2>5. StatefulSetKey(tier, i) \in Keys
    BY <2>1, <2>4, PassBounds, TierKeysAreKeys
  <2> QED
    BY <1>2, <1>5, <2>2, <2>5
<1>7. CASE Kubernetes
  <2>1. ASSUME NEW l \in Keys, CollectGarbage(l) PROVE obj'[k] = obj[k]
    BY <1>5, <2>1 DEF CollectGarbage
  <2>2. ASSUME NEW l \in StsKeys, StatefulSetController(l) \/ PodFails(l)
        PROVE  \/ obj'[k] = obj[k]
               \/ /\ obj[k].live /\ obj'[k].mut = obj[k].mut
                  /\ obj'[k].fixed = obj[k].fixed
    <3>1. l \in Keys
      BY DEF Keys
    <3>2. CASE PodsVanish(l)
      BY <3>2 DEF PodsVanish, apiVars
    <3>3. CASE RollPods(l) \/ PodBecomesReady(l) \/ PodRetires(l) \/ PodFails(l)
      <4>1. obj[l].live /\ \E n : SetReady(l, n)
        BY <3>3 DEF RollPods, PodBecomesReady, PodRetires, PodFails
      <4> QED
        BY <1>1, <3>1, <4>1, SetReadyEffect DEF OnlyChanged
    <3> QED
      BY <2>2, <3>2, <3>3 DEF StatefulSetController
  <2> QED
    BY <1>2, <1>7, <2>1, <2>2 DEF Kubernetes
<1>8. CASE \/ Manager \/ User \/ UNCHANGED vars
           \/ FetchCluster \/ ListExtraStatefulSets \/ CleanupDone \/ CollectTierStatus
           \/ ReconcilePlugins \/ UpdateStatus \/ UpdateStatusPluginFailed \/ CallFails
  <2>1. UNCHANGED obj
    BY <1>8
    DEF Manager, DeliverCr, DeliverObj, RequeueAfterElapses, Restart, User, CreateCluster,
        EditCluster, DeleteCluster, vars, FetchCluster, ListExtraStatefulSets, ListExtra,
        CleanupDone, CollectTierStatus, ReconcilePlugins, UpdateStatus,
        UpdateStatusPluginFailed, CallFails, apiVars
  <2> QED
    BY <1>2, <2>1
<1> QED
  BY <1>2, <1>3, <1>4, <1>6, <1>7, <1>8 DEF Next, Reconcile

(* A StatefulSet keeps its labels, and a new one gets those of its pass. *)
CreatedNow(k) ==
    /\ ReconcileStatefulSet /\ k = StatefulSetKey(tier, rsIndex) /\ ~obj[k].live
    /\ obj'[k].mut.labels = replicasetLabels(cluster.spec, tier, rsIndex)
    /\ obj'[k].fixed.selector = obj'[k].mut.labels

LEMMA LabelsKept ==
    ASSUME TypeOK, Labelled, [Next]_vars, NEW k \in StsKeys, obj'[k].live
    PROVE  \/ /\ obj[k].live /\ obj'[k].mut.labels = obj[k].mut.labels
              /\ obj'[k].fixed = obj[k].fixed
           \/ CreatedNow(k)
<1>1. k \in Keys
  BY DEF Keys
<1>2. CASE ReconcileStatefulSet /\ k = StatefulSetKey(tier, rsIndex) /\ Applied(k, BuiltHere)
  <2>1. CASE ~obj[k].live
    <3>1. WriteObj(k, NewObject(k, BuiltHere))
      BY <1>2, <2>1 DEF Applied
    <3>2. obj'[k] = NewObject(k, BuiltHere)
      BY <1>1, <3>1, WriteObjEffect DEF TypeOK
    <3>3. /\ obj'[k].mut.labels = replicasetLabels(cluster.spec, tier, rsIndex)
          /\ obj'[k].fixed.selector = replicasetLabels(cluster.spec, tier, rsIndex)
      BY <3>2 DEF NewObject, BuiltHere, buildStatefulSet
    <3> QED
      BY <1>2, <2>1, <3>3 DEF CreatedNow
  <2>2. CASE obj[k].live
    <3>1. WriteObj(k, Patched(k, BuiltHere)) /\ ~Invalid(k, Patched(k, BuiltHere))
      BY <1>2, <2>2 DEF Applied
    <3> QED
      BY <2>2, <3>1, PatchKeepsLabels
  <2> QED
    BY <2>1, <2>2
<1> QED
  BY <1>2, StsWritten

LEMMA LabelledStep ==
    ASSUME TypeOK, Labelled, [Next]_vars
    PROVE  Labelled'
<1> SUFFICES ASSUME NEW k \in StsKeys, obj'[k].live
             PROVE  /\ obj'[k].fixed.selector = obj'[k].mut.labels
                    /\ \E s \in Specs : obj'[k].mut.labels = Named(k, s.clusterName)
  BY DEF Labelled
<1>1. CASE obj[k].live /\ obj'[k].mut.labels = obj[k].mut.labels /\ obj'[k].fixed = obj[k].fixed
  BY <1>1 DEF Labelled
<1>2. CASE CreatedNow(k)
  <2>1. step = "statefulset"
    BY <1>2 DEF CreatedNow, ReconcileStatefulSet
  <2>2. cluster.spec \in Specs
    BY <2>1, TierFacts DEF TypeOK
  <2>3. k[2] = tier.name /\ k[3] = rsIndex
    BY <1>2 DEF CreatedNow, StatefulSetKey
  <2>4. obj'[k].mut.labels = Named(k, cluster.spec.clusterName)
    BY <1>2, <2>3 DEF CreatedNow, replicasetLabels, Named
  <2> QED
    BY <1>2, <2>2, <2>4 DEF CreatedNow
<1> QED
  BY <1>1, <1>2, LabelsKept

(* The life of one resource: replicaset 1 of a tier stays. *)
LEMMA FirstStays ==
    ASSUME TypeOK, FirstLife, [Next]_vars, NEW k \in StsKeys, k[3] = 1, obj[k].live
    PROVE  obj'[k].live
<1>1. k \in Keys
  BY DEF Keys
<1>2. CASE ~DeleteExtraStatefulSet
  BY <1>1, <1>2, ChildrenStay
<1>3. CASE DeleteExtraStatefulSet
  <2>1. step # "idle"
    BY <1>3 DEF DeleteExtraStatefulSet
  <2>2. PICK i \in (tier.replicas + 1)..MaxReplicas : OnlyChanged(StatefulSetKey(tier, i))
    BY <1>3, DeleteTouches
  <2>3. i # 1
    BY <2>1, <2>2, PassBounds, BoundsAssumption
  <2>4. k # StatefulSetKey(tier, i)
    BY <2>3 DEF StatefulSetKey
  <2> QED
    BY <1>1, <2>2, <2>4 DEF OnlyChanged
<1> QED
  BY <1>2, <1>3

LEMMA FirstKeys ==
    ASSUME NEW k \in StsKeys
    PROVE  /\ First(k) \in StsKeys /\ First(k)[3] = 1 /\ First(First(k)) = First(k)
           /\ k[3] = 1 => First(k) = k
           /\ k \in Keys
  BY BoundsAssumption DEF First, StsKeys, Keys

(* What the caches show is an object as it is or was. *)
LEMMA CopiesOrigin ==
    ASSUME TypeOK, [Next]_vars, NEW k \in Keys,
           NEW o \in {objCache'[k]} \cup Range(objWatch'[k])
    PROVE  o \in {objCache[k], obj[k], obj'[k]} \cup Range(objWatch[k])
<1>1. CASE QuietStepOf \/ CrWrite \/ DeliverCr
  BY <1>1 DEF QuietStepOf, CrWrite, DeliverCr, apiVars, cacheVars
<1>2. CASE ObjWrite
  <2>1. PICK l \in Keys : \E v : WriteObj(l, v)
    BY <1>2 DEF ObjWrite
  <2>2. PICK v : WriteObj(l, v)
    BY <2>1
  <2>3. UNCHANGED objCache
    BY <1>2 DEF ObjWrite, cacheVars
  <2>4. CASE v = obj[l] \/ l # k
    <3>1. objWatch'[k] = objWatch[k]
      BY <2>2, <2>4 DEF WriteObj, TypeOK, ObjectTypeOK
    <3> QED
      BY <2>3, <3>1
  <2>5. CASE v # obj[l] /\ l = k
    <3>1. objWatch'[k] = Append(objWatch[k], v) /\ obj'[k] = v
      BY <2>2, <2>5 DEF WriteObj, TypeOK, ObjectTypeOK
    <3>2. objWatch[k] \in Seq(Range(objWatch[k]))
      BY DEF TypeOK, ObjectTypeOK, IsWatch
    <3>3. Range(objWatch'[k]) = Range(objWatch[k]) \cup {obj'[k]}
      BY <3>1, <3>2, AppendWatch
    <3> QED
      BY <2>3, <3>3
  <2> QED
    BY <2>4, <2>5
<1>3. ASSUME NEW l \in Keys, DeliverObj(l)
      PROVE  o \in {objCache[k]} \cup Range(objWatch[k])
  <2>1. CASE l # k
    BY <1>3, <2>1 DEF DeliverObj, TypeOK, ObjectTypeOK
  <2>2. CASE l = k
    <3>1. objCache'[k] = Head(objWatch[k]) /\ objWatch'[k] = Tail(objWatch[k])
      BY <1>3, <2>2 DEF DeliverObj, TypeOK, ObjectTypeOK
    <3>2. objWatch[k] \in Seq(Range(objWatch[k])) /\ objWatch[k] # <<>>
      BY <1>3, <2>2 DEF TypeOK, ObjectTypeOK, IsWatch, DeliverObj
    <3> QED
      BY <3>1, <3>2, TailWatch
  <2> QED
    BY <2>1, <2>2
<1>4. CASE Restart
  <2>1. objCache'[k] = obj[k] /\ objWatch'[k] = <<>>
    BY <1>4 DEF Restart
  <2> QED
    BY <2>1, EmptyWatch
<1> QED
  BY <1>1, <1>2, <1>3, <1>4, StepKinds

LEMMA CopiesStep ==
    ASSUME TypeOK, FirstLife, Labelled, CopiesAgree, [Next]_vars
    PROVE  CopiesAgree'
<1> SUFFICES ASSUME NEW k \in StsKeys, k[3] = 1,
                    NEW o \in {objCache'[k]} \cup Range(objWatch'[k]), o.live
             PROVE  obj'[k].live /\ o.mut.labels = obj'[k].mut.labels
  BY DEF CopiesAgree
<1>1. k \in Keys
  BY DEF Keys
<1>2. o \in {objCache[k], obj[k], obj'[k]} \cup Range(objWatch[k])
  BY <1>1, CopiesOrigin
<1>3. CASE o = obj'[k]
  BY <1>3
<1>4. CASE o # obj'[k]
  <2>1. obj[k].live /\ o.mut.labels = obj[k].mut.labels
    BY <1>2, <1>4 DEF CopiesAgree
  <2>2. obj'[k].live
    BY <2>1, FirstStays
  <2>3. obj'[k].mut.labels = obj[k].mut.labels
    BY <2>1, <2>2, LabelsKept DEF CreatedNow
  <2> QED
    BY <2>1, <2>2, <2>3
<1> QED
  BY <1>3, <1>4

(* Replicaset 1 of the pass's tier, once the pass is beyond it. *)
LEMMA FirstOfPass ==
    ASSUME TypeOK, ReplicasetsApplied, step = "statefulset"
    PROVE  /\ StatefulSetKey(tier, 1) \in StsKeys
           /\ First(StatefulSetKey(tier, rsIndex)) = StatefulSetKey(tier, 1)
           /\ StatefulSetKey(tier, rsIndex) \in StsKeys
           /\ rsIndex > 1 => obj[StatefulSetKey(tier, 1)].live
<1>1. /\ tier.name \in TierNames /\ rsIndex \in 1..MaxReplicas /\ 1 \in 1..MaxReplicas
  BY PassBounds, BoundsAssumption
<1>2. rsIndex > 1 => 1 \in 1..(rsIndex - 1)
  BY <1>1, BoundsAssumption
<1>3. rsIndex > 1 => obj[StatefulSetKey(tier, 1)].live
  BY <1>2 DEF ReplicasetsApplied
<1> QED
  BY <1>1, <1>3, TierKeysAreKeys DEF First, StatefulSetKey

LEMMA FirstAgreesStep ==
    ASSUME TypeOK, FirstLife, ReplicasetsApplied, Labelled, FirstAgrees, NextAgrees, [Next]_vars
    PROVE  FirstAgrees'
<1> SUFFICES ASSUME NEW k \in StsKeys, obj'[k].live
             PROVE  /\ obj'[First(k)].live
                    /\ obj'[First(k)].mut.labels.cluster = obj'[k].mut.labels.cluster
  BY DEF FirstAgrees, First
<1>1. First(k) \in StsKeys /\ First(k)[3] = 1 /\ (k[3] = 1 => First(k) = k)
  BY FirstKeys
<1>2. ASSUME obj[First(k)].live
      PROVE  obj'[First(k)].live /\ obj'[First(k)].mut.labels = obj[First(k)].mut.labels
  <2>1. obj'[First(k)].live
    BY <1>1, <1>2, FirstStays
  <2> QED
    BY <1>1, <1>2, <2>1, LabelsKept DEF CreatedNow
<1>3. CASE obj[k].live /\ obj'[k].mut.labels = obj[k].mut.labels
  BY <1>2, <1>3 DEF FirstAgrees
<1>4. CASE CreatedNow(k)
  <2>1. step = "statefulset" /\ k = StatefulSetKey(tier, rsIndex)
    BY <1>4 DEF CreatedNow, ReconcileStatefulSet
  <2>2. rsIndex \in 1..MaxReplicas /\ k[3] = rsIndex
    BY <2>1, PassBounds DEF StatefulSetKey
  <2>3. CASE rsIndex = 1
    BY <1>1, <2>2, <2>3
  <2>4. CASE rsIndex > 1
    <3>1. First(k) = StatefulSetKey(tier, 1) /\ obj[First(k)].live
      BY <2>1, <2>4, FirstOfPass
    <3>2. obj[First(k)].mut.labels.cluster = cluster.spec.clusterName
      BY <2>1, <2>4, <3>1 DEF NextAgrees
    <3>3. obj'[k].mut.labels.cluster = cluster.spec.clusterName
      BY <1>4 DEF CreatedNow, replicasetLabels
    <3> QED
      BY <1>2, <3>1, <3>2, <3>3
  <2> QED
    BY <2>2, <2>3, <2>4, BoundsAssumption
<1> QED
  BY <1>3, <1>4, LabelsKept

(* A patch of replicaset 1 is accepted only if its labels are the wanted   *)
(* ones: its copy in the cache, if any, has the labels that it has.        *)
LEMMA FirstPatched ==
    ASSUME TypeOK, Labelled, CopiesAgree, NEW k \in StsKeys, k[3] = 1, NEW s, NEW t, NEW i, NEW c,
           Applied(k, buildStatefulSet(s, t, i, c))
    PROVE  obj'[k].mut.labels = replicasetLabels(s, t, i)
<1> DEFINE built == buildStatefulSet(s, t, i, c)
<1>1. /\ k \in Keys /\ k[1] = "StatefulSet"
      /\ built.mut.labels = replicasetLabels(s, t, i) /\ "labels" \in DOMAIN built.mut
      /\ "labels" \notin Defaulted
  BY DEF Keys, StsKeys, buildStatefulSet, Defaulted
<1>2. CASE ~objCache[k].live /\ ~obj[k].live
  <2>1. WriteObj(k, NewObject(k, built))
    BY <1>2 DEF Applied
  <2>2. obj'[k] = NewObject(k, built)
    BY <1>1, <2>1, WriteObjEffect DEF TypeOK
  <2> QED
    BY <1>1, <2>2 DEF NewObject
<1>3. CASE objCache[k].live /\ obj[k].live
  <2> HIDE DEF built
  <2>1. WriteObj(k, Patched(k, built)) /\ ~Invalid(k, Patched(k, built))
    BY <1>3 DEF Applied, built
  <2>2. obj'[k].mut.labels = obj[k].mut.labels /\ obj'[k] = Patched(k, built)
    BY <1>1, <1>3, <2>1, PatchKeepsLabels, WriteObjEffect DEF TypeOK
  <2>3. objCache[k].mut.labels = obj[k].mut.labels
    BY <1>3 DEF CopiesAgree
  <2>4. Patched(k, built).mut.labels
          = MergePatch(obj[k].mut, objCache[k].mut, built.mut).labels
    <3>1. obj[k] # Absent /\ IsObject(k, obj[k])
      BY <1>1, <1>3 DEF Absent, TypeOK, ObjectTypeOK
    <3>2. obj[k] = [f \in ObjectFields |-> obj[k][f]]
      BY <3>1 DEF IsObject
    <3> QED
      BY <3>2 DEF Patched, ObjectFields
  <2>5. \/ objCache[k].mut.labels = built.mut.labels
        \/ Patched(k, built).mut.labels = built.mut.labels
    BY <1>1, <2>4 DEF MergePatch
  <2> QED
    BY <1>1, <2>2, <2>3, <2>5
<1> QED
  BY <1>2, <1>3 DEF Applied

LEMMA NextAgreesStep ==
    ASSUME TypeOK, FirstLife, ReplicasetsApplied, Labelled, FirstLabels, [Next]_vars
    PROVE  NextAgrees'
<1> SUFFICES ASSUME step' = "statefulset", rsIndex' > 1
             PROVE  obj'[StatefulSetKey(tier', 1)].mut.labels.cluster = cluster'.spec.clusterName
  BY DEF NextAgrees, StatefulSetKey
<1>1. ASSUME step = "statefulset", rsIndex > 1, UNCHANGED <<cluster, ti>>
      PROVE  obj'[StatefulSetKey(tier', 1)].mut.labels.cluster = cluster'.spec.clusterName
  <2> DEFINE k == StatefulSetKey(tier, 1)
  <2>1. k \in StsKeys /\ obj[k].live /\ k[3] = 1
    BY <1>1, FirstOfPass DEF StatefulSetKey
  <2>2. obj'[k].live
    BY <2>1, FirstStays
  <2>3. obj'[k].mut.labels = obj[k].mut.labels
    BY <2>1, <2>2, LabelsKept DEF CreatedNow
  <2>4. tier' = tier
    BY <1>1 DEF tier
  <2> QED
    BY <1>1, <2>3, <2>4 DEF FirstLabels, NextAgrees
<1>2. CASE ReconcileStatefulSet
  <2>1. step = "statefulset" /\ ~ClearLocals
    BY <1>2 DEF ReconcileStatefulSet, ClearLocals
  <2>2. /\ NextReplicaset
        /\ Applied(StatefulSetKey(tier, rsIndex),
                   buildStatefulSet(cluster.spec, tier, rsIndex, ConfigYAML(cluster.spec, tier)))
    BY <1>2, <2>1 DEF ReconcileStatefulSet, ApplyObject, Answer, ReturnError
  <2>3. rsIndex \in 1..MaxReplicas /\ UNCHANGED <<cluster, ti>>
    BY <2>1, <2>2, PassBounds DEF NextReplicaset, Goto
  <2>4. CASE rsIndex = 1
    <3> DEFINE k == StatefulSetKey(tier, 1)
    <3>1. k \in StsKeys /\ k[3] = 1
      BY <2>1, FirstOfPass DEF StatefulSetKey
    <3>2. obj'[k].mut.labels = replicasetLabels(cluster.spec, tier, 1)
      BY <2>2, <2>4, <3>1, FirstPatched DEF FirstLabels
    <3>3. tier' = tier
      BY <2>3 DEF tier
    <3> QED
      BY <2>3, <3>2, <3>3 DEF replicasetLabels
  <2>5. CASE rsIndex > 1
    BY <1>1, <2>1, <2>3, <2>5
  <2> QED
    BY <2>3, <2>4, <2>5, BoundsAssumption
<1>3. CASE ReconcileClient
  <2>1. step = "client" /\ rsIndex' = rsIndex
    BY <1>3
    DEF ReconcileClient, ApplyObject, Answer, ReturnError, ClearLocals, Goto
  <2>2. rsIndex' = 1
    BY <2>1 DEF ReplicasetsApplied
  <2> QED
    BY <2>2
<1>4. CASE /\ Reconcile /\ ~ReconcileStatefulSet /\ ~ReconcileClient
  <2>1. UNCHANGED localVars
    BY <1>4
    DEF Reconcile, FetchCluster, ReconcileConfigMap, ReconcileInterconnect,
        ListExtraStatefulSets, ListExtra, DeleteExtraStatefulSet, CleanupDone,
        ReconcileIngress, CollectTierStatus, ReconcilePlugins, UpdateStatus,
        UpdateStatusPluginFailed, CallFails, ApplyObject, Answer, ReturnError, ReturnOk,
        ClearLocals, Goto, NextTier, localVars
  <2> QED
    BY <1>1, <2>1 DEF localVars
<1>5. CASE Manager \/ User \/ Kubernetes \/ UNCHANGED vars
  <2>1. UNCHANGED <<step, rsIndex, cluster, ti>>
    BY <1>5
    DEF Manager, DeliverCr, DeliverObj, RequeueAfterElapses, Restart, ClearLocals, User,
        CreateCluster, EditCluster, DeleteCluster, Kubernetes, CollectGarbage,
        StatefulSetController, RollPods, PodBecomesReady, PodRetires, PodFails, PodsVanish,
        vars, localVars
  <2> QED
    BY <1>1, <2>1
<1> QED
  BY <1>2, <1>3, <1>4, <1>5 DEF Next

LEMMA LabelsStep ==
    ASSUME OrderInv, LabelsInv, [Next]_vars
    PROVE  LabelsInv'
<1>1. TypeOK
  BY DEF OrderInv, DepsInv
<1>2. Labelled'
  BY <1>1, LabelledStep DEF LabelsInv
<1>3. ASSUME spent'["deletes"] = 0 PROVE FirstLabels'
  <2>1. ~DeleteCluster
    BY <1>1, <1>3, SpendEffect DEF DeleteCluster, TypeOK
  <2>2. spent["deletes"] = 0
    BY <1>1, <1>3, <2>1, DeletesKept DEF vars
  <2>3. FirstLife /\ ReplicasetsApplied /\ FirstLabels /\ Labelled
    BY <2>2 DEF OrderInv, DepsInv, LabelsInv
  <2>4. FirstAgrees' /\ NextAgrees' /\ CopiesAgree'
    BY <1>1, <2>3, FirstAgreesStep, NextAgreesStep, CopiesStep DEF FirstLabels
  <2> QED
    BY <2>4 DEF FirstLabels
<1> QED
  BY <1>2, <1>3 DEF LabelsInv

-----------------------------------------------------------------------------
(* Undisturbed passes.                                                     *)

(* A call that changes nothing has found what it wants. *)
LEMMA AppliedQuiet ==
    ASSUME TypeOK, CacheCurrent, ~Disturbed, ~Disturbed', NEW k \in Keys, NEW built,
           Applied(k, built), UNCHANGED objCache
    PROVE  obj[k].live /\ \A f \in DOMAIN built.mut : obj[k].mut[f] = built.mut[f]
<1>1. objWatch[k] = <<>> /\ objWatch'[k] = <<>>
  BY DEF Disturbed
<1>2. objCache[k] = obj[k]
  BY <1>1 DEF CacheCurrent, Latest
<1>3. ASSUME NEW v, WriteObj(k, v) PROVE v = obj[k]
  BY <1>1, <1>3, WriteObjLatest
<1>4. obj[k].live /\ obj[k] = Patched(k, built)
  <2>1. CASE ~obj[k].live
    <3>1. NewObject(k, built) = obj[k]
      BY <1>3, <2>1 DEF Applied
    <3> QED
      BY <2>1, <3>1 DEF NewObject
  <2>2. CASE obj[k].live
    BY <1>3, <2>2 DEF Applied
  <2> QED
    BY <2>1, <2>2
<1>5. obj[k].mut = MergePatch(obj[k].mut, obj[k].mut, built.mut)
  <2>1. obj[k] # Absent /\ IsObject(k, obj[k])
    BY <1>4 DEF Absent, TypeOK, ObjectTypeOK
  <2>2. obj[k] = [f \in ObjectFields |-> obj[k][f]]
    BY <2>1 DEF IsObject
  <2>3. Patched(k, built).mut = MergePatch(obj[k].mut, objCache[k].mut, built.mut)
    BY <2>2 DEF Patched, ObjectFields
  <2> QED
    BY <1>2, <1>4, <2>3
<1>6. ASSUME NEW f \in DOMAIN built.mut PROVE obj[k].mut[f] = built.mut[f]
  <2> DEFINE m == MergePatch(obj[k].mut, obj[k].mut, built.mut)
  <2>1. m[f] = built.mut[f]
    BY DEF MergePatch
  <2> QED
    BY <1>5, <2>1
<1> QED
  BY <1>4, <1>6

(* What reconcileTier builds is what Matches compares with. *)
LEMMA BuildOf ==
    ASSUME NEW s, NEW t, NEW i
    PROVE  /\ Build(s, t, ConfigMapKey(t)) = buildConfigMap(s, t)
           /\ Build(s, t, InterconnectKey(t)) = buildInterconnectService(s, t)
           /\ Build(s, t, ClientKey(t)) = buildClientService(s, t)
           /\ Build(s, t, IngressKey(t)) = buildIngress(s, t)
           /\ Build(s, t, StatefulSetKey(t, i)) = buildStatefulSet(s, t, i, ConfigYAML(s, t))
<1>1. Build(s, t, ConfigMapKey(t)) = buildConfigMap(s, t)
  BY DEF Build, ConfigMapKey
<1>2. Build(s, t, InterconnectKey(t)) = buildInterconnectService(s, t)
  BY DEF Build, InterconnectKey
<1>3. Build(s, t, ClientKey(t)) = buildClientService(s, t)
  BY DEF Build, ClientKey
<1>4. Build(s, t, IngressKey(t)) = buildIngress(s, t)
  BY DEF Build, IngressKey
<1>5. Build(s, t, StatefulSetKey(t, i)) = buildStatefulSet(s, t, i, ConfigYAML(s, t))
  BY DEF Build, StatefulSetKey
<1> QED
  BY <1>1, <1>2, <1>3, <1>4, <1>5

(* The calls of an undisturbed pass that goes on. *)
LEMMA CallsFindGood ==
    ASSUME TypeOK, CacheCurrent, ~Disturbed, ~Disturbed', step' # "idle"
    PROVE  /\ ReconcileConfigMap => Good(ConfigMapKey(tier))
           /\ ReconcileInterconnect => Good(InterconnectKey(tier))
           /\ ReconcileClient => Good(ClientKey(tier))
           /\ ReconcileStatefulSet => Good(StatefulSetKey(tier, rsIndex))
           /\ ReconcileIngress /\ tier.ingress.enabled => Good(IngressKey(tier))
<1>1. ~ClearLocals
  BY DEF ClearLocals
<1>2. ASSUME NEW k \in Keys, Applied(k, Build(cluster.spec, tier, k)), UNCHANGED objCache
      PROVE  Good(k)
  BY <1>2, AppliedQuiet DEF Good, Matches
<1>3. step # "idle" =>
        /\ ConfigMapKey(tier) \in Keys /\ InterconnectKey(tier) \in Keys
        /\ ClientKey(tier) \in Keys /\ IngressKey(tier) \in Keys
        /\ StatefulSetKey(tier, rsIndex) \in Keys
  BY PassBounds, TierKeysAreKeys
<1>4. ASSUME ReconcileConfigMap PROVE Good(ConfigMapKey(tier))
  <2>1. /\ step # "idle" /\ UNCHANGED objCache
        /\ Applied(ConfigMapKey(tier), buildConfigMap(cluster.spec, tier))
    BY <1>1, <1>4 DEF ReconcileConfigMap, ApplyObject, ReturnError, cacheVars
  <2> QED
    BY <1>2, <1>3, <2>1, BuildOf
<1>5. ASSUME ReconcileInterconnect PROVE Good(InterconnectKey(tier))
  <2>1. /\ step # "idle" /\ UNCHANGED objCache
        /\ Applied(InterconnectKey(tier), buildInterconnectService(cluster.spec, tier))
    BY <1>1, <1>5 DEF ReconcileInterconnect, ApplyObject, ReturnError, cacheVars
  <2> QED
    BY <1>2, <1>3, <2>1, BuildOf
<1>6. ASSUME ReconcileClient PROVE Good(ClientKey(tier))
  <2>1. /\ step # "idle" /\ UNCHANGED objCache
        /\ Applied(ClientKey(tier), buildClientService(cluster.spec, tier))
    BY <1>1, <1>6 DEF ReconcileClient, ApplyObject, ReturnError, cacheVars
  <2> QED
    BY <1>2, <1>3, <2>1, BuildOf
<1>7. ASSUME ReconcileStatefulSet PROVE Good(StatefulSetKey(tier, rsIndex))
  <2>1. /\ step # "idle" /\ UNCHANGED objCache
        /\ Applied(StatefulSetKey(tier, rsIndex),
                   buildStatefulSet(cluster.spec, tier, rsIndex, ConfigYAML(cluster.spec, tier)))
    BY <1>1, <1>7 DEF ReconcileStatefulSet, ApplyObject, ReturnError, cacheVars
  <2> QED
    BY <1>2, <1>3, <2>1, BuildOf
<1>8. ASSUME ReconcileIngress, tier.ingress.enabled PROVE Good(IngressKey(tier))
  <2>1. /\ step # "idle" /\ UNCHANGED objCache
        /\ Applied(IngressKey(tier), buildIngress(cluster.spec, tier))
    BY <1>1, <1>8 DEF ReconcileIngress, ApplyObject, ReturnError, cacheVars
  <2> QED
    BY <1>2, <1>3, <2>1, BuildOf
<1> QED
  BY <1>4, <1>5, <1>6, <1>7, <1>8

(* Every live StatefulSet of a tier has the clusterName of replicaset 1. *)
LEMMA NamesAgree ==
    ASSUME NameKept, TypeOK, LabelsInv, NEW k \in StsKeys, obj[k].live, obj[First(k)].live
    PROVE  obj[k].mut.labels = Named(k, obj[First(k)].mut.labels.cluster)
<1>1. PICK r \in Specs : obj[k].mut.labels = Named(k, r.clusterName)
  BY DEF LabelsInv, Labelled
<1>2. First(k) \in StsKeys
  BY FirstKeys
<1>3. PICK s \in Specs : obj[First(k)].mut.labels = Named(First(k), s.clusterName)
  BY <1>2 DEF LabelsInv, Labelled
<1>4. r.clusterName = s.clusterName
  <2>1. CASE OneClusterName
    BY <2>1 DEF OneClusterName
  <2>2. CASE Limit["deletes"] = 0
    <3>1. spent["deletes"] = 0
      BY <2>2, BoundsAssumption DEF TypeOK, SpentTypeOK, Budgets
    <3>2. obj[First(k)].mut.labels.cluster = obj[k].mut.labels.cluster
      BY <3>1 DEF LabelsInv, FirstLabels, FirstAgrees
    <3> QED
      BY <1>1, <1>3, <3>2 DEF Named
  <2> QED
    BY <2>1, <2>2 DEF NameKept
<1> QED
  BY <1>1, <1>3, <1>4 DEF Named

(* So the listing of the caches shows every one that is left over. *)
LEMMA ExtraFound ==
    ASSUME NameKept, TypeOK, CacheCurrent, LabelsInv, ~Disturbed, step = "cleanup",
           ReplicasetsGood, NEW i \in (tier.replicas + 1)..MaxReplicas
    PROVE  i \in ListStatefulSets <=> obj[StatefulSetKey(tier, i)].live
<1> DEFINE k == StatefulSetKey(tier, i)
<1>1. /\ tier.name \in TierNames /\ i \in 1..MaxReplicas /\ 1 \in 1..tier.replicas
  BY PassBounds, BoundsAssumption
<1>2. k \in StsKeys /\ k \in Keys /\ First(k) = StatefulSetKey(tier, 1)
  BY <1>1, TierKeysAreKeys DEF First, StatefulSetKey
<1>3. objCache[k] = obj[k]
  <2>1. objWatch[k] = <<>>
    BY <1>2 DEF Disturbed
  <2> QED
    BY <1>2, <2>1 DEF CacheCurrent, Latest
<1>4. obj[First(k)].live /\ obj[First(k)].mut.labels = replicasetLabels(cluster.spec, tier, 1)
  <2>1. Matches(cluster.spec, tier, StatefulSetKey(tier, 1))
    BY <1>1 DEF ReplicasetsGood, Good
  <2> DEFINE built == buildStatefulSet(cluster.spec, tier, 1, ConfigYAML(cluster.spec, tier))
  <2>2. "labels" \in DOMAIN built.mut /\ built.mut.labels = replicasetLabels(cluster.spec, tier, 1)
    BY DEF buildStatefulSet
  <2> HIDE DEF built
  <2>3. Build(cluster.spec, tier, StatefulSetKey(tier, 1)) = built
    BY BuildOf DEF built
  <2> QED
    BY <1>2, <2>1, <2>2, <2>3 DEF Matches
<1>5. obj[k].live => obj[k].mut.labels = replicasetLabels(cluster.spec, tier, i)
  <2> SUFFICES ASSUME obj[k].live
               PROVE  obj[k].mut.labels = replicasetLabels(cluster.spec, tier, i)
    OBVIOUS
  <2>1. obj[k].mut.labels = Named(k, obj[First(k)].mut.labels.cluster)
    BY <1>2, <1>4, NamesAgree
  <2>2. obj[First(k)].mut.labels.cluster = cluster.spec.clusterName
    BY <1>4 DEF replicasetLabels
  <2> QED
    BY <2>1, <2>2 DEF Named, replicasetLabels, StatefulSetKey
<1> QED
  BY <1>1, <1>3, <1>5 DEF ListStatefulSets

(* A tier that an undisturbed pass is through with. *)
LEMMA TierDone ==
    ASSUME TypeOK, TierGood, step \in {"tierstatus", "plugins", "status"}
    PROVE  TierConverged(cluster.spec, tier)
<1>1. /\ Good(ConfigMapKey(tier)) /\ Good(InterconnectKey(tier)) /\ Good(ClientKey(tier))
      /\ \A i \in 1..tier.replicas : Good(StatefulSetKey(tier, i))
      /\ tier.ingress.enabled => Good(IngressKey(tier))
  BY DEF TierGood, DepsGood, ReplicasetsGood, IngressGood
<1>2. \A k \in TierKeys(tier) : Good(k)
  BY <1>1 DEF TierKeys
<1>3. ASSUME NEW i \in 1..MaxReplicas, i > tier.replicas PROVE ~obj[StatefulSetKey(tier, i)].live
  <2>1. i \in (tier.replicas + 1)..MaxReplicas
    BY <1>3, PassBounds, BoundsAssumption
  <2> QED
    BY <2>1 DEF TierGood, ExtraGone
<1> QED
  BY <1>2, <1>3 DEF TierConverged, Good

(* Nothing that has been found good changes while the API server does not. *)
LEMMA SamePlace ==
    ASSUME UNCHANGED <<obj, cluster, ti>>
    PROVE  /\ tier' = tier
           /\ \A k : Good(k) => Good(k)'
           /\ EarlierTiersGood => EarlierTiersGood'
<1>1. tier' = tier
  BY DEF tier
<1>2. \A k : Good(k) => Good(k)'
  BY <1>1 DEF Good, Matches
<1>3. EarlierTiersGood => EarlierTiersGood'
  BY DEF EarlierTiersGood, TierConverged, Matches
<1> QED
  BY <1>1, <1>2, <1>3

(* The pass goes on to another step of its tier. *)
LEMMA SameTierQuiet ==
    ASSUME UNCHANGED <<obj, cluster, ti>>, TierGood, EarlierTiersGood,
           \/ UNCHANGED <<step, rsIndex, extra>>
           \/ step = "configmap" /\ step' = "interconnect" /\ Good(ConfigMapKey(tier))
           \/ step = "interconnect" /\ step' = "client" /\ Good(InterconnectKey(tier))
           \/ /\ step = "client" /\ step' = "statefulset" /\ Good(ClientKey(tier))
              /\ rsIndex' = 1
           \/ /\ step = "statefulset" /\ step' = "statefulset"
              /\ \A i \in 1..(rsIndex' - 1) : Good(StatefulSetKey(tier, i))
           \/ /\ step = "statefulset" /\ step' = "cleanup"
              /\ \A i \in 1..tier.replicas : Good(StatefulSetKey(tier, i))
           \/ /\ step = "cleanup" /\ step' = "delete"
              /\ \A i \in (tier.replicas + 1)..MaxReplicas :
                    i \in extra' <=> obj[StatefulSetKey(tier, i)].live
           \/ step = "delete" /\ step' = "ingress" /\ extra = {}
           \/ /\ step = "ingress" /\ step' = "tierstatus"
              /\ tier.ingress.enabled => Good(IngressKey(tier))
           \/ /\ step \in {"tierstatus", "plugins"}
              /\ step' \in {"plugins", "pluginfailed", "status"}
    PROVE  TierGood' /\ EarlierTiersGood'
<1>1. tier' = tier /\ (\A k : Good(k) => Good(k)') /\ EarlierTiersGood'
  BY SamePlace
<1>2. DepsGood'
  BY <1>1 DEF TierGood, DepsGood
<1>3. ReplicasetsGood'
  BY <1>1 DEF TierGood, ReplicasetsGood
<1>4. ExtraGone'
  BY <1>1 DEF TierGood, ExtraGone
<1>5. IngressGood'
  BY <1>1 DEF TierGood, IngressGood
<1> QED
  BY <1>1, <1>2, <1>3, <1>4, <1>5 DEF TierGood

(* The pass goes on to the next tier, or to the final status. *)
LEMMA NextTierQuiet ==
    ASSUME TypeOK, UNCHANGED obj, TierGood, EarlierTiersGood, step \in {"tierstatus", "plugins"},
           NEW s, NEW r, NextTier(s, r)
    PROVE  TierGood' /\ EarlierTiersGood' /\ UNCHANGED cluster
<1>1. UNCHANGED cluster /\ ti \in Nat
  BY DEF NextTier, TypeOK, LocalTypeOK
<1>2. CASE ti < Len(cluster.spec.tiers)
  <2>1. step' = "configmap" /\ ti' = ti + 1
    BY <1>2 DEF NextTier
  <2>2. TierGood'
    BY <2>1 DEF TierGood, DepsGood, ReplicasetsGood, ExtraGone, IngressGood
  <2>3. TierConverged(cluster.spec, cluster.spec.tiers[ti])
    BY TierDone DEF tier
  <2>4. \A j \in 1..ti : TierConverged(cluster.spec, cluster.spec.tiers[j])
    <3>1. \A j \in 1..ti : j \in 1..(ti - 1) \/ j = ti
      BY <1>1
    <3> QED
      BY <2>3, <3>1 DEF EarlierTiersGood
  <2>5. ti' - 1 = ti
    BY <1>1, <2>1
  <2>6. \A s1, t1 : TierConverged(s1, t1) => TierConverged(s1, t1)'
    BY DEF TierConverged, Matches
  <2>7. EarlierTiersGood'
    BY <1>1, <2>4, <2>5, <2>6 DEF EarlierTiersGood
  <2> QED
    BY <1>1, <2>2, <2>7
<1>3. CASE ~(ti < Len(cluster.spec.tiers))
  <2>1. step' = "status" /\ ti' = ti
    BY <1>3 DEF NextTier
  <2> QED
    BY <1>1, <2>1, SameTierQuiet
<1> QED
  BY <1>2, <1>3

LEMMA PassQuietStep ==
    ASSUME NameKept, WakeInv, [Next]_vars
    PROVE  PassQuiet'
<1> SUFFICES ASSUME step' # "idle", ~Disturbed'
             PROVE  cluster' = cr' /\ EarlierTiersGood' /\ TierGood'
  BY DEF PassQuiet
<1>1. TypeOK /\ CacheCurrent /\ LabelsInv /\ PassQuiet
  BY DEF WakeInv, OrderInv, DepsInv
<1>2. UNCHANGED <<cr, obj>>
  BY <1>1, UndisturbedWrites
<1>3. ~ClearLocals /\ ~Restart
  BY DEF ClearLocals, Restart
<1>4. CASE FetchCluster
  <2>1. crWatch = <<>>
    BY <1>4 DEF FetchCluster, apiVars, Disturbed
  <2>2. crCache = cr
    BY <1>1, <2>1 DEF CacheCurrent, Latest
  <2>3. step' = "configmap" /\ cluster' = crCache /\ ti' = 1
    BY <1>4 DEF FetchCluster, localVars
  <2>4. TierGood'
    BY <2>3 DEF TierGood, DepsGood, ReplicasetsGood, ExtraGone, IngressGood
  <2>5. EarlierTiersGood'
    BY <2>3 DEF EarlierTiersGood
  <2> QED
    BY <1>2, <2>2, <2>3, <2>4, <2>5
<1>5. CASE ~FetchCluster
  <2>1. ~Disturbed
    BY <1>1, <1>3, <1>5, UndisturbedBefore
  <2>2. CASE UNCHANGED localVars
    <3>1. UNCHANGED <<step, rsIndex, extra, cluster, ti>>
      BY <2>2 DEF localVars
    <3>2. cluster = cr /\ EarlierTiersGood /\ TierGood
      BY <1>1, <2>1, <3>1 DEF PassQuiet
    <3> QED
      BY <1>2, <3>1, <3>2, SameTierQuiet
  <2>3. CASE Reconcile
    <3>1. step # "idle"
      BY <1>3, <1>5, <2>3
      DEF Reconcile, CallFails, ReturnError, ReconcileConfigMap, ReconcileInterconnect,
          ReconcileClient, ReconcileStatefulSet, ListExtraStatefulSets, ListExtra,
          DeleteExtraStatefulSet, CleanupDone, ReconcileIngress, CollectTierStatus,
          ReconcilePlugins, UpdateStatus, UpdateStatusPluginFailed
    <3>2. cluster = cr /\ EarlierTiersGood /\ TierGood
      BY <1>1, <2>1, <3>1 DEF PassQuiet
    <3>3. CASE ReconcileConfigMap
      <4>1. /\ step = "configmap" /\ step' = "interconnect" /\ UNCHANGED <<cluster, ti>>
            /\ Good(ConfigMapKey(tier))
        BY <1>1, <1>3, <2>1, <3>3, CallsFindGood
        DEF ReconcileConfigMap, ApplyObject, Answer, ReturnError, Goto
      <4> QED
        BY <1>2, <3>2, <4>1, SameTierQuiet
    <3>4. CASE ReconcileInterconnect
      <4>1. /\ step = "interconnect" /\ step' = "client" /\ UNCHANGED <<cluster, ti>>
            /\ Good(InterconnectKey(tier))
        BY <1>1, <1>3, <2>1, <3>4, CallsFindGood
        DEF ReconcileInterconnect, ApplyObject, Answer, ReturnError, Goto
      <4> QED
        BY <1>2, <3>2, <4>1, SameTierQuiet
    <3>5. CASE ReconcileClient
      <4>1. /\ step = "client" /\ step' = "statefulset" /\ UNCHANGED <<cluster, ti>>
            /\ Good(ClientKey(tier)) /\ rsIndex' = rsIndex
        BY <1>1, <1>3, <2>1, <3>5, CallsFindGood
        DEF ReconcileClient, ApplyObject, Answer, ReturnError, Goto
      <4>2. rsIndex' = 1
        BY <4>1 DEF WakeInv, LoopBounds
      <4> QED
        BY <1>2, <3>2, <4>1, <4>2, SameTierQuiet
    <3>6. CASE ReconcileStatefulSet
      <4>1. step = "statefulset" /\ NextReplicaset /\ Good(StatefulSetKey(tier, rsIndex))
        BY <1>1, <1>3, <2>1, <3>6, CallsFindGood
        DEF ReconcileStatefulSet, ApplyObject, Answer, ReturnError
      <4>2. UNCHANGED <<cluster, ti>> /\ rsIndex \in 1..tier.replicas /\ tier.replicas \in Nat
        BY <1>1, <4>1, PassBounds, BoundsAssumption DEF NextReplicaset, Goto
      <4>3. \A i \in 1..rsIndex : Good(StatefulSetKey(tier, i))
        <5>1. \A i \in 1..rsIndex : i \in 1..(rsIndex - 1) \/ i = rsIndex
          BY <4>2
        <5> QED
          BY <3>2, <4>1, <5>1 DEF TierGood, ReplicasetsGood
      <4>4. CASE rsIndex < tier.replicas
        <5>1. step' = "statefulset" /\ rsIndex' = rsIndex + 1
          BY <4>1, <4>4 DEF NextReplicaset
        <5>2. rsIndex' - 1 = rsIndex
          BY <4>2, <5>1
        <5> QED
          BY <1>2, <3>2, <4>1, <4>2, <4>3, <5>1, <5>2, SameTierQuiet
      <4>5. CASE ~(rsIndex < tier.replicas)
        <5>1. step' = "cleanup" /\ rsIndex = tier.replicas
          BY <4>1, <4>2, <4>5 DEF NextReplicaset, Goto
        <5> QED
          BY <1>2, <3>2, <4>1, <4>2, <4>3, <5>1, SameTierQuiet
      <4> QED
        BY <4>4, <4>5
    <3>7. CASE ListExtraStatefulSets
      <4>1. /\ step = "cleanup" /\ step' = "delete" /\ UNCHANGED <<cluster, ti>>
            /\ extra' = { i \in ListStatefulSets : i > tier.replicas }
        BY <3>7 DEF ListExtraStatefulSets, ListExtra
      <4>2. ASSUME NEW i \in (tier.replicas + 1)..MaxReplicas
            PROVE  i \in extra' <=> obj[StatefulSetKey(tier, i)].live
        <5>1. i \in ListStatefulSets <=> obj[StatefulSetKey(tier, i)].live
          BY <1>1, <2>1, <3>2, <4>1, ExtraFound DEF TierGood
        <5>2. i > tier.replicas
          BY <1>1, <3>1, PassBounds, BoundsAssumption
        <5> QED
          BY <4>1, <5>1, <5>2
      <4> QED
        BY <1>2, <3>2, <4>1, <4>2, SameTierQuiet
    <3>8. CASE DeleteExtraStatefulSet
      <4>1. step = "delete" /\ UNCHANGED objCache
        BY <3>8 DEF DeleteExtraStatefulSet, cacheVars
      <4>2. PICK i \in extra : WriteObj(StatefulSetKey(tier, i), Absent)
        BY <3>8 DEF DeleteExtraStatefulSet
      <4>3. i \in (tier.replicas + 1)..MaxReplicas
        BY <1>1, <4>1 DEF TypeOK, LocalTypeOK
      <4>4. i \in 1..MaxReplicas
        BY <1>1, <3>1, <4>3, PassBounds, BoundsAssumption
      <4>5. StatefulSetKey(tier, i) \in Keys
        BY <1>1, <3>1, <4>4, PassBounds, TierKeysAreKeys
      <4>6. obj[StatefulSetKey(tier, i)].live
        BY <3>2, <4>1, <4>3 DEF TierGood, ExtraGone
      <4>7. objWatch'[StatefulSetKey(tier, i)] # <<>>
        BY <1>1, <4>1, <4>2, <4>5, <4>6, WriteObjLatest DEF Absent
      <4> QED
        BY <4>5, <4>7 DEF Disturbed
    <3>9. CASE CleanupDone
      <4>1. /\ step = "delete" /\ step' = "ingress" /\ extra = {} /\ UNCHANGED <<cluster, ti>>
        BY <3>9 DEF CleanupDone, Goto
      <4> QED
        BY <1>2, <3>2, <4>1, SameTierQuiet
    <3>10. CASE ReconcileIngress
      <4>1. /\ step = "ingress" /\ step' = "tierstatus" /\ UNCHANGED <<cluster, ti>>
            /\ tier.ingress.enabled => Good(IngressKey(tier))
        BY <1>1, <1>3, <2>1, <3>10, CallsFindGood
        DEF ReconcileIngress, ApplyObject, Answer, ReturnError, Goto
      <4> QED
        BY <1>2, <3>2, <4>1, SameTierQuiet
    <3>11. CASE CollectTierStatus \/ ReconcilePlugins
      <4>1. step \in {"tierstatus", "plugins"}
        BY <3>11 DEF CollectTierStatus, ReconcilePlugins
      <4>2. \/ \E s, r : NextTier(s, r)
            \/ step' \in {"plugins", "pluginfailed"} /\ UNCHANGED <<cluster, ti>>
        BY <3>11 DEF CollectTierStatus, ReconcilePlugins, Goto
      <4>3. CASE \E s, r : NextTier(s, r)
        BY <1>1, <1>2, <3>2, <4>1, <4>3, NextTierQuiet
      <4>4. CASE step' \in {"plugins", "pluginfailed"} /\ UNCHANGED <<cluster, ti>>
        BY <1>2, <3>2, <4>1, <4>4, SameTierQuiet
      <4> QED
        BY <4>2, <4>3, <4>4
    <3>12. ~UpdateStatus /\ ~UpdateStatusPluginFailed /\ ~CallFails
      BY <1>3
      DEF UpdateStatus, UpdateStatusPluginFailed, CallFails, Answer, ReturnOk, ReturnError
    <3> QED
      BY <1>5, <2>3, <3>3, <3>4, <3>5, <3>6, <3>7, <3>8, <3>9, <3>10, <3>11, <3>12
      DEF Reconcile
  <2>4. CASE Manager \/ User \/ Kubernetes \/ UNCHANGED vars
    <3>1. UNCHANGED localVars
      BY <1>3, <2>4
      DEF Manager, DeliverCr, DeliverObj, RequeueAfterElapses, User, CreateCluster,
          EditCluster, DeleteCluster, Kubernetes, CollectGarbage, StatefulSetController,
          RollPods, PodBecomesReady, PodRetires, PodFails, PodsVanish, vars, localVars
    <3> QED
      BY <2>2, <3>1
  <2> QED
    BY <2>3, <2>4 DEF Next
<1> QED
  BY <1>4, <1>5

LEMMA LoopBoundsStep ==
    ASSUME TypeOK, LoopBounds, [Next]_vars
    PROVE  LoopBounds'
<1>1. CASE ClearLocals
  BY <1>1 DEF ClearLocals, LoopBounds
<1>2. CASE UNCHANGED <<step, rsIndex, cluster, ti>>
  BY <1>2 DEF LoopBounds
<1>3. ASSUME step # "idle", NEW s, NEW r, NextTier(s, r) PROVE LoopBounds'
  <2>1. ti \in 1..Len(cluster.spec.tiers) /\ Len(cluster.spec.tiers) \in Nat
    BY <1>3, TierFacts, SpecsAssumption DEF TypeOK, LocalTypeOK, ValidSpec
  <2>2. \/ step' = "configmap" /\ rsIndex' = 1
        \/ step' = "status" /\ ~(ti < Len(cluster.spec.tiers)) /\ UNCHANGED <<cluster, ti>>
    BY <1>3 DEF NextTier
  <2> QED
    BY <2>1, <2>2 DEF LoopBounds
<1>4. CASE Reconcile /\ ~ClearLocals
  <2>1. CASE FetchCluster
    <3>1. (step' = "configmap" /\ rsIndex' = 1) \/ UNCHANGED localVars
      BY <2>1 DEF FetchCluster
    <3> QED
      BY <1>2, <3>1 DEF LoopBounds, localVars
  <2>2. CASE ReconcileConfigMap \/ ReconcileInterconnect
    <3>1. /\ step \in {"configmap", "interconnect"} /\ step' \in {"interconnect", "client"}
          /\ rsIndex' = rsIndex
      BY <1>4, <2>2
      DEF ReconcileConfigMap, ReconcileInterconnect, ApplyObject, Answer, ReturnError, Goto
    <3> QED
      BY <3>1 DEF LoopBounds
  <2>3. CASE CollectTierStatus \/ ReconcilePlugins
    <3>1. /\ step # "idle"
          /\ (\E s, r : NextTier(s, r)) \/ step' \in {"plugins", "pluginfailed"}
      BY <2>3 DEF CollectTierStatus, ReconcilePlugins, Goto
    <3> QED
      BY <1>3, <3>1 DEF LoopBounds
  <2>4. CASE \/ ReconcileClient \/ ReconcileStatefulSet \/ ListExtraStatefulSets
             \/ DeleteExtraStatefulSet \/ CleanupDone \/ ReconcileIngress
    <3>1. step' \in {"statefulset", "cleanup", "delete", "ingress", "tierstatus"}
      BY <1>4, <2>4
      DEF ReconcileClient, ReconcileStatefulSet, ListExtraStatefulSets, ListExtra,
          DeleteExtraStatefulSet, CleanupDone, ReconcileIngress, ApplyObject, Answer,
          ReturnError, Goto, NextReplicaset
    <3> QED
      BY <3>1 DEF LoopBounds
  <2>5. ~UpdateStatus /\ ~UpdateStatusPluginFailed /\ ~CallFails
    BY <1>4
    DEF UpdateStatus, UpdateStatusPluginFailed, CallFails, Answer, ReturnOk, ReturnError
  <2> QED
    BY <1>4, <2>1, <2>2, <2>3, <2>4, <2>5 DEF Reconcile
<1>5. CASE Manager \/ User \/ Kubernetes \/ UNCHANGED vars
  <2>1. ClearLocals \/ UNCHANGED <<step, rsIndex, cluster, ti>>
    BY <1>5
    DEF Manager, DeliverCr, DeliverObj, RequeueAfterElapses, Restart, User, CreateCluster,
        EditCluster, DeleteCluster, Kubernetes, CollectGarbage, StatefulSetController,
        RollPods, PodBecomesReady, PodRetires, PodFails, PodsVanish, vars, localVars
  <2> QED
    BY <1>1, <1>2, <2>1
<1> QED
  BY <1>1, <1>4, <1>5 DEF Next

(* The operator comes to rest when an undisturbed pass ends. *)
LEMMA RestReached ==
    ASSUME WakeInv, [Next]_vars, Settled', cr'.live
    PROVE  UNCHANGED <<cr, obj>> /\ ~Disturbed /\ (step = "idle" \/ UpdateStatus)
<1>1. TypeOK /\ CacheCurrent
  BY DEF WakeInv, OrderInv, DepsInv
<1>2. ~Disturbed' /\ step' = "idle"
  BY DEF Settled, Disturbed
<1>3. UNCHANGED <<cr, obj>>
  BY <1>1, <1>2, UndisturbedWrites
<1>4. ~Restart
  <2>1. ASSUME Restart PROVE queued'
    BY <1>3, <2>1 DEF Restart
  <2> QED
    BY <1>2, <2>1 DEF Disturbed
<1>5. ~FetchCluster
  <2> SUFFICES ASSUME FetchCluster PROVE FALSE
    OBVIOUS
  <2>1. crWatch = <<>>
    BY <1>2 DEF FetchCluster, apiVars, Disturbed
  <2>2. crCache = cr
    BY <1>1, <2>1 DEF CacheCurrent, Latest
  <2>3. step' = "configmap"
    BY <1>3, <2>2 DEF FetchCluster
  <2> QED
    BY <1>2, <2>3
<1>6. ~Disturbed
  BY <1>1, <1>2, <1>4, <1>5, UndisturbedBefore
<1>7. CASE step # "idle"
  <2>1. ~queued' /\ ~timer'
    BY <1>2 DEF Disturbed
  <2>2. ASSUME Reconcile, ~UpdateStatus PROVE FALSE
    BY <1>2, <1>5, <1>7, <2>1, <2>2
    DEF Reconcile, ReconcileConfigMap, ReconcileInterconnect, ReconcileClient,
        ReconcileStatefulSet, ListExtraStatefulSets, ListExtra, DeleteExtraStatefulSet,
        CleanupDone, ReconcileIngress, CollectTierStatus, ReconcilePlugins,
        UpdateStatusPluginFailed, CallFails, ApplyObject, Answer, ReturnError, Goto,
        NextReplicaset, NextTier
  <2>3. ASSUME Manager \/ User \/ Kubernetes \/ UNCHANGED vars PROVE step' = step
    BY <1>4, <2>3
    DEF Manager, DeliverCr, DeliverObj, RequeueAfterElapses, User, CreateCluster,
        EditCluster, DeleteCluster, Kubernetes, CollectGarbage, StatefulSetController,
        RollPods, PodBecomesReady, PodRetires, PodFails, PodsVanish, vars, localVars
  <2> QED
    BY <1>2, <1>3, <1>6, <1>7, <2>2, <2>3 DEF Next
<1> QED
  BY <1>3, <1>6, <1>7

(* It comes to rest only where nothing is left to do. *)
LEMMA RestStep ==
    ASSUME WakeInv, [Next]_vars
    PROVE  NoLostWakeup'
<1> SUFFICES ASSUME Settled', cr'.live
             PROVE  Converged'
  BY DEF NoLostWakeup
<1>1. TypeOK /\ PassQuiet /\ LoopBounds /\ NoLostWakeup
  BY DEF WakeInv, OrderInv, DepsInv
<1>2. UNCHANGED <<cr, obj>> /\ ~Disturbed /\ (step = "idle" \/ UpdateStatus)
  BY RestReached
<1>3. Converged => Converged'
  BY <1>2 DEF Converged, TierConverged, Matches
<1>4. CASE step = "idle"
  <2>1. Settled /\ cr.live
    BY <1>2, <1>4 DEF Settled, Disturbed
  <2> QED
    BY <1>1, <1>3, <2>1 DEF NoLostWakeup
<1>5. CASE UpdateStatus
  <2>1. step = "status"
    BY <1>5 DEF UpdateStatus
  <2>2. cluster = cr /\ EarlierTiersGood /\ TierGood /\ ti = Len(cluster.spec.tiers)
    BY <1>1, <1>2, <2>1 DEF PassQuiet, LoopBounds
  <2>3. TierConverged(cluster.spec, cluster.spec.tiers[ti])
    BY <1>1, <2>1, <2>2, TierDone DEF tier
  <2>4. /\ DOMAIN cluster.spec.tiers = 1..Len(cluster.spec.tiers)
        /\ Len(cluster.spec.tiers) \in Nat
    BY <1>1, <2>1, TierFacts, SpecsAssumption DEF TypeOK, ValidSpec
  <2>5. \A j \in DOMAIN cluster.spec.tiers : j \in 1..(ti - 1) \/ j = ti
    BY <2>2, <2>4
  <2>6. Converged
    BY <2>2, <2>3, <2>5 DEF Converged, EarlierTiersGood
  <2> QED
    BY <1>3, <2>6
<1> QED
  BY <1>2, <1>4, <1>5

(* The inductive invariant holds throughout. *)
LEMMA WakeInvariant ==
    ASSUME NameKept
    PROVE  Spec => []WakeInv
<1>1. Init => CacheCurrent /\ LabelsInv /\ LoopBounds /\ PassQuiet /\ NoLostWakeup
  <2> SUFFICES ASSUME Init
               PROVE  CacheCurrent /\ LabelsInv /\ LoopBounds /\ PassQuiet /\ NoLostWakeup
    OBVIOUS
  <2>1. CacheCurrent
    BY DEF Init, CacheCurrent, Latest
  <2>2. \A k \in StsKeys : /\ ~obj[k].live /\ ~objCache[k].live /\ objWatch[k] = <<>>
    BY DEF Init, Absent, Keys
  <2>3. Labelled /\ FirstAgrees /\ NextAgrees
    BY <2>2 DEF Init, Labelled, FirstAgrees, NextAgrees
  <2>4. CopiesAgree
    BY <2>2, EmptyWatch DEF CopiesAgree
  <2>5. LoopBounds /\ PassQuiet /\ NoLostWakeup
    BY DEF Init, LoopBounds, PassQuiet, NoLostWakeup, Absent
  <2> QED
    BY <2>1, <2>3, <2>4, <2>5 DEF LabelsInv, FirstLabels
<1>2. WakeInv /\ [Next]_vars
        => (CacheCurrent /\ LabelsInv /\ LoopBounds /\ PassQuiet /\ NoLostWakeup)'
  <2> SUFFICES ASSUME WakeInv, [Next]_vars
               PROVE  (CacheCurrent /\ LabelsInv /\ LoopBounds /\ PassQuiet /\ NoLostWakeup)'
    OBVIOUS
  <2>1. TypeOK /\ OrderInv /\ CacheCurrent /\ LabelsInv /\ LoopBounds
    BY DEF WakeInv, OrderInv, DepsInv
  <2>2. CacheCurrent' /\ LabelsInv' /\ LoopBounds'
    BY <2>1, CacheStep, LabelsStep, LoopBoundsStep
  <2>3. PassQuiet' /\ NoLostWakeup'
    BY PassQuietStep, RestStep
  <2> QED
    BY <2>2, <2>3
<1> QED
  BY <1>1, <1>2, OrderInvHolds, PTL DEF Spec, WakeInv

(* However stale the caches were, whatever was edited, lost, failed or     *)
(* restarted while Reconcile ran: the operator comes to rest only when the *)
(* children are the ones the spec asks for (property NoLostWakeup).  This  *)
(* holds while no resource is deleted, or if a new one of the name has the *)
(* clusterName of the old one.                                             *)
THEOREM NoWakeupIsLost ==
    ASSUME NameKept
    PROVE  Spec => []NoLostWakeup
<1>1. WakeInv => NoLostWakeup
  BY DEF WakeInv
<1> QED
  BY <1>1, WakeInvariant, PTL

-----------------------------------------------------------------------------
(* What the status shows.  An undisturbed pass reads the StatefulSets as   *)
(* they are, so the entries it collects are true; and its last patch may   *)
(* not change anything, so the status already holds them.                  *)

(* An entry that shows tier t.  readyReplicas is an int32. *)
Shows(s, t) ==
    /\ s.name = t.name
    /\ s.readyReplicas = Int32(ReadyPods(t))
    /\ s.desiredReplicas = DesiredPods(t)

(* The number of tiers the pass is through with. *)
TiersDone == IF step = "status" THEN ti ELSE ti - 1

EntryFields == {"name", "readyReplicas", "desiredReplicas", "plugins"}

EntriesTrue ==
    /\ Len(tierStatuses) = TiersDone
    /\ \A j \in 1..TiersDone : Shows(tierStatuses[j], cluster.spec.tiers[j])
    /\ allReady <=> \A j \in 1..TiersDone : TierReady(tierStatuses[j])
    /\ step = "plugins" =>
          ts = [f \in EntryFields |-> ts[f]] /\ Shows(ts, tier) /\ TierReady(ts)

EntriesOK ==
    /\ tierStatuses \in Seq(Range(tierStatuses))
    /\ step = "idle" => tierStatuses = <<>> /\ allReady = TRUE

StatusShows ==
    Settled /\ cr.live =>
        /\ DOMAIN cr.status.tiers = DOMAIN cr.spec.tiers
        /\ \A j \in DOMAIN cr.spec.tiers : Shows(cr.status.tiers[j], cr.spec.tiers[j])
        /\ (cr.status.phase = "Ready") <=>
              \A j \in DOMAIN cr.spec.tiers : TierReady(cr.status.tiers[j])

StatusInv ==
    /\ EntriesOK
    /\ step # "idle" /\ ~Disturbed => EntriesTrue
    /\ StatusShows

(* The ways a step may treat the entries. *)
EntriesLeft ==
    /\ UNCHANGED <<tierStatuses, allReady, cluster, ti>>
    /\ \/ UNCHANGED <<step, ts>>
       \/ step \notin {"idle", "status"} /\ step' \notin {"idle", "status", "plugins"}

EntryHeld ==
    /\ step = "tierstatus" /\ step' = "plugins"
    /\ ts' = TierStatus /\ TierReady(TierStatus)
    /\ UNCHANGED <<tierStatuses, allReady, cluster, ti>>

EntryAdded ==
    \/ step = "tierstatus" /\ NextTier(TierStatus, TierReady(TierStatus))
    \/ step = "plugins" /\ \E p : NextTier([ts EXCEPT !.plugins = p], TRUE)

LEMMA EntrySteps ==
    ASSUME TypeOK, [Next]_vars
    PROVE  ClearLocals \/ FetchCluster \/ EntriesLeft \/ EntryHeld \/ EntryAdded
<1>1. CASE Reconcile /\ ~ClearLocals
  <2>1. CASE CollectTierStatus
    BY <2>1 DEF CollectTierStatus, EntryHeld, EntryAdded
  <2>2. CASE ReconcilePlugins
    <3>1. CASE Goto("pluginfailed")
      BY <2>2, <3>1 DEF ReconcilePlugins, Goto, EntriesLeft
    <3>2. CASE ~Goto("pluginfailed")
      BY <2>2, <3>2 DEF ReconcilePlugins, EntryAdded
    <3> QED
      BY <3>1, <3>2
  <2>3. CASE \/ ReconcileConfigMap \/ ReconcileInterconnect \/ ReconcileClient
             \/ ReconcileIngress
    BY <1>1, <2>3
    DEF ReconcileConfigMap, ReconcileInterconnect, ReconcileClient, ReconcileIngress,
        ApplyObject, Answer, ReturnError, Goto, EntriesLeft
  <2>4. CASE ReconcileStatefulSet
    BY <1>1, <2>4
    DEF ReconcileStatefulSet, ApplyObject, Answer, ReturnError, NextReplicaset, Goto, EntriesLeft
  <2>5. CASE ListExtraStatefulSets \/ DeleteExtraStatefulSet \/ CleanupDone
    BY <1>1, <2>5
    DEF ListExtraStatefulSets, ListExtra, DeleteExtraStatefulSet, CleanupDone, Answer,
        ReturnError, Goto, EntriesLeft
  <2>6. ~UpdateStatus /\ ~UpdateStatusPluginFailed /\ ~CallFails
    BY <1>1
    DEF UpdateStatus, UpdateStatusPluginFailed, CallFails, Answer, ReturnOk, ReturnError
  <2> QED
    BY <1>1, <2>1, <2>2, <2>3, <2>4, <2>5, <2>6 DEF Reconcile
<1>2. CASE Manager \/ User \/ Kubernetes \/ UNCHANGED vars
  <2>1. ClearLocals \/ UNCHANGED localVars
    BY <1>2
    DEF Manager, DeliverCr, DeliverObj, RequeueAfterElapses, Restart, User, CreateCluster,
        EditCluster, DeleteCluster, Kubernetes, CollectGarbage, StatefulSetController,
        RollPods, PodBecomesReady, PodRetires, PodFails, PodsVanish, vars
  <2> QED
    BY <2>1 DEF localVars, EntriesLeft
<1> QED
  BY <1>1, <1>2 DEF Next

LEMMA EntriesOKStep ==
    ASSUME TypeOK, EntriesOK, [Next]_vars
    PROVE  EntriesOK'
<1>1. CASE ClearLocals
  BY <1>1, EmptyWatch DEF ClearLocals, EntriesOK
<1>2. CASE FetchCluster \/ EntriesLeft \/ EntryHeld
  <2>1. UNCHANGED <<tierStatuses, allReady>> /\ (step' = "idle" => step = "idle")
    BY <1>2 DEF FetchCluster, EntriesLeft, EntryHeld, localVars
  <2> QED
    BY <2>1 DEF EntriesOK
<1>3. CASE EntryAdded
  <2>1. PICK s, r : NextTier(s, r)
    BY <1>3 DEF EntryAdded
  <2>2. tierStatuses' = Append(tierStatuses, s) /\ step' # "idle"
    BY <2>1 DEF NextTier
  <2> QED
    BY <2>2, AppendWatch DEF EntriesOK
<1> QED
  BY <1>1, <1>2, <1>3, EntrySteps

(* An undisturbed pass counts the pods there are. *)
LEMMA StatusCounted ==
    ASSUME TypeOK, CacheCurrent, ~Disturbed, step = "tierstatus", TierGood
    PROVE  Shows(TierStatus, tier)
<1>1. objCache = obj
  <2>1. \A k \in Keys : objCache[k] = obj[k]
    BY DEF CacheCurrent, Latest, Disturbed
  <2>2. obj = [k \in Keys |-> obj[k]] /\ objCache = [k \in Keys |-> objCache[k]]
    BY DEF TypeOK, ObjectTypeOK
  <2> QED
    BY <2>1, <2>2
<1>2. ASSUME NEW i \in 1..MaxReplicas
      PROVE  i \in ListStatefulSets <=> obj[StatefulSetKey(tier, i)].live
  <2>1. CASE i \in 1..tier.replicas
    <3>1. Good(StatefulSetKey(tier, i))
      BY <2>1 DEF TierGood, ReplicasetsGood
    <3>2. /\ obj[StatefulSetKey(tier, i)].live
          /\ \A f \in DOMAIN buildStatefulSet(cluster.spec, tier, i,
                                              ConfigYAML(cluster.spec, tier)).mut :
                obj[StatefulSetKey(tier, i)].mut[f] =
                  buildStatefulSet(cluster.spec, tier, i, ConfigYAML(cluster.spec, tier)).mut[f]
      BY <3>1, BuildOf DEF Good, Matches
    <3>3. obj[StatefulSetKey(tier, i)].mut.labels = replicasetLabels(cluster.spec, tier, i)
      BY <3>2 DEF buildStatefulSet
    <3> QED
      BY <1>1, <3>2, <3>3 DEF ListStatefulSets
  <2>2. CASE i \notin 1..tier.replicas
    <3>1. i \in (tier.replicas + 1)..MaxReplicas
      BY <2>2, PassBounds, BoundsAssumption
    <3>2. ~obj[StatefulSetKey(tier, i)].live
      BY <3>1 DEF TierGood, ExtraGone
    <3> QED
      BY <1>1, <3>2 DEF ListStatefulSets
  <2> QED
    BY <2>1, <2>2
<1>3. ListStatefulSets = { i \in 1..MaxReplicas : obj[StatefulSetKey(tier, i)].live }
  <2>1. \A i \in ListStatefulSets : i \in 1..MaxReplicas
    BY DEF ListStatefulSets
  <2> QED
    BY <1>2, <2>1
<1>4. SumReady(objCache, tier, ListStatefulSets) = ReadyPods(tier)
  BY <1>1, <1>3 DEF ReadyPods
<1> QED
  BY <1>4 DEF Shows, TierStatus

(* What is said of the tiers done stays true while they and the pods do.   *)
LEMMA EntriesKept ==
    ASSUME EntriesTrue, UNCHANGED <<obj, tierStatuses, allReady, cluster>>,
           TiersDone' = TiersDone,
           step' = "plugins" =>
               ts' = [f \in EntryFields |-> ts'[f]] /\ Shows(ts, tier)' /\ TierReady(ts')
    PROVE  EntriesTrue'
<1>1. Len(tierStatuses') = TiersDone'
  BY DEF EntriesTrue
<1>2. \A j \in 1..TiersDone' : Shows(tierStatuses[j], cluster.spec.tiers[j])'
  <2>1. \A j \in 1..TiersDone : Shows(tierStatuses[j], cluster.spec.tiers[j])
    BY DEF EntriesTrue
  <2> QED
    BY <2>1 DEF Shows, ReadyPods
<1>3. allReady' <=> \A j \in 1..TiersDone' : TierReady(tierStatuses'[j])
  <2>1. allReady <=> \A j \in 1..TiersDone : TierReady(tierStatuses[j])
    BY DEF EntriesTrue
  <2> QED
    BY <2>1
<1> QED
  BY <1>1, <1>2, <1>3 DEF EntriesTrue, TierReady

(* The entry of a tier is added behind those of the tiers before it. *)
LEMMA EntryAddedTrue ==
    ASSUME TypeOK, EntriesOK, EntriesTrue, step \in {"tierstatus", "plugins"}, UNCHANGED obj,
           NEW s, NEW r \in BOOLEAN, NextTier(s, r), Shows(s, tier), r <=> TierReady(s)
    PROVE  EntriesTrue'
<1>1. /\ ti \in Nat \ {0} /\ Len(cluster.spec.tiers) \in Nat /\ allReady \in BOOLEAN
  BY TierFacts, SpecsAssumption DEF TypeOK, LocalTypeOK, ValidSpec
<1>2. /\ Len(tierStatuses) = ti - 1
      /\ \A j \in 1..(ti - 1) : Shows(tierStatuses[j], cluster.spec.tiers[j])
      /\ allReady <=> \A j \in 1..(ti - 1) : TierReady(tierStatuses[j])
  BY DEF EntriesTrue, TiersDone
<1>3. /\ UNCHANGED cluster /\ TiersDone' = ti /\ step' # "plugins"
      /\ allReady' <=> allReady /\ TierReady(s)
  BY <1>1 DEF NextTier, TiersDone
<1>4. /\ Len(tierStatuses') = ti /\ tierStatuses'[ti] = s
      /\ \A j \in 1..(ti - 1) : tierStatuses'[j] = tierStatuses[j]
  <2> DEFINE S == Range(tierStatuses) \cup {s}
  <2>1. tierStatuses \in Seq(S)
    BY DEF EntriesOK, Range
  <2>2. tierStatuses' = Append(tierStatuses, s)
    BY DEF NextTier
  <2> HIDE DEF S
  <2>3. s \in S
    BY DEF S
  <2> QED
    BY <1>1, <1>2, <2>1, <2>2, <2>3, AppendProperties
<1>5. \A j \in 1..ti : j \in 1..(ti - 1) \/ j = ti
  BY <1>1
<1>6. \A j \in 1..ti : Shows(tierStatuses'[j], cluster.spec.tiers[j])
  BY <1>2, <1>4, <1>5 DEF tier
<1>7. \A j \in 1..ti : Shows(tierStatuses[j], cluster.spec.tiers[j])'
  BY <1>3, <1>6 DEF Shows, ReadyPods
<1>8. allReady' <=> \A j \in 1..ti : TierReady(tierStatuses'[j])
  <2>1. \A j \in 1..(ti - 1) : j \in 1..ti
    BY <1>1
  <2>2. ti \in 1..ti
    BY <1>1
  <2> QED
    BY <1>2, <1>3, <1>4, <1>5, <2>1, <2>2
<1> QED
  BY <1>3, <1>4, <1>7, <1>8 DEF EntriesTrue, TierReady

LEMMA EntriesTrueStep ==
    ASSUME WakeInv, StatusInv, [Next]_vars, step' # "idle", ~Disturbed'
    PROVE  EntriesTrue'
<1>1. TypeOK /\ CacheCurrent /\ PassQuiet /\ EntriesOK
  BY DEF WakeInv, OrderInv, DepsInv, StatusInv
<1>2. UNCHANGED <<cr, obj>>
  BY <1>1, UndisturbedWrites
<1>3. ~ClearLocals /\ ~Restart
  BY DEF ClearLocals, Restart
<1>4. CASE FetchCluster
  <2>1. step = "idle" /\ step' = "configmap" /\ ti' = 1 /\ UNCHANGED <<tierStatuses, allReady>>
    BY <1>4 DEF FetchCluster, localVars
  <2>2. tierStatuses = <<>> /\ allReady = TRUE
    BY <1>1, <2>1 DEF EntriesOK
  <2>3. TiersDone' = 0 /\ 1..0 = {}
    BY <2>1 DEF TiersDone
  <2> QED
    BY <2>1, <2>2, <2>3, EmptyWatch DEF EntriesTrue
<1>5. CASE ~FetchCluster
  <2>1. ~Disturbed
    BY <1>1, <1>3, <1>5, UndisturbedBefore
  <2>2. step # "idle"
    BY <1>1, <1>3, <1>5, EntrySteps DEF EntriesLeft, EntryHeld, EntryAdded
  <2>3. EntriesTrue /\ TierGood
    BY <1>1, <2>1, <2>2 DEF StatusInv, PassQuiet
  <2>4. CASE EntriesLeft
    <3>1. /\ UNCHANGED <<tierStatuses, allReady, cluster, ti>> /\ TiersDone' = TiersDone
          /\ step' = "plugins" => step = "plugins" /\ UNCHANGED ts
          /\ tier' = tier
      BY <2>4 DEF EntriesLeft, TiersDone, tier
    <3>2. step' = "plugins" =>
              ts' = [f \in EntryFields |-> ts'[f]] /\ Shows(ts, tier)' /\ TierReady(ts')
      BY <1>2, <2>3, <3>1 DEF EntriesTrue, Shows, ReadyPods
    <3> QED
      BY <1>2, <2>3, <3>1, <3>2, EntriesKept
  <2>5. CASE EntryHeld
    <3>1. Shows(TierStatus, tier)
      BY <1>1, <2>1, <2>3, <2>5, StatusCounted DEF EntryHeld
    <3>2. /\ UNCHANGED <<tierStatuses, allReady, cluster, ti>> /\ TiersDone' = TiersDone
          /\ tier' = tier /\ ts' = TierStatus /\ TierReady(TierStatus)
      BY <2>5 DEF EntryHeld, TiersDone, tier
    <3>3. TierStatus = [f \in EntryFields |-> TierStatus[f]]
      BY DEF TierStatus, EntryFields
    <3>4. Shows(ts, tier)'
      BY <1>2, <3>1, <3>2 DEF Shows, ReadyPods
    <3>5. ts' = [f \in EntryFields |-> ts'[f]] /\ TierReady(ts')
      BY <3>2, <3>3
    <3> QED
      BY <1>2, <2>3, <3>2, <3>4, <3>5, EntriesKept
  <2>6. CASE EntryAdded
    <3>1. CASE step = "tierstatus" /\ NextTier(TierStatus, TierReady(TierStatus))
      <4>1. Shows(TierStatus, tier)
        BY <1>1, <2>1, <2>3, <3>1, StatusCounted
      <4>2. TierReady(TierStatus) \in BOOLEAN
        BY DEF TierReady
      <4> QED
        BY <1>1, <1>2, <2>3, <3>1, <4>1, <4>2, EntryAddedTrue
    <3>2. CASE step = "plugins" /\ \E p : NextTier([ts EXCEPT !.plugins = p], TRUE)
      <4>1. PICK p : NextTier([ts EXCEPT !.plugins = p], TRUE)
        BY <3>2
      <4>2. ts = [f \in EntryFields |-> ts[f]] /\ Shows(ts, tier) /\ TierReady(ts)
        BY <2>3, <3>2 DEF EntriesTrue
      <4> DEFINE s == [ts EXCEPT !.plugins = p]
      <4>3. /\ s.name = ts.name /\ s.readyReplicas = ts.readyReplicas
            /\ s.desiredReplicas = ts.desiredReplicas
        BY <4>2 DEF EntryFields
      <4>4. Shows(s, tier) /\ TierReady(s)
        BY <4>2, <4>3 DEF Shows, TierReady
      <4> QED
        BY <1>1, <1>2, <2>3, <3>2, <4>1, <4>4, EntryAddedTrue
    <3> QED
      BY <2>6, <3>1, <3>2 DEF EntryAdded
  <2> QED
    BY <1>1, <1>3, <1>5, <2>4, <2>5, <2>6, EntrySteps
<1> QED
  BY <1>4, <1>5

(* A patch that changes nothing found the status as it would have made it. *)
LEMMA StatusInPlace ==
    ASSUME TypeOK, CacheCurrent, UpdateStatus, cluster = cr, cr.live, crWatch' = <<>>
    PROVE  /\ cr.status.tiers = tierStatuses
           /\ (cr.status.phase = "Ready") <=> allReady
<1>1. PICK now \in Clock :
         WriteCr([cr EXCEPT !.status =
            MergePatch(cr.status, cluster.status, NewStatus(tierStatuses, allReady, now))])
  BY DEF UpdateStatus, PatchStatus
<1> DEFINE new == NewStatus(tierStatuses, allReady, now)
           patched == MergePatch(cr.status, cr.status, new)
<1>2. WriteCr([cr EXCEPT !.status = patched]) /\ UNCHANGED crCache
  BY <1>1 DEF UpdateStatus, cacheVars
<1>3. [cr EXCEPT !.status = patched] = cr
  <2> HIDE DEF patched
  <2> QED
    BY <1>2, WriteCrLatest
<1>4. cr = [f \in ClusterFields |-> cr[f]]
  BY DEF TypeOK, ClusterTypeOK, IsCluster, Absent
<1>5. cr.status = patched
  <2> HIDE DEF patched
  <2>1. [cr EXCEPT !.status = patched].status = patched
    BY <1>4 DEF ClusterFields
  <2> QED
    BY <1>3, <2>1
<1>6. DOMAIN new = StatusFields /\ new.tiers = tierStatuses
      /\ (new.phase = "Ready" <=> allReady)
  BY DEF NewStatus, StatusFields
<1>7. \A f \in StatusFields : patched[f] = new[f]
  <2> HIDE DEF new
  <2> QED
    BY <1>6, <1>5 DEF MergePatch
<1>8. "tiers" \in StatusFields /\ "phase" \in StatusFields
  BY DEF StatusFields
<1> HIDE DEF new, patched
<1> QED
  BY <1>5, <1>6, <1>7, <1>8

LEMMA StatusShowsStep ==
    ASSUME WakeInv, StatusInv, [Next]_vars
    PROVE  StatusShows'
<1> SUFFICES ASSUME Settled', cr'.live
             PROVE  (/\ DOMAIN cr.status.tiers = DOMAIN cr.spec.tiers
                     /\ \A j \in DOMAIN cr.spec.tiers : Shows(cr.status.tiers[j], cr.spec.tiers[j])
                     /\ (cr.status.phase = "Ready") <=>
                           \A j \in DOMAIN cr.spec.tiers : TierReady(cr.status.tiers[j]))'
  BY DEF StatusShows
<1>1. TypeOK /\ CacheCurrent /\ PassQuiet /\ LoopBounds /\ EntriesOK
  BY DEF WakeInv, OrderInv, DepsInv, StatusInv
<1>2. UNCHANGED <<cr, obj>> /\ ~Disturbed /\ (step = "idle" \/ UpdateStatus)
  BY RestReached
<1> SUFFICES /\ DOMAIN cr.status.tiers = DOMAIN cr.spec.tiers
             /\ \A j \in DOMAIN cr.spec.tiers : Shows(cr.status.tiers[j], cr.spec.tiers[j])
             /\ (cr.status.phase = "Ready") <=>
                   \A j \in DOMAIN cr.spec.tiers : TierReady(cr.status.tiers[j])
  BY <1>2 DEF Shows, ReadyPods, TierReady
<1>3. CASE step = "idle"
  <2>1. Settled /\ cr.live
    BY <1>2, <1>3 DEF Settled, Disturbed
  <2> QED
    BY <2>1 DEF StatusInv, StatusShows
<1>4. CASE UpdateStatus
  <2>1. step = "status"
    BY <1>4 DEF UpdateStatus
  <2>2. cluster = cr /\ ti = Len(cluster.spec.tiers) /\ EntriesTrue
    BY <1>1, <1>2, <2>1 DEF PassQuiet, LoopBounds, StatusInv
  <2>3. crWatch' = <<>> /\ cr.live
    BY <1>2 DEF Settled
  <2>4. cr.status.tiers = tierStatuses /\ ((cr.status.phase = "Ready") <=> allReady)
    BY <1>1, <1>4, <2>2, <2>3, StatusInPlace
  <2>5. /\ DOMAIN cr.spec.tiers = 1..ti
    BY <1>1, <2>1, <2>2, TierFacts, SpecsAssumption DEF TypeOK, ValidSpec
  <2>6. TiersDone = ti
    BY <2>1 DEF TiersDone
  <2>7. DOMAIN tierStatuses = 1..ti
    <3>1. tierStatuses \in Seq(Range(tierStatuses)) /\ Len(tierStatuses) = ti
      BY <1>1, <2>2, <2>6 DEF EntriesOK, EntriesTrue
    <3> QED
      BY <3>1, LenProperties
  <2>8. /\ \A j \in 1..ti : Shows(tierStatuses[j], cr.spec.tiers[j])
        /\ allReady <=> \A j \in 1..ti : TierReady(tierStatuses[j])
    BY <2>2, <2>6 DEF EntriesTrue
  <2> QED
    BY <2>4, <2>5, <2>7, <2>8
<1> QED
  BY <1>2, <1>3, <1>4

(* The number of ready pods of every tier fits an int32. *)
CountsFit ==
    \A j \in DOMAIN cr.spec.tiers :
        Int32(ReadyPods(cr.spec.tiers[j])) = ReadyPods(cr.spec.tiers[j])

(* At rest the status is the truth (property StatusTruthful): its entries  *)
(* are those of the tiers of the spec with the counts of the StatefulSets, *)
(* and phase Ready is shown exactly if no tier lacks pods.  The counts are *)
(* summed in an int32 (collectTierStatus), so they must fit one; and the   *)
(* StatefulSets are listed by labels that hold the clusterName (NameKept). *)
THEOREM StatusIsTrue ==
    ASSUME NameKept
    PROVE  Spec => [](CountsFit => StatusTruthful)
<1>1. Init => StatusInv
  <2> SUFFICES ASSUME Init PROVE StatusInv
    OBVIOUS
  <2>1. EntriesOK
    BY EmptyWatch DEF Init, EntriesOK
  <2> QED
    BY <2>1 DEF Init, StatusInv, StatusShows, Absent
<1>2. WakeInv /\ StatusInv /\ [Next]_vars => StatusInv'
  <2> SUFFICES ASSUME WakeInv, StatusInv, [Next]_vars PROVE StatusInv'
    OBVIOUS
  <2>1. TypeOK /\ EntriesOK
    BY DEF WakeInv, OrderInv, DepsInv, StatusInv
  <2>2. EntriesOK' /\ StatusShows'
    BY <2>1, EntriesOKStep, StatusShowsStep
  <2>3. (step # "idle" /\ ~Disturbed => EntriesTrue)'
    BY EntriesTrueStep
  <2> QED
    BY <2>2, <2>3 DEF StatusInv
<1>3. StatusInv => (CountsFit => StatusTruthful)
  <2> SUFFICES ASSUME StatusShows, CountsFit, Settled, cr.live
               PROVE  /\ DOMAIN cr.status.tiers = DOMAIN cr.spec.tiers
                      /\ \A j \in DOMAIN cr.spec.tiers :
                            /\ cr.status.tiers[j].name = cr.spec.tiers[j].name
                            /\ cr.status.tiers[j].readyReplicas = ReadyPods(cr.spec.tiers[j])
                            /\ cr.status.tiers[j].desiredReplicas = DesiredPods(cr.spec.tiers[j])
                      /\ (cr.status.phase = "Ready") <=>
                            \A j \in DOMAIN cr.spec.tiers :
                               ReadyPods(cr.spec.tiers[j]) >= DesiredPods(cr.spec.tiers[j])
    BY DEF StatusInv, StatusTruthful
  <2>1. /\ DOMAIN cr.status.tiers = DOMAIN cr.spec.tiers
        /\ \A j \in DOMAIN cr.spec.tiers : Shows(cr.status.tiers[j], cr.spec.tiers[j])
        /\ (cr.status.phase = "Ready") <=>
              \A j \in DOMAIN cr.spec.tiers : TierReady(cr.status.tiers[j])
    BY DEF StatusShows
  <2>2. \A j \in DOMAIN cr.spec.tiers :
            /\ cr.status.tiers[j].name = cr.spec.tiers[j].name
            /\ cr.status.tiers[j].readyReplicas = ReadyPods(cr.spec.tiers[j])
            /\ cr.status.tiers[j].desiredReplicas = DesiredPods(cr.spec.tiers[j])
    BY <2>1 DEF Shows, CountsFit
  <2>3. \A j \in DOMAIN cr.spec.tiers :
            TierReady(cr.status.tiers[j])
              <=> ReadyPods(cr.spec.tiers[j]) >= DesiredPods(cr.spec.tiers[j])
    BY <2>2 DEF TierReady
  <2> QED
    BY <2>1, <2>2, <2>3
<1> QED
  BY <1>1, <1>2, <1>3, WakeInvariant, PTL DEF Spec
===============================================================================
