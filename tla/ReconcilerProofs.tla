-------------------------- MODULE ReconcilerProofs --------------------------
(***************************************************************************)
(* Theorems about Reconciler, for every value of its constants.            *)
(***************************************************************************)
EXTENDS Reconciler, TLAPS, SequenceTheorems

-----------------------------------------------------------------------------
(* Event queues.                                                           *)

(* Appending an event to a queue adds just that event. *)
LEMMA AppendWatch ==
    ASSUME NEW w, w \in Seq(Range(w)), NEW v
    PROVE  /\ Append(w, v) \in Seq(Range(Append(w, v)))
           /\ Range(Append(w, v)) = Range(w) \cup {v}
           /\ Len(Append(w, v)) = Len(w) + 1
<1> DEFINE S == Range(w) \cup {v}
           a == Append(w, v)
<1>1. w \in Seq(S)
  BY DEF Range
<1>2. /\ a \in Seq(S) /\ Len(a) = Len(w) + 1
      /\ \A i \in 1..Len(w) : a[i] = w[i]
      /\ a[Len(w) + 1] = v
  BY <1>1, AppendProperties
<1>3. DOMAIN w = 1..Len(w) /\ DOMAIN a = 1..(Len(w) + 1) /\ Len(w) \in Nat
  BY <1>1, <1>2
<1>4. Range(a) = S
  BY <1>2, <1>3 DEF Range
<1> QED
  BY <1>2, <1>4

(* Delivering an event takes one of the queue's and leaves the others. *)
LEMMA TailWatch ==
    ASSUME NEW w, w \in Seq(Range(w)), w # <<>>
    PROVE  /\ Head(w) \in Range(w)
           /\ Tail(w) \in Seq(Range(Tail(w)))
           /\ Range(Tail(w)) \subseteq Range(w)
           /\ Len(Tail(w)) = Len(w) - 1
<1> DEFINE t == Tail(w)
<1>1. /\ Head(w) \in Range(w)
      /\ t \in Seq(Range(w)) /\ Len(t) = Len(w) - 1
      /\ \A i \in 1..Len(t) : t[i] = w[i + 1]
  BY HeadTailProperties
<1>2. DOMAIN t = 1..Len(t)
  BY <1>1
<1>3. \A i \in 1..Len(t) : t[i] \in Range(t)
  BY <1>2 DEF Range
<1>4. t \in Seq(Range(t))
  <2>1. t \in [1..Len(t) -> Range(w)] /\ Len(t) \in Nat
    BY <1>1, LenProperties
  <2>2. t \in [1..Len(t) -> Range(t)]
    BY <2>1, <1>3
  <2> QED
    BY <2>1, <2>2, SeqDef
<1>5. Range(t) \subseteq Range(w)
  BY <1>1, <1>2 DEF Range
<1> QED
  BY <1>1, <1>4, <1>5

LEMMA EmptyWatch == <<>> \in Seq(Range(<<>>)) /\ Len(<<>>) = 0 /\ Range(<<>>) = {}
  BY DEF Range

-----------------------------------------------------------------------------
(* Keys and builders.                                                      *)

(* The running Reconcile works on a tier of a submitted spec. *)
LEMMA TierFacts ==
    ASSUME LocalTypeOK, step # "idle"
    PROVE  /\ cluster.spec \in Specs /\ cluster.uid \in Nat
           /\ IsStatus(cluster.status)
           /\ tier.name \in TierNames
           /\ tier.replicas \in 1..MaxReplicas
           /\ tier.replicationFactor \in Nat \ {0}
<1>1. IsCluster(cluster) /\ cluster.live /\ ti \in 1..Len(cluster.spec.tiers)
  BY DEF LocalTypeOK
<1>2. cluster # Absent
  BY <1>1 DEF Absent
<1>3. /\ cluster.uid \in Nat /\ cluster.spec \in Specs /\ IsStatus(cluster.status)
  BY <1>1, <1>2 DEF IsCluster
<1>4. ti \in DOMAIN cluster.spec.tiers
  BY <1>1, <1>3, SpecsAssumption DEF ValidSpec, ValidTier
<1>5. /\ tier.name \in TierNames /\ tier.replicas \in 1..MaxReplicas
      /\ tier.replicationFactor \in Nat \ {0}
  BY <1>3, <1>4, SpecsAssumption DEF tier, ValidSpec, ValidTier
<1> QED
  BY <1>3, <1>5

(* The children of such a tier are among the objects of the model. *)
LEMMA TierKeysAreKeys ==
    ASSUME NEW t, t.name \in TierNames
    PROVE  /\ ConfigMapKey(t) \in Keys
           /\ InterconnectKey(t) \in Keys
           /\ ClientKey(t) \in Keys
           /\ IngressKey(t) \in Keys
           /\ \A i \in 1..MaxReplicas : StatefulSetKey(t, i) \in StsKeys
           /\ StsKeys \subseteq Keys
  BY DEF Keys, StsKeys, ConfigMapKey, InterconnectKey, ClientKey, IngressKey, StatefulSetKey

(* A builder sets exactly the fields that are patched later. *)
LEMMA BuildersAreWhole ==
    ASSUME NEW s, NEW t, t.replicationFactor \in Nat \ {0}, NEW i, NEW c
    PROVE  /\ IsMut(ConfigMapKey(t), buildConfigMap(s, t).mut)
           /\ IsMut(InterconnectKey(t), buildInterconnectService(s, t).mut)
           /\ IsMut(ClientKey(t), buildClientService(s, t).mut)
           /\ IsMut(IngressKey(t), buildIngress(s, t).mut)
           /\ IsMut(StatefulSetKey(t, i), buildStatefulSet(s, t, i, c).mut)
<1>1. IsMut(ConfigMapKey(t), buildConfigMap(s, t).mut)
  BY DEF IsMut, MutFields, ConfigMapKey, buildConfigMap
<1>2. IsMut(InterconnectKey(t), buildInterconnectService(s, t).mut)
  BY DEF IsMut, MutFields, InterconnectKey, buildInterconnectService
<1>3. IsMut(ClientKey(t), buildClientService(s, t).mut)
  BY DEF IsMut, MutFields, ClientKey, buildClientService
<1>4. IsMut(IngressKey(t), buildIngress(s, t).mut)
  BY DEF IsMut, MutFields, IngressKey, buildIngress
<1>5. IsMut(StatefulSetKey(t, i), buildStatefulSet(s, t, i, c).mut)
  BY DEF IsMut, MutFields, TemplateFields, StatefulSetKey, buildStatefulSet
<1> QED
  BY <1>1, <1>2, <1>3, <1>4, <1>5

-----------------------------------------------------------------------------
(* Writes.                                                                 *)

(* Writing a whole object keeps the API server and the event queues typed. *)
LEMMA WriteObjType ==
    ASSUME ObjectTypeOK, NEW k \in Keys, NEW v, IsObject(k, v), WriteObj(k, v),
           UNCHANGED objCache
    PROVE  ObjectTypeOK'
<1>1. CASE v = obj[k]
  BY <1>1 DEF WriteObj, ObjectTypeOK, IsWatch
<1>2. CASE v # obj[k]
  <2>1. /\ Len(objWatch[k]) < MaxLag
        /\ obj' = [obj EXCEPT ![k] = v]
        /\ objWatch' = [objWatch EXCEPT ![k] = Append(objWatch[k], v)]
    BY <1>2 DEF WriteObj
  <2>2. /\ obj' = [l \in Keys |-> obj'[l]]
        /\ objWatch' = [l \in Keys |-> objWatch'[l]]
        /\ obj'[k] = v /\ objWatch'[k] = Append(objWatch[k], v)
        /\ \A l \in Keys \ {k} : obj'[l] = obj[l] /\ objWatch'[l] = objWatch[l]
    BY <2>1 DEF ObjectTypeOK
  <2>3. /\ IsWatch(objWatch'[k])
        /\ \A o \in Range(objWatch'[k]) : IsObject(k, o)
    <3>1. objWatch[k] \in Seq(Range(objWatch[k])) /\ Len(objWatch[k]) \in Nat
      BY LenProperties DEF ObjectTypeOK, IsWatch
    <3> QED
      BY <2>1, <2>2, <3>1, AppendWatch, BoundsAssumption DEF ObjectTypeOK, IsWatch
  <2> QED
    BY <2>2, <2>3 DEF ObjectTypeOK
<1> QED
  BY <1>1, <1>2

LEMMA WriteCrType ==
    ASSUME ClusterTypeOK, NEW v, IsCluster(v), WriteCr(v), UNCHANGED crCache
    PROVE  ClusterTypeOK'
<1>1. CASE v = cr
  BY <1>1 DEF WriteCr, ClusterTypeOK, IsWatch
<1>2. CASE v # cr
  <2>1. Len(crWatch) < MaxLag /\ cr' = v /\ crWatch' = Append(crWatch, v)
    BY <1>2 DEF WriteCr
  <2>2. crWatch \in Seq(Range(crWatch)) /\ Len(crWatch) \in Nat
    BY LenProperties DEF ClusterTypeOK, IsWatch
  <2> QED
    BY <2>1, <2>2, AppendWatch, BoundsAssumption DEF ClusterTypeOK, IsWatch
<1> QED
  BY <1>1, <1>2
(* Changing one field of a live object leaves the others. *)
LEMMA ObjectExcept ==
    ASSUME NEW k, NEW o, IsObject(k, o), o.live, NEW n
    PROVE  /\ IsMut(k, n) => IsObject(k, [o EXCEPT !.mut = n])
           /\ n \in Nat => IsObject(k, [o EXCEPT !.ready = n])
<1>1. o # Absent
  BY DEF Absent
<1>2. /\ o = [f \in ObjectFields |-> o[f]]
      /\ o.live = TRUE /\ IsMut(k, o.mut)
      /\ o.owner \in Nat /\ o.ready \in Nat
  BY <1>1 DEF IsObject
<1>3. ASSUME IsMut(k, n) PROVE IsObject(k, [o EXCEPT !.mut = n])
  BY <1>2, <1>3 DEF IsObject, ObjectFields, IsMut
<1>4. ASSUME n \in Nat PROVE IsObject(k, [o EXCEPT !.ready = n])
  BY <1>2, <1>4 DEF IsObject, ObjectFields
<1> QED
  BY <1>3, <1>4

(* What is stored of a live object. *)
LEMMA LiveObject ==
    ASSUME ObjectTypeOK, NEW k \in Keys, obj[k].live
    PROVE  IsMut(k, obj[k].mut) /\ obj[k].owner \in Nat /\ obj[k].ready \in Nat
<1>1. obj[k] # Absent /\ IsObject(k, obj[k])
  BY DEF Absent, ObjectTypeOK
<1> QED
  BY <1>1 DEF IsObject

(* Create and Patch leave a whole object. *)
LEMMA AppliedType ==
    ASSUME ObjectTypeOK, NEW k \in Keys, NEW built, IsMut(k, built.mut), cluster.uid \in Nat,
           Applied(k, built), UNCHANGED objCache
    PROVE  ObjectTypeOK'
<1>1. IsObject(k, NewObject(k, built))
  BY DEF IsObject, NewObject, ObjectFields
<1>2. ASSUME obj[k].live PROVE IsObject(k, Patched(k, built))
  <2> DEFINE m == MergePatch(obj[k].mut, objCache[k].mut, built.mut)
  <2>1. DOMAIN built.mut = MutFields(k)
    BY DEF IsMut
  <2>2. IsMut(k, obj[k].mut)
    BY <1>2, LiveObject
  <2>3. IsObject(k, obj[k])
    BY DEF ObjectTypeOK
  <2>5. IsMut(k, m)
    <3>1. m = [f \in MutFields(k) |-> m[f]]
      BY <2>1 DEF MergePatch
    <3>2. ASSUME k[1] = "StatefulSet" PROVE m.replicas \in Nat \ {0}
      <4>1. "replicas" \in MutFields(k)
        BY <3>2 DEF MutFields
      <4>2. m.replicas = obj[k].mut.replicas \/ m.replicas = built.mut.replicas
        BY <2>1, <4>1 DEF MergePatch
      <4> QED
        BY <2>2, <3>2, <4>2 DEF IsMut
    <3> QED
      BY <3>1, <3>2 DEF IsMut
  <2> HIDE DEF m
  <2>4. IsObject(k, [obj[k] EXCEPT !.mut = m])
    BY <1>2, <2>3, <2>5, ObjectExcept
  <2> QED
    BY <2>4 DEF Patched, m
<1> QED
  BY <1>1, <1>2, WriteObjType DEF Applied

(* Using up a budget. *)
LEMMA SpendType ==
    ASSUME SpentTypeOK, NEW b \in Budgets, Spend(b)
    PROVE  SpentTypeOK'
<1>1. /\ spent \in [Budgets -> Nat] /\ Limit \in [Budgets -> Nat]
      /\ spent[b] < Limit[b]
      /\ spent' = [spent EXCEPT ![b] = spent[b] + 1]
  BY BoundsAssumption DEF SpentTypeOK, Spend
<1>2. spent' \in [Budgets -> Nat]
  BY <1>1
<1>3. ASSUME NEW c \in Budgets PROVE spent'[c] <= Limit[c]
  <2>1. spent[c] \in Nat /\ Limit[c] \in Nat /\ spent[c] <= Limit[c]
    BY <1>1 DEF SpentTypeOK
  <2>2. CASE c = b
    BY <1>1, <2>1, <2>2
  <2>3. CASE c # b
    BY <1>1, <2>1, <2>3
  <2> QED
    BY <2>2, <2>3
<1> QED
  BY <1>2, <1>3 DEF SpentTypeOK

-----------------------------------------------------------------------------
(* The control flow of Reconcile keeps its locals typed.                   *)

LEMMA ClearLocalsType ==
    ASSUME ClearLocals
    PROVE  LocalTypeOK'
  BY DEF ClearLocals, LocalTypeOK, Steps

LEMMA GotoType ==
    ASSUME LocalTypeOK, step # "idle", extra = {}, NEW s \in Steps, Goto(s)
    PROVE  LocalTypeOK' /\ UNCHANGED queueVars
  BY DEF Goto, LocalTypeOK, tier

LEMMA NextReplicasetType ==
    ASSUME LocalTypeOK, step = "statefulset", NextReplicaset
    PROVE  LocalTypeOK' /\ UNCHANGED queueVars
<1>1. extra = {}
  BY DEF LocalTypeOK
<1>2. tier.replicas \in Nat
  BY TierFacts, BoundsAssumption
<1>3. CASE rsIndex < tier.replicas
  BY <1>1, <1>2, <1>3 DEF NextReplicaset, LocalTypeOK, tier
<1>4. CASE ~(rsIndex < tier.replicas)
  BY <1>1, <1>4, GotoType DEF NextReplicaset, Steps
<1> QED
  BY <1>3, <1>4

LEMMA NextTierType ==
    ASSUME LocalTypeOK, step # "idle", extra = {}, NEW s, NEW r, NextTier(s, r)
    PROVE  LocalTypeOK' /\ UNCHANGED queueVars
<1>1. UNCHANGED queueVars /\ cluster' = cluster /\ extra' = extra /\ allReady' \in BOOLEAN
  BY DEF NextTier, LocalTypeOK
<1>2. CASE ti < Len(cluster.spec.tiers)
  <2>1. step' = "configmap" /\ ti' = ti + 1 /\ rsIndex' = 1
    BY <1>2 DEF NextTier
  <2>2. cluster.spec \in Specs /\ Len(cluster.spec.tiers) \in Nat
    BY TierFacts, SpecsAssumption DEF ValidSpec, ValidTier
  <2>3. ti' \in 1..Len(cluster.spec.tiers)
    BY <1>2, <2>1, <2>2 DEF LocalTypeOK
  <2>4. cluster.spec.tiers[ti'].replicas \in 1..MaxReplicas
    BY <2>2, <2>3, SpecsAssumption DEF ValidSpec, ValidTier
  <2>5. rsIndex' \in 1..tier'.replicas
    BY <1>1, <2>1, <2>4, BoundsAssumption DEF tier
  <2> QED
    BY <1>1, <2>1, <2>3, <2>5 DEF LocalTypeOK, Steps
<1>3. CASE ~(ti < Len(cluster.spec.tiers))
  BY <1>1, <1>3 DEF NextTier, LocalTypeOK, Steps, tier
<1> QED
  BY <1>2, <1>3

(* The parts of the state an action leaves alone stay typed. *)
LEMMA StutterTypes ==
    /\ ClusterTypeOK /\ UNCHANGED <<cr, crCache, crWatch>> => ClusterTypeOK'
    /\ ObjectTypeOK /\ UNCHANGED <<obj, objCache, objWatch>> => ObjectTypeOK'
    /\ LocalTypeOK /\ UNCHANGED localVars => LocalTypeOK'
    /\ SpentTypeOK /\ UNCHANGED spent => SpentTypeOK'
<1>1. ClusterTypeOK /\ UNCHANGED <<cr, crCache, crWatch>> => ClusterTypeOK'
  BY DEF ClusterTypeOK
<1>2. ObjectTypeOK /\ UNCHANGED <<obj, objCache, objWatch>> => ObjectTypeOK'
  BY DEF ObjectTypeOK
<1>3. LocalTypeOK /\ UNCHANGED localVars => LocalTypeOK'
  BY DEF LocalTypeOK, localVars, tier
<1>4. SpentTypeOK /\ UNCHANGED spent => SpentTypeOK'
  BY DEF SpentTypeOK
<1> QED
  BY <1>1, <1>2, <1>3, <1>4

-----------------------------------------------------------------------------
(* TypeOK is inductive: one lemma per group of actions.                    *)

LEMMA ApplyType ==
    ASSUME TypeOK,
           \/ ReconcileConfigMap \/ ReconcileInterconnect \/ ReconcileClient
           \/ ReconcileStatefulSet \/ ReconcileIngress
    PROVE  TypeOK'
<1>1. /\ step # "idle" /\ step # "delete" /\ extra = {}
      /\ cluster.uid \in Nat /\ tier.name \in TierNames
      /\ tier.replicationFactor \in Nat \ {0}
      /\ rsIndex \in 1..tier.replicas /\ tier.replicas \in 1..MaxReplicas
  <2>1. step # "idle" /\ step # "delete"
    BY DEF ReconcileConfigMap, ReconcileInterconnect, ReconcileClient,
           ReconcileStatefulSet, ReconcileIngress
  <2> QED
    BY <2>1, TierFacts DEF TypeOK, LocalTypeOK
<1>2. rsIndex \in 1..MaxReplicas
  BY <1>1, BoundsAssumption
<1>3. ClusterTypeOK'
  <2>1. UNCHANGED <<cr, crCache, crWatch>>
    BY DEF ReconcileConfigMap, ReconcileInterconnect, ReconcileClient, ReconcileStatefulSet,
           ReconcileIngress, ApplyObject, cacheVars, apiVars
  <2> QED
    BY <2>1, StutterTypes DEF TypeOK
<1>4. ASSUME NEW k \in Keys, NEW built, IsMut(k, built.mut), UNCHANGED objCache,
             Applied(k, built) \/ UNCHANGED <<obj, objWatch>>
      PROVE  ObjectTypeOK'
  BY <1>1, <1>4, AppliedType, StutterTypes DEF TypeOK
<1>5. ReturnError => LocalTypeOK' /\ queued' \in BOOLEAN /\ timer' \in BOOLEAN
  BY ClearLocalsType DEF ReturnError, TypeOK
<1>6. \A s \in Steps : Goto(s) => LocalTypeOK' /\ queued' \in BOOLEAN /\ timer' \in BOOLEAN
  BY <1>1, GotoType DEF TypeOK, queueVars
<1>7. Spend("faults") \/ UNCHANGED spent => SpentTypeOK'
  BY SpendType, StutterTypes DEF TypeOK, Budgets
<1>8. CASE ReconcileConfigMap
  <2>1. ObjectTypeOK'
    BY <1>1, <1>4, <1>8, TierKeysAreKeys, BuildersAreWhole
    DEF ReconcileConfigMap, ApplyObject, cacheVars
  <2> QED
    BY <1>3, <2>1, <1>5, <1>6, <1>7, <1>8
    DEF ReconcileConfigMap, ApplyObject, Answer, TypeOK, Steps
<1>9. CASE ReconcileInterconnect
  <2>1. ObjectTypeOK'
    BY <1>1, <1>4, <1>9, TierKeysAreKeys, BuildersAreWhole
    DEF ReconcileInterconnect, ApplyObject, cacheVars
  <2> QED
    BY <1>3, <2>1, <1>5, <1>6, <1>7, <1>9
    DEF ReconcileInterconnect, ApplyObject, Answer, TypeOK, Steps
<1>10. CASE ReconcileClient
  <2>1. ObjectTypeOK'
    BY <1>1, <1>4, <1>10, TierKeysAreKeys, BuildersAreWhole
    DEF ReconcileClient, ApplyObject, cacheVars
  <2> QED
    BY <1>3, <2>1, <1>5, <1>6, <1>7, <1>10
    DEF ReconcileClient, ApplyObject, Answer, TypeOK, Steps
<1>11. CASE ReconcileStatefulSet
  <2>1. ObjectTypeOK'
    BY <1>1, <1>2, <1>4, <1>11, TierKeysAreKeys, BuildersAreWhole
    DEF ReconcileStatefulSet, ApplyObject, cacheVars
  <2>2. NextReplicaset => LocalTypeOK' /\ queued' \in BOOLEAN /\ timer' \in BOOLEAN
    BY <1>11, NextReplicasetType DEF ReconcileStatefulSet, TypeOK, queueVars
  <2> QED
    BY <1>3, <2>1, <1>5, <2>2, <1>7, <1>11
    DEF ReconcileStatefulSet, ApplyObject, Answer, TypeOK
<1>12. CASE ReconcileIngress
  <2>1. ObjectTypeOK'
    <3>1. CASE tier.ingress.enabled
      BY <1>1, <1>4, <1>12, <3>1, TierKeysAreKeys, BuildersAreWhole
      DEF ReconcileIngress, ApplyObject, cacheVars
    <3>2. CASE ~tier.ingress.enabled
      BY <1>12, <3>2, StutterTypes DEF ReconcileIngress, TypeOK, apiVars, cacheVars
    <3> QED
      BY <3>1, <3>2
  <2> QED
    BY <1>3, <2>1, <1>5, <1>6, <1>7, <1>12
    DEF ReconcileIngress, ApplyObject, Answer, TypeOK, Steps
<1> QED
  BY <1>8, <1>9, <1>10, <1>11, <1>12

LEMMA WorkerType ==
    ASSUME TypeOK,
           \/ FetchCluster \/ ListExtraStatefulSets \/ CleanupDone
           \/ CollectTierStatus \/ ReconcilePlugins \/ CallFails
    PROVE  TypeOK'
<1>1. ClusterTypeOK' /\ ObjectTypeOK'
  <2>1. UNCHANGED <<cr, crCache, crWatch, obj, objCache, objWatch>>
    BY DEF FetchCluster, ListExtraStatefulSets, ListExtra, CleanupDone, CollectTierStatus,
           ReconcilePlugins, CallFails, apiVars, cacheVars
  <2> QED
    BY <2>1, StutterTypes DEF TypeOK
<1>2. Spend("faults") \/ UNCHANGED spent => SpentTypeOK'
  BY SpendType, StutterTypes DEF TypeOK, Budgets
<1>3. CASE FetchCluster
  <2>1. UNCHANGED <<spent, timer>> /\ queued' = FALSE
    BY <1>3 DEF FetchCluster
  <2>2. CASE crCache.live
    <3>1. /\ step' = "configmap" /\ cluster' = crCache /\ ti' = 1 /\ rsIndex' = 1
          /\ extra' = extra /\ allReady' = allReady /\ step = "idle"
      BY <1>3, <2>2 DEF FetchCluster
    <3>2. crCache.spec \in Specs
      BY <2>2 DEF TypeOK, ClusterTypeOK, IsCluster, Absent
    <3>3. /\ 1 \in 1..Len(crCache.spec.tiers)
          /\ 1 \in 1..crCache.spec.tiers[1].replicas
      BY <3>2, SpecsAssumption, BoundsAssumption DEF ValidSpec, ValidTier
    <3>4. LocalTypeOK'
      BY <2>2, <3>1, <3>3 DEF TypeOK, ClusterTypeOK, LocalTypeOK, Steps, tier
    <3> QED
      BY <1>1, <1>2, <2>1, <3>4 DEF TypeOK
  <2>3. CASE ~crCache.live
    BY <1>1, <1>2, <1>3, <2>1, <2>3, StutterTypes DEF FetchCluster, TypeOK
  <2> QED
    BY <2>2, <2>3
<1>4. CASE ListExtraStatefulSets
  <2>1. /\ step = "cleanup" /\ step' = "delete"
        /\ extra' = { i \in ListStatefulSets : i > tier.replicas }
        /\ UNCHANGED <<queued, timer, cluster, ti, rsIndex, allReady, spent>>
    BY <1>4 DEF ListExtraStatefulSets, ListExtra, queueVars
  <2>2. tier.replicas \in Nat
    BY <2>1, TierFacts, BoundsAssumption DEF TypeOK
  <2>3. extra' \subseteq (tier.replicas + 1)..MaxReplicas
    BY <2>1, <2>2, BoundsAssumption DEF ListStatefulSets
  <2>4. tier' = tier
    BY <2>1 DEF tier
  <2>5. LocalTypeOK'
    BY <2>1, <2>3, <2>4 DEF TypeOK, LocalTypeOK, Steps
  <2> QED
    BY <1>1, <1>2, <2>1, <2>5 DEF TypeOK
<1>5. CASE CleanupDone
  BY <1>1, <1>2, <1>5, GotoType DEF CleanupDone, TypeOK, Steps, queueVars
<1>6. CASE CollectTierStatus
  <2>1. step = "tierstatus" /\ extra = {}
    BY <1>6 DEF CollectTierStatus, TypeOK, LocalTypeOK
  <2>2. LocalTypeOK' /\ UNCHANGED queueVars
    <3>1. CASE TierReady(TierStatus) /\ tier.plugins # <<>>
      BY <1>6, <2>1, <3>1 DEF CollectTierStatus, TypeOK, LocalTypeOK, Steps, tier
    <3>2. CASE ~(TierReady(TierStatus) /\ tier.plugins # <<>>)
      BY <1>6, <2>1, <3>2, NextTierType DEF CollectTierStatus, TypeOK
    <3> QED
      BY <3>1, <3>2
  <2> QED
    BY <1>1, <1>2, <1>6, <2>2 DEF CollectTierStatus, TypeOK, queueVars
<1>7. CASE ReconcilePlugins
  <2>1. step = "plugins" /\ extra = {}
    BY <1>7 DEF ReconcilePlugins, TypeOK, LocalTypeOK
  <2>2. LocalTypeOK' /\ UNCHANGED queueVars
    BY <1>7, <2>1, NextTierType, GotoType DEF ReconcilePlugins, TypeOK, Steps
  <2> QED
    BY <1>1, <1>2, <1>7, <2>2 DEF ReconcilePlugins, TypeOK, queueVars
<1>8. CASE CallFails
  BY <1>1, <1>2, <1>8, ClearLocalsType DEF CallFails, ReturnError, TypeOK
<1> QED
  BY <1>3, <1>4, <1>5, <1>6, <1>7, <1>8

LEMMA DeleteType ==
    ASSUME TypeOK, DeleteExtraStatefulSet
    PROVE  TypeOK'
<1>1. PICK i \in extra :
         /\ WriteObj(StatefulSetKey(tier, i), Absent)
         /\ Answer(/\ extra' = extra \ {i}
                   /\ UNCHANGED <<queueVars, step, cluster, ti, rsIndex, ts,
                                  tierStatuses, allReady>>)
  BY DEF DeleteExtraStatefulSet
<1>2. step = "delete" /\ UNCHANGED <<cr, crWatch, cacheVars>>
  BY DEF DeleteExtraStatefulSet
<1>3. tier.name \in TierNames /\ tier.replicas \in Nat /\ i \in (tier.replicas + 1)..MaxReplicas
  BY <1>2, TierFacts, BoundsAssumption DEF TypeOK, LocalTypeOK
<1>4. StatefulSetKey(tier, i) \in Keys
  <2>1. i \in 1..MaxReplicas
    BY <1>3, BoundsAssumption
  <2> QED
    BY <1>3, <2>1, TierKeysAreKeys
<1>5. ObjectTypeOK'
  BY <1>1, <1>2, <1>4, WriteObjType DEF TypeOK, IsObject, cacheVars
<1>6. ClusterTypeOK'
  BY <1>2, StutterTypes DEF TypeOK, cacheVars
<1>7. SpentTypeOK'
  BY <1>1, SpendType, StutterTypes DEF TypeOK, Answer, Budgets
<1>8. LocalTypeOK' /\ queued' \in BOOLEAN /\ timer' \in BOOLEAN
  <2>1. CASE ReturnError
    BY <2>1, ClearLocalsType DEF ReturnError, TypeOK
  <2>2. CASE /\ extra' = extra \ {i}
             /\ UNCHANGED <<queueVars, step, cluster, ti, rsIndex, ts, tierStatuses, allReady>>
    BY <1>2, <2>2 DEF TypeOK, LocalTypeOK, queueVars, tier
  <2> QED
    BY <1>1, <2>1, <2>2 DEF Answer
<1> QED
  BY <1>5, <1>6, <1>7, <1>8 DEF TypeOK

(* A status patch leaves a whole status. *)
LEMMA PatchStatusType ==
    ASSUME TypeOK, step # "idle", cr.live, NEW tiers, NEW ready, PatchStatus(tiers, ready),
           UNCHANGED crCache
    PROVE  ClusterTypeOK'
<1>1. PICK now \in Clock :
        WriteCr([cr EXCEPT !.status =
                    MergePatch(cr.status, cluster.status, NewStatus(tiers, ready, now))])
  BY DEF PatchStatus
<1> DEFINE want == NewStatus(tiers, ready, now)
           m == MergePatch(cr.status, cluster.status, want)
<1>2. /\ DOMAIN want = StatusFields
      /\ want.phase \in {"Initializing", "Ready"} /\ DOMAIN want.conditions = {1}
  BY DEF NewStatus, StatusFields
<1>3. /\ cr = [f \in ClusterFields |-> cr[f]]
      /\ cr.live = TRUE /\ cr.uid \in Nat /\ cr.spec \in Specs /\ IsStatus(cr.status)
  BY DEF TypeOK, ClusterTypeOK, IsCluster, Absent
<1>4. IsStatus(m)
  <2> HIDE DEF want
  <2>1. m = [f \in StatusFields |-> m[f]]
    BY <1>2 DEF MergePatch
  <2>2. m.phase = want.phase \/ m.phase = cr.status.phase
    BY <1>2 DEF MergePatch, StatusFields
  <2>3. m.conditions = want.conditions \/ m.conditions = cr.status.conditions
    BY <1>2 DEF MergePatch, StatusFields
  <2> QED
    BY <1>2, <1>3, <2>1, <2>2, <2>3 DEF IsStatus
<1> HIDE DEF m
<1>5. IsCluster([cr EXCEPT !.status = m])
  BY <1>3, <1>4 DEF IsCluster, ClusterFields
<1> QED
  BY <1>1, <1>5, WriteCrType DEF TypeOK, m

LEMMA StatusType ==
    ASSUME TypeOK, UpdateStatus \/ UpdateStatusPluginFailed
    PROVE  TypeOK'
<1>1. ObjectTypeOK'
  BY StutterTypes DEF UpdateStatus, UpdateStatusPluginFailed, TypeOK, cacheVars
<1>2. step # "idle" /\ UNCHANGED crCache
  BY DEF UpdateStatus, UpdateStatusPluginFailed, cacheVars
<1>3. ClusterTypeOK'
  BY <1>2, PatchStatusType, StutterTypes DEF UpdateStatus, UpdateStatusPluginFailed, TypeOK
<1>4. SpentTypeOK'
  BY SpendType, StutterTypes
  DEF UpdateStatus, UpdateStatusPluginFailed, Answer, TypeOK, Budgets
<1>5. LocalTypeOK' /\ queued' \in BOOLEAN /\ timer' \in BOOLEAN
  BY ClearLocalsType
  DEF UpdateStatus, UpdateStatusPluginFailed, Answer, ReturnOk, ReturnError, TypeOK, queueVars
<1> QED
  BY <1>1, <1>3, <1>4, <1>5 DEF TypeOK

LEMMA ManagerType ==
    ASSUME TypeOK, Manager
    PROVE  TypeOK'
<1>1. CASE DeliverCr
  <2>1. /\ crWatch \in Seq(Range(crWatch)) /\ Len(crWatch) \in Nat /\ Len(crWatch) <= MaxLag
        /\ crWatch # <<>>
    BY <1>1, LenProperties DEF DeliverCr, TypeOK, ClusterTypeOK, IsWatch
  <2>2. ClusterTypeOK'
    BY <1>1, <2>1, TailWatch, BoundsAssumption DEF DeliverCr, TypeOK, ClusterTypeOK, IsWatch
  <2> QED
    BY <1>1, <2>2, StutterTypes DEF DeliverCr, TypeOK
<1>2. ASSUME NEW k \in Keys, DeliverObj(k) PROVE TypeOK'
  <2> DEFINE w == objWatch[k]
  <2>1. w \in Seq(Range(w)) /\ Len(w) \in Nat /\ Len(w) <= MaxLag /\ w # <<>>
    BY <1>2, LenProperties DEF DeliverObj, TypeOK, ObjectTypeOK, IsWatch
  <2>2. /\ obj' = obj
        /\ objCache' = [l \in Keys |-> objCache'[l]] /\ objWatch' = [l \in Keys |-> objWatch'[l]]
        /\ objCache'[k] = Head(w) /\ objWatch'[k] = Tail(w)
        /\ \A l \in Keys \ {k} : objCache'[l] = objCache[l] /\ objWatch'[l] = objWatch[l]
    BY <1>2 DEF DeliverObj, TypeOK, ObjectTypeOK
  <2>3. /\ IsWatch(objWatch'[k]) /\ IsObject(k, objCache'[k])
        /\ \A o \in Range(objWatch'[k]) : IsObject(k, o)
    BY <2>1, <2>2, TailWatch, BoundsAssumption DEF TypeOK, ObjectTypeOK, IsWatch
  <2>4. ObjectTypeOK'
    BY <2>2, <2>3 DEF TypeOK, ObjectTypeOK
  <2> QED
    BY <1>2, <2>4, StutterTypes DEF DeliverObj, TypeOK
<1>3. CASE RequeueAfterElapses
  BY <1>3, StutterTypes DEF RequeueAfterElapses, TypeOK, apiVars, cacheVars
<1>4. CASE Restart
  <2>1. IsWatch(<<>>) /\ Range(<<>>) = {}
    BY EmptyWatch, BoundsAssumption DEF IsWatch
  <2>2. ClusterTypeOK'
    BY <1>4, <2>1 DEF Restart, TypeOK, ClusterTypeOK
  <2>3. ObjectTypeOK'
    BY <1>4, <2>1 DEF Restart, TypeOK, ObjectTypeOK
  <2>4. SpentTypeOK'
    BY <1>4, SpendType DEF Restart, TypeOK, Budgets
  <2> QED
    BY <1>4, <2>2, <2>3, <2>4, ClearLocalsType DEF Restart, TypeOK
<1> QED
  BY <1>1, <1>2, <1>3, <1>4 DEF Manager

LEMMA UserType ==
    ASSUME TypeOK, User
    PROVE  TypeOK'
<1>1. ObjectTypeOK' /\ LocalTypeOK' /\ queued' \in BOOLEAN /\ timer' \in BOOLEAN
  BY StutterTypes
  DEF User, CreateCluster, EditCluster, DeleteCluster, TypeOK, cacheVars, queueVars
<1>2. SpentTypeOK'
  BY SpendType, StutterTypes DEF User, CreateCluster, EditCluster, DeleteCluster, TypeOK, Budgets
<1>3. UNCHANGED crCache
  BY DEF User, CreateCluster, EditCluster, DeleteCluster, cacheVars
<1>4. ClusterTypeOK'
  <2>1. CASE CreateCluster
    <3>1. PICK s \in Specs : WriteCr([live |-> TRUE, uid |-> spent["deletes"], spec |-> s,
                                      status |-> NoStatus])
      BY <2>1 DEF CreateCluster
    <3>2. IsStatus(NoStatus)
      <4>1. DOMAIN NoStatus.conditions = {}
        BY DEF NoStatus
      <4> QED
        BY <4>1 DEF IsStatus, NoStatus, StatusFields
    <3>3. spent["deletes"] \in Nat
      BY DEF TypeOK, SpentTypeOK, Budgets
    <3>4. IsCluster([live |-> TRUE, uid |-> spent["deletes"], spec |-> s, status |-> NoStatus])
      BY <3>2, <3>3 DEF IsCluster, ClusterFields
    <3> QED
      BY <1>3, <3>1, <3>4, WriteCrType DEF TypeOK
  <2>2. CASE EditCluster
    <3>1. PICK s \in Specs : WriteCr([cr EXCEPT !.spec = s])
      BY <2>2 DEF EditCluster
    <3>2. /\ cr = [f \in ClusterFields |-> cr[f]]
          /\ cr.live = TRUE /\ cr.uid \in Nat /\ IsStatus(cr.status)
      BY <2>2 DEF EditCluster, TypeOK, ClusterTypeOK, IsCluster, Absent
    <3>3. IsCluster([cr EXCEPT !.spec = s])
      BY <3>2 DEF IsCluster, ClusterFields
    <3> QED
      BY <1>3, <3>1, <3>3, WriteCrType DEF TypeOK
  <2>3. CASE DeleteCluster
    BY <1>3, <2>3, WriteCrType DEF DeleteCluster, TypeOK, IsCluster
  <2> QED
    BY <2>1, <2>2, <2>3 DEF User
<1> QED
  BY <1>1, <1>2, <1>4 DEF TypeOK

LEMMA KubernetesType ==
    ASSUME TypeOK, Kubernetes
    PROVE  TypeOK'
<1>1. \A k \in StsKeys : k \in Keys
  BY DEF Keys
<1>2. /\ ClusterTypeOK' /\ LocalTypeOK' /\ SpentTypeOK'
      /\ queued' \in BOOLEAN /\ timer' \in BOOLEAN /\ UNCHANGED objCache
  <2>1. /\ UNCHANGED <<cr, crCache, crWatch, objCache, localVars, queued, timer>>
        /\ Spend("losses") \/ UNCHANGED spent
    BY DEF Kubernetes, CollectGarbage, StatefulSetController, RollPods, PodBecomesReady,
           PodRetires, PodFails, PodsVanish, apiVars, cacheVars, queueVars
  <2> QED
    BY <2>1, SpendType, StutterTypes DEF TypeOK, Budgets
<1>3. ASSUME NEW k \in Keys, obj[k].live, NEW n \in Nat, SetReady(k, n) PROVE ObjectTypeOK'
  <2>1. IsObject(k, obj[k])
    BY DEF TypeOK, ObjectTypeOK
  <2>2. IsObject(k, [obj[k] EXCEPT !.ready = n])
    BY <1>3, <2>1, ObjectExcept
  <2> QED
    BY <1>2, <1>3, <2>2, WriteObjType DEF SetReady, TypeOK
<1>4. ASSUME NEW k \in Keys, obj[k].live PROVE obj[k].ready \in Nat
  BY <1>4, LiveObject DEF TypeOK
<1>5. ASSUME NEW k \in Keys, CollectGarbage(k) PROVE ObjectTypeOK'
  BY <1>2, <1>5, WriteObjType DEF CollectGarbage, TypeOK, IsObject
<1>6. ASSUME NEW k \in StsKeys, StatefulSetController(k) \/ PodFails(k) PROVE ObjectTypeOK'
  <2>1. k \in Keys
    BY <1>1
  <2>2. CASE RollPods(k)
    <3>1. PICK n \in 0..obj[k].ready : SetReady(k, n)
      BY <2>2 DEF RollPods
    <3> QED
      BY <1>3, <1>4, <2>1, <2>2, <3>1 DEF RollPods
  <2>3. CASE PodBecomesReady(k)
    <3>1. obj[k].live /\ obj[k].ready + 1 \in Nat
      BY <1>4, <2>1, <2>3 DEF PodBecomesReady
    <3> QED
      BY <1>3, <2>1, <2>3, <3>1 DEF PodBecomesReady
  <2>4. CASE PodRetires(k)
    <3>1. obj[k].live /\ obj[k].mut.replicas \in Nat
      BY <2>1, <2>4, LiveObject DEF PodRetires, StsKeys, TypeOK, IsMut
    <3>2. obj[k].ready - 1 \in Nat
      BY <1>4, <2>1, <2>4, <3>1 DEF PodRetires
    <3> QED
      BY <1>3, <2>1, <2>4, <3>1, <3>2 DEF PodRetires
  <2>5. CASE PodFails(k)
    <3>1. obj[k].live /\ obj[k].ready - 1 \in Nat
      BY <1>4, <2>1, <2>5 DEF PodFails
    <3> QED
      BY <1>3, <2>1, <2>5, <3>1 DEF PodFails
  <2>6. CASE PodsVanish(k)
    BY <2>6, StutterTypes DEF PodsVanish, TypeOK, apiVars, cacheVars
  <2> QED
    BY <1>6, <2>2, <2>3, <2>4, <2>5, <2>6 DEF StatefulSetController
<1> QED
  BY <1>2, <1>5, <1>6 DEF Kubernetes, TypeOK

(* Reconcile, the manager, users and Kubernetes keep every object whole    *)
(* and the running Reconcile within the bounds of its tier.                *)
THEOREM TypeCorrect == Spec => []TypeOK
<1>1. Init => TypeOK
  <2> SUFFICES ASSUME Init PROVE TypeOK
    OBVIOUS
  <2>1. IsWatch(<<>>) /\ Range(<<>>) = {}
    BY EmptyWatch, BoundsAssumption DEF IsWatch
  <2>2. ClusterTypeOK
    BY <2>1 DEF Init, ClusterTypeOK, IsCluster
  <2>3. ObjectTypeOK
    BY <2>1 DEF Init, ObjectTypeOK, IsObject
  <2>4. LocalTypeOK /\ SpentTypeOK
    BY BoundsAssumption DEF Init, LocalTypeOK, SpentTypeOK, Steps
  <2> QED
    BY <2>2, <2>3, <2>4 DEF Init, TypeOK
<1>2. TypeOK /\ [Next]_vars => TypeOK'
  <2> SUFFICES ASSUME TypeOK, [Next]_vars PROVE TypeOK'
    OBVIOUS
  <2>1. CASE Reconcile
    BY <2>1, ApplyType, WorkerType, DeleteType, StatusType DEF Reconcile
  <2>2. CASE UNCHANGED vars
    BY <2>2, StutterTypes DEF vars, apiVars, cacheVars, queueVars, TypeOK
  <2> QED
    BY <2>1, <2>2, ManagerType, UserType, KubernetesType DEF Next
<1> QED
  BY <1>1, <1>2, PTL DEF Spec

-----------------------------------------------------------------------------
(* Two safety properties of Reconciler, for every value of its constants:  *)
(* no StatefulSet exists without the objects its pods depend on            *)
(* (StsAfterDeps), and no replicaset is taken away that the user did not   *)
(* give up (ReplicasetKept, at the end of this module).                    *)
(*                                                                         *)
(* StsAfterDeps is not inductive.  Why it holds: until the resource is     *)
(* deleted every copy of it has the same uid, so every child has a living  *)
(* owner and the garbage collector takes none of them away (NothingBefore, *)
(* OneUid); the reconciler itself deletes only StatefulSets; and it        *)
(* applies a StatefulSet only after the three others of its tier were      *)
(* applied in the same pass (DepsApplied).                                 *)

(* Nothing precedes the resource: no copy of it, no pass, no child. *)
NothingBefore ==
    ~cr.live =>
        /\ ~crCache.live /\ step = "idle"
        /\ \A c \in Range(crWatch) : ~c.live
        /\ \A k \in Keys : ~obj[k].live

(* There has been one resource only. *)
OneUid ==
    /\ cr.live => cr.uid = 0
    /\ crCache.live => crCache.uid = 0
    /\ \A c \in Range(crWatch) : c.live => c.uid = 0
    /\ step # "idle" => cluster.uid = 0
    /\ \A k \in Keys : obj[k].live => obj[k].owner = 0

(* What the running pass has applied for its tier is still there. *)
DepsApplied ==
    /\ step \notin {"idle", "configmap"} => obj[ConfigMapKey(tier)].live
    /\ step \notin {"idle", "configmap", "interconnect"} => obj[InterconnectKey(tier)].live
    /\ step \notin {"idle", "configmap", "interconnect", "client"} => obj[ClientKey(tier)].live

HasDeps(name) ==
    /\ obj[<<"ConfigMap", name, 0>>].live
    /\ obj[<<"Interconnect", name, 0>>].live
    /\ obj[<<"Client", name, 0>>].live

StsHaveDeps == \A k \in StsKeys : obj[k].live => HasDeps(k[2])

FirstLife == NothingBefore /\ OneUid /\ DepsApplied /\ StsHaveDeps

DepsInv == TypeOK /\ (spent["deletes"] = 0 => FirstLife)

-----------------------------------------------------------------------------
(* What single writes do.                                                  *)

LEMMA WriteObjEffect ==
    ASSUME ObjectTypeOK, NEW k \in Keys, NEW v, WriteObj(k, v)
    PROVE  obj'[k] = v /\ \A l \in Keys \ {k} : obj'[l] = obj[l]
  BY DEF WriteObj, ObjectTypeOK

LEMMA WriteCrEffect ==
    ASSUME ClusterTypeOK, NEW v, WriteCr(v)
    PROVE  cr' = v /\ \A c \in Range(crWatch') : c \in Range(crWatch) \/ c = v
<1>1. CASE v = cr
  BY <1>1 DEF WriteCr
<1>2. CASE v # cr
  <2>1. cr' = v /\ crWatch' = Append(crWatch, v) /\ crWatch \in Seq(Range(crWatch))
    BY <1>2 DEF WriteCr, ClusterTypeOK, IsWatch
  <2> QED
    BY <2>1, AppendWatch
<1> QED
  BY <1>1, <1>2

LEMMA SpendEffect ==
    ASSUME SpentTypeOK
    PROVE  /\ \A b \in Budgets : b # "deletes" /\ Spend(b) => spent'["deletes"] = spent["deletes"]
           /\ Spend("deletes") => spent'["deletes"] # 0
<1>1. spent \in [Budgets -> Nat] /\ "deletes" \in Budgets
  BY DEF SpentTypeOK, Budgets
<1>2. ASSUME NEW b \in Budgets, b # "deletes", Spend(b)
      PROVE  spent'["deletes"] = spent["deletes"]
  BY <1>1, <1>2 DEF Spend
<1>3. ASSUME Spend("deletes") PROVE spent'["deletes"] # 0
  <2>1. spent'["deletes"] = spent["deletes"] + 1 /\ spent["deletes"] \in Nat
    BY <1>1, <1>3 DEF Spend
  <2> QED
    BY <2>1
<1> QED
  BY <1>2, <1>3

(* The keys of the dependencies of a tier are no keys of StatefulSets. *)
LEMMA DepKeys ==
    ASSUME NEW name \in TierNames
    PROVE  \A kind \in {"ConfigMap", "Interconnect", "Client"} :
              <<kind, name, 0>> \in Keys \ StsKeys
  BY DEF Keys, StsKeys

(* If no child but a StatefulSet goes away, dependencies stay. *)
LEMMA DepsStay ==
    ASSUME \A l \in Keys \ StsKeys : obj[l].live => obj'[l].live,
           NEW name \in TierNames, HasDeps(name)
    PROVE  HasDeps(name)'
<1>1. \A kind \in {"ConfigMap", "Interconnect", "Client"} : <<kind, name, 0>> \in Keys \ StsKeys
  BY DepKeys
<1> QED
  BY <1>1 DEF HasDeps

-----------------------------------------------------------------------------
(* FirstLife is preserved: one lemma per group of actions.                 *)

(* Create and Patch leave a child that lives and is owned by the resource. *)
LEMMA AppliedEffect ==
    ASSUME ObjectTypeOK, NEW k \in Keys, NEW built, Applied(k, built)
    PROVE  /\ obj'[k].live = TRUE
           /\ obj'[k].owner \in {cluster.uid, obj[k].owner}
           /\ ~obj[k].live => obj'[k].owner = cluster.uid
           /\ \A l \in Keys \ {k} : obj'[l] = obj[l]
<1>1. CASE ~objCache[k].live /\ ~obj[k].live
  <2>1. WriteObj(k, NewObject(k, built))
    BY <1>1 DEF Applied
  <2>2. obj'[k] = NewObject(k, built) /\ \A l \in Keys \ {k} : obj'[l] = obj[l]
    BY <2>1, WriteObjEffect
  <2> QED
    BY <2>2 DEF NewObject
<1>2. CASE objCache[k].live /\ obj[k].live
  <2>1. WriteObj(k, Patched(k, built))
    BY <1>2 DEF Applied
  <2>2. obj'[k] = Patched(k, built) /\ \A l \in Keys \ {k} : obj'[l] = obj[l]
    BY <2>1, WriteObjEffect
  <2>3. obj[k] = [f \in ObjectFields |-> obj[k][f]] /\ obj[k].live = TRUE
    <3>1. obj[k] # Absent /\ IsObject(k, obj[k])
      BY <1>2 DEF Absent, ObjectTypeOK
    <3> QED
      BY <3>1 DEF IsObject
  <2>4. Patched(k, built).live = TRUE /\ Patched(k, built).owner = obj[k].owner
    BY <2>3 DEF Patched, ObjectFields
  <2> QED
    BY <1>2, <2>2, <2>4
<1> QED
  BY <1>1, <1>2 DEF Applied

(* While a pass runs the resource exists, and the tier has a name. *)
LEMMA PassFacts ==
    ASSUME TypeOK, FirstLife, step # "idle"
    PROVE  cr.live /\ cluster.uid = 0 /\ tier.name \in TierNames
  BY TierFacts DEF FirstLife, NothingBefore, OneUid, TypeOK

(* Steps that touch no object and stay in the tier or end the pass. *)
LEMMA QuietStep ==
    ASSUME TypeOK, FirstLife, UNCHANGED <<cr, crCache, crWatch, obj>>,
           \/ ClearLocals
           \/ UNCHANGED <<step, cluster, ti>>
           \/ /\ step \notin {"idle", "configmap", "interconnect", "client"}
              /\ UNCHANGED <<cluster, ti>>
           \/ step # "idle" /\ step' = "configmap" /\ UNCHANGED cluster
    PROVE  FirstLife'
<1>1. NothingBefore'
  BY DEF FirstLife, NothingBefore, ClearLocals
<1>2. OneUid'
  BY DEF FirstLife, OneUid, ClearLocals
<1>3. StsHaveDeps'
  BY DEF FirstLife, StsHaveDeps, HasDeps
<1>4. DepsApplied'
  BY DEF FirstLife, DepsApplied, ClearLocals, tier
<1> QED
  BY <1>1, <1>2, <1>3, <1>4 DEF FirstLife

(* A step of the pass that leaves the resource alone, where no child but a *)
(* StatefulSet goes away and every new child has the resource's uid.       *)
LEMMA PassStep ==
    ASSUME TypeOK, FirstLife, step # "idle", UNCHANGED <<cr, crCache, crWatch>>,
           \A l \in Keys \ StsKeys : obj[l].live => obj'[l].live,
           \A l \in Keys : obj'[l].live => obj'[l].owner = 0,
           \A l \in StsKeys : obj'[l].live => obj[l].live \/ HasDeps(l[2]),
           ClearLocals \/ UNCHANGED <<cluster, ti>>, DepsApplied'
    PROVE  FirstLife'
<1>1. cr.live /\ cluster.uid = 0
  BY PassFacts
<1>2. NothingBefore'
  BY <1>1 DEF NothingBefore
<1>3. OneUid'
  BY <1>1 DEF FirstLife, OneUid, ClearLocals
<1>4. StsHaveDeps'
  <2> SUFFICES ASSUME NEW l \in StsKeys, obj'[l].live PROVE HasDeps(l[2])'
    BY DEF StsHaveDeps
  <2>1. l[2] \in TierNames
    BY DEF StsKeys
  <2>2. HasDeps(l[2])
    BY DEF FirstLife, StsHaveDeps
  <2> QED
    BY <2>1, <2>2, DepsStay
<1> QED
  BY <1>2, <1>3, <1>4 DEF FirstLife
(* Applying the child k: afterwards it lives, with the uid of the others. *)
LEMMA ApplyStep ==
    ASSUME TypeOK, FirstLife, step # "idle", NEW k \in Keys, NEW built, NEW s \in Steps,
           \/ Applied(k, built) /\ (ClearLocals \/ (step' = s /\ UNCHANGED <<cluster, ti>>))
           \/ ClearLocals /\ UNCHANGED obj,
           UNCHANGED <<cr, crCache, crWatch>>,
           k \in StsKeys => HasDeps(k[2]),
           (/\ obj'[k].live /\ \A l \in Keys : obj[l].live => obj'[l].live
            /\ step' = s /\ UNCHANGED <<cluster, ti>>) => DepsApplied'
    PROVE  FirstLife'
<1>1. cluster.uid = 0 /\ \A l \in Keys : obj[l].live => obj[l].owner = 0
  BY PassFacts DEF FirstLife, OneUid
<1>2. CASE ClearLocals /\ UNCHANGED obj
  BY <1>2, QuietStep
<1>3. CASE Applied(k, built) /\ (ClearLocals \/ (step' = s /\ UNCHANGED <<cluster, ti>>))
  <2>1. /\ obj'[k].live = TRUE /\ obj'[k].owner \in {cluster.uid, obj[k].owner}
        /\ ~obj[k].live => obj'[k].owner = cluster.uid
        /\ \A l \in Keys \ {k} : obj'[l] = obj[l]
    BY <1>3, AppliedEffect DEF TypeOK
  <2>2. obj'[k].owner = 0
    BY <1>1, <2>1
  <2>3. \A l \in Keys : obj[l].live => obj'[l].live
    BY <2>1
  <2>4. \A l \in Keys : obj'[l].live => obj'[l].owner = 0
    BY <1>1, <2>1, <2>2
  <2>5. \A l \in StsKeys : obj'[l].live => obj[l].live \/ HasDeps(l[2])
    BY <2>1 DEF Keys
  <2>6. DepsApplied'
    <3>1. CASE ClearLocals
      BY <3>1 DEF ClearLocals, DepsApplied
    <3>2. CASE step' = s /\ UNCHANGED <<cluster, ti>>
      BY <2>1, <2>3, <3>2
    <3> QED
      BY <1>3, <3>1, <3>2
  <2> QED
    BY <1>3, <2>3, <2>4, <2>5, <2>6, PassStep
<1> QED
  BY <1>2, <1>3

LEMMA ApplyDeps ==
    ASSUME TypeOK, FirstLife,
           \/ ReconcileConfigMap \/ ReconcileInterconnect \/ ReconcileClient
           \/ ReconcileStatefulSet \/ ReconcileIngress
    PROVE  FirstLife'
<1>1. step # "idle"
  BY DEF ReconcileConfigMap, ReconcileInterconnect, ReconcileClient, ReconcileStatefulSet,
         ReconcileIngress
<1>2. UNCHANGED <<cr, crCache, crWatch>>
  BY DEF ReconcileConfigMap, ReconcileInterconnect, ReconcileClient, ReconcileStatefulSet,
         ReconcileIngress, ApplyObject, cacheVars, apiVars
<1>3. /\ tier.name \in TierNames
      /\ ConfigMapKey(tier) \in Keys /\ InterconnectKey(tier) \in Keys
      /\ ClientKey(tier) \in Keys /\ IngressKey(tier) \in Keys
      /\ \A i \in 1..MaxReplicas : StatefulSetKey(tier, i) \in StsKeys
      /\ StsKeys \subseteq Keys
  BY <1>1, PassFacts, TierKeysAreKeys
<1>4. /\ ConfigMapKey(tier) \notin StsKeys /\ InterconnectKey(tier) \notin StsKeys
      /\ ClientKey(tier) \notin StsKeys /\ IngressKey(tier) \notin StsKeys
  BY DEF StsKeys, ConfigMapKey, InterconnectKey, ClientKey, IngressKey
<1>5. UNCHANGED <<cluster, ti>> => tier' = tier
  BY DEF tier
<1>6. CASE ReconcileConfigMap
  <2> DEFINE k == ConfigMapKey(tier)
             built == buildConfigMap(cluster.spec, tier)
  <2>1. \/ Applied(k, built)
           /\ (ClearLocals \/ (step' = "interconnect" /\ UNCHANGED <<cluster, ti>>))
        \/ ClearLocals /\ UNCHANGED obj
    BY <1>6 DEF ReconcileConfigMap, ApplyObject, Answer, ReturnError, Goto
  <2>2. (/\ obj'[k].live /\ step' = "interconnect" /\ UNCHANGED <<cluster, ti>>) => DepsApplied'
    BY <1>5 DEF DepsApplied
  <2> QED
    BY <1>1, <1>2, <1>3, <1>4, <2>1, <2>2, ApplyStep DEF Steps
<1>7. CASE ReconcileInterconnect
  <2> DEFINE k == InterconnectKey(tier)
             built == buildInterconnectService(cluster.spec, tier)
  <2>1. \/ Applied(k, built)
           /\ (ClearLocals \/ (step' = "client" /\ UNCHANGED <<cluster, ti>>))
        \/ ClearLocals /\ UNCHANGED obj
    BY <1>7 DEF ReconcileInterconnect, ApplyObject, Answer, ReturnError, Goto
  <2>2. obj[ConfigMapKey(tier)].live
    BY <1>7 DEF ReconcileInterconnect, FirstLife, DepsApplied
  <2>3. (/\ obj'[k].live /\ \A l \in Keys : obj[l].live => obj'[l].live
         /\ step' = "client" /\ UNCHANGED <<cluster, ti>>) => DepsApplied'
    BY <1>3, <1>5, <2>2 DEF DepsApplied
  <2> QED
    BY <1>1, <1>2, <1>3, <1>4, <2>1, <2>3, ApplyStep DEF Steps
<1>8. CASE ReconcileClient
  <2> DEFINE k == ClientKey(tier)
             built == buildClientService(cluster.spec, tier)
  <2>1. \/ Applied(k, built)
           /\ (ClearLocals \/ (step' = "statefulset" /\ UNCHANGED <<cluster, ti>>))
        \/ ClearLocals /\ UNCHANGED obj
    BY <1>8 DEF ReconcileClient, ApplyObject, Answer, ReturnError, Goto
  <2>2. obj[ConfigMapKey(tier)].live /\ obj[InterconnectKey(tier)].live
    BY <1>8 DEF ReconcileClient, FirstLife, DepsApplied
  <2>3. (/\ obj'[k].live /\ \A l \in Keys : obj[l].live => obj'[l].live
         /\ step' = "statefulset" /\ UNCHANGED <<cluster, ti>>) => DepsApplied'
    BY <1>3, <1>5, <2>2 DEF DepsApplied
  <2> QED
    BY <1>1, <1>2, <1>3, <1>4, <2>1, <2>3, ApplyStep DEF Steps
<1>9. ASSUME step \in {"statefulset", "ingress"}, NEW k \in Keys, NEW built, NEW s \in Steps,
             \/ Applied(k, built) /\ (ClearLocals \/ (step' = s /\ UNCHANGED <<cluster, ti>>))
             \/ ClearLocals /\ UNCHANGED obj,
             k \in StsKeys => k[2] = tier.name
      PROVE  FirstLife'
  <2>1. /\ obj[ConfigMapKey(tier)].live /\ obj[InterconnectKey(tier)].live
        /\ obj[ClientKey(tier)].live
    BY <1>9 DEF FirstLife, DepsApplied
  <2>2. HasDeps(tier.name)
    BY <2>1 DEF HasDeps, ConfigMapKey, InterconnectKey, ClientKey
  <2>3. (/\ \A l \in Keys : obj[l].live => obj'[l].live
         /\ step' = s /\ UNCHANGED <<cluster, ti>>) => DepsApplied'
    BY <1>3, <1>5, <2>1 DEF DepsApplied
  <2> QED
    BY <1>1, <1>2, <1>9, <2>2, <2>3, ApplyStep
<1>10. CASE ReconcileStatefulSet
  <2> DEFINE k == StatefulSetKey(tier, rsIndex)
             built == buildStatefulSet(cluster.spec, tier, rsIndex, ConfigYAML(cluster.spec, tier))
  <2>1. step = "statefulset"
    BY <1>10 DEF ReconcileStatefulSet
  <2>2. rsIndex \in 1..MaxReplicas
    <3>1. tier.replicas \in 1..MaxReplicas /\ rsIndex \in 1..tier.replicas
      BY <1>1, TierFacts DEF TypeOK, LocalTypeOK
    <3> QED
      BY <3>1, BoundsAssumption
  <2>3. k \in StsKeys /\ k \in Keys /\ k[2] = tier.name
    BY <1>3, <2>2 DEF StatefulSetKey
  <2>4. PICK s \in {"statefulset", "cleanup"} :
           \/ Applied(k, built) /\ (ClearLocals \/ (step' = s /\ UNCHANGED <<cluster, ti>>))
           \/ ClearLocals /\ UNCHANGED obj
    BY <1>10, <2>1
    DEF ReconcileStatefulSet, ApplyObject, Answer, ReturnError, NextReplicaset, Goto
  <2> QED
    BY <1>9, <2>1, <2>3, <2>4 DEF Steps
<1>11. CASE ReconcileIngress
  <2>1. step = "ingress"
    BY <1>11 DEF ReconcileIngress
  <2>2. CASE ~tier.ingress.enabled
    BY <1>2, <1>11, <2>1, <2>2, QuietStep DEF ReconcileIngress, Goto, apiVars
  <2>3. CASE tier.ingress.enabled
    <3> DEFINE k == IngressKey(tier)
               built == buildIngress(cluster.spec, tier)
    <3>1. \/ Applied(k, built)
             /\ (ClearLocals \/ (step' = "tierstatus" /\ UNCHANGED <<cluster, ti>>))
          \/ ClearLocals /\ UNCHANGED obj
      BY <1>11, <2>3 DEF ReconcileIngress, ApplyObject, Answer, ReturnError, Goto
    <3> QED
      BY <1>3, <1>4, <1>9, <2>1, <3>1 DEF Steps
  <2> QED
    BY <2>2, <2>3
<1> QED
  BY <1>6, <1>7, <1>8, <1>10, <1>11
LEMMA WorkerDeps ==
    ASSUME TypeOK, FirstLife,
           \/ FetchCluster \/ ListExtraStatefulSets \/ CleanupDone
           \/ CollectTierStatus \/ ReconcilePlugins \/ CallFails
    PROVE  FirstLife'
<1>1. UNCHANGED <<cr, crCache, crWatch, obj>>
  BY DEF FetchCluster, ListExtraStatefulSets, ListExtra, CleanupDone, CollectTierStatus,
         ReconcilePlugins, CallFails, apiVars, cacheVars
<1>2. \A s, r : NextTier(s, r) =>
         /\ UNCHANGED cluster
         /\ step' = "configmap" \/ UNCHANGED ti
  BY DEF NextTier
<1>3. CASE FetchCluster
  <2>1. CASE crCache.live
    <3>1. step' = "configmap" /\ cluster' = crCache
      BY <1>3, <2>1 DEF FetchCluster
    <3>2. cr.live
      BY <2>1 DEF FirstLife, NothingBefore
    <3>3. NothingBefore' /\ OneUid'
      BY <1>1, <2>1, <3>1, <3>2 DEF FirstLife, NothingBefore, OneUid
    <3>4. DepsApplied' /\ StsHaveDeps'
      BY <1>1, <3>1 DEF FirstLife, DepsApplied, StsHaveDeps, HasDeps
    <3> QED
      BY <3>3, <3>4 DEF FirstLife
  <2>2. CASE ~crCache.live
    BY <1>1, <1>3, <2>2, QuietStep DEF FetchCluster, localVars
  <2> QED
    BY <2>1, <2>2
<1>4. CASE ListExtraStatefulSets
  BY <1>1, <1>4, QuietStep DEF ListExtraStatefulSets, ListExtra
<1>5. CASE CleanupDone
  BY <1>1, <1>5, QuietStep DEF CleanupDone, Goto
<1>6. CASE CollectTierStatus
  <2>1. /\ step = "tierstatus" /\ UNCHANGED cluster
        /\ step' = "configmap" \/ UNCHANGED ti
    BY <1>2, <1>6 DEF CollectTierStatus
  <2> QED
    BY <1>1, <2>1, QuietStep
<1>7. CASE ReconcilePlugins
  <2>1. /\ step = "plugins" /\ UNCHANGED cluster
        /\ step' = "configmap" \/ UNCHANGED ti
    BY <1>2, <1>7 DEF ReconcilePlugins, Goto
  <2> QED
    BY <1>1, <2>1, QuietStep
<1>8. CASE CallFails
  BY <1>1, <1>8, QuietStep DEF CallFails, ReturnError
<1> QED
  BY <1>3, <1>4, <1>5, <1>6, <1>7, <1>8

LEMMA DeleteDeps ==
    ASSUME TypeOK, FirstLife, DeleteExtraStatefulSet
    PROVE  FirstLife'
<1>1. /\ step = "delete" /\ UNCHANGED <<cr, crCache, crWatch>>
      /\ ClearLocals \/ UNCHANGED <<step, cluster, ti>>
  BY DEF DeleteExtraStatefulSet, cacheVars, Answer, ReturnError
<1>2. PICK i \in extra : WriteObj(StatefulSetKey(tier, i), Absent)
  BY DEF DeleteExtraStatefulSet
<1>3. StatefulSetKey(tier, i) \in StsKeys /\ StsKeys \subseteq Keys
  <2>1. /\ tier.name \in TierNames /\ tier.replicas \in Nat
        /\ i \in (tier.replicas + 1)..MaxReplicas
    BY <1>1, TierFacts, BoundsAssumption DEF TypeOK, LocalTypeOK
  <2>2. i \in 1..MaxReplicas
    BY <2>1, BoundsAssumption
  <2> QED
    BY <2>1, <2>2, TierKeysAreKeys
<1>4. /\ obj'[StatefulSetKey(tier, i)] = Absent
      /\ \A l \in Keys \ {StatefulSetKey(tier, i)} : obj'[l] = obj[l]
  BY <1>2, <1>3, WriteObjEffect DEF TypeOK
<1>5. /\ \A l \in Keys \ StsKeys : obj[l].live => obj'[l].live
      /\ \A l \in Keys : obj'[l].live => obj[l].live /\ obj'[l].owner = obj[l].owner
  BY <1>3, <1>4 DEF Absent
<1>6. \A l \in Keys : obj'[l].live => obj'[l].owner = 0
  BY <1>5 DEF FirstLife, OneUid
<1>7. DepsApplied'
  <2>1. CASE ClearLocals
    BY <2>1 DEF ClearLocals, DepsApplied
  <2>2. CASE UNCHANGED <<step, cluster, ti>>
    <3>1. HasDeps(tier.name) /\ tier.name \in TierNames
      BY <1>1, PassFacts
      DEF FirstLife, DepsApplied, HasDeps, ConfigMapKey, InterconnectKey, ClientKey
    <3>2. HasDeps(tier.name)'
      <4>1. tier' = tier
        BY <2>2 DEF tier
      <4> DEFINE n == tier.name
      <4>2. n \in TierNames /\ HasDeps(n)
        BY <3>1
      <4>3. n' = n
        BY <4>1
      <4>4. \A kind \in {"ConfigMap", "Interconnect", "Client"} : <<kind, n, 0>> \in Keys \ StsKeys
        BY <4>2, DepKeys
      <4> QED
        BY <1>5, <4>2, <4>3, <4>4 DEF HasDeps
    <3> QED
      BY <3>2 DEF DepsApplied, HasDeps, ConfigMapKey, InterconnectKey, ClientKey
  <2> QED
    BY <1>1, <2>1, <2>2
<1> QED
  BY <1>1, <1>3, <1>5, <1>6, <1>7, PassStep

(* A status patch keeps the identity of the resource. *)
LEMMA StatusDeps ==
    ASSUME TypeOK, FirstLife, UpdateStatus \/ UpdateStatusPluginFailed
    PROVE  FirstLife'
<1>1. step # "idle" /\ ClearLocals /\ UNCHANGED <<crCache, obj>>
  BY DEF UpdateStatus, UpdateStatusPluginFailed, cacheVars, Answer, ReturnOk, ReturnError
<1>2. /\ cr.live = TRUE /\ cr.uid = 0
      /\ cr = [f \in ClusterFields |-> cr[f]]
  <2>1. cr.live /\ IsCluster(cr)
    BY <1>1, PassFacts DEF TypeOK, ClusterTypeOK
  <2>2. cr # Absent
    BY <2>1 DEF Absent
  <2> QED
    BY <2>1, <2>2 DEF IsCluster, FirstLife, OneUid
<1>3. CASE UNCHANGED <<cr, crWatch>>
  BY <1>1, <1>3, QuietStep
<1>4. ASSUME NEW m, WriteCr([cr EXCEPT !.status = m]) PROVE FirstLife'
  <2> DEFINE v == [cr EXCEPT !.status = m]
  <2>1. v.live = TRUE /\ v.uid = 0
    BY <1>2 DEF ClusterFields
  <2> HIDE DEF v
  <2>2. cr' = v /\ \A c \in Range(crWatch') : c \in Range(crWatch) \/ c = v
    BY <1>4, WriteCrEffect DEF TypeOK, v
  <2>3. NothingBefore'
    BY <2>1, <2>2 DEF NothingBefore
  <2>4. OneUid'
    BY <1>1, <2>1, <2>2 DEF FirstLife, OneUid, ClearLocals
  <2>5. DepsApplied' /\ StsHaveDeps'
    BY <1>1 DEF FirstLife, DepsApplied, StsHaveDeps, HasDeps, ClearLocals
  <2> QED
    BY <2>3, <2>4, <2>5 DEF FirstLife
<1> QED
  BY <1>3, <1>4 DEF UpdateStatus, UpdateStatusPluginFailed, PatchStatus
(* Deliveries and restarts bring only copies of the one resource. *)
LEMMA ManagerDeps ==
    ASSUME TypeOK, FirstLife, Manager
    PROVE  FirstLife'
<1>1. CASE DeliverCr
  <2>1. crWatch \in Seq(Range(crWatch)) /\ crWatch # <<>>
    BY <1>1 DEF DeliverCr, TypeOK, ClusterTypeOK, IsWatch
  <2>2. crCache' \in Range(crWatch) /\ Range(crWatch') \subseteq Range(crWatch)
    BY <1>1, <2>1, TailWatch DEF DeliverCr
  <2>3. UNCHANGED <<cr, obj, step, cluster, ti>>
    BY <1>1 DEF DeliverCr, localVars
  <2>4. NothingBefore' /\ OneUid'
    BY <2>2, <2>3 DEF FirstLife, NothingBefore, OneUid
  <2>5. DepsApplied' /\ StsHaveDeps'
    BY <2>3 DEF FirstLife, DepsApplied, StsHaveDeps, HasDeps, tier
  <2> QED
    BY <2>4, <2>5 DEF FirstLife
<1>2. ASSUME NEW k \in Keys, DeliverObj(k) PROVE FirstLife'
  BY <1>2, QuietStep DEF DeliverObj, localVars
<1>3. CASE RequeueAfterElapses
  BY <1>3, QuietStep DEF RequeueAfterElapses, apiVars, cacheVars, localVars
<1>4. CASE Restart
  <2>1. crCache' = cr /\ crWatch' = <<>> /\ ClearLocals /\ UNCHANGED <<cr, obj>>
    BY <1>4 DEF Restart
  <2>2. Range(crWatch') = {}
    BY <2>1, EmptyWatch, BoundsAssumption
  <2>3. NothingBefore' /\ OneUid'
    BY <2>1, <2>2 DEF FirstLife, NothingBefore, OneUid, ClearLocals
  <2>4. DepsApplied' /\ StsHaveDeps'
    BY <2>1 DEF FirstLife, DepsApplied, StsHaveDeps, HasDeps, ClearLocals
  <2> QED
    BY <2>3, <2>4 DEF FirstLife
<1> QED
  BY <1>1, <1>2, <1>3, <1>4 DEF Manager

(* The first resource gets uid 0, and editing it keeps the uid. *)
LEMMA UserDeps ==
    ASSUME TypeOK, FirstLife, spent["deletes"] = 0, CreateCluster \/ EditCluster
    PROVE  FirstLife'
<1>1. UNCHANGED <<obj, crCache, step, cluster, ti>>
  BY DEF CreateCluster, EditCluster, cacheVars, localVars
<1>2. PICK v : WriteCr(v) /\ v.live = TRUE /\ v.uid = 0
  <2>1. CASE CreateCluster
    <3>1. PICK s \in Specs : WriteCr([live |-> TRUE, uid |-> spent["deletes"], spec |-> s,
                                      status |-> NoStatus])
      BY <2>1 DEF CreateCluster
    <3> QED
      BY <3>1
  <2>2. CASE EditCluster
    <3>1. PICK s \in Specs : WriteCr([cr EXCEPT !.spec = s])
      BY <2>2 DEF EditCluster
    <3>2. cr.live /\ cr # Absent
      BY <2>2 DEF EditCluster, Absent
    <3>3. cr = [f \in ClusterFields |-> cr[f]] /\ cr.live = TRUE /\ cr.uid = 0
      BY <3>2 DEF TypeOK, ClusterTypeOK, IsCluster, FirstLife, OneUid
    <3>4. [cr EXCEPT !.spec = s].live = TRUE /\ [cr EXCEPT !.spec = s].uid = 0
      BY <3>3 DEF ClusterFields
    <3> QED
      BY <3>1, <3>4
  <2> QED
    BY <2>1, <2>2
<1>3. cr' = v /\ \A c \in Range(crWatch') : c \in Range(crWatch) \/ c = v
  BY <1>2, WriteCrEffect DEF TypeOK
<1>4. NothingBefore' /\ OneUid'
  BY <1>1, <1>2, <1>3 DEF FirstLife, NothingBefore, OneUid
<1>5. DepsApplied' /\ StsHaveDeps'
  BY <1>1 DEF FirstLife, DepsApplied, StsHaveDeps, HasDeps, tier
<1> QED
  BY <1>4, <1>5 DEF FirstLife

(* The garbage collector has nothing to do, and the StatefulSet controller *)
(* changes only how many pods are ready.                                   *)
LEMMA KubernetesDeps ==
    ASSUME TypeOK, FirstLife, Kubernetes
    PROVE  FirstLife'
<1>1. UNCHANGED <<cr, crCache, crWatch, step, cluster, ti>>
  BY DEF Kubernetes, CollectGarbage, StatefulSetController, RollPods, PodBecomesReady,
         PodRetires, PodFails, PodsVanish, apiVars, cacheVars, localVars
<1>2. ASSUME NEW k \in Keys, CollectGarbage(k) PROVE FALSE
  <2>1. obj[k].live /\ ~(cr.live /\ cr.uid = obj[k].owner)
    BY <1>2 DEF CollectGarbage
  <2>2. cr.live /\ cr.uid = 0 /\ obj[k].owner = 0
    BY <2>1 DEF FirstLife, NothingBefore, OneUid
  <2> QED
    BY <2>1, <2>2
<1>3. ASSUME NEW k \in Keys, obj[k].live, NEW n, SetReady(k, n) PROVE FirstLife'
  <2>1. obj[k] = [f \in ObjectFields |-> obj[k][f]] /\ obj[k].live = TRUE
    <3>1. obj[k] # Absent /\ IsObject(k, obj[k])
      BY <1>3 DEF Absent, TypeOK, ObjectTypeOK
    <3> QED
      BY <3>1 DEF IsObject
  <2>2. /\ obj'[k] = [obj[k] EXCEPT !.ready = n]
        /\ \A l \in Keys \ {k} : obj'[l] = obj[l]
    BY <1>3, WriteObjEffect DEF SetReady, TypeOK
  <2>3. obj'[k].live = TRUE /\ obj'[k].owner = obj[k].owner
    BY <2>1, <2>2 DEF ObjectFields
  <2>4. \A l \in Keys : /\ obj'[l].live <=> obj[l].live
                        /\ obj'[l].owner = obj[l].owner
    BY <1>3, <2>2, <2>3
  <2>5. NothingBefore' /\ OneUid'
    BY <1>1, <2>4 DEF FirstLife, NothingBefore, OneUid
  <2>6. StsHaveDeps'
    <3> SUFFICES ASSUME NEW l \in StsKeys, obj'[l].live PROVE HasDeps(l[2])'
      BY DEF StsHaveDeps
    <3>1. l \in Keys /\ l[2] \in TierNames
      BY DEF Keys, StsKeys
    <3>2. HasDeps(l[2])
      BY <2>4, <3>1 DEF FirstLife, StsHaveDeps
    <3> QED
      BY <2>4, <3>1, <3>2, DepsStay
  <2>7. DepsApplied'
    <3>1. step = "idle" \/ (/\ ConfigMapKey(tier) \in Keys /\ InterconnectKey(tier) \in Keys
                            /\ ClientKey(tier) \in Keys)
      BY PassFacts, TierKeysAreKeys
    <3>2. tier' = tier
      BY <1>1 DEF tier
    <3> QED
      BY <1>1, <2>4, <3>1, <3>2 DEF FirstLife, DepsApplied
  <2> QED
    BY <2>5, <2>6, <2>7 DEF FirstLife
<1>4. ASSUME NEW k \in StsKeys, StatefulSetController(k) \/ PodFails(k) PROVE FirstLife'
  <2>1. k \in Keys
    BY DEF Keys
  <2>2. CASE PodsVanish(k)
    BY <1>1, <2>2, QuietStep DEF PodsVanish, apiVars
  <2>3. CASE RollPods(k) \/ PodBecomesReady(k) \/ PodRetires(k) \/ PodFails(k)
    BY <1>3, <2>1, <2>3 DEF RollPods, PodBecomesReady, PodRetires, PodFails
  <2> QED
    BY <1>4, <2>2, <2>3 DEF StatefulSetController
<1> QED
  BY <1>2, <1>4 DEF Kubernetes

-----------------------------------------------------------------------------
(* Only DeleteCluster uses up the budget of deletions. *)
LEMMA DeletesKept ==
    ASSUME TypeOK, Next, ~DeleteCluster
    PROVE  spent'["deletes"] = spent["deletes"]
<1>1. /\ Spend("faults") => spent'["deletes"] = spent["deletes"]
      /\ Spend("crashes") => spent'["deletes"] = spent["deletes"]
      /\ Spend("edits") => spent'["deletes"] = spent["deletes"]
      /\ Spend("losses") => spent'["deletes"] = spent["deletes"]
  BY SpendEffect DEF TypeOK, Budgets
<1>2. CASE Reconcile
  BY <1>1, <1>2
  DEF Reconcile, FetchCluster, ReconcileConfigMap, ReconcileInterconnect, ReconcileClient,
      ReconcileStatefulSet, ListExtraStatefulSets, ListExtra, DeleteExtraStatefulSet,
      CleanupDone, ReconcileIngress, CollectTierStatus, ReconcilePlugins, UpdateStatus,
      UpdateStatusPluginFailed, CallFails, ApplyObject, Answer
<1>3. CASE Manager
  BY <1>1, <1>3 DEF Manager, DeliverCr, DeliverObj, RequeueAfterElapses, Restart
<1>4. CASE User
  BY <1>1, <1>4 DEF User, CreateCluster, EditCluster
<1>5. CASE Kubernetes
  BY <1>1, <1>5 DEF Kubernetes, CollectGarbage, StatefulSetController, RollPods,
     PodBecomesReady, PodRetires, PodFails, PodsVanish
<1> QED
  BY <1>2, <1>3, <1>4, <1>5 DEF Next

(* DepsInv is an inductive invariant. *)
LEMMA DepsInvHolds == Spec => []DepsInv
<1>1. Init => (spent["deletes"] = 0 => FirstLife)
  <2> SUFFICES ASSUME Init PROVE FirstLife
    OBVIOUS
  <2>1. Range(crWatch) = {}
    BY EmptyWatch, BoundsAssumption DEF Init
  <2>2. \A k \in Keys : ~obj[k].live
    BY DEF Init, Absent
  <2>3. NothingBefore /\ OneUid
    BY <2>1, <2>2 DEF Init, NothingBefore, OneUid, Absent
  <2>4. DepsApplied /\ StsHaveDeps
    BY <2>2 DEF Init, DepsApplied, StsHaveDeps, Keys
  <2> QED
    BY <2>3, <2>4 DEF FirstLife
<1>2. TypeOK /\ (spent["deletes"] = 0 => FirstLife) /\ [Next]_vars
        => (spent["deletes"] = 0 => FirstLife)'
  <2> SUFFICES ASSUME TypeOK, spent["deletes"] = 0 => FirstLife, [Next]_vars,
                      spent'["deletes"] = 0
               PROVE  FirstLife'
    OBVIOUS
  <2>1. CASE DeleteCluster
    BY <2>1, SpendEffect DEF DeleteCluster, TypeOK
  <2>2. CASE Next /\ ~DeleteCluster
    <3>1. spent["deletes"] = 0 /\ FirstLife
      BY <2>2, DeletesKept
    <3>2. CASE Reconcile
      BY <3>1, <3>2, ApplyDeps, WorkerDeps, DeleteDeps, StatusDeps DEF Reconcile
    <3>3. CASE User
      BY <2>2, <3>1, <3>3, UserDeps DEF User
    <3> QED
      BY <2>2, <3>1, <3>2, <3>3, ManagerDeps, KubernetesDeps DEF Next
  <2>3. CASE UNCHANGED vars
    <3>1. FirstLife /\ UNCHANGED <<cr, crCache, crWatch, obj, step, cluster, ti>>
      BY <2>3 DEF vars, apiVars, cacheVars, localVars
    <3> QED
      BY <3>1, QuietStep
  <2> QED
    BY <2>1, <2>2, <2>3
<1> QED
  BY <1>1, <1>2, TypeCorrect, PTL DEF Spec, DepsInv

(* Whatever the specs, the failures and the restarts: until the resource   *)
(* is deleted, no step of the reconciler, and no interleaving with users   *)
(* and Kubernetes, leaves a StatefulSet without its ConfigMap, its         *)
(* headless Service and its client Service (reconcileTier's order of       *)
(* calls, and its early returns).                                          *)
THEOREM StatefulSetsHaveDeps == Spec => []StsAfterDeps
<1>1. DepsInv => StsAfterDeps
  BY DEF DepsInv, FirstLife, StsHaveDeps, HasDeps, StsAfterDeps
<1> QED
  BY <1>1, DepsInvHolds, PTL

-----------------------------------------------------------------------------
(* Which replicasets go away.                                              *)

(* What a pass deletes, the spec it works for gives up. *)
LEMMA OnlyExtraDeleted ==
    ASSUME TypeOK, DeleteExtraStatefulSet, NEW k \in StsKeys, obj[k].live, ~obj'[k].live
    PROVE  cluster.live /\ GivesUp(cluster.spec, k)
<1>1. step = "delete"
  BY DEF DeleteExtraStatefulSet
<1>2. PICK i \in extra : WriteObj(StatefulSetKey(tier, i), Absent)
  BY DEF DeleteExtraStatefulSet
<1>3. /\ cluster.spec \in Specs /\ tier.name \in TierNames
      /\ tier.replicas \in Nat /\ i \in (tier.replicas + 1)..MaxReplicas
      /\ ti \in 1..Len(cluster.spec.tiers) /\ cluster.live
  BY <1>1, TierFacts, BoundsAssumption DEF TypeOK, LocalTypeOK
<1>4. i \in 1..MaxReplicas /\ i > tier.replicas
  BY <1>3, BoundsAssumption
<1>5. k \in Keys /\ StatefulSetKey(tier, i) \in Keys
  BY <1>3, <1>4, TierKeysAreKeys
<1>6. k = StatefulSetKey(tier, i)
  BY <1>2, <1>5, WriteObjEffect DEF TypeOK
<1>7. k[2] = tier.name /\ k[3] = i
  BY <1>6 DEF StatefulSetKey
<1>8. ti \in DOMAIN cluster.spec.tiers
  BY <1>3, SpecsAssumption DEF ValidSpec, ValidTier
<1> QED
  BY <1>3, <1>4, <1>7, <1>8 DEF GivesUp, tier

(* Applying a child takes none away. *)
LEMMA ApplyTakesNone ==
    ASSUME TypeOK,
           \/ ReconcileConfigMap \/ ReconcileInterconnect \/ ReconcileClient
           \/ ReconcileStatefulSet \/ ReconcileIngress,
           NEW k \in Keys, obj[k].live
    PROVE  obj'[k].live
<1>1. step # "idle"
  BY DEF ReconcileConfigMap, ReconcileInterconnect, ReconcileClient, ReconcileStatefulSet,
         ReconcileIngress
<1>2. /\ tier.name \in TierNames /\ tier.replicas \in 1..MaxReplicas
      /\ rsIndex \in 1..tier.replicas
  BY <1>1, TierFacts DEF TypeOK, LocalTypeOK
<1>3. rsIndex \in 1..MaxReplicas
  BY <1>2, BoundsAssumption
<1>4. /\ ConfigMapKey(tier) \in Keys /\ InterconnectKey(tier) \in Keys
      /\ ClientKey(tier) \in Keys /\ IngressKey(tier) \in Keys
      /\ StatefulSetKey(tier, rsIndex) \in Keys
  BY <1>2, <1>3, TierKeysAreKeys
<1>5. UNCHANGED obj \/ \E l \in Keys : \E built : Applied(l, built)
  BY <1>4
  DEF ReconcileConfigMap, ReconcileInterconnect, ReconcileClient, ReconcileStatefulSet,
      ReconcileIngress, ApplyObject, apiVars
<1>6. ASSUME NEW l \in Keys, NEW built, Applied(l, built) PROVE obj'[k].live
  BY <1>6, AppliedEffect DEF TypeOK
<1> QED
  BY <1>5, <1>6

(* The StatefulSet controller changes counts, the garbage collector takes  *)
(* only what has lost its owner.                                           *)
LEMMA KubernetesTakesOrphans ==
    ASSUME TypeOK, Kubernetes, NEW k \in Keys, obj[k].live, ~obj'[k].live
    PROVE  ~(cr.live /\ obj[k].owner = cr.uid)
<1>2. ASSUME NEW l \in Keys, CollectGarbage(l) PROVE ~(cr.live /\ obj[k].owner = cr.uid)
  <2>1. obj'[l] = Absent /\ \A m \in Keys \ {l} : obj'[m] = obj[m]
    BY <1>2, WriteObjEffect DEF CollectGarbage, TypeOK
  <2>2. k = l
    BY <2>1
  <2> QED
    BY <1>2, <2>2 DEF CollectGarbage
<1>3. ASSUME NEW l \in Keys, obj[l].live, NEW n, SetReady(l, n) PROVE obj'[k].live
  <2>1. obj[l] = [f \in ObjectFields |-> obj[l][f]] /\ obj[l].live = TRUE
    <3>1. obj[l] # Absent /\ IsObject(l, obj[l])
      BY <1>3 DEF Absent, TypeOK, ObjectTypeOK
    <3> QED
      BY <3>1 DEF IsObject
  <2>2. /\ obj'[l] = [obj[l] EXCEPT !.ready = n]
        /\ \A m \in Keys \ {l} : obj'[m] = obj[m]
    BY <1>3, WriteObjEffect DEF SetReady, TypeOK
  <2>3. obj'[l].live = TRUE
    BY <2>1, <2>2 DEF ObjectFields
  <2> QED
    BY <2>2, <2>3
<1>4. ASSUME NEW l \in StsKeys, StatefulSetController(l) \/ PodFails(l) PROVE FALSE
  <2>1. l \in Keys
    BY DEF Keys
  <2>2. CASE PodsVanish(l)
    BY <2>2 DEF PodsVanish, apiVars
  <2>3. CASE RollPods(l) \/ PodBecomesReady(l) \/ PodRetires(l) \/ PodFails(l)
    BY <1>3, <2>1, <2>3 DEF RollPods, PodBecomesReady, PodRetires, PodFails
  <2> QED
    BY <1>4, <2>2, <2>3 DEF StatefulSetController
<1> QED
  BY <1>2, <1>4 DEF Kubernetes

(* Why ReplicasetKept holds: what a version of the resource gives up is    *)
(* remembered when it is submitted, and every copy, in the cache, on its   *)
(* way to it or held by the running pass, was the resource once.           *)
Remembered(c) == c.live => \A k \in StsKeys : GivesUp(c.spec, k) => k \in givenUp

HistoryInv ==
    /\ Remembered(cr) /\ Remembered(crCache) /\ Remembered(cluster)
    /\ \A c \in Range(crWatch) : Remembered(c)

(* Where the copies of the resource come from. *)
CopiesMove ==
    /\ crCache' \in {crCache, cr} \cup Range(crWatch)
    /\ cluster' \in {cluster, crCache, Absent}
    /\ Range(crWatch') \subseteq Range(crWatch) \cup {cr'}

LEMMA CopiesOfCopies ==
    ASSUME TypeOK, [Next]_vars
    PROVE  CopiesMove
<1>1. crWatch \in Seq(Range(crWatch)) /\ Range(<<>>) = {}
  BY EmptyWatch DEF TypeOK, ClusterTypeOK, IsWatch
<1>2. ASSUME NEW v, WriteCr(v) PROVE Range(crWatch') \subseteq Range(crWatch) \cup {cr'}
  BY <1>1, <1>2, AppendWatch DEF WriteCr
<1>3. CASE Reconcile
  <2>1. crCache' = crCache
    BY <1>3
    DEF Reconcile, FetchCluster, ReconcileConfigMap, ReconcileInterconnect, ReconcileClient,
        ReconcileStatefulSet, ListExtraStatefulSets, ListExtra, DeleteExtraStatefulSet,
        CleanupDone, ReconcileIngress, CollectTierStatus, ReconcilePlugins, UpdateStatus,
        UpdateStatusPluginFailed, CallFails, ApplyObject, cacheVars
  <2>2. cluster' \in {cluster, crCache, Absent}
    BY <1>3
    DEF Reconcile, FetchCluster, ReconcileConfigMap, ReconcileInterconnect, ReconcileClient,
        ReconcileStatefulSet, ListExtraStatefulSets, ListExtra, DeleteExtraStatefulSet,
        CleanupDone, ReconcileIngress, CollectTierStatus, ReconcilePlugins, UpdateStatus,
        UpdateStatusPluginFailed, CallFails, ApplyObject, Answer, ReturnError, ReturnOk,
        ClearLocals, Goto, NextReplicaset, NextTier, localVars
  <2>3. Range(crWatch') \subseteq Range(crWatch) \cup {cr'}
    <3>1. CASE UpdateStatus \/ UpdateStatusPluginFailed
      BY <1>2, <3>1 DEF UpdateStatus, UpdateStatusPluginFailed, PatchStatus
    <3>2. CASE ~(UpdateStatus \/ UpdateStatusPluginFailed)
      BY <1>3, <3>2
      DEF Reconcile, FetchCluster, ReconcileConfigMap, ReconcileInterconnect, ReconcileClient,
          ReconcileStatefulSet, ListExtraStatefulSets, ListExtra, DeleteExtraStatefulSet,
          CleanupDone, ReconcileIngress, CollectTierStatus, ReconcilePlugins,
          CallFails, ApplyObject, apiVars
    <3> QED
      BY <3>1, <3>2
  <2> QED
    BY <2>1, <2>2, <2>3 DEF CopiesMove
<1>4. CASE DeliverCr
  BY <1>1, <1>4, TailWatch DEF DeliverCr, CopiesMove, localVars
<1>5. CASE Restart
  BY <1>1, <1>5 DEF Restart, ClearLocals, CopiesMove
<1>6. CASE (\E k \in Keys : DeliverObj(k)) \/ RequeueAfterElapses
  BY <1>6 DEF DeliverObj, RequeueAfterElapses, CopiesMove, apiVars, cacheVars, localVars
<1>7. CASE User
  BY <1>2, <1>7
  DEF User, CreateCluster, EditCluster, DeleteCluster, CopiesMove, cacheVars, localVars
<1>8. CASE Kubernetes
  BY <1>8
  DEF Kubernetes, CollectGarbage, StatefulSetController, RollPods, PodBecomesReady,
      PodRetires, PodsVanish, PodFails, CopiesMove, apiVars, cacheVars, localVars
<1>9. CASE UNCHANGED vars
  BY <1>9 DEF vars, CopiesMove, apiVars, cacheVars, localVars
<1> QED
  BY <1>3, <1>4, <1>5, <1>6, <1>7, <1>8, <1>9 DEF Next, Manager

(* What a step submits is remembered, and nothing is forgotten. *)
LEMMA SubmittedIsRemembered ==
    ASSUME TypeOK, [Next]_vars
    PROVE  /\ givenUp \subseteq givenUp'
           /\ \/ ~cr'.live
              \/ cr.live /\ cr'.spec = cr.spec
              \/ \A k \in StsKeys : GivesUp(cr'.spec, k) => k \in givenUp'
<1>1. ASSUME NEW v, WriteCr(v) PROVE cr' = v
  BY <1>1 DEF WriteCr
<1>2. ASSUME cr.live
      PROVE  /\ \A s : [cr EXCEPT !.spec = s].spec = s
             /\ \A s : [cr EXCEPT !.status = s].spec = cr.spec
  <2>1. cr # Absent
    BY <1>2 DEF Absent
  <2>2. cr = [f \in ClusterFields |-> cr[f]]
    BY <2>1 DEF TypeOK, ClusterTypeOK, IsCluster
  <2> QED
    BY <2>2 DEF ClusterFields
<1>3. CASE CreateCluster
  BY <1>1, <1>3 DEF CreateCluster, Remember
<1>4. CASE EditCluster
  BY <1>1, <1>2, <1>4 DEF EditCluster, Remember
<1>5. CASE DeleteCluster
  BY <1>1, <1>5 DEF DeleteCluster, Absent
<1>6. CASE UpdateStatus \/ UpdateStatusPluginFailed
  <2>1. givenUp' = givenUp
    BY <1>6 DEF UpdateStatus, UpdateStatusPluginFailed
  <2>2. cr' = cr \/ (cr.live /\ \E s : cr' = [cr EXCEPT !.status = s])
    BY <1>1, <1>6 DEF UpdateStatus, UpdateStatusPluginFailed, PatchStatus
  <2> QED
    BY <1>2, <2>1, <2>2
<1>7. CASE UNCHANGED <<cr, givenUp>>
  BY <1>7
<1>8. CASE Reconcile /\ ~(UpdateStatus \/ UpdateStatusPluginFailed)
  <2>1. UNCHANGED <<cr, givenUp>>
    BY <1>8
    DEF Reconcile, FetchCluster, ReconcileConfigMap, ReconcileInterconnect, ReconcileClient,
        ReconcileStatefulSet, ListExtraStatefulSets, ListExtra, DeleteExtraStatefulSet,
        CleanupDone, ReconcileIngress, CollectTierStatus, ReconcilePlugins,
        CallFails, ApplyObject, apiVars
  <2> QED
    BY <1>7, <2>1
<1>9. CASE Manager \/ Kubernetes \/ UNCHANGED vars
  <2>1. UNCHANGED <<cr, givenUp>>
    BY <1>9
    DEF Manager, DeliverCr, DeliverObj, RequeueAfterElapses, Restart, Kubernetes,
        CollectGarbage, StatefulSetController, RollPods, PodBecomesReady, PodRetires,
        PodsVanish, PodFails, vars, apiVars
  <2> QED
    BY <1>7, <2>1
<1> QED
  BY <1>3, <1>4, <1>5, <1>6, <1>8, <1>9 DEF Next, User

LEMMA HistoryStep ==
    ASSUME TypeOK, HistoryInv, [Next]_vars
    PROVE  HistoryInv'
<1>1. givenUp \subseteq givenUp' /\ CopiesMove
  BY SubmittedIsRemembered, CopiesOfCopies
<1> DEFINE RememberedNext(c) ==
              c.live => \A k \in StsKeys : GivesUp(c.spec, k) => k \in givenUp'
<1>2. ASSUME NEW c, Remembered(c) PROVE RememberedNext(c)
  BY <1>1, <1>2 DEF Remembered
<1>3. RememberedNext(cr')
  <2>1. RememberedNext(cr)
    BY <1>2 DEF HistoryInv
  <2> QED
    BY <2>1, SubmittedIsRemembered
<1>4. RememberedNext(Absent)
  BY DEF Absent
<1>5. /\ RememberedNext(crCache') /\ RememberedNext(cluster')
      /\ \A c \in Range(crWatch') : RememberedNext(c)
  <2>1. /\ RememberedNext(cr) /\ RememberedNext(crCache) /\ RememberedNext(cluster)
        /\ \A c \in Range(crWatch) : RememberedNext(c)
    BY <1>2 DEF HistoryInv
  <2> HIDE DEF RememberedNext
  <2> QED
    BY <1>1, <1>3, <1>4, <2>1 DEF CopiesMove
<1> QED
  BY <1>3, <1>5 DEF HistoryInv, Remembered

LEMMA HistoryInvHolds == Spec => [](TypeOK /\ HistoryInv)
<1>1. Init => HistoryInv
  BY EmptyWatch DEF Init, HistoryInv, Remembered, Absent
<1> QED
  BY <1>1, HistoryStep, TypeCorrect, PTL DEF Spec

(* From however stale a cache and a spec deleteExtraStatefulSets works,    *)
(* and wherever a pass is cut short: a replicaset of the existing resource *)
(* goes away only if a spec that was submitted gives it up.                *)
THEOREM ReplicasetsKept == Spec => ReplicasetKept
<1> DEFINE Kept == \A k \in StsKeys :
                      /\ obj[k].live /\ ~obj'[k].live
                      /\ cr.live /\ obj[k].owner = cr.uid
                      => k \in givenUp
<1>1. TypeOK /\ HistoryInv /\ [Next]_vars => Kept
  <2> SUFFICES ASSUME TypeOK, HistoryInv, [Next]_vars, NEW k \in StsKeys,
                      obj[k].live, ~obj'[k].live, cr.live, obj[k].owner = cr.uid
               PROVE  k \in givenUp
    OBVIOUS
  <2>1. k \in Keys
    BY DEF Keys
  <2>2. obj' # obj
    OBVIOUS
  <2>3. CASE Reconcile
    <3>1. CASE DeleteExtraStatefulSet
      BY <3>1, OnlyExtraDeleted DEF HistoryInv, Remembered
    <3>2. CASE \/ ReconcileConfigMap \/ ReconcileInterconnect \/ ReconcileClient
               \/ ReconcileStatefulSet \/ ReconcileIngress
      BY <2>1, <3>2, ApplyTakesNone
    <3>3. CASE \/ FetchCluster \/ ListExtraStatefulSets \/ CleanupDone \/ CollectTierStatus
               \/ ReconcilePlugins \/ UpdateStatus \/ UpdateStatusPluginFailed \/ CallFails
      BY <2>2, <3>3
      DEF FetchCluster, ListExtraStatefulSets, ListExtra, CleanupDone, CollectTierStatus,
          ReconcilePlugins, UpdateStatus, UpdateStatusPluginFailed, CallFails, apiVars
    <3> QED
      BY <2>3, <3>1, <3>2, <3>3 DEF Reconcile
  <2>4. CASE Manager \/ User
    BY <2>2, <2>4
    DEF Manager, DeliverCr, DeliverObj, RequeueAfterElapses, Restart, User, CreateCluster,
        EditCluster, DeleteCluster, apiVars
  <2>5. CASE Kubernetes
    BY <2>1, <2>5, KubernetesTakesOrphans
  <2>6. CASE UNCHANGED vars
    BY <2>2, <2>6 DEF vars, apiVars
  <2> QED
    BY <2>3, <2>4, <2>5, <2>6 DEF Next
<1>2. Spec => [][Kept]_vars
  BY <1>1, HistoryInvHolds, PTL DEF Spec
<1> QED
  BY <1>2 DEF ReplicasetKept
=============================================================================
