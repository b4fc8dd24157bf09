---------------------- MODULE ReconcilerRefinementProofs ----------------------
(***************************************************************************)
(* Reconciler implements ClusterLifecycle, for every value of its          *)
(* constants.                                                              *)
(*                                                                         *)
(* Every step changes at most one child, which is all that is promised     *)
(* after a deletion.  Before one the garbage collector has nothing to do   *)
(* (DepsInv), so children appear and disappear by the hand of the running  *)
(* pass only, and what the abstract specification asks of a new child is   *)
(* what the pass has applied before it: the dependencies (DepsApplied) and *)
(* the replicasets below (ReplicasetsApplied).                             *)
(***************************************************************************)
EXTENDS ReconcilerRefinement, ReconcilerProofs

(* The pass starts a tier with replicaset 1, and the replicasets that it   *)
(* has been through are there.                                             *)
ReplicasetsApplied ==
    /\ step \in {"configmap", "interconnect", "client"} => rsIndex = 1
    /\ step = "statefulset" =>
          \A j \in 1..(rsIndex - 1) : obj[StatefulSetKey(tier, j)].live
    /\ step \in {"cleanup", "delete", "ingress"} =>
          \A j \in 1..tier.replicas : obj[StatefulSetKey(tier, j)].live

OrderInv == DepsInv /\ (spent["deletes"] = 0 => ReplicasetsApplied)

-----------------------------------------------------------------------------
(* Which objects a step touches.                                           *)

(* Where the running pass is. *)
LEMMA PassBounds ==
    ASSUME TypeOK, step # "idle"
    PROVE  /\ tier.name \in TierNames
           /\ rsIndex \in 1..tier.replicas /\ tier.replicas \in 1..MaxReplicas
           /\ rsIndex \in 1..MaxReplicas
           /\ \A j \in 1..tier.replicas : StatefulSetKey(tier, j) \in Keys
<1>1. /\ tier.name \in TierNames /\ tier.replicas \in 1..MaxReplicas
      /\ rsIndex \in 1..tier.replicas
  BY TierFacts DEF TypeOK, LocalTypeOK
<1>2. 1..tier.replicas \subseteq 1..MaxReplicas
  BY <1>1, BoundsAssumption
<1> QED
  BY <1>1, <1>2, TierKeysAreKeys

(* Only child k may have changed. *)
OnlyChanged(k) == \A l \in Keys \ {k} : obj'[l] = obj[l]

(* The children change by that child, or not at all. *)
LEMMA OneChild ==
    ASSUME NEW k \in Keys, OnlyChanged(k)
    PROVE  \/ Children' = Children
           \/ ~obj[k].live /\ obj'[k].live /\ Children' = Children \cup {k}
           \/ obj[k].live /\ ~obj'[k].live /\ Children' = Children \ {k}
<1>1. CASE obj[k].live /\ ~obj'[k].live
  BY <1>1 DEF Children, OnlyChanged
<1>2. CASE ~obj[k].live /\ obj'[k].live
  BY <1>2 DEF Children, OnlyChanged
<1>3. CASE obj[k].live <=> obj'[k].live
  BY <1>3 DEF Children, OnlyChanged
<1> QED
  BY <1>1, <1>2, <1>3

(* The child that an action of the pass applies. *)
LEMMA ApplyTouches ==
    ASSUME TypeOK, obj' # obj
    PROVE  /\ ReconcileConfigMap => OnlyChanged(ConfigMapKey(tier))
           /\ ReconcileInterconnect => OnlyChanged(InterconnectKey(tier))
           /\ ReconcileClient => OnlyChanged(ClientKey(tier))
           /\ ReconcileStatefulSet => OnlyChanged(StatefulSetKey(tier, rsIndex))
           /\ ReconcileIngress => OnlyChanged(IngressKey(tier))
<1>1. ASSUME NEW k \in Keys, NEW built, Applied(k, built) PROVE OnlyChanged(k)
  BY <1>1, AppliedEffect DEF TypeOK, OnlyChanged
<1>2. step # "idle" =>
        /\ ConfigMapKey(tier) \in Keys /\ InterconnectKey(tier) \in Keys
        /\ ClientKey(tier) \in Keys /\ IngressKey(tier) \in Keys
        /\ StatefulSetKey(tier, rsIndex) \in Keys
  BY PassBounds, TierKeysAreKeys
<1>3. ReconcileConfigMap => OnlyChanged(ConfigMapKey(tier))
  BY <1>1, <1>2 DEF ReconcileConfigMap, ApplyObject
<1>4. ReconcileInterconnect => OnlyChanged(InterconnectKey(tier))
  BY <1>1, <1>2 DEF ReconcileInterconnect, ApplyObject
<1>5. ReconcileClient => OnlyChanged(ClientKey(tier))
  BY <1>1, <1>2 DEF ReconcileClient, ApplyObject
<1>6. ReconcileStatefulSet => OnlyChanged(StatefulSetKey(tier, rsIndex))
  BY <1>1, <1>2 DEF ReconcileStatefulSet, ApplyObject
<1>7. ReconcileIngress => OnlyChanged(IngressKey(tier))
  BY <1>1, <1>2 DEF ReconcileIngress, ApplyObject, apiVars
<1> QED
  BY <1>3, <1>4, <1>5, <1>6, <1>7

(* The child that is deleted is beyond the tier's replicasets. *)
LEMMA DeleteTouches ==
    ASSUME TypeOK, DeleteExtraStatefulSet
    PROVE  \E i \in (tier.replicas + 1)..MaxReplicas :
              StatefulSetKey(tier, i) \in StsKeys /\ OnlyChanged(StatefulSetKey(tier, i))
<1>1. step = "delete"
  BY DEF DeleteExtraStatefulSet
<1>2. PICK i \in extra : WriteObj(StatefulSetKey(tier, i), Absent)
  BY DEF DeleteExtraStatefulSet
<1>3. i \in (tier.replicas + 1)..MaxReplicas
  BY <1>1 DEF TypeOK, LocalTypeOK
<1>4. i \in 1..MaxReplicas
  BY <1>1, <1>3, PassBounds, BoundsAssumption
<1>5. StatefulSetKey(tier, i) \in StsKeys /\ StsKeys \subseteq Keys
  BY <1>1, <1>4, PassBounds, TierKeysAreKeys
<1>6. OnlyChanged(StatefulSetKey(tier, i))
  BY <1>2, <1>5, WriteObjEffect DEF TypeOK, OnlyChanged
<1> QED
  BY <1>3, <1>5, <1>6

(* Every step changes at most one child. *)
LEMMA OneAtATime ==
    ASSUME TypeOK, [Next]_vars, obj' # obj
    PROVE  \E k \in Keys : OnlyChanged(k)
<1>1. CASE \/ ReconcileConfigMap \/ ReconcileInterconnect \/ ReconcileClient
           \/ ReconcileStatefulSet \/ ReconcileIngress
  <2>1. step # "idle"
    BY <1>1 DEF ReconcileConfigMap, ReconcileInterconnect, ReconcileClient,
                ReconcileStatefulSet, ReconcileIngress
  <2> QED
    BY <1>1, <2>1, ApplyTouches, PassBounds, TierKeysAreKeys
<1>2. CASE DeleteExtraStatefulSet
  <2>1. StsKeys \subseteq Keys
    BY DEF Keys
  <2> QED
    BY <1>2, <2>1, DeleteTouches
<1>3. CASE Kubernetes
  <2>1. ASSUME NEW k \in Keys, NEW v, WriteObj(k, v) PROVE OnlyChanged(k)
    BY <2>1, WriteObjEffect DEF TypeOK, OnlyChanged
  <2>2. PICK k \in Keys : \E v : WriteObj(k, v)
    <3>1. StsKeys \subseteq Keys
      BY DEF Keys
    <3> QED
      BY <1>3, <3>1
      DEF Kubernetes, CollectGarbage, StatefulSetController, RollPods, PodBecomesReady,
          PodRetires, PodFails, PodsVanish, SetReady, apiVars
  <2> QED
    BY <2>1, <2>2
<1>4. CASE Manager \/ User \/ UNCHANGED vars
  BY <1>4
  DEF Manager, DeliverCr, DeliverObj, RequeueAfterElapses, Restart, User, CreateCluster,
      EditCluster, DeleteCluster, vars, apiVars
<1>5. CASE \/ FetchCluster \/ ListExtraStatefulSets \/ CleanupDone \/ CollectTierStatus
           \/ ReconcilePlugins \/ UpdateStatus \/ UpdateStatusPluginFailed \/ CallFails
  BY <1>5
  DEF FetchCluster, ListExtraStatefulSets, ListExtra, CleanupDone, CollectTierStatus,
      ReconcilePlugins, UpdateStatus, UpdateStatusPluginFailed, CallFails, apiVars
<1> QED
  BY <1>1, <1>2, <1>3, <1>4, <1>5 DEF Next, Reconcile
-----------------------------------------------------------------------------
(* OrderInv is inductive.                                                  *)

(* While there has been one resource only, nothing but the deletion of     *)
(* extra replicasets takes a child away.                                   *)
LEMMA ChildrenStay ==
    ASSUME TypeOK, FirstLife, [Next]_vars, ~DeleteExtraStatefulSet,
           NEW k \in Keys, obj[k].live
    PROVE  obj'[k].live
<1>1. CASE \/ ReconcileConfigMap \/ ReconcileInterconnect \/ ReconcileClient
           \/ ReconcileStatefulSet \/ ReconcileIngress
  BY <1>1, ApplyTakesNone
<1>2. CASE Kubernetes
  <2>1. cr.live /\ obj[k].owner = cr.uid
    BY DEF FirstLife, NothingBefore, OneUid
  <2> QED
    BY <1>2, <2>1, KubernetesTakesOrphans
<1>3. CASE Manager \/ User \/ UNCHANGED vars
  BY <1>3
  DEF Manager, DeliverCr, DeliverObj, RequeueAfterElapses, Restart, User, CreateCluster,
      EditCluster, DeleteCluster, vars, apiVars
<1>4. CASE \/ FetchCluster \/ ListExtraStatefulSets \/ CleanupDone \/ CollectTierStatus
           \/ ReconcilePlugins \/ UpdateStatus \/ UpdateStatusPluginFailed \/ CallFails
  BY <1>4
  DEF FetchCluster, ListExtraStatefulSets, ListExtra, CleanupDone, CollectTierStatus,
      ReconcilePlugins, UpdateStatus, UpdateStatusPluginFailed, CallFails, apiVars
<1> QED
  BY <1>1, <1>2, <1>3, <1>4 DEF Next, Reconcile

(* The end of a pass, and the start of a tier, promise nothing. *)
LEMMA FreshOrder ==
    /\ ClearLocals => ReplicasetsApplied'
    /\ step' = "configmap" /\ rsIndex' = 1 => ReplicasetsApplied'
    /\ step' \in {"tierstatus", "plugins", "pluginfailed", "status"} => ReplicasetsApplied'
  BY DEF ClearLocals, ReplicasetsApplied

(* Steps that stay at their place in the tier and take nothing away. *)
LEMMA StayingOrder ==
    ASSUME TypeOK, ReplicasetsApplied, UNCHANGED <<step, cluster, ti, rsIndex>>,
           \A k \in Keys : obj[k].live => obj'[k].live
    PROVE  ReplicasetsApplied'
<1>1. CASE step = "idle"
  BY <1>1 DEF ReplicasetsApplied
<1>2. CASE step # "idle"
  <2>1. /\ \A j \in 1..tier.replicas : StatefulSetKey(tier, j) \in Keys
        /\ rsIndex \in 1..tier.replicas /\ tier.replicas \in Nat
    BY <1>2, PassBounds, BoundsAssumption
  <2>2. tier' = tier
    BY DEF tier
  <2>3. \A j \in 1..(rsIndex - 1) : j \in 1..tier.replicas
    BY <2>1
  <2> QED
    BY <2>1, <2>2, <2>3 DEF ReplicasetsApplied
<1> QED
  BY <1>1, <1>2

LEMMA ApplyOrder ==
    ASSUME TypeOK, FirstLife, ReplicasetsApplied, [Next]_vars,
           \/ ReconcileConfigMap \/ ReconcileInterconnect \/ ReconcileClient
           \/ ReconcileStatefulSet \/ ReconcileIngress
    PROVE  ReplicasetsApplied'
<1>1. step # "idle" /\ step # "delete"
  BY DEF ReconcileConfigMap, ReconcileInterconnect, ReconcileClient, ReconcileStatefulSet,
         ReconcileIngress
<1>2. \A k \in Keys : obj[k].live => obj'[k].live
  BY <1>1, ChildrenStay DEF DeleteExtraStatefulSet
<1>3. /\ \A j \in 1..tier.replicas : StatefulSetKey(tier, j) \in Keys
      /\ rsIndex \in 1..tier.replicas /\ tier.replicas \in Nat
  BY <1>1, PassBounds, BoundsAssumption
<1>4. CASE ClearLocals
  BY <1>4, FreshOrder
<1>5. CASE ReconcileConfigMap /\ ~ClearLocals
  <2>1. step = "configmap" /\ step' = "interconnect" /\ rsIndex' = rsIndex
    BY <1>5 DEF ReconcileConfigMap, ApplyObject, Answer, ReturnError, Goto
  <2> QED
    BY <2>1 DEF ReplicasetsApplied
<1>6. CASE ReconcileInterconnect /\ ~ClearLocals
  <2>1. step = "interconnect" /\ step' = "client" /\ rsIndex' = rsIndex
    BY <1>6 DEF ReconcileInterconnect, ApplyObject, Answer, ReturnError, Goto
  <2> QED
    BY <2>1 DEF ReplicasetsApplied
<1>7. CASE ReconcileClient /\ ~ClearLocals
  <2>1. step = "client" /\ step' = "statefulset" /\ rsIndex' = rsIndex
    BY <1>7 DEF ReconcileClient, ApplyObject, Answer, ReturnError, Goto
  <2>2. rsIndex' = 1
    BY <2>1 DEF ReplicasetsApplied
  <2> QED
    BY <2>1, <2>2 DEF ReplicasetsApplied
<1>8. CASE ReconcileStatefulSet /\ ~ClearLocals
  <2> DEFINE k == StatefulSetKey(tier, rsIndex)
  <2>1. step = "statefulset" /\ NextReplicaset /\ \E built : Applied(k, built)
    BY <1>8 DEF ReconcileStatefulSet, ApplyObject, Answer, ReturnError
  <2>2. obj'[k].live
    BY <1>3, <2>1, AppliedEffect DEF TypeOK
  <2>3. \A j \in 1..rsIndex : obj'[StatefulSetKey(tier, j)].live
    <3>1. \A j \in 1..(rsIndex - 1) :
             j \in 1..tier.replicas /\ obj[StatefulSetKey(tier, j)].live
      BY <1>3, <2>1 DEF ReplicasetsApplied
    <3>2. \A j \in 1..(rsIndex - 1) : obj'[StatefulSetKey(tier, j)].live
      BY <1>2, <1>3, <3>1
    <3>3. \A j \in 1..rsIndex : j \in 1..(rsIndex - 1) \/ j = rsIndex
      BY <1>3
    <3> QED
      BY <2>2, <3>2, <3>3
  <2>4. tier' = tier
    BY <2>1 DEF NextReplicaset, Goto, tier
  <2>5. CASE rsIndex < tier.replicas
    <3>1. step' = "statefulset" /\ rsIndex' = rsIndex + 1
      BY <2>1, <2>5 DEF NextReplicaset
    <3>2. rsIndex' - 1 = rsIndex
      BY <1>3, <3>1
    <3> QED
      BY <2>3, <2>4, <3>1, <3>2 DEF ReplicasetsApplied
  <2>6. CASE ~(rsIndex < tier.replicas)
    <3>1. step' = "cleanup" /\ rsIndex = tier.replicas
      BY <1>3, <2>1, <2>6 DEF NextReplicaset, Goto
    <3> QED
      BY <2>3, <2>4, <3>1 DEF ReplicasetsApplied
  <2> QED
    BY <2>5, <2>6
<1>9. CASE ReconcileIngress /\ ~ClearLocals
  <2>1. step' = "tierstatus"
    BY <1>9 DEF ReconcileIngress, ApplyObject, Answer, ReturnError, Goto
  <2> QED
    BY <2>1, FreshOrder
<1> QED
  BY <1>4, <1>5, <1>6, <1>7, <1>8, <1>9

LEMMA DeleteOrder ==
    ASSUME TypeOK, ReplicasetsApplied, DeleteExtraStatefulSet
    PROVE  ReplicasetsApplied'
<1>1. step = "delete"
  BY DEF DeleteExtraStatefulSet
<1>2. ClearLocals \/ UNCHANGED <<step, cluster, ti, rsIndex>>
  BY DEF DeleteExtraStatefulSet, Answer, ReturnError
<1>3. PICK i \in (tier.replicas + 1)..MaxReplicas : OnlyChanged(StatefulSetKey(tier, i))
  BY DeleteTouches
<1>4. /\ \A j \in 1..tier.replicas : StatefulSetKey(tier, j) \in Keys
      /\ tier.replicas \in Nat
  BY <1>1, PassBounds, BoundsAssumption
<1>5. \A j \in 1..tier.replicas : StatefulSetKey(tier, j) # StatefulSetKey(tier, i)
  <2>1. \A j \in 1..tier.replicas : j # i
    BY <1>3, <1>4, BoundsAssumption
  <2> QED
    BY <2>1 DEF StatefulSetKey
<1>6. \A j \in 1..tier.replicas : obj'[StatefulSetKey(tier, j)].live
  BY <1>1, <1>3, <1>4, <1>5 DEF OnlyChanged, ReplicasetsApplied
<1>7. CASE ClearLocals
  BY <1>7, FreshOrder
<1>8. CASE UNCHANGED <<step, cluster, ti, rsIndex>>
  <2>1. tier' = tier
    BY <1>8 DEF tier
  <2> QED
    BY <1>1, <1>6, <1>8, <2>1 DEF ReplicasetsApplied
<1> QED
  BY <1>2, <1>7, <1>8

(* The steps of the pass that apply nothing. *)
LEMMA WorkerOrder ==
    ASSUME TypeOK, ReplicasetsApplied,
           \/ FetchCluster \/ ListExtraStatefulSets \/ CleanupDone \/ CollectTierStatus
           \/ ReconcilePlugins \/ UpdateStatus \/ UpdateStatusPluginFailed \/ CallFails
    PROVE  ReplicasetsApplied'
<1>1. UNCHANGED obj
  BY DEF FetchCluster, ListExtraStatefulSets, ListExtra, CleanupDone, CollectTierStatus,
         ReconcilePlugins, UpdateStatus, UpdateStatusPluginFailed, CallFails, apiVars
<1>2. CASE UpdateStatus \/ UpdateStatusPluginFailed \/ CallFails
  <2>1. ClearLocals
    BY <1>2 DEF UpdateStatus, UpdateStatusPluginFailed, CallFails, Answer, ReturnOk, ReturnError
  <2> QED
    BY <2>1, FreshOrder
<1>3. CASE FetchCluster
  <2>1. CASE crCache.live
    BY <1>3, <2>1, FreshOrder DEF FetchCluster
  <2>2. CASE ~crCache.live
    BY <1>1, <1>3, <2>2, StayingOrder DEF FetchCluster, localVars
  <2> QED
    BY <2>1, <2>2
<1>4. CASE ListExtraStatefulSets \/ CleanupDone
  <2>1. /\ step \in {"cleanup", "delete"} /\ step' \in {"delete", "ingress"}
        /\ UNCHANGED <<cluster, ti>>
    BY <1>4 DEF ListExtraStatefulSets, ListExtra, CleanupDone, Goto
  <2>2. tier' = tier
    BY <2>1 DEF tier
  <2> QED
    BY <1>1, <2>1, <2>2 DEF ReplicasetsApplied
<1>5. CASE CollectTierStatus \/ ReconcilePlugins
  <2>1. \/ step' = "configmap" /\ rsIndex' = 1
        \/ step' \in {"plugins", "pluginfailed", "status"}
    BY <1>5 DEF CollectTierStatus, ReconcilePlugins, NextTier, Goto
  <2> QED
    BY <2>1, FreshOrder
<1> QED
  BY <1>2, <1>3, <1>4, <1>5

LEMMA OrderInvHolds == Spec => []OrderInv
<1>1. Init => ReplicasetsApplied
  BY DEF Init, ReplicasetsApplied
<1>2. /\ DepsInv /\ (spent["deletes"] = 0 => ReplicasetsApplied) /\ [Next]_vars
      => (spent["deletes"] = 0 => ReplicasetsApplied)'
  <2> SUFFICES ASSUME DepsInv, spent["deletes"] = 0 => ReplicasetsApplied, [Next]_vars,
                      spent'["deletes"] = 0
               PROVE  ReplicasetsApplied'
    OBVIOUS
  <2>1. TypeOK
    BY DEF DepsInv
  <2>2. CASE DeleteCluster
    BY <2>1, <2>2, SpendEffect DEF DeleteCluster, TypeOK
  <2>3. CASE ~DeleteCluster
    <3>1. spent["deletes"] = 0
      <4>1. CASE Next
        BY <2>1, <2>3, <4>1, DeletesKept
      <4>2. CASE UNCHANGED vars
        BY <4>2 DEF vars
      <4> QED
        BY <4>1, <4>2
    <3>2. FirstLife /\ ReplicasetsApplied
      BY <3>1 DEF DepsInv
    <3>3. CASE Reconcile
      BY <2>1, <3>2, <3>3, ApplyOrder, DeleteOrder, WorkerOrder DEF Reconcile
    <3>4. CASE Restart
      BY <3>4, FreshOrder DEF Restart
    <3>5. CASE User \/ Kubernetes \/ (Manager /\ ~Restart) \/ UNCHANGED vars
      <4>1. UNCHANGED <<step, cluster, ti, rsIndex>>
        BY <3>5
        DEF User, CreateCluster, EditCluster, DeleteCluster, Kubernetes, CollectGarbage,
            StatefulSetController, RollPods, PodBecomesReady, PodRetires, PodFails,
            PodsVanish, Manager, DeliverCr, DeliverObj, RequeueAfterElapses, vars, localVars
      <4>2. CASE DeleteExtraStatefulSet
        BY <2>1, <3>2, <4>2, DeleteOrder
      <4>3. CASE ~DeleteExtraStatefulSet
        BY <2>1, <3>2, <4>1, <4>3, ChildrenStay, StayingOrder
      <4> QED
        BY <4>2, <4>3
    <3> QED
      BY <3>3, <3>4, <3>5 DEF Next, Manager
  <2> QED
    BY <2>2, <2>3
<1> QED
  BY <1>1, <1>2, DepsInvHolds, PTL DEF Spec, OrderInv
-----------------------------------------------------------------------------
(* Steps map to steps.                                                     *)

(* A change of the children of a deleted resource. *)
LEMMA DissolveStep ==
    ASSUME Phase = "deleted", Phase' = "deleted", NEW k \in Keys, OnlyChanged(k)
    PROVE  Lifecycle!Dissolve \/ Children' = Children
<1>1. PICK kind \in {"ConfigMap", "Interconnect", "Client", "StatefulSet", "Ingress"},
           t \in TierNames, i \in 0..MaxReplicas : k = <<kind, t, i>>
  BY BoundsAssumption DEF Keys, StsKeys
<1>2. kind \in Lifecycle!Dependencies \cup {"StatefulSet", "Ingress"}
  BY DEF Lifecycle!Dependencies
<1>3. CASE Children' # Children
  <2>1. Children' = Children \cup {<<kind, t, i>>} \/ Children' = Children \ {<<kind, t, i>>}
    BY <1>1, <1>3, OneChild
  <2> QED
    BY <1>2, <1>3, <2>1 DEF Lifecycle!Dissolve
<1> QED
  BY <1>3

(* What a pass changes among the children of a living resource. *)
LEMMA EvolveStep ==
    ASSUME TypeOK, FirstLife, ReplicasetsApplied, Reconcile, Phase = "live", Phase' = "live",
           Children' # Children
    PROVE  Lifecycle!Evolve
<1>1. obj' # obj
  BY DEF Children
<1>2. \/ ReconcileConfigMap \/ ReconcileInterconnect \/ ReconcileClient
      \/ ReconcileStatefulSet \/ ReconcileIngress \/ DeleteExtraStatefulSet
  BY <1>1
  DEF Reconcile, FetchCluster, ListExtraStatefulSets, ListExtra, CleanupDone,
      CollectTierStatus, ReconcilePlugins, UpdateStatus, UpdateStatusPluginFailed, CallFails,
      apiVars
<1>3. step # "idle"
  BY <1>2 DEF ReconcileConfigMap, ReconcileInterconnect, ReconcileClient,
              ReconcileStatefulSet, ReconcileIngress, DeleteExtraStatefulSet
<1>4. /\ tier.name \in TierNames
      /\ rsIndex \in 1..tier.replicas /\ tier.replicas \in 1..MaxReplicas
      /\ rsIndex \in 1..MaxReplicas
      /\ \A j \in 1..tier.replicas : StatefulSetKey(tier, j) \in Keys
      /\ ConfigMapKey(tier) \in Keys /\ InterconnectKey(tier) \in Keys
      /\ ClientKey(tier) \in Keys /\ IngressKey(tier) \in Keys
  BY <1>3, PassBounds, TierKeysAreKeys
<1>5. ASSUME ~DeleteExtraStatefulSet, NEW k \in Keys, OnlyChanged(k)
      PROVE  Children' = Children \cup {k}
  <2>1. obj[k].live => obj'[k].live
    BY <1>5, ChildrenStay DEF Next
  <2> QED
    BY <1>5, <2>1, OneChild
<1>6. CASE ReconcileConfigMap \/ ReconcileInterconnect \/ ReconcileClient
  <2>1. ~DeleteExtraStatefulSet
    BY <1>6 DEF ReconcileConfigMap, ReconcileInterconnect, ReconcileClient,
                DeleteExtraStatefulSet
  <2>2. \/ Children' = Children \cup {<<"ConfigMap", tier.name, 0>>}
        \/ Children' = Children \cup {<<"Interconnect", tier.name, 0>>}
        \/ Children' = Children \cup {<<"Client", tier.name, 0>>}
    BY <1>1, <1>4, <1>5, <1>6, <2>1, ApplyTouches
    DEF ConfigMapKey, InterconnectKey, ClientKey
  <2>3. Lifecycle!CreateForTier
    BY <1>4, <2>2 DEF Lifecycle!CreateForTier, Lifecycle!Dependencies
  <2> QED
    BY <2>3 DEF Lifecycle!Evolve
<1>7. CASE ReconcileStatefulSet
  <2>1. step = "statefulset"
    BY <1>7 DEF ReconcileStatefulSet
  <2>2. Children' = Children \cup {<<"StatefulSet", tier.name, rsIndex>>}
    BY <1>1, <1>4, <1>5, <1>7, <2>1, ApplyTouches DEF DeleteExtraStatefulSet, StatefulSetKey
  <2>3. /\ <<"ConfigMap", tier.name, 0>> \in Children
        /\ <<"Interconnect", tier.name, 0>> \in Children
        /\ <<"Client", tier.name, 0>> \in Children
    BY <1>4, <2>1
    DEF FirstLife, DepsApplied, Children, ConfigMapKey, InterconnectKey, ClientKey
  <2>4. \A j \in 1..(rsIndex - 1) : <<"StatefulSet", tier.name, j>> \in Children
    <3>1. \A j \in 1..(rsIndex - 1) : j \in 1..tier.replicas
      BY <1>4, BoundsAssumption
    <3> QED
      BY <1>4, <2>1, <3>1 DEF ReplicasetsApplied, Children, StatefulSetKey
  <2>5. Lifecycle!CreateReplicaset
    <3>1. \A kind \in Lifecycle!Dependencies : <<kind, tier.name, 0>> \in Children
      BY <2>3 DEF Lifecycle!Dependencies
    <3> QED
      BY <1>4, <2>2, <2>4, <3>1 DEF Lifecycle!CreateReplicaset
  <2> QED
    BY <2>5 DEF Lifecycle!Evolve
<1>8. CASE ReconcileIngress
  <2>1. step = "ingress"
    BY <1>8 DEF ReconcileIngress
  <2>2. Children' = Children \cup {<<"Ingress", tier.name, 0>>}
    BY <1>1, <1>4, <1>5, <1>8, <2>1, ApplyTouches DEF DeleteExtraStatefulSet, IngressKey
  <2>3. <<"StatefulSet", tier.name, 1>> \in Children
    <3>1. 1 \in 1..tier.replicas
      BY <1>4, BoundsAssumption
    <3> QED
      BY <1>4, <2>1, <3>1 DEF ReplicasetsApplied, Children, StatefulSetKey
  <2>4. Lifecycle!CreateIngress
    BY <1>4, <2>2, <2>3 DEF Lifecycle!CreateIngress
  <2> QED
    BY <2>4 DEF Lifecycle!Evolve
<1>9. CASE DeleteExtraStatefulSet
  <2>1. PICK i \in (tier.replicas + 1)..MaxReplicas :
           StatefulSetKey(tier, i) \in StsKeys /\ OnlyChanged(StatefulSetKey(tier, i))
    BY <1>9, DeleteTouches
  <2> DEFINE k == StatefulSetKey(tier, i)
  <2>2. k \in Keys
    BY <2>1 DEF Keys
  <2>3. obj'[k].live => obj[k].live
    <3>1. PICK l \in Keys : obj'[l] = Absent /\ OnlyChanged(l)
      <4>1. PICK m \in extra : WriteObj(StatefulSetKey(tier, m), Absent)
        BY <1>9 DEF DeleteExtraStatefulSet
      <4>2. m \in (tier.replicas + 1)..MaxReplicas
        BY <1>3 DEF TypeOK, LocalTypeOK
      <4>3. m \in 1..MaxReplicas
        BY <1>4, <4>2, BoundsAssumption
      <4>4. StatefulSetKey(tier, m) \in Keys
        BY <1>4, <4>3, TierKeysAreKeys
      <4> QED
        BY <4>1, <4>4, WriteObjEffect DEF TypeOK, OnlyChanged
    <3> QED
      BY <2>2, <3>1 DEF OnlyChanged, Absent
  <2>4. Children' = Children \ {<<"StatefulSet", tier.name, i>>}
    BY <2>1, <2>2, <2>3, OneChild DEF StatefulSetKey
  <2>5. <<tier.name, i>> \in Retirable
    <3>1. i \in 1..MaxReplicas /\ i > tier.replicas
      BY <1>4, <2>1, BoundsAssumption
    <3>2. cluster.spec \in Specs /\ ti \in DOMAIN cluster.spec.tiers
      <4>1. cluster.spec \in Specs /\ ti \in 1..Len(cluster.spec.tiers)
        BY <1>3, TierFacts DEF TypeOK, LocalTypeOK
      <4> QED
        BY <4>1, SpecsAssumption DEF ValidSpec
    <3> QED
      BY <1>4, <3>1, <3>2 DEF Retirable, tier
  <2>6. Lifecycle!RetireReplicaset
    BY <2>4, <2>5 DEF Lifecycle!RetireReplicaset
  <2> QED
    BY <2>6 DEF Lifecycle!Evolve
<1> QED
  BY <1>2, <1>6, <1>7, <1>8, <1>9
(* Edits and status patches leave the resource in existence. *)
LEMMA ResourceKept ==
    ASSUME TypeOK, [Next]_vars, ~CreateCluster, ~DeleteCluster
    PROVE  cr'.live <=> cr.live
<1>1. ASSUME cr.live, NEW m, WriteCr([cr EXCEPT !.status = m]) \/ WriteCr([cr EXCEPT !.spec = m])
      PROVE  cr'.live
  <2>1. cr # Absent /\ IsCluster(cr)
    BY <1>1 DEF Absent, TypeOK, ClusterTypeOK
  <2>2. cr = [f \in ClusterFields |-> cr[f]] /\ cr.live = TRUE
    BY <2>1 DEF IsCluster
  <2>3. [cr EXCEPT !.status = m].live = TRUE /\ [cr EXCEPT !.spec = m].live = TRUE
    BY <2>2 DEF ClusterFields
  <2>4. cr' = [cr EXCEPT !.status = m] \/ cr' = [cr EXCEPT !.spec = m]
    BY <1>1, WriteCrEffect DEF TypeOK
  <2> QED
    BY <2>3, <2>4
<1>2. CASE UNCHANGED cr
  BY <1>2
<1>3. CASE UpdateStatus \/ UpdateStatusPluginFailed
  <2>1. \/ UNCHANGED cr
        \/ cr.live /\ \E m : WriteCr([cr EXCEPT !.status = m])
    BY <1>3 DEF UpdateStatus, UpdateStatusPluginFailed, PatchStatus
  <2> QED
    BY <1>1, <2>1
<1>4. CASE EditCluster
  BY <1>1, <1>4 DEF EditCluster
<1>5. CASE Reconcile /\ ~UpdateStatus /\ ~UpdateStatusPluginFailed
  BY <1>2, <1>5
  DEF Reconcile, FetchCluster, ReconcileConfigMap, ReconcileInterconnect, ReconcileClient,
      ReconcileStatefulSet, ListExtraStatefulSets, ListExtra, DeleteExtraStatefulSet,
      CleanupDone, ReconcileIngress, CollectTierStatus, ReconcilePlugins, CallFails,
      ApplyObject, apiVars
<1>6. CASE Manager \/ Kubernetes \/ UNCHANGED vars
  BY <1>2, <1>6
  DEF Manager, DeliverCr, DeliverObj, RequeueAfterElapses, Restart, Kubernetes,
      CollectGarbage, StatefulSetController, RollPods, PodBecomesReady, PodRetires, PodFails,
      PodsVanish, vars, apiVars
<1> QED
  BY <1>3, <1>4, <1>5, <1>6 DEF Next, User

(* A step while there has been one resource at most. *)
LEMMA FirstLifeStep ==
    ASSUME OrderInv, [Next]_vars, spent["deletes"] = 0
    PROVE  Lifecycle!Next \/ UNCHANGED <<Phase, Children>>
<1>1. TypeOK /\ FirstLife /\ ReplicasetsApplied
  BY DEF OrderInv, DepsInv
<1>2. CASE DeleteCluster
  <2>1. cr.live /\ UNCHANGED Children /\ spent'["deletes"] > 0
    <3>1. spent["deletes"] \in Nat /\ "deletes" \in Budgets /\ spent \in [Budgets -> Nat]
      BY <1>1 DEF TypeOK, SpentTypeOK, Budgets
    <3>2. spent' = [spent EXCEPT !["deletes"] = 1]
      BY <1>2, <3>1 DEF DeleteCluster, Spend
    <3> QED
      BY <1>2, <3>1, <3>2 DEF DeleteCluster, Children
  <2>2. Phase = "live" /\ Phase' = "deleted"
    BY <2>1 DEF Phase
  <2> QED
    BY <2>1, <2>2 DEF Lifecycle!Next, Lifecycle!Delete
<1>3. CASE CreateCluster
  <2>1. PICK v : WriteCr(v) /\ v.live = TRUE
    BY <1>3 DEF CreateCluster
  <2>2. ~cr.live /\ cr'.live /\ UNCHANGED Children /\ UNCHANGED spent
    BY <1>1, <1>3, <2>1, WriteCrEffect DEF CreateCluster, Children, TypeOK
  <2>3. Phase = "none" /\ Phase' = "live"
    BY <2>2 DEF Phase
  <2> QED
    BY <2>2, <2>3 DEF Lifecycle!Next, Lifecycle!Submit
<1>4. CASE ~DeleteCluster /\ ~CreateCluster
  <2>1. UNCHANGED Phase
    <3>1. spent'["deletes"] = spent["deletes"]
      BY <1>1, <1>4, DeletesKept DEF vars
    <3> QED
      BY <1>1, <1>4, <3>1, ResourceKept DEF Phase
  <2>2. CASE Reconcile /\ Children' # Children
    <3>1. Phase = "live"
      <4>1. step # "idle"
        BY <2>2
        DEF Reconcile, FetchCluster, CallFails, ReconcileConfigMap, ReconcileInterconnect,
            ReconcileClient, ReconcileStatefulSet, ListExtraStatefulSets, ListExtra,
            DeleteExtraStatefulSet, CleanupDone, ReconcileIngress, CollectTierStatus,
            ReconcilePlugins, UpdateStatus, UpdateStatusPluginFailed, apiVars, Children
      <4>2. cr.live
        BY <1>1, <4>1, PassFacts
      <4> QED
        BY <4>2 DEF Phase
    <3> QED
      BY <1>1, <2>1, <2>2, <3>1, EvolveStep DEF Lifecycle!Next
  <2>3. CASE Kubernetes
    <3>1. \A k \in Keys : obj'[k].live => obj[k].live
      <4>1. ASSUME NEW k \in Keys, NEW v, WriteObj(k, v), obj[k].live
            PROVE  \A l \in Keys : obj'[l].live => obj[l].live
        BY <1>1, <4>1, WriteObjEffect DEF TypeOK
      <4>2. StsKeys \subseteq Keys
        BY DEF Keys
      <4> QED
        BY <2>3, <4>1, <4>2
        DEF Kubernetes, CollectGarbage, StatefulSetController, RollPods, PodBecomesReady,
            PodRetires, PodFails, PodsVanish, SetReady, apiVars
    <3>2. \A k \in Keys : obj[k].live => obj'[k].live
      <4>1. ASSUME NEW k \in Keys, obj[k].live, ~obj'[k].live PROVE FALSE
        <5>1. cr.live /\ obj[k].owner = cr.uid
          BY <1>1, <4>1 DEF FirstLife, NothingBefore, OneUid
        <5> QED
          BY <1>1, <2>3, <4>1, <5>1, KubernetesTakesOrphans
      <4> QED
        BY <4>1
    <3> QED
      BY <2>1, <3>1, <3>2 DEF Children
  <2>4. CASE Manager \/ User \/ UNCHANGED vars
    <3>1. UNCHANGED obj
      BY <2>4
      DEF Manager, DeliverCr, DeliverObj, RequeueAfterElapses, Restart, User, CreateCluster,
          EditCluster, DeleteCluster, vars, apiVars
    <3> QED
      BY <2>1, <3>1 DEF Children
  <2> QED
    BY <2>1, <2>2, <2>3, <2>4 DEF Next
<1> QED
  BY <1>2, <1>3, <1>4

(* A step after a deletion. *)
LEMMA LaterStep ==
    ASSUME OrderInv, [Next]_vars, spent["deletes"] # 0
    PROVE  Lifecycle!Next \/ UNCHANGED <<Phase, Children>>
<1>1. TypeOK /\ spent["deletes"] \in Nat /\ spent["deletes"] > 0
  BY DEF OrderInv, DepsInv, TypeOK, SpentTypeOK, Budgets
<1>2. spent'["deletes"] > 0
  <2>1. CASE DeleteCluster
    <3>1. spent \in [Budgets -> Nat] /\ "deletes" \in Budgets
      BY <1>1 DEF TypeOK, SpentTypeOK, Budgets
    <3>2. spent'["deletes"] = spent["deletes"] + 1
      BY <2>1, <3>1 DEF DeleteCluster, Spend
    <3> QED
      BY <1>1, <3>2
  <2>2. CASE ~DeleteCluster
    <3>1. spent'["deletes"] = spent["deletes"]
      BY <1>1, <2>2, DeletesKept DEF vars
    <3> QED
      BY <1>1, <3>1
  <2> QED
    BY <2>1, <2>2
<1>3. Phase = "deleted" /\ Phase' = "deleted"
  BY <1>1, <1>2 DEF Phase
<1>4. CASE obj' = obj
  BY <1>3, <1>4 DEF Children
<1>5. CASE obj' # obj
  BY <1>1, <1>3, <1>5, OneAtATime, DissolveStep DEF Lifecycle!Next
<1> QED
  BY <1>4, <1>5

(* Whatever the specs, the failures, the stale caches and the restarts:    *)
(* the children of a PicoclusterDB appear in the order of reconcileTier's  *)
(* calls and disappear only as ClusterLifecycle allows, one at a time      *)
(* (property ImplementsLifecycle).                                         *)
THEOREM ReconcilerImplementsLifecycle == Spec => ImplementsLifecycle
<1>1. Init => Lifecycle!Init
  BY DEF Init, Lifecycle!Init, Phase, Children, Absent, Budgets
<1>2. OrderInv /\ [Next]_vars => [Lifecycle!Next]_(Lifecycle!lifecycleVars)
  BY FirstLifeStep, LaterStep DEF Lifecycle!lifecycleVars
<1> QED
  BY <1>1, <1>2, OrderInvHolds, PTL DEF Spec, ImplementsLifecycle, Lifecycle!Spec
===============================================================================
