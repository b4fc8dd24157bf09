----------------------------- MODULE Reconciler -----------------------------
(***************************************************************************)
(* PicoclusterDBReconciler.Reconcile and the world it runs in.             *)
(*                                                                         *)
(*   - the API server: the PicoclusterDB (cr) and its children (obj);      *)
(*   - the manager's informer cache, from which every Get and List of the  *)
(*     reconciler is served.  Each change of an object is delivered later  *)
(*     and in order (crWatch, objWatch), and its delivery enqueues a       *)
(*     request, because the controller watches the resource and Owns its   *)
(*     children;                                                           *)
(*   - one worker, which runs Reconcile one API call at a time;            *)
(*   - the user, the StatefulSet controller, the garbage collector, and    *)
(*     failures: lost calls, lost answers, restarts of the operator.       *)
(*                                                                         *)
(* A cached read and the API call that follows it are one action: any      *)
(* change between the two is a change the cache has not seen yet.          *)
(* The installation of plugins over SQL is one step with two outcomes      *)
(* here; module PluginReconciler has its detail.                           *)
(***************************************************************************)
EXTENDS PicoclusterTypes, FiniteSets, FiniteSetsExt

CONSTANTS
    Specs,       \* the specs the user may submit
    TierNames,   \* the names of their tiers
    MaxReplicas, \* the largest number of replicasets of a tier
    Clock,       \* the values metav1.Now() may return
    Limit,       \* how often users and failures act: see Budgets
    MaxMishaps,  \* how many faults and losses there are, together
    MaxLag       \* how many undelivered events an object may have

Budgets == {"edits", "deletes", "faults", "crashes", "losses"}

(* What the CRD schema enforces (MinItems, Minimum), and that no two tiers *)
(* of a cluster have the same name, which it does not enforce.             *)
ASSUME SpecsAssumption ==
    \A s \in Specs :
        /\ ValidSpec(s)
        /\ \A j \in DOMAIN s.tiers :
              /\ s.tiers[j].name \in TierNames
              /\ s.tiers[j].replicas \in 1..MaxReplicas
              /\ \A l \in DOMAIN s.tiers \ {j} : s.tiers[l].name # s.tiers[j].name

ASSUME BoundsAssumption ==
    /\ MaxReplicas \in Nat \ {0}
    /\ MaxLag \in Nat \ {0}
    /\ Limit \in [Budgets -> Nat]
    /\ MaxMishaps \in Nat

StsKeys == {"StatefulSet"} \X TierNames \X (1..MaxReplicas)
Keys == StsKeys \cup ({"ConfigMap", "Interconnect", "Client", "Ingress"}
                        \X TierNames \X {0})

VARIABLES
    cr, obj,                      \* the API server
    crCache, objCache,            \* the informer cache
    crWatch, objWatch,            \* events on their way to it
    queued, timer,                \* the work queue; a pending RequeueAfter
    step, cluster, ti, rsIndex,   \* the running Reconcile and its locals
    extra, ts, tierStatuses, allReady,
    pods,                         \* what the pods of a StatefulSet run
    givenUp,                      \* replicasets a submitted spec gave up (history)
    spent                         \* how much of each budget is used up

apiVars   == <<cr, obj, crWatch, objWatch>>
cacheVars == <<crCache, objCache>>
queueVars == <<queued, timer>>
localVars == <<step, cluster, ti, rsIndex, extra, ts, tierStatuses, allReady>>
vars == <<apiVars, cacheVars, queueVars, localVars, pods, givenUp, spent>>

Steps == {"idle", "configmap", "interconnect", "client", "statefulset", "cleanup",
          "delete", "ingress", "tierstatus", "plugins", "pluginfailed", "status"}

Absent == [live |-> FALSE]
NoStatus == [phase |-> "", tiers |-> <<>>, conditions |-> <<>>]
NoTier == <<>>

Init ==
    /\ cr = Absent /\ crCache = Absent /\ crWatch = <<>>
    /\ obj = [k \in Keys |-> Absent]
    /\ objCache = obj
    /\ objWatch = [k \in Keys |-> <<>>]
    /\ queued = FALSE /\ timer = FALSE
    /\ step = "idle" /\ cluster = Absent /\ ti = 0 /\ rsIndex = 0
    /\ extra = {} /\ ts = NoTier /\ tierStatuses = <<>> /\ allReady = TRUE
    /\ pods = [k \in StsKeys |-> Absent]
    /\ givenUp = {}
    /\ spent = [b \in Budgets |-> 0]

Spend(b) ==
    /\ spent[b] < Limit[b]
    /\ spent' = [spent EXCEPT ![b] = @ + 1]
    /\ spent'["faults"] + spent'["losses"] <= MaxMishaps

-----------------------------------------------------------------------------
(* The API server.  A write that changes nothing produces no event.        *)

WriteObj(k, v) ==
    IF v = obj[k]
    THEN UNCHANGED <<obj, objWatch>>
    ELSE /\ Len(objWatch[k]) < MaxLag
         /\ obj' = [obj EXCEPT ![k] = v]
         /\ objWatch' = [objWatch EXCEPT ![k] = Append(@, v)]

WriteCr(v) ==
    IF v = cr
    THEN UNCHANGED <<cr, crWatch>>
    ELSE /\ Len(crWatch) < MaxLag
         /\ cr' = v
         /\ crWatch' = Append(crWatch, v)

(* client.MergeFrom(base): a merge patch holds the fields in which the     *)
(* wanted value differs from the CACHED object, and leaves the others as   *)
(* they are on the server.  The API server fills in defaults of container  *)
(* fields that the builder leaves out, so containers always differ.        *)
Defaulted == {"containers"}

MergePatch(stored, base, want) ==
    [f \in DOMAIN want |->
        IF f \notin Defaulted /\ base[f] = want[f] THEN stored[f] ELSE want[f]]

NewObject(k, built) ==
    [live |-> TRUE, mut |-> built.mut, fixed |-> built.fixed,
     owner |-> cluster.uid, ready |-> 0]

(* The API server rejects a StatefulSet whose selector does not match its  *)
(* template's labels, and the selector cannot change.                      *)
Invalid(k, o) == k[1] = "StatefulSet" /\ o.mut.labels # o.fixed.selector

-----------------------------------------------------------------------------
(* The control flow of Reconcile.                                          *)

tier == cluster.spec.tiers[ti]

ClearLocals ==
    /\ step' = "idle" /\ cluster' = Absent /\ ti' = 0 /\ rsIndex' = 0
    /\ extra' = {} /\ ts' = NoTier /\ tierStatuses' = <<>> /\ allReady' = TRUE

(* Mutant of ReturnError: the error is logged and dropped. *)
ReturnErrorDropped == ClearLocals /\ UNCHANGED queueVars

(* return ctrl.Result{}, err: the controller requeues the request. *)
ReturnError == ClearLocals /\ queued' = TRUE /\ UNCHANGED timer

(* return ctrl.Result{}, nil *)
ReturnOk == ClearLocals /\ UNCHANGED queueVars

(* The answer to a call that took effect: it arrives, or it is lost and    *)
(* the caller sees an error.                                               *)
Answer(Continue) ==
    \/ Continue /\ UNCHANGED spent
    \/ Spend("faults") /\ ReturnError

Goto(s) ==
    /\ step' = s
    /\ UNCHANGED <<queueVars, cluster, ti, rsIndex, extra, ts, tierStatuses, allReady>>

(* reconcileConfigMap, reconcileService, reconcileStatefulSet and          *)
(* reconcileIngress have one shape: Get from the cache, Create if it is    *)
(* not there, else Patch.                                                  *)
Patched(k, built) ==
    [obj[k] EXCEPT !.mut = MergePatch(obj[k].mut, objCache[k].mut, built.mut)]

Applied(k, built) ==
    \/ /\ ~objCache[k].live /\ ~obj[k].live
       /\ WriteObj(k, NewObject(k, built))
    \/ /\ objCache[k].live /\ obj[k].live
       /\ ~Invalid(k, Patched(k, built))
       /\ WriteObj(k, Patched(k, built))

(* Create fails if the object exists after all, Patch if it is gone or the *)
(* result is invalid.                                                      *)
Rejected(k, built) ==
    \/ objCache[k].live # obj[k].live
    \/ objCache[k].live /\ obj[k].live /\ Invalid(k, Patched(k, built))

ApplyObject(k, built, Continue) ==
    /\ \/ Applied(k, built) /\ Answer(Continue)
       \/ Rejected(k, built) /\ ReturnError /\ UNCHANGED <<obj, objWatch, spent>>
    /\ UNCHANGED <<cr, crWatch, cacheVars, pods, givenUp>>

(* Mutant of FetchCluster: NotFound is an error like any other. *)
FetchClusterNotFoundFails ==
    /\ step = "idle" /\ queued
    /\ IF crCache.live
       THEN /\ step' = "configmap" /\ cluster' = crCache /\ ti' = 1 /\ rsIndex' = 1
            /\ queued' = FALSE
            /\ UNCHANGED <<extra, ts, tierStatuses, allReady>>
       ELSE UNCHANGED <<localVars, queued>>
    /\ UNCHANGED <<apiVars, cacheVars, timer, pods, givenUp, spent>>

(* Reconcile takes a request off the queue and Gets the PicoclusterDB. *)
FetchCluster ==
    /\ step = "idle" /\ queued
    /\ queued' = FALSE
    /\ IF crCache.live
       THEN /\ step' = "configmap" /\ cluster' = crCache /\ ti' = 1 /\ rsIndex' = 1
            /\ UNCHANGED <<extra, ts, tierStatuses, allReady>>
       ELSE UNCHANGED localVars
    /\ UNCHANGED <<apiVars, cacheVars, timer, pods, givenUp, spent>>

ReconcileConfigMap ==
    /\ step = "configmap"
    /\ ApplyObject(ConfigMapKey(tier), buildConfigMap(cluster.spec, tier), Goto("interconnect"))

ReconcileInterconnect ==
    /\ step = "interconnect"
    /\ ApplyObject(InterconnectKey(tier), buildInterconnectService(cluster.spec, tier),
                   Goto("client"))

ReconcileClient ==
    /\ step = "client"
    /\ ApplyObject(ClientKey(tier), buildClientService(cluster.spec, tier),
                   Goto("statefulset"))

(* Mutant of NextReplicaset: the loop runs once too often. *)
NextReplicasetOneTooMany ==
    IF rsIndex <= tier.replicas
    THEN /\ rsIndex' = rsIndex + 1
         /\ UNCHANGED <<queueVars, step, cluster, ti, extra, ts, tierStatuses, allReady>>
    ELSE Goto("cleanup")

(* One StatefulSet per replicaset, rsIndex = 1, ..., tier.replicas. *)
NextReplicaset ==
    IF rsIndex < tier.replicas
    THEN /\ rsIndex' = rsIndex + 1
         /\ UNCHANGED <<queueVars, step, cluster, ti, extra, ts, tierStatuses, allReady>>
    ELSE Goto("cleanup")

ReconcileStatefulSet ==
    /\ step = "statefulset"
    /\ ApplyObject(StatefulSetKey(tier, rsIndex),
                   buildStatefulSet(cluster.spec, tier, rsIndex, ConfigYAML(cluster.spec, tier)),
                   NextReplicaset)

(* r.List with MatchingLabels(tierLabels): the replicaset indices of the   *)
(* cached StatefulSets of the tier.                                        *)
ListStatefulSets ==
    { i \in 1..MaxReplicas :
        LET cached == objCache[StatefulSetKey(tier, i)]
        IN cached.live /\ cached.mut.labels = replicasetLabels(cluster.spec, tier, i) }

ListExtra(wanted) ==
    /\ step = "cleanup"
    /\ step' = "delete"
    /\ extra' = { i \in ListStatefulSets : i > wanted }
    /\ UNCHANGED <<apiVars, cacheVars, queueVars, cluster, ti, rsIndex, ts,
                   tierStatuses, allReady, pods, givenUp, spent>>

(* Mutant of ListExtraStatefulSets: the index is taken to be 0-based. *)
ListLastStatefulSetToo == ListExtra(tier.replicas - 1)

ListExtraStatefulSets == ListExtra(tier.replicas)

(* Delete; NotFound is ignored. *)
DeleteExtraStatefulSet ==
    /\ step = "delete"
    /\ \E i \in extra :
          /\ WriteObj(StatefulSetKey(tier, i), Absent)
          /\ Answer(/\ extra' = extra \ {i}
                    /\ UNCHANGED <<queueVars, step, cluster, ti, rsIndex, ts,
                                   tierStatuses, allReady>>)
    /\ UNCHANGED <<cr, crWatch, cacheVars, pods, givenUp>>

CleanupDone ==
    /\ step = "delete" /\ extra = {}
    /\ Goto("ingress")
    /\ UNCHANGED <<apiVars, cacheVars, pods, givenUp, spent>>

ReconcileIngress ==
    /\ step = "ingress"
    /\ \/ /\ tier.ingress.enabled
          /\ ApplyObject(IngressKey(tier), buildIngress(cluster.spec, tier), Goto("tierstatus"))
       \/ /\ ~tier.ingress.enabled
          /\ Goto("tierstatus")
          /\ UNCHANGED <<apiVars, cacheVars, pods, givenUp, spent>>

-----------------------------------------------------------------------------
(* Status.                                                                 *)

(* Mutant of NextTier: the loop stops before the last tier. *)
NextTierButLast(s, ready) ==
    /\ tierStatuses' = Append(tierStatuses, s)
    /\ allReady' = IF ready THEN allReady ELSE FALSE
    /\ ts' = NoTier
    /\ IF ti < Len(cluster.spec.tiers) - 1
       THEN step' = "configmap" /\ ti' = ti + 1 /\ rsIndex' = 1
       ELSE step' = "status" /\ UNCHANGED <<ti, rsIndex>>
    /\ UNCHANGED <<queueVars, cluster, extra>>

(* Append a tier's status and go on with the next tier, or finish. *)
NextTier(s, ready) ==
    /\ tierStatuses' = Append(tierStatuses, s)
    /\ allReady' = IF ready THEN allReady ELSE FALSE
    /\ ts' = NoTier
    /\ IF ti < Len(cluster.spec.tiers)
       THEN step' = "configmap" /\ ti' = ti + 1 /\ rsIndex' = 1
       ELSE step' = "status" /\ UNCHANGED <<ti, rsIndex>>
    /\ UNCHANGED <<queueVars, cluster, extra>>

DesiredPods(t) == Int32(t.replicas * t.replicationFactor)

(* The ready pods of the given replicasets of tier t, among objects o. *)
SumReady(o, t, replicasets) ==
    MapThenSumSet(LAMBDA i : o[StatefulSetKey(t, i)].ready, replicasets)

(* Mutant of TierStatus: the pods of one replicaset are wanted. *)
TierStatusOfOneReplicaset ==
    [name |-> tier.name, readyReplicas |-> Int32(SumReady(objCache, tier, ListStatefulSets)),
     desiredReplicas |-> tier.replicationFactor, plugins |-> <<>>]

(* readyReplicas summed over every cached StatefulSet of the tier. *)
TierStatus ==
    [name |-> tier.name, readyReplicas |-> Int32(SumReady(objCache, tier, ListStatefulSets)),
     desiredReplicas |-> DesiredPods(tier), plugins |-> <<>>]

TierReady(s) == s.readyReplicas >= s.desiredReplicas

CollectTierStatus ==
    /\ step = "tierstatus"
    /\ IF TierReady(TierStatus) /\ tier.plugins # <<>>
       THEN /\ step' = "plugins" /\ ts' = TierStatus
            /\ UNCHANGED <<queueVars, cluster, ti, rsIndex, extra, tierStatuses, allReady>>
       ELSE NextTier(TierStatus, TierReady(TierStatus))
    /\ UNCHANGED <<apiVars, cacheVars, pods, givenUp, spent>>

(* reconcileTierPlugins returns the plugins as enabled, or an error. *)
ReconcilePlugins ==
    /\ step = "plugins"
    /\ \/ /\ NextTier([ts EXCEPT !.plugins =
                          [p \in DOMAIN tier.plugins |->
                             [name |-> tier.plugins[p].name,
                              version |-> tier.plugins[p].version, enabled |-> TRUE]]], TRUE)
          /\ UNCHANGED spent
       \/ Spend("faults") /\ Goto("pluginfailed")
    /\ UNCHANGED <<apiVars, cacheVars, pods, givenUp>>

(* Mutant of ReadyCondition: LastTransitionTime is always now. *)
ReadyConditionNow(base, status, now) == [status |-> status, lastTransitionTime |-> now]

(* The Ready condition; its LastTransitionTime is kept if the CACHED       *)
(* condition has the same status.                                          *)
ReadyCondition(base, status, now) ==
    [status |-> status,
     lastTransitionTime |->
        IF base # <<>> /\ base[1].status = status THEN base[1].lastTransitionTime ELSE now]

NewStatus(tiers, ready, now) ==
    [phase      |-> IF ready THEN "Ready" ELSE "Initializing",
     tiers      |-> tiers,
     conditions |-> <<ReadyCondition(cluster.status.conditions,
                                     IF ready THEN "True" ELSE "False", now)>>]

PatchStatus(tiers, ready) ==
    \E now \in Clock :
        WriteCr([cr EXCEPT !.status =
                    MergePatch(cr.status, cluster.status, NewStatus(tiers, ready, now))])

(* The last call of Reconcile: updateStatus; its error is Reconcile's. *)
UpdateStatus ==
    /\ step = "status"
    /\ IF cr.live
       THEN PatchStatus(tierStatuses, allReady) /\ Answer(ReturnOk)
       ELSE ReturnError /\ UNCHANGED <<cr, crWatch, spent>>
    /\ UNCHANGED <<obj, objWatch, cacheVars, pods, givenUp>>

(* After a plugin failure the status lists only the tiers before this one, *)
(* an error of updateStatus is logged, and the request comes back in 15s.  *)
UpdateStatusPluginFailed ==
    /\ step = "pluginfailed"
    /\ \/ /\ cr.live
          /\ PatchStatus(tierStatuses, FALSE)
          /\ UNCHANGED spent
       \/ ~cr.live /\ UNCHANGED <<cr, crWatch, spent>>
       \/ Spend("faults") /\ UNCHANGED <<cr, crWatch>>
    /\ ClearLocals
    /\ timer' = TRUE /\ UNCHANGED queued
    /\ UNCHANGED <<obj, objWatch, cacheVars, pods, givenUp>>

(* Mutant of CallFails: the error of a Service is not looked at. *)
CallFailsUnchecked ==
    /\ step \in {"interconnect", "client"}
    /\ Spend("faults")
    /\ Goto(IF step = "client" THEN "statefulset" ELSE "client")
    /\ UNCHANGED <<apiVars, cacheVars, pods, givenUp>>

(* Mutant of CallFails: the loop over the replicasets goes on after one of *)
(* them failed.                                                            *)
CallFailsNextReplicaset ==
    /\ step = "statefulset"
    /\ Spend("faults")
    /\ NextReplicaset
    /\ UNCHANGED <<apiVars, cacheVars, pods, givenUp>>

(* A call fails and has no effect.  The reads have error paths too. *)
CallFails ==
    /\ step \in {"configmap", "interconnect", "client", "statefulset", "cleanup",
                 "tierstatus", "status"}
         \/ (step = "idle" /\ queued)
         \/ (step = "delete" /\ extra # {})
         \/ (step = "ingress" /\ tier.ingress.enabled)
    /\ Spend("faults")
    /\ ReturnError
    /\ UNCHANGED <<apiVars, cacheVars, pods, givenUp>>

Reconcile ==
    \/ FetchCluster
    \/ ReconcileConfigMap \/ ReconcileInterconnect \/ ReconcileClient
    \/ ReconcileStatefulSet
    \/ ListExtraStatefulSets \/ DeleteExtraStatefulSet \/ CleanupDone
    \/ ReconcileIngress
    \/ CollectTierStatus \/ ReconcilePlugins
    \/ UpdateStatus \/ UpdateStatusPluginFailed
    \/ CallFails

-----------------------------------------------------------------------------
(* The manager: informers, the work queue's timer, restarts.               *)

DeliverCr ==
    /\ crWatch # <<>>
    /\ crCache' = Head(crWatch)
    /\ crWatch' = Tail(crWatch)
    /\ queued' = TRUE
    /\ UNCHANGED <<cr, obj, objWatch, objCache, timer, localVars, pods, givenUp, spent>>

(* Mutant of DeliverObj: the children are not watched. *)
DeliverObjUnwatched(k) ==
    /\ objWatch[k] # <<>>
    /\ objCache' = [objCache EXCEPT ![k] = Head(objWatch[k])]
    /\ objWatch' = [objWatch EXCEPT ![k] = Tail(@)]
    /\ UNCHANGED <<cr, obj, crWatch, crCache, queueVars, localVars, pods, givenUp, spent>>

DeliverObj(k) ==
    /\ objWatch[k] # <<>>
    /\ objCache' = [objCache EXCEPT ![k] = Head(objWatch[k])]
    /\ objWatch' = [objWatch EXCEPT ![k] = Tail(@)]
    /\ queued' = TRUE
    /\ UNCHANGED <<cr, obj, crWatch, crCache, timer, localVars, pods, givenUp, spent>>

RequeueAfterElapses ==
    /\ timer
    /\ timer' = FALSE /\ queued' = TRUE
    /\ UNCHANGED <<apiVars, cacheVars, localVars, pods, givenUp, spent>>

(* The operator stops at any point and starts again: the informers list    *)
(* everything anew and each object listed enqueues its owner.              *)
Restart ==
    /\ Spend("crashes")
    /\ ClearLocals
    /\ timer' = FALSE
    /\ queued' = (cr.live \/ \E k \in Keys : obj[k].live)
    /\ crCache' = cr /\ objCache' = obj
    /\ crWatch' = <<>> /\ objWatch' = [k \in Keys |-> <<>>]
    /\ UNCHANGED <<cr, obj, pods, givenUp>>

-----------------------------------------------------------------------------
(* The user.                                                               *)

(* Spec s scales the tier of StatefulSet k down below its replicaset. *)
GivesUp(s, k) ==
    \E j \in DOMAIN s.tiers : s.tiers[j].name = k[2] /\ k[3] > s.tiers[j].replicas

Remember(s) == givenUp' = givenUp \cup { k \in StsKeys : GivesUp(s, k) }

CreateCluster ==
    /\ ~cr.live
    /\ \E s \in Specs :
          /\ WriteCr([live |-> TRUE, uid |-> spent["deletes"], spec |-> s, status |-> NoStatus])
          /\ Remember(s)
    /\ UNCHANGED <<obj, objWatch, cacheVars, queueVars, localVars, pods, spent>>

EditCluster ==
    /\ cr.live
    /\ Spend("edits")
    /\ \E s \in Specs \ {cr.spec} : WriteCr([cr EXCEPT !.spec = s]) /\ Remember(s)
    /\ UNCHANGED <<obj, objWatch, cacheVars, queueVars, localVars, pods>>

DeleteCluster ==
    /\ cr.live
    /\ Spend("deletes")
    /\ WriteCr(Absent)
    /\ UNCHANGED <<obj, objWatch, cacheVars, queueVars, localVars, pods, givenUp>>

-----------------------------------------------------------------------------
(* Kubernetes.  The garbage collector deletes an object whose owner, known *)
(* by uid, is gone.                                                        *)
CollectGarbage(k) ==
    /\ obj[k].live
    /\ ~(cr.live /\ cr.uid = obj[k].owner)
    /\ WriteObj(k, Absent)
    /\ UNCHANGED <<cr, crWatch, cacheVars, queueVars, localVars, pods, givenUp, spent>>

(* The StatefulSet controller.  Pods are created from the template, and    *)
(* replaced when the template changes; their init container reads the      *)
(* ConfigMap of the tier as it is at that moment.                          *)
SetReady(k, n) == WriteObj(k, [obj[k] EXCEPT !.ready = n])

RolledOut(k) == pods[k].live /\ pods[k].template = Template(obj[k])

RollPods(k) ==
    LET cm == obj[<<"ConfigMap", k[2], 0>>]
    IN /\ obj[k].live /\ cm.live
       /\ ~RolledOut(k)
       /\ pods' = [pods EXCEPT ![k] = [live |-> TRUE, template |-> Template(obj[k]),
                                       config |-> cm.mut.data]]
       /\ \E n \in 0..obj[k].ready : SetReady(k, n)
       /\ UNCHANGED <<cr, crWatch, cacheVars, queueVars, localVars, givenUp, spent>>

PodBecomesReady(k) ==
    /\ obj[k].live /\ pods[k].live
    /\ obj[k].ready < obj[k].mut.replicas
    /\ SetReady(k, obj[k].ready + 1)
    /\ UNCHANGED <<cr, crWatch, cacheVars, queueVars, localVars, pods, givenUp, spent>>

PodRetires(k) ==
    /\ obj[k].live
    /\ obj[k].ready > obj[k].mut.replicas
    /\ SetReady(k, obj[k].ready - 1)
    /\ UNCHANGED <<cr, crWatch, cacheVars, queueVars, localVars, pods, givenUp, spent>>

PodFails(k) ==
    /\ obj[k].live /\ obj[k].ready > 0
    /\ Spend("losses")
    /\ SetReady(k, obj[k].ready - 1)
    /\ UNCHANGED <<cr, crWatch, cacheVars, queueVars, localVars, pods, givenUp>>

PodsVanish(k) ==
    /\ ~obj[k].live /\ pods[k].live
    /\ pods' = [pods EXCEPT ![k] = Absent]
    /\ UNCHANGED <<apiVars, cacheVars, queueVars, localVars, givenUp, spent>>

StatefulSetController(k) ==
    RollPods(k) \/ PodBecomesReady(k) \/ PodRetires(k) \/ PodsVanish(k)

-----------------------------------------------------------------------------
User == CreateCluster \/ EditCluster \/ DeleteCluster

Kubernetes ==
    \/ \E k \in Keys : CollectGarbage(k)
    \/ \E k \in StsKeys : StatefulSetController(k) \/ PodFails(k)

Manager ==
    \/ DeliverCr
    \/ \E k \in Keys : DeliverObj(k)
    \/ RequeueAfterElapses
    \/ Restart

Next == Reconcile \/ Manager \/ User \/ Kubernetes

Spec == Init /\ [][Next]_vars

(* The worker, the informers and the controllers of Kubernetes keep        *)
(* running; nothing obliges the user to act or a failure to happen.        *)
Fairness ==
    /\ WF_vars(Reconcile)
    /\ WF_vars(DeliverCr)
    /\ \A k \in Keys : WF_vars(DeliverObj(k)) /\ WF_vars(CollectGarbage(k))
    /\ WF_vars(RequeueAfterElapses)
    /\ \A k \in StsKeys : WF_vars(StatefulSetController(k))

FairSpec == Spec /\ Fairness

-----------------------------------------------------------------------------
(* Types.                                                                  *)

(* The fields of a child that the reconciler patches. *)
MutFields(k) ==
    CASE k[1] = "ConfigMap"    -> {"data"}
      [] k[1] = "Interconnect" -> {"ports", "selector"}
      [] k[1] = "Client"       -> {"ports", "selector"}
      [] k[1] = "StatefulSet"  -> {"replicas", "labels"} \cup TemplateFields
      [] k[1] = "Ingress"      -> {"route", "port", "labels"}

IsMut(k, m) ==
    /\ m = [f \in MutFields(k) |-> m[f]]
    /\ k[1] = "StatefulSet" => m.replicas \in Nat \ {0}

StatusFields == {"phase", "tiers", "conditions"}

IsStatus(s) ==
    /\ s = [f \in StatusFields |-> s[f]]
    /\ s.phase \in {"", "Initializing", "Ready"}
    /\ DOMAIN s.conditions \in {{}, {1}}

ClusterFields == {"live", "uid", "spec", "status"}

IsCluster(c) ==
    \/ c = Absent
    \/ /\ c = [f \in ClusterFields |-> c[f]]
       /\ c.live = TRUE /\ c.uid \in Nat /\ c.spec \in Specs /\ IsStatus(c.status)

ObjectFields == {"live", "mut", "fixed", "owner", "ready"}

IsObject(k, o) ==
    \/ o = Absent
    \/ /\ o = [f \in ObjectFields |-> o[f]]
       /\ o.live = TRUE
       /\ IsMut(k, o.mut)
       /\ o.owner \in Nat /\ o.ready \in Nat

IsWatch(w) == w \in Seq(Range(w)) /\ Len(w) <= MaxLag

ClusterTypeOK ==
    /\ IsCluster(cr) /\ IsCluster(crCache)
    /\ IsWatch(crWatch) /\ \A c \in Range(crWatch) : IsCluster(c)

ObjectTypeOK ==
    /\ obj = [k \in Keys |-> obj[k]]
    /\ objCache = [k \in Keys |-> objCache[k]]
    /\ objWatch = [k \in Keys |-> objWatch[k]]
    /\ \A k \in Keys :
          /\ IsObject(k, obj[k]) /\ IsObject(k, objCache[k])
          /\ IsWatch(objWatch[k]) /\ \A o \in Range(objWatch[k]) : IsObject(k, o)

LocalTypeOK ==
    /\ step \in Steps /\ allReady \in BOOLEAN
    /\ step # "delete" => extra = {}
    /\ step # "idle" =>
          /\ IsCluster(cluster) /\ cluster.live
          /\ ti \in 1..Len(cluster.spec.tiers)
          /\ rsIndex \in 1..tier.replicas
          /\ extra \subseteq (tier.replicas + 1)..MaxReplicas

SpentTypeOK == spent \in [Budgets -> Nat] /\ \A b \in Budgets : spent[b] <= Limit[b]

(* Every object, stored, cached or on its way, is whole.  While Reconcile  *)
(* runs it holds a cluster, its loop variables are within the cluster's    *)
(* tiers and the tier's replicasets, and what it is about to delete is     *)
(* beyond them.                                                            *)
TypeOK ==
    /\ ClusterTypeOK /\ ObjectTypeOK /\ LocalTypeOK /\ SpentTypeOK
    /\ queued \in BOOLEAN /\ timer \in BOOLEAN

-----------------------------------------------------------------------------
(* Properties.                                                             *)

(* Nothing is under way in the operator and nothing is on its way to it. *)
Settled ==
    /\ step = "idle" /\ ~queued /\ ~timer
    /\ crWatch = <<>> /\ \A k \in Keys : objWatch[k] = <<>>

(* An object has every managed field as the builders of s make it. *)
Matches(s, t, k) ==
    LET want == Build(s, t, k).mut
    IN obj[k].live /\ \A f \in DOMAIN want : obj[k].mut[f] = want[f]

(* The children of tier t are what spec s asks for, and no more replicasets. *)
TierConverged(s, t) ==
    /\ \A k \in TierKeys(t) : Matches(s, t, k)
    /\ \A i \in 1..MaxReplicas :
          i > t.replicas => ~obj[StatefulSetKey(t, i)].live

Converged == \A j \in DOMAIN cr.spec.tiers : TierConverged(cr.spec, cr.spec.tiers[j])

(* The operator never comes to rest with work left to do: whatever was     *)
(* edited, lost, failed or restarted while Reconcile ran from stale        *)
(* caches, an event, an error or a timer brings it back until the children *)
(* are the ones the spec asks for.                                         *)
NoLostWakeup == Settled /\ cr.live => Converged

(* The pods of tier t that are ready on the API server. *)
ReadyPods(t) == SumReady(obj, t, { i \in 1..MaxReplicas : obj[StatefulSetKey(t, i)].live })

(* At rest the status is the truth: one entry per tier in the order of the *)
(* spec, with the counts of the StatefulSets as they are, and phase Ready  *)
(* exactly if no tier lacks pods.                                          *)
StatusTruthful ==
    Settled /\ cr.live =>
        LET tiers == cr.spec.tiers
            shown == cr.status.tiers
        IN /\ DOMAIN shown = DOMAIN tiers
           /\ \A j \in DOMAIN tiers :
                 /\ shown[j].name = tiers[j].name
                 /\ shown[j].readyReplicas = ReadyPods(tiers[j])
                 /\ shown[j].desiredReplicas = DesiredPods(tiers[j])
           /\ (cr.status.phase = "Ready") <=>
                 \A j \in DOMAIN tiers : ReadyPods(tiers[j]) >= DesiredPods(tiers[j])

(* Until a cluster is deleted, a StatefulSet never exists without the      *)
(* ConfigMap its pods mount, the headless Service their DNS names come     *)
(* from and the client Service, however often passes fail half way.        *)
StsAfterDeps ==
    spent["deletes"] = 0 =>
        \A k \in StsKeys : obj[k].live =>
            \A kind \in {"ConfigMap", "Interconnect", "Client"} : obj[<<kind, k[2], 0>>].live

(* A replicaset of the existing resource goes away only if the user has    *)
(* submitted a spec that gives it up.  deleteExtraStatefulSets decides on  *)
(* a cached list, by labels that hold the clusterName, and on a spec that  *)
(* may be several edits old: none of it, nor a call that fails or is       *)
(* repeated, takes a replicaset that every version asked for.              *)
ReplicasetKept ==
    [][ \A k \in StsKeys :
          /\ obj[k].live /\ ~obj'[k].live
          /\ cr.live /\ obj[k].owner = cr.uid
          => k \in givenUp ]_vars

(* At rest every pod runs the config.yaml its tier's ConfigMap holds: no   *)
(* change of the configuration is published without a restart.             *)
PodsRunPublishedConfig ==
    Settled /\ cr.live =>
        \A k \in StsKeys : obj[k].live /\ RolledOut(k) =>
            pods[k].config = obj[<<"ConfigMap", k[2], 0>>].mut.data

(* Once the user and the failures stop, the operator comes to rest with    *)
(* the cluster built and Ready, or, if the resource was deleted, with none *)
(* of its children left.                                                   *)
EventuallyConverged ==
    <>[]( /\ Settled
          /\ IF cr.live
             THEN Converged /\ cr.status.phase = "Ready"
             ELSE \A k \in Keys : ~obj[k].live )
=============================================================================
