------------------------------- MODULE Rollout -------------------------------
(***************************************************************************)
(* What the objects of the operator do to single pods: how a cluster comes *)
(* up out of empty volumes, and how an edit rolls through its replicasets. *)
(*                                                                         *)
(* A pod is <<tier, replicaset, ordinal>>.  The StatefulSet controller     *)
(* creates and replaces it as podManagementPolicy and the template say;    *)
(* its init container copies the config.yaml of the ConfigMap ONCE; its    *)
(* Picodata instance starts from the data in its volume or, on an empty    *)
(* one, bootstraps a cluster if it is the peer of its config.yaml and      *)
(* joins the peer's cluster if it is not; the startup and readiness probes *)
(* pass when its replicaset is complete.  A volume outlives its pod and    *)
(* its StatefulSet: the claim template sets no retention policy.           *)
(*                                                                         *)
(* The operator is a pass over the spec it read at its start, one object   *)
(* per step and without failures: module Reconciler has its cache, its     *)
(* errors, the deletion of the resource and the objects that pods do not   *)
(* depend on.                                                              *)
(***************************************************************************)
EXTENDS PicoclusterTypes

CONSTANTS
    Specs,   \* the specs the user may submit
    Broken,  \* the engine settings an instance cannot start with
    Limit    \* how many edits and losses of pods there are, together

Disturbances == {"edits", "losses"}

TiersOf(s) == { s.tiers[j] : j \in DOMAIN s.tiers }
AllTiers == UNION { TiersOf(s) : s \in Specs }

(* The tiers of a cluster have different names. *)
ASSUME RolloutSpecsAssumption ==
    \A s \in Specs :
        /\ ValidSpec(s)
        /\ \A j, l \in DOMAIN s.tiers : s.tiers[j].name = s.tiers[l].name => j = l

ASSUME RolloutBoundsAssumption == Limit \in Nat

StsKeys == UNION { { StatefulSetKey(t, i) : i \in 1..t.replicas } : t \in AllTiers }
Keys == StsKeys \cup UNION { {ConfigMapKey(t), InterconnectKey(t)} : t \in AllTiers }
Pods == UNION { { <<t.name, i, o>> : i \in 1..t.replicas, o \in 0..t.replicationFactor - 1 }
                : t \in AllTiers }

VARIABLES
    spec,    \* what the user wants
    obj,     \* its children on the API server
    pass,    \* the running pass of the operator
    pod,     \* the pods
    vol,     \* whose cluster the data in each pod's volume belongs to
    formed,  \* history: the StatefulSets whose pods have all been ready at once
    spent    \* how many disturbances there were

vars == <<spec, obj, pass, pod, vol, formed, spent>>

Absent == [live |-> FALSE]
NoPod == [phase |-> "absent"]
NoConfig == <<>>
Empty == <<>>

Init ==
    /\ spec \in Specs
    /\ obj = [k \in Keys |-> Absent]
    /\ pass = Absent
    /\ pod = [p \in Pods |-> NoPod]
    /\ vol = [p \in Pods |-> Empty]
    /\ formed = {}
    /\ spent = [d \in Disturbances |-> 0]

Spend(d) ==
    /\ spent["edits"] + spent["losses"] < Limit
    /\ spent' = [spent EXCEPT ![d] = @ + 1]

StsOf(p) == <<"StatefulSet", p[1], p[2]>>
PodsOf(k) == { p \in Pods : StsOf(p) = k }

-----------------------------------------------------------------------------
(* The operator.                                                           *)

(* The object reconcileTier looks at after object k of a tier: the         *)
(* ConfigMap and the Service come before the StatefulSets, one of which    *)
(* is looked at after the other, those to be deleted last.                 *)
NextKey(k) ==
    CASE k[1] = "ConfigMap"    -> <<"Interconnect", k[2], 0>>
      [] k[1] = "Interconnect" -> <<"StatefulSet", k[2], 1>>
      [] k[1] = "StatefulSet"  -> <<"StatefulSet", k[2], k[3] + 1>>

(* The objects a spec asks for; StatefulSets beyond these are deleted. *)
Objects ==
    [s \in Specs |->
        [k \in Keys |->
            IF \E t \in TiersOf(s) : k \in TierKeys(t)
            THEN Build(s, CHOOSE t \in TiersOf(s) : t.name = k[2], k)
            ELSE Absent]]

(* Create, or patch the fields that are patched, or delete. *)
Applied(s, k) ==
    LET built == Objects[s][k]
    IN IF built = Absent THEN Absent
       ELSE [live |-> TRUE, mut |-> built.mut,
             fixed |-> IF obj[k].live THEN obj[k].fixed ELSE built.fixed]

(* The pods of a deleted StatefulSet are terminated; a new one of the same *)
(* name does not adopt them.                                               *)
Store(k, v) ==
    /\ obj' = [obj EXCEPT ![k] = v]
    /\ IF v.live THEN UNCHANGED <<pod, formed>>
       ELSE /\ pod' = [p \in Pods |-> IF p \in PodsOf(k) /\ pod[p] # NoPod
                                      THEN [pod[p] EXCEPT !.phase = "going"] ELSE pod[p]]
            /\ formed' = formed \ {k}

UpToDate ==
    \A t \in TiersOf(spec) : \A k \in Keys : k[2] = t.name => obj[k] = Applied(spec, k)

(* A pass begins while there is work: NoLostWakeup of module Reconciler. *)
BeginPass ==
    /\ ~pass.live /\ ~UpToDate
    /\ pass' = [live |-> TRUE, spec |-> spec, tier |-> 1, key |-> ConfigMapKey(spec.tiers[1])]
    /\ UNCHANGED <<spec, obj, pod, vol, formed, spent>>

NextTier ==
    IF pass.tier < Len(pass.spec.tiers)
    THEN [pass EXCEPT !.tier = @ + 1, !.key = ConfigMapKey(pass.spec.tiers[pass.tier + 1])]
    ELSE Absent

(* Mutant of Advance: the loop over the StatefulSets runs once too often. *)
AdvanceOneTooMany ==
    pass' = IF pass.key \in Keys THEN [pass EXCEPT !.key = NextKey(@)] ELSE NextTier

Advance ==
    pass' = IF NextKey(pass.key) \in Keys THEN [pass EXCEPT !.key = NextKey(@)] ELSE NextTier

ApplyNext ==
    /\ pass.live
    /\ Store(pass.key, Applied(pass.spec, pass.key))
    /\ Advance
    /\ UNCHANGED <<spec, vol, spent>>

EditSpec ==
    /\ Spend("edits")
    /\ spec' \in Specs \ {spec}
    /\ UNCHANGED <<obj, pass, pod, vol, formed>>

-----------------------------------------------------------------------------
(* The StatefulSet controller.                                             *)

Sts(p) == obj[StsOf(p)]
Parallel(p) == Sts(p).fixed.podManagementPolicy = "Parallel"
Wanted(p) == Sts(p).live /\ p[3] < Sts(p).mut.replicas
Alive(p) == pod[p].phase \in {"created", "running", "ready"}
Ready(p) == pod[p].phase = "ready"
Current(p) == Alive(p) /\ pod[p].rev = Template(Sts(p))

PodStep(p, v) ==
    /\ pod' = [pod EXCEPT ![p] = v]
    /\ UNCHANGED <<spec, obj, pass, vol, formed>>

CreatePod(p) ==
    /\ Wanted(p) /\ pod[p] = NoPod
    /\ Parallel(p) \/ \A q \in PodsOf(StsOf(p)) : q[3] < p[3] => Ready(q)
    /\ PodStep(p, [phase |-> "created", rev |-> Template(Sts(p)), config |-> NoConfig])
    /\ UNCHANGED spent

(* RollingUpdate: the highest pod with an old template goes, ready or not, *)
(* once all above it have the new one and are ready; with OrderedReady it  *)
(* also waits for every pod to be ready.                                   *)
RollPod(p) ==
    /\ Wanted(p) /\ Alive(p) /\ ~Current(p)
    /\ \A q \in PodsOf(StsOf(p)) : Wanted(q) =>
          /\ q[3] > p[3] => Current(q) /\ Ready(q)
          /\ Parallel(p) \/ Ready(q)
    /\ PodStep(p, NoPod)
    /\ UNCHANGED spent

StopPod(p) ==
    /\ pod[p].phase = "going"
    /\ PodStep(p, NoPod)
    /\ UNCHANGED spent

(* A node fails or is drained. *)
PodLost(p) ==
    /\ pod[p].phase \in {"running", "ready"}
    /\ Spend("losses")
    /\ PodStep(p, NoPod)

-----------------------------------------------------------------------------
(* The kubelet and the instance in a pod.                                  *)

(* The init container; the ConfigMap has to be there to be mounted.  It    *)
(* does not run again when the other container restarts.                   *)
ConfigInit(p) ==
    LET cm == obj[<<"ConfigMap", p[1], 0>>]
    IN /\ pod[p].phase = "created" /\ cm.live
       /\ PodStep(p, [pod[p] EXCEPT !.phase = "running", !.config = cm.mut.data])
       /\ UNCHANGED spent

(* The instance runs: its settings let it start. *)
Up(p) == pod[p].phase \in {"running", "ready"} /\ pod[p].config.conf \notin Broken

Peer(config) == <<config.peer, 1, 0>>

(* DNS knows the address of a pod through the headless Service. *)
Resolves(p) ==
    LET svc == obj[<<"Interconnect", p[1], 0>>]
    IN svc.live /\ (svc.fixed.publishNotReadyAddresses \/ Ready(p))

VolumeStep(p, cluster) ==
    /\ Up(p) /\ vol[p] = Empty
    /\ vol' = [vol EXCEPT ![p] = cluster]
    /\ UNCHANGED <<spec, obj, pass, pod, formed, spent>>

Bootstrap(p) ==
    /\ VolumeStep(p, p)
    /\ Peer(pod[p].config) = p

Join(p) ==
    /\ Up(p)
    /\ LET peer == Peer(pod[p].config)
       IN /\ peer # p
          /\ Up(peer) /\ Resolves(peer) /\ vol[peer] # Empty
          /\ VolumeStep(p, vol[peer])

(* As many instances as the tier's replication factor have joined. *)
ReplicasetComplete(p) ==
    \A j \in DOMAIN pod[p].config.tiers :
        LET t == pod[p].config.tiers[j]
        IN t.name = p[1] =>
              \A o \in 0..t.replicationFactor - 1 : vol[<<p[1], p[2], o>>] = vol[p]

SetReady(p) ==
    /\ pod' = [pod EXCEPT ![p].phase = "ready"]
    /\ formed' = formed \cup
          { k \in {StsOf(p)} : \A q \in PodsOf(k) : Wanted(q) => q = p \/ Ready(q) }
    /\ UNCHANGED <<spec, obj, pass, vol, spent>>

(* Mutant of BecomeReady: without probes a container that runs is ready. *)
BecomeReadyUnprobed(p) == pod[p].phase = "running" /\ SetReady(p)

(* The startup and the readiness probe answer 200. *)
BecomeReady(p) ==
    /\ pod[p].phase = "running" /\ Up(p)
    /\ vol[p] # Empty /\ ReplicasetComplete(p)
    /\ SetReady(p)

-----------------------------------------------------------------------------
Operator == BeginPass \/ ApplyNext

(* The StatefulSet controller, the kubelets and the instances. *)
Pod ==
    \E p \in Pods :
        \/ CreatePod(p) \/ RollPod(p) \/ StopPod(p)
        \/ ConfigInit(p)
        \/ Bootstrap(p) \/ Join(p) \/ BecomeReady(p)

Next == Operator \/ Pod \/ EditSpec \/ \E p \in Pods : PodLost(p)

Spec == Init /\ [][Next]_vars

(* The operator keeps running, and so do the controller, the kubelets and  *)
(* the instances together.                                                 *)
Fairness == WF_vars(Operator) /\ WF_vars(Pod)

FairSpec == Spec /\ Fairness

-----------------------------------------------------------------------------
(* Properties.                                                             *)

(* The pass is at one of its tier's objects, a pod that runs has read a    *)
(* config.yaml of its own tier, and one that is ready has data.            *)
RolloutTypeOK ==
    /\ spec \in Specs
    /\ DOMAIN obj = Keys /\ DOMAIN pod = Pods /\ vol \in [Pods -> Pods \cup {Empty}]
    /\ formed \subseteq StsKeys
    /\ pass.live => /\ pass.spec \in Specs /\ pass.tier \in DOMAIN pass.spec.tiers
                    /\ pass.key \in Keys
                    /\ pass.key[2] = pass.spec.tiers[pass.tier].name
    /\ \A p \in Pods :
          /\ pod[p].phase \in {"absent", "created", "running", "ready", "going"}
          /\ pod[p].phase \in {"running", "ready"} => pod[p].config.tier = p[1]
          /\ Ready(p) => vol[p] # Empty
    /\ spent \in [Disturbances -> 0..Limit]

(* All data belongs to one Picodata cluster: although all pods start at    *)
(* the same time, are lost, rolled, scaled away and brought back, no       *)
(* second instance bootstraps.                                             *)
OneCluster ==
    \A p, q \in Pods : vol[p] # Empty /\ vol[q] # Empty => vol[p] = vol[q]

(* The pods of a replicaset that do not serve. *)
Down(k) == { p \in PodsOf(k) : Wanted(p) /\ ~(Ready(p) /\ Up(p)) }

(* A replicaset whose pods were all ready loses at most one at a time to   *)
(* an edit, also to one whose settings no instance can start with.         *)
ServiceKept ==
    spent["edits"] <= 1 /\ spent["losses"] = 0 =>
        \A k \in formed : \A p, q \in Down(k) : p = q

(* Some instance runs a config.yaml its template does not stand for. *)
StaleConfig ==
    \E p \in Pods : /\ pod[p].phase \in {"running", "ready"}
                    /\ pod[p].rev.checksum # configHash(pod[p].config)

Startable == \A tier \in TiersOf(spec) : tier.conf \notin Broken

AllUp == UpToDate /\ \A p \in Pods : IF Wanted(p) THEN Current(p) /\ Ready(p) ELSE ~Alive(p)

(* Once edits and losses end, a spec whose settings work is rolled out to  *)
(* every pod, whatever was tried before, unless an instance is stuck with  *)
(* a config.yaml that it read between two writes of the operator.          *)
RolloutCompletes == <>[](Startable /\ ~StaleConfig => AllUp)

(* An instance that cannot start belongs to a replicaset that was never    *)
(* complete.                                                               *)
StillbornReplicaset ==
    \E p \in Pods : /\ pod[p].phase = "running" /\ ~Up(p)
                    /\ \E q \in PodsOf(StsOf(p)) : vol[q] = Empty

(* The same, if no replicaset met broken settings before it was complete. *)
RolloutCompletesOnceComplete ==
    <>[](Startable /\ ~StaleConfig /\ ~StillbornReplicaset => AllUp)
==============================================================================
