---------------------------- MODULE RolloutProofs ----------------------------
(***************************************************************************)
(* Proofs about Rollout, for any specs, settings and numbers of edits and  *)
(* lost pods.                                                              *)
(*                                                                         *)
(* Why one cluster forms: every config.yaml that a pod may ever read names *)
(* the first tier as the peer (ConfigOK), so that only pod 0 of its first  *)
(* replicaset can bootstrap, and data is otherwise only copied.  This is   *)
(* so as long as an edit leaves the first tier in its place                *)
(* (SameFirstTier): nothing in the operator or in the schema keeps the     *)
(* user from moving it, and pods that start after such an edit would look  *)
(* for another peer.                                                       *)
(*                                                                         *)
(* Why an edit takes one pod of a replicaset at a time: the objects are    *)
(* those of the spec or of the one before it (Since), so that the template *)
(* of a StatefulSet changes at most once.  Before it does, a replicaset    *)
(* that has been complete still is (YoungInv); after it, pods are replaced *)
(* from the highest down, so that all above one that is down are replaced  *)
(* and ready (RollInv).  A larger replication factor would add pods to a   *)
(* complete replicaset that are not ready yet (SameReplicationFactor).     *)
(***************************************************************************)
EXTENDS Rollout, TLAPS

(* The specs agree on the name of the first tier. *)
SameFirstTier == \A s, u \in Specs : s.tiers[1].name = u.tiers[1].name

Phases == {"created", "running", "ready", "going"}

(* A config.yaml that the operator wrote for the tier named n. *)
ConfigOK(config, n) ==
    /\ config.tier = n
    /\ \E s \in Specs : config.peer = s.tiers[1].name

PassInv ==
    pass.live => /\ pass.spec \in Specs /\ pass.tier \in DOMAIN pass.spec.tiers
                 /\ pass.key \in Keys
                 /\ pass.key[2] = pass.spec.tiers[pass.tier].name
                 /\ DOMAIN pass = {"live", "spec", "tier", "key"}

ObjInv ==
    /\ DOMAIN obj = Keys
    /\ \A k \in Keys : k[1] = "ConfigMap" /\ obj[k].live => ConfigOK(obj[k].mut.data, k[2])

PodInv ==
    /\ DOMAIN pod = Pods
    /\ \A p \in Pods :
          \/ pod[p] = NoPod
          \/ /\ DOMAIN pod[p] = {"phase", "rev", "config"} /\ pod[p].phase \in Phases
             /\ pod[p].phase \in {"running", "ready"} => ConfigOK(pod[p].config, p[1])

VolInv ==
    /\ vol \in [Pods -> Pods \cup {Empty}]
    /\ \A p \in Pods : pod[p].phase = "ready" => vol[p] # Empty

MiscInv ==
    /\ spec \in Specs
    /\ formed \subseteq StsKeys
    /\ spent \in [Disturbances -> 0..Limit]
    /\ spent["edits"] + spent["losses"] <= Limit

RolloutInv == MiscInv /\ PassInv /\ ObjInv /\ PodInv /\ VolInv

-----------------------------------------------------------------------------
(* Keys and pods.                                                          *)

(* The tiers of a spec. *)
LEMMA SpecTiers ==
    ASSUME NEW s \in Specs
    PROVE  /\ Len(s.tiers) \in Nat \ {0} /\ DOMAIN s.tiers = 1..Len(s.tiers)
           /\ \A j \in DOMAIN s.tiers :
                 /\ s.tiers[j] \in AllTiers
                 /\ s.tiers[j].replicas \in Nat \ {0}
                 /\ s.tiers[j].replicationFactor \in Nat \ {0}
                 /\ ConfigMapKey(s.tiers[j]) \in Keys
                 /\ ConfigMapKey(s.tiers[j])[2] = s.tiers[j].name
    <1>1. ValidSpec(s)
        BY RolloutSpecsAssumption
    <1>2. /\ Len(s.tiers) \in Nat \ {0} /\ DOMAIN s.tiers = 1..Len(s.tiers)
          /\ \A j \in DOMAIN s.tiers : /\ s.tiers[j].replicas \in Nat \ {0}
                                       /\ s.tiers[j].replicationFactor \in Nat \ {0}
        BY <1>1 DEF ValidSpec, ValidTier
    <1>3. \A j \in DOMAIN s.tiers : s.tiers[j] \in AllTiers
        BY DEF AllTiers, TiersOf
    <1>4. \A t \in AllTiers : ConfigMapKey(t) \in Keys /\ ConfigMapKey(t)[2] = t.name
        BY DEF Keys, ConfigMapKey
    <1> QED BY <1>2, <1>3, <1>4

(* The peer of a config.yaml is a pod. *)
LEMMA PeerIsPod ==
    ASSUME NEW config, NEW n, ConfigOK(config, n)
    PROVE  Peer(config) \in Pods
    <1>1. PICK s \in Specs : config.peer = s.tiers[1].name
        BY DEF ConfigOK
    <1> DEFINE t == s.tiers[1]
    <1>2. t \in AllTiers /\ t.replicas \in Nat \ {0} /\ t.replicationFactor \in Nat \ {0}
        BY SpecTiers
    <1>3. 1 \in 1..t.replicas /\ 0 \in 0..t.replicationFactor - 1
        BY <1>2
    <1>4. <<t.name, 1, 0>> \in Pods
        BY <1>2, <1>3 DEF Pods
    <1> QED BY <1>1, <1>4 DEF Peer

(* The StatefulSet of a pod. *)
LEMMA PodSts ==
    ASSUME NEW p \in Pods
    PROVE  StsOf(p) \in StsKeys /\ StsOf(p) \in Keys
    <1>1. PICK t \in AllTiers : \E i \in 1..t.replicas : \E o \in 0..t.replicationFactor - 1 :
              p = <<t.name, i, o>>
        BY DEF Pods
    <1>2. PICK i \in 1..t.replicas : p[1] = t.name /\ p[2] = i
        BY <1>1
    <1>3. StatefulSetKey(t, i) \in StsKeys /\ StsOf(p) = StatefulSetKey(t, i)
        BY <1>1, <1>2 DEF StsKeys, StatefulSetKey, StsOf
    <1> QED BY <1>3 DEF Keys

(* The pass goes on within the tier. *)
LEMMA NextKeyTier ==
    ASSUME NEW k \in Keys
    PROVE  NextKey(k)[2] = k[2]
    <1>1. k[1] \in {"ConfigMap", "Interconnect", "StatefulSet"}
        BY DEF Keys, StsKeys, ConfigMapKey, InterconnectKey, StatefulSetKey
    <1>2. CASE k[1] = "ConfigMap"
        BY <1>2 DEF NextKey
    <1>3. CASE k[1] = "Interconnect"
        BY <1>3 DEF NextKey
    <1>4. CASE k[1] = "StatefulSet"
        BY <1>4 DEF NextKey
    <1> QED BY <1>1, <1>2, <1>3, <1>4

(* buildConfigMap: what a spec makes of a ConfigMap. *)
LEMMA BuiltConfigMap ==
    ASSUME NEW s \in Specs, NEW k \in Keys, k[1] = "ConfigMap", Objects[s][k] # Absent
    PROVE  ConfigOK(Objects[s][k].mut.data, k[2])
    <1>1. PICK t \in TiersOf(s) : k \in TierKeys(t)
        BY DEF Objects
    <1>2. t.name = k[2]
        BY <1>1 DEF TierKeys, ConfigMapKey, InterconnectKey, ClientKey, StatefulSetKey, IngressKey
    <1> DEFINE u == CHOOSE v \in TiersOf(s) : v.name = k[2]
    <1>3. u \in TiersOf(s) /\ u.name = k[2]
        BY <1>2
    <1>4. Objects[s][k] = Build(s, u, k)
        BY <1>1 DEF Objects
    <1> HIDE DEF u
    <1>5. Build(s, u, k) = buildConfigMap(s, u)
        BY DEF Build
    <1>6. /\ buildConfigMap(s, u).mut.data.tier = u.name
          /\ buildConfigMap(s, u).mut.data.peer = s.tiers[1].name
        BY DEF buildConfigMap, ConfigYAML
    <1> QED BY <1>3, <1>4, <1>5, <1>6 DEF ConfigOK

-----------------------------------------------------------------------------
(* The steps.                                                              *)

(* Nothing exists at first. *)
LEMMA RolloutInit == Init => RolloutInv
    <1> SUFFICES ASSUME Init PROVE RolloutInv
        OBVIOUS
    <1>1. MiscInv
        BY RolloutBoundsAssumption DEF Init, MiscInv, Disturbances
    <1>2. PassInv /\ ObjInv
        BY DEF Init, PassInv, ObjInv, Absent
    <1>3. PodInv /\ VolInv
        BY DEF Init, PodInv, VolInv, NoPod
    <1> QED BY <1>1, <1>2, <1>3 DEF RolloutInv

(* Disturbances are counted within their bound. *)
LEMMA SpendStep ==
    ASSUME MiscInv, NEW d \in Disturbances, Spend(d)
    PROVE  /\ spent' \in [Disturbances -> 0..Limit]
           /\ spent'["edits"] + spent'["losses"] <= Limit
    <1>1. /\ spent["edits"] \in Nat /\ spent["losses"] \in Nat
          /\ spent["edits"] + spent["losses"] < Limit
          /\ spent' = [spent EXCEPT ![d] = @ + 1]
          /\ Limit \in Nat
          /\ DOMAIN spent = {"edits", "losses"} /\ d \in {"edits", "losses"}
        BY RolloutBoundsAssumption DEF MiscInv, Spend, Disturbances
    <1>2. CASE d = "edits"
        BY <1>1, <1>2 DEF MiscInv, Disturbances
    <1>3. CASE d = "losses"
        BY <1>1, <1>3 DEF MiscInv, Disturbances
    <1> QED BY <1>1, <1>2, <1>3

(* BeginPass: the first tier of the spec. *)
LEMMA BeginPassStep ==
    ASSUME RolloutInv, BeginPass
    PROVE  RolloutInv'
    <1>1. /\ pass' = [live |-> TRUE, spec |-> spec, tier |-> 1, key |-> ConfigMapKey(spec.tiers[1])]
          /\ UNCHANGED <<spec, obj, pod, vol, formed, spent>> /\ spec \in Specs
        BY DEF BeginPass, RolloutInv, MiscInv
    <1>2. PassInv'
        <2>1. 1 \in DOMAIN spec.tiers
            BY <1>1, SpecTiers
        <2> QED BY <1>1, <2>1, SpecTiers DEF PassInv
    <1>3. MiscInv' /\ ObjInv' /\ PodInv' /\ VolInv'
        BY <1>1 DEF RolloutInv, MiscInv, ObjInv, PodInv, VolInv
    <1> QED BY <1>2, <1>3 DEF RolloutInv

(* Advance: the next object of the tier, the next tier, or the end. *)
LEMMA AdvanceStep ==
    ASSUME PassInv, pass.live, Advance
    PROVE  PassInv'
    <1>1. /\ pass.spec \in Specs /\ pass.tier \in DOMAIN pass.spec.tiers
          /\ pass.key \in Keys /\ pass.key[2] = pass.spec.tiers[pass.tier].name
          /\ DOMAIN pass = {"live", "spec", "tier", "key"}
        BY DEF PassInv
    <1>2. CASE NextKey(pass.key) \in Keys
        <2>1. pass' = [pass EXCEPT !.key = NextKey(pass.key)]
            BY <1>2 DEF Advance
        <2>2. NextKey(pass.key)[2] = pass.key[2]
            BY <1>1, NextKeyTier
        <2>3. /\ pass'.spec = pass.spec /\ pass'.tier = pass.tier
              /\ pass'.key = NextKey(pass.key)
              /\ DOMAIN pass' = {"live", "spec", "tier", "key"}
            BY <1>1, <2>1
        <2> QED BY <1>1, <1>2, <2>2, <2>3 DEF PassInv
    <1>3. CASE NextKey(pass.key) \notin Keys /\ pass.tier < Len(pass.spec.tiers)
        <2> DEFINE j == pass.tier + 1
        <2>1. pass' = [pass EXCEPT !.tier = j, !.key = ConfigMapKey(pass.spec.tiers[j])]
            BY <1>3 DEF Advance, NextTier
        <2>2. j \in DOMAIN pass.spec.tiers
            BY <1>1, <1>3, SpecTiers
        <2>3. /\ ConfigMapKey(pass.spec.tiers[j]) \in Keys
              /\ ConfigMapKey(pass.spec.tiers[j])[2] = pass.spec.tiers[j].name
            BY <1>1, <2>2, SpecTiers
        <2>4. /\ pass'.spec = pass.spec /\ pass'.tier = j
              /\ pass'.key = ConfigMapKey(pass.spec.tiers[j])
              /\ DOMAIN pass' = {"live", "spec", "tier", "key"}
            BY <1>1, <2>1
        <2> HIDE DEF j
        <2> QED BY <1>1, <2>2, <2>3, <2>4 DEF PassInv
    <1>4. CASE NextKey(pass.key) \notin Keys /\ ~(pass.tier < Len(pass.spec.tiers))
        <2>1. pass' = Absent
            BY <1>4 DEF Advance, NextTier
        <2> QED BY <2>1 DEF PassInv, Absent
    <1> QED BY <1>2, <1>3, <1>4

(* ApplyNext: an object is written as the spec of the pass asks; pods of a *)
(* deleted StatefulSet are on their way out.                               *)
LEMMA ApplyNextStep ==
    ASSUME RolloutInv, ApplyNext
    PROVE  RolloutInv'
    <1> DEFINE k == pass.key
               v == Applied(pass.spec, k)
    <1>1. /\ pass.live /\ Store(k, v) /\ Advance /\ UNCHANGED <<spec, vol, spent>>
          /\ k \in Keys /\ pass.spec \in Specs
        BY DEF ApplyNext, RolloutInv, PassInv
    <1>2. PassInv'
        BY <1>1, AdvanceStep DEF RolloutInv
    <1>3. \/ v = Absent
          \/ v.live /\ Objects[pass.spec][k] # Absent /\ v.mut = Objects[pass.spec][k].mut
        BY DEF Applied
    <1>4. k[1] = "ConfigMap" /\ v.live => ConfigOK(v.mut.data, k[2])
        BY <1>1, <1>3, BuiltConfigMap DEF Absent
    <1> HIDE DEF v, k
    <1>5. obj' = [obj EXCEPT ![k] = v]
        BY <1>1 DEF Store
    <1>6. ObjInv'
        BY <1>1, <1>4, <1>5 DEF RolloutInv, ObjInv
    <1>7. CASE v.live
        BY <1>1, <1>2, <1>6, <1>7 DEF Store, RolloutInv, MiscInv, PodInv, VolInv
    <1>8. CASE ~v.live
        <2>1. /\ pod' = [p \in Pods |-> IF p \in PodsOf(k) /\ pod[p] # NoPod
                                        THEN [pod[p] EXCEPT !.phase = "going"] ELSE pod[p]]
              /\ formed' \subseteq formed
            BY <1>1, <1>8 DEF Store
        <2>2. ASSUME NEW p \in Pods
              PROVE  \/ pod'[p] = pod[p]
                     \/ DOMAIN pod'[p] = {"phase", "rev", "config"} /\ pod'[p].phase = "going"
            <3>1. pod[p] # NoPod => DOMAIN pod[p] = {"phase", "rev", "config"}
                BY DEF RolloutInv, PodInv
            <3> QED BY <2>1, <3>1
        <2>3. PodInv'
            BY <2>1, <2>2 DEF RolloutInv, PodInv, Phases
        <2>4. VolInv'
            BY <1>1, <2>2 DEF RolloutInv, VolInv
        <2>5. MiscInv'
            BY <1>1, <2>1 DEF RolloutInv, MiscInv
        <2> QED BY <1>2, <1>6, <2>3, <2>4, <2>5 DEF RolloutInv
    <1> QED BY <1>7, <1>8

(* The steps that change one pod and nothing else. *)
LEMMA PodStepInv ==
    ASSUME RolloutInv, NEW p \in Pods, NEW v, PodStep(p, v), MiscInv',
           \/ v = NoPod
           \/ /\ DOMAIN v = {"phase", "rev", "config"} /\ v.phase \in {"created", "running"}
              /\ v.phase = "running" => ConfigOK(v.config, p[1])
    PROVE  RolloutInv'
    <1>1. pod' = [pod EXCEPT ![p] = v] /\ UNCHANGED <<spec, obj, pass, vol, formed>>
        BY DEF PodStep
    <1>2. PassInv' /\ ObjInv'
        BY <1>1 DEF RolloutInv, PassInv, ObjInv
    <1>3. PodInv'
        BY <1>1 DEF RolloutInv, PodInv, Phases
    <1>4. VolInv'
        BY <1>1 DEF RolloutInv, VolInv, PodInv, NoPod
    <1> QED BY <1>2, <1>3, <1>4 DEF RolloutInv

(* The StatefulSet controller, and the loss of a pod. *)
LEMMA ControllerSteps ==
    ASSUME RolloutInv, NEW p \in Pods,
           CreatePod(p) \/ RollPod(p) \/ StopPod(p) \/ PodLost(p)
    PROVE  RolloutInv'
    <1>1. MiscInv'
        <2>1. CASE spent' = spent
            BY <2>1 DEF CreatePod, RollPod, StopPod, PodLost, PodStep, RolloutInv, MiscInv
        <2>2. CASE PodLost(p)
            <3>1. /\ spent' \in [Disturbances -> 0..Limit]
                  /\ spent'["edits"] + spent'["losses"] <= Limit
                BY <2>2, SpendStep DEF PodLost, RolloutInv, Disturbances
            <3> QED BY <2>2, <3>1 DEF PodLost, PodStep, RolloutInv, MiscInv
        <2> QED BY <2>1, <2>2 DEF CreatePod, RollPod, StopPod
    <1>2. CASE CreatePod(p)
        BY <1>1, <1>2, PodStepInv DEF CreatePod
    <1>3. CASE RollPod(p) \/ StopPod(p) \/ PodLost(p)
        BY <1>1, <1>3, PodStepInv DEF RollPod, StopPod, PodLost
    <1> QED BY <1>2, <1>3

(* ConfigInit: the pod reads the config.yaml of its tier. *)
LEMMA ConfigInitStep ==
    ASSUME RolloutInv, NEW p \in Pods, ConfigInit(p)
    PROVE  RolloutInv'
    <1> DEFINE cm == obj[<<"ConfigMap", p[1], 0>>]
               v == [pod[p] EXCEPT !.phase = "running", !.config = cm.mut.data]
    <1>1. /\ pod[p].phase = "created" /\ cm.live /\ PodStep(p, v) /\ spent' = spent
        BY DEF ConfigInit
    <1>2. MiscInv'
        BY <1>1 DEF RolloutInv, MiscInv, PodStep
    <1>3. <<"ConfigMap", p[1], 0>> \in Keys
        <2>1. PICK t \in AllTiers : p[1] = t.name
            BY DEF Pods
        <2> QED BY <2>1 DEF Keys, ConfigMapKey
    <1>4. ConfigOK(cm.mut.data, p[1])
        BY <1>1, <1>3 DEF RolloutInv, ObjInv
    <1>5. DOMAIN pod[p] = {"phase", "rev", "config"}
        BY <1>1 DEF RolloutInv, PodInv, NoPod
    <1> HIDE DEF cm
    <1>6. DOMAIN v = {"phase", "rev", "config"} /\ v.phase = "running" /\ v.config = cm.mut.data
        BY <1>5
    <1> HIDE DEF v
    <1> QED BY <1>1, <1>2, <1>4, <1>6, PodStepInv

(* Bootstrap and Join: the data comes from the peer, or is the peer's. *)
LEMMA VolumeSteps ==
    ASSUME RolloutInv, NEW p \in Pods, Bootstrap(p) \/ Join(p)
    PROVE  /\ RolloutInv'
           /\ \E c \in Pods :
                 /\ vol' = [vol EXCEPT ![p] = c]
                 /\ \/ c = p /\ Peer(pod[p].config) = p /\ ConfigOK(pod[p].config, p[1])
                    \/ \E q \in Pods : vol[q] = c /\ vol[q] # Empty
    <1>1. Up(p) /\ UNCHANGED <<spec, obj, pass, pod, formed, spent>>
        BY DEF Bootstrap, Join, VolumeStep
    <1>2. ConfigOK(pod[p].config, p[1])
        BY <1>1 DEF Up, RolloutInv, PodInv, NoPod
    <1>3. PICK c \in Pods :
              /\ vol' = [vol EXCEPT ![p] = c]
              /\ \/ c = p /\ Peer(pod[p].config) = p /\ ConfigOK(pod[p].config, p[1])
                 \/ \E q \in Pods : vol[q] = c /\ vol[q] # Empty
        <2>1. CASE Bootstrap(p)
            BY <1>2, <2>1 DEF Bootstrap, VolumeStep
        <2>2. CASE Join(p)
            <3> DEFINE q == Peer(pod[p].config)
            <3>1. q \in Pods
                BY <1>2, PeerIsPod
            <3>2. vol[q] # Empty /\ vol' = [vol EXCEPT ![p] = vol[q]]
                BY <2>2 DEF Join, VolumeStep
            <3>3. vol[q] \in Pods
                BY <3>1, <3>2 DEF RolloutInv, VolInv
            <3> QED BY <3>1, <3>2, <3>3
        <2> QED BY <2>1, <2>2
    <1>4. MiscInv' /\ PassInv' /\ ObjInv' /\ PodInv'
        BY <1>1 DEF RolloutInv, MiscInv, PassInv, ObjInv, PodInv
    <1>5. \A q \in Pods : q # Empty
        <2> SUFFICES ASSUME NEW q \in Pods PROVE q # Empty
            OBVIOUS
        <2>1. PICK t \in AllTiers :
                  q \in { <<t.name, i, o>> : i \in 1..t.replicas, o \in 0..(t.replicationFactor - 1) }
            BY DEF Pods
        <2>2. PICK n, i, o : q = <<n, i, o>>
            BY <2>1
        <2>3. Len(<<n, i, o>>) = 3 /\ Len(<<>>) = 0
            OBVIOUS
        <2> QED BY <2>2, <2>3 DEF Empty
    <1>6. VolInv'
        BY <1>1, <1>3, <1>5 DEF RolloutInv, VolInv
    <1> QED BY <1>3, <1>4, <1>6 DEF RolloutInv

(* BecomeReady: only with data. *)
LEMMA BecomeReadyStep ==
    ASSUME RolloutInv, NEW p \in Pods, BecomeReady(p)
    PROVE  RolloutInv'
    <1>1. /\ pod[p].phase = "running" /\ vol[p] # Empty
          /\ pod' = [pod EXCEPT ![p].phase = "ready"]
          /\ formed' \subseteq formed \cup {StsOf(p)}
          /\ UNCHANGED <<spec, obj, pass, vol, spent>>
        BY DEF BecomeReady, SetReady
    <1>2. DOMAIN pod[p] = {"phase", "rev", "config"} /\ ConfigOK(pod[p].config, p[1])
        BY <1>1 DEF RolloutInv, PodInv, NoPod
    <1>3. /\ DOMAIN pod' = Pods
          /\ DOMAIN pod'[p] = {"phase", "rev", "config"}
          /\ pod'[p].phase = "ready" /\ pod'[p].config = pod[p].config
          /\ \A q \in Pods \ {p} : pod'[q] = pod[q]
        BY <1>1, <1>2 DEF RolloutInv, PodInv
    <1>4. PodInv'
        BY <1>2, <1>3 DEF RolloutInv, PodInv, Phases
    <1>5. VolInv'
        BY <1>1, <1>3 DEF RolloutInv, VolInv
    <1>6. MiscInv'
        BY <1>1, PodSts DEF RolloutInv, MiscInv
    <1>7. PassInv' /\ ObjInv'
        BY <1>1 DEF RolloutInv, PassInv, ObjInv
    <1> QED BY <1>4, <1>5, <1>6, <1>7 DEF RolloutInv

(* EditSpec, and steps that change nothing. *)
LEMMA UserSteps ==
    ASSUME RolloutInv, EditSpec \/ UNCHANGED vars
    PROVE  RolloutInv'
    <1>1. UNCHANGED <<obj, pass, pod, vol, formed>>
        BY DEF EditSpec, vars
    <1>2. PassInv' /\ ObjInv' /\ PodInv' /\ VolInv'
        BY <1>1 DEF RolloutInv, PassInv, ObjInv, PodInv, VolInv
    <1>3. MiscInv'
        <2>1. CASE EditSpec
            <3>1. /\ spent' \in [Disturbances -> 0..Limit]
                  /\ spent'["edits"] + spent'["losses"] <= Limit
                BY <2>1, SpendStep DEF EditSpec, RolloutInv, Disturbances
            <3> QED BY <1>1, <2>1, <3>1 DEF EditSpec, RolloutInv, MiscInv
        <2>2. CASE UNCHANGED vars
            BY <2>2 DEF vars, RolloutInv, MiscInv
        <2> QED BY <2>1, <2>2
    <1> QED BY <1>2, <1>3 DEF RolloutInv

(* Every step preserves the invariant. *)
LEMMA RolloutStep == RolloutInv /\ [Next]_vars => RolloutInv'
    BY BeginPassStep, ApplyNextStep, ControllerSteps, ConfigInitStep, VolumeSteps,
       BecomeReadyStep, UserSteps
    DEF Next, Operator, Pod

(* The inductive invariant holds throughout. *)
LEMMA RolloutInvariant == Spec => []RolloutInv
    BY RolloutInit, RolloutStep, PTL DEF Spec

(* For any specs and any number of edits and losses: the pass stays within *)
(* its tiers and their objects, a pod that runs has read a config.yaml of  *)
(* its own tier, and one that is ready has data.                           *)
THEOREM RolloutTypeCorrect == Spec => []RolloutTypeOK
    <1>1. RolloutInv => RolloutTypeOK
        <2> SUFFICES ASSUME RolloutInv PROVE RolloutTypeOK
            OBVIOUS
        <2>1. ASSUME NEW p \in Pods
              PROVE  /\ pod[p].phase \in {"absent", "created", "running", "ready", "going"}
                     /\ pod[p].phase \in {"running", "ready"} => pod[p].config.tier = p[1]
                     /\ Ready(p) => vol[p] # Empty
            BY DEF RolloutInv, PodInv, VolInv, NoPod, Phases, ConfigOK, Ready
        <2> QED BY <2>1 DEF RolloutInv, MiscInv, PassInv, ObjInv, PodInv, VolInv, RolloutTypeOK
    <1> QED BY <1>1, RolloutInvariant, PTL

-----------------------------------------------------------------------------
(* The one instance that may bootstrap. *)
Seed == <<(CHOOSE s \in Specs : TRUE).tiers[1].name, 1, 0>>

SeedInv == \A p \in Pods : vol[p] \in {Empty, Seed}

(* When edits leave the first tier in its place, one Picodata cluster      *)
(* forms: no second instance bootstraps, however many pods start at once,  *)
(* are lost, rolled, scaled away or brought back (buildConfigMap's peer).  *)
THEOREM OneClusterForms ==
    ASSUME SameFirstTier
    PROVE  Spec => []OneCluster
    <1>1. Init => SeedInv
        BY DEF Init, SeedInv
    <1>2. RolloutInv /\ SeedInv /\ [Next]_vars => SeedInv'
        <2> SUFFICES ASSUME RolloutInv, SeedInv, [Next]_vars PROVE SeedInv'
            OBVIOUS
        <2>1. CASE vol' = vol
            BY <2>1 DEF SeedInv
        <2>2. ASSUME NEW p \in Pods, Bootstrap(p) \/ Join(p)
              PROVE  SeedInv'
            <3>1. PICK c \in Pods :
                      /\ vol' = [vol EXCEPT ![p] = c]
                      /\ \/ c = p /\ Peer(pod[p].config) = p /\ ConfigOK(pod[p].config, p[1])
                         \/ \E q \in Pods : vol[q] = c /\ vol[q] # Empty
                BY <2>2, VolumeSteps
            <3>2. c = Seed
                <4>1. CASE c = p /\ Peer(pod[p].config) = p /\ ConfigOK(pod[p].config, p[1])
                    <5>1. PICK s \in Specs : pod[p].config.peer = s.tiers[1].name
                        BY <4>1 DEF ConfigOK
                    <5>2. (CHOOSE u \in Specs : TRUE) \in Specs
                        OBVIOUS
                    <5> QED BY <4>1, <5>1, <5>2 DEF Peer, Seed, SameFirstTier
                <4>2. CASE \E q \in Pods : vol[q] = c /\ vol[q] # Empty
                    BY <4>2 DEF SeedInv
                <4> QED BY <3>1, <4>1, <4>2
            <3> QED BY <3>1, <3>2 DEF SeedInv, RolloutInv, VolInv
        <2> QED BY <2>1, <2>2
                DEF Next, Operator, Pod, BeginPass, ApplyNext, CreatePod, RollPod, StopPod, PodLost,
                    ConfigInit, PodStep, BecomeReady, SetReady, EditSpec, vars
    <1>3. SeedInv => OneCluster
        BY DEF SeedInv, OneCluster
    <1> QED BY <1>1, <1>2, <1>3, RolloutInvariant, PTL DEF Spec

-----------------------------------------------------------------------------
(* Rolling updates.                                                        *)

(* An edit leaves the replication factor of a tier as it is. *)
SameReplicationFactor ==
    \A t, u \in AllTiers : t.name = u.name => t.replicationFactor = u.replicationFactor

(* One edit at most, and no node was lost: what ServiceKept is about. *)
Calm == spent["edits"] <= 1 /\ spent["losses"] = 0

Asks(s, k) == Objects[s][k] # Absent

(* StatefulSet k, if there is one, is as spec s has it. *)
AsIn(s, k) == obj[k].live => Asks(s, k) /\ obj[k].mut = Objects[s][k].mut

(* The objects are those of the spec or of the one before it, s; a pass    *)
(* that still works on the one before finds no object of the newer.        *)
Since(s) ==
    /\ spent["edits"] = 0 => s = spec
    /\ \A k \in StsKeys : AsIn(s, k) \/ AsIn(spec, k)
    /\ pass.live /\ pass.spec # spec => pass.spec = s /\ \A k \in StsKeys : AsIn(s, k)

(* The template of k may change once more. *)
Young(k) ==
    \/ spent["edits"] = 0
    \/ ~(Asks(spec, k) /\ Template(obj[k]) = Template(Objects[spec][k]))

(* Before its template changes a replicaset that was complete still is.    *)
YoungInv(k) ==
    obj[k].live /\ Young(k) =>
        \A p \in PodsOf(k) : /\ Alive(p) => Current(p)
                             /\ k \in formed /\ Wanted(p) => Ready(p)

(* After that, all pods above one that is down have been replaced.         *)
RollInv(k) ==
    k \in formed =>
        \A p, q \in PodsOf(k) :
            Wanted(p) /\ ~Ready(p) /\ Wanted(q) /\ q[3] > p[3] => Current(q) /\ Ready(q)

OwnedInv ==
    /\ \A p \in Pods : /\ Alive(p) => Sts(p).live
                       /\ Ready(p) => Up(p)
    /\ \A k \in formed : obj[k].live

ServiceInv ==
    /\ OwnedInv
    /\ Calm => /\ \E s \in Specs : Since(s)
               /\ \A k \in StsKeys : YoungInv(k) /\ RollInv(k)

(* Pods of one replicaset differ in their ordinals. *)
LEMMA Ordinals ==
    ASSUME NEW k
    PROVE  /\ \A p \in PodsOf(k) : p \in Pods /\ p[3] \in Nat /\ Sts(p) = obj[k]
           /\ \A p, q \in PodsOf(k) : p[3] = q[3] => p = q
    <1>1. ASSUME NEW p \in PodsOf(k)
          PROVE  p \in Pods /\ p[3] \in Nat /\ p = <<k[2], k[3], p[3]>> /\ StsOf(p) = k
        <2>1. p \in Pods /\ StsOf(p) = k
            BY DEF PodsOf
        <2>2. PICK t \in AllTiers : \E i \in 1..t.replicas : \E o \in 0..(t.replicationFactor - 1) :
                  p = <<t.name, i, o>>
            BY <2>1 DEF Pods
        <2>3. PICK i, o : p = <<t.name, i, o>> /\ o \in 0..(t.replicationFactor - 1)
            BY <2>2
        <2>4. k = <<"StatefulSet", t.name, i>>
            BY <2>1, <2>3 DEF StsOf
        <2> QED BY <2>1, <2>3, <2>4
    <1> QED BY <1>1 DEF Sts

(* A pod belongs to its StatefulSet. *)
LEMMA PodOfSts ==
    ASSUME NEW p \in Pods
    PROVE  p \in PodsOf(StsOf(p)) /\ StsOf(p) \in StsKeys
    BY PodSts DEF PodsOf

(* buildStatefulSet: the specs agree on how many pods a StatefulSet has. *)
LEMMA SameReplicas ==
    ASSUME SameReplicationFactor, NEW s \in Specs, NEW u \in Specs, NEW k \in StsKeys,
           Asks(s, k), Asks(u, k)
    PROVE  Objects[s][k].mut.replicas = Objects[u][k].mut.replicas
    <1>1. ASSUME NEW w \in Specs, Asks(w, k)
          PROVE  \E t \in AllTiers : t.name = k[2] /\ Objects[w][k].mut.replicas = t.replicationFactor
        <2>0. k \in Keys /\ k[1] = "StatefulSet"
            BY DEF Keys, StsKeys, StatefulSetKey
        <2>1. PICK t \in TiersOf(w) : k \in TierKeys(t)
            BY <1>1, <2>0 DEF Objects, Asks
        <2>2. t.name = k[2]
            BY <2>1 DEF TierKeys, ConfigMapKey, InterconnectKey, ClientKey, StatefulSetKey, IngressKey
        <2> DEFINE v == CHOOSE x \in TiersOf(w) : x.name = k[2]
        <2>3. v \in TiersOf(w) /\ v.name = k[2]
            BY <2>2
        <2>4. Objects[w][k] = Build(w, v, k)
            BY <2>0, <2>1 DEF Objects
        <2> HIDE DEF v
        <2>5. Build(w, v, k) = buildStatefulSet(w, v, k[3], ConfigYAML(w, v))
            BY <2>0 DEF Build
        <2>6. Build(w, v, k).mut.replicas = v.replicationFactor
            BY <2>5 DEF buildStatefulSet
        <2>7. v \in AllTiers
            BY <2>3 DEF AllTiers
        <2> QED BY <2>3, <2>4, <2>6, <2>7
    <1> QED BY <1>1 DEF SameReplicationFactor

(* What depends on the objects and the specs only. *)
LEMMA ObjectsSame ==
    ASSUME UNCHANGED <<spec, obj, pass, spent>>
    PROVE  /\ Calm' = Calm
           /\ \A s \in Specs : Since(s)' = Since(s)
           /\ \A k \in StsKeys : Young(k)' = Young(k)
           /\ \A p \in Pods : Wanted(p)' = Wanted(p) /\ Sts(p)' = Sts(p)
    <1>1. Calm' = Calm
        BY DEF Calm
    <1>2. \A s \in Specs : Since(s)' = Since(s)
        BY DEF Since, AsIn, Asks
    <1>3. \A k \in StsKeys : Young(k)' = Young(k)
        BY DEF Young, Asks, Template
    <1>4. \A p \in Pods : Wanted(p)' = Wanted(p) /\ Sts(p)' = Sts(p)
        BY DEF Wanted, Sts, StsOf
    <1> QED BY <1>1, <1>2, <1>3, <1>4

(* What the StatefulSet controller, the kubelet and a failing node make of *)
(* one pod: none is ready afterwards.                                      *)
LEMMA OnePodOwned ==
    ASSUME RolloutInv, OwnedInv, NEW p \in Pods, NEW v, PodStep(p, v),
           v.phase \in {"absent", "created", "running"},
           v.phase # "absent" => Sts(p).live
    PROVE  /\ OwnedInv'
           /\ \A q \in Pods \ {p} : pod'[q] = pod[q]
           /\ pod'[p] = v
    <1>1. /\ pod' = [pod EXCEPT ![p] = v] /\ UNCHANGED <<spec, obj, pass, vol, formed>>
          /\ DOMAIN pod = Pods
        BY DEF PodStep, RolloutInv, PodInv
    <1>2. pod'[p] = v /\ \A q \in Pods \ {p} : pod'[q] = pod[q]
        BY <1>1
    <1> QED BY <1>1, <1>2 DEF OwnedInv, Alive, Sts, Ready, Up

(* As long as the pod it takes was not ready, or is the one whose turn it  *)
(* is, service is kept.                                                    *)
LEMMA OnePodKept ==
    ASSUME RolloutInv, ServiceInv, NEW p \in Pods, NEW v, PodStep(p, v), UNCHANGED spent,
           v.phase \in {"absent", "created", "running"},
           v.phase # "absent" => Sts(p).live,
           \/ v.phase = "absent"
           \/ v.rev = Template(Sts(p))
           \/ Alive(p) /\ v.rev = pod[p].rev,
           Ready(p) => /\ ~Current(p)
                       /\ \A q \in PodsOf(StsOf(p)) : Wanted(q) /\ q[3] > p[3] => Current(q) /\ Ready(q)
    PROVE  ServiceInv'
    <1>1. /\ OwnedInv' /\ \A q \in Pods \ {p} : pod'[q] = pod[q]
          /\ pod'[p] = v
        BY OnePodOwned DEF ServiceInv
    <1>2. UNCHANGED <<spec, obj, pass, vol, formed>>
        BY DEF PodStep
    <1>3. /\ \A q \in Pods : Wanted(q)' = Wanted(q) /\ Sts(q)' = Sts(q)
          /\ Calm' = Calm /\ \A s \in Specs : Since(s)' = Since(s)
          /\ \A k \in StsKeys : Young(k)' = Young(k)
        BY <1>2, ObjectsSame
    <1>4. /\ \A q \in Pods \ {p} : /\ Ready(q)' = Ready(q) /\ Alive(q)' = Alive(q)
                                   /\ Current(q)' = Current(q)
          /\ ~Ready(p)' /\ (Alive(p)' /\ (Alive(p) => Current(p)) => Current(p)')
        BY <1>1, <1>3 DEF Ready, Alive, Current, Template
    <1>5. ASSUME Calm, NEW k \in StsKeys PROVE YoungInv(k)' /\ RollInv(k)'
        <2>1. YoungInv(k) /\ RollInv(k)
            BY <1>5 DEF ServiceInv
        <2>2. \A q \in PodsOf(k) : q \in Pods
            BY DEF PodsOf
        <2>3. PodsOf(k)' = PodsOf(k)
            BY DEF PodsOf
        <2>4. YoungInv(k)'
            <3> SUFFICES ASSUME obj[k].live, Young(k), NEW q \in PodsOf(k)
                         PROVE  (Alive(q) => Current(q))' /\ (k \in formed /\ Wanted(q) => Ready(q)')
                BY <1>2, <1>3, <2>2, <2>3 DEF YoungInv
            <3>1. (Alive(q) => Current(q)) /\ (k \in formed /\ Wanted(q) => Ready(q))
                BY <2>1 DEF YoungInv
            <3>2. CASE q # p
                BY <1>4, <2>2, <3>1, <3>2
            <3>3. CASE q = p
                <4>1. ~(k \in formed /\ Wanted(p))
                    BY <3>1, <3>3 DEF Alive, Ready
                <4> QED BY <1>4, <3>1, <3>3, <4>1
            <3> QED BY <3>2, <3>3
        <2>5. RollInv(k)'
            <3> SUFFICES ASSUME k \in formed, NEW a \in PodsOf(k), NEW b \in PodsOf(k),
                                Wanted(a), ~Ready(a)', Wanted(b), b[3] > a[3]
                         PROVE  Current(b)' /\ Ready(b)'
                BY <1>2, <1>3, <2>2, <2>3 DEF RollInv
            <3>1. ~Ready(a) => Current(b) /\ Ready(b)
                BY <2>1 DEF RollInv
            <3>2. a # b
                BY Ordinals
            <3>3. CASE a = p
                <4>1. StsOf(p) = k
                    BY <3>3 DEF PodsOf
                <4>2. Current(b) /\ Ready(b)
                    BY <3>1, <3>3, <4>1
                <4> QED BY <1>4, <2>2, <3>2, <3>3, <4>2
            <3>4. CASE a # p
                <4>1. ~Ready(a)
                    BY <1>4, <2>2, <3>4
                <4>2. b # p
                    BY <3>1, <4>1
                <4> QED BY <1>4, <2>2, <3>1, <4>1, <4>2
            <3> QED BY <3>3, <3>4
        <2> QED BY <2>4, <2>5
    <1> QED BY <1>1, <1>3, <1>5 DEF ServiceInv

(* The StatefulSet controller and the init container. *)
LEMMA ControllerKeeps ==
    ASSUME RolloutInv, ServiceInv, NEW p \in Pods,
           CreatePod(p) \/ RollPod(p) \/ StopPod(p) \/ ConfigInit(p)
    PROVE  ServiceInv'
    <1>1. CASE CreatePod(p)
        <2> DEFINE v == [phase |-> "created", rev |-> Template(Sts(p)), config |-> NoConfig]
        <2>1. PodStep(p, v) /\ spent' = spent /\ Sts(p).live /\ ~Ready(p)
            BY <1>1 DEF CreatePod, Wanted, Ready, NoPod
        <2>2. v.phase = "created" /\ v.rev = Template(Sts(p))
            OBVIOUS
        <2> HIDE DEF v
        <2> QED BY <2>1, <2>2, OnePodKept
    <1>2. CASE RollPod(p)
        <2>1. /\ PodStep(p, NoPod) /\ spent' = spent /\ ~Current(p)
              /\ \A q \in PodsOf(StsOf(p)) : Wanted(q) /\ q[3] > p[3] => Current(q) /\ Ready(q)
            BY <1>2 DEF RollPod
        <2>2. NoPod.phase = "absent"
            BY DEF NoPod
        <2> QED BY <2>1, <2>2, OnePodKept
    <1>3. CASE StopPod(p)
        <2>1. PodStep(p, NoPod) /\ spent' = spent /\ ~Ready(p)
            BY <1>3 DEF StopPod, Ready
        <2>2. NoPod.phase = "absent"
            BY DEF NoPod
        <2> QED BY <2>1, <2>2, OnePodKept
    <1>4. CASE ConfigInit(p)
        <2> DEFINE cm == obj[<<"ConfigMap", p[1], 0>>]
                   v == [pod[p] EXCEPT !.phase = "running", !.config = cm.mut.data]
        <2>1. PodStep(p, v) /\ spent' = spent /\ pod[p].phase = "created"
            BY <1>4 DEF ConfigInit
        <2>2. Alive(p) /\ ~Ready(p) /\ Sts(p).live
            BY <2>1 DEF Alive, Ready, ServiceInv, OwnedInv
        <2>3. DOMAIN pod[p] = {"phase", "rev", "config"}
            BY <2>1 DEF RolloutInv, PodInv, NoPod
        <2>4. v.phase = "running" /\ v.rev = pod[p].rev
            BY <2>3
        <2> HIDE DEF v
        <2> QED BY <2>1, <2>2, <2>4, OnePodKept
    <1> QED BY <1>1, <1>2, <1>3, <1>4

(* PodLost: no calm any more. *)
LEMMA LossKeeps ==
    ASSUME RolloutInv, ServiceInv, NEW p \in Pods, PodLost(p)
    PROVE  ServiceInv'
    <1>1. PodStep(p, NoPod) /\ Spend("losses")
        BY DEF PodLost
    <1>2. OwnedInv'
        BY <1>1, OnePodOwned DEF ServiceInv, NoPod
    <1>3. spent'["losses"] # 0
        BY <1>1 DEF Spend, RolloutInv, MiscInv, Disturbances
    <1> QED BY <1>2, <1>3 DEF ServiceInv, Calm

(* Bootstrap and Join touch only volumes. *)
LEMMA VolumeKeeps ==
    ASSUME ServiceInv, UNCHANGED <<spec, obj, pass, pod, formed, spent>>
    PROVE  ServiceInv'
    <1>1. OwnedInv'
        BY DEF ServiceInv, OwnedInv, Alive, Sts, Ready, Up
    <1>2. /\ Calm' = Calm /\ \A s \in Specs : Since(s)' = Since(s)
          /\ \A k \in StsKeys : Young(k)' = Young(k)
        BY ObjectsSame
    <1>3. \A k \in StsKeys : YoungInv(k)' = YoungInv(k) /\ RollInv(k)' = RollInv(k)
        BY <1>2 DEF YoungInv, RollInv, PodsOf, Alive, Current, Wanted, Ready, Sts, Template
    <1> QED BY <1>1, <1>2, <1>3 DEF ServiceInv

(* BecomeReady: one pod more serves; a replicaset that this completes has  *)
(* none down.                                                              *)
LEMMA ReadyKeeps ==
    ASSUME RolloutInv, ServiceInv, NEW p \in Pods, BecomeReady(p)
    PROVE  ServiceInv'
    <1>1. /\ pod[p].phase = "running" /\ Up(p)
          /\ pod' = [pod EXCEPT ![p].phase = "ready"]
          /\ formed' = formed \cup
                { k \in {StsOf(p)} : \A q \in PodsOf(k) : Wanted(q) => q = p \/ Ready(q) }
          /\ UNCHANGED <<spec, obj, pass, vol, spent>>
        BY DEF BecomeReady, SetReady
    <1>2. DOMAIN pod[p] = {"phase", "rev", "config"}
        BY <1>1 DEF RolloutInv, PodInv, NoPod
    <1>3. /\ pod'[p].phase = "ready" /\ pod'[p].config = pod[p].config
          /\ pod'[p].rev = pod[p].rev
          /\ \A q \in Pods \ {p} : pod'[q] = pod[q]
        BY <1>1, <1>2 DEF RolloutInv, PodInv
    <1>4. Alive(p) /\ Sts(p).live /\ ~Ready(p)
        BY <1>1 DEF Alive, ServiceInv, OwnedInv, Ready
    <1>5. /\ \A q \in Pods : Wanted(q)' = Wanted(q) /\ Sts(q)' = Sts(q)
          /\ Calm' = Calm /\ \A s \in Specs : Since(s)' = Since(s)
          /\ \A k \in StsKeys : Young(k)' = Young(k)
        BY <1>1, ObjectsSame
    <1>6. /\ \A q \in Pods : /\ Ready(q)' <=> (q = p \/ Ready(q))
                             /\ Alive(q)' = Alive(q) /\ Current(q)' = Current(q)
        BY <1>3, <1>4, <1>5 DEF Ready, Alive, Current, Template
    <1>7. OwnedInv'
        <2>1. \A q \in Pods : (Alive(q) => Sts(q).live)' /\ (Ready(q) => Up(q))'
            BY <1>1, <1>3, <1>4, <1>5, <1>6 DEF ServiceInv, OwnedInv, Up, Ready
        <2>2. \A k \in formed' : obj'[k].live
            BY <1>1, <1>4 DEF ServiceInv, OwnedInv, Sts
        <2> QED BY <2>1, <2>2 DEF OwnedInv
    <1>8. ASSUME Calm, NEW k \in StsKeys PROVE YoungInv(k)' /\ RollInv(k)'
        <2>1. YoungInv(k) /\ RollInv(k)
            BY <1>8 DEF ServiceInv
        <2>2. \A q \in PodsOf(k) : q \in Pods
            BY DEF PodsOf
        <2>3. PodsOf(k)' = PodsOf(k)
            BY DEF PodsOf
        <2>4. CASE k \in formed \/ k \notin formed'
            BY <1>1, <1>5, <1>6, <2>1, <2>2, <2>3, <2>4 DEF YoungInv, RollInv
        <2>5. CASE k \notin formed /\ k \in formed'
            <3>1. \A q \in PodsOf(k) : Wanted(q)' => Ready(q)'
                BY <1>1, <1>5, <1>6, <2>2, <2>5
            <3> QED BY <1>1, <1>5, <1>6, <2>1, <2>2, <2>3, <3>1 DEF YoungInv, RollInv
        <2> QED BY <2>4, <2>5
    <1> QED BY <1>5, <1>7, <1>8 DEF ServiceInv

(* BeginPass: from now on the pass works on the newest spec. *)
LEMMA BeginKeeps ==
    ASSUME ServiceInv, BeginPass
    PROVE  ServiceInv'
    <1>1. /\ pass' = [live |-> TRUE, spec |-> spec, tier |-> 1, key |-> ConfigMapKey(spec.tiers[1])]
          /\ UNCHANGED <<spec, obj, pod, vol, formed, spent>>
        BY DEF BeginPass
    <1>2. OwnedInv'
        BY <1>1 DEF ServiceInv, OwnedInv, Alive, Sts, Ready, Up
    <1>3. \A k \in StsKeys : YoungInv(k)' = YoungInv(k) /\ RollInv(k)' = RollInv(k)
        BY <1>1
        DEF YoungInv, RollInv, Young, Asks, PodsOf, Alive, Current, Wanted, Ready, Sts, Template
    <1>4. pass'.spec = spec'
        BY <1>1
    <1>5. \A s \in Specs : Since(s) => Since(s)'
        BY <1>1, <1>4 DEF Since, AsIn, Asks
    <1> QED BY <1>1, <1>2, <1>3, <1>5 DEF ServiceInv, Calm

(* EditSpec: the first edit finds every object as the spec before it has   *)
(* it and every pod with the newest template; after a second there is no   *)
(* calm.                                                                   *)
LEMMA EditKeeps ==
    ASSUME RolloutInv, ServiceInv, EditSpec
    PROVE  ServiceInv'
    <1>1. /\ Spend("edits") /\ spec' \in Specs /\ spec \in Specs
          /\ UNCHANGED <<obj, pass, pod, vol, formed>>
        BY DEF EditSpec, RolloutInv, MiscInv
    <1>2. OwnedInv'
        BY <1>1 DEF ServiceInv, OwnedInv, Alive, Sts, Ready, Up
    <1>3. /\ spent["edits"] \in Nat /\ spent'["edits"] = spent["edits"] + 1
          /\ spent'["losses"] = spent["losses"]
        BY <1>1 DEF Spend, RolloutInv, MiscInv, Disturbances
    <1>4. ASSUME Calm'
          PROVE  (\E s \in Specs : Since(s)') /\ \A k \in StsKeys : YoungInv(k)' /\ RollInv(k)'
        <2>1. spent["edits"] = 0 /\ Calm
            BY <1>3, <1>4 DEF Calm
        <2>2. Since(spec) /\ \A k \in StsKeys : YoungInv(k) /\ RollInv(k)
            BY <2>1 DEF ServiceInv, Since
        <2>3. \A k \in StsKeys : AsIn(spec, k)
            BY <2>2 DEF Since
        <2>4. pass.live => pass.spec = spec
            BY <2>2 DEF Since
        <2> DEFINE was == spec
        <2>5. /\ spent'["edits"] # 0
              /\ \A k \in StsKeys : obj'[k].live => Objects[was][k] # Absent /\ obj'[k].mut = Objects[was][k].mut
              /\ pass'.live => pass'.spec = was
            BY <1>1, <1>3, <2>1, <2>3, <2>4 DEF AsIn, Asks
        <2>6. \E s \in Specs : Since(s)'
            <3>1. was \in Specs
                BY <1>1
            <3> HIDE DEF was
            <3> QED BY <2>5, <3>1 DEF Since, AsIn, Asks
        <2>7. \A k \in StsKeys : YoungInv(k)' /\ RollInv(k)'
            BY <1>1, <2>1, <2>2
            DEF YoungInv, RollInv, Young, PodsOf, Alive, Current, Wanted, Ready, Sts, Template
        <2> QED BY <2>6, <2>7
    <1> QED BY <1>2, <1>4 DEF ServiceInv

(* A replicaset that a step does not concern. *)
LEMMA OtherReplicaset ==
    ASSUME NEW j \in StsKeys, UNCHANGED <<spec, spent>>,
           obj'[j].live = obj[j].live, obj'[j].mut = obj[j].mut,
           \A q \in PodsOf(j) : pod'[q] = pod[q], (j \in formed') = (j \in formed)
    PROVE  YoungInv(j)' = YoungInv(j) /\ RollInv(j)' = RollInv(j)
    <1>1. PodsOf(j)' = PodsOf(j) /\ Young(j)' = Young(j)
        BY DEF PodsOf, Young, Asks, Template
    <1>2. ASSUME NEW q \in PodsOf(j)
          PROVE  /\ Alive(q)' = Alive(q) /\ Ready(q)' = Ready(q) /\ Wanted(q)' = Wanted(q)
                 /\ Current(q)' = Current(q)
        <2>1. StsOf(q) = j /\ StsOf(q)' = j
            BY DEF PodsOf, StsOf
        <2> QED BY <2>1 DEF Alive, Ready, Wanted, Current, Sts, Template
    <1> QED BY <1>1, <1>2 DEF YoungInv, RollInv

(* The pass keeps the spec it began with. *)
LEMMA PassSpec ==
    ASSUME PassInv, pass.live, Advance
    PROVE  pass'.live => pass'.spec = pass.spec
    BY DEF Advance, NextTier, PassInv, Absent

(* A StatefulSet is created or patched. *)
LEMMA PatchKeeps ==
    ASSUME SameReplicationFactor, RolloutInv, ServiceInv, Calm,
           NEW s \in Specs, Since(s), NEW u \in Specs, u = spec \/ (u = s /\ \A j \in StsKeys : AsIn(s, j)),
           NEW k \in StsKeys, Asks(u, k),
           obj'[k].live, obj'[k].mut = Objects[u][k].mut,
           UNCHANGED <<spec, spent, pod, formed>>
    PROVE  YoungInv(k)' /\ RollInv(k)'
    <1>1. YoungInv(k) /\ RollInv(k) /\ spec \in Specs
        BY DEF ServiceInv, RolloutInv, MiscInv
    <1>2. \A q \in PodsOf(k) : q \in Pods /\ StsOf(q) = k
        BY DEF PodsOf
    <1>3. PodsOf(k)' = PodsOf(k) /\ \A q \in PodsOf(k) : Sts(q)' = obj'[k]
        BY <1>2 DEF PodsOf, Sts, StsOf
    <1>4. CASE ~obj[k].live
        <2>1. k \notin formed' /\ \A q \in PodsOf(k) : ~Alive(q)'
            BY <1>2, <1>4 DEF ServiceInv, OwnedInv, Sts, Alive
        <2> QED BY <1>3, <2>1 DEF YoungInv, RollInv
    <1>5. CASE obj[k].live /\ obj[k].mut = Objects[u][k].mut
        <2>1. obj'[k].live = obj[k].live
            <3>1. obj[k].live = TRUE /\ obj'[k].live = TRUE
                BY <1>5 DEF ServiceInv
            <3> QED BY <3>1
        <2> QED BY <1>1, <1>5, <2>1, OtherReplicaset
    <1>6. CASE obj[k].live /\ obj[k].mut # Objects[u][k].mut
        <2>1. u = spec /\ AsIn(s, k)
            BY <1>6 DEF Since, AsIn
        <2>2. ~Young(k)'
            <3>1. spent["edits"] # 0
                BY <1>6, <2>1 DEF Since, AsIn
            <3> QED BY <2>1, <3>1 DEF Young, Asks, Template
        <2>3. obj'[k].mut.replicas = obj[k].mut.replicas
            BY <1>1, <1>6, <2>1, SameReplicas DEF AsIn
        <2>4. \A q \in PodsOf(k) : Wanted(q)' <=> Wanted(q)
            BY <1>2, <1>3, <1>6, <2>3 DEF Wanted, Sts
        <2>5. CASE Young(k)
            <3>1. \A q \in PodsOf(k) : k \in formed /\ Wanted(q) => Ready(q)
                BY <1>1, <1>6, <2>5 DEF YoungInv
            <3> QED BY <1>3, <2>2, <2>4, <3>1 DEF YoungInv, RollInv, Ready
        <2>6. CASE ~Young(k)
            <3>1. Template(obj[k])' = Template(obj[k])
                BY <2>1, <2>6 DEF Young, Template
            <3>2. \A q \in PodsOf(k) : Current(q)' <=> Current(q)
                BY <1>2, <1>3, <3>1 DEF Current, Alive, Sts, Template
            <3> QED BY <1>1, <1>3, <2>2, <2>4, <3>2 DEF YoungInv, RollInv, Ready
        <2> QED BY <2>5, <2>6
    <1> QED BY <1>4, <1>5, <1>6

(* ApplyNext, for the objects, the pods and the newest spec. *)
LEMMA ApplyKeeps ==
    ASSUME SameReplicationFactor, RolloutInv, ServiceInv, ApplyNext
    PROVE  ServiceInv'
    <1>0. PICK k, u, v : k = pass.key /\ u = pass.spec /\ v = Applied(u, k)
        OBVIOUS
    <1>1. /\ pass.live /\ Store(k, v) /\ Advance /\ UNCHANGED <<spec, vol, spent>>
          /\ k \in Keys /\ u \in Specs /\ DOMAIN obj = Keys
        BY <1>0 DEF ApplyNext, RolloutInv, PassInv, ObjInv
    <1>2. \/ v = Absent
          \/ v.live = TRUE /\ Asks(u, k) /\ v.mut = Objects[u][k].mut
        BY <1>0 DEF Applied, Asks
    <1>3. pass'.live => pass'.spec = u
        BY <1>0, <1>1, PassSpec DEF RolloutInv
    <1>4. /\ obj' = [obj EXCEPT ![k] = v] /\ obj'[k] = v
          /\ \A j \in Keys \ {k} : obj'[j] = obj[j]
        BY <1>1 DEF Store
    <1>5. /\ formed' \subseteq formed /\ formed \ {k} \subseteq formed'
          /\ v.live => pod' = pod /\ formed' = formed
          /\ ~v.live => k \notin formed' /\ \A p \in PodsOf(k) : ~Alive(p)'
          /\ \A p \in Pods : StsOf(p) # k => pod'[p] = pod[p]
        <2>1. CASE v.live
            BY <1>1, <2>1 DEF Store
        <2>2. CASE ~v.live
            <3>1. /\ pod' = [p \in Pods |-> IF p \in PodsOf(k) /\ pod[p] # NoPod
                                            THEN [pod[p] EXCEPT !.phase = "going"] ELSE pod[p]]
                  /\ formed' = formed \ {k}
                BY <1>1, <2>2 DEF Store
            <3>2. ASSUME NEW p \in PodsOf(k) PROVE ~Alive(p)'
                <4>1. p \in Pods
                    BY DEF PodsOf
                <4>2. pod[p] # NoPod => DOMAIN pod[p] = {"phase", "rev", "config"}
                    BY <4>1 DEF RolloutInv, PodInv
                <4>3. pod'[p].phase \in {"going", "absent"}
                    BY <3>1, <4>1, <4>2 DEF NoPod
                <4> QED BY <4>3 DEF Alive
            <3>3. \A p \in Pods : StsOf(p) # k => pod'[p] = pod[p]
                BY <3>1 DEF PodsOf
            <3> QED BY <2>2, <3>1, <3>2, <3>3
        <2> QED BY <2>1, <2>2
    <1>6. OwnedInv'
        <2>1. ASSUME NEW p \in Pods PROVE (Alive(p) => Sts(p).live)' /\ (Ready(p) => Up(p))'
            <3>0. StsOf(p) \in Keys /\ StsOf(p)' = StsOf(p)
                BY PodSts DEF StsOf
            <3>1. CASE StsOf(p) = k /\ ~v.live
                <4>1. ~Alive(p)'
                    BY <1>5, <3>1 DEF PodsOf
                <4> QED BY <4>1 DEF Alive, Ready
            <3>2. CASE StsOf(p) = k /\ v.live
                BY <1>4, <1>5, <3>0, <3>2 DEF ServiceInv, OwnedInv, Sts, Alive, Ready, Up
            <3>3. CASE StsOf(p) # k
                BY <1>4, <1>5, <3>0, <3>3 DEF ServiceInv, OwnedInv, Sts, Alive, Ready, Up
            <3> QED BY <3>1, <3>2, <3>3
        <2>2. ASSUME NEW j \in formed' PROVE obj'[j].live
            <3>1. j \in formed /\ j \in Keys /\ obj[j].live
                BY <1>5 DEF ServiceInv, OwnedInv, RolloutInv, MiscInv, Keys
            <3> QED BY <1>4, <1>5, <3>1
        <2> QED BY <2>1, <2>2 DEF OwnedInv
    <1>7. ASSUME Calm
          PROVE  (\E s \in Specs : Since(s)') /\ \A j \in StsKeys : YoungInv(j)' /\ RollInv(j)'
        <2>1. PICK s \in Specs : Since(s)
            BY <1>7 DEF ServiceInv
        <2>2. u = spec \/ (u = s /\ \A j \in StsKeys : AsIn(s, j))
            BY <1>0, <1>1, <2>1 DEF Since
        <2>3. ASSUME NEW j \in StsKeys, j # k
              PROVE  YoungInv(j)' /\ RollInv(j)' /\ \A w \in Specs : AsIn(w, j)' = AsIn(w, j)
            <3>1. j \in Keys /\ YoungInv(j) /\ RollInv(j)
                BY <1>7 DEF ServiceInv, Keys
            <3>2. /\ obj'[j] = obj[j] /\ (j \in formed') = (j \in formed)
                  /\ \A q \in PodsOf(j) : pod'[q] = pod[q]
                BY <1>4, <1>5, <2>3, <3>1 DEF PodsOf
            <3>3. YoungInv(j)' /\ RollInv(j)'
                BY <1>1, <3>1, <3>2, OtherReplicaset
            <3> QED BY <3>2, <3>3 DEF AsIn, Asks
        <2>4. AsIn(u, k)'
            BY <1>2, <1>4 DEF AsIn, Asks, Absent
        <2>5. Since(s)'
            <3>1. \A j \in StsKeys : AsIn(s, j)' \/ AsIn(spec, j)'
                BY <1>1, <2>1, <2>2, <2>3, <2>4 DEF Since, RolloutInv, MiscInv
            <3>2. pass'.live /\ u # spec => u = s /\ \A j \in StsKeys : AsIn(s, j)'
                BY <2>2, <2>3, <2>4
            <3> QED BY <1>1, <1>3, <2>1, <3>1, <3>2 DEF Since, AsIn
        <2>6. ASSUME k \in StsKeys PROVE YoungInv(k)' /\ RollInv(k)'
            <3>1. CASE v = Absent
                BY <1>4, <1>5, <3>1 DEF YoungInv, RollInv, Absent
            <3>2. CASE v.live = TRUE /\ Asks(u, k) /\ v.mut = Objects[u][k].mut
                BY <1>1, <1>4, <1>5, <1>7, <2>1, <2>2, <2>6, <3>2, PatchKeeps
            <3> QED BY <1>2, <3>1, <3>2
        <2> QED BY <2>3, <2>5, <2>6
    <1>8. Calm' => Calm
        BY <1>1 DEF Calm
    <1> QED BY <1>6, <1>7, <1>8 DEF ServiceInv

(* Edits that leave the replication factors alone roll through a complete  *)
(* replicaset one pod at a time, from the highest down, and stop at the    *)
(* first that does not become ready (property ServiceKept): this rests on  *)
(* the readiness probe of buildStatefulSet and on its one template per     *)
(* edit.                                                                   *)
THEOREM ServiceIsKept ==
    ASSUME SameReplicationFactor
    PROVE  Spec => []ServiceKept
    <1>1. Init => ServiceInv
        <2> SUFFICES ASSUME Init PROVE ServiceInv
            OBVIOUS
        <2>1. \A p \in Pods : ~Alive(p) /\ ~Ready(p)
            BY DEF Init, Alive, Ready, NoPod
        <2>2. \A k \in StsKeys : ~obj[k].live /\ k \notin formed
            BY DEF Init, Absent, Keys
        <2>3. Since(spec) /\ spec \in Specs
            BY <2>2 DEF Init, Since, AsIn, Absent
        <2> QED BY <2>1, <2>2, <2>3 DEF Init, ServiceInv, OwnedInv, YoungInv, RollInv
    <1>2. RolloutInv /\ ServiceInv /\ [Next]_vars => ServiceInv'
        <2> SUFFICES ASSUME RolloutInv, ServiceInv, [Next]_vars PROVE ServiceInv'
            OBVIOUS
        <2>1. ASSUME NEW p \in Pods, Bootstrap(p) \/ Join(p) PROVE ServiceInv'
            BY <2>1, VolumeKeeps DEF Bootstrap, Join, VolumeStep
        <2>2. ASSUME UNCHANGED vars PROVE ServiceInv'
            BY <2>2, VolumeKeeps DEF vars
        <2> QED BY <2>1, <2>2, BeginKeeps, ApplyKeeps, ControllerKeeps, ReadyKeeps, EditKeeps, LossKeeps
                DEF Next, Operator, Pod
    <1>3. RolloutInv /\ ServiceInv => ServiceKept
        <2> SUFFICES ASSUME RolloutInv, ServiceInv, Calm, NEW k \in formed,
                            NEW p \in Down(k), NEW q \in Down(k)
                     PROVE  p = q
            BY DEF ServiceKept, Calm
        <2>1. k \in StsKeys /\ RollInv(k)
            BY DEF RolloutInv, MiscInv, ServiceInv
        <2>2. /\ p \in PodsOf(k) /\ q \in PodsOf(k) /\ Wanted(p) /\ Wanted(q)
              /\ ~Ready(p) /\ ~Ready(q)
            BY DEF Down, ServiceInv, OwnedInv, PodsOf
        <2>3. ~(q[3] > p[3]) /\ ~(p[3] > q[3])
            BY <2>1, <2>2 DEF RollInv
        <2>4. p[3] = q[3]
            BY <2>2, <2>3, Ordinals
        <2> QED BY <2>2, <2>4, Ordinals
    <1> QED BY <1>1, <1>2, <1>3, RolloutInvariant, PTL DEF Spec
=============================================================================
