-------------------------- MODULE PicoclusterTypes --------------------------
(***************************************************************************)
(* The PicoclusterDB resource (api/v1) and the functions that build the    *)
(* child objects of one tier from it (configmap.go, service.go,            *)
(* statefulset.go, ingress.go).                                            *)
(*                                                                         *)
(* A spec is a record                                                      *)
(*   [clusterName, cluster, image, imagePullSecrets, service, tiers]       *)
(* and tiers is a non-empty sequence of records                            *)
(*   [name, replicas, replicationFactor, canVote, conf, pod, placement,    *)
(*    storage, plugins, ingress].                                          *)
(* conf stands for the engine settings of the tier that end up only in     *)
(* config.yaml (memtx, vinyl, log, pg, shareDir), pod for those that end   *)
(* up only in its containers (resources, env), image for the cluster-wide  *)
(* ones (image, pull policy, probes, admin password), placement for the    *)
(* rest of its pod spec (affinity, tolerations, nodeSelector, spread       *)
(* constraints, security context), and route for host, class, TLS and      *)
(* annotations of the Ingress.  A set of services stands for a list of     *)
(* them.  The name and namespace of the resource never change and are left *)
(* out of names, labels and addresses.                                     *)
(*                                                                         *)
(* A built object is [mut, fixed]: mut holds the fields the reconciler     *)
(* patches on an existing object, fixed those only Create sets.            *)
(***************************************************************************)
EXTENDS Integers, Sequences

CONSTANT IntBits  \* the width of Go's int32: 32, less in small instances

ASSUME IntBitsAssumption == IntBits \in Nat \ {0}

(* int32 arithmetic wraps around. *)
Int32(n) == ((n + 2^(IntBits - 1)) % 2^IntBits) - 2^(IntBits - 1)

(* What the schema of the CRD lets through: the fields and their ranges.   *)
ValidPlugin(plugin) ==
    \A svc \in plugin.services : svc.listenerPort \in 1..65535

TierFields == {"name", "replicas", "replicationFactor", "canVote", "conf", "pod",
               "placement", "storage", "plugins", "ingress"}

ValidTier(tier) ==
    /\ DOMAIN tier = TierFields
    /\ tier.replicas \in Nat \ {0}
    /\ tier.replicationFactor \in Nat \ {0}
    /\ tier.canVote \in BOOLEAN
    /\ tier.ingress.enabled \in BOOLEAN
    /\ \A p \in DOMAIN tier.plugins : ValidPlugin(tier.plugins[p])

ValidSpec(spec) ==
    /\ Len(spec.tiers) \in Nat \ {0}
    /\ DOMAIN spec.tiers = 1..Len(spec.tiers)
    /\ \A j \in DOMAIN spec.tiers : ValidTier(spec.tiers[j])

servicePort(v, defaultV) == IF v = 0 THEN defaultV ELSE v

ServicePorts(spec) ==
    [binary |-> servicePort(spec.service.binaryPort, 3301),
     http   |-> servicePort(spec.service.httpPort, 8081),
     pg     |-> servicePort(spec.service.pgPort, 5432)]

(* Every service of every plugin of the tier, with its listener port. *)
PluginServices(tier) ==
    UNION { { [plugin |-> tier.plugins[p].name, service |-> s.name,
               port |-> s.listenerPort] : s \in tier.plugins[p].services }
            : p \in DOMAIN tier.plugins }

buildPluginListenerConfig(tier) == { s \in PluginServices(tier) : s.port > 0 }

-----------------------------------------------------------------------------
(* Mutant of ConfigYAML: the peer is pod 0 of the instance's own tier. *)
ConfigYAMLOwnPeer(spec, tier) ==
    [cluster |-> [name |-> spec.clusterName, params |-> spec.cluster],
     tiers   |-> [j \in DOMAIN spec.tiers |->
                    [name              |-> spec.tiers[j].name,
                     replicationFactor |-> servicePort(spec.tiers[j].replicationFactor, 1),
                     canVote           |-> spec.tiers[j].canVote]],
     peer    |-> tier.name,
     tier    |-> tier.name,
     ports   |-> ServicePorts(spec),
     conf    |-> tier.conf,
     plugin  |-> buildPluginListenerConfig(tier)]

(* config.yaml: each instance gets the topology of the whole cluster, the  *)
(* peer to bootstrap from (pod 0 of replicaset 1 of the FIRST tier), and   *)
(* the settings of its own tier.                                           *)
ConfigYAML(spec, tier) ==
    [cluster |-> [name |-> spec.clusterName, params |-> spec.cluster],
     tiers   |-> [j \in DOMAIN spec.tiers |->
                    [name              |-> spec.tiers[j].name,
                     replicationFactor |-> servicePort(spec.tiers[j].replicationFactor, 1),
                     canVote           |-> spec.tiers[j].canVote]],
     peer    |-> spec.tiers[1].name,
     tier    |-> tier.name,
     ports   |-> ServicePorts(spec),
     conf    |-> tier.conf,
     plugin  |-> buildPluginListenerConfig(tier)]

(* Mutant of configHash: only the cluster section is hashed. *)
configHashOfCluster(configData) == [sha256 |-> configData.cluster]

(* The first 8 bytes of a SHA-256; taken to be free of collisions. *)
configHash(configData) == [sha256 |-> configData]

tierLabels(spec, tier) == [name |-> tier.name, cluster |-> spec.clusterName]

replicasetLabels(spec, tier, rsIndex) ==
    [name |-> tier.name, cluster |-> spec.clusterName, replicaset |-> rsIndex]

(* ConfigMaps are built without labels. *)
buildConfigMap(spec, tier) ==
    [mut |-> [data |-> ConfigYAML(spec, tier)], fixed |-> <<>>]

(* The labels of a Service always equal its selector. *)
buildInterconnectService(spec, tier) ==
    [mut   |-> [ports    |-> [binary |-> ServicePorts(spec).binary,
                              pg     |-> ServicePorts(spec).pg],
                selector |-> tierLabels(spec, tier)],
     fixed |-> [clusterIP |-> "None", publishNotReadyAddresses |-> TRUE]]

buildClientService(spec, tier) ==
    [mut   |-> [ports    |-> [base |-> ServicePorts(spec), plugin |-> PluginServices(tier)],
                selector |-> tierLabels(spec, tier)],
     fixed |-> [type |-> spec.service.type]]

(* The init container makes a pod's config.yaml out of the ConfigMap's: it *)
(* fills in the address that each of these services advertises.            *)
buildConfigInitContainer(tier) == { s \in PluginServices(tier) : ~(s.port <= 0) }

(* The containers of a pod. *)
Containers(spec, tier) ==
    [image |-> spec.image, pod |-> tier.pod, ports |-> ServicePorts(spec),
     plugin |-> PluginServices(tier), init |-> buildConfigInitContainer(tier)]

(* Mutant of buildStatefulSet: Kubernetes' default pod management policy. *)
buildStatefulSetOrderedReady(spec, tier, rsIndex, configData) ==
    [mut   |-> [replicas   |-> tier.replicationFactor,
                checksum   |-> configHash(configData),
                scrapePort |-> ServicePorts(spec).http,
                containers |-> Containers(spec, tier),
                placement  |-> tier.placement,
                imagePullSecrets |-> spec.imagePullSecrets,
                labels     |-> replicasetLabels(spec, tier, rsIndex)],
     fixed |-> [selector |-> replicasetLabels(spec, tier, rsIndex),
                storage  |-> tier.storage,
                podManagementPolicy |-> "OrderedReady"]]

(* A StatefulSet runs one replicaset of replicationFactor pods.  The       *)
(* container and init-container arrays are replaced as a whole by a merge  *)
(* patch; the two annotations and the labels are fields of their own.      *)
(* labels stands for the object's labels and for the template's, which     *)
(* are always equal.                                                       *)
buildStatefulSet(spec, tier, rsIndex, configData) ==
    [mut   |-> [replicas   |-> tier.replicationFactor,
                checksum   |-> configHash(configData),
                scrapePort |-> ServicePorts(spec).http,
                containers |-> Containers(spec, tier),
                placement  |-> tier.placement,
                imagePullSecrets |-> spec.imagePullSecrets,
                labels     |-> replicasetLabels(spec, tier, rsIndex)],
     fixed |-> [selector |-> replicasetLabels(spec, tier, rsIndex),
                storage  |-> tier.storage,
                podManagementPolicy |-> "Parallel"]]

(* The fields of a StatefulSet that make its pod template. *)
TemplateFields == {"checksum", "scrapePort", "containers", "placement",
                   "imagePullSecrets"}
Template(o) == [f \in TemplateFields |-> o.mut[f]]

buildIngress(spec, tier) ==
    [mut   |-> [route  |-> tier.ingress.route,
                port   |-> ServicePorts(spec).http,
                labels |-> tierLabels(spec, tier)],
     fixed |-> <<>>]

-----------------------------------------------------------------------------
(* The children of a tier, <<kind, tier, replicaset>>; 0 where a kind has  *)
(* one object per tier.                                                    *)
ConfigMapKey(tier) == <<"ConfigMap", tier.name, 0>>
InterconnectKey(tier) == <<"Interconnect", tier.name, 0>>
ClientKey(tier) == <<"Client", tier.name, 0>>
IngressKey(tier) == <<"Ingress", tier.name, 0>>
StatefulSetKey(tier, rsIndex) == <<"StatefulSet", tier.name, rsIndex>>

(* The objects reconcileTier applies for a tier, and what it builds.       *)
TierKeys(tier) ==
    {ConfigMapKey(tier), InterconnectKey(tier), ClientKey(tier)}
      \cup { StatefulSetKey(tier, i) : i \in 1..tier.replicas }
      \cup (IF tier.ingress.enabled THEN {IngressKey(tier)} ELSE {})

Build(spec, tier, k) ==
    CASE k[1] = "ConfigMap"    -> buildConfigMap(spec, tier)
      [] k[1] = "Interconnect" -> buildInterconnectService(spec, tier)
      [] k[1] = "Client"       -> buildClientService(spec, tier)
      [] k[1] = "StatefulSet"  -> buildStatefulSet(spec, tier, k[3], ConfigYAML(spec, tier))
      [] k[1] = "Ingress"      -> buildIngress(spec, tier)
=============================================================================
