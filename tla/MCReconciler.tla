---------------------------- MODULE MCReconciler ----------------------------
(***************************************************************************)
(* Small instances of Reconciler for TLC.                                  *)
(***************************************************************************)
EXTENDS ReconcilerRefinement

CONSTANT Confs  \* interchangeable engine settings

NoLimit == [b \in Budgets |-> 0]

(* A tier and a cluster, given by what the instances vary. *)
Tier(name, replicas, rf, conf, plugins, ingress) ==
    [name |-> name, replicas |-> replicas, replicationFactor |-> rf, canVote |-> TRUE,
     conf |-> conf, pod |-> "p", placement |-> "n", storage |-> "1Gi",
     plugins |-> plugins, ingress |-> [enabled |-> ingress, route |-> "r"]]

Cluster(tiers) ==
    [clusterName |-> "demo", cluster |-> "c", image |-> "i", imagePullSecrets |-> {},
     service |-> [type |-> "ClusterIP", binaryPort |-> 0, httpPort |-> 0, pgPort |-> 0],
     tiers |-> tiers]

Radix == [name |-> "radix", version |-> "1",
          services |-> {[name |-> "radix", listenerPort |-> 7379]}]

NoPlugins == <<>>

(* Two replicasets of one pod, the same under a clusterName that           *)
(* Kubernetes refuses for a StatefulSet that exists, and one replicaset of *)
(* two pods with other settings.                                           *)
ScaleSpecs ==
    LET two == Cluster(<<Tier("storage", 2, 1, "b", NoPlugins, FALSE)>>)
    IN { two, [two EXCEPT !.clusterName = "prod"],
         Cluster(<<Tier("storage", 1, 2, "a", NoPlugins, FALSE)>>) }

OneTier == {"storage"}

(* A tier with an Ingress and a plugin before one without. *)
TwoTierSpecs ==
    { Cluster(<<Tier("storage", 1, 1, "a", <<Radix>>, TRUE),
                Tier("arbiter", 1, 1, "a", NoPlugins, FALSE)>>) }

TwoTiers == {"arbiter", "storage"}

(* One replicaset, whose configuration changes. *)
ConfSpecs == { Cluster(<<Tier("storage", 1, 1, c, NoPlugins, FALSE)>>) : c \in Confs }

EditTwice     == [NoLimit EXCEPT !["edits"] = 2]
EditAndFail   == [NoLimit EXCEPT !["edits"] = 1, !["faults"] = 1]
EditFailCrash == [NoLimit EXCEPT !["edits"] = 1, !["faults"] = 1, !["crashes"] = 1]
DeleteOnce    == [NoLimit EXCEPT !["deletes"] = 1]
FailOrLose    == [NoLimit EXCEPT !["faults"] = 1, !["losses"] = 1]

OneClock == {1}
TwoClocks == {1, 2}
=============================================================================
