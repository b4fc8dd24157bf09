------------------------------ MODULE MCRollout ------------------------------
(***************************************************************************)
(* Small instances of Rollout for TLC.                                     *)
(***************************************************************************)
EXTENDS Rollout

Tier(name, replicas, rf, conf) ==
    [name |-> name, replicas |-> replicas, replicationFactor |-> rf, canVote |-> TRUE,
     conf |-> conf, pod |-> "p", placement |-> "n", storage |-> "1Gi",
     plugins |-> <<>>, ingress |-> [enabled |-> FALSE, route |-> "r"]]

Cluster(tiers) ==
    [clusterName |-> "demo", cluster |-> "c", image |-> "i", imagePullSecrets |-> {},
     service |-> [type |-> "ClusterIP", binaryPort |-> 0, httpPort |-> 0, pgPort |-> 0],
     tiers |-> tiers]

(* A replicaset of two before a tier of single instances; an edit breaks   *)
(* the settings of the one and scales the other down, or undoes both.      *)
RolloutSpecs ==
    { Cluster(<<Tier("storage", 1, 2, "good"), Tier("arbiter", 2, 1, "good")>>),
      Cluster(<<Tier("storage", 1, 2, "bad"),  Tier("arbiter", 1, 1, "good")>>) }
==============================================================================
