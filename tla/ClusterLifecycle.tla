--------------------------- MODULE ClusterLifecycle ---------------------------
(***************************************************************************)
(* What the operator promises about the children of a PicoclusterDB,       *)
(* without caches, passes, failures or restarts: in which order they       *)
(* appear, and which of them may disappear.                                *)
(***************************************************************************)
EXTENDS Naturals

CONSTANTS
    TierNames,   \* the names of the tiers
    MaxReplicas, \* the largest number of replicasets of a tier
    Retirable    \* the <<tier, replicaset>> that some spec does without

VARIABLES
    phase,    \* of the resource: none yet, live, or deleted at least once
    children  \* the objects that exist, <<kind, tier, replicaset>>

lifecycleVars == <<phase, children>>

Dependencies == {"ConfigMap", "Interconnect", "Client"}

Init == phase = "none" /\ children = {}

Submit ==
    /\ phase = "none" /\ phase' = "live"
    /\ UNCHANGED children

(* What is created for a tier alone. *)
CreateForTier ==
    \E kind \in Dependencies, t \in TierNames : children' = children \cup {<<kind, t, 0>>}

(* Replicaset i is created after everything its pods need, and after the   *)
(* replicasets below it, the first of which holds the peer.                *)
CreateReplicaset ==
    \E t \in TierNames, i \in 1..MaxReplicas :
        /\ \A kind \in Dependencies : <<kind, t, 0>> \in children
        /\ \A j \in 1..(i - 1) : <<"StatefulSet", t, j>> \in children
        /\ children' = children \cup {<<"StatefulSet", t, i>>}

(* The way into a tier is opened last. *)
CreateIngress ==
    \E t \in TierNames :
        /\ <<"StatefulSet", t, 1>> \in children
        /\ children' = children \cup {<<"Ingress", t, 0>>}

(* The only children a live resource ever loses. *)
RetireReplicaset ==
    \E r \in Retirable : children' = children \ {<<"StatefulSet", r[1], r[2]>>}

(* What happens to the children while their resource lives. *)
Evolve ==
    /\ phase = "live" /\ UNCHANGED phase
    /\ children' # children
    /\ CreateForTier \/ CreateReplicaset \/ CreateIngress \/ RetireReplicaset

Delete ==
    /\ phase = "live" /\ phase' = "deleted"
    /\ UNCHANGED children

(* After a deletion the garbage collector and a pass that has not noticed  *)
(* yet, or works for a new resource of the name, act against each other.   *)
Dissolve ==
    /\ phase = "deleted" /\ UNCHANGED phase
    /\ children' # children
    /\ \E kind \in Dependencies \cup {"StatefulSet", "Ingress"},
          t \in TierNames, i \in 0..MaxReplicas :
          \/ children' = children \cup {<<kind, t, i>>}
          \/ children' = children \ {<<kind, t, i>>}

Next == Submit \/ Evolve \/ Delete \/ Dissolve

Spec == Init /\ [][Next]_lifecycleVars
===============================================================================
