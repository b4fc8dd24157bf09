------------------------- MODULE ReconcilerRefinement -------------------------
(***************************************************************************)
(* Reconciler implements ClusterLifecycle.                                 *)
(***************************************************************************)
EXTENDS Reconciler

Phase == IF spent["deletes"] > 0 THEN "deleted" ELSE IF cr.live THEN "live" ELSE "none"

Children == { k \in Keys : obj[k].live }

Retirable ==
    { r \in TierNames \X (1..MaxReplicas) :
        \E s \in Specs : \E j \in DOMAIN s.tiers :
            s.tiers[j].name = r[1] /\ r[2] > s.tiers[j].replicas }

Lifecycle == INSTANCE ClusterLifecycle WITH phase <- Phase, children <- Children

(* However the calls of its passes fail, are repeated, work from stale     *)
(* caches or are cut off by a restart, the children of a PicoclusterDB     *)
(* appear and disappear as ClusterLifecycle allows, one at a time.         *)
ImplementsLifecycle == Lifecycle!Spec
===============================================================================
