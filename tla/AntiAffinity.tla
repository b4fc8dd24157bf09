---------------------------- MODULE AntiAffinity ----------------------------
(***************************************************************************)
(* How a pass of reconcileTier gives each StatefulSet of a tier its pod    *)
(* anti-affinity (buildStatefulSet and mergeReplicasetAntiAffinity).       *)
(*                                                                         *)
(* mergeReplicasetAntiAffinity copies the Affinity the user supplied, but  *)
(* not the PodAntiAffinity that it points to: the term it appends is also  *)
(* appended for the rest of the pass.  base is that shared object, read    *)
(* anew from the resource at the start of each pass.                       *)
(***************************************************************************)
EXTENDS Integers, Sequences, SequencesExt

CONSTANTS
    MaxReplicas, \* the largest number of replicasets
    MaxPods,     \* the largest replicationFactor
    UserTerms,   \* the anti-affinity terms a user may supply
    MaxEdits     \* how often the user edits the tier

ASSUME AntiAffinityAssumption ==
    MaxReplicas \in Nat \ {0} /\ MaxPods \in Nat \ {0} /\ MaxEdits \in Nat

(* What the user supplies: no podAntiAffinity, or one with some terms. *)
Affinities ==
    {[pointer |-> FALSE, terms |-> <<>>], [pointer |-> TRUE, terms |-> <<>>]}
      \cup { [pointer |-> TRUE, terms |-> <<t>>] : t \in UserTerms }

TierSpecs == [affinity : Affinities, disableAuto : BOOLEAN, replicas : 1..MaxReplicas,
              replicationFactor : 1..MaxPods]

VARIABLES
    tier,    \* the tier in the resource
    seen,    \* the tier the running pass works with
    rsIndex, \* its loop variable; 0 between passes
    base,    \* tier.Affinity of the pass's copy of the resource
    applied, \* the required anti-affinity terms of each StatefulSet
    builtFor, \* the affinity settings each was last built for (history)
    edits

vars == <<tier, seen, rsIndex, base, applied, builtFor, edits>>

NoStatefulSet == <<"none">>

Settings(t) == [affinity |-> t.affinity, disableAuto |-> t.disableAuto]

Init ==
    /\ tier \in TierSpecs
    /\ seen = tier /\ rsIndex = 0 /\ base = tier.affinity
    /\ applied = [i \in 1..MaxReplicas |-> NoStatefulSet]
    /\ builtFor = [i \in 1..MaxReplicas |-> Settings(tier)]
    /\ edits = 0

(* The term that keeps the pods of replicaset i on different nodes. *)
ReplicasetTerm(i) == <<"replicaset", i>>

(* Mutant of MergedTerms: the user's rules win. *)
UserTermsWin(b, term) == IF b.terms # <<>> THEN b.terms ELSE <<term>>

(* The terms of the returned Affinity. *)
MergedTerms(b, term) == Append(b.terms, term)

(* What the call leaves in base: the same terms, if base had a             *)
(* PodAntiAffinity for the copy to share.                                  *)
BaseAfter(b, term) == IF b.pointer THEN [b EXCEPT !.terms = Append(@, term)] ELSE b

(* Mutant of BeginPass: an unchanged resource is not copied again, as with *)
(* a cache that hands out its own objects.                                 *)
BeginPassWithoutCopy ==
    /\ rsIndex = 0
    /\ rsIndex' = 1 /\ seen' = tier
    /\ base' = IF seen = tier THEN base ELSE tier.affinity
    /\ UNCHANGED <<tier, applied, builtFor, edits>>

BeginPass ==
    /\ rsIndex = 0
    /\ rsIndex' = 1 /\ seen' = tier /\ base' = tier.affinity
    /\ UNCHANGED <<tier, applied, builtFor, edits>>

BuildStatefulSet ==
    /\ rsIndex \in 1..seen.replicas
    /\ IF seen.disableAuto
       THEN /\ applied' = [applied EXCEPT ![rsIndex] = base.terms]
            /\ UNCHANGED base
       ELSE /\ applied' = [applied EXCEPT ![rsIndex] =
                              MergedTerms(base, ReplicasetTerm(rsIndex))]
            /\ base' = BaseAfter(base, ReplicasetTerm(rsIndex))
    /\ builtFor' = [builtFor EXCEPT ![rsIndex] = Settings(seen)]
    /\ rsIndex' = rsIndex + 1
    /\ UNCHANGED <<tier, seen, edits>>

DeleteExtraStatefulSets ==
    /\ rsIndex > seen.replicas
    /\ applied' = [i \in 1..MaxReplicas |->
                      IF i > seen.replicas THEN NoStatefulSet ELSE applied[i]]
    /\ rsIndex' = 0
    /\ UNCHANGED <<tier, seen, base, builtFor, edits>>

EditTier ==
    /\ edits < MaxEdits
    /\ edits' = edits + 1
    /\ tier' \in TierSpecs \ {tier}
    /\ UNCHANGED <<seen, rsIndex, base, applied, builtFor>>

Next == BeginPass \/ BuildStatefulSet \/ DeleteExtraStatefulSets \/ EditTier

Spec == Init /\ [][Next]_vars

-----------------------------------------------------------------------------
Built == { i \in 1..seen.replicas : rsIndex = 0 \/ i < rsIndex } \cap
         { i \in 1..MaxReplicas : applied[i] # NoStatefulSet }

(* A StatefulSet the pass has applied keeps every rule the user supplied,  *)
(* and, unless the automatic rule is off, the pods of a replicaset that    *)
(* has several exclude each other.  buildStatefulSet gives the rule to a   *)
(* replicaset of one pod as well, which the documents say gets none; this  *)
(* property leaves that open.                                              *)
UserRulesAndSpread ==
    \A i \in Built :
        /\ Range(seen.affinity.terms) \subseteq Range(applied[i])
        /\ seen.replicationFactor > 1 /\ ~seen.disableAuto =>
              ReplicasetTerm(i) \in Range(applied[i])

(* Scaling a tier, in either direction, or just another pass restarts no   *)
(* pod of a replicaset that stays: the template of a StatefulSet changes   *)
(* only if the affinity settings are not those it was last built for.      *)
NoNeedlessRestart ==
    [][ \A i \in 1..MaxReplicas :
            /\ applied[i] # NoStatefulSet /\ applied'[i] # NoStatefulSet
            /\ applied'[i] # applied[i]
            => builtFor[i] # Settings(seen) ]_vars

(* The rule of one replicaset does not constrain the pods of another       *)
(* ("without over-constraining pods from different replicasets").          *)
NoOverConstraint ==
    \A i \in Built : \A j \in 1..MaxReplicas \ {i} :
        ReplicasetTerm(j) \notin Range(applied[i])
=============================================================================
