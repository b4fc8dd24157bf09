------------------------- MODULE AntiAffinityProofs -------------------------
(***************************************************************************)
(* Proofs about module AntiAffinity, for any number of replicasets and any *)
(* terms of the user.                                                      *)
(*                                                                         *)
(* The argument: although every call of mergeReplicasetAntiAffinity leaves *)
(* its term in the pass's shared object, the terms a StatefulSet gets are  *)
(* a function of the affinity settings and of its own index (TermsFor).    *)
(* That is what PassInv and AppliedInv say of the object and of the        *)
(* StatefulSets.                                                           *)
(***************************************************************************)
EXTENDS AntiAffinity, SequenceTheorems, TLAPS

(* The user's terms followed by the rules of the first n replicasets. *)
TermsUpTo(terms, n) ==
    [k \in 1..(Len(terms) + n) |->
        IF k <= Len(terms) THEN terms[k] ELSE ReplicasetTerm(k - Len(terms))]

(* The shared object once the first n StatefulSets are built. *)
BaseAt(s, n) ==
    IF s.affinity.pointer /\ ~s.disableAuto
    THEN [pointer |-> TRUE, terms |-> TermsUpTo(s.affinity.terms, n)]
    ELSE s.affinity

(* The terms of StatefulSet i when it is built for the settings s. *)
TermsFor(s, i) ==
    IF s.disableAuto THEN s.affinity.terms
    ELSE IF s.affinity.pointer THEN TermsUpTo(s.affinity.terms, i)
    ELSE <<ReplicasetTerm(i)>>

SettingsSet == [affinity : Affinities, disableAuto : BOOLEAN]

TypeInv ==
    /\ tier \in TierSpecs /\ seen \in TierSpecs
    /\ rsIndex \in 0..(seen.replicas + 1)
    /\ DOMAIN applied = 1..MaxReplicas
    /\ builtFor \in [1..MaxReplicas -> SettingsSet]

(* The pass: what it shares, and what it has built so far. *)
PassInv ==
    /\ rsIndex # 0 => base = BaseAt(seen, rsIndex - 1)
    /\ \A i \in 1..seen.replicas :
          rsIndex = 0 \/ i < rsIndex => builtFor[i] = Settings(seen)

(* The StatefulSets. *)
AppliedInv ==
    \A i \in 1..MaxReplicas :
        applied[i] # NoStatefulSet => applied[i] = TermsFor(builtFor[i], i)

AffinityInv == TypeInv /\ PassInv /\ AppliedInv

-----------------------------------------------------------------------------
(* The settings of a tier are settings, and its terms are a sequence; only *)
(* a podAntiAffinity has terms.                                            *)
LEMMA TierFacts ==
    ASSUME NEW s \in TierSpecs
    PROVE  /\ Settings(s) \in SettingsSet
           /\ s.affinity \in Affinities
           /\ s.affinity.pointer \in BOOLEAN
           /\ s.affinity = [pointer |-> s.affinity.pointer, terms |-> s.affinity.terms]
           /\ Len(s.affinity.terms) \in Nat
           /\ DOMAIN s.affinity.terms = 1..Len(s.affinity.terms)
           /\ s.affinity.terms \in Seq(UserTerms)
           /\ ~s.affinity.pointer => s.affinity.terms = <<>>
           /\ s.disableAuto \in BOOLEAN
           /\ s.replicas \in 1..MaxReplicas
           /\ s.replicas \in Nat
           /\ 1..s.replicas \subseteq 1..MaxReplicas
    <1> DEFINE a == s.affinity
    <1>1. a \in Affinities /\ s.disableAuto \in BOOLEAN /\ s.replicas \in 1..MaxReplicas
        BY DEF TierSpecs
    <1>2. Settings(s) \in SettingsSet
        BY <1>1 DEF Settings, SettingsSet
    <1>3. /\ a.pointer \in BOOLEAN /\ a = [pointer |-> a.pointer, terms |-> a.terms]
          /\ a.terms \in Seq(UserTerms)
          /\ ~a.pointer => a.terms = <<>>
        <2>1. CASE \E q \in BOOLEAN : a = [pointer |-> q, terms |-> <<>>]
            <3>1. <<>> \in Seq(UserTerms)
                OBVIOUS
            <3>2. PICK q \in BOOLEAN : a = [pointer |-> q, terms |-> <<>>]
                BY <2>1
            <3>3. a.pointer = q /\ a.terms = <<>>
                BY <3>2
            <3> QED BY <3>1, <3>2, <3>3
        <2>2. CASE a \in { [pointer |-> TRUE, terms |-> <<t>>] : t \in UserTerms }
            <3>1. PICK t \in UserTerms : a = [pointer |-> TRUE, terms |-> <<t>>]
                BY <2>2
            <3>2. <<t>> \in Seq(UserTerms)
                OBVIOUS
            <3> QED BY <3>1, <3>2
        <2> QED BY <1>1, <2>1, <2>2 DEF Affinities
    <1>4. Len(a.terms) \in Nat /\ DOMAIN a.terms = 1..Len(a.terms)
        BY <1>3
    <1> QED BY <1>1, <1>2, <1>3, <1>4, AntiAffinityAssumption

(* With no replicaset's rule added, the terms are the user's. *)
LEMMA NoneAdded ==
    ASSUME NEW s \in TierSpecs
    PROVE  BaseAt(s, 0) = s.affinity
    <1> DEFINE t == s.affinity.terms
    <1>1. TermsUpTo(t, 0) = t
        <2>1. Len(t) \in Nat /\ DOMAIN t = 1..Len(t) /\ t \in Seq(UserTerms)
            BY TierFacts
        <2>2. t = [k \in 1..Len(t) |-> t[k]]
            BY <2>1
        <2>3. Len(t) + 0 = Len(t)
            BY <2>1
        <2>4. TermsUpTo(t, 0) = [k \in 1..Len(t) |-> t[k]]
            BY <2>1, <2>3 DEF TermsUpTo
        <2> QED BY <2>2, <2>4
    <1> QED BY <1>1, TierFacts DEF BaseAt

(* Appending to a sequence given as a function. *)
LEMMA AppendFunction ==
    ASSUME NEW m \in Nat, NEW S, NEW T \in [1..m -> S], NEW x
    PROVE  Append(T, x) = [k \in 1..(m + 1) |-> IF k = m + 1 THEN x ELSE T[k]]
    <1>1. T \in Seq(S) /\ Len(T) = m
        BY LenProperties
    <1>2. DOMAIN T = 1..m
        OBVIOUS
    <1>3. /\ Append(T, x) \in Seq(S \cup {x})
          /\ Len(Append(T, x)) = m + 1
          /\ \A k \in 1..m : Append(T, x)[k] = T[k]
          /\ Append(T, x)[m + 1] = x
        BY <1>1
    <1>4. DOMAIN Append(T, x) = 1..(m + 1)
        BY <1>3
    <1>5. \A k \in 1..(m + 1) : Append(T, x)[k] = IF k = m + 1 THEN x ELSE T[k]
        BY <1>3
    <1>6. PICK A \in [1..(m + 1) -> S \cup {x}] : A = Append(T, x)
        BY <1>3, <1>4, LenProperties
    <1>7. \A k \in 1..(m + 1) : A[k] = IF k = m + 1 THEN x ELSE T[k]
        BY <1>5, <1>6
    <1>8. A = [k \in 1..(m + 1) |-> IF k = m + 1 THEN x ELSE T[k]]
        BY <1>7
    <1> QED BY <1>6, <1>8

(* Appending the rule of replicaset n + 1 to the terms up to n. *)
LEMMA OneAdded ==
    ASSUME NEW S, NEW t \in Seq(S), NEW n \in Nat
    PROVE  Append(TermsUpTo(t, n), ReplicasetTerm(n + 1)) = TermsUpTo(t, n + 1)
    <1> DEFINE At(k) == IF k <= Len(t) THEN t[k] ELSE ReplicasetTerm(k - Len(t))
               T == TermsUpTo(t, n)
               R == { At(k) : k \in 1..(Len(t) + n) }
               x == ReplicasetTerm(n + 1)
    <1>1. PICK m \in Nat : m = Len(t) + n
        OBVIOUS
    <1>2. Len(t) + (n + 1) = m + 1 /\ (m + 1) - Len(t) = n + 1 /\ ~(m + 1 <= Len(t))
        BY <1>1
    <1>3. T = [k \in 1..m |-> At(k)]
        BY <1>1 DEF TermsUpTo
    <1>4. TermsUpTo(t, n + 1) = [k \in 1..(m + 1) |-> At(k)]
        BY <1>2 DEF TermsUpTo
    <1>5. At(m + 1) = x
        BY <1>2
    <1> HIDE DEF At
    <1>6. T \in [1..m -> R]
        BY <1>1, <1>3
    <1>7. Append(T, x) = [k \in 1..(m + 1) |-> IF k = m + 1 THEN x ELSE T[k]]
        BY <1>6, AppendFunction
    <1>8. \A k \in 1..(m + 1) : (IF k = m + 1 THEN x ELSE T[k]) = At(k)
        BY <1>3, <1>5
    <1> QED BY <1>4, <1>7, <1>8

(* What a StatefulSet gets contains the user's terms and, unless the       *)
(* automatic rule is off, the rule of its own replicaset.                  *)
LEMMA TermsForHas ==
    ASSUME NEW s \in TierSpecs, NEW i \in 1..MaxReplicas
    PROVE  /\ Range(s.affinity.terms) \subseteq Range(TermsFor(Settings(s), i))
           /\ ~s.disableAuto => ReplicasetTerm(i) \in Range(TermsFor(Settings(s), i))
    <1> DEFINE t == s.affinity.terms
               T == TermsFor(Settings(s), i)
               m == Len(t) + i
    <1>0. i \in Nat \ {0} /\ Len(t) \in Nat /\ DOMAIN t = 1..Len(t)
        BY TierFacts, AntiAffinityAssumption
    <1>1. CASE s.disableAuto
        <2>1. T = t
            BY <1>1 DEF TermsFor, Settings
        <2> QED BY <1>1, <2>1
    <1>2. CASE ~s.disableAuto /\ s.affinity.pointer
        <2>1. T = TermsUpTo(t, i)
            BY <1>2 DEF TermsFor, Settings
        <2>2. /\ DOMAIN T = 1..m
              /\ \A k \in 1..m :
                    T[k] = IF k <= Len(t) THEN t[k] ELSE ReplicasetTerm(k - Len(t))
            BY <2>1 DEF TermsUpTo
        <2>3. ASSUME NEW k \in 1..Len(t)
              PROVE  k \in DOMAIN T /\ T[k] = t[k]
            BY <1>0, <2>2
        <2>4. m \in DOMAIN T /\ T[m] = ReplicasetTerm(i)
            <3>1. m \in 1..m /\ ~(m <= Len(t)) /\ m - Len(t) = i
                BY <1>0
            <3> QED BY <2>2, <3>1
        <2> QED BY <1>0, <2>3, <2>4 DEF Range
    <1>3. CASE ~s.disableAuto /\ ~s.affinity.pointer
        <2>1. t = <<>>
            BY <1>3, TierFacts
        <2>2. T = <<ReplicasetTerm(i)>>
            BY <1>3 DEF TermsFor, Settings
        <2>3. Range(t) = {}
            BY <2>1 DEF Range
        <2>4. ReplicasetTerm(i) \in Range(T)
            BY <2>2 DEF Range
        <2> QED BY <2>3, <2>4
    <1> QED BY <1>1, <1>2, <1>3, TierFacts

(* What BuildStatefulSet applies and leaves behind. *)
LEMMA BuildTerms ==
    ASSUME NEW s \in TierSpecs, NEW i \in Nat \ {0}
    PROVE  LET b == BaseAt(s, i - 1)
           IN /\ s.disableAuto => /\ b.terms = TermsFor(Settings(s), i)
                                  /\ b = BaseAt(s, i)
              /\ ~s.disableAuto =>
                    /\ MergedTerms(b, ReplicasetTerm(i)) = TermsFor(Settings(s), i)
                    /\ BaseAfter(b, ReplicasetTerm(i)) = BaseAt(s, i)
    <1> DEFINE t == s.affinity.terms
               b == BaseAt(s, i - 1)
    <1>1. CASE s.disableAuto
        BY <1>1 DEF BaseAt, TermsFor, Settings
    <1>2. CASE ~s.disableAuto /\ s.affinity.pointer
        <2>1. b = [pointer |-> TRUE, terms |-> TermsUpTo(t, i - 1)]
            BY <1>2 DEF BaseAt
        <2>2. Append(TermsUpTo(t, i - 1), ReplicasetTerm(i)) = TermsUpTo(t, i)
            <3>1. i - 1 \in Nat /\ (i - 1) + 1 = i
                OBVIOUS
            <3>2. t \in Seq(UserTerms)
                BY TierFacts
            <3> QED BY <3>1, <3>2, OneAdded
        <2>3. MergedTerms(b, ReplicasetTerm(i)) = TermsFor(Settings(s), i)
            BY <1>2, <2>1, <2>2 DEF MergedTerms, TermsFor, Settings
        <2>4. BaseAfter(b, ReplicasetTerm(i)) = [pointer |-> TRUE, terms |-> TermsUpTo(t, i)]
            <3>1. b.pointer /\ b.terms = TermsUpTo(t, i - 1)
                BY <2>1
            <3>2. BaseAfter(b, ReplicasetTerm(i)) = [b EXCEPT !.terms = TermsUpTo(t, i)]
                BY <2>2, <3>1 DEF BaseAfter
            <3> HIDE DEF b
            <3> QED BY <2>1, <3>2
        <2> QED BY <1>2, <2>3, <2>4 DEF BaseAt
    <1>3. CASE ~s.disableAuto /\ ~s.affinity.pointer
        <2>1. b = s.affinity /\ t = <<>> /\ BaseAt(s, i) = s.affinity
            BY <1>3, TierFacts DEF BaseAt
        <2>2. Append(<<>>, ReplicasetTerm(i)) = <<ReplicasetTerm(i)>>
            OBVIOUS
        <2> QED BY <1>3, <2>1, <2>2 DEF MergedTerms, BaseAfter, TermsFor, Settings
    <1> QED BY <1>1, <1>2, <1>3, TierFacts

-----------------------------------------------------------------------------
(* The inductive invariant holds initially: no pass runs and there is no   *)
(* StatefulSet yet.                                                        *)
LEMMA AffinityInit == Init => AffinityInv
    <1> SUFFICES ASSUME Init PROVE AffinityInv
        OBVIOUS
    <1>1. tier \in TierSpecs /\ seen = tier /\ Settings(seen) \in SettingsSet
          /\ seen.replicas \in Nat /\ 1..seen.replicas \subseteq 1..MaxReplicas
        BY TierFacts DEF Init
    <1> QED BY <1>1 DEF Init, AffinityInv, TypeInv, PassInv, AppliedInv

(* Every step preserves it. *)
LEMMA AffinityStep == AffinityInv /\ [Next]_vars => AffinityInv'
    <1> SUFFICES ASSUME AffinityInv, [Next]_vars PROVE AffinityInv'
        OBVIOUS
    <1> USE DEF AffinityInv
    <1>0. /\ seen \in TierSpecs /\ tier \in TierSpecs
          /\ Settings(seen) \in SettingsSet
          /\ seen.replicas \in Nat /\ 1..seen.replicas \subseteq 1..MaxReplicas
          /\ tier.replicas \in Nat /\ 1..tier.replicas \subseteq 1..MaxReplicas
        BY TierFacts DEF TypeInv
    <1>1. CASE BeginPass
        <2>1. rsIndex' = 1 /\ seen' = tier /\ base' = tier.affinity
              /\ UNCHANGED <<tier, applied, builtFor>>
            BY <1>1 DEF BeginPass
        <2>2. BaseAt(tier, 1 - 1) = tier.affinity
            BY <1>0, NoneAdded
        <2> QED BY <1>0, <2>1, <2>2 DEF TypeInv, PassInv, AppliedInv
    <1>2. CASE BuildStatefulSet
        <2> DEFINE i == rsIndex
        <2>1. /\ i \in 1..seen.replicas /\ i \in Nat \ {0} /\ i \in 1..MaxReplicas
              /\ base = BaseAt(seen, i - 1)
              /\ rsIndex' = i + 1 /\ (i + 1) - 1 = i
              /\ builtFor' = [builtFor EXCEPT ![i] = Settings(seen)]
              /\ UNCHANGED <<tier, seen>>
            BY <1>0, <1>2 DEF BuildStatefulSet, PassInv
        <2>2. /\ applied' = [applied EXCEPT ![i] = TermsFor(Settings(seen), i)]
              /\ base' = BaseAt(seen, i)
            BY <1>0, <1>2, <2>1, BuildTerms DEF BuildStatefulSet
        <2>3. TypeInv'
            BY <1>0, <2>1, <2>2 DEF TypeInv
        <2>4. PassInv'
            <3>1. ASSUME NEW j \in 1..seen.replicas, j < i + 1
                  PROVE  builtFor'[j] = Settings(seen)
                <4>1. CASE j = i
                    BY <2>1, <4>1, <1>0 DEF TypeInv
                <4>2. CASE j # i
                    BY <2>1, <4>2, <3>1, <1>0 DEF TypeInv, PassInv
                <4> QED BY <4>1, <4>2
            <3> QED BY <2>1, <2>2, <3>1 DEF PassInv
        <2>5. AppliedInv'
            BY <2>1, <2>2 DEF AppliedInv, TypeInv
        <2> QED BY <2>3, <2>4, <2>5
    <1>3. CASE DeleteExtraStatefulSets
        <2>1. /\ rsIndex > seen.replicas /\ rsIndex' = 0
              /\ applied' = [i \in 1..MaxReplicas |->
                                IF i > seen.replicas THEN NoStatefulSet ELSE applied[i]]
              /\ UNCHANGED <<tier, seen, base, builtFor>>
            BY <1>3 DEF DeleteExtraStatefulSets
        <2>2. TypeInv'
            BY <1>0, <2>1 DEF TypeInv
        <2>3. PassInv'
            BY <1>0, <2>1 DEF PassInv, TypeInv
        <2>4. AppliedInv'
            BY <2>1 DEF AppliedInv
        <2> QED BY <2>2, <2>3, <2>4
    <1>4. CASE EditTier
        BY <1>4 DEF EditTier, TypeInv, PassInv, AppliedInv
    <1>5. CASE UNCHANGED vars
        BY <1>5 DEF vars, TypeInv, PassInv, AppliedInv
    <1> QED BY <1>1, <1>2, <1>3, <1>4, <1>5 DEF Next

(* The inductive invariant holds throughout. *)
LEMMA AffinityInvariant == Spec => []AffinityInv
    BY AffinityInit, AffinityStep, PTL DEF Spec

(* For any number of replicasets: a StatefulSet the pass has applied keeps *)
(* every rule the user supplied and, unless the automatic rule is off, the *)
(* rule that spreads its pods if it has several                            *)
(* (mergeReplicasetAntiAffinity).                                          *)
THEOREM UserRulesKept == Spec => []UserRulesAndSpread
    <1>1. AffinityInv => UserRulesAndSpread
        <2> SUFFICES ASSUME AffinityInv, NEW i \in Built
                     PROVE  /\ Range(seen.affinity.terms) \subseteq Range(applied[i])
                            /\ ~seen.disableAuto => ReplicasetTerm(i) \in Range(applied[i])
            BY DEF UserRulesAndSpread
        <2>1. /\ seen \in TierSpecs /\ i \in 1..seen.replicas /\ i \in 1..MaxReplicas
              /\ rsIndex = 0 \/ i < rsIndex
              /\ applied[i] # NoStatefulSet
            BY DEF Built, AffinityInv, TypeInv
        <2>2. applied[i] = TermsFor(Settings(seen), i)
            BY <2>1 DEF AffinityInv, PassInv, AppliedInv
        <2> QED BY <2>1, <2>2, TermsForHas
    <1> QED BY <1>1, AffinityInvariant, PTL

(* For any number of replicasets: scaling a tier, or another pass, does    *)
(* not change the template of a StatefulSet whose affinity settings are    *)
(* those it was last built for, although the terms pile up in the pass's   *)
(* shared object (mergeReplicasetAntiAffinity).                            *)
THEOREM TemplatesStable == Spec => NoNeedlessRestart
    <1> DEFINE A == \A i \in 1..MaxReplicas :
                        /\ applied[i] # NoStatefulSet /\ applied'[i] # NoStatefulSet
                        /\ applied'[i] # applied[i]
                        => builtFor[i] # Settings(seen)
    <1>1. AffinityInv /\ [Next]_vars => [A]_vars
        <2> SUFFICES ASSUME AffinityInv, Next,
                            NEW i \in 1..MaxReplicas,
                            applied[i] # NoStatefulSet, applied'[i] # NoStatefulSet,
                            builtFor[i] = Settings(seen)
                     PROVE  applied'[i] = applied[i]
            OBVIOUS
        <2>1. CASE BuildStatefulSet
            <3>1. /\ seen \in TierSpecs /\ rsIndex \in Nat \ {0}
                  /\ base = BaseAt(seen, rsIndex - 1)
                BY <2>1, TierFacts DEF BuildStatefulSet, AffinityInv, TypeInv, PassInv
            <3>2. applied' = [applied EXCEPT ![rsIndex] = TermsFor(Settings(seen), rsIndex)]
                BY <2>1, <3>1, BuildTerms, TierFacts DEF BuildStatefulSet
            <3>3. applied[i] = TermsFor(Settings(seen), i)
                BY DEF AffinityInv, AppliedInv
            <3> QED BY <3>2, <3>3 DEF AffinityInv, TypeInv
        <2>2. CASE DeleteExtraStatefulSets
            BY <2>2 DEF DeleteExtraStatefulSets
        <2>3. CASE BeginPass \/ EditTier
            BY <2>3 DEF BeginPass, EditTier
        <2> QED BY <2>1, <2>2, <2>3 DEF Next
    <1> QED BY <1>1, AffinityInvariant, PTL DEF Spec, NoNeedlessRestart
=============================================================================
