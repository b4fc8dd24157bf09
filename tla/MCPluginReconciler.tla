------------------------ MODULE MCPluginReconciler ------------------------
(***************************************************************************)
(* Small instances of PluginReconciler for TLC.                            *)
(***************************************************************************)
EXTENDS PluginReconciler

(* Plugins: radix declares one of its two services, the other is found     *)
(* after the migration; audit declares its only one and has no context.    *)
Radix(v) == [name |-> "radix", version |-> v, services |-> {"radix"},
             context |-> {"tier_for_db_0", "tier_for_db_1"}]
Audit(v) == [name |-> "audit", version |-> v, services |-> {"audit"}, context |-> {}]

Services == [radix |-> {"radix", "metrics"}, audit |-> {"audit"}]

Tier(name, plugins) == [name |-> name, plugins |-> plugins]

(* Radix is shared with a second tier, or upgraded next to audit and a     *)
(* tier without plugins.                                                   *)
UpgradeSpecs ==
    { <<Tier("storage", <<Radix("1")>>)>>,
      <<Tier("storage", <<Radix("1")>>), Tier("cache", <<Radix("1")>>)>>,
      <<Tier("arbiter", <<>>), Tier("storage", <<Radix("2"), Audit("1")>>)>> }

(* Each tier with a plugin of its own. *)
DistinctSpecs ==
    { <<Tier("storage", <<Radix("1")>>), Tier("cache", <<Audit("1")>>)>> }

(* Three versions of one plugin. *)
ThreeVersions == { <<Tier("storage", <<Radix(v)>>)>> : v \in {"1", "2", "3"} }

Bound(edits, faults, crashes, unready) ==
    [b \in Budgets |-> CASE b = "edits"   -> edits   [] b = "faults"  -> faults
                         [] b = "crashes" -> crashes [] b = "unready" -> unready]

EditFaultCrash == Bound(2, 1, 1, 1)
TwoEditsFault == Bound(2, 1, 0, 0)
Calm == Bound(0, 0, 0, 0)
===========================================================================
