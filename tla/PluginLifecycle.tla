--------------------------- MODULE PluginLifecycle ---------------------------
(***************************************************************************)
(* The life of the versions of plugins in a Picodata cluster, as the       *)
(* operator may drive it: no version is enabled before it is migrated or   *)
(* dropped while it is enabled, one changes at a time, and no more than    *)
(* MaxVersions versions of a plugin are there together.                    *)
(***************************************************************************)
EXTENDS Naturals, FiniteSets

CONSTANTS
    Ids,         \* the versions, <<name, version>>
    MaxVersions  \* how many versions of a plugin Picodata holds

VARIABLE stage

Stages == {"absent", "created", "migrated", "enabled"}

Init == stage = [i \in Ids |-> "absent"]

Installed(name) == { i \in Ids : i[1] = name /\ stage[i] # "absent" }

Move(i, from, to) ==
    /\ stage[i] \in from
    /\ stage' = [stage EXCEPT ![i] = to]

Create(i) ==
    /\ Cardinality(Installed(i[1])) < MaxVersions
    /\ Move(i, {"absent"}, "created")

Migrate(i) == Move(i, {"created"}, "migrated")

Enable(i) == Move(i, {"migrated"}, "enabled")

Disable(i) == Move(i, {"enabled"}, "migrated")

Drop(i) == Move(i, {"created", "migrated"}, "absent")

Next == \E i \in Ids : Create(i) \/ Migrate(i) \/ Enable(i) \/ Disable(i) \/ Drop(i)

Spec == Init /\ [][Next]_stage
==============================================================================
