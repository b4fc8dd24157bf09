---------------------------- MODULE PluginProofs ----------------------------
(***************************************************************************)
(* Proofs about PluginReconciler, for any specs, manifests, bounds and     *)
(* numbers of failures.                                                    *)
(*                                                                         *)
(* What the pass knows goes stale only through the pass itself: no one     *)
(* else changes the tables.  InstallOK says what of the version at hand    *)
(* has been done when the pass is at each of its steps, and of the         *)
(* versions before it in the list; DropOK says that the rows listed as     *)
(* obsolete are still as they were listed.  Whenever the pass stops half   *)
(* way, nothing of this has to hold any more, and DbInv is what the next   *)
(* pass starts from.                                                       *)
(***************************************************************************)
EXTENDS PluginReconciler, SequenceTheorems, TLAPS

ContextKeys ==
    UNION { UNION { UNION { p.context : p \in PluginsOf(t) } : t \in TiersOf(s) } : s \in Specs }

AllServices == UNION { Manifest[i[1]] : i \in Ids }

(* The rows of the tables. *)
Entries ==
    [exists : BOOLEAN, enabled : BOOLEAN, migrated : BOOLEAN,
     context : SUBSET ContextKeys, bound : SUBSET (AllServices \X TierNames)]

TablesOK ==
    /\ db \in [Ids -> Entries]
    /\ \A i \in Ids :
          /\ db[i].bound \subseteq Manifest[i[1]] \X TierNames
          /\ ~db[i].exists => db[i] = NotInstalled

(* Version i is installed as far as ENABLE requires (EnabledComplete). *)
Complete(i) ==
    /\ db[i].migrated
    /\ \E t \in TierNames : \A svc \in Manifest[i[1]] : <<svc, t>> \in db[i].bound
    /\ \E s \in Specs : \E t \in TiersOf(s) : \E p \in PluginsOf(t) :
          Id(p) = i /\ p.context \subseteq db[i].context

DbInv == TablesOK /\ EnabledComplete

(* Version i is enabled and runs on the tier named t. *)
Ready(i, t) ==
    /\ db[i].enabled
    /\ \A svc \in Manifest[i[1]] : <<svc, t>> \in db[i].bound

InPlugin == pc \in SqlSteps \ {"connect"}

ScalarsOK ==
    /\ spec \in Specs
    /\ queued \in BOOLEAN /\ timer \in BOOLEAN
    /\ enabled \in BOOLEAN /\ allReady \in BOOLEAN
    /\ pc \in {"idle", "tier", "report"} \cup SqlSteps \cup DropSteps
    /\ spent \in [Budgets -> Nat]

PassOK ==
    /\ pc # "idle" => want \in Specs /\ ti \in DOMAIN want
    /\ pc \in SqlSteps \cup DropSteps => tier.plugins # <<>>
    /\ InPlugin => pi \in DOMAIN tier.plugins

(* The version at hand. *)
VersionOK ==
    /\ pc = "create" => ~db[id].exists /\ ~enabled
    /\ pc = "prepare" =>
          /\ db[id].exists /\ ~db[id].enabled /\ ~enabled
          /\ services \subseteq Manifest[plugin.name]
          /\ context \subseteq plugin.context
          /\ plugin.context \ context \subseteq db[id].context
    /\ pc \in {"services", "bind"} =>
          /\ db[id].exists /\ db[id].enabled = enabled
          /\ ~enabled => db[id].migrated /\ plugin.context \subseteq db[id].context
    /\ pc = "bind" =>
          /\ services \subseteq Manifest[plugin.name]
          /\ \A svc \in Manifest[plugin.name] \ services : <<svc, tier.name>> \in db[id].bound

(* The versions the pass is through with. *)
DoneOK ==
    /\ InPlugin => \A q \in 1..(pi - 1) : Ready(Id(tier.plugins[q]), tier.name)
    /\ pc \in DropSteps => \A q \in DOMAIN tier.plugins : Ready(Id(tier.plugins[q]), tier.name)

(* The rows to drop. *)
DropOK ==
    /\ pc \in {"drop", "dropdisabled"} =>
          /\ obsolete \subseteq [id : Ids, enabled : BOOLEAN]
          /\ \A r \in obsolete :
                /\ r.id \notin IdsOf(tier)
                /\ db[r.id].exists
                /\ db[r.id].enabled = (r.enabled /\ ~(pc = "dropdisabled" /\ r = row))
          /\ \A r, q \in obsolete : r.id = q.id => r = q
    /\ pc = "dropdisabled" => row \in obsolete /\ row.enabled

LocalInv == PassOK /\ VersionOK /\ DoneOK /\ DropOK

PluginInv == ScalarsOK /\ DbInv /\ LocalInv

-----------------------------------------------------------------------------
(* What the pass works on.                                                 *)

(* The tiers of a spec. *)
LEMMA SpecFacts ==
    ASSUME NEW s \in Specs
    PROVE  /\ Len(s) \in Nat \ {0} /\ DOMAIN s = 1..Len(s)
           /\ \A j \in DOMAIN s :
                 /\ s[j] \in TiersOf(s) /\ s[j].name \in TierNames
                 /\ Len(s[j].plugins) \in Nat
                 /\ DOMAIN s[j].plugins = 1..Len(s[j].plugins)
                 /\ s[j].plugins = <<>> <=> Len(s[j].plugins) = 0
    <1>1. s \in Seq(TiersOf(s)) /\ s # <<>>
        BY PluginSpecsAssumption
    <1>2. Len(s) \in Nat \ {0} /\ DOMAIN s = 1..Len(s)
        BY <1>1, EmptySeq, LenProperties
    <1>3. ASSUME NEW j \in DOMAIN s
          PROVE  /\ s[j] \in TiersOf(s) /\ s[j].name \in TierNames
                 /\ Len(s[j].plugins) \in Nat
                 /\ DOMAIN s[j].plugins = 1..Len(s[j].plugins)
                 /\ s[j].plugins = <<>> <=> Len(s[j].plugins) = 0
        <2>1. s[j] \in TiersOf(s)
            BY DEF TiersOf
        <2>2. s[j].name \in TierNames
            BY <2>1 DEF TierNames
        <2>3. s[j].plugins \in Seq(PluginsOf(s[j]))
            BY <2>1, PluginSpecsAssumption
        <2> QED BY <2>1, <2>2, <2>3, EmptySeq, LenProperties
    <1> QED BY <1>2, <1>3

(* The plugins of a tier of a spec. *)
LEMMA ListedFacts ==
    ASSUME NEW s \in Specs, NEW t \in TiersOf(s), NEW p \in PluginsOf(t)
    PROVE  /\ Id(p) \in Ids /\ Id(p)[1] = p.name /\ Id(p) \in IdsOf(t)
           /\ p.services \subseteq Manifest[p.name]
           /\ p.context \subseteq ContextKeys
           /\ Manifest[p.name] \subseteq AllServices
    <1>1. Id(p) \in Ids
        BY DEF Ids
    <1>2. Id(p)[1] = p.name
        BY DEF Id
    <1>3. Id(p) \in IdsOf(t)
        BY DEF IdsOf
    <1>4. p.services \subseteq Manifest[p.name]
        BY PluginSpecsAssumption
    <1>5. p.context \subseteq ContextKeys
        BY DEF ContextKeys
    <1>6. Manifest[p.name] \subseteq AllServices
        BY <1>1, <1>2 DEF AllServices
    <1> QED BY <1>1, <1>2, <1>3, <1>4, <1>5, <1>6

(* The tier of the pass. *)
LEMMA TierFacts ==
    ASSUME PassOK, pc # "idle"
    PROVE  /\ want \in Specs /\ ti \in DOMAIN want
           /\ Len(want) \in Nat /\ DOMAIN want = 1..Len(want)
           /\ tier \in TiersOf(want) /\ tier.name \in TierNames
           /\ Len(tier.plugins) \in Nat
           /\ DOMAIN tier.plugins = 1..Len(tier.plugins)
           /\ tier.plugins = <<>> <=> Len(tier.plugins) = 0
           /\ \A q \in DOMAIN tier.plugins : /\ tier.plugins[q] \in PluginsOf(tier)
                                             /\ Id(tier.plugins[q]) \in Ids
                                             /\ Id(tier.plugins[q]) \in IdsOf(tier)
           /\ IdsOf(tier) \subseteq Ids
           /\ \A i \in IdsOf(tier) : \E q \in DOMAIN tier.plugins : i = Id(tier.plugins[q])
    <1>1. want \in Specs /\ ti \in DOMAIN want
        BY DEF PassOK
    <1>2. /\ tier \in TiersOf(want) /\ tier.name \in TierNames
          /\ Len(want) \in Nat /\ DOMAIN want = 1..Len(want)
          /\ Len(tier.plugins) \in Nat
          /\ DOMAIN tier.plugins = 1..Len(tier.plugins)
          /\ tier.plugins = <<>> <=> Len(tier.plugins) = 0
        BY <1>1, SpecFacts DEF tier
    <1>3. \A q \in DOMAIN tier.plugins : tier.plugins[q] \in PluginsOf(tier)
        BY DEF PluginsOf
    <1>4. \A p \in PluginsOf(tier) : Id(p) \in Ids /\ Id(p) \in IdsOf(tier)
        BY <1>1, <1>2, ListedFacts
    <1>5. \A i \in IdsOf(tier) : \E q \in DOMAIN tier.plugins : i = Id(tier.plugins[q])
        BY DEF IdsOf, PluginsOf
    <1>6. IdsOf(tier) \subseteq Ids
        BY <1>4 DEF IdsOf
    <1> QED BY <1>1, <1>2, <1>3, <1>4, <1>5, <1>6

(* The plugin of the pass. *)
LEMMA PluginFacts ==
    ASSUME PassOK, InPlugin
    PROVE  /\ plugin \in PluginsOf(tier) /\ id \in Ids /\ id[1] = plugin.name
           /\ plugin.services \subseteq Manifest[plugin.name]
           /\ plugin.context \subseteq ContextKeys
           /\ Manifest[plugin.name] \subseteq AllServices
           /\ pi \in 1..Len(tier.plugins)
    <1>1. pc # "idle" /\ pi \in DOMAIN tier.plugins
        BY DEF PassOK, InPlugin, SqlSteps
    <1>2. want \in Specs /\ tier \in TiersOf(want) /\ plugin \in PluginsOf(tier)
          /\ DOMAIN tier.plugins = 1..Len(tier.plugins)
        BY <1>1, TierFacts DEF plugin
    <1> HIDE DEF plugin
    <1> QED BY <1>1, <1>2, ListedFacts DEF id

-----------------------------------------------------------------------------
(* What single statements do to the tables.                                *)

(* A complete version stays so while its row only grows. *)
LEMMA CompleteKept ==
    ASSUME NEW i \in Ids, Complete(i),
           db'[i].migrated,
           db[i].context \subseteq db'[i].context, db[i].bound \subseteq db'[i].bound
    PROVE  Complete(i)'
    <1>1. PICK t \in TierNames : \A svc \in Manifest[i[1]] : <<svc, t>> \in db[i].bound
        BY DEF Complete
    <1>2. \A svc \in Manifest[i[1]] : <<svc, t>> \in db'[i].bound
        BY <1>1
    <1>3. PICK s \in Specs : \E u \in TiersOf(s) : \E p \in PluginsOf(u) :
              Id(p) = i /\ p.context \subseteq db[i].context
        BY DEF Complete
    <1>4. PICK u \in TiersOf(s) : \E p \in PluginsOf(u) :
              Id(p) = i /\ p.context \subseteq db[i].context
        BY <1>3
    <1>5. PICK p \in PluginsOf(u) : Id(p) = i /\ p.context \subseteq db[i].context
        BY <1>4
    <1>6. p.context \subseteq db'[i].context
        BY <1>5
    <1> QED BY <1>2, <1>5, <1>6 DEF Complete

(* EnabledComplete depends on the row that changes. *)
LEMMA OneRowComplete ==
    ASSUME EnabledComplete, NEW i \in Ids,
           \A j \in Ids \ {i} : db'[j] = db[j],
           db'[i].enabled => Complete(i)'
    PROVE  EnabledComplete'
    <1>1. ASSUME NEW j \in Ids \ {i}, db'[j].enabled
          PROVE  Complete(j)'
        <2>1. db'[j] = db[j]
            OBVIOUS
        <2>2. Complete(j)
            BY <1>1, <2>1 DEF EnabledComplete, Complete
        <2> QED BY <2>1, <2>2, CompleteKept DEF Complete
    <1> QED BY <1>1 DEF EnabledComplete, Complete

(* CREATE PLUGIN: the version is there, and nothing else of it changes. *)
LEMMA CreateEffect ==
    ASSUME DbInv, NEW i \in Ids, Set(i, "exists", TRUE)
    PROVE  /\ DbInv'
           /\ \A j \in Ids \ {i} : db'[j] = db[j]
           /\ db'[i].exists
           /\ db'[i].enabled = db[i].enabled /\ db'[i].migrated = db[i].migrated
           /\ db'[i].context = db[i].context /\ db'[i].bound = db[i].bound
    <1>1. /\ TablesOK'
          /\ \A j \in Ids \ {i} : db'[j] = db[j]
          /\ db'[i].exists
          /\ db'[i].enabled = db[i].enabled /\ db'[i].migrated = db[i].migrated
          /\ db'[i].context = db[i].context /\ db'[i].bound = db[i].bound
        BY DEF DbInv, TablesOK, Set, Entries
    <1>2. db'[i].enabled => Complete(i)'
        BY <1>1, CompleteKept DEF DbInv, EnabledComplete, Complete
    <1> QED BY <1>1, <1>2, OneRowComplete DEF DbInv

(* ALTER PLUGIN ... ADD SERVICE: the row has one more binding. *)
LEMMA BindEffect ==
    ASSUME DbInv, NEW i \in Ids, db[i].exists,
           NEW svc \in Manifest[i[1]], NEW t \in TierNames,
           Set(i, "bound", db[i].bound \cup {<<svc, t>>})
    PROVE  /\ DbInv'
           /\ \A j \in Ids \ {i} : db'[j] = db[j]
           /\ db'[i].exists
           /\ db'[i].enabled = db[i].enabled /\ db'[i].migrated = db[i].migrated
           /\ db'[i].context = db[i].context
           /\ db'[i].bound = db[i].bound \cup {<<svc, t>>}
    <1>1. svc \in AllServices
        BY DEF AllServices
    <1>2. PICK b \in SUBSET (AllServices \X TierNames) :
              /\ b = db[i].bound \cup {<<svc, t>>}
              /\ b \subseteq Manifest[i[1]] \X TierNames
        BY <1>1 DEF DbInv, TablesOK, Entries
    <1>3. Set(i, "bound", b)
        BY <1>2
    <1>4. /\ TablesOK'
          /\ \A j \in Ids \ {i} : db'[j] = db[j]
          /\ db'[i].exists
          /\ db'[i].enabled = db[i].enabled /\ db'[i].migrated = db[i].migrated
          /\ db'[i].context = db[i].context
          /\ db'[i].bound = b
        BY <1>2, <1>3 DEF DbInv, TablesOK, Set, Entries
    <1>5. db'[i].enabled => Complete(i)'
        BY <1>2, <1>4, CompleteKept DEF DbInv, EnabledComplete, Complete
    <1> QED BY <1>2, <1>4, <1>5, OneRowComplete DEF DbInv

(* ALTER PLUGIN ... SET: the row has one more key of the context. *)
LEMMA ContextEffect ==
    ASSUME DbInv, NEW i \in Ids, db[i].exists, NEW k \in ContextKeys,
           Set(i, "context", db[i].context \cup {k})
    PROVE  /\ DbInv'
           /\ \A j \in Ids \ {i} : db'[j] = db[j]
           /\ db'[i].exists
           /\ db'[i].enabled = db[i].enabled /\ db'[i].migrated = db[i].migrated
           /\ db'[i].context = db[i].context \cup {k}
           /\ db'[i].bound = db[i].bound
    <1>1. /\ TablesOK'
          /\ \A j \in Ids \ {i} : db'[j] = db[j]
          /\ db'[i].exists
          /\ db'[i].enabled = db[i].enabled /\ db'[i].migrated = db[i].migrated
          /\ db'[i].context = db[i].context \cup {k}
          /\ db'[i].bound = db[i].bound
        BY DEF DbInv, TablesOK, Set, Entries
    <1>2. db'[i].enabled => Complete(i)'
        BY <1>1, CompleteKept DEF DbInv, EnabledComplete, Complete
    <1> QED BY <1>1, <1>2, OneRowComplete DEF DbInv

(* ALTER PLUGIN MIGRATE. *)
LEMMA MigrateEffect ==
    ASSUME DbInv, NEW i \in Ids, db[i].exists, Set(i, "migrated", TRUE)
    PROVE  /\ DbInv'
           /\ \A j \in Ids \ {i} : db'[j] = db[j]
           /\ db'[i].exists /\ db'[i].migrated
           /\ db'[i].enabled = db[i].enabled
           /\ db'[i].context = db[i].context /\ db'[i].bound = db[i].bound
    <1>1. /\ TablesOK'
          /\ \A j \in Ids \ {i} : db'[j] = db[j]
          /\ db'[i].exists /\ db'[i].migrated
          /\ db'[i].enabled = db[i].enabled
          /\ db'[i].context = db[i].context /\ db'[i].bound = db[i].bound
        BY DEF DbInv, TablesOK, Set, Entries
    <1>2. db'[i].enabled => Complete(i)'
        BY <1>1, CompleteKept DEF DbInv, EnabledComplete, Complete
    <1> QED BY <1>1, <1>2, OneRowComplete DEF DbInv

(* ALTER PLUGIN ENABLE, of a version installed completely. *)
LEMMA EnableEffect ==
    ASSUME DbInv, NEW i \in Ids, db[i].exists, Complete(i), Set(i, "enabled", TRUE)
    PROVE  /\ DbInv'
           /\ \A j \in Ids \ {i} : db'[j] = db[j]
           /\ db'[i].exists /\ db'[i].enabled
           /\ db'[i].migrated = db[i].migrated
           /\ db'[i].context = db[i].context /\ db'[i].bound = db[i].bound
    <1>1. /\ TablesOK'
          /\ \A j \in Ids \ {i} : db'[j] = db[j]
          /\ db'[i].exists /\ db'[i].enabled
          /\ db'[i].migrated = db[i].migrated
          /\ db'[i].context = db[i].context /\ db'[i].bound = db[i].bound
        BY DEF DbInv, TablesOK, Set, Entries
    <1>2. Complete(i)'
        BY <1>1, CompleteKept DEF Complete
    <1> QED BY <1>1, <1>2, OneRowComplete DEF DbInv

(* ALTER PLUGIN DISABLE. *)
LEMMA DisableEffect ==
    ASSUME DbInv, NEW i \in Ids, db[i].exists, Disable(i)
    PROVE  /\ DbInv'
           /\ \A j \in Ids \ {i} : db'[j] = db[j]
           /\ db'[i].exists /\ ~db'[i].enabled
           /\ db'[i].migrated = db[i].migrated
    <1>0. PICK v \in BOOLEAN : ~v /\ Set(i, "enabled", v)
        BY DEF Disable
    <1>1. /\ TablesOK'
          /\ \A j \in Ids \ {i} : db'[j] = db[j]
          /\ db'[i].exists /\ ~db'[i].enabled
          /\ db'[i].migrated = db[i].migrated
        BY <1>0 DEF DbInv, TablesOK, Set, Entries
    <1> QED BY <1>1, OneRowComplete DEF DbInv

(* DROP PLUGIN. *)
LEMMA DropEffect ==
    ASSUME DbInv, NEW i \in Ids, db' = [db EXCEPT ![i] = NotInstalled]
    PROVE  /\ DbInv'
           /\ \A j \in Ids \ {i} : db'[j] = db[j]
           /\ db'[i] = NotInstalled
    <1>1. /\ NotInstalled \in Entries /\ ~NotInstalled.enabled
          /\ NotInstalled.bound = {}
        <2>1. {} \in SUBSET ContextKeys /\ {} \in SUBSET (AllServices \X TierNames)
            OBVIOUS
        <2>2. NotInstalled \in Entries
            BY <2>1 DEF Entries, NotInstalled
        <2> QED BY <2>2 DEF NotInstalled
    <1>2. /\ TablesOK'
          /\ \A j \in Ids \ {i} : db'[j] = db[j]
          /\ db'[i] = NotInstalled
        BY <1>1 DEF DbInv, TablesOK
    <1> QED BY <1>1, <1>2, OneRowComplete DEF DbInv

-----------------------------------------------------------------------------
(* The pass, step by step.                                                 *)

(* The tables are as good as before when nothing is written. *)
LEMMA SameDb ==
    ASSUME DbInv, UNCHANGED db
    PROVE  DbInv'
  BY DEF DbInv, TablesOK, EnabledComplete

(* A pass that ends, for whatever reason, leaves nothing to keep up. *)
LEMMA Cleared ==
    ASSUME ClearLocals
    PROVE  LocalInv' /\ pc' = "idle" /\ enabled' \in BOOLEAN /\ allReady' \in BOOLEAN
  BY DEF ClearLocals, LocalInv, PassOK, VersionOK, DoneOK, DropOK, InPlugin, SqlSteps, DropSteps

(* Between two tiers, and after the last, there is only a tier to keep up. *)
LEMMA TierDoneStep ==
    ASSUME PassOK, pc # "idle", NEW a, NEW b, TierDone(a, b)
    PROVE  LocalInv' /\ pc' \in {"tier", "report"}
    <1>1. /\ want' = want /\ pc' \in {"tier", "report"}
          /\ ti' = IF ti < Len(want) THEN ti + 1 ELSE ti
        BY DEF TierDone
    <1>2. want \in Specs /\ ti \in 1..Len(want) /\ Len(want) \in Nat
          /\ DOMAIN want = 1..Len(want)
        BY TierFacts
    <1>3. ti' \in DOMAIN want'
        BY <1>1, <1>2
    <1> QED BY <1>1, <1>2, <1>3
            DEF LocalInv, PassOK, VersionOK, DoneOK, DropOK, InPlugin, SqlSteps, DropSteps

(* The versions that the pass is through with stay ready while no row      *)
(* loses a binding or is disabled, except rows of no concern to the tier.  *)
LEMMA ReadyKept ==
    ASSUME NEW i \in Ids, NEW t, Ready(i, t),
           db'[i].enabled, db[i].bound \subseteq db'[i].bound
    PROVE  Ready(i, t)'
  BY DEF Ready

(* BeginPass: the first tier. *)
LEMMA BeginPassStep ==
    ASSUME PluginInv, BeginPass
    PROVE  DbInv' /\ LocalInv'
    <1>1. spec \in Specs /\ want' = spec /\ ti' = 1 /\ pc' = "tier" /\ db' = db
        BY DEF PluginInv, ScalarsOK, BeginPass
    <1>2. 1 \in DOMAIN spec
        BY <1>1, SpecFacts
    <1> QED BY <1>1, <1>2, SameDb
            DEF PluginInv, LocalInv, PassOK, VersionOK, DoneOK, DropOK, InPlugin, SqlSteps, DropSteps

(* EnterTier: on to the plugins, or to the next tier. *)
LEMMA EnterTierStep ==
    ASSUME PluginInv, EnterTier
    PROVE  DbInv' /\ LocalInv'
    <1>1. db' = db /\ pc = "tier" /\ PassOK /\ DbInv'
        BY SameDb DEF EnterTier, PluginInv, LocalInv
    <1>2. CASE tier.plugins # <<>> /\ pc' = "connect" /\ UNCHANGED passVars
        BY <1>1, <1>2
           DEF LocalInv, PassOK, VersionOK, DoneOK, DropOK, InPlugin, SqlSteps, DropSteps,
               passVars, tier
    <1>3. CASE TierDone(<<>>, TRUE) \/ TierDone(<<>>, FALSE)
        BY <1>1, <1>3, TierDoneStep
    <1> QED BY <1>1, <1>2, <1>3 DEF EnterTier

(* Connect: on to the first plugin. *)
LEMMA ConnectStep ==
    ASSUME PluginInv, Connect
    PROVE  DbInv' /\ LocalInv'
    <1>1. db' = db /\ pc = "connect" /\ pc' = "query" /\ pi' = 1 /\ want' = want /\ ti' = ti
        BY DEF Connect, Query, passVars
    <1>2. 1 \in DOMAIN tier.plugins /\ tier.plugins # <<>>
        <2>1. tier.plugins # <<>> /\ PassOK
            BY <1>1 DEF PluginInv, LocalInv, PassOK, SqlSteps
        <2> QED BY <1>1, <2>1, TierFacts
    <1>3. PassOK'
        BY <1>1, <1>2 DEF PluginInv, LocalInv, PassOK, InPlugin, SqlSteps, DropSteps, tier
    <1>4. VersionOK' /\ DropOK'
        BY <1>1 DEF VersionOK, DropOK
    <1>5. DoneOK'
        BY <1>1 DEF DoneOK, DropSteps
    <1> QED BY <1>1, <1>3, <1>4, <1>5, SameDb DEF PluginInv, LocalInv

(* A step of reconcilePlugin that stays with its plugin and keeps every    *)
(* enabled version keeps the versions before it ready.                     *)
LEMMA SamePlugin ==
    ASSUME PassOK, DoneOK, InPlugin, InPlugin',
           want' = want, ti' = ti, pi' = pi,
           \A j \in Ids : /\ db[j].enabled => db'[j].enabled
                          /\ db[j].bound \subseteq db'[j].bound
    PROVE  /\ PassOK' /\ DoneOK' /\ DropOK'
           /\ tier' = tier /\ plugin' = plugin /\ id' = id
    <1>1. tier' = tier /\ plugin' = plugin /\ id' = id
        BY DEF tier, plugin, id
    <1>2. pc # "idle" /\ pc' \in SqlSteps /\ pc \in SqlSteps /\ pc' \notin DropSteps
        BY DEF InPlugin, SqlSteps, DropSteps
    <1>3. PassOK'
        BY <1>1, <1>2 DEF PassOK
    <1>4. DropOK'
        BY <1>2 DEF DropOK, SqlSteps
    <1>5. ASSUME NEW q \in 1..(pi - 1)
          PROVE  Ready(Id(tier.plugins[q]), tier.name)'
        <2> DEFINE i == Id(tier.plugins[q])
        <2>1. q \in DOMAIN tier.plugins
            BY <1>2, TierFacts, PluginFacts
        <2>2. i \in Ids
            BY <1>2, <2>1, TierFacts
        <2>3. Ready(i, tier.name)
            BY DEF DoneOK
        <2>4. db'[i].enabled /\ db[i].bound \subseteq db'[i].bound
            BY <2>2, <2>3 DEF Ready
        <2>5. Ready(i, tier.name)' <=> /\ db'[i].enabled
                                       /\ \A svc \in Manifest[i[1]] : <<svc, tier.name>> \in db'[i].bound
            BY <1>1 DEF Ready
        <2> QED BY <2>3, <2>4, <2>5 DEF Ready
    <1>6. DoneOK'
        BY <1>1, <1>2, <1>5 DEF DoneOK
    <1> QED BY <1>1, <1>3, <1>4, <1>6

(* queryPluginState: absent, to be prepared again, or enabled already. *)
LEMMA QueryStateStep ==
    ASSUME PluginInv, queryPluginState
    PROVE  DbInv' /\ LocalInv'
    <1>1. /\ pc = "query" /\ InPlugin /\ db' = db /\ DbInv' /\ DbInv /\ LocalInv
          /\ want' = want /\ ti' = ti /\ pi' = pi
          /\ pc' \in {"create", "prepare", "services"}
          /\ enabled' = db[id].enabled
        BY SameDb DEF queryPluginState, Query, Prepare, passVars, PluginInv, InPlugin, SqlSteps
    <1>2. /\ id \in Ids /\ plugin.services \subseteq Manifest[plugin.name]
        BY <1>1, PluginFacts DEF LocalInv
    <1>3. InPlugin'
        BY <1>1 DEF InPlugin, SqlSteps
    <1>4. /\ PassOK' /\ DoneOK' /\ DropOK'
          /\ tier' = tier /\ plugin' = plugin /\ id' = id
        BY <1>1, <1>3, SamePlugin DEF LocalInv
    <1>5. VersionOK'
        <2>1. /\ db[id].enabled \in BOOLEAN
              /\ ~db[id].exists => ~db[id].enabled
            BY <1>1, <1>2 DEF DbInv, TablesOK, Entries, NotInstalled
        <2>2. CASE ~db[id].exists /\ pc' = "create"
            BY <1>1, <1>4, <2>1, <2>2 DEF VersionOK
        <2>3. CASE db[id].exists /\ ~db[id].enabled /\ Prepare
            BY <1>1, <1>2, <1>4, <2>3 DEF VersionOK, Prepare
        <2>4. CASE db[id].enabled /\ pc' = "services"
            BY <1>1, <1>4, <2>1, <2>4 DEF VersionOK
        <2> QED BY <2>2, <2>3, <2>4 DEF queryPluginState, Query
    <1> QED BY <1>1, <1>4, <1>5 DEF LocalInv

(* CreatePlugin: an absent version is there and not enabled. *)
LEMMA CreatePluginStep ==
    ASSUME PluginInv, CreatePlugin
    PROVE  DbInv' /\ LocalInv'
    <1>1. pc = "create" /\ InPlugin /\ LocalInv /\ DbInv
        BY DEF CreatePlugin, InPlugin, SqlSteps, PluginInv
    <1>2. id \in Ids /\ plugin.services \subseteq Manifest[plugin.name]
        BY <1>1, PluginFacts DEF LocalInv
    <1>3. CASE Refused
        BY <1>1, <1>3, SameDb, Cleared DEF Refused, PluginsFailed
    <1>4. CASE Statement(Set(id, "exists", TRUE), Prepare /\ UNCHANGED enabled)
        <2>1. /\ DbInv'
              /\ \A j \in Ids \ {id} : db'[j] = db[j]
              /\ db'[id].exists
              /\ db'[id].enabled = db[id].enabled
              /\ db'[id].context = db[id].context /\ db'[id].bound = db[id].bound
            BY <1>1, <1>2, <1>4, CreateEffect DEF Statement
        <2>2. CASE PluginsFailed
            BY <2>1, <2>2, Cleared DEF PluginsFailed
        <2>3. CASE Prepare /\ UNCHANGED enabled
            <3>1. /\ pc' = "prepare" /\ want' = want /\ ti' = ti /\ pi' = pi
                  /\ services' = plugin.services /\ context' = plugin.context
                  /\ enabled' = enabled
                BY <2>3 DEF Prepare, passVars
            <3>2. InPlugin'
                BY <3>1 DEF InPlugin, SqlSteps
            <3>3. \A j \in Ids : /\ db[j].enabled => db'[j].enabled
                                 /\ db[j].bound \subseteq db'[j].bound
                BY <2>1
            <3>4. /\ PassOK' /\ DoneOK' /\ DropOK'
                  /\ tier' = tier /\ plugin' = plugin /\ id' = id
                BY <1>1, <3>1, <3>2, <3>3, SamePlugin DEF LocalInv
            <3>5. ~db[id].enabled /\ ~enabled
                BY <1>1, <1>2 DEF LocalInv, VersionOK, DbInv, TablesOK, NotInstalled
            <3>6. VersionOK'
                BY <1>2, <2>1, <3>1, <3>4, <3>5 DEF VersionOK
            <3> QED BY <2>1, <3>4, <3>6 DEF LocalInv
        <2> QED BY <1>4, <2>2, <2>3 DEF Statement
    <1> QED BY <1>3, <1>4 DEF CreatePlugin

(* AddService: one of the declared services is bound. *)
LEMMA AddServiceStep ==
    ASSUME PluginInv, AddService
    PROVE  DbInv' /\ LocalInv'
    <1>1. pc = "prepare" /\ InPlugin /\ LocalInv /\ DbInv /\ pc # "idle" /\ PassOK
        BY DEF AddService, InPlugin, SqlSteps, PluginInv, LocalInv
    <1>2. id \in Ids /\ id[1] = plugin.name /\ tier.name \in TierNames
        BY <1>1, PluginFacts, TierFacts
    <1>3. PICK svc \in services :
              Statement(Bind(svc),
                        /\ services' = services \ {svc}
                        /\ UNCHANGED <<pc, passVars, pi, enabled, context, dropVars, reportVars>>)
        BY DEF AddService
    <1>4. db[id].exists /\ svc \in Manifest[id[1]]
        BY <1>1, <1>2, <1>3 DEF LocalInv, VersionOK
    <1>5. Set(id, "bound", db[id].bound \cup {<<svc, tier.name>>})
        BY <1>3 DEF Statement, Bind
    <1>6. /\ DbInv'
          /\ \A j \in Ids \ {id} : db'[j] = db[j]
          /\ db'[id].exists
          /\ db'[id].enabled = db[id].enabled /\ db'[id].migrated = db[id].migrated
          /\ db'[id].context = db[id].context
          /\ db'[id].bound = db[id].bound \cup {<<svc, tier.name>>}
        BY <1>1, <1>2, <1>4, <1>5, BindEffect
    <1>7. CASE PluginsFailed
        BY <1>6, <1>7, Cleared DEF PluginsFailed
    <1>8. CASE /\ services' = services \ {svc}
               /\ UNCHANGED <<pc, passVars, pi, enabled, context, dropVars, reportVars>>
        <2>1. /\ pc' = pc /\ want' = want /\ ti' = ti /\ pi' = pi /\ enabled' = enabled
              /\ context' = context
            BY <1>8 DEF passVars
        <2>2. InPlugin'
            BY <1>1, <2>1 DEF InPlugin
        <2>3. \A j \in Ids : /\ db[j].enabled => db'[j].enabled
                             /\ db[j].bound \subseteq db'[j].bound
            BY <1>6
        <2>4. /\ PassOK' /\ DoneOK' /\ DropOK'
              /\ tier' = tier /\ plugin' = plugin /\ id' = id
            BY <1>1, <2>1, <2>2, <2>3, SamePlugin DEF LocalInv
        <2>5. VersionOK'
            BY <1>1, <1>6, <1>8, <2>1, <2>4 DEF LocalInv, VersionOK
        <2> QED BY <1>6, <2>4, <2>5 DEF LocalInv
    <1> QED BY <1>3, <1>7, <1>8 DEF Statement

(* SetMigrationContext: one key of the context is set. *)
LEMMA SetContextStep ==
    ASSUME PluginInv, SetMigrationContext
    PROVE  DbInv' /\ LocalInv'
    <1>1. pc = "prepare" /\ InPlugin /\ LocalInv /\ DbInv /\ PassOK
        BY DEF SetMigrationContext, InPlugin, SqlSteps, PluginInv, LocalInv
    <1>2. id \in Ids /\ plugin.context \subseteq ContextKeys
        BY <1>1, PluginFacts
    <1>3. PICK k \in context :
              Statement(Set(id, "context", db[id].context \cup {k}),
                        /\ context' = context \ {k}
                        /\ UNCHANGED <<pc, passVars, pi, enabled, services, dropVars, reportVars>>)
        BY DEF SetMigrationContext
    <1>4. db[id].exists /\ k \in ContextKeys
        BY <1>1, <1>2, <1>3 DEF LocalInv, VersionOK
    <1>5. /\ DbInv'
          /\ \A j \in Ids \ {id} : db'[j] = db[j]
          /\ db'[id].exists
          /\ db'[id].enabled = db[id].enabled /\ db'[id].migrated = db[id].migrated
          /\ db'[id].context = db[id].context \cup {k}
          /\ db'[id].bound = db[id].bound
        BY <1>1, <1>2, <1>3, <1>4, ContextEffect DEF Statement
    <1>7. CASE PluginsFailed
        BY <1>5, <1>7, Cleared DEF PluginsFailed
    <1>8. CASE /\ context' = context \ {k}
               /\ UNCHANGED <<pc, passVars, pi, enabled, services, dropVars, reportVars>>
        <2>1. /\ pc' = pc /\ want' = want /\ ti' = ti /\ pi' = pi /\ enabled' = enabled
              /\ services' = services
            BY <1>8 DEF passVars
        <2>2. InPlugin'
            BY <1>1, <2>1 DEF InPlugin
        <2>3. \A j \in Ids : /\ db[j].enabled => db'[j].enabled
                             /\ db[j].bound \subseteq db'[j].bound
            BY <1>5
        <2>4. /\ PassOK' /\ DoneOK' /\ DropOK'
              /\ tier' = tier /\ plugin' = plugin /\ id' = id
            BY <1>1, <2>1, <2>2, <2>3, SamePlugin DEF LocalInv
        <2>5. VersionOK'
            BY <1>1, <1>5, <1>8, <2>1, <2>4 DEF LocalInv, VersionOK
        <2> QED BY <1>5, <2>4, <2>5 DEF LocalInv
    <1> QED BY <1>3, <1>7, <1>8 DEF Statement

(* MigrateTo: every key of the context is set by then. *)
LEMMA MigrateToStep ==
    ASSUME PluginInv, MigrateTo
    PROVE  DbInv' /\ LocalInv'
    <1>1. pc = "prepare" /\ context = {} /\ InPlugin /\ LocalInv /\ DbInv /\ PassOK
        BY DEF MigrateTo, InPlugin, SqlSteps, PluginInv, LocalInv
    <1>2. id \in Ids
        BY <1>1, PluginFacts
    <1>3. db[id].exists /\ Set(id, "migrated", TRUE)
        BY <1>1 DEF LocalInv, VersionOK, MigrateTo, Statement
    <1>4. /\ DbInv'
          /\ \A j \in Ids \ {id} : db'[j] = db[j]
          /\ db'[id].exists /\ db'[id].migrated
          /\ db'[id].enabled = db[id].enabled
          /\ db'[id].context = db[id].context /\ db'[id].bound = db[id].bound
        BY <1>1, <1>2, <1>3, MigrateEffect
    <1>5. CASE PluginsFailed
        BY <1>4, <1>5, Cleared DEF PluginsFailed
    <1>6. CASE pc' = "services" /\ UNCHANGED <<passVars, pluginVars, dropVars, reportVars>>
        <2>1. /\ pc' = "services" /\ want' = want /\ ti' = ti /\ pi' = pi
              /\ enabled' = enabled
            BY <1>6 DEF passVars, pluginVars
        <2>2. InPlugin'
            BY <2>1 DEF InPlugin, SqlSteps
        <2>3. \A j \in Ids : /\ db[j].enabled => db'[j].enabled
                             /\ db[j].bound \subseteq db'[j].bound
            BY <1>4
        <2>4. /\ PassOK' /\ DoneOK' /\ DropOK'
              /\ tier' = tier /\ plugin' = plugin /\ id' = id
            BY <1>1, <2>1, <2>2, <2>3, SamePlugin DEF LocalInv
        <2>5. /\ ~db[id].enabled /\ ~enabled
              /\ plugin.context \subseteq db[id].context
            BY <1>1 DEF LocalInv, VersionOK
        <2>6. enabled \in BOOLEAN /\ db[id].enabled \in BOOLEAN
            BY <1>1, <1>2 DEF PluginInv, ScalarsOK, DbInv, TablesOK, Entries
        <2>7. VersionOK'
            BY <1>4, <2>1, <2>4, <2>5, <2>6 DEF VersionOK
        <2> QED BY <1>4, <2>4, <2>7 DEF LocalInv
    <1> QED BY <1>5, <1>6 DEF MigrateTo, Statement

(* queryPluginServices: what is not found is bound to the tier; the        *)
(* version is migrated, so that none of its services is overlooked.        *)
LEMMA QueryServicesStep ==
    ASSUME PluginInv, queryPluginServices
    PROVE  DbInv' /\ LocalInv'
    <1>1. /\ pc = "services" /\ InPlugin /\ db' = db /\ DbInv' /\ DbInv /\ LocalInv /\ PassOK
          /\ want' = want /\ ti' = ti /\ pi' = pi /\ pc' = "bind" /\ enabled' = enabled
          /\ services' = { svc \in Manifest[plugin.name] :
                              db[id].migrated /\ <<svc, tier.name>> \notin db[id].bound }
        BY SameDb DEF queryPluginServices, Query, passVars, PluginInv, LocalInv, InPlugin, SqlSteps
    <1>2. id \in Ids
        BY <1>1, PluginFacts
    <1>3. InPlugin'
        BY <1>1 DEF InPlugin, SqlSteps
    <1>4. /\ PassOK' /\ DoneOK' /\ DropOK'
          /\ tier' = tier /\ plugin' = plugin /\ id' = id
        BY <1>1, <1>3, SamePlugin DEF LocalInv
    <1>5. db[id].migrated
        BY <1>1, <1>2 DEF LocalInv, VersionOK, DbInv, EnabledComplete
    <1>6. VersionOK'
        BY <1>1, <1>4, <1>5 DEF LocalInv, VersionOK
    <1> QED BY <1>1, <1>4, <1>6 DEF LocalInv

(* BindService: one more service is bound. *)
LEMMA BindServiceStep ==
    ASSUME PluginInv, BindService
    PROVE  DbInv' /\ LocalInv'
    <1>1. pc = "bind" /\ InPlugin /\ LocalInv /\ DbInv /\ pc # "idle" /\ PassOK
        BY DEF BindService, InPlugin, SqlSteps, PluginInv, LocalInv
    <1>2. id \in Ids /\ id[1] = plugin.name /\ tier.name \in TierNames
        BY <1>1, PluginFacts, TierFacts
    <1>3. PICK svc \in services :
              Statement(Bind(svc),
                        /\ services' = services \ {svc}
                        /\ UNCHANGED <<pc, passVars, pi, enabled, context, dropVars, reportVars>>)
        BY DEF BindService
    <1>4. db[id].exists /\ svc \in Manifest[id[1]]
        BY <1>1, <1>2, <1>3 DEF LocalInv, VersionOK
    <1>5. Set(id, "bound", db[id].bound \cup {<<svc, tier.name>>})
        BY <1>3 DEF Statement, Bind
    <1>6. /\ DbInv'
          /\ \A j \in Ids \ {id} : db'[j] = db[j]
          /\ db'[id].exists
          /\ db'[id].enabled = db[id].enabled /\ db'[id].migrated = db[id].migrated
          /\ db'[id].context = db[id].context
          /\ db'[id].bound = db[id].bound \cup {<<svc, tier.name>>}
        BY <1>1, <1>2, <1>4, <1>5, BindEffect
    <1>7. CASE PluginsFailed
        BY <1>6, <1>7, Cleared DEF PluginsFailed
    <1>8. CASE /\ services' = services \ {svc}
               /\ UNCHANGED <<pc, passVars, pi, enabled, context, dropVars, reportVars>>
        <2>1. /\ pc' = pc /\ want' = want /\ ti' = ti /\ pi' = pi /\ enabled' = enabled
            BY <1>8 DEF passVars
        <2>2. InPlugin'
            BY <1>1, <2>1 DEF InPlugin
        <2>3. \A j \in Ids : /\ db[j].enabled => db'[j].enabled
                             /\ db[j].bound \subseteq db'[j].bound
            BY <1>6
        <2>4. /\ PassOK' /\ DoneOK' /\ DropOK'
              /\ tier' = tier /\ plugin' = plugin /\ id' = id
            BY <1>1, <2>1, <2>2, <2>3, SamePlugin DEF LocalInv
        <2>5. VersionOK'
            BY <1>1, <1>6, <1>8, <2>1, <2>4 DEF LocalInv, VersionOK
        <2> QED BY <1>6, <2>4, <2>5 DEF LocalInv
    <1> QED BY <1>3, <1>7, <1>8 DEF Statement

(* On to the next plugin, or to the drop, when the plugin at hand is ready. *)
LEMMA NextPluginStep ==
    ASSUME LocalInv, InPlugin, NextPlugin,
           \A j \in Ids : /\ db[j].enabled => db'[j].enabled
                          /\ db[j].bound \subseteq db'[j].bound,
           db'[id].enabled,
           \A svc \in Manifest[id[1]] : <<svc, tier.name>> \in db'[id].bound
    PROVE  LocalInv'
    <1>1. /\ want' = want /\ ti' = ti /\ tier' = tier
          /\ IF pi < Len(tier.plugins) THEN pc' = "query" /\ pi' = pi + 1
                                       ELSE pc' = "list" /\ pi' = 0
        BY DEF NextPlugin, passVars, tier
    <1>2. /\ PassOK /\ pc # "idle" /\ pc \in SqlSteps
        BY DEF LocalInv, InPlugin, SqlSteps
    <1>3. /\ pi \in 1..Len(tier.plugins) /\ Len(tier.plugins) \in Nat
          /\ DOMAIN tier.plugins = 1..Len(tier.plugins)
          /\ id = Id(tier.plugins[pi])
        BY <1>2, PluginFacts, TierFacts DEF id, plugin
    <1>4. pc' \in {"query", "list"}
        BY <1>1
    <1>5. VersionOK' /\ DropOK'
        BY <1>4 DEF VersionOK, DropOK
    <1>6. PassOK'
        <2>1. want' \in Specs /\ ti' \in DOMAIN want' /\ tier'.plugins # <<>>
            BY <1>1, <1>2 DEF PassOK
        <2>2. InPlugin' => pi' \in DOMAIN tier'.plugins
            BY <1>1, <1>3 DEF InPlugin, SqlSteps
        <2> QED BY <2>1, <2>2 DEF PassOK
    <1>7. ASSUME NEW q \in 1..pi
          PROVE  Ready(Id(tier.plugins[q]), tier.name)'
        <2> DEFINE i == Id(tier.plugins[q])
        <2>1. CASE q = pi
            <3>1. i = id
                BY <1>3, <2>1
            <3> QED BY <1>1, <3>1 DEF Ready
        <2>2. CASE q \in 1..(pi - 1)
            <3>1. q \in DOMAIN tier.plugins
                BY <1>3, <2>2
            <3>2. i \in Ids
                BY <1>2, <3>1, TierFacts
            <3>3. Ready(i, tier.name)
                BY <2>2 DEF LocalInv, DoneOK
            <3>4. db'[i].enabled /\ db[i].bound \subseteq db'[i].bound
                BY <3>2, <3>3 DEF Ready
            <3> QED BY <1>1, <3>3, <3>4 DEF Ready
        <2> QED BY <1>3, <2>1, <2>2
    <1>8. DoneOK'
        <2>1. CASE pi < Len(tier.plugins)
            <3>1. pc' = "query" /\ pi' - 1 = pi
                BY <1>1, <1>3, <2>1
            <3> QED BY <1>1, <1>7, <3>1 DEF DoneOK, DropSteps
        <2>2. CASE ~(pi < Len(tier.plugins))
            <3>1. pc' = "list" /\ DOMAIN tier.plugins = 1..pi
                BY <1>1, <1>3, <2>2
            <3> QED BY <1>1, <1>7, <3>1 DEF DoneOK, InPlugin, SqlSteps
        <2> QED BY <2>1, <2>2
    <1> QED BY <1>5, <1>6, <1>8 DEF LocalInv

(* AlreadyEnabled: an enabled version with all services bound to the tier. *)
LEMMA AlreadyEnabledStep ==
    ASSUME PluginInv, AlreadyEnabled
    PROVE  DbInv' /\ LocalInv'
    <1>1. /\ pc = "bind" /\ services = {} /\ enabled /\ NextPlugin /\ db' = db
          /\ InPlugin /\ LocalInv /\ PassOK /\ DbInv'
        BY SameDb DEF AlreadyEnabled, Query, PluginInv, LocalInv, InPlugin, SqlSteps
    <1>2. id[1] = plugin.name
        BY <1>1, PluginFacts
    <1>3. /\ db[id].enabled
          /\ \A svc \in Manifest[id[1]] : <<svc, tier.name>> \in db[id].bound
        BY <1>1, <1>2 DEF LocalInv, VersionOK
    <1> QED BY <1>1, <1>3, NextPluginStep

(* EnablePlugin: the version is migrated with its context, and all of its  *)
(* services are bound to the tier.                                         *)
LEMMA EnablePluginStep ==
    ASSUME PluginInv, EnablePlugin
    PROVE  DbInv' /\ LocalInv'
    <1>1. /\ pc = "bind" /\ services = {} /\ ~enabled
          /\ InPlugin /\ LocalInv /\ PassOK /\ DbInv /\ pc # "idle"
        BY DEF EnablePlugin, PluginInv, LocalInv, InPlugin, SqlSteps
    <1>2. /\ id \in Ids /\ id[1] = plugin.name /\ tier.name \in TierNames
          /\ want \in Specs /\ tier \in TiersOf(want) /\ plugin \in PluginsOf(tier)
          /\ Id(plugin) = id
        BY <1>1, PluginFacts, TierFacts DEF id
    <1>3. /\ db[id].exists /\ db[id].migrated /\ plugin.context \subseteq db[id].context
          /\ \A svc \in Manifest[id[1]] : <<svc, tier.name>> \in db[id].bound
        BY <1>1, <1>2 DEF LocalInv, VersionOK
    <1>4. Complete(id)
        BY <1>2, <1>3 DEF Complete
    <1>5. CASE Refused
        BY <1>1, <1>5, SameDb, Cleared DEF Refused, PluginsFailed
    <1>6. CASE Statement(Set(id, "enabled", TRUE), NextPlugin)
        <2>1. /\ DbInv'
              /\ \A j \in Ids \ {id} : db'[j] = db[j]
              /\ db'[id].enabled /\ db'[id].bound = db[id].bound
            BY <1>1, <1>2, <1>3, <1>4, <1>6, EnableEffect DEF Statement
        <2>2. CASE PluginsFailed
            BY <2>1, <2>2, Cleared DEF PluginsFailed
        <2>3. CASE NextPlugin
            <3>1. \A j \in Ids : /\ db[j].enabled => db'[j].enabled
                                 /\ db[j].bound \subseteq db'[j].bound
                BY <2>1
            <3>2. \A svc \in Manifest[id[1]] : <<svc, tier.name>> \in db'[id].bound
                BY <1>3, <2>1
            <3> QED BY <1>1, <2>1, <2>3, <3>1, <3>2, NextPluginStep
        <2> QED BY <1>6, <2>2, <2>3 DEF Statement
    <1> QED BY <1>5, <1>6 DEF EnablePlugin

-----------------------------------------------------------------------------
(* dropObsoletePlugins.                                                    *)

(* A step of the drop keeps the tier's own versions as they are. *)
LEMMA SameTier ==
    ASSUME LocalInv, pc \in DropSteps, pc' \in DropSteps,
           want' = want, ti' = ti,
           \A j \in IdsOf(tier) : db'[j] = db[j]
    PROVE  PassOK' /\ VersionOK' /\ DoneOK' /\ tier' = tier
    <1>1. tier' = tier
        BY DEF tier
    <1>2. /\ PassOK /\ pc # "idle"
          /\ pc' \notin SqlSteps
        BY DEF LocalInv, DropSteps, SqlSteps
    <1>3. PassOK'
        BY <1>1, <1>2 DEF PassOK, InPlugin
    <1>4. VersionOK'
        BY <1>2 DEF VersionOK, SqlSteps
    <1>5. \A q \in DOMAIN tier.plugins : Ready(Id(tier.plugins[q]), tier.name)'
        BY <1>1, <1>2, TierFacts DEF LocalInv, DoneOK, Ready
    <1>6. DoneOK'
        BY <1>1, <1>2, <1>5 DEF DoneOK, InPlugin
    <1> QED BY <1>1, <1>3, <1>4, <1>6

(* ListInstalled: the rows are as they are in the tables. *)
LEMMA ListInstalledStep ==
    ASSUME PluginInv, ListInstalled
    PROVE  DbInv' /\ LocalInv'
    <1>1. /\ pc = "list" /\ pc' = "drop" /\ db' = db /\ want' = want /\ ti' = ti
          /\ obsolete' = { [id |-> i, enabled |-> db[i].enabled]
                              : i \in { i \in Ids : db[i].exists /\ IsObsolete(i) } }
          /\ LocalInv /\ DbInv /\ DbInv'
        BY SameDb DEF ListInstalled, Query, passVars, PluginInv
    <1>2. PassOK' /\ VersionOK' /\ DoneOK' /\ tier' = tier
        BY <1>1, SameTier DEF DropSteps
    <1>3. ASSUME NEW r \in obsolete'
          PROVE  /\ r \in [id : Ids, enabled : BOOLEAN]
                 /\ r.id \notin IdsOf(tier)
                 /\ db[r.id].exists
                 /\ db[r.id].enabled = r.enabled
        <2>1. PICK i \in Ids : /\ r = [id |-> i, enabled |-> db[i].enabled]
                               /\ db[i].exists /\ IsObsolete(i)
            BY <1>1
        <2>2. db[i].enabled \in BOOLEAN
            BY <1>1 DEF DbInv, TablesOK, Entries
        <2>3. i \notin IdsOf(tier)
            BY <2>1 DEF IsObsolete, IdsOf
        <2> QED BY <2>1, <2>2, <2>3
    <1>4. \A r, q \in obsolete' : r.id = q.id => r = q
        BY <1>1
    <1>5. DropOK'
        BY <1>1, <1>2, <1>3, <1>4 DEF DropOK
    <1> QED BY <1>1, <1>2, <1>5 DEF LocalInv

(* DisableObsolete: a row listed as enabled, not one of the tier. *)
LEMMA DisableObsoleteStep ==
    ASSUME PluginInv, DisableObsolete
    PROVE  DbInv' /\ LocalInv'
    <1>1. pc = "drop" /\ LocalInv /\ DbInv /\ PassOK /\ pc # "idle"
        BY DEF DisableObsolete, PluginInv, LocalInv
    <1>2. PICK r \in obsolete :
              /\ r.enabled
              /\ DropStatement(Disable(r.id),
                               /\ pc' = "dropdisabled" /\ row' = r
                               /\ UNCHANGED <<passVars, pluginVars, obsolete, reportVars>>)
        BY DEF DisableObsolete
    <1>3. /\ obsolete \subseteq [id : Ids, enabled : BOOLEAN]
          /\ r.id \in Ids /\ db[r.id].exists /\ r.id \notin IdsOf(tier)
        BY <1>1 DEF LocalInv, DropOK
    <1>4. /\ DbInv'
          /\ \A j \in Ids \ {r.id} : db'[j] = db[j]
          /\ db'[r.id].exists /\ ~db'[r.id].enabled
          /\ db'[r.id].enabled \in BOOLEAN
        <2>1. /\ DbInv'
              /\ \A j \in Ids \ {r.id} : db'[j] = db[j]
              /\ db'[r.id].exists /\ ~db'[r.id].enabled
            BY <1>1, <1>2, <1>3, DisableEffect DEF DropStatement
        <2> QED BY <1>3, <2>1 DEF DbInv, TablesOK, Entries
    <1>5. CASE PluginsDone
        BY <1>1, <1>4, <1>5, TierDoneStep DEF PluginsDone
    <1>6. CASE /\ pc' = "dropdisabled" /\ row' = r
               /\ UNCHANGED <<passVars, pluginVars, obsolete, reportVars>>
        <2>1. want' = want /\ ti' = ti /\ obsolete' = obsolete
            BY <1>6 DEF passVars
        <2>2. \A j \in IdsOf(tier) : db'[j] = db[j]
            BY <1>1, <1>3, <1>4, TierFacts
        <2>3. PassOK' /\ VersionOK' /\ DoneOK' /\ tier' = tier
            BY <1>1, <1>6, <2>1, <2>2, SameTier DEF DropSteps
        <2>4. ASSUME NEW q \in obsolete
              PROVE  /\ q.id \notin IdsOf(tier)
                     /\ db'[q.id].exists
                     /\ db'[q.id].enabled = (q.enabled /\ ~(q = r))
            <3>1. CASE q = r
                BY <1>3, <1>4, <3>1
            <3>2. CASE q # r
                <4>1. q.id # r.id /\ q.id \in Ids
                    BY <1>1, <1>3, <3>2 DEF LocalInv, DropOK
                <4>2. db'[q.id] = db[q.id]
                    BY <1>4, <4>1
                <4>3. /\ q.id \notin IdsOf(tier) /\ db[q.id].exists
                      /\ db[q.id].enabled = q.enabled
                    BY <1>1, <1>3 DEF LocalInv, DropOK
                <4> QED BY <1>3, <3>2, <4>2, <4>3
            <3> QED BY <3>1, <3>2
        <2>5. DropOK'
            <3>1. \A q, s \in obsolete : q.id = s.id => q = s
                BY <1>1 DEF LocalInv, DropOK
            <3> QED BY <1>2, <1>3, <1>6, <2>1, <2>3, <2>4, <3>1 DEF DropOK
        <2> QED BY <1>4, <2>3, <2>5 DEF LocalInv
    <1> QED BY <1>2, <1>5, <1>6 DEF DropStatement

(* What DropObsolete drops: a row of the list that is not enabled, now. *)
LEMMA DroppedRow ==
    ASSUME DbInv, LocalInv, NEW r \in obsolete,
           \/ pc = "drop" /\ ~r.enabled
           \/ pc = "dropdisabled" /\ r = row
    PROVE  /\ r.id \in Ids /\ r.id \notin IdsOf(tier)
           /\ db[r.id].exists /\ ~db[r.id].enabled
    <1>1. obsolete \subseteq [id : Ids, enabled : BOOLEAN]
        BY DEF LocalInv, DropOK
    <1> QED BY <1>1 DEF LocalInv, DropOK

(* DropObsolete: the other rows of the list are not concerned. *)
LEMMA DropObsoleteStep ==
    ASSUME PluginInv, DropObsolete
    PROVE  DbInv' /\ LocalInv'
    <1>1. /\ pc \in {"drop", "dropdisabled"} /\ pc \in DropSteps /\ pc # "idle"
          /\ LocalInv /\ DbInv /\ PassOK
        BY DEF DropObsolete, DropSteps, PluginInv, LocalInv
    <1>2. PICK r \in obsolete :
              /\ \/ pc = "drop" /\ ~r.enabled
                 \/ pc = "dropdisabled" /\ r = row
              /\ DropStatement(db' = [db EXCEPT ![r.id] = NotInstalled],
                               /\ pc' = "drop" /\ row' = NoRow /\ obsolete' = obsolete \ {r}
                               /\ UNCHANGED <<passVars, pluginVars, reportVars>>)
        BY DEF DropObsolete
    <1>3. r.id \in Ids /\ r.id \notin IdsOf(tier)
        BY <1>1, <1>2, DroppedRow
    <1>4. /\ DbInv'
          /\ \A j \in Ids \ {r.id} : db'[j] = db[j]
        BY <1>1, <1>2, <1>3, DropEffect DEF DropStatement
    <1>5. CASE PluginsDone
        BY <1>1, <1>4, <1>5, TierDoneStep DEF PluginsDone
    <1>6. CASE /\ pc' = "drop" /\ row' = NoRow /\ obsolete' = obsolete \ {r}
               /\ UNCHANGED <<passVars, pluginVars, reportVars>>
        <2>1. want' = want /\ ti' = ti /\ pc' \in DropSteps
            BY <1>6 DEF passVars, DropSteps
        <2>2. \A j \in IdsOf(tier) : db'[j] = db[j]
            BY <1>1, <1>3, <1>4, TierFacts
        <2>3. PassOK' /\ VersionOK' /\ DoneOK' /\ tier' = tier
            BY <1>1, <2>1, <2>2, SameTier
        <2>4. ASSUME NEW q \in obsolete \ {r}
              PROVE  /\ q.id \in Ids /\ q.id \notin IdsOf(tier)
                     /\ db'[q.id].exists
                     /\ db'[q.id].enabled = q.enabled
            <3>1. q.id # r.id /\ q.id \in Ids /\ q.enabled \in BOOLEAN
                BY <1>1 DEF LocalInv, DropOK
            <3>2. db'[q.id] = db[q.id]
                BY <1>4, <3>1
            <3>3. ~(pc = "dropdisabled" /\ q = row)
                BY <1>2
            <3>4. db[q.id].enabled = q.enabled
                BY <1>1, <3>1, <3>3 DEF LocalInv, DropOK
            <3> QED BY <1>1, <3>1, <3>2, <3>4 DEF LocalInv, DropOK
        <2>5. DropOK'
            <3>1. /\ \A q, s \in obsolete : q.id = s.id => q = s
                  /\ obsolete \subseteq [id : Ids, enabled : BOOLEAN]
                BY <1>1 DEF LocalInv, DropOK
            <3> QED BY <1>6, <2>3, <2>4, <3>1 DEF DropOK
        <2> QED BY <1>4, <2>3, <2>5 DEF LocalInv
    <1> QED BY <1>2, <1>5, <1>6 DEF DropStatement

(* StatementFails: the pass ends, or goes on with the next tier. *)
LEMMA StatementFailsStep ==
    ASSUME PluginInv, StatementFails
    PROVE  DbInv' /\ LocalInv'
    <1>1. DbInv' /\ PassOK
        BY SameDb DEF StatementFails, PluginInv, LocalInv
    <1>2. CASE pc \in SqlSteps /\ PluginsFailed
        BY <1>1, <1>2, Cleared DEF PluginsFailed
    <1>3. CASE pc \in DropSteps /\ PluginsDone
        BY <1>1, <1>3, TierDoneStep DEF PluginsDone, DropSteps
    <1> QED BY <1>2, <1>3 DEF StatementFails

(* Steps that do not touch the tables and end the pass, leave it alone or  *)
(* go on with the next tier.                                               *)
LEMMA OtherSteps ==
    ASSUME PluginInv,
           AllDropped \/ Report \/ Restart
             \/ RequeueAfterElapses \/ Resync \/ EditSpec \/ UNCHANGED vars
    PROVE  DbInv' /\ LocalInv'
    <1>1. db' = db /\ DbInv' /\ LocalInv
        BY SameDb
           DEF PluginInv, AllDropped, Query, Report, Restart, RequeueAfterElapses, Resync,
               EditSpec, vars
    <1>2. CASE AllDropped
        BY <1>1, <1>2, TierDoneStep DEF AllDropped, Query, PluginsDone, LocalInv
    <1>3. CASE Report \/ Restart
        BY <1>1, <1>3, Cleared DEF Report, Restart
    <1>4. CASE UNCHANGED localVars
        <2>1. UNCHANGED <<pc, want, ti, pi, enabled, services, context, obsolete, row>>
            BY <1>4 DEF localVars, passVars, pluginVars, dropVars
        <2>2. UNCHANGED <<tier, plugin, id>>
            BY <2>1 DEF tier, plugin, id
        <2>3. PassOK'
            BY <1>1, <2>1, <2>2 DEF LocalInv, PassOK, InPlugin
        <2>4. VersionOK'
            BY <1>1, <2>1, <2>2 DEF LocalInv, VersionOK
        <2>5. DoneOK'
            BY <1>1, <2>1, <2>2 DEF LocalInv, DoneOK, InPlugin, Ready
        <2>6. DropOK'
            BY <1>1, <2>1, <2>2 DEF LocalInv, DropOK
        <2> QED BY <1>1, <2>3, <2>4, <2>5, <2>6 DEF LocalInv
    <1> QED BY <1>2, <1>3, <1>4 DEF RequeueAfterElapses, Resync, EditSpec, vars

-----------------------------------------------------------------------------
(* The budgets are counted up within their bounds. *)
LEMMA SpendType ==
    ASSUME spent \in [Budgets -> Nat], NEW b \in Budgets, Spend(b)
    PROVE  spent' \in [Budgets -> Nat]
  BY DEF Spend

(* A failed pass leaves flags that are Booleans. *)
LEMMA FailedScalars ==
    ASSUME ScalarsOK, PluginsFailed
    PROVE  /\ queued' \in BOOLEAN /\ timer' \in BOOLEAN
           /\ enabled' \in BOOLEAN /\ allReady' \in BOOLEAN
           /\ pc' = "idle"
  BY DEF ScalarsOK, PluginsFailed, PatchStatus, ClearLocals

(* So does a tier that is done. *)
LEMMA TierDoneScalars ==
    ASSUME ScalarsOK, NEW a, NEW b \in BOOLEAN, TierDone(a, b)
    PROVE  /\ enabled' \in BOOLEAN /\ allReady' \in BOOLEAN
           /\ pc' \in {"tier", "report"}
  BY DEF ScalarsOK, TierDone

(* Every step keeps the flags, the budgets and the place of the pass well  *)
(* formed.                                                                 *)
LEMMA ScalarsStep ==
    ASSUME PluginInv, Next
    PROVE  ScalarsOK'
    <1>0. ScalarsOK /\ {"edits", "faults", "crashes", "unready"} = Budgets
        BY DEF PluginInv, Budgets
    <1> DEFINE Rest == UNCHANGED <<spec, queued, timer, spent>>
               Failed == /\ Spend("faults") /\ PluginsFailed /\ spec' = spec
    <1>1. ASSUME Rest, enabled' \in BOOLEAN, allReady' \in BOOLEAN,
                 pc' \in {"idle", "tier", "report"} \cup SqlSteps \cup DropSteps
          PROVE  ScalarsOK'
        BY <1>0, <1>1 DEF ScalarsOK
    <1>2. ASSUME Failed
          PROVE  ScalarsOK'
        BY <1>0, <1>2, FailedScalars, SpendType DEF ScalarsOK
    <1>3. ASSUME Refused
          PROVE  ScalarsOK'
        BY <1>0, <1>3, FailedScalars DEF ScalarsOK, Refused, userVars
    <1>4. CASE BeginPass
        BY <1>0, <1>4 DEF BeginPass, ScalarsOK, userVars, pluginVars, reportVars
    <1>5. CASE EnterTier
        <2>1. CASE pc' = "connect" /\ UNCHANGED <<passVars, pluginVars, dropVars, reportVars, queued, spent>>
            BY <1>0, <1>5, <2>1 DEF EnterTier, ScalarsOK, userVars, pluginVars, reportVars, SqlSteps
        <2>2. CASE TierDone(<<>>, TRUE) /\ UNCHANGED <<queued, spent>>
            BY <1>0, <1>5, <2>2, TierDoneScalars DEF EnterTier, ScalarsOK, userVars
        <2>3. CASE Spend("unready") /\ TierDone(<<>>, FALSE) /\ queued' = TRUE
            BY <1>0, <1>5, <2>3, TierDoneScalars, SpendType DEF EnterTier, ScalarsOK, userVars
        <2> QED BY <1>5, <2>1, <2>2, <2>3 DEF EnterTier
    <1>6. CASE Connect
        BY <1>0, <1>1, <1>6
           DEF Connect, Query, ScalarsOK, userVars, queueVars, reportVars, SqlSteps
    <1>7. CASE queryPluginState
        <2>1. Rest /\ allReady' = allReady /\ pc' \in SqlSteps /\ enabled' = db[id].enabled
            BY <1>7 DEF queryPluginState, Query, Prepare, userVars, queueVars, reportVars, SqlSteps
        <2>2. InPlugin /\ PassOK
            BY <1>7 DEF queryPluginState, InPlugin, SqlSteps, PluginInv, LocalInv
        <2>3. db[id].enabled \in BOOLEAN
            BY <2>2, PluginFacts DEF PluginInv, DbInv, TablesOK, Entries
        <2> QED BY <1>0, <1>1, <2>1, <2>3 DEF ScalarsOK
    <1>8. CASE CreatePlugin
        <2>1. CASE Prepare /\ UNCHANGED enabled /\ Rest
            BY <1>0, <1>1, <2>1 DEF Prepare, ScalarsOK, reportVars, SqlSteps
        <2> QED BY <1>2, <1>3, <1>8, <2>1 DEF CreatePlugin, Statement, userVars, queueVars
    <1>9. CASE AddService \/ BindService
        <2>1. CASE UNCHANGED <<pc, enabled, reportVars>> /\ Rest
            BY <1>0, <2>1 DEF ScalarsOK, reportVars
        <2> QED BY <1>2, <1>9, <2>1 DEF AddService, BindService, Statement, userVars, queueVars
    <1>10. CASE SetMigrationContext
        <2>1. CASE UNCHANGED <<pc, enabled, reportVars>> /\ Rest
            BY <1>0, <2>1 DEF ScalarsOK, reportVars
        <2> QED BY <1>2, <1>10, <2>1 DEF SetMigrationContext, Statement, userVars, queueVars
    <1>11. CASE MigrateTo
        <2>1. CASE pc' = "services" /\ UNCHANGED <<pluginVars, reportVars>> /\ Rest
            BY <1>0, <1>1, <2>1 DEF ScalarsOK, pluginVars, reportVars, SqlSteps
        <2> QED BY <1>2, <1>11, <2>1 DEF MigrateTo, Statement, userVars, queueVars
    <1>12. CASE queryPluginServices
        BY <1>0, <1>1, <1>12
           DEF queryPluginServices, Query, ScalarsOK, userVars, queueVars, reportVars, SqlSteps
    <1>13. ASSUME NextPlugin, Rest
           PROVE  ScalarsOK'
        <2>1. pc' \in {"query", "list"} /\ enabled' = FALSE /\ allReady' = allReady
            BY <1>13 DEF NextPlugin, reportVars
        <2> QED BY <1>0, <1>1, <1>13, <2>1 DEF ScalarsOK, SqlSteps, DropSteps
    <1>14. CASE AlreadyEnabled
        BY <1>13, <1>14 DEF AlreadyEnabled, Query, userVars, queueVars
    <1>15. CASE EnablePlugin
        BY <1>2, <1>3, <1>13, <1>15 DEF EnablePlugin, Statement, userVars, queueVars
    <1>16. CASE ListInstalled
        BY <1>0, <1>1, <1>16
           DEF ListInstalled, Query, ScalarsOK, userVars, queueVars, pluginVars, reportVars, DropSteps
    <1>17. ASSUME PluginsDone, UNCHANGED <<spec, queued, timer>>, Spend("faults") \/ spent' = spent
           PROVE  ScalarsOK'
        BY <1>0, <1>17, TierDoneScalars, SpendType DEF PluginsDone, ScalarsOK
    <1>18. CASE DisableObsolete
        <2>1. CASE pc' = "dropdisabled" /\ UNCHANGED <<pluginVars, reportVars>> /\ Rest
            BY <1>0, <1>1, <2>1 DEF ScalarsOK, pluginVars, reportVars, DropSteps
        <2> QED BY <1>17, <1>18, <2>1 DEF DisableObsolete, DropStatement, userVars, queueVars
    <1>19. CASE DropObsolete
        <2>1. CASE pc' = "drop" /\ UNCHANGED <<pluginVars, reportVars>> /\ Rest
            BY <1>0, <1>1, <2>1 DEF ScalarsOK, pluginVars, reportVars, DropSteps
        <2> QED BY <1>17, <1>19, <2>1 DEF DropObsolete, DropStatement, userVars, queueVars
    <1>20. CASE AllDropped
        BY <1>17, <1>20 DEF AllDropped, Query, userVars, queueVars
    <1>21. CASE StatementFails
        BY <1>2, <1>17, <1>21 DEF StatementFails, userVars, queueVars
    <1>22. CASE Report
        <2>1. spent' \in [Budgets -> Nat]
            BY <1>0, <1>22, SpendType DEF Report, ScalarsOK
        <2>2. queued' \in BOOLEAN
            BY <1>0, <1>22 DEF Report, PatchStatus, ScalarsOK
        <2> QED BY <1>0, <1>22, <2>1, <2>2 DEF Report, ClearLocals, ScalarsOK, userVars
    <1>23. CASE Restart
        BY <1>0, <1>23, SpendType DEF Restart, ClearLocals, ScalarsOK, userVars
    <1>24. CASE RequeueAfterElapses \/ Resync
        BY <1>0, <1>24
           DEF RequeueAfterElapses, Resync, ScalarsOK, userVars, localVars, pluginVars, reportVars
    <1>25. CASE EditSpec
        BY <1>0, <1>25, SpendType
           DEF EditSpec, ScalarsOK, localVars, pluginVars, reportVars
    <1> QED BY <1>4, <1>5, <1>6, <1>7, <1>8, <1>9, <1>10, <1>11, <1>12, <1>14, <1>15, <1>16,
               <1>18, <1>19, <1>20, <1>21, <1>22, <1>23, <1>24, <1>25
            DEF Next, Worker, reconcilePlugin, dropObsoletePlugins

-----------------------------------------------------------------------------
(* The inductive invariant holds before the first pass: nothing is         *)
(* installed.                                                              *)
LEMMA PluginInit == Init => PluginInv
    <1> SUFFICES ASSUME Init PROVE PluginInv
        OBVIOUS
    <1>1. ScalarsOK
        BY DEF Init, ScalarsOK
    <1>2. NotInstalled \in Entries /\ ~NotInstalled.enabled /\ NotInstalled.bound = {}
        <2>1. {} \in SUBSET ContextKeys /\ {} \in SUBSET (AllServices \X TierNames)
            OBVIOUS
        <2>2. NotInstalled \in Entries
            BY <2>1 DEF Entries, NotInstalled
        <2> QED BY <2>2 DEF NotInstalled
    <1>3. DbInv
        BY <1>2 DEF Init, DbInv, TablesOK, EnabledComplete
    <1>4. LocalInv
        BY DEF Init, LocalInv, PassOK, VersionOK, DoneOK, DropOK, InPlugin, SqlSteps, DropSteps
    <1> QED BY <1>1, <1>3, <1>4 DEF PluginInv

(* Every step preserves it. *)
LEMMA PluginStep == PluginInv /\ [Next]_vars => PluginInv'
    <1> SUFFICES ASSUME PluginInv, [Next]_vars PROVE PluginInv'
        OBVIOUS
    <1>1. DbInv' /\ LocalInv'
        BY BeginPassStep, EnterTierStep, ConnectStep, QueryStateStep, CreatePluginStep,
           AddServiceStep, SetContextStep, MigrateToStep, QueryServicesStep, BindServiceStep,
           AlreadyEnabledStep, EnablePluginStep, ListInstalledStep, DisableObsoleteStep,
           DropObsoleteStep, StatementFailsStep, OtherSteps
        DEF Next, Worker, reconcilePlugin, dropObsoletePlugins
    <1>2. ScalarsOK'
        <2>1. CASE Next
            BY <2>1, ScalarsStep
        <2>2. CASE UNCHANGED vars
            BY <2>2
               DEF PluginInv, ScalarsOK, vars, userVars, queueVars, localVars, pluginVars, reportVars
        <2> QED BY <2>1, <2>2
    <1> QED BY <1>1, <1>2 DEF PluginInv

(* The inductive invariant holds throughout. *)
LEMMA PluginInvariant == Spec => []PluginInv
    BY PluginInit, PluginStep, PTL DEF Spec

(* For any specs: the tables, the loop variables of reconcileTierPlugins   *)
(* and dropObsoletePlugins, and what is about to be dropped are well       *)
(* formed.                                                                 *)
THEOREM PluginTypeCorrect == Spec => []PluginTypeOK
    <1>1. PluginInv => PluginTypeOK
        <2> SUFFICES ASSUME PluginInv PROVE PluginTypeOK
            OBVIOUS
        <2>1. \A i \in Ids : DOMAIN db[i] = DOMAIN NotInstalled
            BY DEF PluginInv, DbInv, TablesOK, Entries, NotInstalled
        <2>2. \A i \in Ids : /\ db[i].exists \in BOOLEAN /\ db[i].enabled \in BOOLEAN
                             /\ db[i].migrated \in BOOLEAN
            BY DEF PluginInv, DbInv, TablesOK, Entries
        <2>3. DOMAIN db = Ids
            BY DEF PluginInv, DbInv, TablesOK
        <2> QED BY <2>1, <2>2, <2>3
                DEF PluginInv, ScalarsOK, DbInv, TablesOK, LocalInv, PassOK, DropOK, InPlugin,
                    PluginTypeOK
    <1> QED BY <1>1, PluginInvariant, PTL

(* For any specs and any interruptions of reconcilePlugin: a version is    *)
(* enabled only when it is migrated, its context set and all its services  *)
(* bound.                                                                  *)
THEOREM EnabledVersionsComplete == Spec => []EnabledComplete
    <1>1. PluginInv => EnabledComplete
        BY DEF PluginInv, DbInv
    <1> QED BY <1>1, PluginInvariant, PTL
=============================================================================
