------------------------- MODULE PluginSafetyProofs -------------------------
(***************************************************************************)
(* What PluginReconciler does to the versions of plugins over time, from   *)
(* the inductive invariant of PluginProofs: every change of the tables is  *)
(* one of six kinds (TablesStep).  From that follow that it implements     *)
(* PluginLifecycle, that an upgrade keeps a plugin running, and that the   *)
(* status tells the truth.                                                 *)
(*                                                                         *)
(* The last two need that the tiers do not drop each other's plugins,      *)
(* which dropObsoletePlugins does to tiers with different plugins (run     *)
(* PluginDistinct): SharedPlugins and SameVersions say of the specs that   *)
(* this cannot happen.  Tiers without plugins are never concerned.         *)
(***************************************************************************)
EXTENDS PluginProofs

(* Each tier that has plugins lists every plugin of the cluster. *)
SharedPlugins ==
    \A s \in Specs : \A t, u \in TiersOf(s) :
        t.plugins # <<>> => \A p \in PluginsOf(u) : \E q \in PluginsOf(t) : q.name = p.name

(* Each tier that has plugins lists the same versions. *)
SameVersions ==
    \A s \in Specs : \A t, u \in TiersOf(s) :
        t.plugins # <<>> => IdsOf(u) \subseteq IdsOf(t)

-----------------------------------------------------------------------------
(* The kinds of changes to the tables, each to one row.                    *)

OnlyRow(i) == \A j \in Ids \ {i} : db'[j] = db[j]

Created(i) ==
    /\ ~db[i].exists /\ db'[i].exists
    /\ db'[i].enabled = db[i].enabled /\ db'[i].migrated = db[i].migrated
    /\ Cardinality(Versions(i[1])) < MaxVersions

Configured(i) ==
    /\ db'[i].exists = db[i].exists
    /\ db'[i].enabled = db[i].enabled /\ db'[i].migrated = db[i].migrated
    /\ db[i].bound \subseteq db'[i].bound

Migrated(i) ==
    /\ db[i].exists /\ db'[i].exists /\ ~db[i].enabled /\ ~db'[i].enabled
    /\ db'[i].migrated

Enabled(i) ==
    /\ db[i].exists /\ db'[i].exists /\ db[i].migrated /\ db'[i].migrated
    /\ ~db[i].enabled /\ db'[i].enabled

(* The pass drops: the row is none of the tier's. *)
Dropping(i) == pc \in DropSteps /\ i \notin IdsOf(tier)

Disabled(i) ==
    /\ Dropping(i)
    /\ db[i].exists /\ db'[i].exists
    /\ db[i].enabled /\ ~db'[i].enabled /\ db'[i].migrated = db[i].migrated

Dropped(i) ==
    /\ Dropping(i)
    /\ db[i].exists /\ ~db[i].enabled /\ db'[i] = NotInstalled

TablesChange(i) ==
    /\ OnlyRow(i)
    /\ Created(i) \/ Configured(i) \/ Migrated(i) \/ Enabled(i) \/ Disabled(i) \/ Dropped(i)

(* Every step changes the tables in one of these ways, or not at all: no   *)
(* version is created twice, migrated or enabled anew, or dropped while it *)
(* is enabled, although each decision rests on an earlier query            *)
(* (reconcilePlugin, dropObsoletePlugins).                                 *)
LEMMA TablesStep ==
    ASSUME PluginInv, [Next]_vars
    PROVE  db' = db \/ \E i \in Ids : TablesChange(i)
    <1>0. DbInv /\ LocalInv /\ PassOK
        BY DEF PluginInv, LocalInv
    <1>1. CASE CreatePlugin
        <2>1. InPlugin /\ ~db[id].exists /\ ~db[id].exists
            BY <1>0, <1>1 DEF CreatePlugin, InPlugin, SqlSteps, LocalInv, VersionOK
        <2>2. id \in Ids /\ id[1] = plugin.name
            BY <1>0, <2>1, PluginFacts
        <2>3. CASE Refused
            BY <2>3 DEF Refused
        <2>4. CASE Set(id, "exists", TRUE) /\ Cardinality(Versions(plugin.name)) < MaxVersions
            <3>1. OnlyRow(id) /\ Created(id)
                BY <1>0, <2>1, <2>2, <2>4, CreateEffect DEF OnlyRow, Created
            <3> QED BY <2>2, <3>1 DEF TablesChange
        <2> QED BY <1>1, <2>3, <2>4 DEF CreatePlugin, Statement
    <1>2. CASE AddService \/ BindService
        <2>1. InPlugin /\ db[id].exists /\ services \subseteq Manifest[plugin.name] /\ pc # "idle"
            BY <1>0, <1>2 DEF AddService, BindService, InPlugin, SqlSteps, LocalInv, VersionOK
        <2>2. id \in Ids /\ id[1] = plugin.name /\ tier.name \in TierNames
            BY <1>0, <2>1, PluginFacts, TierFacts
        <2>3. PICK svc \in services : Set(id, "bound", db[id].bound \cup {<<svc, tier.name>>})
            BY <1>2 DEF AddService, BindService, Statement, Bind
        <2>4. svc \in Manifest[id[1]]
            BY <2>1, <2>2, <2>3
        <2>5. OnlyRow(id) /\ Configured(id)
            BY <1>0, <2>1, <2>2, <2>3, <2>4, BindEffect DEF OnlyRow, Configured
        <2> QED BY <2>2, <2>5 DEF TablesChange
    <1>3. CASE SetMigrationContext
        <2>1. InPlugin /\ db[id].exists /\ context \subseteq plugin.context
            BY <1>0, <1>3 DEF SetMigrationContext, InPlugin, SqlSteps, LocalInv, VersionOK
        <2>2. id \in Ids /\ context \subseteq ContextKeys
            BY <1>0, <2>1, PluginFacts
        <2>3. PICK k \in context : Set(id, "context", db[id].context \cup {k})
            BY <1>3 DEF SetMigrationContext, Statement
        <2>4. OnlyRow(id) /\ Configured(id)
            BY <1>0, <2>1, <2>2, <2>3, ContextEffect DEF OnlyRow, Configured
        <2> QED BY <2>2, <2>4 DEF TablesChange
    <1>4. CASE MigrateTo
        <2>1. /\ InPlugin /\ db[id].exists /\ ~db[id].enabled
              /\ Set(id, "migrated", TRUE)
            BY <1>0, <1>4 DEF MigrateTo, Statement, InPlugin, SqlSteps, LocalInv, VersionOK
        <2>2. id \in Ids
            BY <1>0, <2>1, PluginFacts
        <2>3. OnlyRow(id) /\ Migrated(id)
            BY <1>0, <2>1, <2>2, MigrateEffect DEF OnlyRow, Migrated
        <2> QED BY <2>2, <2>3 DEF TablesChange
    <1>5. CASE EnablePlugin
        <2>1. /\ InPlugin /\ pc = "bind" /\ services = {} /\ ~enabled /\ pc # "idle"
            BY <1>5 DEF EnablePlugin, InPlugin, SqlSteps
        <2>2. /\ id \in Ids /\ id[1] = plugin.name /\ tier.name \in TierNames
              /\ want \in Specs /\ tier \in TiersOf(want) /\ plugin \in PluginsOf(tier)
              /\ Id(plugin) = id
            BY <1>0, <2>1, PluginFacts, TierFacts DEF id
        <2>3. /\ db[id].exists /\ db[id].migrated /\ plugin.context \subseteq db[id].context
              /\ \A svc \in Manifest[id[1]] : <<svc, tier.name>> \in db[id].bound
              /\ ~db[id].enabled
            BY <1>0, <2>1, <2>2 DEF LocalInv, VersionOK
        <2>4. CASE Refused
            BY <2>4 DEF Refused
        <2>5. CASE Set(id, "enabled", TRUE)
            <3>1. Complete(id)
                BY <2>2, <2>3 DEF Complete
            <3>2. OnlyRow(id) /\ Enabled(id)
                BY <1>0, <2>2, <2>3, <2>5, <3>1, EnableEffect DEF OnlyRow, Enabled
            <3> QED BY <2>2, <3>2 DEF TablesChange
        <2> QED BY <1>5, <2>4, <2>5 DEF EnablePlugin, Statement
    <1>6. CASE DisableObsolete
        <2>1. pc = "drop" /\ pc \in DropSteps
            BY <1>6 DEF DisableObsolete, DropSteps
        <2>2. PICK r \in obsolete : r.enabled /\ Disable(r.id)
            BY <1>6 DEF DisableObsolete, DropStatement
        <2>3. /\ r.id \in Ids /\ db[r.id].exists /\ r.id \notin IdsOf(tier)
              /\ db[r.id].enabled
            BY <1>0, <2>1, <2>2 DEF LocalInv, DropOK
        <2>4. OnlyRow(r.id) /\ Disabled(r.id)
            BY <1>0, <2>1, <2>2, <2>3, DisableEffect DEF OnlyRow, Disabled, Dropping
        <2> QED BY <2>3, <2>4 DEF TablesChange
    <1>7. CASE DropObsolete
        <2>1. pc \in DropSteps
            BY <1>7 DEF DropObsolete, DropSteps
        <2>2. PICK r \in obsolete :
                  /\ \/ pc = "drop" /\ ~r.enabled
                     \/ pc = "dropdisabled" /\ r = row
                  /\ db' = [db EXCEPT ![r.id] = NotInstalled]
            BY <1>7 DEF DropObsolete, DropStatement
        <2>3. /\ r.id \in Ids /\ r.id \notin IdsOf(tier)
              /\ db[r.id].exists /\ ~db[r.id].enabled
            BY <1>0, <2>2, DroppedRow
        <2>4. OnlyRow(r.id) /\ Dropped(r.id)
            BY <1>0, <2>1, <2>2, <2>3, DropEffect DEF OnlyRow, Dropped, Dropping
        <2> QED BY <2>3, <2>4 DEF TablesChange
    <1>8. CASE db' = db
        BY <1>8
    <1> QED BY <1>1, <1>2, <1>3, <1>4, <1>5, <1>6, <1>7, <1>8
            DEF Next, Worker, reconcilePlugin, dropObsoletePlugins, BeginPass, EnterTier, Connect,
                queryPluginState, queryPluginServices, AlreadyEnabled, ListInstalled, AllDropped,
                Query, StatementFails, Report, RequeueAfterElapses, Resync, Restart, EditSpec, vars

-----------------------------------------------------------------------------
(* The life of a version.                                                  *)

(* The stages in terms of the tables. *)
LEMMA StageValue ==
    ASSUME DbInv, NEW i \in Ids
    PROVE  /\ db[i].enabled => Stage[i] = "enabled"
           /\ ~db[i].enabled /\ db[i].migrated => Stage[i] = "migrated"
           /\ db[i].exists /\ ~db[i].enabled /\ ~db[i].migrated => Stage[i] = "created"
           /\ ~db[i].exists => Stage[i] = "absent" /\ ~db[i].enabled /\ ~db[i].migrated
           /\ Stage[i] = "absent" <=> ~db[i].exists
    <1>1. /\ db[i].exists \in BOOLEAN /\ db[i].enabled \in BOOLEAN /\ db[i].migrated \in BOOLEAN
          /\ ~db[i].exists => ~db[i].enabled /\ ~db[i].migrated
        BY DEF DbInv, TablesOK, Entries, NotInstalled
    <1> QED BY <1>1 DEF Stage

(* For any specs and any interruptions: every version goes through the     *)
(* stages of PluginLifecycle and skips none, one version at a time and no  *)
(* more than Picodata holds (reconcilePlugin, dropObsoletePlugins).        *)
THEOREM PluginsFollowLifecycle == Spec => ImplementsPluginLifecycle
    <1>1. Init => Lifecycle!Init
        <2> SUFFICES ASSUME Init PROVE Lifecycle!Init
            OBVIOUS
        <2>1. DbInv
            BY PluginInit DEF PluginInv
        <2>2. \A i \in Ids : Stage[i] = "absent"
            BY <2>1, StageValue DEF Init, NotInstalled
        <2> QED BY <2>2 DEF Lifecycle!Init, Stage
    <1>2. PluginInv /\ PluginInv' /\ [Next]_vars => [Lifecycle!Next]_Stage
        <2> SUFFICES ASSUME PluginInv, PluginInv', [Next]_vars PROVE [Lifecycle!Next]_Stage
            OBVIOUS
        <2>0. DbInv /\ DbInv'
            BY DEF PluginInv
        <2>1. CASE db' = db
            BY <2>1 DEF Stage
        <2>2. CASE \E i \in Ids : TablesChange(i)
            <3>1. PICK i \in Ids : TablesChange(i)
                BY <2>2
            <3>2. /\ db'[i].enabled => Stage'[i] = "enabled"
                  /\ ~db'[i].enabled /\ db'[i].migrated => Stage'[i] = "migrated"
                  /\ db'[i].exists /\ ~db'[i].enabled /\ ~db'[i].migrated => Stage'[i] = "created"
                  /\ ~db'[i].exists => Stage'[i] = "absent"
                <4>1. /\ db'[i].exists \in BOOLEAN /\ db'[i].enabled \in BOOLEAN
                      /\ db'[i].migrated \in BOOLEAN
                      /\ ~db'[i].exists => ~db'[i].enabled /\ ~db'[i].migrated
                    BY <2>0 DEF DbInv, TablesOK, Entries, NotInstalled
                <4> QED BY <4>1 DEF Stage
            <3>3. \A j \in Ids \ {i} : Stage'[j] = Stage[j]
                BY <3>1 DEF TablesChange, OnlyRow, Stage
            <3>4. DOMAIN Stage = Ids /\ DOMAIN Stage' = Ids
                BY DEF Stage
            <3>5. Stage' = [Stage EXCEPT ![i] = Stage'[i]]
                <4>1. Stage' = [j \in Ids |-> Stage'[j]] /\ Stage = [j \in Ids |-> Stage[j]]
                    BY DEF Stage
                <4> HIDE DEF Stage
                <4> QED BY <3>3, <3>4, <4>1
            <3>6. /\ db[i].exists \in BOOLEAN /\ db[i].enabled \in BOOLEAN
                  /\ db[i].migrated \in BOOLEAN
                BY <2>0 DEF DbInv, TablesOK, Entries
            <3>7. CASE Created(i)
                <4>1. Stage[i] = "absent" /\ Stage'[i] = "created"
                    BY <2>0, <3>2, <3>7, StageValue DEF Created
                <4>2. Lifecycle!Installed(i[1]) = Versions(i[1])
                    BY <2>0, StageValue DEF Lifecycle!Installed, Versions
                <4>3. Lifecycle!Cardinality(Versions(i[1])) = Cardinality(Versions(i[1]))
                    BY Zenon DEF Lifecycle!Cardinality, Cardinality
                <4>4. Lifecycle!Create(i)
                    BY <3>5, <3>7, <4>1, <4>2, <4>3 DEF Lifecycle!Create, Lifecycle!Move, Created
                <4> QED BY <4>4 DEF Lifecycle!Next
            <3>8. CASE Configured(i)
                <4>1. Stage'[i] = Stage[i]
                    BY <2>0, <3>2, <3>6, <3>8, StageValue DEF Configured
                <4>2. Stage' = Stage
                    <5>1. Stage' = [j \in Ids |-> Stage'[j]] /\ Stage = [j \in Ids |-> Stage[j]]
                        BY DEF Stage
                    <5> HIDE DEF Stage
                    <5> QED BY <3>3, <4>1, <5>1
                <4> QED BY <4>2
            <3>9. CASE Migrated(i)
                <4>1. Stage'[i] = "migrated" /\ Stage[i] \in {"created", "migrated"}
                    BY <2>0, <3>2, <3>6, <3>9, StageValue DEF Migrated
                <4>2. CASE Stage[i] = "created"
                    BY <3>5, <4>1, <4>2 DEF Lifecycle!Next, Lifecycle!Migrate, Lifecycle!Move
                <4>3. CASE Stage[i] = "migrated"
                    <5>1. Stage' = [j \in Ids |-> Stage'[j]] /\ Stage = [j \in Ids |-> Stage[j]]
                        BY DEF Stage
                    <5>2. \A j \in Ids : Stage'[j] = Stage[j]
                        BY <3>3, <4>1, <4>3
                    <5> HIDE DEF Stage
                    <5>3. Stage' = Stage
                        BY <5>1, <5>2
                    <5> QED BY <5>3
                <4> QED BY <4>1, <4>2, <4>3
            <3>10. CASE Enabled(i)
                <4>1. Stage[i] = "migrated" /\ Stage'[i] = "enabled"
                    BY <2>0, <3>2, <3>10, StageValue DEF Enabled
                <4> QED BY <3>5, <4>1 DEF Lifecycle!Next, Lifecycle!Enable, Lifecycle!Move
            <3>11. CASE Disabled(i)
                <4>1. db[i].migrated
                    BY <2>0, <3>11 DEF DbInv, EnabledComplete, Disabled
                <4>2. Stage[i] = "enabled" /\ Stage'[i] = "migrated"
                    BY <2>0, <3>2, <3>11, <4>1, StageValue DEF Disabled
                <4> QED BY <3>5, <4>2 DEF Lifecycle!Next, Lifecycle!Disable, Lifecycle!Move
            <3>12. CASE Dropped(i)
                <4>1. ~db'[i].exists
                    BY <3>12 DEF Dropped, NotInstalled
                <4>2. Stage[i] \in {"created", "migrated"} /\ Stage'[i] = "absent"
                    BY <2>0, <3>2, <3>6, <3>12, <4>1, StageValue DEF Dropped
                <4> QED BY <3>5, <4>2 DEF Lifecycle!Next, Lifecycle!Drop, Lifecycle!Move
            <3> QED BY <3>1, <3>7, <3>8, <3>9, <3>10, <3>11, <3>12 DEF TablesChange
        <2> QED BY <2>1, <2>2, TablesStep
    <1> QED BY <1>1, <1>2, PluginInvariant, PTL
            DEF Spec, ImplementsPluginLifecycle, Lifecycle!Spec

-----------------------------------------------------------------------------
(* Upgrades.                                                               *)

(* When the tiers with plugins share them, an upgrade never stops a plugin *)
(* that the spec at hand lists: the old version is disabled only when the  *)
(* new one runs (reconcileTierPlugins drops after it installs).            *)
THEOREM UpgradesKeepRunning ==
    ASSUME SharedPlugins
    PROVE  Spec => UpgradeKeepsRunning
    <1> DEFINE A == \A i \in UNION { IdsOf(t) : t \in TiersOf(want) } :
                        Running(i[1]) # {} => Running(i[1])' # {}
    <1>1. PluginInv /\ [Next]_vars => [A]_vars
        <2> SUFFICES ASSUME PluginInv, Next,
                            NEW t \in TiersOf(want), NEW i \in IdsOf(t), Running(i[1]) # {}
                     PROVE  Running(i[1])' # {}
            OBVIOUS
        <2>1. CASE db' = db
            BY <2>1 DEF Running
        <2>2. ASSUME NEW k \in Ids, TablesChange(k)
              PROVE  Running(i[1])' # {}
            <3>1. CASE db[k].enabled => db'[k].enabled
                <4>1. PICK j \in Ids : j[1] = i[1] /\ db[j].enabled
                    BY DEF Running
                <4>2. db'[j].enabled
                    BY <2>2, <3>1, <4>1 DEF TablesChange, OnlyRow
                <4> QED BY <4>1, <4>2 DEF Running
            <3>2. CASE db[k].enabled /\ ~db'[k].enabled
                <4>1. Dropping(k)
                    BY <2>2, <3>2 DEF TablesChange, Created, Configured, Migrated, Enabled,
                                      Disabled, Dropped
                <4>2. /\ pc # "idle" /\ PassOK /\ tier.plugins # <<>>
                    BY <4>1 DEF Dropping, DropSteps, PluginInv, LocalInv, PassOK
                <4>3. want \in Specs /\ tier \in TiersOf(want)
                    BY <4>2, TierFacts
                <4>4. PICK p \in PluginsOf(t) : i = Id(p)
                    BY DEF IdsOf
                <4>5. i[1] = p.name
                    BY <4>4 DEF Id
                <4>6. PICK q \in PluginsOf(tier) : q.name = p.name
                    BY <4>2, <4>3 DEF SharedPlugins
                <4>7. PICK n \in DOMAIN tier.plugins : q = tier.plugins[n]
                    BY DEF PluginsOf
                <4>8. Id(q) \in Ids /\ Id(q) \in IdsOf(tier) /\ Id(q)[1] = i[1]
                    BY <4>2, <4>5, <4>6, <4>7, TierFacts DEF Id
                <4>9. db[Id(q)].enabled
                    BY <4>1, <4>7 DEF Dropping, PluginInv, LocalInv, DoneOK, Ready
                <4>10. db'[Id(q)] = db[Id(q)]
                    BY <2>2, <4>1, <4>8 DEF TablesChange, OnlyRow, Dropping
                <4>11. Id(q) \in Running(i[1])'
                    BY <4>8, <4>9, <4>10 DEF Running
                <4> QED BY <4>11
            <3> QED BY <3>1, <3>2
        <2> QED BY <2>1, <2>2, TablesStep
    <1> QED BY <1>1, PluginInvariant, PTL DEF Spec, UpgradeKeepsRunning

-----------------------------------------------------------------------------
(* The status.                                                             *)

AllStatuses ==
    {<<>>} \cup UNION { { Statuses(t) : t \in TiersOf(s) } : s \in Specs }

(* What the report rs for the tiers of s shows is ready, and listed. *)
Reported(s, rs) ==
    \A j \in DOMAIN rs : \A p \in DOMAIN rs[j] :
        Id(rs[j][p]) \in IdsOf(s[j]) /\ Ready(Id(rs[j][p]), s[j].name)

(* The tiers the pass is through with: those before the one at hand. *)
TiersThrough == IF pc = "report" THEN ti ELSE ti - 1

(* A pass reports what it found, for the spec it started from; when a spec *)
(* has come since, the request is queued.                                  *)
ReportInv ==
    /\ pc # "idle" =>
          /\ queued \/ want = spec
          /\ tierStatuses \in Seq(AllStatuses) /\ Len(tierStatuses) = TiersThrough
          /\ Reported(want, tierStatuses)
    /\ pc = "idle" => tierStatuses = <<>>
    /\ AtRest => Reported(spec, status.tiers)

(* What a step can do to the report. *)
Working ==
    /\ pc \notin {"idle", "report"} /\ pc' \notin {"idle", "report"}
    /\ UNCHANGED <<spec, queued, want, ti, tierStatuses>>

Ended == pc' = "idle" /\ (timer' \/ queued') /\ tierStatuses' = <<>>

Finished ==
    /\ pc \notin {"idle", "report"}
    /\ \E b \in BOOLEAN : TierDone(<<>>, b) \/ (pc \in DropSteps /\ TierDone(Statuses(tier), b))
    /\ spec' = spec /\ (queued' = queued \/ queued')

Woken == queued' /\ UNCHANGED <<db, pc, want, ti, tierStatuses>>

(* Ready(i, t) after the step. *)
ReadyNext(i, t) ==
    /\ db'[i].enabled
    /\ \A svc \in Manifest[i[1]] : <<svc, t>> \in db'[i].bound

(* Every step does one of these. *)
LEMMA ReportKinds ==
    ASSUME PluginInv, [Next]_vars, pc = "idle" => tierStatuses = <<>>
    PROVE  Working \/ Ended \/ Report \/ BeginPass \/ Finished \/ Woken \/ UNCHANGED vars
    <1>1. ASSUME PluginsFailed
          PROVE  Ended
        BY <1>1 DEF PluginsFailed, ClearLocals, Ended
    <1>2. ASSUME PluginsDone, pc \in DropSteps, UNCHANGED <<userVars, queueVars>>
          PROVE  Finished
        BY <1>2 DEF PluginsDone, Finished, DropSteps, userVars, queueVars
    <1>3. CASE EnterTier
        <2>1. CASE TierDone(<<>>, TRUE) \/ TierDone(<<>>, FALSE)
            BY <1>3, <2>1 DEF EnterTier, Finished, userVars
        <2>2. CASE pc' = "connect" /\ UNCHANGED <<passVars, pluginVars, dropVars, reportVars, queued, spent>>
            BY <1>3, <2>2 DEF EnterTier, Working, userVars, passVars, reportVars
        <2> QED BY <1>3, <2>1, <2>2 DEF EnterTier
    <1>4. CASE Connect \/ queryPluginState \/ queryPluginServices \/ ListInstalled
        BY <1>4
           DEF Connect, queryPluginState, queryPluginServices, ListInstalled, Query, Prepare,
               Working, userVars, queueVars, passVars, reportVars
    <1>5. CASE CreatePlugin
        <2>1. CASE PluginsFailed
            BY <1>1, <2>1
        <2>2. CASE Prepare /\ UNCHANGED <<userVars, queueVars>>
            BY <1>5, <2>2 DEF CreatePlugin, Prepare, Working, userVars, queueVars, passVars, reportVars
        <2> QED BY <1>5, <2>1, <2>2 DEF CreatePlugin, Statement, Refused
    <1>6. CASE AddService \/ BindService \/ SetMigrationContext
        <2>0. pc \in {"prepare", "bind"}
            BY <1>6 DEF AddService, BindService, SetMigrationContext
        <2>1. CASE UNCHANGED <<pc, passVars, reportVars, userVars, queueVars>>
            BY <2>0, <2>1 DEF Working, userVars, queueVars, passVars, reportVars
        <2> QED BY <1>1, <1>6, <2>1
                DEF AddService, BindService, SetMigrationContext, Statement
    <1>7. CASE MigrateTo
        <2>1. CASE pc' = "services" /\ UNCHANGED <<passVars, reportVars, userVars, queueVars>>
            BY <1>7, <2>1 DEF MigrateTo, Working, userVars, queueVars, passVars, reportVars
        <2> QED BY <1>1, <1>7, <2>1 DEF MigrateTo, Statement
    <1>8. CASE AlreadyEnabled \/ EnablePlugin
        <2>0. pc = "bind"
            BY <1>8 DEF AlreadyEnabled, EnablePlugin
        <2>1. CASE NextPlugin /\ UNCHANGED <<userVars, queueVars>>
            BY <2>0, <2>1 DEF NextPlugin, Working, userVars, queueVars, passVars, reportVars
        <2> QED BY <1>1, <1>8, <2>1 DEF AlreadyEnabled, EnablePlugin, Query, Statement, Refused
    <1>9. CASE DisableObsolete \/ DropObsolete
        <2>0. pc \in DropSteps /\ pc \notin {"idle", "report"} /\ UNCHANGED <<userVars, queueVars>>
            BY <1>9 DEF DisableObsolete, DropObsolete, DropStatement, DropSteps
        <2>1. CASE pc' \in {"drop", "dropdisabled"} /\ UNCHANGED <<passVars, reportVars>>
            BY <2>0, <2>1 DEF Working, userVars, queueVars, passVars, reportVars
        <2> QED BY <1>2, <1>9, <2>0, <2>1 DEF DisableObsolete, DropObsolete, DropStatement
    <1>10. CASE AllDropped
        BY <1>2, <1>10 DEF AllDropped, Query, DropSteps
    <1>11. CASE StatementFails
        BY <1>1, <1>2, <1>11 DEF StatementFails
    <1>12. CASE RequeueAfterElapses \/ Resync \/ EditSpec
        BY <1>12
           DEF RequeueAfterElapses, Resync, EditSpec, Woken, localVars, passVars, reportVars
    <1>13. CASE Restart
        BY <1>13 DEF Restart, ClearLocals, Ended
    <1> QED BY <1>3, <1>4, <1>5, <1>6, <1>7, <1>8, <1>9, <1>10, <1>11, <1>12, <1>13
            DEF Next, Worker, reconcilePlugin, dropObsoletePlugins

(* When the tiers list the same versions, a step of a pass keeps every     *)
(* version of its spec ready that is.                                      *)
LEMMA ReadyStays ==
    ASSUME SameVersions, PluginInv, [Next]_vars, pc # "idle",
           NEW u \in TiersOf(want), NEW i \in IdsOf(u), NEW t, Ready(i, t)
    PROVE  ReadyNext(i, t)
    <1>0. PassOK /\ LocalInv /\ want \in Specs /\ tier \in TiersOf(want)
        BY TierFacts DEF PluginInv, LocalInv
    <1>1. i \in Ids
        BY <1>0, ListedFacts DEF IdsOf
    <1>2. CASE db' = db
        BY <1>2 DEF Ready, ReadyNext
    <1>3. ASSUME NEW k \in Ids, TablesChange(k)
          PROVE  ReadyNext(i, t)
        <2>1. CASE i # k
            BY <1>1, <1>3, <2>1 DEF TablesChange, OnlyRow, Ready, ReadyNext
        <2>2. CASE i = k
            <3>1. ~Dropping(k)
                <4> SUFFICES ASSUME pc \in DropSteps PROVE k \in IdsOf(tier)
                    BY DEF Dropping
                <4>1. tier.plugins # <<>>
                    BY <1>0 DEF PassOK
                <4> QED BY <1>0, <2>2, <4>1 DEF SameVersions
            <3>2. ~Created(k)
                BY <1>1, <2>2 DEF Created, Ready, PluginInv, DbInv, TablesOK, NotInstalled
            <3>3. Configured(k)
                BY <1>3, <2>2, <3>1, <3>2
                   DEF TablesChange, Migrated, Enabled, Disabled, Dropped, Ready
            <3> QED BY <2>2, <3>3 DEF Configured, Ready, ReadyNext
        <2> QED BY <2>1, <2>2
    <1> QED BY <1>2, <1>3, TablesStep

(* So what a pass has found stays true. *)
LEMMA ReportedStays ==
    ASSUME SameVersions, PluginInv, ReportInv, [Next]_vars, pc # "idle",
           NEW j \in DOMAIN tierStatuses, NEW p \in DOMAIN tierStatuses[j]
    PROVE  /\ Id(tierStatuses[j][p]) \in IdsOf(want[j])
           /\ ReadyNext(Id(tierStatuses[j][p]), want[j].name)
    <1>1. /\ want \in Specs /\ ti \in 1..Len(want) /\ Len(want) \in Nat
          /\ DOMAIN want = 1..Len(want)
        BY TierFacts DEF PluginInv, LocalInv
    <1>2. /\ tierStatuses \in Seq(AllStatuses) /\ Len(tierStatuses) = TiersThrough
          /\ Reported(want, tierStatuses)
        BY DEF ReportInv
    <1>3. j \in 1..TiersThrough
        BY <1>2
    <1>4. j \in DOMAIN want
        BY <1>1, <1>3 DEF TiersThrough
    <1>5. want[j] \in TiersOf(want)
        BY <1>4 DEF TiersOf
    <1>6. /\ Id(tierStatuses[j][p]) \in IdsOf(want[j])
          /\ Ready(Id(tierStatuses[j][p]), want[j].name)
        BY <1>2 DEF Reported
    <1> QED BY <1>5, <1>6, ReadyStays

(* Appending the status of the tier that is done. *)
LEMMA FinishedStep ==
    ASSUME SameVersions, PluginInv, ReportInv, [Next]_vars, Finished
    PROVE  ReportInv'
    <1>0. pc # "idle" /\ pc # "report" /\ PassOK
        BY DEF Finished, PluginInv, LocalInv
    <1>1. PICK a \in {<<>>, Statuses(tier)}, b \in BOOLEAN :
              TierDone(a, b) /\ (a = <<>> \/ (pc \in DropSteps /\ a = Statuses(tier)))
        BY DEF Finished
    <1>2. /\ want \in Specs /\ tier \in TiersOf(want) /\ ti \in 1..Len(want)
          /\ Len(want) \in Nat /\ DOMAIN want = 1..Len(want) /\ ti \in Nat
        BY <1>0, TierFacts
    <1>3. /\ tierStatuses' = Append(tierStatuses, a) /\ want' = want
          /\ pc' \in {"tier", "report"}
          /\ pc' = "tier" => ti' = ti + 1
          /\ pc' = "report" => ti' = ti
        BY <1>1 DEF TierDone
    <1>4. a \in AllStatuses
        BY <1>1, <1>2 DEF AllStatuses
    <1>5. /\ tierStatuses \in Seq(AllStatuses) /\ Len(tierStatuses) = ti - 1
          /\ queued \/ want = spec
        BY <1>0 DEF ReportInv, TiersThrough
    <1>6. /\ tierStatuses' \in Seq(AllStatuses) /\ Len(tierStatuses') = ti
          /\ DOMAIN tierStatuses' = 1..ti
          /\ DOMAIN tierStatuses = 1..(ti - 1)
          /\ \A j \in 1..(ti - 1) : tierStatuses'[j] = tierStatuses[j]
          /\ tierStatuses'[ti] = a
        BY <1>2, <1>3, <1>4, <1>5
    <1>7. TiersThrough' = ti
        BY <1>2, <1>3 DEF TiersThrough
    <1>8. ASSUME NEW j \in 1..ti, NEW p \in DOMAIN tierStatuses'[j]
          PROVE  /\ Id(tierStatuses'[j][p]) \in IdsOf(want[j])
                 /\ ReadyNext(Id(tierStatuses'[j][p]), want[j].name)
        <2>1. CASE j # ti
            <3>1. j \in DOMAIN tierStatuses /\ tierStatuses'[j] = tierStatuses[j]
                BY <1>2, <1>6, <2>1
            <3> QED BY <1>0, <1>8, <3>1, ReportedStays
        <2>2. CASE j = ti
            <3>1. pc \in DropSteps /\ tierStatuses'[j] = Statuses(tier) /\ want[j] = tier
                BY <1>1, <1>6, <1>8, <2>2 DEF tier
            <3>2. p \in DOMAIN tier.plugins
                BY <1>8, <3>1 DEF Statuses
            <3>3. Id(tierStatuses'[j][p]) = Id(tier.plugins[p])
                BY <3>1, <3>2 DEF Statuses, Id
            <3>4. Ready(Id(tier.plugins[p]), tier.name) /\ Id(tier.plugins[p]) \in IdsOf(tier)
                BY <1>0, <3>1, <3>2, TierFacts DEF PluginInv, LocalInv, DoneOK
            <3> QED BY <1>0, <1>2, <3>1, <3>3, <3>4, ReadyStays
        <2> QED BY <2>1, <2>2
    <1>9. Reported(want, tierStatuses)'
        BY <1>3, <1>6, <1>8 DEF Reported, Ready, ReadyNext
    <1>10. (queued \/ want = spec)' /\ ~AtRest' /\ pc' # "idle"
        BY <1>3, <1>5 DEF Finished, AtRest
    <1> QED BY <1>6, <1>7, <1>9, <1>10 DEF ReportInv

(* Every step preserves what the report says. *)
LEMMA ReportStep ==
    ASSUME SameVersions, PluginInv, ReportInv, [Next]_vars
    PROVE  ReportInv'
    <1>1. CASE Working
        <2>1. /\ pc # "idle" /\ pc' # "idle" /\ ~AtRest' /\ TiersThrough' = TiersThrough
              /\ UNCHANGED <<want, tierStatuses>>
              /\ (queued \/ want = spec)'
            BY <1>1 DEF Working, AtRest, TiersThrough, ReportInv
        <2>2. Reported(want, tierStatuses)'
            BY <2>1, ReportedStays DEF Reported, Ready, ReadyNext
        <2> QED BY <2>1, <2>2 DEF ReportInv
    <1>2. CASE Ended
        BY <1>2 DEF Ended, ReportInv, AtRest
    <1>3. CASE Report
        <2>1. /\ pc = "report" /\ pc' = "idle" /\ tierStatuses' = <<>> /\ db' = db /\ spec' = spec
              /\ (queued => queued') /\ (queued' \/ status'.tiers = tierStatuses)
            <3>1. /\ pc = "report" /\ pc' = "idle" /\ tierStatuses' = <<>>
                  /\ db' = db /\ spec' = spec
                BY <1>3 DEF Report, ClearLocals, userVars
            <3>2. \/ PatchStatus([tiers |-> tierStatuses, ready |-> allReady])
                  \/ queued' = TRUE
                BY <1>3 DEF Report
            <3>3. CASE PatchStatus([tiers |-> tierStatuses, ready |-> allReady])
                <4>1. status'.tiers = tierStatuses
                    BY <3>3 DEF PatchStatus
                <4>2. queued => queued'
                    BY <3>3 DEF PatchStatus
                <4> QED BY <3>1, <4>1, <4>2
            <3>4. CASE queued' = TRUE
                BY <3>1, <3>4
            <3> QED BY <3>2, <3>3, <3>4
        <2>2. ASSUME AtRest'
              PROVE  Reported(spec, status.tiers)'
            <3>1. want = spec /\ Reported(want, tierStatuses) /\ status'.tiers = tierStatuses
                BY <2>1, <2>2 DEF AtRest, ReportInv
            <3> QED BY <2>1, <3>1 DEF Reported, Ready
        <2> QED BY <2>1, <2>2 DEF ReportInv
    <1>4. CASE BeginPass
        <2>1. /\ pc' = "tier" /\ want' = spec /\ spec' = spec /\ ti' = 1
              /\ tierStatuses' = <<>>
            BY <1>4 DEF BeginPass, ReportInv, userVars, reportVars
        <2>2. <<>> \in Seq(AllStatuses) /\ Len(<<>>) = 0 /\ DOMAIN <<>> = {}
            OBVIOUS
        <2>3. TiersThrough' = 0
            BY <2>1 DEF TiersThrough
        <2>4. Reported(want, tierStatuses)'
            BY <2>1, <2>2 DEF Reported
        <2> QED BY <2>1, <2>2, <2>3, <2>4 DEF ReportInv, AtRest
    <1>5. CASE Finished
        BY <1>5, FinishedStep
    <1>6. CASE Woken
        <2>1. ~AtRest' /\ UNCHANGED <<db, pc, want, ti, tierStatuses>> /\ queued'
            BY <1>6 DEF Woken, AtRest
        <2>2. TiersThrough' = TiersThrough
            BY <2>1 DEF TiersThrough
        <2>3. Reported(want, tierStatuses) => Reported(want, tierStatuses)'
            BY <2>1 DEF Reported, Ready
        <2> QED BY <2>1, <2>2, <2>3 DEF ReportInv
    <1>7. CASE UNCHANGED vars
        <2>1. UNCHANGED <<spec, db, status, queued, timer, pc, want, ti, tierStatuses>>
            BY <1>7 DEF vars, userVars, queueVars, localVars, passVars, reportVars
        <2>2. UNCHANGED <<TiersThrough, AtRest>>
            BY <2>1 DEF TiersThrough, AtRest
        <2>3. /\ Reported(want, tierStatuses) => Reported(want, tierStatuses)'
              /\ Reported(spec, status.tiers) => Reported(spec, status.tiers)'
            BY <2>1 DEF Reported, Ready
        <2> QED BY <2>1, <2>2, <2>3 DEF ReportInv
    <1>8. pc = "idle" => tierStatuses = <<>>
        BY DEF ReportInv
    <1> QED BY <1>1, <1>2, <1>3, <1>4, <1>5, <1>6, <1>7, <1>8, ReportKinds

(* When the tiers with plugins list the same versions, the status of a     *)
(* cluster at rest tells the truth: a plugin it shows for a tier is        *)
(* enabled and runs there, whatever was edited, failed or interrupted      *)
(* before (Reconcile, reconcileTierPlugins).                               *)
THEOREM PluginStatusIsTrue ==
    ASSUME SameVersions
    PROVE  Spec => []PluginStatusTruthful
    <1>1. Init => ReportInv
        BY DEF Init, ReportInv, AtRest
    <1>2. PluginInv /\ ReportInv /\ [Next]_vars => ReportInv'
        BY ReportStep
    <1>3. ReportInv => PluginStatusTruthful
        BY DEF ReportInv, PluginStatusTruthful, Reported, Ready
    <1> QED BY <1>1, <1>2, <1>3, PluginInvariant, PTL DEF Spec
=============================================================================
